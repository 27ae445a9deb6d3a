--------------------------- MODULE MCFoundations ---------------------------
(****************************************************************************)
(* The foundation components on small instances, with those that show people*)
(* figures, verdicts and what waits for them. They do not share state here: *)
(* each behaviour checks one of them, in the scene its first state picks, and*)
(* a property says what holds in the scenes it names.                       *)
(****************************************************************************)
EXTENDS Integers, Sequences, FiniteSets, TLC

CONSTANTS Scenes,
          i1, i2, digest, upload, company, sales, c1, c2, c3, c4, co, east, west, none, eve,
          adm, ai, k1, o, f, g1, root, d1, d2, d3, n1, n2, x1, x2, e1, e2, q1, q2, u1, u2,
          u3, o1, o2, b1, b2, l1, l2, p1, v1, v2, daily, reasoning, safe, inner, sec, k2,
          k3, j1, j2, q3, s1, s2, s3, ann, bob, old, revised, finance, hall, budget

\* Statements on two views: sound ones, with limits and rows, and one of each unsound kind.
Sql(n, k, w, t, q, l, r) == [statements |-> n, kind |-> k, writes |-> w, tables |-> t,
                             qualified |-> q, limit |-> l, rows |-> r]
Rows3 == <<[n |-> "number"], [n |-> "number", m |-> "text"], [n |-> "text"]>>
Rows2 == <<[n |-> "number", m |-> "text"], [n |-> "number"]>>
Statements == {Sql(1, "select", FALSE, {v1}, FALSE, -1, Rows3), Sql(1, "union", FALSE, {v1, v2}, FALSE, 9, Rows3),
               Sql(1, "select", FALSE, {v2}, FALSE, 1, Rows2), Sql(1, "select", FALSE, {v1}, TRUE, -1, Rows2),
               Sql(2, "select", FALSE, {v1}, FALSE, 1, Rows2), Sql(1, "select", TRUE, {v1}, FALSE, -1, Rows2),
               Sql(1, "delete", TRUE, {v1}, FALSE, -1, <<>>), Sql(1, "select", FALSE, {}, FALSE, -1, <<>>)}
Catalogues == {[json |-> TRUE, views |-> {v1, v2}], [json |-> TRUE, views |-> {}], [json |-> FALSE, views |-> {v2}]}

\* A company with two departments; who is placed where, and whose bases there are.
Paths == co :> <<co>> @@ east :> <<co, east>> @@ west :> <<co, west>>
PlacedOne == eve :> east
OwnOne == eve :> o
PlacedTwo == adm :> none @@ ai :> east
OwnTwo == adm :> o

NoRecord == [x \in {} |-> none]
Chain == x1 :> root @@ x2 :> x1
Names == x1 :> n1 @@ x2 :> n2

FirstId == u1 :> o1
BothIds == u1 :> o1 @@ u2 :> o2

OfHttp == [c \in {c1, c2} |-> "http_api"]
FirstSource == c1 :> [code |-> k1, url |-> inner, secret |-> sec, owner |-> e1]
FirstTerm == d1 :> n1
\* Tokens of two keys: one whose role may have its scope, one that lasts longer.
Ceilings == "viewer" :> {"read"} @@ "editor" :> {"read", "draft"}
ClaimsOf(k, s, r, e) == [sound |-> TRUE, kid |-> k, session |-> s, role |-> r, scopes |-> {"read"},
                         iat |-> 0, nbf |-> 0, exp |-> e]
TokenClaims == x1 :> ClaimsOf(k1, v1, "viewer", 3) @@ x2 :> ClaimsOf(k2, v1, "editor", 4)
NameRank == n1 :> 1 @@ n2 :> 2 @@ x1 :> 3
Mentions == {{n1}, {x1}, {n1, n2}}

\* Workbooks: their rows, with cells that are good, blank or no value.
Cells(c, d, a, b, r) == [key |-> <<d, "game">>, cells |-> c, dau |-> a, fresh |-> b, kept |-> r]
BothSheets == q1 :> "excel" @@ q2 :> "excel" @@ q3 :> "excel"
Sheets == q1 :> <<Cells("good", 1, 10, 5, 30), Cells("blank", 1, -1, -1, -1), Cells("bad", 2, 0, 0, 0),
                  Cells("good", 2, 6, 5, 10), Cells("good", 2, 10, 9, 30)>>
       @@ q2 :> <<Cells("good", 2, 3, 2, -1), Cells("good", 1, 10, -1, 30)>>
       @@ q3 :> <<Cells("good", 2, 6, 2, 30)>>
SheetAndFeed == q1 :> "excel" @@ q2 :> "thinkingdata" @@ q3 :> "excel"
Crossed == q1 :> <<Cells("good", 1, 10, 5, 30), Cells("good", 2, 7, 5, 25)>>
        @@ q2 :> <<Cells("good", 2, 5, 5, -1), Cells("good", 1, 12, -1, -1)>>
        @@ q3 :> <<Cells("good", 1, 10, 4, 30), Cells("raises", 2, 0, 0, 0)>>

\* Three tasks that wait for ann and a resolution; two items to mark.
Roles == ann :> "executive" @@ bob :> "staff" @@ root :> "admin"
DeskKind == s1 :> "task" @@ s2 :> "task" @@ s3 :> "task" @@ k1 :> "resolution" @@ k2 :> "collab"
DeskUrgency == s1 :> "normal" @@ s2 :> "normal" @@ s3 :> "normal" @@ k1 :> "normal" @@ k2 :> "low"
DeskCreated == s1 :> 1 @@ s2 :> 2 @@ s3 :> 3 @@ k1 :> 0 @@ k2 :> 4
DeskHolder == s1 :> {ann} @@ s2 :> {ann, bob} @@ s3 :> {ann} @@ k1 :> {} @@ k2 :> {bob}
Lists == {<<k1, k2>>, <<k2, k1>>, <<k2, k1, k2>>}
FlagSets == {[is_read |-> TRUE], [is_processed |-> TRUE], [is_read |-> FALSE, is_processed |-> TRUE]}

\* A prompt that is worse on every case, though good enough on the easiest to beat the old
\* one on the hardest; one that is better on a case.
Worse == old :> (k1 :> 5 @@ k2 :> 3 @@ k3 :> 2) @@ revised :> (k1 :> 4 @@ k2 :> 2 @@ k3 :> 1)
Mixed == old :> (k1 :> 3 @@ k2 :> 3 @@ k3 :> 2) @@ revised :> (k1 :> 4 @@ k2 :> 2 @@ k3 :> 1)

Seeded == {[code |-> "dir", name |-> "ann", prompt |-> "t"]}

VARIABLES scene,
          collabSupervisor, collabSupervised, collabRequest, collabChannel, collabSession,
          collabDone, collabAudit, collabCrashes, collabMisses,
          indexFile, indexChunks, indexFact, indexBase, indexIndexer, indexEvent,
          indexRemoved, indexFaults, indexRemovals,
          searchPc, searchCaller, searchRoute, searchVec, searchKw, searchSession,
          searchFused, searchTries, searchServed, searchError,
          accessBase, accessGrant, accessLies, accessAsk, accessClerk, accessAudit,
          accessMoves, accessEdits, accessOnce,
          queryConfig, queryStage, querySql, queryAllowed, queryTries, queryAnswer,
          queryTold, queryAudit, queryLost, queryFaults,
          orgNode, orgExpert, orgDirectory, orgMoves, orgReq,
          signAccount, signRequest, signLogin, signBinding, signHandle, signToken,
          signHanded,
          expertRow, expertRelease, expertRequest, expertTold, expertEdited, expertRemote,
          connectorRow, connectorExpert, connectorToken, connectorRequest, connectorEvent,
          connectorProbe, connectorPast, connectorFaults,
          term, termRequest, termEvent, termAudit, termLost, termSearch, termFaults,
          lodgeNow, lodgeKeys, lodgeSession, lodgeGone, lodgeClient, lodgeLock, lodgeCache,
          lodgeRequest, lodgeSought, lodgeFaults,
          providerCard, providerValue, providerRequest, providerUp, providerCache,
          providerOverlay,
          deskNow, deskStatus, deskRow, desk, deskMark,
          figureTable, figureDirty, figureRows, figureLoaded, figureOutcome, figurePast,
          figureCheck, figureDrafts,
          qualityPrompt, qualityAgreed, qualityCases, qualityJob, qualityFeedback,
          qualityReview

collabVars == <<collabSupervisor, collabSupervised, collabRequest, collabChannel, collabSession, collabDone,
                collabAudit, collabCrashes, collabMisses>>
indexVars == <<indexFile, indexChunks, indexFact, indexBase, indexIndexer, indexEvent, indexRemoved,
               indexFaults, indexRemovals>>
searchVars == <<searchPc, searchCaller, searchRoute, searchVec, searchKw, searchSession, searchFused,
                searchTries, searchServed, searchError>>
accessVars == <<accessBase, accessGrant, accessLies, accessAsk, accessClerk, accessAudit, accessMoves,
                accessEdits, accessOnce>>
queryVars == <<queryConfig, queryStage, querySql, queryAllowed, queryTries, queryAnswer, queryTold,
               queryAudit, queryLost, queryFaults>>
orgVars == <<orgNode, orgExpert, orgDirectory, orgMoves, orgReq>>
signVars == <<signAccount, signRequest, signLogin, signBinding, signHandle, signToken, signHanded>>
expertVars == <<expertRow, expertRelease, expertRequest, expertTold, expertEdited, expertRemote>>
connectorVars == <<connectorRow, connectorExpert, connectorToken, connectorRequest, connectorEvent,
                   connectorProbe, connectorPast, connectorFaults>>
termVars == <<term, termRequest, termEvent, termAudit, termLost, termSearch, termFaults>>
lodgeVars == <<lodgeNow, lodgeKeys, lodgeSession, lodgeGone, lodgeClient, lodgeLock, lodgeCache,
               lodgeRequest, lodgeSought, lodgeFaults>>
providerVars == <<providerCard, providerValue, providerRequest, providerUp, providerCache, providerOverlay>>
deskVars == <<deskNow, deskStatus, deskRow, desk, deskMark>>
figureVars == <<figureTable, figureDirty, figureRows, figureLoaded, figureOutcome, figurePast, figureCheck,
                figureDrafts>>
qualityVars == <<qualityPrompt, qualityAgreed, qualityCases, qualityJob, qualityFeedback, qualityReview>>
vars == <<scene, collabVars, indexVars, searchVars, accessVars, queryVars, orgVars, signVars, expertVars,
           connectorVars, termVars, lodgeVars, providerVars, deskVars, figureVars,
           qualityVars>>

\* A request between two departments, whose supervisors are replaced.
Supervised == INSTANCE Collaboration
    WITH Dept <- {sales, finance}, Person <- {ann, bob}, Administrator <- {},
         Request <- {q1}, Channel <- {hall}, Category <- {budget}, RedLine <- {budget},
         None <- none, MaxFaults <- 1, supervisor <- collabSupervisor,
         supervised <- collabSupervised, request <- collabRequest, channel <- collabChannel,
         session <- collabSession, done <- collabDone, audit <- collabAudit,
         crashes <- collabCrashes, misses <- collabMisses

\* A digest that is replayed beside an upload, with two indexers.
Index == INSTANCE KnowledgeIndex
    WITH Replayed <- {digest}, Uploaded <- {upload}, Base <- {company, sales},
         Home <- company, Indexer <- {i1, i2}, MaxFaults <- 1, MaxRemovals <- 1,
         file <- indexFile, chunks <- indexChunks, fact <- indexFact, base <- indexBase,
         indexer <- indexIndexer, event <- indexEvent, removed <- indexRemoved,
         faults <- indexFaults, removals <- indexRemovals

\* All rankings of four chunks by the two arms.
Fuses == INSTANCE KnowledgeRetrieval
    WITH Chunk <- {c1, c2, c3, c4}, TopK <- 2, CandN <- 3, K <- 2, Pool <- 2, Hybrid <- TRUE,
         Rerank <- FALSE, Trgm <- TRUE, Postgres <- TRUE, Callers <- {"ask"},
         Routes <- {"local"}, Retries <- 0, pc <- searchPc, caller <- searchCaller,
         route <- searchRoute, vec <- searchVec, kw <- searchKw, session <- searchSession,
         fused <- searchFused, tries <- searchTries, served <- searchServed,
         error <- searchError
\* The same with a constant that tells ranks apart.
Sharp == INSTANCE KnowledgeRetrieval
    WITH Chunk <- {c1, c2, c3, c4}, TopK <- 2, CandN <- 3, K <- 0, Pool <- 2, Hybrid <- TRUE,
         Rerank <- FALSE, Trgm <- TRUE, Postgres <- TRUE, Callers <- {"ask"},
         Routes <- {"local"}, Retries <- 0, pc <- searchPc, caller <- searchCaller,
         route <- searchRoute, vec <- searchVec, kw <- searchKw, session <- searchSession,
         fused <- searchFused, tries <- searchTries, served <- searchServed,
         error <- searchError
\* Reranking, without the extension, for every caller.
Reranks == INSTANCE KnowledgeRetrieval
    WITH Chunk <- {c1, c2, c3}, TopK <- 2, CandN <- 3, K <- 2, Pool <- 2, Hybrid <- TRUE,
         Rerank <- TRUE, Trgm <- FALSE, Postgres <- FALSE,
         Callers <- {"ask", "agent", "directive"}, Routes <- {"local", "none"}, Retries <- 0,
         pc <- searchPc, caller <- searchCaller, route <- searchRoute, vec <- searchVec,
         kw <- searchKw, session <- searchSession, fused <- searchFused,
         tries <- searchTries, served <- searchServed, error <- searchError
\* An agent searches here and there in Postgres.
Augments == INSTANCE KnowledgeRetrieval
    WITH Chunk <- {c1, c2, c3}, TopK <- 2, CandN <- 3, K <- 2, Pool <- 2, Hybrid <- TRUE,
         Rerank <- FALSE, Trgm <- FALSE, Postgres <- TRUE, Callers <- {"agent"},
         Routes <- {"local", "remote"}, Retries <- 2, pc <- searchPc, caller <- searchCaller,
         route <- searchRoute, vec <- searchVec, kw <- searchKw, session <- searchSession,
         fused <- searchFused, tries <- searchTries, served <- searchServed,
         error <- searchError
\* The knowledge gateway answers, fails and is tried again.
Gateway == INSTANCE KnowledgeRetrieval
    WITH Chunk <- {c1, c2, c3}, TopK <- 2, CandN <- 3, K <- 2, Pool <- 2, Hybrid <- TRUE,
         Rerank <- FALSE, Trgm <- TRUE, Postgres <- TRUE,
         Callers <- {"ask", "agent", "directive"}, Routes <- {"remote"}, Retries <- 2,
         pc <- searchPc, caller <- searchCaller, route <- searchRoute, vec <- searchVec,
         kw <- searchKw, session <- searchSession, fused <- searchFused,
         tries <- searchTries, served <- searchServed, error <- searchError

\* A person, a base and a grant; places and bases change.
People == INSTANCE KnowledgeAccess
    WITH Dept <- {co, east, west}, Path <- Paths, Nowhere <- none, Person <- {eve},
         Admin <- {}, Agent <- {}, Home <- PlacedOne, Base <- {k1}, Own <- OwnOne,
         Doc <- {f}, Grant <- {g1}, Moves <- 1, Edits <- 0, base <- accessBase,
         grant <- accessGrant, lies <- accessLies, ask <- accessAsk, clerk <- accessClerk,
         audit <- accessAudit, moves <- accessMoves, edits <- accessEdits, once <- accessOnce
\* An administrator and an agent search.
Admins == INSTANCE KnowledgeAccess
    WITH Dept <- {co, east, west}, Path <- Paths, Nowhere <- none, Person <- {adm},
         Admin <- {adm}, Agent <- {ai}, Home <- PlacedTwo, Base <- {k1}, Own <- OwnTwo,
         Doc <- {f}, Grant <- {}, Moves <- 1, Edits <- 1, base <- accessBase,
         grant <- accessGrant, lies <- accessLies, ask <- accessAsk, clerk <- accessClerk,
         audit <- accessAudit, moves <- accessMoves, edits <- accessEdits, once <- accessOnce

\* Statements of every kind, while an admin edits the views.
Queries == INSTANCE GovernedQuery
    WITH Query <- {q1, q2}, Statement <- Statements, Configs <- Catalogues,
         DefaultViews <- {v1}, MaxRows <- 2, MaxTries <- 2, MaxFaults <- 2,
         config <- queryConfig, stage <- queryStage, sql <- querySql,
         allowed <- queryAllowed, tries <- queryTries, answer <- queryAnswer,
         told <- queryTold, audit <- queryAudit, lost <- queryLost, faults <- queryFaults

\* Two requests change a tree made by hand.
Tree == INSTANCE OrganizationTree
    WITH Dept <- {root, d1, d2}, Root <- root, Name <- {n1, n2}, Template <- n1,
         External <- {}, ExtName <- NoRecord, Outside <- none, FirstDirectory <- NoRecord,
         Expert <- {e1}, PathLimit <- 6, Moves <- 0, Req <- {q1, q2}, node <- orgNode,
         expert <- orgExpert, directory <- orgDirectory, moves <- orgMoves, req <- orgReq
\* A directory of two records that change places.
Synced == INSTANCE OrganizationTree
    WITH Dept <- {root, d1, d2, d3}, Root <- root, Name <- {n1, n2}, Template <- n1,
         External <- {x1, x2}, ExtName <- Names, Outside <- none, FirstDirectory <- Chain,
         Expert <- {}, PathLimit <- 6, Moves <- 1, Req <- {q1}, node <- orgNode,
         expert <- orgExpert, directory <- orgDirectory, moves <- orgMoves, req <- orgReq

\* Two requests edit accounts while people sign in.
Accounts == INSTANCE SignIn
    WITH User <- {u1, u2}, Initial <- {u1}, OpenId <- {o1, o2}, InitialId <- FirstId,
         Request <- {q1, q2}, Change <- {"stop", "start", "bind"}, Browser <- {b1},
         Login <- {}, None <- none, account <- signAccount, request <- signRequest,
         login <- signLogin, binding <- signBinding, handle <- signHandle,
         token <- signToken, handed <- signHanded
\* Two administrators, one request at a time.
Keepers == INSTANCE SignIn
    WITH User <- {u1, u2, u3}, Initial <- {u1, u2}, OpenId <- {o1, o2}, InitialId <- BothIds,
         Request <- {q1}, Change <- {"stop", "start", "demote", "bind"}, Browser <- {b1, b2},
         Login <- {}, None <- none, account <- signAccount, request <- signRequest,
         login <- signLogin, binding <- signBinding, handle <- signHandle,
         token <- signToken, handed <- signHanded
\* Logins of two browsers overlap.
Logins == INSTANCE SignIn
    WITH User <- {u1, u2, u3}, Initial <- {u1, u2}, OpenId <- {o1, o2}, InitialId <- BothIds,
         Request <- {}, Change <- {}, Browser <- {b1, b2}, Login <- {l1, l2}, None <- none,
         account <- signAccount, request <- signRequest, login <- signLogin,
         binding <- signBinding, handle <- signHandle, token <- signToken,
         handed <- signHanded

\* Two requests create and edit experts; the seeds are planted again.
Managed == INSTANCE ExpertReleases
    WITH Expert <- {e1, e2}, Name <- {"ann", "bob"}, Code <- {"dir"}, NoCode <- none,
         Prompt <- {"p"}, Seed <- Seeded, Request <- {q1, q2}, MaxVersion <- 0,
         row <- expertRow, release <- expertRelease, request <- expertRequest,
         told <- expertTold, edited <- expertEdited, remote <- expertRemote
\* Two requests release one expert.
Released == INSTANCE ExpertReleases
    WITH Expert <- {e1}, Name <- {"ann"}, Code <- {"dir"}, NoCode <- none,
         Prompt <- {"p", "q"}, Seed <- {}, Request <- {q1, q2}, MaxVersion <- 2,
         row <- expertRow, release <- expertRelease, request <- expertRequest,
         told <- expertTold, edited <- expertEdited, remote <- expertRemote

\* Two requests about connectors, one of which is probed.
Connected == INSTANCE Connectors
    WITH Connector <- {c1, c2}, Code <- {k1}, Url <- {safe, inner}, SafeUrl <- {safe},
         Secret <- {sec}, Token <- {v1, v2}, Expert <- {e1}, Nobody <- none, Type <- OfHttp,
         Initial <- FirstSource, Request <- {q1, q2}, Probe <- {p1}, MaxFaults <- 1,
         row <- connectorRow, expert <- connectorExpert, token <- connectorToken,
         request <- connectorRequest, event <- connectorEvent, probe <- connectorProbe,
         past <- connectorPast, faults <- connectorFaults

\* Two requests about two terms, and a search.
Termed == INSTANCE SemanticTerms
    WITH Term <- {d1, d2}, Name <- {n1, n2, x1}, Rank <- NameRank,
         AliasSet <- {{}, {n2, x1}}, Initial <- FirstTerm, Request <- {q1, q2},
         Search <- {g1}, Query <- Mentions, MaxExpand <- 1, MaxFaults <- 2, term <- term,
         request <- termRequest, event <- termEvent, audit <- termAudit, lost <- termLost,
         search <- termSearch, faults <- termFaults

\* Two requests with a token, a key that is withdrawn, a session that is ended.
Lodge == INSTANCE LodgeIdentity
    WITH Token <- {x1}, Claims <- TokenClaims, Kid <- {k1}, FirstKeys <- {k1},
         Session <- {v1}, Ceiling <- Ceilings, MaxLife <- 4, KeyTtl <- 1, StatusTtl <- 1,
         Timeout <- 1, MaxEntries <- 1, Request <- {q1, q2}, LastTime <- 2, MaxFaults <- 1,
         now <- lodgeNow, keys <- lodgeKeys, session <- lodgeSession, gone <- lodgeGone,
         client <- lodgeClient, lock <- lodgeLock, cache <- lodgeCache,
         request <- lodgeRequest, sought <- lodgeSought, faults <- lodgeFaults
\* Two requests whose key may not be published yet.
NewKey == INSTANCE LodgeIdentity
    WITH Token <- {x2}, Claims <- TokenClaims, Kid <- {k1, k2}, FirstKeys <- {k1},
         Session <- {v1}, Ceiling <- Ceilings, MaxLife <- 4, KeyTtl <- 1, StatusTtl <- 1,
         Timeout <- 1, MaxEntries <- 1, Request <- {q1, q2}, LastTime <- 1, MaxFaults <- 0,
         now <- lodgeNow, keys <- lodgeKeys, session <- lodgeSession, gone <- lodgeGone,
         client <- lodgeClient, lock <- lodgeLock, cache <- lodgeCache,
         request <- lodgeRequest, sought <- lodgeSought, faults <- lodgeFaults

\* One request at a time; a process that crashes.
Kept == INSTANCE ProviderCards
    WITH Card <- (1..3), Tier <- {daily, reasoning}, Seeds <- <<daily, reasoning>>,
         Process <- {p1}, Request <- {q1},
         Kind <- {"delete", "stop", "start", "primary", "create", "edit", "test", "crash"},
         Value <- {v1, v2}, Initial <- <<daily, daily>>, None <- none, card <- providerCard,
         value <- providerValue, request <- providerRequest, up <- providerUp,
         cache <- providerCache, overlay <- providerOverlay
\* Two requests change one card.
Raced == INSTANCE ProviderCards
    WITH Card <- (1..1), Tier <- {daily, reasoning}, Seeds <- <<daily, reasoning>>,
         Process <- {p1}, Request <- {q1, q2}, Kind <- {"delete", "stop", "start", "test"},
         Value <- {v1}, Initial <- <<daily>>, None <- none, card <- providerCard,
         value <- providerValue, request <- providerRequest, up <- providerUp,
         cache <- providerCache, overlay <- providerOverlay

\* A desktop is read while what waits on it changes.
Desktop == INSTANCE WorkDesktop
    WITH Person <- {ann, bob}, Role <- Roles, Item <- {s1, s2, s3, k1}, Kind <- DeskKind,
         Urgency <- DeskUrgency, Created <- DeskCreated, Holder <- DeskHolder, Limit <- 2,
         FirstDay <- 3, LastDay <- 4, Load <- {l1}, Mark <- {}, Asked <- {}, Flags <- {},
         Marked <- {}, now <- deskNow, status <- deskStatus, row <- deskRow, desk <- desk,
         mark <- deskMark
\* Two requests of a person mark two items, with rows of earlier ones.
Marking == INSTANCE WorkDesktop
    WITH Person <- {ann}, Role <- Roles, Item <- {k1, k2}, Kind <- DeskKind,
         Urgency <- DeskUrgency, Created <- DeskCreated, Holder <- DeskHolder, Limit <- 2,
         FirstDay <- 3, LastDay <- 3, Load <- {}, Mark <- {q1, q2}, Asked <- Lists,
         Flags <- FlagSets, Marked <- {k1, k2}, now <- deskNow, status <- deskStatus,
         row <- deskRow, desk <- desk, mark <- deskMark

\* Two workbooks that overlap, with rows that repeat, and a check.
Figures == INSTANCE OperatingFigures
    WITH Writer <- {q1, q2, q3}, Source <- BothSheets, Book <- Sheets, Day <- {1, 2},
         Product <- {"game"}, DauDrop <- 30, NewDrop <- 40, Floor <- 20,
         table <- figureTable, dirty <- figureDirty, rows <- figureRows,
         loaded <- figureLoaded, outcome <- figureOutcome, past <- figurePast,
         check <- figureCheck, drafts <- figureDrafts
\* A workbook beside a synchronisation, in opposite orders.
Crossing == INSTANCE OperatingFigures
    WITH Writer <- {q1, q2, q3}, Source <- SheetAndFeed, Book <- Crossed, Day <- {1, 2},
         Product <- {"game"}, DauDrop <- 30, NewDrop <- 40, Floor <- 20,
         table <- figureTable, dirty <- figureDirty, rows <- figureRows,
         loaded <- figureLoaded, outcome <- figureOutcome, past <- figurePast,
         check <- figureCheck, drafts <- figureDrafts

\* Two comparisons of a prompt that is worse.
Compares == INSTANCE PromptQuality
    WITH Case <- {k1, k2, k3}, Prompt <- {old, revised}, First <- old, Score <- Worse,
         Job <- {j1, j2}, Record <- {q1}, Rater <- {ann}, MaxMarks <- 1, Review <- {},
         Fault <- {}, prompt <- qualityPrompt, agreed <- qualityAgreed,
         cases <- qualityCases, job <- qualityJob, feedback <- qualityFeedback,
         review <- qualityReview
\* A comparison while cases and the prompt change and executions fail.
Edits == INSTANCE PromptQuality
    WITH Case <- {k1, k2, k3}, Prompt <- {old, revised}, First <- old, Score <- Mixed,
         Job <- {j1}, Record <- {q1}, Rater <- {ann}, MaxMarks <- 1, Review <- {},
         Fault <- {"edit", "fail"}, prompt <- qualityPrompt, agreed <- qualityAgreed,
         cases <- qualityCases, job <- qualityJob, feedback <- qualityFeedback,
         review <- qualityReview

\* The components of the other scenes have no state.
Idle(x) == x = "idle"
Init ==
    /\ scene \in Scenes
    /\ IF scene = "supervisors" THEN Supervised!Init
       ELSE Idle(collabSupervisor) /\ Idle(collabSupervised) /\ Idle(collabRequest) /\
            Idle(collabChannel) /\ Idle(collabSession) /\ Idle(collabDone) /\
            Idle(collabAudit) /\ Idle(collabCrashes) /\ Idle(collabMisses)
    /\ IF scene = "index" THEN Index!Init
       ELSE Idle(indexFile) /\ Idle(indexChunks) /\ Idle(indexFact) /\ Idle(indexBase) /\
            Idle(indexIndexer) /\ Idle(indexEvent) /\ Idle(indexRemoved) /\
            Idle(indexFaults) /\ Idle(indexRemovals)
    /\ CASE scene = "fuses" -> Fuses!Init
         [] scene = "sharp" -> Sharp!Init
         [] scene = "reranks" -> Reranks!Init
         [] scene = "augments" -> Augments!Init
         [] scene = "gateway" -> Gateway!Init
         [] OTHER -> Idle(searchPc) /\ Idle(searchCaller) /\ Idle(searchRoute) /\
                     Idle(searchVec) /\ Idle(searchKw) /\ Idle(searchSession) /\
                     Idle(searchFused) /\ Idle(searchTries) /\ Idle(searchServed) /\
                     Idle(searchError)
    /\ CASE scene = "people" -> People!Init
         [] scene = "admins" -> Admins!Init
         [] OTHER -> Idle(accessBase) /\ Idle(accessGrant) /\ Idle(accessLies) /\
                     Idle(accessAsk) /\ Idle(accessClerk) /\ Idle(accessAudit) /\
                     Idle(accessMoves) /\ Idle(accessEdits) /\ Idle(accessOnce)
    /\ IF scene = "queries" THEN Queries!Init
       ELSE Idle(queryConfig) /\ Idle(queryStage) /\ Idle(querySql) /\ Idle(queryAllowed) /\
            Idle(queryTries) /\ Idle(queryAnswer) /\ Idle(queryTold) /\ Idle(queryAudit) /\
            Idle(queryLost) /\ Idle(queryFaults)
    /\ CASE scene = "tree" -> Tree!Init
         [] scene = "syncs" -> Synced!Init
         [] OTHER -> Idle(orgNode) /\ Idle(orgExpert) /\ Idle(orgDirectory) /\
                     Idle(orgMoves) /\ Idle(orgReq)
    /\ CASE scene = "accounts" -> Accounts!Init
         [] scene = "keepers" -> Keepers!Init
         [] scene = "logins" -> Logins!Init
         [] OTHER -> Idle(signAccount) /\ Idle(signRequest) /\ Idle(signLogin) /\
                     Idle(signBinding) /\ Idle(signHandle) /\ Idle(signToken) /\
                     Idle(signHanded)
    /\ CASE scene = "managed" -> Managed!Init
         [] scene = "released" -> Released!Init
         [] OTHER -> Idle(expertRow) /\ Idle(expertRelease) /\ Idle(expertRequest) /\
                     Idle(expertTold) /\ Idle(expertEdited) /\ Idle(expertRemote)
    /\ IF scene = "connectors" THEN Connected!Init
       ELSE Idle(connectorRow) /\ Idle(connectorExpert) /\ Idle(connectorToken) /\
            Idle(connectorRequest) /\ Idle(connectorEvent) /\ Idle(connectorProbe) /\
            Idle(connectorPast) /\ Idle(connectorFaults)
    /\ IF scene = "terms" THEN Termed!Init
       ELSE Idle(term) /\ Idle(termRequest) /\ Idle(termEvent) /\ Idle(termAudit) /\
            Idle(termLost) /\ Idle(termSearch) /\ Idle(termFaults)
    /\ CASE scene = "lodge" -> Lodge!Init
         [] scene = "newkey" -> NewKey!Init
         [] OTHER -> Idle(lodgeNow) /\ Idle(lodgeKeys) /\ Idle(lodgeSession) /\
                     Idle(lodgeGone) /\ Idle(lodgeClient) /\ Idle(lodgeLock) /\
                     Idle(lodgeCache) /\ Idle(lodgeRequest) /\ Idle(lodgeSought) /\
                     Idle(lodgeFaults)
    /\ CASE scene = "kept" -> Kept!Init
         [] scene = "raced" -> Raced!Init
         [] OTHER -> Idle(providerCard) /\ Idle(providerValue) /\ Idle(providerRequest) /\
                     Idle(providerUp) /\ Idle(providerCache) /\ Idle(providerOverlay)
    /\ CASE scene = "desktop" -> Desktop!Init
         [] scene = "marking" -> Marking!Init
         [] OTHER -> Idle(deskNow) /\ Idle(deskStatus) /\ Idle(deskRow) /\ Idle(desk) /\
                     Idle(deskMark)
    /\ CASE scene = "figures" -> Figures!Init
         [] scene = "crossing" -> Crossing!Init
         [] OTHER -> Idle(figureTable) /\ Idle(figureDirty) /\ Idle(figureRows) /\
                     Idle(figureLoaded) /\ Idle(figureOutcome) /\ Idle(figurePast) /\
                     Idle(figureCheck) /\ Idle(figureDrafts)
    /\ CASE scene = "compares" -> Compares!Init
         [] scene = "edits" -> Edits!Init
         [] OTHER -> Idle(qualityPrompt) /\ Idle(qualityAgreed) /\ Idle(qualityCases) /\
                     Idle(qualityJob) /\ Idle(qualityFeedback) /\ Idle(qualityReview)

Next ==
    \/ /\ scene = "supervisors" /\ Supervised!Next
       /\ UNCHANGED <<scene, indexVars, searchVars, accessVars, queryVars, orgVars, signVars, expertVars, connectorVars,
                              termVars, lodgeVars, providerVars, deskVars, figureVars,
                              qualityVars>>
    \/ /\ scene = "index" /\ Index!Next
       /\ UNCHANGED <<scene, collabVars, searchVars, accessVars, queryVars, orgVars, signVars, expertVars, connectorVars,
                              termVars, lodgeVars, providerVars, deskVars, figureVars,
                              qualityVars>>
    \/ /\ \/ scene = "fuses" /\ Fuses!Next
          \/ scene = "sharp" /\ Sharp!Next
          \/ scene = "reranks" /\ Reranks!Next
          \/ scene = "augments" /\ Augments!Next
          \/ scene = "gateway" /\ Gateway!Next
       /\ UNCHANGED <<scene, collabVars, indexVars, accessVars, queryVars, orgVars, signVars, expertVars, connectorVars,
                              termVars, lodgeVars, providerVars, deskVars, figureVars,
                              qualityVars>>
    \/ /\ \/ scene = "people" /\ People!Next
          \/ scene = "admins" /\ Admins!Next
       /\ UNCHANGED <<scene, collabVars, indexVars, searchVars, queryVars, orgVars, signVars, expertVars, connectorVars,
                              termVars, lodgeVars, providerVars, deskVars, figureVars,
                              qualityVars>>
    \/ /\ scene = "queries" /\ Queries!Next
       /\ UNCHANGED <<scene, collabVars, indexVars, searchVars, accessVars, orgVars, signVars, expertVars, connectorVars,
                              termVars, lodgeVars, providerVars, deskVars, figureVars,
                              qualityVars>>
    \/ /\ \/ scene = "tree" /\ Tree!Next
          \/ scene = "syncs" /\ Synced!Next
       /\ UNCHANGED <<scene, collabVars, indexVars, searchVars, accessVars, queryVars, signVars, expertVars,
                              connectorVars, termVars, lodgeVars, providerVars, deskVars,
                              figureVars, qualityVars>>
    \/ /\ \/ scene = "accounts" /\ Accounts!Next
          \/ scene = "keepers" /\ Keepers!Next
          \/ scene = "logins" /\ Logins!Next
       /\ UNCHANGED <<scene, collabVars, indexVars, searchVars, accessVars, queryVars, orgVars, expertVars,
                              connectorVars, termVars, lodgeVars, providerVars, deskVars,
                              figureVars, qualityVars>>
    \/ /\ \/ scene = "managed" /\ Managed!Next
          \/ scene = "released" /\ Released!Next
       /\ UNCHANGED <<scene, collabVars, indexVars, searchVars, accessVars, queryVars, orgVars, signVars, connectorVars,
                              termVars, lodgeVars, providerVars, deskVars, figureVars,
                              qualityVars>>
    \/ /\ scene = "connectors" /\ Connected!Next
       /\ UNCHANGED <<scene, collabVars, indexVars, searchVars, accessVars, queryVars, orgVars, signVars, expertVars,
                              termVars, lodgeVars, providerVars, deskVars, figureVars,
                              qualityVars>>
    \/ /\ scene = "terms" /\ Termed!Next
       /\ UNCHANGED <<scene, collabVars, indexVars, searchVars, accessVars, queryVars, orgVars, signVars, expertVars,
                              connectorVars, lodgeVars, providerVars, deskVars, figureVars,
                              qualityVars>>
    \/ /\ \/ scene = "lodge" /\ Lodge!Next
          \/ scene = "newkey" /\ NewKey!Next
       /\ UNCHANGED <<scene, collabVars, indexVars, searchVars, accessVars, queryVars, orgVars, signVars, expertVars,
                              connectorVars, termVars, providerVars, deskVars, figureVars,
                              qualityVars>>
    \/ /\ \/ scene = "kept" /\ Kept!Next
          \/ scene = "raced" /\ Raced!Next
       /\ UNCHANGED <<scene, collabVars, indexVars, searchVars, accessVars, queryVars, orgVars, signVars, expertVars,
                              connectorVars, termVars, lodgeVars, deskVars, figureVars,
                              qualityVars>>
    \/ /\ \/ scene = "desktop" /\ Desktop!Next
          \/ scene = "marking" /\ Marking!Next
       /\ UNCHANGED <<scene, collabVars, indexVars, searchVars, accessVars, queryVars, orgVars, signVars, expertVars,
                              connectorVars, termVars, lodgeVars, providerVars, figureVars,
                              qualityVars>>
    \/ /\ \/ scene = "figures" /\ Figures!Next
          \/ scene = "crossing" /\ Crossing!Next
       /\ UNCHANGED <<scene, collabVars, indexVars, searchVars, accessVars, queryVars, orgVars, signVars, expertVars,
                              connectorVars, termVars, lodgeVars, providerVars, deskVars,
                              qualityVars>>
    \/ /\ \/ scene = "compares" /\ Compares!Next
          \/ scene = "edits" /\ Edits!Next
       /\ UNCHANGED <<scene, collabVars, indexVars, searchVars, accessVars, queryVars, orgVars, signVars, expertVars,
                              connectorVars, termVars, lodgeVars, providerVars, deskVars,
                              figureVars>>

Spec == Init /\ [][Next]_vars

\* What each component assumes of its constants, at the values of its scenes.
ASSUME ScenesAssumption ==
    /\ Supervised!CollabPeopleAssumption
    /\ Supervised!CollabCategoryAssumption
    /\ Supervised!CollabBoundAssumption
    /\ Index!IndexDocumentAssumption
    /\ Index!IndexBoundAssumption
    /\ Fuses!RetrievalAssumption
    /\ Sharp!RetrievalAssumption
    /\ Reranks!RetrievalAssumption
    /\ Augments!RetrievalAssumption
    /\ Gateway!RetrievalAssumption
    /\ People!AccessAssumption
    /\ Admins!AccessAssumption
    /\ Queries!GovernedQueryAssumption
    /\ Tree!OrganizationAssumption
    /\ Synced!OrganizationAssumption
    /\ Accounts!SignInAssumption
    /\ Keepers!SignInAssumption
    /\ Logins!SignInAssumption
    /\ Managed!ReleaseAssumption
    /\ Released!ReleaseAssumption
    /\ Connected!ConnectorsAssumption
    /\ Termed!SemanticTermsAssumption
    /\ Lodge!LodgeIdentityAssumption
    /\ NewKey!LodgeIdentityAssumption
    /\ Kept!CardAssumption
    /\ Raced!CardAssumption
    /\ Desktop!WorkDesktopAssumption
    /\ Marking!WorkDesktopAssumption
    /\ Figures!OperatingFiguresAssumption
    /\ Crossing!OperatingFiguresAssumption
    /\ Compares!QualityAssumption
    /\ Edits!QualityAssumption

-----------------------------------------------------------------------------
\* However two indexers overlap (KnowledgeIndex), a document has the chunks of one text and
\* one that is indexed and was not removed is found.  A search (KnowledgeRetrieval) ranks
\* first what both arms rank first and never ranks a chunk above one that both arms prefer;
\* without keywords, without a gateway or after an error it is narrower, not empty; its
\* query is widened by the terms it mentions, whose names are kept apart (SemanticTerms).
KnowledgeIsFound ==
    /\ scene = "index" => /\ Index!TypeOK
                          /\ Index!OneTextPerDocument /\ Index!IndexedIsSearchable
    /\ scene = "fuses" => Fuses!BothFirst
    /\ scene = "sharp" => Sharp!Pareto
    /\ scene = "reranks" => Reranks!TypeOK /\ Reranks!KeywordsOptional
    /\ scene = "augments" => Augments!AgentGoesOn
    /\ scene = "gateway" => Gateway!NeverSilentlyEmpty
    /\ scene = "terms" => /\ Termed!TypeOK /\ Termed!NamesAreOwn /\ Termed!ChangesHold
                          /\ Termed!AnsweredIsAudited /\ Termed!ExpandsByMeaning

\* What a person's search cites was open to him when its bases were chosen, and a search of
\* an administrator beyond his own bases is on the audit trail (KnowledgeAccess).  The path
\* of a department, on which the visibility of a subtree rests, is the path of its parent
\* and itself (OrganizationTree).  A source is asked only what reads from the views of its
\* catalogue, and an answer has evidence (GovernedQuery); a connector's token goes only
\* where the connector had it go (Connectors).  Who reviews a collaboration supervised its
\* department (Collaboration: who is no administrator, while supervisors are replaced).
NeedToKnow ==
    /\ scene = "supervisors" => /\ Supervised!TypeOK /\ Supervised!ReviewerEntitled
                                /\ Supervised!AuditIsTrue /\ Supervised!LostRecordsAreCounted
    /\ scene = "people" => People!TypeOK /\ People!PeopleNeedToKnow
    /\ scene = "admins" => Admins!CrossSearchesAudited
    /\ scene = "tree" => Tree!TypeOK /\ Tree!PathsTrue
    /\ scene = "connectors" => /\ Connected!TypeOK /\ Connected!TokensGoTogether
                               /\ Connected!CodesAreOwn /\ Connected!ChangesHold
    /\ scene = "queries" => /\ Queries!TypeOK /\ Queries!AskedIsGoverned
                            /\ Queries!AnsweredIsEvident /\ Queries!TriesAreLimited
                            /\ Queries!CleanIsClean

\* One account for an identity, one administrator at least when they act one by one, and
\* the token of a login is handed once, to the browser that began it (SignIn).  What Lodge
\* took back is accepted no longer than its caches last (LodgeIdentity).
AccountsAreSafe ==
    /\ scene = "accounts" => Accounts!OneAccountEach
    /\ scene = "keepers" => Keepers!AdminRemains
    /\ scene = "lodge" => /\ Lodge!TypeOK /\ Lodge!EndedSessionsAreRefused
                          /\ Lodge!WithdrawnKeysAreForgotten
    /\ scene = "newkey" => NewKey!AcceptedIsValid /\ NewKey!LodgeIsSpared
    /\ scene = "logins" => Logins!TypeOK /\ Logins!HandedOnce /\ Logins!OwnToken

\* No two live experts share a name, the seeds never undo what an administrator edited, and
\* the source of a change is told (ExpertReleases); versions of a release are counted
\* without a gap and each can be released again.
ExpertsKeepTheirEdits ==
    /\ scene = "managed" => Managed!NoTwins /\ Managed!EditsSurvive /\ Managed!SourceIsTold
    /\ scene = "released" => /\ Released!TypeOK
                             /\ Released!VersionsCount /\ Released!Releasable

\* With one request at a time a tier that has active cards has one primary card, and a
\* process that is up knows the cards and the configuration as stored (ProviderCards).
ProvidersAreTold == scene = "kept" => Kept!TypeOK /\ Kept!OnePrimary /\ Kept!Told

\* What people are shown is true.  A prompt that is worse on every case is never reported as
\* better while the cases stay, and the prompt in force was agreed to by a person
\* (PromptQuality).  An upload is stored whole or not at all, and an alert is of figures that
\* were read (OperatingFigures).  A desktop leaves out nothing that waits, and marks hold
\* (WorkDesktop).
ShownIsTrue ==
    /\ scene = "desktop" => /\ Desktop!TypeOK /\ Desktop!DesksAreWhole
                            /\ Desktop!LongerWaitsFirst
    /\ scene = "marking" => Marking!TypeOK /\ Marking!MarksHold
    /\ scene = "compares" => Compares!Verdict
    /\ scene = "edits" => Edits!TypeOK /\ Edits!Confirmed
    /\ scene = "figures" => /\ Figures!TypeOK /\ Figures!StoredWhole
                            /\ Figures!StoredIsGiven /\ Figures!AlertsAreFounded
    /\ scene = "crossing" => /\ Crossing!StoredWhole
                             /\ Crossing!StoredIsGiven /\ Crossing!AlertsAreFounded

\* What no late save may undo: a stopped account or card starts only as somebody starts it
\* and a deleted card stays deleted; and a sync puts each record below its parent.
SavesUndoNothing ==
    [][/\ scene = "accounts" => Accounts!StopStays
       /\ scene = "raced" => Raced!GoneStays
       /\ scene = "syncs" => Synced!SyncPlaces]_vars
=============================================================================
