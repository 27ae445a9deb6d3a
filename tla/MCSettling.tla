--------------------------- MODULE MCSettling ---------------------------
(****************************************************************************)
(* What happens in the end: liveness of the components on small instances,  *)
(* one in each scene. Every component stands in its first state, only the one*)
(* of the scene moves, and fairness is asked of its actions alone.          *)
(****************************************************************************)
EXTENDS Integers, Sequences, FiniteSets, TLC

CONSTANTS Scenes,
          t1, t2, s1, s2, s3, s4, q1, q2, c1, c2, p1, p2, w1, ann, bob, hello, answer, l1,
          i1, digest, company, sales, j1, k1, k2, old, revised, v1, v2, none, parent

JoinDep == s1 :> {} @@ s2 :> {} @@ s3 :> {s1, s2}
ChainDep == s1 :> {} @@ s2 :> {s1} @@ s3 :> {} @@ s4 :> {s3}

OneHome == c1 :> p1 @@ c2 :> p1
Ways == c1 :> "expert" @@ c2 :> "gateway"

MonthDay == s1 :> 31
DayHour == s1 :> 0

Mixed == old :> (k1 :> 3 @@ k2 :> 2) @@ revised :> (k1 :> 4 @@ k2 :> 1)

VARIABLES scene,
          txnRow, txnInput, txnRun, txn, txnPending, txnClaims, txnExhausted, txnRetired,
          txnCard, txnFaults,
          cardRow, cardRun, cardAdvance, cardQueue, card, cardSeen, cardDecisions,
          cardRequest, cardHands, cardApproved, cardInRequest, cardFaults, cardManual,
          remoteRow, remoteReady, remoteAnswers, remoteInbox, remoteRequest, remoteExecutes,
          remoteAdvances, remoteHandled, remoteWorking, remoteBlamed, remoteFaults,
          groupArchived, groupDeleted, groupMember, groupLastRead, groupShown, groupAt,
          groupProposals, groupTasks, groupRef, groupOp, groupEvent, groupWorker,
          groupDocument, groupMustKeep, groupQueued, groupReceived, groupEntitled,
          groupClock, groupFaults,
          indexFile, indexChunks, indexFact, indexBase, indexIndexer, indexEvent,
          indexRemoved, indexFaults, indexRemovals,
          talkExpert, talkBases, talkRow, talkQuotes, talkPinned, talkSent, talkOld,
          talkDoc, talkText, talkRequest, talkStarted, talkChatted, talkStored, talkRefused,
          talkFaults,
          envFact, envEvent, envSeen, envVer, envCache, envWorker, envReader, envDocument,
          envFaults,
          triggerNow, triggerLast, triggerEnabled, triggerTemplate, triggerScan,
          triggerRuns, triggerEvent, triggerAnswers, triggerFaults,
          agentCall, agentCounter, agentLocal, agentRedisUp, agentAway, agentAlerts,
          agentSpent,
          qualityPrompt, qualityAgreed, qualityCases, qualityJob, qualityFeedback,
          qualityReview

txnVars == <<txnRow, txnInput, txnRun, txn, txnPending, txnClaims, txnExhausted, txnRetired, txnCard,
             txnFaults>>
cardVars == <<cardRow, cardRun, cardAdvance, cardQueue, card, cardSeen, cardDecisions, cardRequest,
              cardHands, cardApproved, cardInRequest, cardFaults, cardManual>>
remoteVars == <<remoteRow, remoteReady, remoteAnswers, remoteInbox, remoteRequest, remoteExecutes,
                remoteAdvances, remoteHandled, remoteWorking, remoteBlamed, remoteFaults>>
groupVars == <<groupArchived, groupDeleted, groupMember, groupLastRead, groupShown, groupAt,
               groupProposals, groupTasks, groupRef, groupOp, groupEvent, groupWorker,
               groupDocument, groupMustKeep, groupQueued, groupReceived, groupEntitled,
               groupClock, groupFaults>>
indexVars == <<indexFile, indexChunks, indexFact, indexBase, indexIndexer, indexEvent, indexRemoved,
               indexFaults, indexRemovals>>
talkVars == <<talkExpert, talkBases, talkRow, talkQuotes, talkPinned, talkSent, talkOld, talkDoc,
              talkText, talkRequest, talkStarted, talkChatted, talkStored, talkRefused,
              talkFaults>>
envVars == <<envFact, envEvent, envSeen, envVer, envCache, envWorker, envReader, envDocument, envFaults>>
triggerVars == <<triggerNow, triggerLast, triggerEnabled, triggerTemplate, triggerScan, triggerRuns,
                 triggerEvent, triggerAnswers, triggerFaults>>
agentVars == <<agentCall, agentCounter, agentLocal, agentRedisUp, agentAway, agentAlerts, agentSpent>>
qualityVars == <<qualityPrompt, qualityAgreed, qualityCases, qualityJob, qualityFeedback, qualityReview>>
vars == <<scene, txnVars, cardVars, remoteVars, groupVars, indexVars, talkVars, envVars, triggerVars,
           agentVars, qualityVars>>

\* Two transactions over a join, without a fault.
Join == INSTANCE RunTransactions
    WITH Txn <- {t1, t2}, Step <- {s1, s2, s3}, NoStep <- none, Dep <- JoinDep,
         RedLine <- {}, MaxFaults <- 0, row <- txnRow, input <- txnInput, run <- txnRun,
         txn <- txn, pending <- txnPending, claims <- txnClaims, exhausted <- txnExhausted,
         retired <- txnRetired, card <- txnCard, faults <- txnFaults

\* Cards of two chains follow their run.
Cards == INSTANCE TaskCards
    WITH Step <- {s1, s2, s3, s4}, Parent <- parent, Dep <- ChainDep, RedLine <- {s1, s3},
         MaxFaults <- 0, MaxManual <- 0, row <- cardRow, run <- cardRun,
         advance <- cardAdvance, queue <- cardQueue, card <- card, seen <- cardSeen,
         decisions <- cardDecisions, request <- cardRequest, hands <- cardHands,
         approved <- cardApproved, inRequest <- cardInRequest, faults <- cardFaults,
         manual <- cardManual

\* A parked step whose expert may be silent.
Remote == INSTANCE RemoteStep
    WITH Step <- {s1}, RedLine <- {}, Request <- {q1, q2}, MaxAttempts <- 2, MaxFaults <- 2,
         row <- remoteRow, ready <- remoteReady, answers <- remoteAnswers,
         inbox <- remoteInbox, request <- remoteRequest, executes <- remoteExecutes,
         advances <- remoteAdvances, handled <- remoteHandled, working <- remoteWorking,
         blamed <- remoteBlamed, faults <- remoteFaults

\* A group is disbanded while an agent answers.
Group == INSTANCE GroupMessaging
    WITH Owner <- ann, Guest <- {}, HumanMessage <- {hello}, AiMessage <- {answer},
         MaxClock <- 3, MaxFaults <- 1, archived <- groupArchived, deleted <- groupDeleted,
         member <- groupMember, lastRead <- groupLastRead, shown <- groupShown,
         at <- groupAt, proposals <- groupProposals, tasks <- groupTasks, ref <- groupRef,
         op <- groupOp, event <- groupEvent, worker <- groupWorker,
         document <- groupDocument, mustKeep <- groupMustKeep, queued <- groupQueued,
         received <- groupReceived, entitled <- groupEntitled, clock <- groupClock,
         faults <- groupFaults

\* A digest whose event is delivered again.
Index == INSTANCE KnowledgeIndex
    WITH Replayed <- {digest}, Uploaded <- {}, Base <- {company, sales}, Home <- company,
         Indexer <- {i1}, MaxFaults <- 3, MaxRemovals <- 2, file <- indexFile,
         chunks <- indexChunks, fact <- indexFact, base <- indexBase,
         indexer <- indexIndexer, event <- indexEvent, removed <- indexRemoved,
         faults <- indexFaults, removals <- indexRemovals

\* One load at a time, whose archive may fail.
Talk == INSTANCE Conversations
    WITH Loader <- {l1}, Turner <- {q1}, Pinner <- {}, Known <- TRUE, MaxMessages <- 2,
         MaxReplies <- 1, MaxFaults <- 1, expert <- talkExpert, bases <- talkBases,
         row <- talkRow, quotes <- talkQuotes, pinned <- talkPinned, sent <- talkSent,
         old <- talkOld, doc <- talkDoc, text <- talkText, request <- talkRequest,
         started <- talkStarted, chatted <- talkChatted, stored <- talkStored,
         refused <- talkRefused, faults <- talkFaults

\* A source changes twice, with a fault.
Environment == INSTANCE EnvironmentProjection
    WITH Process <- {p1}, Source <- {s1}, MaxChanges <- 2, MaxFaults <- 1, fact <- envFact,
         event <- envEvent, seen <- envSeen, ver <- envVer, cache <- envCache,
         worker <- envWorker, reader <- envReader, document <- envDocument,
         faults <- envFaults

\* An anomaly window that two processes see.
Alarms == INSTANCE SystemTriggers
    WITH Process <- {p1, p2}, Schedule <- <<>>, DayOfMonth <- MonthDay, Hour <- DayHour,
         MonthLength <- <<2>>, Hours <- 2, Window <- {w1}, MaxAttempts <- 2, MaxFaults <- 2,
         now <- triggerNow, last <- triggerLast, enabled <- triggerEnabled,
         template <- triggerTemplate, scan <- triggerScan, runs <- triggerRuns,
         event <- triggerEvent, answers <- triggerAnswers, faults <- triggerFaults

\* An expert and a gateway, with faults.
Calls == INSTANCE AgentExecution
    WITH Call <- {c1, c2}, Process <- {p1}, Home <- OneHome, Route <- Ways,
         Streaming <- {c1}, Personal <- {c1, c2}, Active <- 1, Cost <- 1, Budget <- 2,
         MaxRetries <- 1, Fault <- {"redis", "model", "remote", "leave"}, call <- agentCall,
         counter <- agentCounter, local <- agentLocal, redisUp <- agentRedisUp,
         away <- agentAway, alerts <- agentAlerts, spent <- agentSpent

\* Two reviews of drafts.
Quality == INSTANCE PromptQuality
    WITH Case <- {k1, k2}, Prompt <- {old, revised}, First <- old, Score <- Mixed,
         Job <- {j1}, Record <- {q1}, Rater <- {ann}, MaxMarks <- 1, Review <- {v1, v2},
         Fault <- {}, prompt <- qualityPrompt, agreed <- qualityAgreed,
         cases <- qualityCases, job <- qualityJob, feedback <- qualityFeedback,
         review <- qualityReview

\* The components of the other scenes stand still in their first state.
Init ==
    /\ scene \in Scenes
    /\ Join!Init
    /\ Cards!Init
    /\ Remote!Init
    /\ Group!Init
    /\ Index!Init
    /\ Talk!Init
    /\ Environment!Init
    /\ Alarms!Init
    /\ Calls!Init
    /\ Quality!Init

Next ==
    \/ /\ scene = "join" /\ Join!Next
       /\ UNCHANGED <<scene, cardVars, remoteVars, groupVars, indexVars, talkVars, envVars, triggerVars, agentVars,
                              qualityVars>>
    \/ /\ scene = "cards" /\ Cards!Next
       /\ UNCHANGED <<scene, txnVars, remoteVars, groupVars, indexVars, talkVars, envVars, triggerVars, agentVars,
                              qualityVars>>
    \/ /\ scene = "remote" /\ Remote!Next
       /\ UNCHANGED <<scene, txnVars, cardVars, groupVars, indexVars, talkVars, envVars, triggerVars, agentVars,
                              qualityVars>>
    \/ /\ scene = "group" /\ Group!Next
       /\ UNCHANGED <<scene, txnVars, cardVars, remoteVars, indexVars, talkVars, envVars, triggerVars, agentVars,
                              qualityVars>>
    \/ /\ scene = "index" /\ Index!Next
       /\ UNCHANGED <<scene, txnVars, cardVars, remoteVars, groupVars, talkVars, envVars, triggerVars, agentVars,
                              qualityVars>>
    \/ /\ scene = "talk" /\ Talk!Next
       /\ UNCHANGED <<scene, txnVars, cardVars, remoteVars, groupVars, indexVars, envVars, triggerVars, agentVars,
                              qualityVars>>
    \/ /\ scene = "environment" /\ Environment!Next
       /\ UNCHANGED <<scene, txnVars, cardVars, remoteVars, groupVars, indexVars, talkVars, triggerVars, agentVars,
                              qualityVars>>
    \/ /\ scene = "alarms" /\ Alarms!Next
       /\ UNCHANGED <<scene, txnVars, cardVars, remoteVars, groupVars, indexVars, talkVars, envVars, agentVars,
                              qualityVars>>
    \/ /\ scene = "calls" /\ Calls!Next
       /\ UNCHANGED <<scene, txnVars, cardVars, remoteVars, groupVars, indexVars, talkVars, envVars, triggerVars,
                              qualityVars>>
    \/ /\ scene = "quality" /\ Quality!Next
       /\ UNCHANGED <<scene, txnVars, cardVars, remoteVars, groupVars, indexVars, talkVars, envVars, triggerVars,
                              agentVars>>

\* The worker takes every event that stays available and ends what it began; a load, a
\* scan, a review and a call go on once they were begun (they are loops and coroutines of a
\* running process); the clock of the archive moves on.
Fairness ==
    /\ \A t \in {t1, t2} : WF_txnVars(scene = "join" /\ Join!Proceed(t))
    /\ WF_txnVars(scene = "join" /\ \E t \in {t1, t2}, e \in txnPending : Join!OpenAdvance(t, e))
    /\ \A s \in {s1, s2, s3} :
        /\ WF_txnVars(scene = "join" /\ \E t \in {t1, t2} : Join!OpenClaim(t, s) /\ txnFaults' = txnFaults)
        /\ WF_txnVars(/\ scene = "join"
                      /\ \E t \in {t1, t2}, c \in txnClaims : c.step = s /\ Join!OpenFinalize(t, c, TRUE))
    /\ WF_cardVars(scene = "cards" /\ Cards!Advance)
    /\ WF_cardVars(scene = "cards" /\ Cards!RequestEnds)
    /\ WF_cardVars(scene = "cards" /\ \E d \in cardDecisions : Cards!ApplyDecision(d))
    /\ \A s \in {s1, s2, s3, s4} : /\ WF_cardVars(scene = "cards" /\ Cards!Claim(s))
                                   /\ WF_cardVars(scene = "cards" /\ Cards!Complete(s, TRUE))
                                   /\ WF_cardVars(scene = "cards" /\ Cards!RequestRuns(s, TRUE))
    /\ WF_remoteVars(scene = "remote" /\ Remote!Runtime)
    /\ WF_groupVars(scene = "group" /\ Group!Worker)
    /\ WF_indexVars(scene = "index" /\ (Index!Works(i1) \/ Index!Fail(i1)))
    /\ WF_talkVars(scene = "talk" /\ Talk!Age)
    /\ WF_talkVars(scene = "talk" /\ (Talk!get_or_create(l1) \/ Talk!_archive_old(l1)))
    /\ WF_envVars(scene = "environment" /\ Environment!handle_source_change(p1))
    /\ \A p \in {p1, p2} : /\ WF_triggerVars(scene = "alarms" /\ Alarms!ScanStep(p))
                           /\ SF_triggerVars(scene = "alarms" /\ Alarms!EventStep(p))
    /\ \A c \in {c1, c2} : WF_agentVars(scene = "calls" /\ (Calls!Advance(c) \/ Calls!cut(c) \/ Calls!leave(c)))
    /\ \A r \in {v1, v2} : /\ WF_qualityVars(scene = "quality" /\ Quality!critique(r))
                           /\ WF_qualityVars(scene = "quality" /\ Quality!revise(r))

Spec == Init /\ [][Next]_vars /\ Fairness

\* What each component assumes of its constants, at the values of its scenes.
ASSUME ScenesAssumption ==
    /\ Join!TxnNoStepAssumption
    /\ Join!TxnStepAssumption
    /\ Join!TxnDepAssumption
    /\ Join!TxnBoundAssumption
    /\ Cards!CardsParentAssumption
    /\ Cards!CardsDepAssumption
    /\ Cards!CardsRedLineAssumption
    /\ Cards!CardsBoundAssumption
    /\ Remote!RemoteRedLineAssumption
    /\ Remote!RemoteBoundAssumption
    /\ Group!GroupPeopleAssumption
    /\ Group!GroupMessageAssumption
    /\ Group!GroupBoundAssumption
    /\ Index!IndexDocumentAssumption
    /\ Index!IndexBoundAssumption
    /\ Talk!ConversationKnownAssumption
    /\ Talk!ConversationBoundAssumption
    /\ Environment!ProjectionBoundAssumption
    /\ Alarms!TriggerAssumption
    /\ Calls!ExecutionAssumption
    /\ Quality!QualityAssumption

-----------------------------------------------------------------------------
\* A run without a fault succeeds however its transactions overlap, the card of a run whose
\* steps all succeeded is accepted; and a step parked at a remote expert ends, whether or
\* not he answers.
RunsSettle ==
    /\ scene = "join" => Join!RunCompletes
    /\ scene = "cards" => Cards!ParentLeavesExecuting
    /\ scene = "remote" => Remote!ParkedStepSettles

\* What an event was written for happens: a disbanded group is archived, a replayed digest
\* indexed, a change of a source documented for good, an anomaly answered or given up.
EventsTakeEffect ==
    /\ scene = "group" => Group!DisbandedIsArchived
    /\ scene = "index" => Index!ReplayIsIndexed
    /\ scene = "environment" => Environment!ChangesAreDocumented
    /\ scene = "alarms" => Alarms!AnomaliesEnd

\* What somebody waits for ends: a call of an agent, the review of a draft; and what left
\* the history window leaves the table.
RequestsEnd ==
    /\ scene = "calls" => Calls!Ends
    /\ scene = "quality" => Quality!Reviewed
    /\ scene = "talk" => Talk!OldLeaves
=============================================================================
