--------------------------- MODULE MCExecution ---------------------------
(****************************************************************************)
(* The execution components on small instances. They do not share state here:*)
(* each behaviour checks one of them, in the scene its first state picks, and*)
(* a property says what holds in the scenes it names.                       *)
(****************************************************************************)
EXTENDS Integers, Sequences, FiniteSets, TLC

CONSTANTS Scenes,
          t1, t2, s1, s2, s3, q1, q2, a1, a2, a3, c1, c2, c3, p1, p2, m1, m2, m3, w1, w2,
          e1, e2, e3, k1, k2, report, weekly, none

\* Two parallel steps and one that needs both; the first two alone.
JoinDep == s1 :> {} @@ s2 :> {} @@ s3 :> {s1, s2}
PairDep == s1 :> {} @@ s2 :> {}

\* Two executions in one process and one in another; by every way, or by two.
TwoHomes == c1 :> p1 @@ c2 :> p1 @@ c3 :> p2
OneHome == c1 :> p1 @@ c2 :> p1
Apart == c1 :> p1 @@ c3 :> p2
Gateways == c1 :> "expert" @@ c2 :> "gateway"
AllRoutes == c1 :> "expert" @@ c2 :> "gateway" @@ c3 :> "model"
AllModels == [c \in {c1, c2, c3} |-> "model"]

Consumers == w1 :> c1 @@ w2 :> c1

PlanStep(n, c, d, e) == [no |-> n, cap |-> c, deps |-> d, expert |-> e]
PlanSeed == t1 :> <<PlanStep(0, "query", <<>>, e1), PlanStep(1, "email", <<0>>, none)>>
NoSeed == [t \in {} |-> <<>>]
Capabilities == {"query", "email", "convene", "minutes"}
Automated == {"query", "minutes", "email_publish", "convene_publish"}
Published == "email" :> "email_publish" @@ "convene" :> "convene_publish"
Needs == {<<>>, <<1>>, <<2>>, <<3>>, <<1, 2>>, <<1, 1>>, <<2, 3>>}
Kinds == {<<"query", "query", "email">>, <<"convene", "minutes", "email">>}
\* Every graph of three steps, of two kinds.
Graphs == {<<PlanStep(1, k[1], a, none), PlanStep(2, k[2], b, none), PlanStep(3, k[3], c, e1)>> :
              a \in Needs, b \in Needs, c \in Needs, k \in Kinds}
\* What an admin saves, and what a model may answer.
Saved == {<<PlanStep(1, "query", <<>>, e1)>>,
          <<PlanStep(1, "convene", <<>>, none), PlanStep(2, "minutes", <<1>>, e1)>>,
          <<PlanStep(1, "query", <<>>, none), PlanStep(2, "email", <<5>>, none)>>,
          <<PlanStep(1, "query", <<>>, e1), PlanStep(2, "email", <<1>>, e1),
            PlanStep(3, "query", <<1, 2>>, none), PlanStep(4, "query", <<3>>, none)>>,
          <<PlanStep(3, "convene", <<>>, none), PlanStep(1, "minutes", <<3>>, none),
            PlanStep(2, "email", <<1, 3>>, e1)>>}

\* Directives of a text, and what agents may say.
Do(k) == [skill |-> k, to |-> none]
To(x) == [skill |-> "collab", to |-> x]
WordTools == e1 :> <<"collab", "deliver", "data_query", "knowledge_search">>
          @@ e2 :> <<"collab", "deliver", "data_query", "read_url">> @@ e3 :> <<"deliver">>
WordTexts == e1 :> {<<>>, <<To(e2), Do("deliver")>>, <<Do("data_query"), To(e3), Do("knowledge_search")>>,
                    <<To(e1), Do("collab"), Do("deliver"), Do("deliver"), Do("deliver")>>}
          @@ e2 :> {<<>>, <<To(e1), Do("data_query"), Do("deliver")>>, <<Do("read_url"), Do("collab")>>}
          @@ e3 :> {<<Do("deliver")>>}
DraftTools == e1 :> <<"send_email", "convene_consultation", "feishu_notify", "compose_feishu", "collab">>
           @@ e2 :> <<"send_email", "feishu_notify_person", "knowledge_index", "create_operational_proposal", "read_attachment", "read_url">>
DraftTexts == e1 :> {<<Do("send_email"), Do("send_email"), To(e2)>>, <<Do("feishu_notify"), Do("feishu_notify"), Do("convene_consultation"), Do("compose_feishu")>>}
           @@ e2 :> {<<Do("send_email"), Do("convene_consultation"), Do("feishu_notify_person"), Do("knowledge_index")>>,
                     <<Do("create_operational_proposal"), Do("read_attachment"), Do("read_url")>>, <<>>}

\* Drafts of the mechanical steps.
DraftOf(k, d, n, c) == [key |-> k, kind |-> d, parts |-> n, creator |-> c]
PostDrafts == <<DraftOf("feishu_publish", "docx", 1, TRUE), DraftOf("send_email_publish", "email", 1, TRUE),
                DraftOf("feishu_publish", "bitable", 2, TRUE)>>
MeetingDrafts == <<DraftOf("convene_consultation_publish", "convene", 0, FALSE),
                   DraftOf("convene_consultation_publish", "convene", 0, TRUE)>>
MailDrafts == <<DraftOf("send_email_publish", "email", 1, TRUE), DraftOf("send_email_publish", "email", 1, FALSE)>>
NoticeDrafts == <<DraftOf("feishu_notify_person_publish", "person", 1, TRUE),
                  DraftOf("feishu_notify_person_publish", "person", 1, TRUE)>>

\* A schedule on the 31st beside one on the first; February, then January.
MonthDay == s1 :> 31 @@ s2 :> 1
DayHour == s1 :> 0 @@ s2 :> 1
Months == <<2, 1>>

VARIABLES scene,
          txnRow, txnInput, txnRun, txn, txnPending, txnClaims, txnExhausted, txnRetired,
          txnCard, txnFaults,
          transportNow, transportPublished, transportEntry, transportWorker,
          transportLetter, transportReplay, transportGiven, transportTold,
          remoteRow, remoteReady, remoteAnswers, remoteInbox, remoteRequest, remoteExecutes,
          remoteAdvances, remoteHandled, remoteWorking, remoteBlamed, remoteFaults,
          tool, toolRequests, toolFiles, toolObjects, toolAttempt, toolEverSucceeded,
          toolFaults,
          agentCall, agentCounter, agentLocal, agentRedisUp, agentAway, agentAlerts,
          agentSpent,
          modelCall, modelShared, modelLocal, modelRedisUp, modelAway, modelFailed, modelOwn,
          planTemplate, planActive, planLaunch,
          skillPhase, skillStack, skillAttempt, skillFaults, skillRecords, skillMade,
          skillDrafts, skillAsked,
          publishChannels, publishDecision, publishStatus, publishOwner, publishWork,
          publishOutside, publishArtifacts, publishMinutes, publishFaults,
          envFact, envEvent, envSeen, envVer, envCache, envWorker, envReader, envDocument,
          envFaults,
          triggerNow, triggerLast, triggerEnabled, triggerTemplate, triggerScan,
          triggerRuns, triggerEvent, triggerAnswers, triggerFaults

txnVars == <<txnRow, txnInput, txnRun, txn, txnPending, txnClaims, txnExhausted, txnRetired, txnCard,
             txnFaults>>
transportVars == <<transportNow, transportPublished, transportEntry, transportWorker, transportLetter,
                   transportReplay, transportGiven, transportTold>>
remoteVars == <<remoteRow, remoteReady, remoteAnswers, remoteInbox, remoteRequest, remoteExecutes,
                remoteAdvances, remoteHandled, remoteWorking, remoteBlamed, remoteFaults>>
toolVars == <<tool, toolRequests, toolFiles, toolObjects, toolAttempt, toolEverSucceeded, toolFaults>>
agentVars == <<agentCall, agentCounter, agentLocal, agentRedisUp, agentAway, agentAlerts, agentSpent>>
modelVars == <<modelCall, modelShared, modelLocal, modelRedisUp, modelAway, modelFailed, modelOwn>>
planVars == <<planTemplate, planActive, planLaunch>>
skillVars == <<skillPhase, skillStack, skillAttempt, skillFaults, skillRecords, skillMade, skillDrafts,
               skillAsked>>
publishVars == <<publishChannels, publishDecision, publishStatus, publishOwner, publishWork, publishOutside,
                 publishArtifacts, publishMinutes, publishFaults>>
envVars == <<envFact, envEvent, envSeen, envVer, envCache, envWorker, envReader, envDocument, envFaults>>
triggerVars == <<triggerNow, triggerLast, triggerEnabled, triggerTemplate, triggerScan, triggerRuns,
                 triggerEvent, triggerAnswers, triggerFaults>>
vars == <<scene, txnVars, transportVars, remoteVars, toolVars, agentVars, modelVars, planVars, skillVars,
           publishVars, envVars, triggerVars>>

\* Two transactions over a join.
Join == INSTANCE RunTransactions
    WITH Txn <- {t1, t2}, Step <- {s1, s2, s3}, NoStep <- none, Dep <- JoinDep,
         RedLine <- {}, MaxFaults <- 0, row <- txnRow, input <- txnInput, run <- txnRun,
         txn <- txn, pending <- txnPending, claims <- txnClaims, exhausted <- txnExhausted,
         retired <- txnRetired, card <- txnCard, faults <- txnFaults
\* Two steps that end at once.
Pair == INSTANCE RunTransactions
    WITH Txn <- {t1, t2}, Step <- {s1, s2}, NoStep <- none, Dep <- PairDep, RedLine <- {},
         MaxFaults <- 0, row <- txnRow, input <- txnInput, run <- txnRun, txn <- txn,
         pending <- txnPending, claims <- txnClaims, exhausted <- txnExhausted,
         retired <- txnRetired, card <- txnCard, faults <- txnFaults
\* A red-line step beside another, with a fault.
Gate == INSTANCE RunTransactions
    WITH Txn <- {t1, t2}, Step <- {s1, s2}, NoStep <- none, Dep <- PairDep, RedLine <- {s2},
         MaxFaults <- 1, row <- txnRow, input <- txnInput, run <- txnRun, txn <- txn,
         pending <- txnPending, claims <- txnClaims, exhausted <- txnExhausted,
         retired <- txnRetired, card <- txnCard, faults <- txnFaults

\* Two workers of a consumer, and an operator who replays.
Transport == INSTANCE EventTransport
    WITH Event <- {e1}, Worker <- {w1, w2}, Of <- Consumers, Lease <- 1, Delay <- 1,
         Replay <- {q1}, LastTime <- 3, MaxAttempts <- 3, now <- transportNow,
         published <- transportPublished, entry <- transportEntry, worker <- transportWorker,
         letter <- transportLetter, replay <- transportReplay, given <- transportGiven,
         told <- transportTold

\* Two steps parked at once, one of them of a red line.
Remote == INSTANCE RemoteStep
    WITH Step <- {s1, s2}, RedLine <- {s2}, Request <- {q1, q2}, MaxAttempts <- 1,
         MaxFaults <- 0, row <- remoteRow, ready <- remoteReady, answers <- remoteAnswers,
         inbox <- remoteInbox, request <- remoteRequest, executes <- remoteExecutes,
         advances <- remoteAdvances, handled <- remoteHandled, working <- remoteWorking,
         blamed <- remoteBlamed, faults <- remoteFaults
\* Two answers race the expiry of the lease and the failures of the relay.
Expiry == INSTANCE RemoteStep
    WITH Step <- {s1}, RedLine <- {}, Request <- {q1, q2}, MaxAttempts <- 3, MaxFaults <- 3,
         row <- remoteRow, ready <- remoteReady, answers <- remoteAnswers,
         inbox <- remoteInbox, request <- remoteRequest, executes <- remoteExecutes,
         advances <- remoteAdvances, handled <- remoteHandled, working <- remoteWorking,
         blamed <- remoteBlamed, faults <- remoteFaults

\* Three attempts of one step invoke its two keys.
Tools == INSTANCE ToolExecution
    WITH Attempt <- {a1, a2, a3}, CollabKey <- {k1}, DeliverKey <- {k2},
         FileName <- {report}, MaxFaults <- 2, tool <- tool, requests <- toolRequests,
         files <- toolFiles, objects <- toolObjects, attempt <- toolAttempt,
         everSucceeded <- toolEverSucceeded, faults <- toolFaults
\* Two attempts that may name the file differently.
Files == INSTANCE ToolExecution
    WITH Attempt <- {a1, a2}, CollabKey <- {k1}, DeliverKey <- {k2},
         FileName <- {report, weekly}, MaxFaults <- 2, tool <- tool,
         requests <- toolRequests, files <- toolFiles, objects <- toolObjects,
         attempt <- toolAttempt, everSucceeded <- toolEverSucceeded, faults <- toolFaults

\* Executions count what they spend.
Counts == INSTANCE AgentExecution
    WITH Call <- {c1, c2, c3}, Process <- {p1, p2}, Home <- TwoHomes, Route <- AllModels,
         Streaming <- {}, Personal <- {c1, c2}, Active <- 3, Cost <- 2, Budget <- 2,
         MaxRetries <- 1, Fault <- {"model"}, call <- agentCall, counter <- agentCounter,
         local <- agentLocal, redisUp <- agentRedisUp, away <- agentAway,
         alerts <- agentAlerts, spent <- agentSpent
\* An expert and a gateway fail under a stream.
Routes == INSTANCE AgentExecution
    WITH Call <- {c1, c2}, Process <- {p1, p2}, Home <- OneHome, Route <- Gateways,
         Streaming <- {c1, c2}, Personal <- {c1, c2}, Active <- 2, Cost <- 1, Budget <- 9,
         MaxRetries <- 1, Fault <- {"model", "remote", "leave", "crash", "redis"},
         call <- agentCall, counter <- agentCounter, local <- agentLocal,
         redisUp <- agentRedisUp, away <- agentAway, alerts <- agentAlerts,
         spent <- agentSpent
\* A budget that two executions use up.
Spends == INSTANCE AgentExecution
    WITH Call <- {c1, c2, c3}, Process <- {p1, p2}, Home <- TwoHomes, Route <- AllRoutes,
         Streaming <- {}, Personal <- {c1, c2}, Active <- 1, Cost <- 1, Budget <- 2,
         MaxRetries <- 1, Fault <- {"remote"}, call <- agentCall, counter <- agentCounter,
         local <- agentLocal, redisUp <- agentRedisUp, away <- agentAway,
         alerts <- agentAlerts, spent <- agentSpent

\* Calls of two processes share their memory of failures.
Shared == INSTANCE ModelFailover
    WITH Call <- {c1, c3}, Process <- {p1, p2}, Home <- Apart, Tier <- <<m1, m2>>,
         Streaming <- {c3}, Created <- {}, Cap <- 2, Fault <- {}, call <- modelCall,
         shared <- modelShared, local <- modelLocal, redisUp <- modelRedisUp,
         away <- modelAway, failed <- modelFailed, own <- modelOwn
\* The shared memory goes away and comes back.
Parted == INSTANCE ModelFailover
    WITH Call <- {c1, c2}, Process <- {p1}, Home <- OneHome, Tier <- <<m1, m2>>,
         Streaming <- {c2}, Created <- {c1}, Cap <- 1, Fault <- {"redis", "time"},
         call <- modelCall, shared <- modelShared, local <- modelLocal,
         redisUp <- modelRedisUp, away <- modelAway, failed <- modelFailed, own <- modelOwn

\* Every graph of three steps is proposed.
Planned == INSTANCE WorkPlanning
    WITH Template <- {}, Seed <- NoSeed, Proposal <- Graphs, Capability <- Capabilities,
         Automatic <- Automated, Publish <- Published, Meeting <- {"convene"}, Expert <- {},
         MaxSteps <- 3, NONE <- none, template <- planTemplate, active <- planActive,
         launch <- planLaunch
\* Templates are saved, launched and lose their experts.
Stored == INSTANCE WorkPlanning
    WITH Template <- {t1, t2}, Seed <- PlanSeed, Proposal <- Saved,
         Capability <- Capabilities, Automatic <- Automated, Publish <- Published,
         Meeting <- {"convene"}, Expert <- {e1}, MaxSteps <- 3, NONE <- none,
         template <- planTemplate, active <- planActive, launch <- planLaunch

\* A lead with a colleague and a private assistant to consult, under faults.
Words == INSTANCE SkillDispatch
    WITH Agent <- {e1, e2, e3}, Lead <- e1, Private <- {e3}, ToolsOf <- WordTools, Off <- {},
         Says <- WordTexts, Capability <- "data_query", NoAgent <- none, MaxAttempts <- 2,
         MaxFaults <- 1, phase <- skillPhase, stack <- skillStack, attempt <- skillAttempt,
         faults <- skillFaults, records <- skillRecords, made <- skillMade,
         drafts <- skillDrafts, asked <- skillAsked
\* A step that drafts for the outside world.
Drafted == INSTANCE SkillDispatch
    WITH Agent <- {e1, e2}, Lead <- e1, Private <- {}, ToolsOf <- DraftTools,
         Off <- {"read_url"}, Says <- DraftTexts, Capability <- "send_email",
         NoAgent <- none, MaxAttempts <- 2, MaxFaults <- 2, phase <- skillPhase,
         stack <- skillStack, attempt <- skillAttempt, faults <- skillFaults,
         records <- skillRecords, made <- skillMade, drafts <- skillDrafts,
         asked <- skillAsked

\* A document and a table, beside a draft of another step.
Posts == INSTANCE DraftPublishing
    WITH Drafts <- PostDrafts, Capability <- "feishu_publish", Reached <- 0,
         Channels <- {{}, {"feishu", "smtp"}}, Worker <- {p1, p2}, MailTries <- 2,
         MaxFaults <- 2, channels <- publishChannels, decision <- publishDecision,
         status <- publishStatus, owner <- publishOwner, work <- publishWork,
         outside <- publishOutside, artifacts <- publishArtifacts, minutes <- publishMinutes,
         faults <- publishFaults
\* An urgent meeting with two heads, and one nobody asked for.
Convened == INSTANCE DraftPublishing
    WITH Drafts <- MeetingDrafts, Capability <- "convene_consultation_publish", Reached <- 2,
         Channels <- {{"notify"}, {"smtp"}}, Worker <- {p1, p2}, MailTries <- 2,
         MaxFaults <- 2, channels <- publishChannels, decision <- publishDecision,
         status <- publishStatus, owner <- publishOwner, work <- publishWork,
         outside <- publishOutside, artifacts <- publishArtifacts, minutes <- publishMinutes,
         faults <- publishFaults
\* Two mails, the second to nobody.
Mails == INSTANCE DraftPublishing
    WITH Drafts <- MailDrafts, Capability <- "send_email_publish", Reached <- 0,
         Channels <- {{"feishu"}, {"smtp", "notify"}}, Worker <- {p1, p2}, MailTries <- 2,
         MaxFaults <- 2, channels <- publishChannels, decision <- publishDecision,
         status <- publishStatus, owner <- publishOwner, work <- publishWork,
         outside <- publishOutside, artifacts <- publishArtifacts, minutes <- publishMinutes,
         faults <- publishFaults
\* Two messages to persons, with the channel or without it.
Notices == INSTANCE DraftPublishing
    WITH Drafts <- NoticeDrafts, Capability <- "feishu_notify_person_publish", Reached <- 0,
         Channels <- {{"feishu"}, {"notify"}}, Worker <- {p1, p2}, MailTries <- 2,
         MaxFaults <- 1, channels <- publishChannels, decision <- publishDecision,
         status <- publishStatus, owner <- publishOwner, work <- publishWork,
         outside <- publishOutside, artifacts <- publishArtifacts, minutes <- publishMinutes,
         faults <- publishFaults

\* Two sources change while one process projects.
Environment == INSTANCE EnvironmentProjection
    WITH Process <- {p1}, Source <- {s1, s2}, MaxChanges <- 2, MaxFaults <- 2,
         fact <- envFact, event <- envEvent, seen <- envSeen, ver <- envVer,
         cache <- envCache, worker <- envWorker, reader <- envReader,
         document <- envDocument, faults <- envFaults

\* Two schedules across a short month.
Scans == INSTANCE SystemTriggers
    WITH Process <- {p1}, Schedule <- <<s1, s2>>, DayOfMonth <- MonthDay, Hour <- DayHour,
         MonthLength <- Months, Hours <- 2, Window <- {}, MaxAttempts <- 2, MaxFaults <- 1,
         now <- triggerNow, last <- triggerLast, enabled <- triggerEnabled,
         template <- triggerTemplate, scan <- triggerScan, runs <- triggerRuns,
         event <- triggerEvent, answers <- triggerAnswers, faults <- triggerFaults
\* A schedule beside two anomaly windows.
Alarms == INSTANCE SystemTriggers
    WITH Process <- {p1}, Schedule <- <<s1>>, DayOfMonth <- MonthDay, Hour <- DayHour,
         MonthLength <- <<2>>, Hours <- 2, Window <- {w1, w2}, MaxAttempts <- 2,
         MaxFaults <- 1, now <- triggerNow, last <- triggerLast, enabled <- triggerEnabled,
         template <- triggerTemplate, scan <- triggerScan, runs <- triggerRuns,
         event <- triggerEvent, answers <- triggerAnswers, faults <- triggerFaults

\* The components of the other scenes have no state.
Idle(x) == x = "idle"
Init ==
    /\ scene \in Scenes
    /\ CASE scene = "join" -> Join!Init
         [] scene = "pair" -> Pair!Init
         [] scene = "gate" -> Gate!Init
         [] OTHER -> Idle(txnRow) /\ Idle(txnInput) /\ Idle(txnRun) /\ Idle(txn) /\
                     Idle(txnPending) /\ Idle(txnClaims) /\ Idle(txnExhausted) /\
                     Idle(txnRetired) /\ Idle(txnCard) /\ Idle(txnFaults)
    /\ IF scene = "transport" THEN Transport!Init
       ELSE Idle(transportNow) /\ Idle(transportPublished) /\ Idle(transportEntry) /\
            Idle(transportWorker) /\ Idle(transportLetter) /\ Idle(transportReplay) /\
            Idle(transportGiven) /\ Idle(transportTold)
    /\ CASE scene = "remote" -> Remote!Init
         [] scene = "expiry" -> Expiry!Init
         [] OTHER -> Idle(remoteRow) /\ Idle(remoteReady) /\ Idle(remoteAnswers) /\
                     Idle(remoteInbox) /\ Idle(remoteRequest) /\ Idle(remoteExecutes) /\
                     Idle(remoteAdvances) /\ Idle(remoteHandled) /\ Idle(remoteWorking) /\
                     Idle(remoteBlamed) /\ Idle(remoteFaults)
    /\ CASE scene = "tools" -> Tools!Init
         [] scene = "files" -> Files!Init
         [] OTHER -> Idle(tool) /\ Idle(toolRequests) /\ Idle(toolFiles) /\
                     Idle(toolObjects) /\ Idle(toolAttempt) /\ Idle(toolEverSucceeded) /\
                     Idle(toolFaults)
    /\ CASE scene = "counts" -> Counts!Init
         [] scene = "routes" -> Routes!Init
         [] scene = "budget" -> Spends!Init
         [] OTHER -> Idle(agentCall) /\ Idle(agentCounter) /\ Idle(agentLocal) /\
                     Idle(agentRedisUp) /\ Idle(agentAway) /\ Idle(agentAlerts) /\
                     Idle(agentSpent)
    /\ CASE scene = "failover" -> Shared!Init
         [] scene = "redis" -> Parted!Init
         [] OTHER -> Idle(modelCall) /\ Idle(modelShared) /\ Idle(modelLocal) /\
                     Idle(modelRedisUp) /\ Idle(modelAway) /\ Idle(modelFailed) /\
                     Idle(modelOwn)
    /\ CASE scene = "graphs" -> Planned!Init
         [] scene = "templates" -> Stored!Init
         [] OTHER -> Idle(planTemplate) /\ Idle(planActive) /\ Idle(planLaunch)
    /\ CASE scene = "words" -> Words!Init
         [] scene = "drafts" -> Drafted!Init
         [] OTHER -> Idle(skillPhase) /\ Idle(skillStack) /\ Idle(skillAttempt) /\
                     Idle(skillFaults) /\ Idle(skillRecords) /\ Idle(skillMade) /\
                     Idle(skillDrafts) /\ Idle(skillAsked)
    /\ CASE scene = "posts" -> Posts!Init
         [] scene = "convened" -> Convened!Init
         [] scene = "mails" -> Mails!Init
         [] scene = "notices" -> Notices!Init
         [] OTHER -> Idle(publishChannels) /\ Idle(publishDecision) /\ Idle(publishStatus)
                     /\ Idle(publishOwner) /\ Idle(publishWork) /\ Idle(publishOutside) /\
                     Idle(publishArtifacts) /\ Idle(publishMinutes) /\ Idle(publishFaults)
    /\ IF scene = "environment" THEN Environment!Init
       ELSE Idle(envFact) /\ Idle(envEvent) /\ Idle(envSeen) /\ Idle(envVer) /\
            Idle(envCache) /\ Idle(envWorker) /\ Idle(envReader) /\ Idle(envDocument) /\
            Idle(envFaults)
    /\ CASE scene = "scans" -> Scans!Init
         [] scene = "alarms" -> Alarms!Init
         [] OTHER -> Idle(triggerNow) /\ Idle(triggerLast) /\ Idle(triggerEnabled) /\
                     Idle(triggerTemplate) /\ Idle(triggerScan) /\ Idle(triggerRuns) /\
                     Idle(triggerEvent) /\ Idle(triggerAnswers) /\ Idle(triggerFaults)

Next ==
    \/ /\ \/ scene = "join" /\ Join!Next
          \/ scene = "pair" /\ Pair!Next
          \/ scene = "gate" /\ Gate!Next
       /\ UNCHANGED <<scene, transportVars, remoteVars, toolVars, agentVars, modelVars, planVars, skillVars, publishVars,
                              envVars, triggerVars>>
    \/ /\ scene = "transport" /\ Transport!Next
       /\ UNCHANGED <<scene, txnVars, remoteVars, toolVars, agentVars, modelVars, planVars, skillVars, publishVars,
                              envVars, triggerVars>>
    \/ /\ \/ scene = "remote" /\ Remote!Next
          \/ scene = "expiry" /\ Expiry!Next
       /\ UNCHANGED <<scene, txnVars, transportVars, toolVars, agentVars, modelVars, planVars, skillVars, publishVars,
                              envVars, triggerVars>>
    \/ /\ \/ scene = "tools" /\ Tools!Next
          \/ scene = "files" /\ Files!Next
       /\ UNCHANGED <<scene, txnVars, transportVars, remoteVars, agentVars, modelVars, planVars, skillVars, publishVars,
                              envVars, triggerVars>>
    \/ /\ \/ scene = "counts" /\ Counts!Next
          \/ scene = "routes" /\ Routes!Next
          \/ scene = "budget" /\ Spends!Next
       /\ UNCHANGED <<scene, txnVars, transportVars, remoteVars, toolVars, modelVars, planVars, skillVars, publishVars,
                              envVars, triggerVars>>
    \/ /\ \/ scene = "failover" /\ Shared!Next
          \/ scene = "redis" /\ Parted!Next
       /\ UNCHANGED <<scene, txnVars, transportVars, remoteVars, toolVars, agentVars, planVars, skillVars, publishVars,
                              envVars, triggerVars>>
    \/ /\ \/ scene = "graphs" /\ Planned!Next
          \/ scene = "templates" /\ Stored!Next
       /\ UNCHANGED <<scene, txnVars, transportVars, remoteVars, toolVars, agentVars, modelVars, skillVars, publishVars,
                              envVars, triggerVars>>
    \/ /\ \/ scene = "words" /\ Words!Next
          \/ scene = "drafts" /\ Drafted!Next
       /\ UNCHANGED <<scene, txnVars, transportVars, remoteVars, toolVars, agentVars, modelVars, planVars, publishVars,
                              envVars, triggerVars>>
    \/ /\ \/ scene = "posts" /\ Posts!Next
          \/ scene = "convened" /\ Convened!Next
          \/ scene = "mails" /\ Mails!Next
          \/ scene = "notices" /\ Notices!Next
       /\ UNCHANGED <<scene, txnVars, transportVars, remoteVars, toolVars, agentVars, modelVars, planVars, skillVars,
                              envVars, triggerVars>>
    \/ /\ scene = "environment" /\ Environment!Next
       /\ UNCHANGED <<scene, txnVars, transportVars, remoteVars, toolVars, agentVars, modelVars, planVars, skillVars,
                              publishVars, triggerVars>>
    \/ /\ \/ scene = "scans" /\ Scans!Next
          \/ scene = "alarms" /\ Alarms!Next
       /\ UNCHANGED <<scene, txnVars, transportVars, remoteVars, toolVars, agentVars, modelVars, planVars, skillVars,
                              publishVars, envVars>>

Spec == Init /\ [][Next]_vars

\* What each component assumes of its constants, at the values of its scenes.
ASSUME ScenesAssumption ==
    /\ Join!TxnNoStepAssumption
    /\ Join!TxnStepAssumption
    /\ Join!TxnDepAssumption
    /\ Join!TxnBoundAssumption
    /\ Pair!TxnNoStepAssumption
    /\ Pair!TxnStepAssumption
    /\ Pair!TxnDepAssumption
    /\ Pair!TxnBoundAssumption
    /\ Gate!TxnNoStepAssumption
    /\ Gate!TxnStepAssumption
    /\ Gate!TxnDepAssumption
    /\ Gate!TxnBoundAssumption
    /\ Transport!EventTransportAssumption
    /\ Remote!RemoteRedLineAssumption
    /\ Remote!RemoteBoundAssumption
    /\ Expiry!RemoteRedLineAssumption
    /\ Expiry!RemoteBoundAssumption
    /\ Tools!ToolKeyAssumption
    /\ Tools!ToolBoundAssumption
    /\ Files!ToolKeyAssumption
    /\ Files!ToolBoundAssumption
    /\ Counts!ExecutionAssumption
    /\ Routes!ExecutionAssumption
    /\ Spends!ExecutionAssumption
    /\ Shared!FailoverAssumption
    /\ Parted!FailoverAssumption
    /\ Planned!PlanningAssumption
    /\ Stored!PlanningAssumption
    /\ Words!SkillDispatchAssumption
    /\ Drafted!SkillDispatchAssumption
    /\ Posts!DraftPublishingAssumption
    /\ Convened!DraftPublishingAssumption
    /\ Mails!DraftPublishingAssumption
    /\ Notices!DraftPublishingAssumption
    /\ Environment!ProjectionBoundAssumption
    /\ Scans!TriggerAssumption
    /\ Alarms!TriggerAssumption

-----------------------------------------------------------------------------
\* However two transactions of one run overlap (RunTransactions): no step starts before
\* its dependencies succeeded, a run with nothing left to do tells what its steps say, and
\* one that failed has a failed step or an exhausted event (refresh_run_status).
RunsAreTold ==
    /\ scene = "join" => /\ Join!TypeOK
                         /\ Join!DependenciesBeforeStart
                         /\ Join!QuietRunTells
    /\ scene = "pair" => Pair!QuietRunTells
    /\ scene = "gate" => Gate!TypeOK /\ Gate!FailedForAReason

\* An answer of the remote expert that was stored is projected or its step was taken from
\* the sentinel before, and a step that ended makes its run advance once, however often
\* the answer is delivered (RemoteStep: the inbox, its projection and the recovery).  An
\* event between services completes once for a consumer (EventTransport).
AnswersCountOnce ==
    /\ scene = "remote" => Remote!TypeOK /\ Remote!AnswerNotSwallowed /\ Remote!OneAdvance
    /\ scene = "expiry" => Expiry!TypeOK /\ Expiry!AnswerNotSwallowed /\ Expiry!OneAdvance
    /\ scene = "transport" => /\ Transport!TypeOK /\ Transport!EffectsOnce /\ Transport!OneHolder
                              /\ Transport!RetriesWait /\ Transport!LettersAreTrue

\* However the attempts of a step overlap, fail or die (ToolExecution): one key leaves one
\* row, a file that is listed is in the store, and a stored success stands for a row.
ToolsLeaveOneTrace ==
    /\ scene = "tools" => /\ Tools!TypeOK /\ Tools!OneRowPerKey
                          /\ Tools!FilesAreStored /\ Tools!SuccessIsBacked
    /\ scene = "files" => /\ Files!TypeOK /\ Files!OneRowPerKey
                          /\ Files!FilesAreStored /\ Files!SuccessIsBacked

\* One execution has one record and speaks with one voice, whatever fails under its stream
\* (AgentExecution, ModelFailover); when all is quiet every token was counted; and what one
\* process learns of a provider the next call of any process knows.
OneVoicePerCall ==
    /\ scene = "counts" => Counts!AllCounted
    /\ scene = "routes" => Routes!TypeOK /\ Routes!RecordedOnce /\ Routes!OneVoice
    /\ scene = "failover" => Shared!SharedMemory /\ Shared!OneVoice
    /\ scene = "redis" => Parted!TypeOK

\* A plan that is started is a graph without a cycle in which the mechanical step of every
\* draft comes behind the draft and before whoever waited for it (WorkPlanning); the three
\* checks of a cycle agree.
PlansAreSound ==
    /\ scene = "graphs" => /\ Planned!ChecksAgree /\ Planned!GraphIsGated
                           /\ Planned!GraphIsSound /\ Planned!OrderIsKept
    /\ scene = "templates" => Stored!TypeOK

\* An event that is done was answered: a change of a source is in the document, though
\* events of two sources are retried and arrive in any order (EnvironmentProjection); no
\* month is too short for a schedule, and one that is marked was started (one scan at a
\* time); an anomaly was answered, twice only after a fault (SystemTriggers).
EventsAreAnswered ==
    /\ scene = "environment" => Environment!TypeOK /\ Environment!DoneIsDocumented
    /\ scene = "scans" => Scans!TypeOK /\ Scans!NoMonthTooShort /\ Scans!MarkedWasStarted
    /\ scene = "alarms" => /\ Alarms!TypeOK
                           /\ Alarms!RepetitionNeedsFault /\ Alarms!DoneIsAnswered

\* What an agent says sets off a talk of bounded depth in which everyone acts by its own
\* tools and one key does one thing (SkillDispatch); nothing drafted leaves before a person
\* accepted it, what the step tells of it took place, and nothing leaves again without a
\* fault (DraftPublishing).
TalkIsGoverned ==
    /\ scene = "words" => /\ Words!TypeOK /\ Words!TalkIsBounded
                          /\ Words!OwnHands /\ Words!KeyedOnce
    /\ scene = "drafts" => Drafted!TalkIsBounded /\ Drafted!OwnHands
    /\ scene = "posts" => /\ Posts!TypeOK /\ Posts!OnlyAccepted
                          /\ Posts!TellsTrue /\ Posts!RepeatsNeedFault
    /\ scene = "convened" => /\ Convened!OnlyAccepted /\ Convened!TellsTrue
                             /\ Convened!RepeatsNeedFault /\ Convened!MeetingsInOrder
    /\ scene = "mails" => Mails!OnlyAccepted /\ Mails!TellsTrue /\ Mails!RepeatsNeedFault
    /\ scene = "notices" => Notices!OnlyAccepted /\ Notices!TellsTrue

\* What no step of the execution may do: write a step over a version it did not read, fail
\* a step by its event before the last attempt, let a call in beyond the budget when calls
\* come one by one, or give a step to an expert who was put out of service.
StepsKeepTheRules ==
    [][/\ scene = "join" => Join!NoLostUpdate
       /\ scene = "pair" => Pair!NoLostUpdate
       /\ scene = "expiry" => Expiry!EndsByItsLastAttempt
       /\ scene = "budget" => Spends!WithinBudget
       /\ scene = "templates" => Stored!InactiveGetNothing]_vars

-----------------------------------------------------------------------------
(* What the documents promise and the code does not keep.                  *)

\* "The system returns the stored result without invoking the external side effect again"
\* (idempotent-tool-execution): a key that succeeded once is answered from its record.
ReplayedAfterSuccess == scene = "tools" => Tools!ReplayedAfterSuccess

\* The outputs of the upstream steps are injected into the direct downstream steps
\* (docs/14): a step that starts has the outputs of all it depends on.
OutputsArrive == scene = "join" => Join!OutputsArrive
=============================================================================
