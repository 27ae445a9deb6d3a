--------------------------- MODULE MCBusiness ---------------------------
(****************************************************************************)
(* The business components on small instances. They do not share state here:*)
(* each behaviour checks one of them, in the scene its first state picks, and*)
(* a property says what holds in the scenes it names.                       *)
(****************************************************************************)
EXTENDS Integers, Sequences, FiniteSets, TLC

CONSTANTS Scenes,
          s1, s2, s3, s4, ann, bob, root, sales, finance, hall, budget, hello, b1, q1, q2,
          q3, l1, l2, p1, f1, f2, old, revised, none, parent,
          \* the scenes "cards" and "manual"; what is proved of them holds for all values
          CardStep, CardDep, CardRedLine, HandStep, HandDep, HandRedLine, MaxHandFaults,
          MaxHandMoves,
          \* the scene "group", likewise
          GroupOwner, GroupGuest, GroupHumanMessage, GroupAiMessage, MaxGroupClock,
          MaxGroupFaults,
          \* the scene "meeting"
          MeetingPerson, MeetingDepartment, NoDepartment, MeetingSpeech, MeetingBallot,
          MeetingRequest, MaxMeetingTasks, MaxMeetingFaults,
          \* the scene "proposal"
          ProposalRequest, MaxProposalEdits, MaxProposalReviews, MaxProposalTasks,
          MaxProposalFaults,
          \* the scenes "archives" and "focus"
          TalkLoader, TalkTurner, TalkPinner, TalkKnown, MaxTalkMessages, MaxTalkReplies,
          MaxTalkFaults, FocusSession,
          \* the scene "reviews"
          CollabDept, CollabPerson, CollabAdministrator, CollabRequest, CollabChannel,
          CollabCategory, CollabRedLine, MaxCollabFaults,
          \* the scene "projects"
          ProjectPerson, ProjectId, ProjectOwner, ProjectName, ProjectRequest,
          MaxProjectClock

\* A red-line step and the step behind it, beside a chain of two; the first two alone.
ChainDep == s1 :> {} @@ s2 :> {s1} @@ s3 :> {} @@ s4 :> {s3}
GateDep == s1 :> {} @@ s2 :> {s1}

\* A project of ann's.
OwnedByAnn == p1 :> ann

ToDo(d, p, u) == [dur |-> d, priority |-> p, due |-> u]
Items == {<<ToDo(1, 0, 0), ToDo(2, 1, 0)>>, <<ToDo(2, 0, 0), ToDo(2, 0, 3), ToDo(1, 5, 3)>>,
          <<ToDo(3, 0, 0)>>}

VARIABLES scene,
          cardRow, cardRun, cardAdvance, cardQueue, card, cardSeen, cardDecisions,
          cardRequest, cardHands, cardApproved, cardInRequest, cardFaults, cardManual,
          collabSupervisor, collabSupervised, collabRequest, collabChannel, collabSession,
          collabDone, collabAudit, collabCrashes, collabMisses,
          groupArchived, groupDeleted, groupMember, groupLastRead, groupShown, groupAt,
          groupProposals, groupTasks, groupRef, groupOp, groupEvent, groupWorker,
          groupDocument, groupMustKeep, groupQueued, groupReceived, groupEntitled,
          groupClock, groupFaults,
          meeting, meetingOwner, meetingTalks, meetingVotes, meetingResolution,
          meetingTasks, meetingRequest, meetingOverwritten, meetingFaults,
          proposalRow, proposalReviews, proposalTasks, proposalAudit, proposalRequest,
          proposalFaults,
          talkExpert, talkBases, talkRow, talkQuotes, talkPinned, talkSent, talkOld,
          talkDoc, talkText, talkRequest, talkStarted, talkChatted, talkStored, talkRefused,
          talkFaults,
          diarySchedule, diaryFocus, diaryLog, diaryRequest, diaryPlanned,
          project, projectRequest, projectCard, projectClock

cardVars == <<cardRow, cardRun, cardAdvance, cardQueue, card, cardSeen, cardDecisions, cardRequest,
              cardHands, cardApproved, cardInRequest, cardFaults, cardManual>>
collabVars == <<collabSupervisor, collabSupervised, collabRequest, collabChannel, collabSession, collabDone,
                collabAudit, collabCrashes, collabMisses>>
groupVars == <<groupArchived, groupDeleted, groupMember, groupLastRead, groupShown, groupAt,
               groupProposals, groupTasks, groupRef, groupOp, groupEvent, groupWorker,
               groupDocument, groupMustKeep, groupQueued, groupReceived, groupEntitled,
               groupClock, groupFaults>>
meetingVars == <<meeting, meetingOwner, meetingTalks, meetingVotes, meetingResolution, meetingTasks,
                 meetingRequest, meetingOverwritten, meetingFaults>>
proposalVars == <<proposalRow, proposalReviews, proposalTasks, proposalAudit, proposalRequest, proposalFaults>>
talkVars == <<talkExpert, talkBases, talkRow, talkQuotes, talkPinned, talkSent, talkOld, talkDoc,
              talkText, talkRequest, talkStarted, talkChatted, talkStored, talkRefused,
              talkFaults>>
diaryVars == <<diarySchedule, diaryFocus, diaryLog, diaryRequest, diaryPlanned>>
projectVars == <<project, projectRequest, projectCard, projectClock>>
vars == <<scene, cardVars, collabVars, groupVars, meetingVars, proposalVars, talkVars, diaryVars, projectVars>>

\* Cards of two chains follow their run.
Cards == INSTANCE TaskCards
    WITH Step <- CardStep, Parent <- parent, Dep <- CardDep, RedLine <- CardRedLine,
         MaxFaults <- 0, MaxManual <- 0, row <- cardRow, run <- cardRun,
         advance <- cardAdvance, queue <- cardQueue, card <- card, seen <- cardSeen,
         decisions <- cardDecisions, request <- cardRequest, hands <- cardHands,
         approved <- cardApproved, inRequest <- cardInRequest, faults <- cardFaults,
         manual <- cardManual
\* People move cards by hand beside the run.
Manual == INSTANCE TaskCards
    WITH Step <- HandStep, Parent <- parent, Dep <- HandDep, RedLine <- HandRedLine,
         MaxFaults <- MaxHandFaults, MaxManual <- MaxHandMoves, row <- cardRow,
         run <- cardRun, advance <- cardAdvance, queue <- cardQueue, card <- card,
         seen <- cardSeen, decisions <- cardDecisions, request <- cardRequest,
         hands <- cardHands, approved <- cardApproved, inRequest <- cardInRequest,
         faults <- cardFaults, manual <- cardManual

\* A supervisor and an administrator review a request between two departments, and one
\* governs a channel.
Reviews == INSTANCE Collaboration
    WITH Dept <- CollabDept, Person <- CollabPerson, Administrator <- CollabAdministrator,
         Request <- CollabRequest, Channel <- CollabChannel, Category <- CollabCategory,
         RedLine <- CollabRedLine, None <- none, MaxFaults <- MaxCollabFaults,
         supervisor <- collabSupervisor, supervised <- collabSupervised,
         request <- collabRequest, channel <- collabChannel, session <- collabSession,
         done <- collabDone, audit <- collabAudit, crashes <- collabCrashes,
         misses <- collabMisses

\* An owner and a guest talk while the group changes.
Group == INSTANCE GroupMessaging
    WITH Owner <- GroupOwner, Guest <- GroupGuest, HumanMessage <- GroupHumanMessage,
         AiMessage <- GroupAiMessage, MaxClock <- MaxGroupClock, MaxFaults <- MaxGroupFaults,
         archived <- groupArchived, deleted <- groupDeleted, member <- groupMember,
         lastRead <- groupLastRead, shown <- groupShown, at <- groupAt,
         proposals <- groupProposals, tasks <- groupTasks, ref <- groupRef, op <- groupOp,
         event <- groupEvent, worker <- groupWorker, document <- groupDocument,
         mustKeep <- groupMustKeep, queued <- groupQueued, received <- groupReceived,
         entitled <- groupEntitled, clock <- groupClock, faults <- groupFaults

\* Two requests about one meeting.
Meeting == INSTANCE Meetings
    WITH Person <- MeetingPerson, Department <- MeetingDepartment, Speech <- MeetingSpeech,
         Ballot <- MeetingBallot, Request <- MeetingRequest, MaxTasks <- MaxMeetingTasks,
         MaxFaults <- MaxMeetingFaults, meeting <- meeting, owner <- meetingOwner,
         talks <- meetingTalks, votes <- meetingVotes, resolution <- meetingResolution,
         tasks <- meetingTasks, request <- meetingRequest, overwritten <- meetingOverwritten,
         faults <- meetingFaults

\* Requests about one proposal overlap.
Proposal == INSTANCE Proposals
    WITH Request <- ProposalRequest, MaxEdits <- MaxProposalEdits,
         MaxReviews <- MaxProposalReviews, MaxTasks <- MaxProposalTasks,
         MaxFaults <- MaxProposalFaults, row <- proposalRow, reviews <- proposalReviews,
         tasks <- proposalTasks, audit <- proposalAudit, request <- proposalRequest,
         faults <- proposalFaults

\* Two loads archive beside a turn and a pin; one of them may fail.
Archives == INSTANCE Conversations
    WITH Loader <- TalkLoader, Turner <- TalkTurner, Pinner <- TalkPinner,
         Known <- TalkKnown, MaxMessages <- MaxTalkMessages, MaxReplies <- MaxTalkReplies,
         MaxFaults <- MaxTalkFaults, expert <- talkExpert, bases <- talkBases,
         row <- talkRow, quotes <- talkQuotes, pinned <- talkPinned, sent <- talkSent,
         old <- talkOld, doc <- talkDoc, text <- talkText, request <- talkRequest,
         started <- talkStarted, chatted <- talkChatted, stored <- talkStored,
         refused <- talkRefused, faults <- talkFaults

\* Three lists of tasks, and a day of four slots.
Plans == INSTANCE TimeManagement
    WITH Request <- {}, Id <- (1..3), Slots <- 4, ItemList <- Items,
         Window <- {<<0, 4>>, <<1, 4>>}, Limit <- 9, Focus <- {}, Date <- {},
         Minutes <- {1, 2}, MaxLogs <- 2, schedule <- diarySchedule, focus <- diaryFocus,
         log <- diaryLog, request <- diaryRequest, planned <- diaryPlanned
\* Focus sessions, and the weeks they are counted in.
Focused == INSTANCE TimeManagement
    WITH Request <- {q1}, Id <- (1..2), Slots <- 0, ItemList <- {},
         Window <- {<<0, 4>>, <<1, 4>>}, Limit <- 9, Focus <- FocusSession,
         Date <- {0, 3, 6, 7, 13}, Minutes <- {1, 2}, MaxLogs <- 2,
         schedule <- diarySchedule, focus <- diaryFocus, log <- diaryLog,
         request <- diaryRequest, planned <- diaryPlanned

\* Three requests about a project, by its owner and another.
Projects == INSTANCE Projects
    WITH Person <- ProjectPerson, Project <- ProjectId, Owner <- ProjectOwner,
         Name <- ProjectName, Request <- ProjectRequest, MaxClock <- MaxProjectClock,
         project <- project, request <- projectRequest, card <- projectCard,
         clock <- projectClock

\* The components of the other scenes have no state.
Idle(x) == x = "idle"
Init ==
    /\ scene \in Scenes
    /\ CASE scene = "cards" -> Cards!Init
         [] scene = "manual" -> Manual!Init
         [] OTHER -> Idle(cardRow) /\ Idle(cardRun) /\ Idle(cardAdvance) /\ Idle(cardQueue)
                     /\ Idle(card) /\ Idle(cardSeen) /\ Idle(cardDecisions) /\
                     Idle(cardRequest) /\ Idle(cardHands) /\ Idle(cardApproved) /\
                     Idle(cardInRequest) /\ Idle(cardFaults) /\ Idle(cardManual)
    /\ IF scene = "reviews" THEN Reviews!Init
       ELSE Idle(collabSupervisor) /\ Idle(collabSupervised) /\ Idle(collabRequest) /\
            Idle(collabChannel) /\ Idle(collabSession) /\ Idle(collabDone) /\
            Idle(collabAudit) /\ Idle(collabCrashes) /\ Idle(collabMisses)
    /\ IF scene = "group" THEN Group!Init
       ELSE Idle(groupArchived) /\ Idle(groupDeleted) /\ Idle(groupMember) /\
            Idle(groupLastRead) /\ Idle(groupShown) /\ Idle(groupAt) /\ Idle(groupProposals)
            /\ Idle(groupTasks) /\ Idle(groupRef) /\ Idle(groupOp) /\ Idle(groupEvent) /\
            Idle(groupWorker) /\ Idle(groupDocument) /\ Idle(groupMustKeep) /\
            Idle(groupQueued) /\ Idle(groupReceived) /\ Idle(groupEntitled) /\
            Idle(groupClock) /\ Idle(groupFaults)
    /\ IF scene = "meeting" THEN Meeting!Init
       ELSE Idle(meeting) /\ Idle(meetingOwner) /\ Idle(meetingTalks) /\ Idle(meetingVotes)
            /\ Idle(meetingResolution) /\ Idle(meetingTasks) /\ Idle(meetingRequest) /\
            Idle(meetingOverwritten) /\ Idle(meetingFaults)
    /\ IF scene = "proposal" THEN Proposal!Init
       ELSE Idle(proposalRow) /\ Idle(proposalReviews) /\ Idle(proposalTasks) /\
            Idle(proposalAudit) /\ Idle(proposalRequest) /\ Idle(proposalFaults)
    /\ IF scene = "archives" THEN Archives!Init
       ELSE Idle(talkExpert) /\ Idle(talkBases) /\ Idle(talkRow) /\ Idle(talkQuotes) /\
            Idle(talkPinned) /\ Idle(talkSent) /\ Idle(talkOld) /\ Idle(talkDoc) /\
            Idle(talkText) /\ Idle(talkRequest) /\ Idle(talkStarted) /\ Idle(talkChatted) /\
            Idle(talkStored) /\ Idle(talkRefused) /\ Idle(talkFaults)
    /\ CASE scene = "plans" -> Plans!Init
         [] scene = "focus" -> Focused!Init
         [] OTHER -> Idle(diarySchedule) /\ Idle(diaryFocus) /\ Idle(diaryLog) /\
                     Idle(diaryRequest) /\ Idle(diaryPlanned)
    /\ IF scene = "projects" THEN Projects!Init
       ELSE Idle(project) /\ Idle(projectRequest) /\ Idle(projectCard) /\ Idle(projectClock)

Next ==
    \/ /\ \/ scene = "cards" /\ Cards!Next
          \/ scene = "manual" /\ Manual!Next
       /\ UNCHANGED <<scene, collabVars, groupVars, meetingVars, proposalVars, talkVars, diaryVars, projectVars>>
    \/ /\ scene = "reviews" /\ Reviews!Next
       /\ UNCHANGED <<scene, cardVars, groupVars, meetingVars, proposalVars, talkVars, diaryVars, projectVars>>
    \/ /\ scene = "group" /\ Group!Next
       /\ UNCHANGED <<scene, cardVars, collabVars, meetingVars, proposalVars, talkVars, diaryVars, projectVars>>
    \/ /\ scene = "meeting" /\ Meeting!Next
       /\ UNCHANGED <<scene, cardVars, collabVars, groupVars, proposalVars, talkVars, diaryVars, projectVars>>
    \/ /\ scene = "proposal" /\ Proposal!Next
       /\ UNCHANGED <<scene, cardVars, collabVars, groupVars, meetingVars, talkVars, diaryVars, projectVars>>
    \/ /\ scene = "archives" /\ Archives!Next
       /\ UNCHANGED <<scene, cardVars, collabVars, groupVars, meetingVars, proposalVars, diaryVars, projectVars>>
    \/ /\ \/ scene = "plans" /\ Plans!Next
          \/ scene = "focus" /\ Focused!Next
       /\ UNCHANGED <<scene, cardVars, collabVars, groupVars, meetingVars, proposalVars, talkVars, projectVars>>
    \/ /\ scene = "projects" /\ Projects!Next
       /\ UNCHANGED <<scene, cardVars, collabVars, groupVars, meetingVars, proposalVars, talkVars, diaryVars>>

Spec == Init /\ [][Next]_vars

\* What each component assumes of its constants, at the values of its scenes.
ASSUME ScenesAssumption ==
    /\ Cards!CardsParentAssumption
    /\ Cards!CardsDepAssumption
    /\ Cards!CardsRedLineAssumption
    /\ Cards!CardsBoundAssumption
    /\ Manual!CardsParentAssumption
    /\ Manual!CardsDepAssumption
    /\ Manual!CardsRedLineAssumption
    /\ Manual!CardsBoundAssumption
    /\ Reviews!CollabPeopleAssumption
    /\ Reviews!CollabCategoryAssumption
    /\ Reviews!CollabBoundAssumption
    /\ Group!GroupPeopleAssumption
    /\ Group!GroupMessageAssumption
    /\ Group!GroupBoundAssumption
    /\ Meeting!MeetingBoundAssumption
    /\ Meeting!MeetingDepartmentAssumption
    /\ Proposal!ProposalBoundAssumption
    /\ Archives!ConversationKnownAssumption
    /\ Archives!ConversationBoundAssumption
    /\ Plans!DiaryAssumption
    /\ Focused!DiaryAssumption
    /\ Projects!ProjectsAssumption

-----------------------------------------------------------------------------
\* Beside its run (TaskCards): when all events are handled each card says what its step
\* says, no work behind a red line is done before a human approved it, a decision concerns
\* the version its human saw, and an accepted card has a reason.
CardsFollowTheRun ==
    /\ scene = "cards" => Cards!TypeOK /\ Cards!CardsMirrorSteps
    /\ scene = "manual" => /\ Manual!RedLineNeedsHuman
                           /\ Manual!DecisionsOnCurrent
                           /\ Manual!AcceptedForAReason

\* Whoever reviewed a collaboration was entitled to when it was sent, the audit trail holds
\* nothing that did not happen, and a record that was lost was tried twice (Collaboration).
ReviewsAreAudited ==
    scene = "reviews" => /\ Reviews!TypeOK /\ Reviews!ReviewerEntitled
                         /\ Reviews!AuditIsTrue /\ Reviews!LostRecordsAreCounted

\* Who was put out of a group is sent nothing that is said later, and a message becomes one
\* proposal at most, however its requests overlap (GroupMessaging).
GroupsStayPrivate ==
    scene = "group" => /\ Group!TypeOK /\ Group!KickedHearNothing
                       /\ Group!OneProposalPerMessage

\* Only what people confirmed or approved becomes a task, once unless a late save hid the
\* mark (Meetings, Proposals); a decision follows a research; who may list a meeting of
\* a department may open it.
PeopleDecide ==
    /\ scene = "meeting" => /\ Meeting!TypeOK /\ Meeting!ListedIsVisible
                            /\ Meeting!OneTaskUnlessOverwritten /\ Meeting!TasksAreConfirmed
    /\ scene = "proposal" => /\ Proposal!TypeOK /\ Proposal!DecisionsFollowResearch
                             /\ Proposal!ApprovedByPeople /\ Proposal!TasksAreApproved

\* A message leaves the table only after its text was stored in the memory base, and never
\* one of the history window (Conversations: _archive_old beside turns and pins).  A project
\* is archived exactly when its owner was told so, and a new name that was told is there
\* until another is (Projects).
MemoryIsKept ==
    /\ scene = "projects" => /\ Projects!TypeOK /\ Projects!ArchivedForGood
                             /\ Projects!NamesAreKept
    /\ scene = "archives" => /\ Archives!TypeOK
                             /\ Archives!GoneWasStored /\ Archives!RecentIsKept

\* Suggestions fit the window, lie on no schedule and leave no room a task could have had;
\* the weekly reviews partition the logs; and with one request at a time there is one
\* session (TimeManagement).
SuggestionsAreFree ==
    /\ scene = "plans" => /\ Plans!TypeOK /\ Plans!SuggestionsFit
                          /\ Plans!SuggestionsAreFree /\ Plans!NoRoomLeft
    /\ scene = "focus" => Focused!WeeksPartition /\ Focused!OneFocus

\* What has ended stays so: a message that was archived, a session that was closed.
EndedStaysEnded ==
    [][/\ scene = "archives" => Archives!GoneStaysGone
       /\ scene = "focus" => Focused!FocusEndsOnce]_vars
=============================================================================
