SPECIFICATION Spec
CONSTANTS
    Scenes = {"cards", "manual", "reviews", "group", "meeting", "proposal", "archives", "plans", "focus",
              "projects"}
    s1 = s1
    s2 = s2
    s3 = s3
    s4 = s4
    ann = ann
    bob = bob
    root = root
    sales = sales
    finance = finance
    hall = hall
    budget = budget
    hello = hello
    b1 = b1
    q1 = q1
    q2 = q2
    q3 = q3
    l1 = l1
    l2 = l2
    p1 = p1
    f1 = f1
    f2 = f2
    old = old
    revised = revised
    none = none
    parent = parent
    CardStep = {s1, s2, s3, s4}
    CardDep <- ChainDep
    CardRedLine = {s1, s3}
    HandStep = {s1, s2}
    HandDep <- GateDep
    HandRedLine = {s1}
    MaxHandFaults = 1
    MaxHandMoves = 3
    GroupOwner = ann
    GroupGuest = {bob}
    GroupHumanMessage = {hello}
    GroupAiMessage = {}
    MaxGroupClock = 2
    MaxGroupFaults = 1
    MeetingPerson = {ann, bob}
    MeetingDepartment = {sales}
    NoDepartment = none
    MeetingSpeech = {s1}
    MeetingBallot = {b1}
    MeetingRequest = {q1, q2}
    MaxMeetingTasks = 2
    MaxMeetingFaults = 1
    ProposalRequest = {q1, q2}
    MaxProposalEdits = 1
    MaxProposalReviews = 3
    MaxProposalTasks = 2
    MaxProposalFaults = 1
    TalkLoader = {l1, l2}
    TalkTurner = {q1}
    TalkPinner = {p1}
    TalkKnown = FALSE
    MaxTalkMessages = 2
    MaxTalkReplies = 1
    MaxTalkFaults = 1
    FocusSession = {f1, f2}
    CollabDept = {sales, finance}
    CollabPerson = {ann, root}
    CollabAdministrator = {root}
    CollabRequest = {q1}
    CollabChannel = {hall}
    CollabCategory = {budget}
    CollabRedLine = {budget}
    MaxCollabFaults = 2
    ProjectPerson = {ann, bob}
    ProjectId = {p1}
    ProjectOwner <- OwnedByAnn
    ProjectName = {old, revised}
    ProjectRequest = {q1, q2, q3}
    MaxProjectClock = 2
INVARIANTS
    CardsFollowTheRun
    ReviewsAreAudited
    GroupsStayPrivate
    PeopleDecide
    
    SuggestionsAreFree

    
CHECK_DEADLOCK FALSE
