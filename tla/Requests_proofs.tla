-------------------------- MODULE Requests_proofs --------------------------
(***************************************************************************)
(* Requests of people that overlap: what is proved of proposals, meetings, *)
(* group messaging, conversations, focus sessions, projects, task cards    *)
(* and collaboration for any number of requests and people, and any        *)
(* bounds.                                                                 *)
(*                                                                         *)
(* The behaviours are those of MCBusiness, whose scenes take their sets    *)
(* and bounds from its constants.  Each has an invariant that is kept by   *)
(* the steps of its component and by every step that leaves the            *)
(* component's variables alone.                                            *)
(***************************************************************************)
EXTENDS MCBusiness, FiniteSetTheorems, TLAPS

-----------------------------------------------------------------------------
(* Proposals: a decision follows a research, and a task an approval.       *)

\* What a request about a proposal may know.
ProposalRow == [status : Proposal!Status, deleted : BOOLEAN, text : 0..MaxProposalEdits,
                task : 0..MaxProposalTasks]
ProposalReading == {"edit", "delete", "start", "asking", "record", "review", "convert"}
ProposalKnowing == [pc : {"idle"}]
                   \cup [pc : ProposalReading, seen : ProposalRow]
                   \cup [pc : {"audit"}, action : {"approve", "reject", "convert"}]

ProposalTyped == /\ Proposal!TypeOK
                 /\ IsFiniteSet(proposalReviews)
                 /\ proposalRequest \in [ProposalRequest -> ProposalKnowing]

\* What a status and a request under way stand for.
ProposalReasons ==
    /\ proposalRow.status = "reviewed" => Proposal!Looked
    /\ proposalRow.status = "approved" => Proposal!HumanSaid("approve")
    /\ \A r \in ProposalRequest : /\ Proposal!At(r, "review") => Proposal!Looked
                                  /\ Proposal!At(r, "convert") => Proposal!HumanSaid("approve")

ProposalInv == /\ ProposalTyped
               /\ ProposalReasons
               /\ Proposal!DecisionsFollowResearch
               /\ Proposal!TasksAreApproved

\* The bounds are natural numbers (ProposalBoundAssumption).
LEMMA ProposalBounds == /\ MaxProposalEdits \in Nat /\ MaxProposalReviews \in Nat
                        /\ MaxProposalTasks \in Nat /\ MaxProposalFaults \in Nat
  BY ScenesAssumption DEF Proposal!ProposalBoundAssumption

\* What the requests know by their place.
LEMMA ProposalKnown ==
  ASSUME NEW e \in ProposalKnowing
  PROVE  /\ e.pc \in ProposalReading => e.seen \in ProposalRow
         /\ e.pc = "audit" => e.action \in {"approve", "reject", "convert"}
  BY DEF ProposalKnowing, ProposalReading

\* A request that enters a place knows what belongs there, and the others stay.
LEMMA ProposalEnters ==
  ASSUME ProposalTyped, NEW r \in ProposalRequest, NEW e \in ProposalKnowing,
         Proposal!Enter(r, e)
  PROVE  /\ proposalRequest' \in [ProposalRequest -> ProposalKnowing]
         /\ proposalRequest'[r] = e
         /\ \A q \in ProposalRequest : q # r => proposalRequest'[q] = proposalRequest[q]
  BY DEF ProposalTyped, Proposal!Enter

\* An empty-handed request is one of them.
LEMMA ProposalIdles == Proposal!Idle \in ProposalKnowing
  BY DEF Proposal!Idle, ProposalKnowing

\* Reviews are only added, so that what was said and looked at stays.
LEMMA ReviewsStay ==
  ASSUME proposalReviews \subseteq proposalReviews'
  PROVE  /\ Proposal!Looked => Proposal!Looked'
         /\ \A d : Proposal!HumanSaid(d) => Proposal!HumanSaid(d)'
  BY DEF Proposal!Looked, Proposal!HumanSaid

\* A step of a request that adds no review and takes no decision.
LEMMA ProposalMoves ==
  ASSUME ProposalInv, NEW r \in ProposalRequest, NEW e \in ProposalKnowing,
         Proposal!Enter(r, e), UNCHANGED <<proposalReviews, proposalTasks>>,
         proposalRow' \in ProposalRow,
         proposalAudit' \subseteq {"approve", "reject", "convert"},
         proposalFaults' \in 0..MaxProposalFaults,
         proposalRow'.status \in {"reviewed", "approved"} => proposalRow'.status = proposalRow.status,
         e.pc = "review" => proposalRow.status = "reviewed",
         e.pc = "convert" => proposalRow.status = "approved"
  PROVE  ProposalInv'
<1>1. /\ Proposal!Looked' <=> Proposal!Looked
      /\ \A d : Proposal!HumanSaid(d)' <=> Proposal!HumanSaid(d)
  BY DEF Proposal!Looked, Proposal!HumanSaid
<1>2. ProposalTyped'
  <2>1. proposalRequest' \in [ProposalRequest -> ProposalKnowing]
    BY ProposalEnters DEF ProposalInv
  <2>2. Proposal!TypeOK'
    BY DEF ProposalInv, ProposalTyped, Proposal!TypeOK, ProposalRow, Proposal!ProposalDecision
  <2>. QED  BY <2>1, <2>2 DEF ProposalInv, ProposalTyped
<1>3. ProposalReasons'
  <2>1. ASSUME NEW q \in ProposalRequest
        PROVE  /\ proposalRequest'[q].pc = "review" => Proposal!Looked
               /\ proposalRequest'[q].pc = "convert" => Proposal!HumanSaid("approve")
    <3>1. CASE q = r
      BY <3>1, ProposalEnters DEF ProposalInv, ProposalReasons
    <3>2. CASE q # r
      BY <3>2, ProposalEnters DEF ProposalInv, ProposalReasons, Proposal!At
    <3>. QED  BY <3>1, <3>2
  <2>. QED  BY <1>1, <2>1 DEF ProposalInv, ProposalReasons, Proposal!At
<1>4. Proposal!DecisionsFollowResearch' /\ Proposal!TasksAreApproved'
  BY <1>1 DEF ProposalInv, Proposal!DecisionsFollowResearch, Proposal!TasksAreApproved
<1>. QED  BY <1>2, <1>3, <1>4 DEF ProposalInv

\* A review that is added gets a number within the bound.
LEMMA ReviewIsNumbered ==
  ASSUME ProposalTyped, Proposal!CanReview
  PROVE  Proposal!NextReview \in 1..MaxProposalReviews
<1>1. Cardinality(proposalReviews) \in Nat
  BY FS_CardinalityType DEF ProposalTyped
<1>2. Proposal!Cardinality(proposalReviews) = Cardinality(proposalReviews)
  BY DEF Proposal!Cardinality, Cardinality
<1>. QED  BY <1>1, <1>2, ProposalBounds DEF Proposal!CanReview, Proposal!NextReview

\* Drafts, readings and conversions keep the invariant.
LEMMA ProposalReads ==
  ASSUME ProposalInv, NEW r \in ProposalRequest,
         \/ Proposal!OpenEdit(r) \/ Proposal!OpenDelete(r) \/ Proposal!OpenResearch(r)
         \/ Proposal!OpenReview(r) \/ Proposal!OpenConvert(r)
  PROVE  ProposalInv'
<1>1. PICK pc \in ProposalReading :
        /\ Proposal!Enter(r, [pc |-> pc, seen |-> proposalRow])
        /\ pc = "review" => proposalRow.status = "reviewed"
        /\ pc = "convert" => proposalRow.status = "approved"
  BY DEF Proposal!OpenEdit, Proposal!OpenDelete, Proposal!OpenResearch, Proposal!OpenReview,
         Proposal!OpenConvert, Proposal!Read, Proposal!Reviewable, Proposal!assert_convertible,
         ProposalReading
<1>2. proposalRow \in ProposalRow
  BY DEF ProposalInv, ProposalTyped, Proposal!TypeOK, ProposalRow
<1>3. [pc |-> pc, seen |-> proposalRow] \in ProposalKnowing
  BY <1>2 DEF ProposalKnowing
<1>4. UNCHANGED <<proposalRow, proposalReviews, proposalTasks, proposalAudit, proposalFaults>>
  BY DEF Proposal!OpenEdit, Proposal!OpenDelete, Proposal!OpenResearch, Proposal!OpenReview,
         Proposal!OpenConvert
<1>5. proposalAudit \subseteq {"approve", "reject", "convert"} /\ proposalFaults \in 0..MaxProposalFaults
  BY DEF ProposalInv, ProposalTyped, Proposal!TypeOK, Proposal!ProposalDecision
<1>. QED  BY <1>1, <1>2, <1>3, <1>4, <1>5, ProposalMoves

LEMMA ProposalSaves ==
  ASSUME ProposalInv, NEW r \in ProposalRequest,
         \/ Proposal!create(r) \/ Proposal!SaveEdit(r) \/ Proposal!SaveDelete(r)
         \/ Proposal!SaveResearching(r) \/ Proposal!Reread(r)
         \/ Proposal!Audit(r) \/ Proposal!Abort(r)
  PROVE  ProposalInv'
<1>1. /\ proposalRow \in ProposalRow
      /\ proposalAudit \subseteq {"approve", "reject", "convert"}
      /\ proposalFaults \in 0..MaxProposalFaults
      /\ proposalRequest \in [ProposalRequest -> ProposalKnowing]
  BY DEF ProposalInv, ProposalTyped, Proposal!TypeOK, Proposal!ProposalDecision, ProposalRow
<1>2. CASE Proposal!create(r)
  <2>1. Proposal!Enter(r, proposalRequest[r])
    BY <1>1, <1>2 DEF Proposal!create, Proposal!Enter
  <2>2. proposalRow' \in ProposalRow /\ proposalRow'.status = "draft"
    BY <1>1, <1>2 DEF Proposal!create, ProposalRow, Proposal!Status
  <2>3. proposalRequest[r].pc = "idle"
    BY <1>2 DEF Proposal!create, Proposal!At
  <2>4. UNCHANGED <<proposalReviews, proposalTasks, proposalAudit, proposalFaults>>
    BY <1>2 DEF Proposal!create
  <2>. QED  BY <1>1, <2>1, <2>2, <2>3, <2>4, ProposalMoves
<1>3. CASE Proposal!SaveEdit(r)
  <2>1. proposalRow' \in ProposalRow /\ proposalRow'.status = proposalRow.status
    BY <1>1, <1>3, ProposalBounds DEF Proposal!SaveEdit, ProposalRow
  <2>2. /\ Proposal!Enter(r, Proposal!Idle)
        /\ UNCHANGED <<proposalReviews, proposalTasks, proposalAudit, proposalFaults>>
    BY <1>3 DEF Proposal!SaveEdit, Proposal!Leave
  <2>. QED  BY <1>1, <2>1, <2>2, ProposalMoves, ProposalIdles DEF Proposal!Idle
<1>4. CASE Proposal!SaveDelete(r)
  <2>1. proposalRow' \in ProposalRow /\ proposalRow'.status = proposalRow.status
    BY <1>1, <1>4 DEF Proposal!SaveDelete, ProposalRow
  <2>2. /\ Proposal!Enter(r, Proposal!Idle)
        /\ UNCHANGED <<proposalReviews, proposalTasks, proposalAudit, proposalFaults>>
    BY <1>4 DEF Proposal!SaveDelete, Proposal!Leave
  <2>. QED  BY <1>1, <2>1, <2>2, ProposalMoves, ProposalIdles DEF Proposal!Idle
<1>5. CASE Proposal!SaveResearching(r)
  <2>. DEFINE e == [pc |-> "asking", seen |-> proposalRequest[r].seen]
  <2>1. e \in ProposalKnowing /\ e.pc = "asking"
    <3>1. proposalRequest[r].seen \in ProposalRow
      BY <1>1, <1>5, ProposalKnown DEF Proposal!SaveResearching, Proposal!At, ProposalReading
    <3>. QED  BY <3>1 DEF ProposalKnowing, ProposalReading
  <2>2. proposalRow' \in ProposalRow /\ proposalRow'.status = "researching"
    BY <1>1, <1>5 DEF Proposal!SaveResearching, ProposalRow, Proposal!Status
  <2>3. /\ Proposal!Enter(r, e)
        /\ UNCHANGED <<proposalReviews, proposalTasks, proposalAudit, proposalFaults>>
    BY <1>5 DEF Proposal!SaveResearching
  <2>. HIDE DEF e
  <2>. QED  BY <1>1, <2>1, <2>2, <2>3, ProposalMoves
<1>6. CASE Proposal!Reread(r)
  <2>. DEFINE e == [proposalRequest[r] EXCEPT !.pc = "record"]
  <2>1. e \in ProposalKnowing /\ e.pc = "record"
    <3>1. proposalRequest[r] \in [pc : ProposalReading, seen : ProposalRow]
      BY <1>1, <1>6 DEF Proposal!Reread, Proposal!At, ProposalKnowing, ProposalReading
    <3>. QED  BY <3>1 DEF ProposalKnowing, ProposalReading
  <2>2. Proposal!Enter(r, e) \/ Proposal!Enter(r, Proposal!Idle)
    BY <1>6 DEF Proposal!Reread, Proposal!Leave
  <2>3. UNCHANGED <<proposalRow, proposalReviews, proposalTasks, proposalAudit, proposalFaults>>
    BY <1>6 DEF Proposal!Reread
  <2>. HIDE DEF e
  <2>4. CASE Proposal!Enter(r, e)
    BY <1>1, <2>1, <2>3, <2>4, ProposalMoves
  <2>5. CASE Proposal!Enter(r, Proposal!Idle)
    BY <1>1, <2>3, <2>5, ProposalMoves, ProposalIdles DEF Proposal!Idle
  <2>. QED  BY <2>2, <2>4, <2>5
<1>7. CASE Proposal!Audit(r)
  <2>1. proposalRequest[r].action \in {"approve", "reject", "convert"}
    BY <1>1, <1>7, ProposalKnown DEF Proposal!Audit, Proposal!At
  <2>2. /\ Proposal!Enter(r, Proposal!Idle)
        /\ UNCHANGED <<proposalRow, proposalReviews, proposalTasks, proposalFaults>>
        /\ proposalAudit' \subseteq {"approve", "reject", "convert"}
    BY <1>1, <1>7, <2>1 DEF Proposal!Audit, Proposal!Leave
  <2>. QED  BY <1>1, <2>2, ProposalMoves, ProposalIdles DEF Proposal!Idle
<1>8. CASE Proposal!Abort(r)
  <2>1. /\ Proposal!Enter(r, Proposal!Idle)
        /\ UNCHANGED <<proposalRow, proposalReviews, proposalTasks, proposalAudit>>
        /\ proposalFaults' \in 0..MaxProposalFaults
    BY <1>1, <1>8, ProposalBounds DEF Proposal!Abort, Proposal!Leave
  <2>. QED  BY <1>1, <2>1, ProposalMoves, ProposalIdles DEF Proposal!Idle
<1>. QED  BY <1>2, <1>3, <1>4, <1>5, <1>6, <1>7, <1>8

\* Research that is recorded, a decision of a person, and a conversion keep it too.
LEMMA ProposalDecides ==
  ASSUME ProposalInv, NEW r \in ProposalRequest,
         \/ Proposal!SaveResearch(r) \/ Proposal!SaveConvert(r)
         \/ \E d \in Proposal!ProposalDecision : Proposal!SaveReview(r, d)
  PROVE  ProposalInv'
<1>1. /\ proposalRow \in ProposalRow
      /\ proposalRequest \in [ProposalRequest -> ProposalKnowing]
      /\ proposalReviews \subseteq Proposal!Review
      /\ IsFiniteSet(proposalReviews)
  BY DEF ProposalInv, ProposalTyped, Proposal!TypeOK, ProposalRow
<1>2. CASE Proposal!SaveResearch(r)
  <2>. DEFINE new == [n |-> Proposal!NextReview, type |-> "ai_research",
                      text |-> proposalRequest[r].seen.text]
  <2>1. new \in Proposal!Review /\ new.type = "ai_research"
    <3>1. proposalRequest[r].seen \in ProposalRow
      BY <1>1, <1>2, ProposalKnown DEF Proposal!SaveResearch, Proposal!At, ProposalReading
    <3>2. proposalRequest[r].seen.text \in 0..MaxProposalEdits
      BY <3>1 DEF ProposalRow
    <3>3. Proposal!NextReview \in 1..MaxProposalReviews
      BY <1>2, ReviewIsNumbered DEF Proposal!SaveResearch, ProposalInv
    <3>. QED  BY <3>2, <3>3 DEF Proposal!Review
  <2>2. /\ proposalReviews' = proposalReviews \cup {new}
        /\ proposalRow' = [proposalRow EXCEPT !.status = "reviewed"]
        /\ Proposal!Enter(r, Proposal!Idle)
        /\ UNCHANGED <<proposalTasks, proposalAudit, proposalFaults>>
    BY <1>2 DEF Proposal!SaveResearch, Proposal!Researched, Proposal!Leave
  <2>. HIDE DEF new
  <2>3. Proposal!Looked'
    BY <2>1, <2>2 DEF Proposal!Looked
  <2>5. \A d : Proposal!HumanSaid(d) => Proposal!HumanSaid(d)'
    BY <2>2, ReviewsStay
  <2>6. IsFiniteSet(proposalReviews')
    BY <1>1, <2>2, FS_AddElement
  <2>7. proposalRow' \in ProposalRow /\ proposalRow'.status = "reviewed"
    BY <1>1, <2>2 DEF ProposalRow, Proposal!Status
  <2>8. proposalReviews' \subseteq Proposal!Review
    BY <1>1, <2>1, <2>2
  <2>9. ProposalTyped'
    <3>1. Proposal!TypeOK'
      BY <2>2, <2>7, <2>8 DEF ProposalInv, ProposalTyped, Proposal!TypeOK, ProposalRow
    <3>2. proposalRequest' \in [ProposalRequest -> ProposalKnowing]
      BY <2>2, ProposalEnters, ProposalIdles DEF ProposalInv
    <3>. QED  BY <3>1, <3>2, <2>6 DEF ProposalTyped
  <2>10. ProposalReasons'
    <3>1. ASSUME NEW q \in ProposalRequest, proposalRequest'[q].pc = "convert"
          PROVE  Proposal!HumanSaid("approve")
      <4>1. q # r
        BY <2>2, <3>1, ProposalEnters, ProposalIdles DEF ProposalInv, Proposal!Idle
      <4>. QED  BY <2>2, <3>1, <4>1, ProposalEnters, ProposalIdles
                DEF ProposalInv, ProposalReasons, Proposal!At
    <3>. QED  BY <2>3, <2>5, <2>7, <3>1 DEF ProposalReasons, Proposal!At
  <2>. QED  BY <2>2, <2>3, <2>5, <2>9, <2>10
            DEF ProposalInv, Proposal!DecisionsFollowResearch, Proposal!TasksAreApproved
<1>3. ASSUME NEW d \in Proposal!ProposalDecision, Proposal!SaveReview(r, d)
      PROVE  ProposalInv'
  <2>. DEFINE new == [n |-> Proposal!NextReview, type |-> "human", decision |-> d]
              e == [pc |-> "audit", action |-> d]
  <2>1. new \in Proposal!Review /\ new.type = "human" /\ new.decision = d
    <3>1. Proposal!NextReview \in 1..MaxProposalReviews
      BY <1>3, ReviewIsNumbered DEF Proposal!SaveReview, ProposalInv
    <3>. QED  BY <3>1 DEF Proposal!Review
  <2>2. /\ proposalReviews' = proposalReviews \cup {new}
        /\ proposalRow' = [proposalRow EXCEPT !.status = IF d = "approve" THEN "approved" ELSE "rejected"]
        /\ Proposal!Enter(r, e)
        /\ UNCHANGED <<proposalTasks, proposalAudit, proposalFaults>>
        /\ Proposal!Looked
    BY <1>3 DEF Proposal!SaveReview, ProposalInv, ProposalReasons
  <2>3. e \in ProposalKnowing /\ e.pc = "audit"
    BY DEF ProposalKnowing, Proposal!ProposalDecision
  <2>. HIDE DEF new, e
  <2>4. Proposal!Looked'
    BY <2>2, ReviewsStay
  <2>5. \A x : Proposal!HumanSaid(x) => Proposal!HumanSaid(x)'
    BY <2>2, ReviewsStay
  <2>6. IsFiniteSet(proposalReviews')
    BY <1>1, <2>2, FS_AddElement
  <2>7. /\ proposalRow' \in ProposalRow
        /\ proposalRow'.status = "approved" => Proposal!HumanSaid("approve")'
    <3>1. proposalRow' \in ProposalRow /\ (proposalRow'.status = "approved" => d = "approve")
      BY <1>1, <2>2 DEF ProposalRow, Proposal!Status
    <3>2. d = "approve" => Proposal!HumanSaid("approve")'
      BY <2>1, <2>2 DEF Proposal!HumanSaid
    <3>. QED  BY <3>1, <3>2
  <2>8. proposalReviews' \subseteq Proposal!Review
    BY <1>1, <2>1, <2>2
  <2>9. ProposalTyped'
    <3>1. Proposal!TypeOK'
      BY <2>2, <2>7, <2>8 DEF ProposalInv, ProposalTyped, Proposal!TypeOK, ProposalRow
    <3>2. proposalRequest' \in [ProposalRequest -> ProposalKnowing]
      BY <2>2, <2>3, ProposalEnters DEF ProposalInv
    <3>. QED  BY <3>1, <3>2, <2>6 DEF ProposalTyped
  <2>10. ProposalReasons'
    <3>1. ASSUME NEW q \in ProposalRequest, proposalRequest'[q].pc = "convert"
          PROVE  Proposal!HumanSaid("approve")
      <4>1. q # r
        BY <2>2, <2>3, <3>1, ProposalEnters DEF ProposalInv
      <4>. QED  BY <2>2, <2>3, <3>1, <4>1, ProposalEnters
                DEF ProposalInv, ProposalReasons, Proposal!At
    <3>. QED  BY <2>4, <2>5, <2>7, <3>1 DEF ProposalReasons, Proposal!At
  <2>. QED  BY <2>2, <2>4, <2>5, <2>9, <2>10
            DEF ProposalInv, Proposal!DecisionsFollowResearch, Proposal!TasksAreApproved
<1>4. CASE Proposal!SaveConvert(r)
  <2>. DEFINE e == [pc |-> "audit", action |-> "convert"]
  <2>1. /\ Proposal!HumanSaid("approve")
        /\ proposalTasks < MaxProposalTasks /\ proposalTasks' = proposalTasks + 1
        /\ proposalRow' = [proposalRow EXCEPT !.task = proposalTasks + 1]
        /\ Proposal!Enter(r, e)
        /\ UNCHANGED <<proposalReviews, proposalAudit, proposalFaults>>
    BY <1>4 DEF Proposal!SaveConvert, Proposal!NewTask, ProposalInv, ProposalReasons
  <2>2. e \in ProposalKnowing /\ e.pc = "audit"
    BY DEF ProposalKnowing
  <2>. HIDE DEF e
  <2>3. proposalTasks' \in 0..MaxProposalTasks
    BY <2>1, ProposalBounds DEF ProposalInv, ProposalTyped, Proposal!TypeOK
  <2>4. proposalRow' \in ProposalRow /\ proposalRow'.status = proposalRow.status
    BY <1>1, <2>1, <2>3 DEF ProposalRow
  <2>5. /\ Proposal!Looked' <=> Proposal!Looked
        /\ \A d : Proposal!HumanSaid(d)' <=> Proposal!HumanSaid(d)
    BY <2>1 DEF Proposal!Looked, Proposal!HumanSaid
  <2>6. ProposalTyped'
    <3>1. Proposal!TypeOK'
      BY <2>1, <2>3, <2>4 DEF ProposalInv, ProposalTyped, Proposal!TypeOK, ProposalRow
    <3>2. proposalRequest' \in [ProposalRequest -> ProposalKnowing]
      BY <2>1, <2>2, ProposalEnters DEF ProposalInv
    <3>. QED  BY <3>1, <3>2, <2>1 DEF ProposalInv, ProposalTyped
  <2>7. ProposalReasons'
    <3>1. ASSUME NEW q \in ProposalRequest, proposalRequest'[q].pc = "review"
          PROVE  Proposal!Looked
      <4>1. q # r
        BY <2>1, <2>2, <3>1, ProposalEnters DEF ProposalInv
      <4>. QED  BY <2>1, <2>2, <3>1, <4>1, ProposalEnters
                DEF ProposalInv, ProposalReasons, Proposal!At
    <3>. QED  BY <2>1, <2>4, <2>5, <3>1 DEF ProposalInv, ProposalReasons, Proposal!At
  <2>. QED  BY <2>1, <2>5, <2>6, <2>7
            DEF ProposalInv, Proposal!DecisionsFollowResearch, Proposal!TasksAreApproved
<1>. QED  BY <1>2, <1>3, <1>4

\* Nothing is known of a proposal that is not there yet.
LEMMA ProposalInit == Proposal!Init => ProposalInv
<1>. SUFFICES ASSUME Proposal!Init PROVE ProposalInv
  OBVIOUS
<1>1. Proposal!TypeOK
  BY ProposalBounds DEF Proposal!Init, Proposal!TypeOK, Proposal!Status, Proposal!NoTask
<1>2. IsFiniteSet(proposalReviews)
  BY FS_EmptySet DEF Proposal!Init
<1>3. /\ proposalRequest \in [ProposalRequest -> ProposalKnowing]
      /\ \A r \in ProposalRequest : proposalRequest[r].pc = "idle"
  BY ProposalIdles DEF Proposal!Init, Proposal!Idle
<1>4. ProposalReasons
  BY <1>3 DEF Proposal!Init, ProposalReasons, Proposal!At
<1>5. Proposal!DecisionsFollowResearch /\ Proposal!TasksAreApproved
  BY DEF Proposal!Init, Proposal!DecisionsFollowResearch, Proposal!TasksAreApproved,
         Proposal!HumanSaid
<1>. QED  BY <1>1, <1>2, <1>3, <1>4, <1>5 DEF ProposalInv, ProposalTyped

\* Every step of the requests keeps it, and a step that leaves the proposal alone.
LEMMA ProposalNext ==
  ASSUME ProposalInv, Proposal!Next \/ UNCHANGED proposalVars
  PROVE  ProposalInv'
<1>1. CASE Proposal!Next
  <2>1. PICK r \in ProposalRequest : \/ Proposal!Drafts(r) \/ Proposal!Researches(r)
                                     \/ Proposal!Decides(r) \/ Proposal!Abort(r)
    BY <1>1 DEF Proposal!Next
  <2>. QED  BY <2>1, ProposalReads, ProposalSaves, ProposalDecides
            DEF Proposal!Drafts, Proposal!Researches, Proposal!Decides
<1>2. CASE UNCHANGED proposalVars
  <2>1. /\ UNCHANGED <<proposalRow, proposalReviews, proposalTasks>>
        /\ UNCHANGED <<proposalAudit, proposalRequest, proposalFaults>>
    BY <1>2 DEF proposalVars
  <2>2. /\ Proposal!Looked' <=> Proposal!Looked
        /\ \A d : Proposal!HumanSaid(d)' <=> Proposal!HumanSaid(d)
    BY <2>1 DEF Proposal!Looked, Proposal!HumanSaid
  <2>3. ProposalTyped'
    BY <2>1 DEF ProposalInv, ProposalTyped, Proposal!TypeOK
  <2>4. ProposalReasons'
    BY <2>1, <2>2 DEF ProposalInv, ProposalReasons, Proposal!At
  <2>. QED  BY <2>1, <2>2, <2>3, <2>4
            DEF ProposalInv, Proposal!DecisionsFollowResearch, Proposal!TasksAreApproved
<1>. QED  BY <1>1, <1>2

-----------------------------------------------------------------------------
(* Meetings: what becomes a task was confirmed, and becomes one unless a   *)
(* late save hid the mark.                                                 *)

\* What a request about a meeting may know.
MeetingRow == [status : Meeting!Status, minutes : SUBSET MeetingSpeech]
ResolutionRow == [known : BOOLEAN, confirmed : BOOLEAN, task : 0..MaxMeetingTasks]
MeetingKnowing ==
    [pc : {"idle", "closed", "talk", "vote"}]
    \cup [pc : {"status"}, seen : MeetingRow, to : Meeting!Status]
    \cup [pc : {"minutes"}, seen : MeetingRow, heard : SUBSET MeetingSpeech]
    \cup [pc : {"confirm", "convert"}, seen : ResolutionRow]

MeetingTyped ==
    /\ Meeting!TypeOK
    /\ meetingOwner \in [creator : MeetingPerson,
                         department : MeetingDepartment \cup {NoDepartment}]
    /\ meetingRequest \in [MeetingRequest -> MeetingKnowing]

\* A conversion holds the row: it is the only one, and what it has seen is still so.
ConversionHolds ==
    /\ \A r \in MeetingRequest : Meeting!At(r, "convert") =>
          /\ meetingRequest[r].seen = meetingResolution
          /\ meetingResolution.known /\ meetingResolution.confirmed
          /\ meetingResolution.task = 0
    /\ \A r, q \in MeetingRequest :
          Meeting!At(r, "convert") /\ Meeting!At(q, "convert") => r = q

\* The mark tells how many tasks there are, unless it was overwritten.
MarkCounts == \/ meetingTasks = 0 /\ meetingResolution.task = 0
              \/ meetingTasks = 1 /\ meetingResolution.task # 0
              \/ meetingOverwritten

MeetingInv == /\ MeetingTyped
              /\ ConversionHolds
              /\ MarkCounts
              /\ Meeting!TasksAreConfirmed

\* The bounds are natural numbers, and no department is none of them.
LEMMA MeetingBounds == /\ MaxMeetingTasks \in Nat /\ MaxMeetingFaults \in Nat
                       /\ NoDepartment \notin MeetingDepartment
  BY ScenesAssumption DEF Meeting!MeetingBoundAssumption, Meeting!MeetingDepartmentAssumption

\* What the requests know by their place.
LEMMA MeetingKnown ==
  ASSUME NEW e \in MeetingKnowing
  PROVE  /\ e.pc = "status" => e.seen \in MeetingRow /\ e.to \in Meeting!Status
         /\ e.pc = "minutes" => e.seen \in MeetingRow /\ e.heard \subseteq MeetingSpeech
         /\ e.pc \in {"confirm", "convert"} => e.seen \in ResolutionRow
  BY DEF MeetingKnowing

LEMMA MeetingEnters ==
  ASSUME MeetingTyped, NEW r \in MeetingRequest, NEW e \in MeetingKnowing, Meeting!Enter(r, e)
  PROVE  /\ meetingRequest' \in [MeetingRequest -> MeetingKnowing]
         /\ meetingRequest'[r] = e
         /\ \A q \in MeetingRequest : q # r => meetingRequest'[q] = meetingRequest[q]
  BY DEF MeetingTyped, Meeting!Enter

LEMMA MeetingIdles == Meeting!Idle \in MeetingKnowing /\ Meeting!Idle.pc = "idle"
  BY DEF Meeting!Idle, MeetingKnowing

\* A step that leaves the resolution and its tasks alone, and opens no conversion.
LEMMA MeetingMoves ==
  ASSUME MeetingInv, NEW r \in MeetingRequest, NEW e \in MeetingKnowing,
         Meeting!Enter(r, e), e.pc # "convert",
         UNCHANGED <<meetingOwner, meetingResolution, meetingTasks, meetingOverwritten>>,
         meeting' \in MeetingRow, meetingTalks' \subseteq MeetingSpeech,
         meetingVotes' \subseteq MeetingBallot, meetingFaults' \in 0..MaxMeetingFaults
  PROVE  MeetingInv'
<1>1. MeetingTyped'
  <2>1. Meeting!TypeOK'
    BY DEF MeetingInv, MeetingTyped, Meeting!TypeOK, MeetingRow
  <2>2. meetingRequest' \in [MeetingRequest -> MeetingKnowing]
    BY MeetingEnters DEF MeetingInv
  <2>. QED  BY <2>1, <2>2 DEF MeetingInv, MeetingTyped
<1>2. \A q \in MeetingRequest : meetingRequest'[q].pc = "convert" =>
         Meeting!At(q, "convert") /\ meetingRequest'[q] = meetingRequest[q]
  BY MeetingEnters DEF MeetingInv, Meeting!At
<1>3. ConversionHolds'
  BY <1>2 DEF MeetingInv, ConversionHolds, Meeting!At
<1>. QED  BY <1>1, <1>3 DEF MeetingInv, MarkCounts, Meeting!TasksAreConfirmed

\* What is done about status, minutes, speeches and votes keeps the invariant.
LEMMA MeetingTalks ==
  ASSUME MeetingInv, NEW r \in MeetingRequest, Meeting!Holds(r) \/ Meeting!Abort(r)
  PROVE  MeetingInv'
<1>1. /\ meeting \in MeetingRow
      /\ meetingTalks \subseteq MeetingSpeech /\ meetingVotes \subseteq MeetingBallot
      /\ meetingFaults \in 0..MaxMeetingFaults
      /\ meetingRequest[r] \in MeetingKnowing
  BY DEF MeetingInv, MeetingTyped, Meeting!TypeOK, MeetingRow
<1>2. ASSUME NEW to \in Meeting!Status, Meeting!OpenStatus(r, to)
      PROVE  MeetingInv'
  <2>. DEFINE e == [pc |-> "status", seen |-> meeting, to |-> to]
  <2>1. e \in MeetingKnowing /\ e.pc # "convert"
    BY <1>1 DEF MeetingKnowing
  <2>2. /\ Meeting!Enter(r, e)
        /\ UNCHANGED <<meeting, meetingOwner, meetingTalks, meetingVotes>>
        /\ UNCHANGED <<meetingResolution, meetingTasks, meetingOverwritten, meetingFaults>>
    BY <1>2 DEF Meeting!OpenStatus
  <2>. HIDE DEF e
  <2>. QED  BY <1>1, <2>1, <2>2, MeetingMoves
<1>3. CASE Meeting!SaveStatus(r)
  <2>1. meeting' \in MeetingRow
    BY <1>1, <1>3, MeetingKnown DEF Meeting!SaveStatus, Meeting!At, MeetingRow
  <2>2. PICK e \in MeetingKnowing : Meeting!Enter(r, e) /\ e.pc # "convert"
    <3>1. [pc |-> "closed"] \in MeetingKnowing
      BY DEF MeetingKnowing
    <3>. QED  BY <1>3, <3>1, MeetingIdles DEF Meeting!SaveStatus, Meeting!Leave
  <2>3. /\ UNCHANGED <<meetingOwner, meetingTalks, meetingVotes>>
        /\ UNCHANGED <<meetingResolution, meetingTasks, meetingOverwritten, meetingFaults>>
    BY <1>3 DEF Meeting!SaveStatus
  <2>. QED  BY <1>1, <2>1, <2>2, <2>3, MeetingMoves
<1>4. CASE Meeting!OpenMinutes(r)
  <2>. DEFINE e == [pc |-> "minutes", seen |-> meeting, heard |-> meetingTalks]
  <2>1. e \in MeetingKnowing /\ e.pc # "convert"
    BY <1>1 DEF MeetingKnowing
  <2>2. /\ Meeting!Enter(r, e)
        /\ UNCHANGED <<meeting, meetingOwner, meetingTalks, meetingVotes>>
        /\ UNCHANGED <<meetingResolution, meetingTasks, meetingOverwritten, meetingFaults>>
    BY <1>4 DEF Meeting!OpenMinutes
  <2>. HIDE DEF e
  <2>. QED  BY <1>1, <2>1, <2>2, MeetingMoves
<1>5. CASE Meeting!SaveMinutes(r)
  <2>1. meeting' \in MeetingRow
    BY <1>1, <1>5, MeetingKnown DEF Meeting!SaveMinutes, Meeting!At, MeetingRow
  <2>2. /\ Meeting!Enter(r, Meeting!Idle)
        /\ UNCHANGED <<meetingOwner, meetingTalks, meetingVotes>>
        /\ UNCHANGED <<meetingResolution, meetingTasks, meetingOverwritten, meetingFaults>>
    BY <1>5 DEF Meeting!SaveMinutes, Meeting!Leave
  <2>. QED  BY <1>1, <2>1, <2>2, MeetingMoves, MeetingIdles
<1>6. CASE Meeting!OpenTalk(r) \/ Meeting!OpenVote(r) \/ Meeting!SkipMinutes(r)
  <2>1. PICK e \in MeetingKnowing : Meeting!Enter(r, e) /\ e.pc # "convert"
    <3>1. [pc |-> "talk"] \in MeetingKnowing /\ [pc |-> "vote"] \in MeetingKnowing
      BY DEF MeetingKnowing
    <3>. QED  BY <1>6, <3>1, MeetingIdles
              DEF Meeting!OpenTalk, Meeting!OpenVote, Meeting!SkipMinutes, Meeting!Leave
  <2>2. /\ UNCHANGED <<meeting, meetingOwner, meetingTalks, meetingVotes>>
        /\ UNCHANGED <<meetingResolution, meetingTasks, meetingOverwritten, meetingFaults>>
    BY <1>6 DEF Meeting!OpenTalk, Meeting!OpenVote, Meeting!SkipMinutes
  <2>. QED  BY <1>1, <2>1, <2>2, MeetingMoves
<1>7. ASSUME \/ \E s \in MeetingSpeech : Meeting!SaveTalk(r, s)
             \/ \E b \in MeetingBallot : Meeting!SaveVote(r, b)
             \/ Meeting!Abort(r)
      PROVE  MeetingInv'
  <2>1. /\ Meeting!Enter(r, Meeting!Idle)
        /\ UNCHANGED <<meeting, meetingOwner>>
        /\ UNCHANGED <<meetingResolution, meetingTasks, meetingOverwritten>>
        /\ meetingTalks' \subseteq MeetingSpeech /\ meetingVotes' \subseteq MeetingBallot
    BY <1>1, <1>7 DEF Meeting!SaveTalk, Meeting!SaveVote, Meeting!Abort, Meeting!Leave
  <2>2. meetingFaults' \in 0..MaxMeetingFaults
    BY <1>1, <1>7, MeetingBounds DEF Meeting!SaveTalk, Meeting!SaveVote, Meeting!Abort
  <2>. QED  BY <1>1, <2>1, <2>2, MeetingMoves, MeetingIdles
<1>. QED  BY <1>2, <1>3, <1>4, <1>5, <1>6, <1>7 DEF Meeting!Holds

\* So does what is done about the resolution: its confirmation, which writes what it read,
\* waits for a conversion to end.
LEMMA MeetingResolves ==
  ASSUME MeetingInv, NEW r \in MeetingRequest, Meeting!Resolves(r)
  PROVE  MeetingInv'
<1>1. /\ meeting \in MeetingRow /\ meetingResolution \in ResolutionRow
      /\ meetingTalks \subseteq MeetingSpeech /\ meetingVotes \subseteq MeetingBallot
      /\ meetingFaults \in 0..MaxMeetingFaults
      /\ meetingRequest[r] \in MeetingKnowing
  BY DEF MeetingInv, MeetingTyped, Meeting!TypeOK, MeetingRow, ResolutionRow
<1>2. CASE Meeting!OpenConfirm(r)
  <2>. DEFINE e == [pc |-> "confirm", seen |-> meetingResolution]
  <2>1. e \in MeetingKnowing /\ e.pc # "convert"
    BY <1>1 DEF MeetingKnowing
  <2>2. /\ Meeting!Enter(r, e)
        /\ UNCHANGED <<meeting, meetingOwner, meetingTalks, meetingVotes>>
        /\ UNCHANGED <<meetingResolution, meetingTasks, meetingOverwritten, meetingFaults>>
    BY <1>2 DEF Meeting!OpenConfirm
  <2>. HIDE DEF e
  <2>. QED  BY <1>1, <2>1, <2>2, MeetingMoves
<1>3. CASE Meeting!SaveConfirm(r)
  <2>1. /\ meetingRequest[r].seen \in ResolutionRow
        /\ \A q \in MeetingRequest : ~Meeting!At(q, "convert")
        /\ meetingResolution' = [meetingRequest[r].seen EXCEPT !.confirmed = TRUE]
        /\ meetingOverwritten' = (meetingOverwritten \/ meetingResolution.task # meetingRequest[r].seen.task)
        /\ Meeting!Enter(r, Meeting!Idle)
        /\ UNCHANGED <<meeting, meetingOwner, meetingTalks, meetingVotes>>
        /\ UNCHANGED <<meetingTasks, meetingFaults>>
    BY <1>1, <1>3, MeetingKnown DEF Meeting!SaveConfirm, Meeting!Locked, Meeting!At, Meeting!Leave
  <2>2. /\ meetingResolution' \in ResolutionRow
        /\ meetingResolution'.confirmed = TRUE
        /\ meetingResolution'.task = meetingRequest[r].seen.task
    BY <2>1 DEF ResolutionRow
  <2>3. meetingOverwritten' \in BOOLEAN
    BY <2>1 DEF MeetingInv, MeetingTyped, Meeting!TypeOK
  <2>4. MeetingTyped'
    <3>1. Meeting!TypeOK'
      BY <2>1, <2>2, <2>3 DEF MeetingInv, MeetingTyped, Meeting!TypeOK, ResolutionRow
    <3>2. meetingRequest' \in [MeetingRequest -> MeetingKnowing]
      BY <2>1, MeetingEnters, MeetingIdles DEF MeetingInv
    <3>. QED  BY <3>1, <3>2, <2>1 DEF MeetingInv, MeetingTyped
  <2>5. ConversionHolds'
    <3>1. \A q \in MeetingRequest : meetingRequest'[q].pc # "convert"
      BY <2>1, MeetingEnters, MeetingIdles DEF MeetingInv, Meeting!At
    <3>. QED  BY <3>1 DEF ConversionHolds, Meeting!At
  <2>6. MarkCounts'
    BY <2>1, <2>2, <2>3 DEF MeetingInv, MarkCounts
  <2>. QED  BY <2>2, <2>4, <2>5, <2>6 DEF MeetingInv, Meeting!TasksAreConfirmed
<1>4. CASE Meeting!OpenConvert(r)
  <2>. DEFINE e == [pc |-> "convert", seen |-> meetingResolution]
  <2>1. e \in MeetingKnowing /\ e.seen = meetingResolution
    BY <1>1 DEF MeetingKnowing
  <2>2. /\ \A q \in MeetingRequest : ~Meeting!At(q, "convert")
        /\ meetingResolution.known /\ meetingResolution.confirmed /\ meetingResolution.task = 0
        /\ Meeting!Enter(r, e)
        /\ UNCHANGED <<meeting, meetingOwner, meetingTalks, meetingVotes>>
        /\ UNCHANGED <<meetingResolution, meetingTasks, meetingOverwritten, meetingFaults>>
    BY <1>4 DEF Meeting!OpenConvert, Meeting!Locked, Meeting!assert_convertible, Meeting!NoTask
  <2>. HIDE DEF e
  <2>3. MeetingTyped'
    <3>1. Meeting!TypeOK'
      BY <2>2 DEF MeetingInv, MeetingTyped, Meeting!TypeOK
    <3>2. meetingRequest' \in [MeetingRequest -> MeetingKnowing]
      BY <2>1, <2>2, MeetingEnters DEF MeetingInv
    <3>. QED  BY <3>1, <3>2, <2>2 DEF MeetingInv, MeetingTyped
  <2>4. ConversionHolds'
    <3>1. \A q \in MeetingRequest : meetingRequest'[q].pc = "convert" => q = r
      BY <2>1, <2>2, MeetingEnters DEF MeetingInv, Meeting!At
    <3>2. meetingRequest'[r] = e
      BY <2>1, <2>2, MeetingEnters DEF MeetingInv
    <3>. QED  BY <2>1, <2>2, <3>1, <3>2 DEF ConversionHolds, Meeting!At
  <2>. QED  BY <2>2, <2>3, <2>4 DEF MeetingInv, MarkCounts, Meeting!TasksAreConfirmed
<1>5. CASE Meeting!FinishConvert(r)
  <2>1. /\ meetingRequest[r].seen = meetingResolution
        /\ meetingResolution.known /\ meetingResolution.confirmed
        /\ meetingResolution.task = 0
        /\ \A q \in MeetingRequest : Meeting!At(q, "convert") => q = r
        /\ Meeting!Enter(r, Meeting!Idle)
    BY <1>5 DEF Meeting!FinishConvert, Meeting!Leave, MeetingInv, ConversionHolds
  <2>2. /\ meetingTasks < MaxMeetingTasks /\ meetingTasks' = meetingTasks + 1
        /\ meetingResolution' = [meetingResolution EXCEPT !.task = meetingTasks + 1]
        /\ UNCHANGED <<meeting, meetingOwner, meetingTalks, meetingVotes>>
        /\ UNCHANGED <<meetingOverwritten, meetingFaults>>
    BY <1>5, <2>1 DEF Meeting!FinishConvert, Meeting!NewTask
  <2>3. meetingTasks \in Nat /\ meetingTasks' \in 0..MaxMeetingTasks /\ meetingTasks' # 0
    BY <2>2, MeetingBounds DEF MeetingInv, MeetingTyped, Meeting!TypeOK
  <2>4. /\ meetingResolution' \in ResolutionRow
        /\ meetingResolution'.confirmed = meetingResolution.confirmed
        /\ meetingResolution'.task = meetingTasks'
    BY <1>1, <2>2, <2>3 DEF ResolutionRow
  <2>5. MeetingTyped'
    <3>1. Meeting!TypeOK'
      BY <2>2, <2>3, <2>4 DEF MeetingInv, MeetingTyped, Meeting!TypeOK, ResolutionRow
    <3>2. meetingRequest' \in [MeetingRequest -> MeetingKnowing]
      BY <2>1, MeetingEnters, MeetingIdles DEF MeetingInv
    <3>. QED  BY <3>1, <3>2, <2>2 DEF MeetingInv, MeetingTyped
  <2>6. ConversionHolds'
    <3>1. \A q \in MeetingRequest : meetingRequest'[q].pc # "convert"
      BY <2>1, MeetingEnters, MeetingIdles DEF MeetingInv, Meeting!At
    <3>. QED  BY <3>1 DEF ConversionHolds, Meeting!At
  <2>7. MarkCounts'
    BY <2>1, <2>2, <2>3, <2>4 DEF MeetingInv, MarkCounts
  <2>. QED  BY <2>1, <2>4, <2>5, <2>6, <2>7 DEF MeetingInv, Meeting!TasksAreConfirmed
<1>. QED  BY <1>2, <1>3, <1>4, <1>5 DEF Meeting!Resolves

\* A resolution is written once; before that nothing is converted.
LEMMA MeetingCreates ==
  ASSUME MeetingInv, Meeting!create_resolution
  PROVE  MeetingInv'
<1>1. /\ ~meetingResolution.known
      /\ meetingResolution' = [meetingResolution EXCEPT !.known = TRUE]
      /\ UNCHANGED <<meeting, meetingOwner, meetingTalks, meetingVotes>>
      /\ UNCHANGED <<meetingTasks, meetingRequest, meetingOverwritten, meetingFaults>>
  BY DEF Meeting!create_resolution
<1>2. meetingResolution \in ResolutionRow
  BY DEF MeetingInv, MeetingTyped, Meeting!TypeOK, ResolutionRow
<1>3. /\ meetingResolution' \in ResolutionRow
      /\ meetingResolution'.confirmed = meetingResolution.confirmed
      /\ meetingResolution'.task = meetingResolution.task
  BY <1>1, <1>2 DEF ResolutionRow
<1>4. MeetingTyped'
  BY <1>1, <1>3 DEF MeetingInv, MeetingTyped, Meeting!TypeOK, ResolutionRow
<1>5. ConversionHolds'
  BY <1>1 DEF MeetingInv, ConversionHolds, Meeting!At
<1>. QED  BY <1>1, <1>3, <1>4, <1>5 DEF MeetingInv, MarkCounts, Meeting!TasksAreConfirmed

\* A meeting begins with nothing said, resolved or converted.
LEMMA MeetingInit == Meeting!Init => MeetingInv
<1>. SUFFICES ASSUME Meeting!Init PROVE MeetingInv
  OBVIOUS
<1>1. /\ meetingRequest \in [MeetingRequest -> MeetingKnowing]
      /\ \A r \in MeetingRequest : meetingRequest[r].pc = "idle"
  BY MeetingIdles DEF Meeting!Init
<1>2. Meeting!TypeOK
  <2>1. meeting \in MeetingRow
    BY DEF Meeting!Init, MeetingRow, Meeting!Status
  <2>2. meetingResolution \in ResolutionRow
    BY MeetingBounds DEF Meeting!Init, ResolutionRow, Meeting!NoTask
  <2>3. meetingTasks \in 0..MaxMeetingTasks /\ meetingFaults \in 0..MaxMeetingFaults
    BY MeetingBounds DEF Meeting!Init
  <2>4. /\ meetingTalks \subseteq MeetingSpeech /\ meetingVotes \subseteq MeetingBallot
        /\ meetingOverwritten \in BOOLEAN
    BY DEF Meeting!Init
  <2>. QED  BY <2>1, <2>2, <2>3, <2>4 DEF Meeting!TypeOK, MeetingRow, ResolutionRow
<1>3. ConversionHolds
  BY <1>1 DEF ConversionHolds, Meeting!At
<1>4. MarkCounts /\ Meeting!TasksAreConfirmed
  BY DEF Meeting!Init, MarkCounts, Meeting!TasksAreConfirmed, Meeting!NoTask
<1>. QED  BY <1>1, <1>2, <1>3, <1>4 DEF MeetingInv, MeetingTyped, Meeting!Init

\* Every step of a meeting keeps the invariant, and a step that leaves it alone.
LEMMA MeetingNext ==
  ASSUME MeetingInv, Meeting!Next \/ UNCHANGED meetingVars
  PROVE  MeetingInv'
<1>1. CASE Meeting!Next
  BY <1>1, MeetingCreates, MeetingTalks, MeetingResolves DEF Meeting!Next
<1>2. CASE UNCHANGED meetingVars
  <2>1. /\ UNCHANGED <<meeting, meetingOwner, meetingTalks, meetingVotes, meetingResolution>>
        /\ UNCHANGED <<meetingTasks, meetingRequest, meetingOverwritten, meetingFaults>>
    BY <1>2 DEF meetingVars
  <2>. QED  BY <2>1 DEF MeetingInv, MeetingTyped, Meeting!TypeOK, ConversionHolds, Meeting!At,
                        MarkCounts, Meeting!TasksAreConfirmed
<1>. QED  BY <1>1, <1>2

\* What the invariant says to a caller: the list is what can be opened, and a second task
\* is an overwritten mark.
LEMMA MeetingPromises ==
  ASSUME MeetingInv
  PROVE  Meeting!ListedIsVisible /\ Meeting!OneTaskUnlessOverwritten
<1>1. Meeting!ListedIsVisible
  BY MeetingBounds DEF MeetingInv, MeetingTyped, Meeting!ListedIsVisible, Meeting!Listed,
                       Meeting!Visible, Meeting!Principal
<1>2. Meeting!OneTaskUnlessOverwritten
  BY DEF MeetingInv, MarkCounts, Meeting!OneTaskUnlessOverwritten
<1>. QED  BY <1>1, <1>2

-----------------------------------------------------------------------------
(* Groups: who was put out is sent nothing that is said later, and a       *)
(* message becomes one proposal.                                           *)

GroupPerson == Group!Person
GroupMessage == Group!MessageId

\* What a person's request may know.
GroupKnowing == [pc : {"idle", "answering"}]
                \cup [pc : {"posting"}, m : GroupMessage, at : 1..MaxGroupClock]
                \cup [pc : {"publishing", "promoting", "promoted"}, m : GroupMessage]
                \cup [pc : {"adding"}, who : GroupPerson]
                \cup [pc : {"archiving"}, of : SUBSET GroupMessage]

\* A message on its way to a person.
Delivery == [m : GroupMessage, to : GroupPerson]

\* What is kept of messages, members and the archive.
GroupRows ==
    /\ groupArchived \in BOOLEAN /\ groupDeleted \in BOOLEAN /\ groupMember \subseteq GroupPerson
    /\ groupLastRead \in [GroupPerson -> 0..MaxGroupClock]
    /\ groupShown \in [GroupPerson -> SUBSET GroupMessage]
    /\ groupRef \subseteq GroupMessage
    /\ groupEvent \in {"none", "pending", "done"}
    /\ groupWorker \in [pc : {"idle"}] \cup [pc : {"working"}, of : SUBSET GroupMessage]
    /\ groupDocument \subseteq GroupMessage /\ groupMustKeep \subseteq GroupMessage
    /\ groupFaults \in 0..MaxGroupFaults

GroupTexts ==
    /\ Group!Messages \subseteq GroupMessage
    /\ \A m \in Group!Messages : groupAt[m] \in 1..MaxGroupClock
    /\ groupClock \in 1..MaxGroupClock

GroupWire ==
    /\ groupQueued \subseteq Delivery /\ groupReceived \subseteq Delivery
    /\ groupEntitled \in [GroupMessage -> SUBSET GroupPerson]

GroupTyped == /\ GroupRows /\ GroupTexts /\ GroupWire
              /\ groupOp \in [GroupPerson -> GroupKnowing]

\* A message is written by one request, which stores it before it publishes it.
OneAuthor ==
    /\ \A p \in GroupPerson : Group!At(p, "posting") => groupOp[p].m \notin Group!Messages
    /\ \A p \in GroupPerson : Group!At(p, "publishing") => groupOp[p].m \in Group!Messages
    /\ \A p, q \in GroupPerson :
          /\ p # q
          /\ groupOp[p].pc \in {"posting", "publishing"}
          /\ groupOp[q].pc \in {"posting", "publishing"}
          => groupOp[p].m # groupOp[q].m

\* What is on the wire was published, by nobody who is still about to.
Published ==
    \A d \in groupQueued \cup groupReceived :
        /\ d.m \in Group!Messages
        /\ \A p \in GroupPerson : Group!At(p, "publishing") => groupOp[p].m # d.m

\* A member who is still to receive a message may.
MembersMayReceive ==
    \A d \in groupQueued : d.to \in groupMember => d.to \in groupEntitled[d.m]

\* A proposal has the id of its message.
NamedByMessage == \A x \in groupProposals : x = [id |-> x.of, of |-> x.of]

GroupInv == /\ GroupTyped /\ OneAuthor /\ Published
            /\ MembersMayReceive /\ Group!KickedHearNothing
            /\ NamedByMessage

\* The bounds are natural numbers, and the clock starts within its bound.
LEMMA GroupBounds == MaxGroupClock \in Nat \ {0} /\ MaxGroupFaults \in Nat
  BY ScenesAssumption DEF Group!GroupBoundAssumption

LEMMA GroupOwnerIsPerson == GroupOwner \in GroupPerson
  BY DEF GroupPerson, Group!Person

\* What the requests know by their place.
LEMMA GroupKnown ==
  ASSUME NEW e \in GroupKnowing
  PROVE  /\ e.pc \in {"posting", "publishing", "promoting", "promoted"} => e.m \in GroupMessage
         /\ e.pc = "posting" => e.at \in 1..MaxGroupClock
         /\ e.pc = "adding" => e.who \in GroupPerson
         /\ e.pc = "archiving" => e.of \subseteq GroupMessage
  BY DEF GroupKnowing

LEMMA GroupEnters ==
  ASSUME groupOp \in [GroupPerson -> GroupKnowing], NEW p \in GroupPerson,
         NEW e \in GroupKnowing, Group!Goto(p, e)
  PROVE  /\ groupOp' \in [GroupPerson -> GroupKnowing]
         /\ groupOp'[p] = e
         /\ \A q \in GroupPerson : q # p => groupOp'[q] = groupOp[q]
  BY DEF Group!Goto

LEMMA GroupIdles == Group!Idle \in GroupKnowing /\ Group!Idle.pc = "idle"
  BY DEF Group!Idle, GroupKnowing

\* A request that moves to a place where nothing is written or published, while messages
\* and the wire stay as they are.
LEMMA GroupMoves ==
  ASSUME GroupInv, NEW p \in GroupPerson, NEW e \in GroupKnowing,
         Group!Goto(p, e), e.pc \notin {"posting", "publishing"},
         UNCHANGED <<groupAt, groupQueued, groupReceived, groupEntitled>>,
         groupMember' \subseteq groupMember,
         GroupRows', groupClock' \in 1..MaxGroupClock, NamedByMessage'
  PROVE  GroupInv'
<1>1. /\ groupOp' \in [GroupPerson -> GroupKnowing]
      /\ \A q \in GroupPerson : groupOp'[q].pc \in {"posting", "publishing"} =>
            groupOp'[q] = groupOp[q]
  BY GroupEnters DEF GroupInv, GroupTyped
<1>2. Group!Messages' = Group!Messages
  BY DEF Group!Messages
<1>3. GroupTyped'
  BY <1>1, <1>2 DEF GroupInv, GroupTyped, GroupTexts, GroupWire
<1>4. OneAuthor'
  BY <1>1, <1>2 DEF GroupInv, OneAuthor, Group!At
<1>5. Published'
  BY <1>1, <1>2 DEF GroupInv, Published, Group!At
<1>6. MembersMayReceive' /\ Group!KickedHearNothing'
  BY DEF GroupInv, MembersMayReceive, Group!KickedHearNothing
<1>. QED  BY <1>3, <1>4, <1>5, <1>6 DEF GroupInv

\* The same of a step in which no request moves.
LEMMA GroupRests ==
  ASSUME GroupInv,
         UNCHANGED <<groupAt, groupOp, groupProposals, groupQueued, groupReceived, groupEntitled>>,
         groupMember' \subseteq groupMember,
         GroupRows', groupClock' \in 1..MaxGroupClock
  PROVE  GroupInv'
<1>1. Group!Messages' = Group!Messages
  BY DEF Group!Messages
<1>2. GroupTyped'
  BY <1>1 DEF GroupInv, GroupTyped, GroupTexts, GroupWire
<1>3. OneAuthor' /\ Published'
  BY <1>1 DEF GroupInv, OneAuthor, Published, Group!At
<1>4. MembersMayReceive' /\ Group!KickedHearNothing' /\ NamedByMessage'
  BY DEF GroupInv, MembersMayReceive, Group!KickedHearNothing, NamedByMessage
<1>. QED  BY <1>2, <1>3, <1>4 DEF GroupInv

\* Steps in which no request moves: marks, members who leave, the archive of the worker.
LEMMA GroupRestsAlways ==
  ASSUME GroupInv,
         \/ \E p \in GroupPerson : Group!MarkRead(p)
         \/ \E q \in GroupGuest : Group!RemoveMember(q)
         \/ Group!Disband \/ Group!Worker \/ Group!ArchiveFails
  PROVE  GroupInv'
<1>1. GroupRows /\ Group!Messages \subseteq GroupMessage /\ groupClock \in 1..MaxGroupClock
  BY DEF GroupInv, GroupTyped, GroupTexts
<1>2. ASSUME NEW p \in GroupPerson, Group!MarkRead(p)
      PROVE  GroupInv'
  <2>1. /\ groupLastRead' = [groupLastRead EXCEPT ![p] = groupClock]
        /\ groupShown' = [groupShown EXCEPT ![p] = Group!Messages]
        /\ groupClock < MaxGroupClock /\ groupClock' = groupClock + 1
        /\ UNCHANGED <<groupArchived, groupDeleted, groupMember, groupRef, groupEvent>>
        /\ UNCHANGED <<groupWorker, groupDocument, groupMustKeep, groupFaults>>
        /\ UNCHANGED <<groupAt, groupOp, groupProposals, groupQueued, groupReceived, groupEntitled>>
    BY <1>2 DEF Group!MarkRead, Group!Tick, Group!chan, Group!texts, Group!archive, Group!wire
  <2>2. GroupRows'
    BY <1>1, <2>1, GroupBounds DEF GroupRows
  <2>3. groupClock' \in 1..MaxGroupClock
    BY <1>1, <2>1, GroupBounds
  <2>. QED  BY <2>1, <2>2, <2>3, GroupRests
<1>3. ASSUME NEW q \in GroupGuest, Group!RemoveMember(q)
      PROVE  GroupInv'
  <2>1. /\ groupMember' \subseteq groupMember
        /\ UNCHANGED <<groupArchived, groupDeleted, groupRef, groupEvent, groupLastRead, groupShown>>
        /\ UNCHANGED <<groupWorker, groupDocument, groupMustKeep, groupFaults, groupClock>>
        /\ UNCHANGED <<groupAt, groupOp, groupProposals, groupQueued, groupReceived, groupEntitled>>
    BY <1>3 DEF Group!RemoveMember, Group!marks, Group!texts, Group!archive, Group!wire, Group!Stay
  <2>2. GroupRows'
    BY <1>1, <2>1 DEF GroupRows
  <2>. QED  BY <1>1, <2>1, <2>2, GroupRests
<1>4. CASE Group!Disband
  <2>1. /\ groupMember' = {} /\ groupDeleted' = TRUE
        /\ groupMustKeep' = Group!Messages /\ groupEvent' = "pending"
        /\ UNCHANGED <<groupArchived, groupRef, groupLastRead, groupShown>>
        /\ UNCHANGED <<groupWorker, groupDocument, groupFaults, groupClock>>
        /\ UNCHANGED <<groupAt, groupOp, groupProposals, groupQueued, groupReceived, groupEntitled>>
    BY <1>4 DEF Group!Disband, Group!EventOf, Group!marks, Group!texts, Group!wire, Group!Stay
  <2>2. GroupRows'
    BY <1>1, <2>1 DEF GroupRows
  <2>. QED  BY <1>1, <2>1, <2>2, GroupRests
<1>5. CASE Group!Worker \/ Group!ArchiveFails
  <2>1. /\ UNCHANGED <<groupArchived, groupDeleted, groupMember, groupRef>>
        /\ UNCHANGED <<groupLastRead, groupShown, groupMustKeep, groupClock>>
        /\ UNCHANGED <<groupAt, groupOp, groupProposals, groupQueued, groupReceived, groupEntitled>>
    BY <1>5 DEF Group!Worker, Group!ArchiveDisbanded, Group!WriteArchive, Group!ArchiveFails,
                Group!Fault, Group!chan, Group!marks, Group!texts, Group!wire, Group!Stay
  <2>2. groupEvent' \in {"none", "pending", "done"}
    BY <1>1, <1>5 DEF Group!Worker, Group!ArchiveDisbanded, Group!WriteArchive,
                      Group!ArchiveFails, Group!Outcome, GroupRows
  <2>3. groupFaults' \in 0..MaxGroupFaults
    BY <1>1, <1>5, GroupBounds DEF Group!Worker, Group!ArchiveDisbanded, Group!WriteArchive,
                                   Group!ArchiveFails, Group!Fault, Group!Stay, GroupRows
  <2>4. groupWorker' \in [pc : {"idle"}] \cup [pc : {"working"}, of : SUBSET GroupMessage]
    BY <1>1, <1>5 DEF Group!Worker, Group!ArchiveDisbanded, Group!WriteArchive,
                      Group!ArchiveFails
  <2>5. groupDocument' \subseteq GroupMessage
    BY <1>1, <1>5 DEF Group!Worker, Group!ArchiveDisbanded, Group!WriteArchive,
                      Group!ArchiveFails, Group!Indexed, GroupRows
  <2>6. GroupRows'
    BY <1>1, <2>1, <2>2, <2>3, <2>4, <2>5 DEF GroupRows
  <2>. QED  BY <1>1, <2>1, <2>6, GroupRests
<1>. QED  BY <1>2, <1>3, <1>4, <1>5

\* Promotions, archives, additions that begin, and requests that end.
LEMMA GroupPromotes ==
  ASSUME GroupInv, NEW p \in GroupPerson,
         \/ \E m \in GroupMessage : Group!OpenPromote(p, m)
         \/ Group!PromoteToProposal(p) \/ Group!PromoteToTask(p) \/ Group!SavePromotion(p)
         \/ Group!ArchiveChannel(p) \/ Group!SaveArchive(p) \/ Group!Ends(p)
         \/ p = GroupOwner /\ \E q \in GroupGuest : Group!OpenAdd(q)
  PROVE  GroupInv'
<1>1. /\ GroupRows /\ NamedByMessage
      /\ Group!Messages \subseteq GroupMessage /\ groupClock \in 1..MaxGroupClock
      /\ groupOp[p] \in GroupKnowing
  BY DEF GroupInv, GroupTyped, GroupTexts
<1>. USE DEF Group!chan, Group!marks, Group!texts, Group!archive, Group!wire, Group!Stay
<1>2. ASSUME NEW m \in GroupMessage, Group!OpenPromote(p, m)
      PROVE  GroupInv'
  <2>. DEFINE e == [pc |-> "promoting", m |-> m]
  <2>1. e \in GroupKnowing /\ e.pc = "promoting"
    BY DEF GroupKnowing
  <2>2. Group!Goto(p, e)
    BY <1>2 DEF Group!OpenPromote
  <2>. HIDE DEF e
  <2>3. GroupRows' /\ NamedByMessage'
    BY <1>1, <1>2 DEF Group!OpenPromote, GroupRows, NamedByMessage
  <2>4. /\ UNCHANGED <<groupAt, groupQueued, groupReceived, groupEntitled, groupMember, groupClock>>
    BY <1>2 DEF Group!OpenPromote
  <2>. QED  BY <1>1, <2>1, <2>2, <2>3, <2>4, GroupMoves
<1>3. CASE Group!PromoteToProposal(p)
  <2>. DEFINE e == [groupOp[p] EXCEPT !.pc = "promoted"]
  <2>1. e \in GroupKnowing /\ e.pc = "promoted"
    <3>1. groupOp[p] \in [pc : {"publishing", "promoting", "promoted"}, m : GroupMessage]
      BY <1>1, <1>3 DEF Group!PromoteToProposal, Group!At, GroupKnowing
    <3>2. e \in [pc : {"publishing", "promoting", "promoted"}, m : GroupMessage] /\ e.pc = "promoted"
      BY <3>1
    <3>. HIDE DEF e
    <3>. QED  BY <3>2 DEF GroupKnowing
  <2>2. Group!Goto(p, e)
    BY <1>3 DEF Group!PromoteToProposal
  <2>. HIDE DEF e
  <2>3. GroupRows'
    BY <1>1, <1>3 DEF Group!PromoteToProposal, GroupRows
  <2>4. NamedByMessage'
    BY <1>1, <1>3 DEF Group!PromoteToProposal, Group!ProposalId, NamedByMessage
  <2>5. /\ UNCHANGED <<groupAt, groupQueued, groupReceived, groupEntitled, groupMember, groupClock>>
    BY <1>3 DEF Group!PromoteToProposal
  <2>. QED  BY <1>1, <2>1, <2>2, <2>3, <2>4, <2>5, GroupMoves
<1>4. CASE Group!PromoteToTask(p) \/ Group!SavePromotion(p)
  <2>1. groupOp[p].m \in GroupMessage
    BY <1>1, <1>4, GroupKnown DEF Group!PromoteToTask, Group!SavePromotion, Group!At
  <2>2. /\ Group!Goto(p, Group!Idle)
        /\ groupRef' = groupRef \cup {groupOp[p].m}
        /\ UNCHANGED <<groupArchived, groupDeleted, groupMember, groupLastRead, groupShown>>
        /\ UNCHANGED <<groupEvent, groupWorker, groupDocument, groupMustKeep, groupFaults>>
        /\ UNCHANGED <<groupProposals, groupAt, groupQueued, groupReceived, groupEntitled, groupClock>>
    BY <1>4 DEF Group!PromoteToTask, Group!SavePromotion
  <2>3. GroupRows' /\ NamedByMessage'
    BY <1>1, <2>1, <2>2 DEF GroupRows, NamedByMessage
  <2>. QED  BY <1>1, <2>2, <2>3, GroupMoves, GroupIdles
<1>5. CASE Group!ArchiveChannel(p)
  <2>. DEFINE e == [pc |-> "archiving", of |-> Group!Messages]
  <2>1. e \in GroupKnowing /\ e.pc = "archiving"
    BY <1>1 DEF GroupKnowing
  <2>2. Group!Goto(p, e)
    BY <1>5 DEF Group!ArchiveChannel
  <2>. HIDE DEF e
  <2>3. GroupRows' /\ NamedByMessage'
    BY <1>1, <1>5 DEF Group!ArchiveChannel, GroupRows, NamedByMessage
  <2>4. /\ UNCHANGED <<groupAt, groupQueued, groupReceived, groupEntitled, groupMember, groupClock>>
    BY <1>5 DEF Group!ArchiveChannel
  <2>. QED  BY <1>1, <2>1, <2>2, <2>3, <2>4, GroupMoves
<1>6. CASE Group!SaveArchive(p)
  <2>1. groupOp[p].of \subseteq GroupMessage
    BY <1>1, <1>6, GroupKnown DEF Group!SaveArchive, Group!At
  <2>2. GroupRows' /\ NamedByMessage'
    BY <1>1, <1>6, <2>1 DEF Group!SaveArchive, Group!Indexed, GroupRows, NamedByMessage
  <2>3. /\ Group!Goto(p, Group!Idle)
        /\ UNCHANGED <<groupAt, groupQueued, groupReceived, groupEntitled, groupMember, groupClock>>
    BY <1>6 DEF Group!SaveArchive
  <2>. QED  BY <1>1, <2>2, <2>3, GroupMoves, GroupIdles
<1>7. CASE Group!Ends(p)
  <2>1. groupFaults' \in 0..MaxGroupFaults
    BY <1>1, <1>7, GroupBounds DEF Group!Ends, Group!Fault, GroupRows
  <2>2. GroupRows' /\ NamedByMessage'
    BY <1>1, <1>7, <2>1 DEF Group!Ends, GroupRows, NamedByMessage
  <2>3. /\ Group!Goto(p, Group!Idle)
        /\ UNCHANGED <<groupAt, groupQueued, groupReceived, groupEntitled, groupMember, groupClock>>
    BY <1>7 DEF Group!Ends, Group!Fault
  <2>. QED  BY <1>1, <2>2, <2>3, GroupMoves, GroupIdles
<1>8. ASSUME NEW q \in GroupGuest, p = GroupOwner, Group!OpenAdd(q)
      PROVE  GroupInv'
  <2>. DEFINE e == [pc |-> "adding", who |-> q]
  <2>1. e \in GroupKnowing /\ e.pc = "adding"
    BY DEF GroupKnowing, GroupPerson, Group!Person
  <2>2. Group!Goto(p, e)
    BY <1>8 DEF Group!OpenAdd
  <2>. HIDE DEF e
  <2>3. GroupRows' /\ NamedByMessage'
    BY <1>1, <1>8 DEF Group!OpenAdd, GroupRows, NamedByMessage
  <2>4. /\ UNCHANGED <<groupAt, groupQueued, groupReceived, groupEntitled, groupMember, groupClock>>
    BY <1>8 DEF Group!OpenAdd
  <2>. QED  BY <1>1, <2>1, <2>2, <2>3, <2>4, GroupMoves
<1>. QED  BY <1>2, <1>3, <1>4, <1>5, <1>6, <1>7, <1>8

\* A message that is being written has an id nobody else uses.
LEMMA GroupPosts ==
  ASSUME GroupInv, NEW p \in GroupPerson, NEW m \in GroupMessage, Group!Post(p, m)
  PROVE  GroupInv'
<1>. DEFINE e == [pc |-> "posting", m |-> m, at |-> groupClock]
<1>1. /\ groupOp \in [GroupPerson -> GroupKnowing]
      /\ groupClock \in 1..MaxGroupClock
  BY DEF GroupInv, GroupTyped, GroupTexts
<1>2. /\ m \notin Group!Messages
      /\ \A q \in GroupPerson : Group!At(q, "posting") => groupOp[q].m # m
      /\ groupClock < MaxGroupClock /\ groupClock' = groupClock + 1
      /\ Group!Goto(p, e)
  BY DEF Group!Post, Group!Unused, Group!Tick, GroupPerson
<1>3. /\ UNCHANGED <<groupArchived, groupDeleted, groupMember, groupLastRead, groupShown>>
      /\ UNCHANGED <<groupAt, groupProposals, groupTasks, groupRef, groupEvent, groupWorker>>
      /\ UNCHANGED <<groupDocument, groupMustKeep, groupQueued, groupReceived, groupEntitled, groupFaults>>
  BY DEF Group!Post, Group!chan, Group!marks, Group!texts, Group!archive, Group!wire
<1>4. e \in GroupKnowing /\ e.pc = "posting" /\ e.m = m
  BY <1>1 DEF GroupKnowing
<1>. HIDE DEF e
<1>5. Group!Messages' = Group!Messages
  BY <1>3 DEF Group!Messages
<1>6. /\ groupOp' \in [GroupPerson -> GroupKnowing]
      /\ groupOp'[p] = e
      /\ \A q \in GroupPerson : q # p => groupOp'[q] = groupOp[q]
  BY <1>1, <1>2, <1>4, GroupEnters
<1>7. GroupTyped'
  <2>1. groupClock' \in 1..MaxGroupClock
    BY <1>1, <1>2, GroupBounds
  <2>2. GroupRows'
    BY <1>3 DEF GroupInv, GroupTyped, GroupRows
  <2>3. GroupTexts' /\ GroupWire'
    BY <1>3, <1>5, <2>1 DEF GroupInv, GroupTyped, GroupTexts, GroupWire
  <2>. QED  BY <1>6, <2>2, <2>3 DEF GroupTyped
<1>8. OneAuthor'
  <2>1. \A q \in GroupPerson : Group!At(q, "publishing") => groupOp[q].m # m
    BY <1>2 DEF GroupInv, OneAuthor
  <2>2. \A q \in GroupPerson : q # p /\ groupOp'[q].pc \in {"posting", "publishing"} => groupOp'[q].m # m
    BY <1>2, <1>6, <2>1 DEF Group!At
  <2>. QED  BY <1>2, <1>4, <1>5, <1>6, <2>2 DEF GroupInv, OneAuthor, Group!At
<1>9. Published'
  BY <1>3, <1>4, <1>5, <1>6 DEF GroupInv, Published, Group!At
<1>10. MembersMayReceive' /\ Group!KickedHearNothing' /\ NamedByMessage'
  BY <1>3 DEF GroupInv, MembersMayReceive, Group!KickedHearNothing, NamedByMessage
<1>. QED  BY <1>7, <1>8, <1>9, <1>10 DEF GroupInv

\* A message is stored by the request that wrote it, or by an answer under a new id.
LEMMA GroupStores ==
  ASSUME GroupInv, NEW p \in GroupPerson, NEW m \in GroupMessage, NEW t \in 1..MaxGroupClock,
         m \notin Group!Messages,
         \A q \in GroupPerson : q # p /\ Group!At(q, "posting") => groupOp[q].m # m,
         groupAt' = [x \in Group!Messages \cup {m} |-> IF x = m THEN t ELSE groupAt[x]],
         Group!Goto(p, [pc |-> "publishing", m |-> m]),
         UNCHANGED <<groupArchived, groupDeleted, groupMember, groupLastRead, groupShown>>,
         UNCHANGED <<groupProposals, groupTasks, groupRef, groupEvent, groupWorker>>,
         UNCHANGED <<groupDocument, groupMustKeep, groupQueued, groupReceived, groupEntitled, groupFaults>>,
         groupClock' \in 1..MaxGroupClock
  PROVE  GroupInv'
<1>. DEFINE e == [pc |-> "publishing", m |-> m]
<1>1. e \in GroupKnowing /\ e.pc = "publishing" /\ e.m = m
  BY DEF GroupKnowing
<1>2. Group!Goto(p, e)
  OBVIOUS
<1>. HIDE DEF e
<1>3. /\ groupOp' \in [GroupPerson -> GroupKnowing]
      /\ groupOp'[p] = e
      /\ \A q \in GroupPerson : q # p => groupOp'[q] = groupOp[q]
  BY <1>1, <1>2, GroupEnters DEF GroupInv, GroupTyped
<1>4. Group!Messages' = Group!Messages \cup {m}
  BY DEF Group!Messages
<1>5. GroupTyped'
  <2>1. GroupRows'
    BY DEF GroupInv, GroupTyped, GroupRows
  <2>2. \A x \in Group!Messages' : groupAt'[x] \in 1..MaxGroupClock
    BY <1>4 DEF GroupInv, GroupTyped, GroupTexts
  <2>3. GroupTexts'
    BY <1>4, <2>2 DEF GroupInv, GroupTyped, GroupTexts
  <2>4. GroupWire'
    BY DEF GroupInv, GroupTyped, GroupWire
  <2>. QED  BY <1>3, <2>1, <2>3, <2>4 DEF GroupTyped
<1>6. \A q \in GroupPerson : q # p /\ groupOp[q].pc \in {"posting", "publishing"} => groupOp[q].m # m
  BY DEF GroupInv, OneAuthor, Group!At
<1>7. OneAuthor'
  <2>1. \A q \in GroupPerson : groupOp'[q].pc = "posting" => q # p /\ groupOp'[q] = groupOp[q]
    BY <1>1, <1>3
  <2>2. \A q \in GroupPerson : groupOp'[q].pc = "posting" => groupOp'[q].m \notin Group!Messages'
    BY <1>4, <1>6, <2>1 DEF GroupInv, OneAuthor, Group!At
  <2>3. \A q \in GroupPerson : groupOp'[q].pc = "publishing" => groupOp'[q].m \in Group!Messages'
    BY <1>1, <1>3, <1>4 DEF GroupInv, OneAuthor, Group!At
  <2>4. ASSUME NEW q \in GroupPerson, NEW r \in GroupPerson, q # r,
               groupOp'[q].pc \in {"posting", "publishing"},
               groupOp'[r].pc \in {"posting", "publishing"}
        PROVE  groupOp'[q].m # groupOp'[r].m
    <3>1. CASE q = p
      BY <1>1, <1>3, <1>6, <2>4, <3>1
    <3>2. CASE r = p
      BY <1>1, <1>3, <1>6, <2>4, <3>2
    <3>3. CASE q # p /\ r # p
      BY <1>3, <2>4, <3>3 DEF GroupInv, OneAuthor
    <3>. QED  BY <3>1, <3>2, <3>3
  <2>. QED  BY <2>2, <2>3, <2>4 DEF OneAuthor, Group!At
<1>8. Published'
  BY <1>1, <1>3, <1>4 DEF GroupInv, Published, Group!At
<1>9. MembersMayReceive' /\ Group!KickedHearNothing' /\ NamedByMessage'
  BY DEF GroupInv, MembersMayReceive, Group!KickedHearNothing, NamedByMessage
<1>. QED  BY <1>5, <1>7, <1>8, <1>9 DEF GroupInv

LEMMA GroupCommits ==
  ASSUME GroupInv, NEW p \in GroupPerson,
         Group!CommitPost(p) \/ \E m \in GroupMessage : Group!Answer(p, m)
  PROVE  GroupInv'
<1>1. groupOp[p] \in GroupKnowing /\ groupClock \in 1..MaxGroupClock
  BY DEF GroupInv, GroupTyped, GroupTexts
<1>. USE DEF Group!chan, Group!marks, Group!texts, Group!archive, Group!wire, Group!Stay
<1>2. CASE Group!CommitPost(p)
  <2>1. groupOp[p].pc = "posting"
    BY <1>2 DEF Group!CommitPost, Group!At
  <2>2. groupOp[p].m \in GroupMessage /\ groupOp[p].at \in 1..MaxGroupClock
    BY <1>1, <2>1, GroupKnown
  <2>3. /\ groupOp[p].m \notin Group!Messages
        /\ \A q \in GroupPerson : q # p /\ Group!At(q, "posting") => groupOp[q].m # groupOp[p].m
    BY <2>1 DEF GroupInv, OneAuthor, Group!At
  <2>4. /\ groupAt' = [x \in Group!Messages \cup {groupOp[p].m} |->
                          IF x = groupOp[p].m THEN groupOp[p].at ELSE groupAt[x]]
        /\ Group!Goto(p, [pc |-> "publishing", m |-> groupOp[p].m])
        /\ UNCHANGED <<groupArchived, groupDeleted, groupMember, groupLastRead, groupShown>>
        /\ UNCHANGED <<groupProposals, groupTasks, groupRef, groupEvent, groupWorker>>
        /\ UNCHANGED <<groupDocument, groupMustKeep, groupQueued, groupReceived, groupEntitled, groupFaults>>
        /\ groupClock' = groupClock
    BY <1>2 DEF Group!CommitPost
  <2>. QED  BY <1>1, <2>2, <2>3, <2>4, GroupStores
<1>3. ASSUME NEW m \in GroupMessage, Group!Answer(p, m)
      PROVE  GroupInv'
  <2>1. /\ m \notin Group!Messages
        /\ \A q \in GroupPerson : Group!At(q, "posting") => groupOp[q].m # m
        /\ groupClock < MaxGroupClock /\ groupClock' = groupClock + 1
    BY <1>3 DEF Group!Answer, Group!Unused, Group!Tick, GroupPerson
  <2>2. groupClock' \in 1..MaxGroupClock
    BY <1>1, <2>1, GroupBounds
  <2>3. /\ groupAt' = [x \in Group!Messages \cup {m} |-> IF x = m THEN groupClock ELSE groupAt[x]]
        /\ Group!Goto(p, [pc |-> "publishing", m |-> m])
        /\ UNCHANGED <<groupArchived, groupDeleted, groupMember, groupLastRead, groupShown>>
        /\ UNCHANGED <<groupProposals, groupTasks, groupRef, groupEvent, groupWorker>>
        /\ UNCHANGED <<groupDocument, groupMustKeep, groupQueued, groupReceived, groupEntitled, groupFaults>>
    BY <1>3 DEF Group!Answer
  <2>. QED  BY <1>1, <2>1, <2>2, <2>3, GroupStores
<1>. QED  BY <1>2, <1>3

\* Publishing entitles who is a member then: the message was not on the wire before.
LEMMA GroupPublishes ==
  ASSUME GroupInv, NEW p \in GroupPerson, Group!Publish(p)
  PROVE  GroupInv'
<1>. DEFINE m == groupOp[p].m
<1>1. /\ groupOp \in [GroupPerson -> GroupKnowing]
      /\ groupOp[p].pc = "publishing"
      /\ groupEntitled \in [GroupMessage -> SUBSET GroupPerson]
      /\ groupMember \subseteq GroupPerson
  BY DEF GroupInv, GroupTyped, GroupWire, GroupRows, Group!Publish, Group!At
<1>2. m \in GroupMessage /\ m \in Group!Messages
  BY <1>1, GroupKnown DEF GroupInv, OneAuthor, Group!At
<1>3. \A d \in groupQueued \cup groupReceived : d.m # m /\ d.m \in Group!Messages
  BY <1>1 DEF GroupInv, Published, Group!At
<1>4. PICK e \in GroupKnowing : Group!Goto(p, e) /\ e.pc \in {"idle", "answering"}
  <2>1. [pc |-> "answering"] \in GroupKnowing
    BY DEF GroupKnowing
  <2>. QED  BY <2>1, GroupIdles DEF Group!Publish
<1>5. /\ groupQueued' = groupQueued \cup {[m |-> m, to |-> q] : q \in GroupPerson}
      /\ groupEntitled' = [groupEntitled EXCEPT ![m] = groupMember]
      /\ UNCHANGED <<groupArchived, groupDeleted, groupMember, groupLastRead, groupShown>>
      /\ UNCHANGED <<groupAt, groupProposals, groupTasks, groupRef, groupEvent, groupWorker>>
      /\ UNCHANGED <<groupDocument, groupMustKeep, groupReceived, groupFaults, groupClock>>
  BY DEF Group!Publish, Group!chan, Group!marks, Group!texts, Group!archive, Group!Stay, GroupPerson
<1>6. /\ groupOp' \in [GroupPerson -> GroupKnowing]
      /\ groupOp'[p] = e
      /\ \A q \in GroupPerson : q # p => groupOp'[q] = groupOp[q]
  BY <1>1, <1>4, GroupEnters
<1>. HIDE DEF m
<1>7. Group!Messages' = Group!Messages
  BY <1>5 DEF Group!Messages
<1>8. GroupTyped'
  <2>1. GroupRows' /\ GroupTexts'
    BY <1>5, <1>7 DEF GroupInv, GroupTyped, GroupRows, GroupTexts
  <2>2. GroupWire'
    BY <1>1, <1>2, <1>5 DEF GroupInv, GroupTyped, GroupWire, Delivery
  <2>. QED  BY <1>6, <2>1, <2>2 DEF GroupTyped
<1>9. \A q \in GroupPerson : groupOp'[q].pc \in {"posting", "publishing"} =>
        q # p /\ groupOp'[q] = groupOp[q]
  BY <1>4, <1>6
<1>10. OneAuthor'
  BY <1>7, <1>9 DEF GroupInv, OneAuthor, Group!At
<1>11. Published'
  <2>1. \A q \in GroupPerson : groupOp'[q].pc = "publishing" => groupOp'[q].m # m
    BY <1>1, <1>9 DEF GroupInv, OneAuthor, m
  <2>2. ASSUME NEW d \in groupQueued' \cup groupReceived'
        PROVE  /\ d.m \in Group!Messages
               /\ \A q \in GroupPerson : groupOp'[q].pc = "publishing" => groupOp'[q].m # d.m
    <3>1. CASE d \in groupQueued \cup groupReceived
      BY <1>3, <1>9, <3>1 DEF GroupInv, Published, Group!At
    <3>2. CASE d.m = m
      BY <1>2, <2>1, <3>2
    <3>. QED  BY <1>5, <2>2, <3>1, <3>2
  <2>. QED  BY <1>7, <2>2 DEF Published, Group!At
<1>12. MembersMayReceive'
  <2>1. ASSUME NEW d \in groupQueued', d.to \in groupMember
        PROVE  d.to \in groupEntitled'[d.m]
    <3>1. CASE d \in groupQueued
      <4>1. d.m \in GroupMessage /\ d.m # m
        BY <1>3, <3>1 DEF GroupInv, GroupTyped, GroupWire, Delivery
      <4>. QED  BY <1>1, <1>5, <2>1, <3>1, <4>1 DEF GroupInv, MembersMayReceive
    <3>2. CASE d.m = m
      BY <1>1, <1>2, <1>5, <2>1, <3>2
    <3>. QED  BY <1>5, <2>1, <3>1, <3>2
  <2>. QED  BY <1>5, <2>1 DEF MembersMayReceive
<1>13. Group!KickedHearNothing'
  <2>1. \A d \in groupReceived : d.m \in GroupMessage /\ d.m # m
    BY <1>3 DEF GroupInv, GroupTyped, GroupWire, Delivery
  <2>. QED  BY <1>1, <1>5, <2>1 DEF GroupInv, Group!KickedHearNothing
<1>14. NamedByMessage'
  BY <1>5 DEF GroupInv, NamedByMessage
<1>. QED  BY <1>8, <1>10, <1>11, <1>12, <1>13, <1>14 DEF GroupInv

\* Who is added may see what was said before; a message is handed to who is a member then.
LEMMA GroupAdds ==
  ASSUME GroupInv, Group!AddMember
  PROVE  GroupInv'
<1>. DEFINE who == groupOp[GroupOwner].who
<1>1. /\ groupOp \in [GroupPerson -> GroupKnowing]
      /\ groupEntitled \in [GroupMessage -> SUBSET GroupPerson]
      /\ who \in GroupPerson
  BY GroupOwnerIsPerson, GroupKnown
     DEF GroupInv, GroupTyped, GroupWire, Group!AddMember, Group!At
<1>2. /\ groupMember' = groupMember \cup {who}
      /\ groupEntitled' = [m \in GroupMessage |->
             IF m \in Group!Messages THEN groupEntitled[m] \cup {who} ELSE {}]
      /\ Group!Goto(GroupOwner, Group!Idle)
      /\ UNCHANGED <<groupArchived, groupDeleted, groupLastRead, groupShown, groupQueued>>
      /\ UNCHANGED <<groupAt, groupProposals, groupTasks, groupRef, groupEvent, groupWorker>>
      /\ UNCHANGED <<groupDocument, groupMustKeep, groupReceived, groupFaults, groupClock>>
  BY DEF Group!AddMember, Group!marks, Group!texts, Group!archive, Group!Stay, GroupMessage
<1>. HIDE DEF who
<1>3. /\ groupOp' \in [GroupPerson -> GroupKnowing]
      /\ \A q \in GroupPerson : groupOp'[q].pc \in {"posting", "publishing"} =>
            groupOp'[q] = groupOp[q]
  BY <1>1, <1>2, GroupEnters, GroupIdles, GroupOwnerIsPerson
<1>4. Group!Messages' = Group!Messages
  BY <1>2 DEF Group!Messages
<1>5. GroupTyped'
  <2>1. GroupRows' /\ GroupTexts'
    BY <1>1, <1>2, <1>4 DEF GroupInv, GroupTyped, GroupRows, GroupTexts
  <2>2. GroupWire'
    BY <1>1, <1>2 DEF GroupInv, GroupTyped, GroupWire
  <2>. QED  BY <1>3, <2>1, <2>2 DEF GroupTyped
<1>6. OneAuthor' /\ Published'
  BY <1>2, <1>3, <1>4 DEF GroupInv, OneAuthor, Published, Group!At
<1>7. \A d \in groupQueued \cup groupReceived : d.m \in GroupMessage /\ d.m \in Group!Messages
  BY DEF GroupInv, GroupTyped, GroupWire, Published, Delivery
<1>8. \A d \in groupQueued \cup groupReceived :
         groupEntitled'[d.m] = groupEntitled[d.m] \cup {who}
  BY <1>2, <1>7
<1>9. MembersMayReceive' /\ Group!KickedHearNothing'
  BY <1>2, <1>8 DEF GroupInv, MembersMayReceive, Group!KickedHearNothing
<1>10. NamedByMessage'
  BY <1>2 DEF GroupInv, NamedByMessage
<1>. QED  BY <1>5, <1>6, <1>9, <1>10 DEF GroupInv

LEMMA GroupDelivers ==
  ASSUME GroupInv, NEW d \in groupQueued, Group!Deliver(d)
  PROVE  GroupInv'
<1>1. /\ groupQueued' = groupQueued \ {d}
      /\ groupReceived' = IF d.to \in groupMember THEN groupReceived \cup {d} ELSE groupReceived
      /\ UNCHANGED <<groupArchived, groupDeleted, groupMember, groupLastRead, groupShown>>
      /\ UNCHANGED <<groupAt, groupProposals, groupTasks, groupRef, groupEvent, groupWorker>>
      /\ UNCHANGED <<groupDocument, groupMustKeep, groupEntitled, groupFaults, groupClock, groupOp>>
  BY DEF Group!Deliver, Group!Authorized, Group!chan, Group!marks, Group!texts, Group!archive,
         Group!Stay
<1>2. Group!Messages' = Group!Messages
  BY <1>1 DEF Group!Messages
<1>3. GroupTyped'
  <2>1. GroupRows' /\ GroupTexts'
    BY <1>1, <1>2 DEF GroupInv, GroupTyped, GroupRows, GroupTexts
  <2>2. GroupWire'
    BY <1>1 DEF GroupInv, GroupTyped, GroupWire
  <2>. QED  BY <1>1, <2>1, <2>2 DEF GroupInv, GroupTyped
<1>4. OneAuthor' /\ Published'
  BY <1>1, <1>2 DEF GroupInv, OneAuthor, Published, Group!At
<1>5. MembersMayReceive' /\ Group!KickedHearNothing' /\ NamedByMessage'
  BY <1>1 DEF GroupInv, MembersMayReceive, Group!KickedHearNothing, NamedByMessage
<1>. QED  BY <1>3, <1>4, <1>5 DEF GroupInv

\* A new group has its members and nothing else.
LEMMA GroupInit == Group!Init => GroupInv
<1>. SUFFICES ASSUME Group!Init PROVE GroupInv
  OBVIOUS
<1>. USE DEF Group!Init
<1>1. /\ groupOp \in [GroupPerson -> GroupKnowing]
      /\ \A p \in GroupPerson : groupOp[p].pc = "idle"
  BY GroupIdles DEF GroupPerson
<1>2. Group!Messages = {}
  BY DEF Group!Messages
<1>3. GroupRows
  <2>1. groupFaults \in 0..MaxGroupFaults /\ groupLastRead \in [GroupPerson -> 0..MaxGroupClock]
    BY GroupBounds DEF GroupPerson
  <2>2. groupWorker \in [pc : {"idle"}] \cup [pc : {"working"}, of : SUBSET GroupMessage]
    OBVIOUS
  <2>3. groupShown \in [GroupPerson -> SUBSET GroupMessage]
    BY DEF GroupPerson
  <2>. QED  BY <2>1, <2>2, <2>3 DEF GroupRows, Group!None, GroupPerson
<1>4. GroupTexts
  BY <1>2, GroupBounds DEF GroupTexts
<1>5. GroupWire
  BY DEF GroupWire, GroupMessage, GroupPerson
<1>6. OneAuthor
  BY <1>1 DEF OneAuthor, Group!At
<1>7. Published /\ MembersMayReceive /\ Group!KickedHearNothing /\ NamedByMessage
  BY DEF Published, MembersMayReceive, Group!KickedHearNothing, NamedByMessage
<1>. QED  BY <1>1, <1>3, <1>4, <1>5, <1>6, <1>7 DEF GroupInv, GroupTyped

\* Every step of a group keeps the invariant, and a step that leaves it alone.
LEMMA GroupNext ==
  ASSUME GroupInv, Group!Next \/ UNCHANGED groupVars
  PROVE  GroupInv'
<1>1. CASE Group!Next
  <2>1. CASE \E p \in GroupPerson : Group!Talks(p)
    BY <2>1, GroupPosts, GroupCommits, GroupPublishes, GroupPromotes, GroupRestsAlways
       DEF Group!Talks, GroupMessage
  <2>2. CASE Group!Manages
    BY <2>2, GroupAdds, GroupPromotes, GroupRestsAlways, GroupOwnerIsPerson DEF Group!Manages
  <2>3. CASE Group!Worker \/ Group!ArchiveFails
    BY <2>3, GroupRestsAlways
  <2>4. CASE \E d \in groupQueued : Group!Deliver(d)
    BY <2>4, GroupDelivers
  <2>. QED  BY <1>1, <2>1, <2>2, <2>3, <2>4 DEF Group!Next, GroupPerson
<1>2. CASE UNCHANGED groupVars
  <2>1. /\ UNCHANGED <<groupAt, groupOp, groupProposals, groupQueued, groupReceived, groupEntitled>>
        /\ UNCHANGED <<groupArchived, groupDeleted, groupMember, groupLastRead, groupShown>>
        /\ UNCHANGED <<groupRef, groupEvent, groupWorker, groupDocument, groupMustKeep>>
        /\ UNCHANGED <<groupClock, groupFaults>>
    BY <1>2 DEF groupVars
  <2>2. GroupRows' /\ groupClock' \in 1..MaxGroupClock
    BY <2>1 DEF GroupInv, GroupTyped, GroupRows, GroupTexts
  <2>. QED  BY <2>1, <2>2, GroupRests
<1>. QED  BY <1>1, <1>2

\* What the invariant says to the people of a group.
LEMMA GroupPromises ==
  ASSUME GroupInv
  PROVE  Group!TypeOK /\ Group!OneProposalPerMessage
<1>1. Group!TypeOK
  <2>1. groupWorker.pc \in {"idle", "working"}
    BY DEF GroupInv, GroupTyped, GroupRows
  <2>2. \A d \in groupQueued \cup groupReceived : d.m \in GroupMessage /\ d.to \in GroupPerson
    BY DEF GroupInv, GroupTyped, GroupWire, Delivery
  <2>. QED  BY <2>1, <2>2 DEF GroupInv, GroupTyped, GroupRows, GroupTexts, Group!TypeOK,
                              Group!None, GroupPerson, GroupMessage
<1>2. Group!OneProposalPerMessage
  BY DEF GroupInv, NamedByMessage, Group!OneProposalPerMessage
<1>. QED  BY <1>1, <1>2

-----------------------------------------------------------------------------
(* Conversations: a message leaves the table for good, after its text was  *)
(* stored, and never one of the history window.                            *)

TalkMessage == Archives!Message
TalkRequest == Archives!Request

\* What a request of the person may know: the places of an archive, of a turn, of a pin.
Archiving == {"batch", "known", "parsing", "stored"}
TalkBatch == [pc : Archiving, batch : SUBSET TalkMessage]
TalkTurn == [pc : {"turn", "chat"}, m : TalkMessage, left : 1..MaxTalkReplies]
TalkKnowing == [pc : {"idle", "none", "named", "noBase", "ready"}]
               \cup TalkBatch \cup TalkTurn
               \cup [pc : {"asked"}, quote : 0..MaxTalkMessages]
               \cup [pc : {"pin"}, m : TalkMessage, pin : BOOLEAN]

TalkRows ==
    /\ talkExpert \in BOOLEAN /\ talkBases \in Nat
    /\ talkQuotes \in [TalkMessage -> 0..MaxTalkMessages]
    /\ talkPinned \subseteq TalkMessage
    /\ talkStarted \subseteq TalkMessage /\ talkChatted \subseteq TalkMessage
    /\ talkRefused \in BOOLEAN /\ talkFaults \in 0..MaxTalkFaults

\* An archive that says indexed was stored.
TalkArchive ==
    /\ talkDoc \in [SUBSET TalkMessage -> Archives!Status]
    /\ talkText \subseteq SUBSET TalkMessage /\ talkStored \subseteq SUBSET TalkMessage
    /\ \A b \in SUBSET TalkMessage : talkDoc[b] = "indexed" => b \in talkStored

\* Messages are stored in order, and leave the window before they leave the table.
TalkWindow ==
    /\ talkRow \in [TalkMessage -> {"none", "here", "gone"}]
    /\ talkSent \in 0..MaxTalkMessages /\ talkOld \in 0..talkSent
    /\ \A m \in TalkMessage : m > talkSent => talkRow[m] = "none"
    /\ \A m \in TalkMessage : talkRow[m] = "gone" =>
            m <= talkOld /\ \E b \in talkStored : m \in b

\* A load archives what is old, and deletes what it has stored.
TalkRequests ==
    /\ talkRequest \in [TalkRequest -> TalkKnowing]
    /\ \A r \in TalkRequest :
          /\ talkRequest[r].pc \in Archiving => \A m \in talkRequest[r].batch : m <= talkOld
          /\ talkRequest[r].pc = "stored" => talkRequest[r].batch \in talkStored

TalkInv == TalkRows /\ TalkArchive /\ TalkWindow /\ TalkRequests

\* The bounds are natural numbers.
LEMMA TalkBounds == /\ MaxTalkMessages \in Nat /\ MaxTalkReplies \in Nat \ {0}
                    /\ MaxTalkFaults \in Nat /\ TalkKnown \in BOOLEAN
                    /\ TalkMessage = 1..MaxTalkMessages
  BY ScenesAssumption DEF Archives!ConversationBoundAssumption,
     Archives!ConversationKnownAssumption, TalkMessage, Archives!Message

\* What the requests know by their place.
LEMMA TalkKnows ==
  ASSUME NEW e \in TalkKnowing
  PROVE  /\ e.pc \in Archiving => e \in TalkBatch /\ e.batch \subseteq TalkMessage
         /\ e.pc \in {"turn", "chat"} =>
              e \in TalkTurn /\ e.m \in TalkMessage /\ e.left \in 1..MaxTalkReplies
         /\ e.pc = "asked" => e.quote \in 0..MaxTalkMessages
         /\ e.pc = "pin" => e.m \in TalkMessage
         /\ e.pc \in {"idle", "none", "named", "noBase", "ready"} =>
              e \in [pc : {"idle", "none", "named", "noBase", "ready"}]
  BY DEF TalkKnowing, TalkBatch, TalkTurn, Archiving

LEMMA TalkIdles == Archives!Idle \in TalkKnowing /\ Archives!Idle.pc = "idle"
  BY DEF Archives!Idle, TalkKnowing

\* A request that moves, while the rest keeps its shape and nothing stored is lost.
LEMMA TalkMoves ==
  ASSUME TalkInv, NEW r \in TalkRequest, NEW e \in TalkKnowing,
         talkRequest' = [talkRequest EXCEPT ![r] = e],
         TalkRows', TalkArchive', TalkWindow',
         talkOld' = talkOld, talkStored \subseteq talkStored',
         e.pc \in Archiving => \A m \in e.batch : m <= talkOld,
         e.pc = "stored" => e.batch \in talkStored'
  PROVE  TalkInv'
<1>1. /\ talkRequest' \in [TalkRequest -> TalkKnowing]
      /\ talkRequest'[r] = e
      /\ \A q \in TalkRequest : q # r => talkRequest'[q] = talkRequest[q]
  BY DEF TalkInv, TalkRequests
<1>2. TalkRequests'
  <2>1. ASSUME NEW q \in TalkRequest
        PROVE  /\ talkRequest'[q].pc \in Archiving => \A m \in talkRequest'[q].batch : m <= talkOld
               /\ talkRequest'[q].pc = "stored" => talkRequest'[q].batch \in talkStored'
    <3>1. CASE q = r
      BY <1>1, <3>1
    <3>2. CASE q # r
      BY <1>1, <3>2 DEF TalkInv, TalkRequests
    <3>. QED  BY <3>1, <3>2
  <2>. QED  BY <1>1, <2>1 DEF TalkRequests
<1>. QED  BY <1>2 DEF TalkInv

\* The parts of the invariant that a step leaves alone.
LEMMA TalkStays ==
  ASSUME TalkInv
  PROVE  /\ UNCHANGED <<talkExpert, talkBases, talkQuotes, talkPinned, talkStarted, talkChatted,
                        talkRefused, talkFaults>> => TalkRows'
         /\ UNCHANGED <<talkDoc, talkText, talkStored>> => TalkArchive'
         /\ UNCHANGED <<talkRow, talkSent, talkOld, talkStored>> => TalkWindow'
  BY DEF TalkInv, TalkRows, TalkArchive, TalkWindow

\* The assistant and its base: their requests know nothing yet.
LEMMA TalkMeets ==
  ASSUME TalkInv, NEW r \in TalkRequest, Archives!get_or_create(r)
  PROVE  TalkInv'
<1>1. /\ UNCHANGED <<talkQuotes, talkPinned, talkStarted, talkChatted, talkRefused, talkFaults>>
      /\ UNCHANGED <<talkDoc, talkText, talkStored>>
      /\ UNCHANGED <<talkRow, talkSent, talkOld, talkStored>>
  BY DEF Archives!get_or_create, Archives!Meet, Archives!CreateExpert, Archives!FindBase,
         Archives!CreateBase, Archives!assistants, Archives!messages, Archives!archive,
         Archives!turns
<1>2. talkExpert' \in BOOLEAN /\ talkBases' \in Nat
  <2>1. talkBases' = talkBases \/ talkBases' = talkBases + 1
    BY DEF Archives!get_or_create, Archives!Meet, Archives!CreateExpert, Archives!FindBase,
           Archives!CreateBase, Archives!assistants
  <2>2. talkExpert' = talkExpert \/ talkExpert' = TRUE
    BY DEF Archives!get_or_create, Archives!Meet, Archives!CreateExpert, Archives!FindBase,
           Archives!CreateBase, Archives!assistants
  <2>3. talkBases' \in Nat
    BY <2>1 DEF TalkInv, TalkRows
  <2>4. talkExpert' \in BOOLEAN
    BY <2>2 DEF TalkInv, TalkRows
  <2>. QED  BY <2>3, <2>4
<1>3. TalkRows'
  BY <1>1, <1>2 DEF TalkInv, TalkRows
<1>4. talkRequest[r].pc \in {"idle", "none", "named", "noBase"}
  BY DEF Archives!get_or_create, Archives!Meet, Archives!CreateExpert, Archives!FindBase,
         Archives!CreateBase, Archives!At
<1>5. talkRequest[r] \in [pc : {"idle", "none", "named", "noBase", "ready"}]
  BY <1>4, TalkKnows DEF TalkInv, TalkRequests
<1>6. PICK e \in TalkKnowing :
        talkRequest' = [talkRequest EXCEPT ![r] = e] /\ e.pc \notin Archiving
  <2>1. CASE Archives!Leave(r)
    BY <2>1, TalkIdles DEF Archives!Leave, Archiving
  <2>2. CASE \E pc \in {"none", "named", "noBase", "ready"} : Archives!Goto(r, pc)
    <3>1. PICK pc \in {"none", "named", "noBase", "ready"} : Archives!Goto(r, pc)
      BY <2>2
    <3>2. /\ [talkRequest[r] EXCEPT !.pc = pc] \in [pc : {"idle", "none", "named", "noBase", "ready"}]
          /\ [talkRequest[r] EXCEPT !.pc = pc].pc = pc
      BY <1>5
    <3>3. talkRequest' = [talkRequest EXCEPT ![r] = [talkRequest[r] EXCEPT !.pc = pc]]
      BY <3>1 DEF Archives!Goto, TalkInv, TalkRequests
    <3>. QED  BY <3>2, <3>3 DEF TalkKnowing, Archiving
  <2>. QED  BY <2>1, <2>2 DEF Archives!get_or_create, Archives!Meet, Archives!CreateExpert,
                              Archives!FindBase, Archives!CreateBase
<1>. QED  BY <1>1, <1>3, <1>6, TalkMoves, TalkStays DEF Archiving

\* An archive: what is old is listed, opened, parsed, stored and deleted.
LEMMA TalkArchives ==
  ASSUME TalkInv, NEW r \in TalkRequest,
         \/ Archives!ListOld(r) \/ Archives!Open(r) \/ Archives!Clean(r)
         \/ Archives!Finish(r) \/ Archives!Fail(r)
  PROVE  TalkInv'
<1>. DEFINE b == talkRequest[r].batch
<1>1. /\ TalkRows /\ TalkArchive /\ TalkWindow
      /\ talkRequest[r] \in TalkKnowing
      /\ talkRequest[r].pc \in Archiving =>
           talkRequest[r] \in TalkBatch /\ b \in SUBSET TalkMessage /\ \A m \in b : m <= talkOld
  BY TalkKnows DEF TalkInv, TalkRequests
<1>2. ASSUME NEW pc \in Archiving, Archives!Goto(r, pc), talkRequest[r].pc \in Archiving
      PROVE  \E e \in TalkKnowing : /\ talkRequest' = [talkRequest EXCEPT ![r] = e]
                                    /\ e.pc = pc /\ e.batch = b
  <2>1. /\ [talkRequest[r] EXCEPT !.pc = pc] \in TalkBatch
        /\ [talkRequest[r] EXCEPT !.pc = pc].pc = pc
        /\ [talkRequest[r] EXCEPT !.pc = pc].batch = b
    BY <1>1, <1>2 DEF TalkBatch
  <2>2. talkRequest' = [talkRequest EXCEPT ![r] = [talkRequest[r] EXCEPT !.pc = pc]]
    BY <1>2 DEF Archives!Goto, TalkInv, TalkRequests
  <2>. QED  BY <2>1, <2>2 DEF TalkKnowing
<1>3. \A c \in SUBSET TalkMessage, s \in Archives!Status :
        [talkDoc EXCEPT ![c] = s] \in [SUBSET TalkMessage -> Archives!Status]
  BY <1>1 DEF TalkArchive
<1>4. CASE Archives!ListOld(r)
  <2>. DEFINE batch == {m \in TalkMessage : Archives!Old(m)}
              e == [pc |-> "batch", batch |-> batch]
  <2>1. /\ e \in TalkKnowing /\ e.pc = "batch"
        /\ \A m \in e.batch : m <= talkOld
    BY DEF TalkKnowing, TalkBatch, Archiving, Archives!Old
  <2>2. \/ talkRequest' = [talkRequest EXCEPT ![r] = e]
        \/ talkRequest' = [talkRequest EXCEPT ![r] = Archives!Idle]
    BY <1>4 DEF Archives!ListOld, Archives!Leave, TalkMessage
  <2>3. /\ UNCHANGED <<talkExpert, talkBases, talkQuotes, talkPinned, talkStarted, talkChatted>>
        /\ UNCHANGED <<talkRefused, talkFaults>>
        /\ UNCHANGED <<talkDoc, talkText, talkStored, talkRow, talkSent, talkOld>>
    BY <1>4 DEF Archives!ListOld, Archives!assistants, Archives!messages, Archives!archive,
                Archives!turns
  <2>4. TalkRows' /\ TalkArchive' /\ TalkWindow'
    BY <2>3, TalkStays
  <2>. HIDE DEF e
  <2>. QED  BY <2>1, <2>2, <2>3, <2>4, TalkMoves, TalkIdles DEF Archiving
<1>5. CASE Archives!Open(r)
  <2>1. /\ talkRequest[r].pc = "batch"
        /\ talkDoc' = [talkDoc EXCEPT ![b] = IF @ = "none" THEN "uploaded" ELSE @]
        /\ Archives!Goto(r, IF talkDoc[b] = "indexed" THEN "stored" ELSE "known")
        /\ UNCHANGED <<talkExpert, talkBases, talkQuotes, talkPinned, talkStarted, talkChatted>>
        /\ UNCHANGED <<talkRefused, talkFaults, talkText, talkStored, talkRow, talkSent, talkOld>>
    BY <1>5 DEF Archives!Open, Archives!At, Archives!assistants, Archives!messages, Archives!turns
  <2>2. b \in SUBSET TalkMessage /\ \A m \in b : m <= talkOld
    BY <1>1, <2>1 DEF Archiving
  <2>3. TalkArchive'
    <3>1. talkDoc' \in [SUBSET TalkMessage -> Archives!Status]
      BY <1>1, <2>1, <2>2 DEF TalkArchive, Archives!Status
    <3>2. \A c \in SUBSET TalkMessage : talkDoc'[c] = "indexed" => talkDoc[c] = "indexed"
      BY <1>1, <2>1, <2>2 DEF TalkArchive
    <3>. QED  BY <1>1, <2>1, <3>1, <3>2 DEF TalkArchive
  <2>4. TalkRows' /\ TalkWindow'
    BY <2>1, TalkStays
  <2>5. CASE talkDoc[b] = "indexed"
    <3>1. Archives!Goto(r, "stored") /\ b \in talkStored
      BY <1>1, <2>1, <2>2, <2>5 DEF TalkArchive
    <3>2. PICK e \in TalkKnowing : /\ talkRequest' = [talkRequest EXCEPT ![r] = e]
                                   /\ e.pc = "stored" /\ e.batch = b
      BY <1>2, <2>1, <3>1 DEF Archiving
    <3>. QED  BY <2>1, <2>2, <2>3, <2>4, <3>1, <3>2, TalkMoves
  <2>6. CASE talkDoc[b] # "indexed"
    <3>1. Archives!Goto(r, "known")
      BY <2>1, <2>6
    <3>2. PICK e \in TalkKnowing : /\ talkRequest' = [talkRequest EXCEPT ![r] = e]
                                   /\ e.pc = "known" /\ e.batch = b
      BY <1>2, <2>1, <3>1 DEF Archiving
    <3>. QED  BY <2>1, <2>2, <2>3, <2>4, <3>2, TalkMoves
  <2>. QED  BY <2>5, <2>6
<1>6. CASE Archives!Clean(r)
  <2>1. /\ talkRequest[r].pc = "known"
        /\ talkDoc' = [talkDoc EXCEPT ![b] = "parsing"]
        /\ talkText' = talkText \ {b}
        /\ Archives!Goto(r, "parsing")
        /\ UNCHANGED <<talkExpert, talkBases, talkQuotes, talkPinned, talkStarted, talkChatted>>
        /\ UNCHANGED <<talkRefused, talkFaults, talkStored, talkRow, talkSent, talkOld>>
    BY <1>6 DEF Archives!Clean, Archives!At, Archives!assistants, Archives!messages, Archives!turns
  <2>2. b \in SUBSET TalkMessage /\ \A m \in b : m <= talkOld
    BY <1>1, <2>1 DEF Archiving
  <2>3. TalkArchive'
    <3>1. talkDoc' \in [SUBSET TalkMessage -> Archives!Status]
      BY <1>3, <2>1, <2>2 DEF Archives!Status
    <3>2. \A c \in SUBSET TalkMessage : talkDoc'[c] = "indexed" => talkDoc[c] = "indexed"
      BY <1>1, <2>1, <2>2 DEF TalkArchive
    <3>. QED  BY <1>1, <2>1, <3>1, <3>2 DEF TalkArchive
  <2>4. TalkRows' /\ TalkWindow'
    BY <2>1, TalkStays
  <2>5. PICK e \in TalkKnowing : /\ talkRequest' = [talkRequest EXCEPT ![r] = e]
                                 /\ e.pc = "parsing" /\ e.batch = b
    BY <1>2, <2>1 DEF Archiving
  <2>. QED  BY <2>1, <2>2, <2>3, <2>4, <2>5, TalkMoves
<1>7. CASE Archives!Finish(r)
  <2>1. /\ talkRequest[r].pc = "parsing"
        /\ talkDoc' = [talkDoc EXCEPT ![b] = "indexed"]
        /\ talkText' = talkText \cup {b} /\ talkStored' = talkStored \cup {b}
        /\ Archives!Goto(r, "stored")
        /\ UNCHANGED <<talkExpert, talkBases, talkQuotes, talkPinned, talkStarted, talkChatted>>
        /\ UNCHANGED <<talkRefused, talkFaults, talkRow, talkSent, talkOld>>
    BY <1>7 DEF Archives!Finish, Archives!At, Archives!assistants, Archives!messages, Archives!turns
  <2>2. b \in SUBSET TalkMessage /\ \A m \in b : m <= talkOld
    BY <1>1, <2>1 DEF Archiving
  <2>3. TalkArchive'
    <3>1. talkDoc' \in [SUBSET TalkMessage -> Archives!Status]
      BY <1>3, <2>1, <2>2 DEF Archives!Status
    <3>2. \A c \in SUBSET TalkMessage : c # b => talkDoc'[c] = talkDoc[c]
      BY <1>1, <2>1, <2>2 DEF TalkArchive
    <3>. QED  BY <1>1, <2>1, <2>2, <3>1, <3>2 DEF TalkArchive
  <2>4. TalkRows'
    BY <2>1, TalkStays
  <2>5. TalkWindow'
    BY <1>1, <2>1 DEF TalkWindow
  <2>6. PICK e \in TalkKnowing : /\ talkRequest' = [talkRequest EXCEPT ![r] = e]
                                 /\ e.pc = "stored" /\ e.batch = b
    BY <1>2, <2>1 DEF Archiving
  <2>. QED  BY <2>1, <2>2, <2>3, <2>4, <2>5, <2>6, TalkMoves
<1>8. CASE Archives!Fail(r)
  <2>1. /\ talkRequest[r].pc = "parsing"
        /\ talkDoc' = [talkDoc EXCEPT ![b] = "failed"]
        /\ talkRequest' = [talkRequest EXCEPT ![r] = Archives!Idle]
        /\ UNCHANGED <<talkExpert, talkBases, talkQuotes, talkPinned, talkStarted, talkChatted>>
        /\ UNCHANGED <<talkRefused, talkText, talkStored, talkRow, talkSent, talkOld>>
    BY <1>8 DEF Archives!Fail, Archives!At, Archives!assistants, Archives!messages, Archives!turns,
                Archives!Kept, Archives!Leave
  <2>2. talkFaults' \in 0..MaxTalkFaults
    <3>1. talkFaults' = talkFaults \/ (talkFaults < MaxTalkFaults /\ talkFaults' = talkFaults + 1)
      BY <1>8 DEF Archives!Fail, Archives!Fault
    <3>. QED  BY <1>1, <3>1, TalkBounds DEF TalkRows
  <2>3. TalkRows'
    BY <1>1, <2>1, <2>2 DEF TalkRows
  <2>4. b \in SUBSET TalkMessage
    BY <1>1, <2>1 DEF Archiving
  <2>5. TalkArchive'
    <3>1. talkDoc' \in [SUBSET TalkMessage -> Archives!Status]
      BY <1>3, <2>1, <2>4 DEF Archives!Status
    <3>2. \A c \in SUBSET TalkMessage : talkDoc'[c] = "indexed" => talkDoc[c] = "indexed"
      BY <1>1, <2>1, <2>4 DEF TalkArchive
    <3>. QED  BY <1>1, <2>1, <3>1, <3>2 DEF TalkArchive
  <2>6. TalkWindow'
    BY <2>1, TalkStays
  <2>. QED  BY <2>1, <2>3, <2>5, <2>6, TalkMoves, TalkIdles DEF Archiving
<1>. QED  BY <1>4, <1>5, <1>6, <1>7, <1>8

\* What a load deletes was stored, and is old.
LEMMA TalkDeletes ==
  ASSUME TalkInv, NEW r \in TalkRequest, Archives!Delete(r)
  PROVE  TalkInv' /\ Archives!GoneStaysGone
<1>. DEFINE b == talkRequest[r].batch
<1>1. /\ TalkRows /\ TalkArchive /\ TalkWindow
      /\ talkRequest[r].pc = "stored"
      /\ b \in talkStored /\ \A m \in b : m <= talkOld
  BY DEF TalkInv, TalkRequests, Archives!Delete, Archives!At, Archiving
<1>2. /\ talkRequest' = [talkRequest EXCEPT ![r] = Archives!Idle]
      /\ UNCHANGED <<talkExpert, talkBases, talkQuotes, talkStarted, talkChatted, talkFaults>>
      /\ UNCHANGED <<talkDoc, talkText, talkStored, talkSent, talkOld>>
  BY DEF Archives!Delete, Archives!Leave, Archives!assistants, Archives!turns
<1>3. \/ UNCHANGED <<talkRow, talkPinned>>
      \/ /\ talkRow' = [m \in TalkMessage |-> IF m \in b THEN "gone" ELSE talkRow[m]]
         /\ talkPinned' = talkPinned \ b
  BY DEF Archives!Delete, Archives!Deleted, TalkMessage
<1>4. talkRefused' \in BOOLEAN
  BY <1>1 DEF Archives!Delete, TalkRows
<1>5. TalkRows'
  BY <1>1, <1>2, <1>3, <1>4 DEF TalkRows
<1>6. TalkArchive'
  BY <1>2, TalkStays
<1>7. TalkWindow'
  <2>1. talkRow' \in [TalkMessage -> {"none", "here", "gone"}]
    BY <1>1, <1>3 DEF TalkWindow
  <2>2. \A m \in TalkMessage : talkRow'[m] = talkRow[m] \/ (m \in b /\ talkRow'[m] = "gone")
    BY <1>1, <1>3 DEF TalkWindow
  <2>3. \A m \in TalkMessage : m > talkSent => talkRow'[m] = "none"
    BY <1>1, <2>2, TalkBounds DEF TalkWindow
  <2>4. \A m \in TalkMessage : talkRow'[m] = "gone" =>
            m <= talkOld /\ \E c \in talkStored : m \in c
    BY <1>1, <2>2 DEF TalkWindow
  <2>. QED  BY <1>1, <1>2, <2>1, <2>3, <2>4 DEF TalkWindow
<1>8. Archives!GoneStaysGone
  BY <1>1, <1>3 DEF Archives!GoneStaysGone, TalkWindow, TalkMessage
<1>. QED  BY <1>2, <1>5, <1>6, <1>7, <1>8, TalkMoves, TalkIdles DEF Archiving

\* A message that is added is the newest: none that is gone comes back.
LEMMA TalkAdds ==
  ASSUME TalkInv, NEW q \in 0..MaxTalkMessages, Archives!Add(q),
         talkSent < MaxTalkMessages, talkStored' = talkStored
  PROVE  /\ TalkWindow' /\ Archives!GoneStaysGone
         /\ talkQuotes' \in [TalkMessage -> 0..MaxTalkMessages]
         /\ UNCHANGED <<talkPinned, talkOld>>
         /\ talkSent + 1 \in TalkMessage
<1>1. /\ talkSent' = talkSent + 1
      /\ talkRow' = [talkRow EXCEPT ![talkSent + 1] = "here"]
      /\ talkQuotes' = [talkQuotes EXCEPT ![talkSent + 1] = q]
      /\ UNCHANGED <<talkPinned, talkOld>>
  BY DEF Archives!Add
<1>2. /\ TalkRows /\ TalkWindow
      /\ talkSent \in Nat /\ talkSent + 1 \in TalkMessage
  BY TalkBounds DEF TalkInv, TalkWindow
<1>3. talkRow' \in [TalkMessage -> {"none", "here", "gone"}]
  BY <1>1, <1>2 DEF TalkWindow
<1>4. \A m \in TalkMessage :
        /\ m # talkSent + 1 => talkRow'[m] = talkRow[m]
        /\ m = talkSent + 1 => talkRow[m] = "none" /\ talkRow'[m] = "here"
  <2>1. talkRow[talkSent + 1] = "none"
    BY <1>2 DEF TalkWindow
  <2>. QED  BY <1>1, <1>2, <2>1 DEF TalkWindow
<1>5. TalkWindow'
  <2>1. talkSent' \in 0..MaxTalkMessages /\ talkOld' \in 0..talkSent'
    BY <1>1, <1>2, TalkBounds DEF TalkWindow
  <2>2. \A m \in TalkMessage : m > talkSent' => talkRow'[m] = "none"
    BY <1>1, <1>2, <1>4, TalkBounds DEF TalkWindow
  <2>3. \A m \in TalkMessage : talkRow'[m] = "gone" =>
            m <= talkOld /\ \E b \in talkStored : m \in b
    BY <1>2, <1>4 DEF TalkWindow
  <2>. QED  BY <1>1, <1>3, <2>1, <2>2, <2>3 DEF TalkWindow
<1>6. Archives!GoneStaysGone
  BY <1>4 DEF Archives!GoneStaysGone, TalkMessage
<1>7. talkQuotes' \in [TalkMessage -> 0..MaxTalkMessages]
  BY <1>1, <1>2 DEF TalkRows
<1>. QED  BY <1>1, <1>2, <1>5, <1>6, <1>7

\* A step that leaves the table of messages alone.
LEMMA TalkKeeps == talkRow' = talkRow => Archives!GoneStaysGone
  BY DEF Archives!GoneStaysGone

\* A turn: the message of the person is stored, a workflow is started or somebody answers.
LEMMA TalkTurns ==
  ASSUME TalkInv, NEW r \in TalkRequest, Archives!send_message_stream(r)
  PROVE  TalkInv' /\ Archives!GoneStaysGone
<1>1. /\ TalkRows /\ TalkArchive /\ TalkWindow
      /\ talkRequest[r] \in TalkKnowing
  BY TalkBounds DEF TalkInv, TalkRequests
<1>2. /\ UNCHANGED <<talkExpert, talkBases, talkDoc, talkText, talkStored, talkRefused>>
      /\ TalkArchive'
  <2>1. UNCHANGED <<talkExpert, talkBases, talkDoc, talkText, talkStored, talkRefused>>
    BY DEF Archives!send_message_stream, Archives!Ask, Archives!Persist, Archives!Orchestrate,
           Archives!try_start, Archives!Reply, Archives!assistants, Archives!archive
  <2>. QED  BY <2>1, TalkStays
<1>3. CASE \E q \in 0..MaxTalkMessages : Archives!Ask(r, q)
  <2>1. PICK q \in 0..MaxTalkMessages : Archives!Ask(r, q)
    BY <1>3
  <2>. DEFINE e == [pc |-> "asked", quote |-> q]
  <2>2. e \in TalkKnowing /\ e.pc = "asked"
    BY DEF TalkKnowing
  <2>3. /\ talkRequest' = [talkRequest EXCEPT ![r] = e]
        /\ UNCHANGED <<talkQuotes, talkPinned, talkStarted, talkChatted, talkFaults>>
        /\ UNCHANGED <<talkRow, talkSent, talkOld>>
    BY <2>1 DEF Archives!Ask, Archives!messages, Archives!turns
  <2>4. TalkRows' /\ TalkWindow'
    BY <1>2, <2>3, TalkStays
  <2>. HIDE DEF e
  <2>. QED  BY <1>2, <2>2, <2>3, <2>4, TalkMoves, TalkKeeps DEF Archiving
<1>4. CASE \E left \in 1..MaxTalkReplies : Archives!Persist(r, left)
  <2>1. PICK left \in 1..MaxTalkReplies : Archives!Persist(r, left)
    BY <1>4
  <2>. DEFINE e == [pc |-> IF left = 1 THEN "turn" ELSE "chat",
                    m |-> talkSent + 1, left |-> left]
              q == talkRequest[r].quote
  <2>2. /\ talkRequest[r].pc = "asked" /\ talkSent < MaxTalkMessages
        /\ q \in 0..MaxTalkMessages
    BY <1>1, <2>1, TalkKnows DEF Archives!Persist, Archives!At
  <2>3. UNCHANGED <<talkStarted, talkChatted, talkFaults>>
    BY <2>1 DEF Archives!Persist, Archives!turns
  <2>4. CASE Archives!Add(q) /\ talkRequest' = [talkRequest EXCEPT ![r] = e]
    <3>1. /\ TalkWindow' /\ Archives!GoneStaysGone
          /\ talkQuotes' \in [TalkMessage -> 0..MaxTalkMessages]
          /\ UNCHANGED <<talkPinned, talkOld>> /\ talkSent + 1 \in TalkMessage
      BY <1>2, <2>2, <2>4, TalkAdds
    <3>2. TalkRows'
      BY <1>1, <1>2, <2>3, <3>1 DEF TalkRows
    <3>3. e \in TalkKnowing /\ e.pc \in {"turn", "chat"}
      BY <3>1 DEF TalkKnowing, TalkTurn
    <3>. HIDE DEF e
    <3>. QED  BY <1>2, <2>4, <3>1, <3>2, <3>3, TalkMoves DEF Archiving
  <2>5. CASE Archives!Leave(r) /\ UNCHANGED Archives!messages
    <3>1. /\ UNCHANGED <<talkQuotes, talkPinned, talkRow, talkSent, talkOld>>
          /\ talkRequest' = [talkRequest EXCEPT ![r] = Archives!Idle]
      BY <2>5 DEF Archives!messages, Archives!Leave
    <3>2. TalkRows' /\ TalkWindow'
      BY <1>2, <2>3, <3>1, TalkStays
    <3>. QED  BY <1>2, <3>1, <3>2, TalkMoves, TalkIdles, TalkKeeps DEF Archiving
  <2>. QED  BY <2>1, <2>4, <2>5 DEF Archives!Persist
<1>5. CASE Archives!Orchestrate(r)
  <2>1. /\ talkRequest[r].pc = "turn" /\ talkSent < MaxTalkMessages
        /\ talkStarted' = talkStarted \cup {talkRequest[r].m}
        /\ Archives!Add(0)
        /\ talkRequest' = [talkRequest EXCEPT ![r] = Archives!Idle]
        /\ UNCHANGED <<talkChatted, talkFaults>>
    BY <1>5 DEF Archives!Orchestrate, Archives!At, Archives!Leave
  <2>2. 0 \in 0..MaxTalkMessages
    BY TalkBounds
  <2>3. /\ TalkWindow' /\ Archives!GoneStaysGone
        /\ talkQuotes' \in [TalkMessage -> 0..MaxTalkMessages]
        /\ UNCHANGED <<talkPinned, talkOld>>
    BY <1>2, <2>1, <2>2, TalkAdds
  <2>4. talkRequest[r].m \in TalkMessage
    BY <1>1, <2>1, TalkKnows
  <2>5. TalkRows'
    BY <1>1, <1>2, <2>1, <2>3, <2>4 DEF TalkRows
  <2>. QED  BY <1>2, <2>1, <2>3, <2>5, TalkMoves, TalkIdles DEF Archiving
<1>6. CASE Archives!try_start(r)
  <2>1. /\ talkRequest[r].pc = "turn"
        /\ UNCHANGED <<talkQuotes, talkPinned, talkRow, talkSent, talkOld, talkChatted>>
    BY <1>6 DEF Archives!try_start, Archives!At, Archives!messages
  <2>2. talkRequest[r] \in TalkTurn
    BY <1>1, <2>1, TalkKnows
  <2>3. talkStarted' \subseteq TalkMessage /\ talkFaults' \in 0..MaxTalkFaults
    <3>1. \/ UNCHANGED <<talkStarted, talkFaults>>
          \/ /\ talkFaults < MaxTalkFaults /\ talkFaults' = talkFaults + 1
             /\ talkStarted' = talkStarted \cup {talkRequest[r].m}
      BY <1>6 DEF Archives!try_start, Archives!Fault
    <3>2. talkRequest[r].m \in TalkMessage
      BY <2>2 DEF TalkTurn
    <3>3. talkStarted' \subseteq TalkMessage
      BY <1>1, <3>1, <3>2 DEF TalkRows
    <3>4. talkFaults' = talkFaults \/ (talkFaults < MaxTalkFaults /\ talkFaults' = talkFaults + 1)
      BY <3>1
    <3>5. talkFaults' \in 0..MaxTalkFaults
      BY <1>1, <3>4, TalkBounds DEF TalkRows
    <3>. QED  BY <3>3, <3>5
  <2>4. TalkRows'
    BY <1>1, <1>2, <2>1, <2>3 DEF TalkRows
  <2>5. TalkWindow'
    BY <1>2, <2>1, TalkStays
  <2>6. /\ [talkRequest[r] EXCEPT !.pc = "chat"] \in TalkKnowing
        /\ [talkRequest[r] EXCEPT !.pc = "chat"].pc = "chat"
    <3>1. /\ [talkRequest[r] EXCEPT !.pc = "chat"] \in TalkTurn
          /\ [talkRequest[r] EXCEPT !.pc = "chat"].pc = "chat"
      BY <2>2 DEF TalkTurn
    <3>. QED  BY <3>1 DEF TalkKnowing
  <2>7. talkRequest' = [talkRequest EXCEPT ![r] = [talkRequest[r] EXCEPT !.pc = "chat"]]
    BY <1>6 DEF Archives!try_start, Archives!Goto, TalkInv, TalkRequests
  <2>. QED  BY <1>2, <2>1, <2>4, <2>5, <2>6, <2>7, TalkMoves, TalkKeeps DEF Archiving
<1>7. CASE Archives!Reply(r)
  <2>1. /\ talkRequest[r].pc = "chat" /\ talkSent < MaxTalkMessages
        /\ talkChatted' = talkChatted \cup {talkRequest[r].m}
        /\ Archives!Add(0)
        /\ UNCHANGED <<talkStarted, talkFaults>>
    BY <1>7 DEF Archives!Reply, Archives!At
  <2>2. 0 \in 0..MaxTalkMessages
    BY TalkBounds
  <2>3. /\ TalkWindow' /\ Archives!GoneStaysGone
        /\ talkQuotes' \in [TalkMessage -> 0..MaxTalkMessages]
        /\ UNCHANGED <<talkPinned, talkOld>>
    BY <1>2, <2>1, <2>2, TalkAdds
  <2>4. talkRequest[r] \in TalkTurn /\ talkRequest[r].m \in TalkMessage
    BY <1>1, <2>1, TalkKnows
  <2>5. TalkRows'
    BY <1>1, <1>2, <2>1, <2>3, <2>4 DEF TalkRows
  <2>6. CASE talkRequest[r].left = 1
    <3>1. talkRequest' = [talkRequest EXCEPT ![r] = Archives!Idle]
      BY <1>7, <2>6 DEF Archives!Reply, Archives!Leave
    <3>. QED  BY <1>2, <2>3, <2>5, <3>1, TalkMoves, TalkIdles DEF Archiving
  <2>7. CASE talkRequest[r].left # 1
    <3>. DEFINE e == [talkRequest[r] EXCEPT !.left = @ - 1]
    <3>1. e \in TalkTurn /\ e.pc = "chat"
      <4>1. talkRequest[r].left - 1 \in 1..MaxTalkReplies
        BY <2>4, <2>7, TalkBounds DEF TalkTurn
      <4>. QED  BY <2>1, <2>4, <4>1 DEF TalkTurn
    <3>2. e \in TalkKnowing
      BY <3>1 DEF TalkKnowing
    <3>3. talkRequest' = [talkRequest EXCEPT ![r] = e]
      BY <1>7, <2>7 DEF Archives!Reply, TalkInv, TalkRequests
    <3>. HIDE DEF e
    <3>. QED  BY <1>2, <2>3, <2>5, <3>1, <3>2, <3>3, TalkMoves DEF Archiving
  <2>. QED  BY <2>6, <2>7
<1>. QED  BY <1>3, <1>4, <1>5, <1>6, <1>7 DEF Archives!send_message_stream

\* A pin: what is saved is the pin, never the row.
LEMMA TalkPins ==
  ASSUME TalkInv, NEW r \in TalkRequest, Archives!pin_message(r)
  PROVE  TalkInv' /\ Archives!GoneStaysGone
<1>1. /\ TalkRows /\ TalkArchive /\ TalkWindow
      /\ talkRequest[r] \in TalkKnowing
  BY DEF TalkInv, TalkRequests
<1>2. CASE \E m \in TalkMessage, pin \in BOOLEAN : Archives!OpenPin(r, m, pin)
  <2>1. PICK m \in TalkMessage, pin \in BOOLEAN : Archives!OpenPin(r, m, pin)
    BY <1>2
  <2>. DEFINE e == [pc |-> "pin", m |-> m, pin |-> pin]
  <2>2. e \in TalkKnowing /\ e.pc = "pin"
    BY DEF TalkKnowing
  <2>3. /\ talkRequest' = [talkRequest EXCEPT ![r] = e]
        /\ UNCHANGED <<talkExpert, talkBases, talkQuotes, talkPinned, talkStarted, talkChatted>>
        /\ UNCHANGED <<talkRefused, talkFaults>>
        /\ UNCHANGED <<talkDoc, talkText, talkStored, talkRow, talkSent, talkOld>>
    BY <2>1 DEF Archives!OpenPin, Archives!assistants, Archives!messages, Archives!archive,
                Archives!turns
  <2>4. TalkRows' /\ TalkArchive' /\ TalkWindow'
    BY <2>3, TalkStays
  <2>. HIDE DEF e
  <2>. QED  BY <2>2, <2>3, <2>4, TalkMoves, TalkKeeps DEF Archiving
<1>3. CASE Archives!SavePin(r)
  <2>1. /\ talkRequest[r].pc = "pin"
        /\ talkRow' = talkRow
        /\ \/ talkPinned' = talkPinned
           \/ talkPinned' = talkPinned \cup {talkRequest[r].m}
           \/ talkPinned' = talkPinned \ {talkRequest[r].m}
        /\ talkRequest' = [talkRequest EXCEPT ![r] = Archives!Idle]
        /\ UNCHANGED <<talkExpert, talkBases, talkQuotes, talkStarted, talkChatted>>
        /\ UNCHANGED <<talkRefused, talkFaults>>
        /\ UNCHANGED <<talkDoc, talkText, talkStored, talkSent, talkOld>>
    BY <1>3 DEF Archives!SavePin, Archives!At, Archives!Saved, Archives!Leave,
                Archives!assistants, Archives!archive, Archives!turns
  <2>2. talkRequest[r].m \in TalkMessage
    BY <1>1, <2>1, TalkKnows
  <2>3. TalkRows'
    BY <1>1, <2>1, <2>2 DEF TalkRows
  <2>4. TalkArchive' /\ TalkWindow'
    BY <2>1, TalkStays
  <2>. QED  BY <2>1, <2>3, <2>4, TalkMoves, TalkIdles, TalkKeeps DEF Archiving
<1>. QED  BY <1>2, <1>3 DEF Archives!pin_message, TalkMessage

\* A request dies.
LEMMA TalkDies ==
  ASSUME TalkInv, NEW r \in TalkRequest, Archives!Die(r)
  PROVE  TalkInv' /\ talkRow' = talkRow
<1>1. /\ talkRequest' = [talkRequest EXCEPT ![r] = Archives!Idle]
      /\ UNCHANGED <<talkExpert, talkBases, talkQuotes, talkPinned, talkStarted, talkChatted>>
      /\ UNCHANGED <<talkRefused, talkDoc, talkText, talkStored, talkRow, talkSent, talkOld>>
  BY DEF Archives!Die, Archives!Leave, Archives!assistants, Archives!messages,
         Archives!archive, Archives!turns
<1>2. talkFaults' \in 0..MaxTalkFaults
  <2>1. talkFaults < MaxTalkFaults /\ talkFaults' = talkFaults + 1
    BY DEF Archives!Die, Archives!Fault
  <2>. QED  BY <2>1, TalkBounds DEF TalkInv, TalkRows
<1>3. TalkRows'
  BY <1>1, <1>2 DEF TalkInv, TalkRows
<1>4. TalkArchive' /\ TalkWindow'
  BY <1>1, TalkStays
<1>. QED  BY <1>1, <1>3, <1>4, TalkMoves, TalkIdles DEF Archiving

\* Days pass: what was old stays old.
LEMMA TalkAges ==
  ASSUME TalkInv, Archives!Age
  PROVE  TalkInv' /\ talkRow' = talkRow
<1>1. /\ talkOld < talkSent /\ talkOld' = talkOld + 1
      /\ UNCHANGED <<talkExpert, talkBases, talkQuotes, talkPinned, talkStarted, talkChatted>>
      /\ UNCHANGED <<talkRefused, talkFaults>>
      /\ UNCHANGED <<talkDoc, talkText, talkStored, talkRow, talkSent, talkRequest>>
  BY DEF Archives!Age, Archives!assistants, Archives!archive, Archives!turns
<1>2. TalkRows' /\ TalkArchive'
  BY <1>1, TalkStays
<1>3. \A m \in TalkMessage : m <= talkOld => m <= talkOld'
  BY <1>1, TalkBounds DEF TalkInv, TalkWindow
<1>4. talkOld' \in 0..talkSent'
  BY <1>1, TalkBounds DEF TalkInv, TalkWindow
<1>5. TalkWindow'
  BY <1>1, <1>3, <1>4 DEF TalkInv, TalkWindow
<1>6. TalkRequests'
  <2>1. \A r \in TalkRequest : talkRequest[r].pc \in Archiving =>
            \A m \in talkRequest[r].batch : m \in TalkMessage /\ m <= talkOld
    BY TalkKnows DEF TalkInv, TalkRequests
  <2>. QED  BY <1>1, <1>3, <2>1 DEF TalkInv, TalkRequests
<1>. QED  BY <1>1, <1>2, <1>5, <1>6 DEF TalkInv

LEMMA TalkInit == Archives!Init => TalkInv
<1>. SUFFICES ASSUME Archives!Init PROVE TalkInv
  OBVIOUS
<1>1. TalkRows
  <2>1. /\ talkExpert = TalkKnown /\ talkBases = IF TalkKnown THEN 1 ELSE 0
        /\ talkQuotes = [m \in TalkMessage |-> 0]
        /\ talkPinned = {} /\ talkStarted = {} /\ talkChatted = {}
        /\ talkRefused = FALSE /\ talkFaults = 0
    BY DEF Archives!Init, TalkMessage
  <2>2. talkExpert \in BOOLEAN /\ talkRefused \in BOOLEAN
    BY <2>1, TalkBounds
  <2>3. talkBases \in Nat
    BY <2>1
  <2>4. 0 \in 0..MaxTalkMessages /\ 0 \in 0..MaxTalkFaults
    BY TalkBounds
  <2>5. talkQuotes \in [TalkMessage -> 0..MaxTalkMessages]
    BY <2>1, <2>4
  <2>. QED  BY <2>1, <2>2, <2>3, <2>4, <2>5 DEF TalkRows
<1>2. TalkArchive
  BY DEF Archives!Init, TalkArchive, TalkMessage, Archives!Message, Archives!Batch,
         Archives!Status
<1>3. TalkWindow
  BY TalkBounds DEF Archives!Init, TalkWindow, TalkMessage
<1>4. TalkRequests
  BY TalkIdles DEF Archives!Init, TalkRequests, TalkRequest, Archiving
<1>. QED  BY <1>1, <1>2, <1>3, <1>4 DEF TalkInv

\* Every step keeps the invariant, and brings no message back.
LEMMA TalkNext ==
  ASSUME TalkInv, Archives!Next \/ UNCHANGED talkVars
  PROVE  TalkInv' /\ Archives!GoneStaysGone
<1>1. CASE UNCHANGED talkVars
  <2>1. TalkInv'
    BY <1>1 DEF talkVars, TalkInv, TalkRows, TalkArchive, TalkWindow, TalkRequests
  <2>. QED  BY <1>1, <2>1, TalkKeeps DEF talkVars
<1>2. ASSUME NEW r \in TalkRequest, Archives!get_or_create(r)
      PROVE  TalkInv' /\ Archives!GoneStaysGone
  <2>1. talkRow' = talkRow
    BY <1>2 DEF Archives!get_or_create, Archives!Meet, Archives!CreateExpert,
                Archives!FindBase, Archives!CreateBase, Archives!messages
  <2>. QED  BY <1>2, <2>1, TalkMeets, TalkKeeps
<1>3. ASSUME NEW r \in TalkRequest, Archives!_archive_old(r)
      PROVE  TalkInv' /\ Archives!GoneStaysGone
  <2>1. CASE Archives!Delete(r)
    BY <2>1, TalkDeletes
  <2>2. CASE \/ Archives!ListOld(r) \/ Archives!Open(r) \/ Archives!Clean(r)
             \/ Archives!Finish(r) \/ Archives!Fail(r)
    <3>1. talkRow' = talkRow
      BY <2>2 DEF Archives!ListOld, Archives!Open, Archives!Clean, Archives!Finish,
                  Archives!Fail, Archives!messages
    <3>. QED  BY <2>2, <3>1, TalkArchives, TalkKeeps
  <2>. QED  BY <1>3, <2>1, <2>2 DEF Archives!_archive_old
<1>. QED  BY <1>1, <1>2, <1>3, TalkTurns, TalkPins, TalkDies, TalkAges, TalkKeeps
          DEF Archives!Next, TalkRequest

\* What the invariant says to the person of a conversation.
LEMMA TalkPromises ==
  ASSUME TalkInv
  PROVE  Archives!TypeOK /\ Archives!GoneWasStored /\ Archives!RecentIsKept
<1>1. \A e \in TalkKnowing : e.pc \in Archives!Pc
  BY DEF TalkKnowing, TalkBatch, TalkTurn, Archiving, Archives!Pc
<1>2. Archives!TypeOK
  BY <1>1 DEF TalkInv, TalkRows, TalkArchive, TalkWindow, TalkRequests, Archives!TypeOK,
              TalkMessage, TalkRequest, Archives!Batch
<1>. QED  BY <1>2 DEF TalkInv, TalkWindow, Archives!GoneWasStored, Archives!RecentIsKept,
                      TalkMessage

-----------------------------------------------------------------------------
(* Focus sessions: with one request at a time, a request that starts one   *)
(* still sees none active, and one that ends it still sees it active.      *)

FocusStatus == {"none", "active", "completed", "aborted"}

FocusInv ==
    /\ diaryFocus \in [FocusSession -> FocusStatus]
    /\ diaryRequest \in [{q1} -> [pc : {"idle", "start"}] \cup [pc : {"end"}, f : FocusSession]]
    /\ diaryRequest[q1].pc = "start" => \A f \in FocusSession : diaryFocus[f] # "active"
    /\ diaryRequest[q1].pc = "end" => diaryFocus[diaryRequest[q1].f] = "active"
    /\ \A f, g \in FocusSession : diaryFocus[f] = "active" /\ diaryFocus[g] = "active" => f = g

LEMMA FocusInit == Focused!Init => FocusInv
  BY DEF Focused!Init, Focused!Idle, FocusInv, FocusStatus

LEMMA FocusNext ==
  ASSUME FocusInv, Focused!Next \/ UNCHANGED diaryVars
  PROVE  FocusInv' /\ Focused!FocusEndsOnce
<1>. USE DEF FocusStatus
<1>1. CASE UNCHANGED <<diaryFocus, diaryRequest>>
  BY <1>1 DEF FocusInv, Focused!FocusEndsOnce
<1>2. CASE Focused!LookActive(q1)
  <2>1. /\ diaryFocus' = diaryFocus
        /\ diaryRequest' = [diaryRequest EXCEPT ![q1] = [pc |-> "start"]]
        /\ \A f \in FocusSession : diaryFocus[f] # "active"
    BY <1>2 DEF Focused!LookActive, Focused!Active
  <2>. QED  BY <2>1 DEF FocusInv, Focused!FocusEndsOnce
<1>3. ASSUME NEW f \in FocusSession, Focused!start_focus(q1, f)
      PROVE  FocusInv' /\ Focused!FocusEndsOnce
  <2>1. /\ diaryFocus' = [diaryFocus EXCEPT ![f] = "active"]
        /\ diaryRequest' = [diaryRequest EXCEPT ![q1] = [pc |-> "idle"]]
        /\ diaryFocus[f] = "none" /\ diaryRequest[q1].pc = "start"
    BY <1>3 DEF Focused!start_focus, Focused!At, Focused!Idle
  <2>. QED  BY <2>1 DEF FocusInv, Focused!FocusEndsOnce
<1>4. ASSUME NEW f \in FocusSession, Focused!LookFocus(q1, f)
      PROVE  FocusInv' /\ Focused!FocusEndsOnce
  <2>1. /\ diaryFocus' = diaryFocus /\ diaryFocus[f] = "active"
        /\ diaryRequest' = [diaryRequest EXCEPT ![q1] = [pc |-> "end", f |-> f]]
    BY <1>4 DEF Focused!LookFocus
  <2>. QED  BY <2>1 DEF FocusInv, Focused!FocusEndsOnce
<1>5. ASSUME NEW s \in {"completed", "aborted"}, Focused!_end_focus(q1, s)
      PROVE  FocusInv' /\ Focused!FocusEndsOnce
  <2>. DEFINE g == diaryRequest[q1].f
  <2>1. /\ diaryFocus' = [diaryFocus EXCEPT ![g] = s]
        /\ diaryRequest' = [diaryRequest EXCEPT ![q1] = [pc |-> "idle"]]
        /\ diaryRequest[q1].pc = "end"
    BY <1>5 DEF Focused!_end_focus, Focused!At, Focused!Idle
  <2>2. g \in FocusSession /\ diaryFocus[g] = "active"
    BY <2>1 DEF FocusInv
  <2>. QED  BY <2>1, <2>2 DEF FocusInv, Focused!FocusEndsOnce
<1>6. CASE UNCHANGED diaryVars
  BY <1>1, <1>6 DEF diaryVars
<1>7. CASE Focused!Next
  <2>1. ASSUME NEW s \in 0..0, NEW e \in 0..0, Focused!create_schedule(s, e)
        PROVE  UNCHANGED <<diaryFocus, diaryRequest>>
    BY <2>1 DEF Focused!create_schedule
  <2>2. ASSUME NEW i \in 1..2, Focused!confirm_schedule(i)
        PROVE  UNCHANGED <<diaryFocus, diaryRequest>>
    BY <2>2 DEF Focused!confirm_schedule
  <2>3. ASSUME NEW d, NEW m, Focused!log_time(d, m)
        PROVE  UNCHANGED <<diaryFocus, diaryRequest>>
    BY <2>3 DEF Focused!log_time
  <2>. QED  BY <1>1, <1>2, <1>3, <1>4, <1>5, <1>7, <2>1, <2>2, <2>3 DEF Focused!Next
<1>. QED  BY <1>6, <1>7

\* At most one session is active.
LEMMA FocusPromises ==
  ASSUME FocusInv
  PROVE  Focused!OneFocus
<1>1. Focused!Active = {} \/ \E f : Focused!Active = {f}
  BY DEF FocusInv, Focused!Active
<1>2. Cardinality(Focused!Active) = 0 \/ Cardinality(Focused!Active) = 1
  BY <1>1, FS_EmptySet, FS_Singleton
<1>3. Focused!Cardinality(Focused!Active) = Cardinality(Focused!Active)
  BY DEF Focused!Cardinality, Cardinality
<1>. QED  BY <1>2, <1>3 DEF Focused!OneFocus

-----------------------------------------------------------------------------
(* Projects: what was loaded before it is saved is never ahead of the row, *)
(* so a save that writes what differs brings nothing back.                 *)

ProjectRow == [status : {"none", "active", "archived"}, name : ProjectName \cup {"none"},
               archived_at : 0..MaxProjectClock]
ProjectAsking == [stage : {"idle", "loaded", "done", "refused"},
                  kind : {"none", "update", "archive", "card"},
                  by : ProjectPerson \cup {"none"}, of : ProjectId \cup {"none"},
                  name : ProjectName \cup {"none"}, loaded : ProjectRow]

ProjectTyped == /\ project \in [ProjectId -> ProjectRow]
                /\ projectRequest \in [ProjectRequest -> ProjectAsking]
                /\ projectClock \in 1..MaxProjectClock

\* What a request stands for once it has loaded its project.
ProjectStands(q) ==
    q.stage # "idle" =>
       /\ q.of \in ProjectId /\ q.name \in ProjectName /\ q.kind # "none"
       /\ project[q.of].status # "none" /\ q.loaded.status # "none"
       /\ q.loaded.status = "archived" => project[q.of].status = "archived"
       /\ q.loaded.status = "active" => q.loaded.archived_at = 0
       /\ q.stage # "refused" => q.by = ProjectOwner[q.of]

ProjectInv == /\ ProjectTyped
              /\ \A q \in ProjectRequest : ProjectStands(projectRequest[q])
              /\ Projects!ArchivedForGood
              /\ Projects!NamesAreKept

LEMMA ProjectBounds == MaxProjectClock \in Nat \ {0}
  BY ScenesAssumption DEF ScenesAssumption, Projects!ProjectsAssumption

\* A save writes the columns that were changed and leaves the others.
LEMMA ProjectWrites ==
  ASSUME NEW l \in ProjectRow, NEW n \in ProjectRow, NEW c \in ProjectRow
  PROVE  Projects!Written(l, n, c) =
            [status |-> IF n.status # l.status THEN n.status ELSE c.status,
             name |-> IF n.name # l.name THEN n.name ELSE c.name,
             archived_at |-> IF n.archived_at # l.archived_at THEN n.archived_at
                             ELSE c.archived_at]
  BY DEF Projects!Written, ProjectRow

\* What a request that is answered leaves of the other requests.
LEMMA ProjectAnswers ==
  ASSUME ProjectInv, NEW q \in ProjectRequest, projectRequest[q].stage = "loaded",
         NEW s \in {"done", "refused"}, Projects!Answer(q, s)
  PROVE  /\ projectRequest' \in [ProjectRequest -> ProjectAsking]
         /\ projectRequest'[q] = [projectRequest[q] EXCEPT !.stage = s]
         /\ projectRequest'[q].stage = s /\ projectRequest'[q].kind = projectRequest[q].kind
         /\ projectRequest'[q].by = projectRequest[q].by
         /\ projectRequest'[q].of = projectRequest[q].of
         /\ projectRequest'[q].name = projectRequest[q].name
         /\ projectRequest'[q].loaded = projectRequest[q].loaded
         /\ \A r \in ProjectRequest \ {q} : projectRequest'[r] = projectRequest[r]
<1>1. projectRequest[q] \in ProjectAsking
  BY DEF ProjectInv, ProjectTyped
<1>2. [projectRequest[q] EXCEPT !.stage = s] \in ProjectAsking
  BY <1>1 DEF ProjectAsking
<1>3. projectRequest' = [projectRequest EXCEPT ![q] = [projectRequest[q] EXCEPT !.stage = s]]
  BY DEF Projects!Answer
<1>4. projectRequest \in [ProjectRequest -> ProjectAsking]
  BY DEF ProjectInv, ProjectTyped
<1>5. projectRequest'[q] = [projectRequest[q] EXCEPT !.stage = s]
  BY <1>3, <1>4
<1>6. /\ [projectRequest[q] EXCEPT !.stage = s].stage = s
      /\ [projectRequest[q] EXCEPT !.stage = s].kind = projectRequest[q].kind
      /\ [projectRequest[q] EXCEPT !.stage = s].by = projectRequest[q].by
      /\ [projectRequest[q] EXCEPT !.stage = s].of = projectRequest[q].of
      /\ [projectRequest[q] EXCEPT !.stage = s].name = projectRequest[q].name
      /\ [projectRequest[q] EXCEPT !.stage = s].loaded = projectRequest[q].loaded
  BY <1>1 DEF ProjectAsking
<1>. QED  BY <1>2, <1>3, <1>4, <1>5, <1>6

LEMMA ProjectInit == Projects!Init => ProjectInv
<1>. SUFFICES ASSUME Projects!Init PROVE ProjectInv
  OBVIOUS
<1>1. Projects!None \in ProjectRow
  BY ProjectBounds DEF Projects!None, ProjectRow
<1>2. Projects!Idle \in ProjectAsking /\ Projects!Idle.stage = "idle"
  BY <1>1 DEF Projects!Idle, ProjectAsking
<1>3. ProjectTyped
  BY <1>1, <1>2, ProjectBounds DEF Projects!Init, ProjectTyped
<1>4. \A q \in ProjectRequest : projectRequest[q].stage = "idle"
  BY <1>2 DEF Projects!Init
<1>5. \A p \in ProjectId : project[p].status = "none" /\ project[p].archived_at = 0
  BY DEF Projects!Init, Projects!None
<1>6. projectCard = {}
  BY DEF Projects!Init
<1>. QED  BY <1>3, <1>4, <1>5, <1>6
          DEF ProjectInv, ProjectStands, Projects!ArchivedForGood, Projects!NamesAreKept,
              Projects!Told

\* A project is created once, before any request loads it.
LEMMA ProjectCreates ==
  ASSUME ProjectInv, NEW p \in ProjectId, NEW n \in ProjectName, Projects!create(p, n)
  PROVE  ProjectInv'
<1>. DEFINE new == [status |-> "active", name |-> n, archived_at |-> 0]
<1>1. /\ project[p].status = "none" /\ project' = [project EXCEPT ![p] = new]
      /\ projectRequest' = projectRequest /\ projectCard' = projectCard
      /\ projectClock' = projectClock
  BY DEF Projects!create
<1>2. new \in ProjectRow /\ new.status = "active" /\ new.archived_at = 0
  BY ProjectBounds DEF ProjectRow
<1>. HIDE DEF new
<1>3. \A q \in ProjectRequest : projectRequest[q].stage # "idle" => projectRequest[q].of # p
  BY <1>1 DEF ProjectInv, ProjectStands
<1>4. project \in [ProjectId -> ProjectRow] /\ project' \in [ProjectId -> ProjectRow]
  BY <1>1, <1>2 DEF ProjectInv, ProjectTyped
<1>5. project'[p] = new /\ \A r \in ProjectId \ {p} : project'[r] = project[r]
  BY <1>1, <1>4
<1>6. ProjectTyped'
  BY <1>1, <1>4 DEF ProjectInv, ProjectTyped
<1>7. \A q \in ProjectRequest : ProjectStands(projectRequest[q])'
  BY <1>1, <1>3, <1>5 DEF ProjectInv, ProjectStands
<1>8. Projects!ArchivedForGood'
  BY <1>1, <1>2, <1>3, <1>5
     DEF ProjectInv, ProjectStands, Projects!ArchivedForGood, Projects!Told
<1>9. Projects!NamesAreKept'
  <2>1. \A q \in ProjectRequest : Projects!Told(q, "update") =>
           projectRequest[q].of \in ProjectId \ {p}
    BY <1>3 DEF ProjectInv, ProjectStands, Projects!Told
  <2>. QED  BY <1>1, <1>5, <2>1 DEF ProjectInv, Projects!NamesAreKept, Projects!Told
<1>. QED  BY <1>6, <1>7, <1>8, <1>9 DEF ProjectInv

\* A request loads the project as it is.
LEMMA ProjectLoads ==
  ASSUME ProjectInv, NEW q \in ProjectRequest, NEW k \in {"update", "archive", "card"},
         NEW by \in ProjectPerson, NEW p \in ProjectId, NEW n \in ProjectName,
         Projects!_load(q, k, by, p, n)
  PROVE  ProjectInv'
<1>. DEFINE new == [stage |-> IF ProjectOwner[p] = by THEN "loaded" ELSE "refused",
                    kind |-> k, by |-> by, of |-> p, name |-> n, loaded |-> project[p]]
<1>1. /\ projectRequest[q].stage = "idle" /\ project[p].status # "none"
      /\ projectRequest' = [projectRequest EXCEPT ![q] = new]
      /\ project' = project /\ projectCard' = projectCard /\ projectClock' = projectClock
  BY DEF Projects!_load
<1>2. project[p] \in ProjectRow
  BY DEF ProjectInv, ProjectTyped
<1>3. new \in ProjectAsking
  BY <1>2 DEF ProjectAsking
<1>4. project[p].status = "active" => project[p].archived_at = 0
  BY DEF ProjectInv, Projects!ArchivedForGood
<1>5. ProjectStands(new) /\ new.stage # "done"
  BY <1>1, <1>4 DEF ProjectStands
<1>. HIDE DEF new
<1>6. projectRequest \in [ProjectRequest -> ProjectAsking]
  BY DEF ProjectInv, ProjectTyped
<1>7. /\ projectRequest'[q] = new
      /\ \A r \in ProjectRequest \ {q} : projectRequest'[r] = projectRequest[r]
  BY <1>1, <1>6
<1>8. ProjectTyped'
  BY <1>1, <1>3, <1>6 DEF ProjectInv, ProjectTyped
<1>9. \A r \in ProjectRequest : ProjectStands(projectRequest[r])'
  BY <1>1, <1>5, <1>7 DEF ProjectInv, ProjectStands
<1>10. \A r \in ProjectRequest : \A kind : Projects!Told(r, kind)' <=> Projects!Told(r, kind)
  BY <1>1, <1>5, <1>7 DEF Projects!Told
<1>11. \A r \in ProjectRequest : \A kind : Projects!Told(r, kind) => r # q
  BY <1>1 DEF Projects!Told
<1>12. Projects!ArchivedForGood'
  BY <1>1, <1>7, <1>10, <1>11 DEF ProjectInv, Projects!ArchivedForGood
<1>13. Projects!NamesAreKept'
  BY <1>1, <1>7, <1>10, <1>11 DEF ProjectInv, Projects!NamesAreKept
<1>. QED  BY <1>8, <1>9, <1>12, <1>13 DEF ProjectInv

\* What was archived when it was loaded is refused, and nothing is written.
LEMMA ProjectRefuses ==
  ASSUME ProjectInv, NEW q \in ProjectRequest, projectRequest[q].stage = "loaded",
         Projects!Answer(q, "refused"), UNCHANGED <<project, projectCard, projectClock>>
  PROVE  ProjectInv'
<1>1. /\ projectRequest' \in [ProjectRequest -> ProjectAsking]
      /\ projectRequest'[q].stage = "refused" /\ projectRequest'[q].kind = projectRequest[q].kind
      /\ projectRequest'[q].of = projectRequest[q].of
      /\ projectRequest'[q].name = projectRequest[q].name
      /\ projectRequest'[q].loaded = projectRequest[q].loaded
      /\ \A r \in ProjectRequest \ {q} : projectRequest'[r] = projectRequest[r]
  BY ProjectAnswers
<1>2. ProjectTyped'
  BY <1>1 DEF ProjectInv, ProjectTyped
<1>3. \A r \in ProjectRequest : ProjectStands(projectRequest[r])'
  BY <1>1 DEF ProjectInv, ProjectStands
<1>4. \A r \in ProjectRequest : \A kind : Projects!Told(r, kind)' <=> Projects!Told(r, kind)
  BY <1>1 DEF Projects!Told
<1>5. \A r \in ProjectRequest : \A kind : Projects!Told(r, kind) => r # q
  BY DEF Projects!Told
<1>6. Projects!ArchivedForGood'
  BY <1>1, <1>4, <1>5 DEF ProjectInv, Projects!ArchivedForGood
<1>7. Projects!NamesAreKept'
  BY <1>1, <1>4, <1>5 DEF ProjectInv, Projects!NamesAreKept
<1>. QED  BY <1>2, <1>3, <1>6, <1>7 DEF ProjectInv

\* A new name replaces the one there is, and leaves the status and its time alone.
LEMMA ProjectRenames ==
  ASSUME ProjectInv, NEW q \in ProjectRequest, Projects!update(q)
  PROVE  ProjectInv'
<1>. DEFINE old0 == projectRequest[q].loaded
            p == projectRequest[q].of
            new == [old0 EXCEPT !.name = projectRequest[q].name]
<1>1. /\ projectRequest[q].stage = "loaded" /\ projectRequest[q].kind = "update"
      /\ projectCard' = projectCard /\ projectClock' = projectClock
  BY DEF Projects!update, Projects!Ready
<1>2. CASE old0.status = "archived"
  <2>1. Projects!Answer(q, "refused") /\ project' = project
    BY <1>2 DEF Projects!update
  <2>. QED  BY <1>1, <2>1, ProjectRefuses
<1>3. CASE old0.status # "archived"
  <2>1. /\ project' = [project EXCEPT ![p] = Projects!Written(old0, new, project[p])]
        /\ Projects!Answer(q, "done")
    BY <1>3 DEF Projects!update, Projects!save
  <2>2. /\ projectRequest' \in [ProjectRequest -> ProjectAsking]
        /\ projectRequest'[q].stage = "done" /\ projectRequest'[q].kind = "update"
        /\ projectRequest'[q].by = projectRequest[q].by
        /\ projectRequest'[q].of = projectRequest[q].of
        /\ projectRequest'[q].name = projectRequest[q].name
        /\ projectRequest'[q].loaded = projectRequest[q].loaded
        /\ \A r \in ProjectRequest \ {q} : projectRequest'[r] = projectRequest[r]
    BY <1>1, <2>1, ProjectAnswers
  <2>3. p \in ProjectId /\ projectRequest[q].name \in ProjectName
    BY <1>1 DEF ProjectInv, ProjectStands
  <2>4. old0 \in ProjectRow /\ project[p] \in ProjectRow
    <3>1. projectRequest[q] \in ProjectAsking
      BY DEF ProjectInv, ProjectTyped
    <3>. QED  BY <2>3, <3>1 DEF ProjectInv, ProjectTyped, ProjectAsking
  <2>5. /\ new \in ProjectRow /\ new.status = old0.status
        /\ new.archived_at = old0.archived_at /\ new.name = projectRequest[q].name
    BY <2>3, <2>4 DEF ProjectRow
  <2>. DEFINE row == Projects!Written(old0, new, project[p])
  <2>6. row = [status |-> project[p].status,
               name |-> IF projectRequest[q].name # old0.name THEN projectRequest[q].name
                        ELSE project[p].name,
               archived_at |-> project[p].archived_at]
    <3>. HIDE DEF old0, p, new
    <3>. QED  BY <2>4, <2>5, ProjectWrites
  <2>7. /\ row \in ProjectRow /\ row.status = project[p].status
        /\ row.archived_at = project[p].archived_at
        /\ row.name = projectRequest[q].name
           \/ (row.name = project[p].name /\ projectRequest[q].name = old0.name)
    BY <2>3, <2>4, <2>6 DEF ProjectRow
  <2>8. /\ project' \in [ProjectId -> ProjectRow] /\ project'[p] = row
        /\ \A r \in ProjectId \ {p} : project'[r] = project[r]
    BY <2>1, <2>3, <2>7 DEF ProjectInv, ProjectTyped
  <2>. HIDE DEF row, new
  <2>9. \A r \in ProjectId : /\ project'[r].status = project[r].status
                             /\ project'[r].archived_at = project[r].archived_at
    BY <2>7, <2>8
  <2>10. ProjectTyped'
    BY <1>1, <2>2, <2>8 DEF ProjectInv, ProjectTyped
  <2>11. \A r \in ProjectRequest : ProjectStands(projectRequest[r])'
    BY <1>1, <2>2, <2>9 DEF ProjectInv, ProjectStands
  <2>12. \A r \in ProjectRequest :
            Projects!Told(r, "archive")' <=> Projects!Told(r, "archive") /\ r # q
    BY <1>1, <2>2 DEF Projects!Told
  <2>13. \A r \in ProjectRequest : Projects!Told(r, "archive") => r # q
    BY <1>1 DEF Projects!Told
  <2>14. Projects!ArchivedForGood'
    BY <1>1, <2>2, <2>9, <2>12, <2>13 DEF ProjectInv, Projects!ArchivedForGood
  <2>15. \A r \in ProjectRequest :
            Projects!Told(r, "update")' <=> Projects!Told(r, "update") \/ r = q
    BY <1>1, <2>2 DEF Projects!Told
  <2>16. \A r \in ProjectRequest : Projects!Told(r, "update") =>
            r # q /\ projectRequest[r].of \in ProjectId
    BY <1>1 DEF ProjectInv, ProjectStands, Projects!Told
  <2>17. Projects!NamesAreKept'
    <3>1. ASSUME NEW r \in ProjectRequest, Projects!Told(r, "update")'
          PROVE  \/ project'[projectRequest'[r].of].name = projectRequest'[r].name
                 \/ \E t \in ProjectRequest :
                       /\ Projects!Told(t, "update")'
                       /\ projectRequest'[t].of = projectRequest'[r].of
                       /\ projectRequest'[t].name = project'[projectRequest'[r].of].name
                 \/ projectRequest'[r].name = projectRequest'[r].loaded.name
      <4>1. CASE r = q
        BY <2>2, <2>7, <2>8, <4>1
      <4>2. CASE r # q /\ projectRequest[r].of # p
        BY <2>2, <2>8, <2>15, <2>16, <3>1, <4>2 DEF ProjectInv, Projects!NamesAreKept
      <4>3. CASE r # q /\ projectRequest[r].of = p
        <5>1. CASE row.name = projectRequest[q].name
          BY <2>2, <2>8, <2>15, <4>3, <5>1
        <5>2. CASE row.name = project[p].name
          BY <2>2, <2>8, <2>15, <2>16, <3>1, <4>3, <5>2
             DEF ProjectInv, Projects!NamesAreKept
        <5>. QED  BY <2>7, <5>1, <5>2
      <4>. QED  BY <4>1, <4>2, <4>3
    <3>. QED  BY <1>1, <3>1 DEF ProjectInv, Projects!NamesAreKept
  <2>. QED  BY <2>10, <2>11, <2>14, <2>17 DEF ProjectInv
<1>. QED  BY <1>2, <1>3

\* A project is archived, with its time, and keeps its name.
LEMMA ProjectArchives ==
  ASSUME ProjectInv, NEW q \in ProjectRequest, Projects!archive(q)
  PROVE  ProjectInv'
<1>. DEFINE old0 == projectRequest[q].loaded
            p == projectRequest[q].of
            new == [old0 EXCEPT !.status = "archived", !.archived_at = projectClock]
<1>1. /\ projectRequest[q].stage = "loaded" /\ projectRequest[q].kind = "archive"
      /\ projectCard' = projectCard /\ projectClock' = projectClock
  BY DEF Projects!archive, Projects!Ready
<1>2. CASE old0.status = "archived"
  <2>1. Projects!Answer(q, "refused") /\ project' = project
    BY <1>2 DEF Projects!archive
  <2>. QED  BY <1>1, <2>1, ProjectRefuses
<1>3. CASE old0.status # "archived"
  <2>1. /\ project' = [project EXCEPT ![p] = Projects!Written(old0, new, project[p])]
        /\ Projects!Answer(q, "done")
    BY <1>3 DEF Projects!archive, Projects!save
  <2>2. /\ projectRequest' \in [ProjectRequest -> ProjectAsking]
        /\ projectRequest'[q].stage = "done" /\ projectRequest'[q].kind = "archive"
        /\ projectRequest'[q].by = projectRequest[q].by
        /\ projectRequest'[q].of = projectRequest[q].of
        /\ projectRequest'[q].name = projectRequest[q].name
        /\ projectRequest'[q].loaded = projectRequest[q].loaded
        /\ \A r \in ProjectRequest \ {q} : projectRequest'[r] = projectRequest[r]
    BY <1>1, <2>1, ProjectAnswers
  <2>3. p \in ProjectId /\ projectRequest[q].by = ProjectOwner[p] /\ old0.status # "none"
        /\ (old0.status = "active" => old0.archived_at = 0)
    BY <1>1 DEF ProjectInv, ProjectStands
  <2>4. old0 \in ProjectRow /\ project[p] \in ProjectRow
    <3>1. projectRequest[q] \in ProjectAsking
      BY DEF ProjectInv, ProjectTyped
    <3>. QED  BY <2>3, <3>1 DEF ProjectInv, ProjectTyped, ProjectAsking
  <2>5. projectClock \in 1..MaxProjectClock /\ projectClock \in 0..MaxProjectClock
        /\ projectClock # 0
    BY ProjectBounds DEF ProjectInv, ProjectTyped
  <2>6. old0.archived_at = 0
    BY <1>3, <2>3, <2>4 DEF ProjectRow
  <2>7. /\ new \in ProjectRow /\ new.status = "archived"
        /\ new.archived_at = projectClock /\ new.name = old0.name
    BY <2>4, <2>5 DEF ProjectRow
  <2>. DEFINE row == Projects!Written(old0, new, project[p])
  <2>8. row = [status |-> "archived", name |-> project[p].name, archived_at |-> projectClock]
    <3>1. new.status # old0.status /\ new.archived_at # old0.archived_at
      BY <1>3, <2>5, <2>6, <2>7
    <3>. HIDE DEF old0, p, new
    <3>. QED  BY <2>4, <2>7, <3>1, ProjectWrites
  <2>9. /\ row \in ProjectRow /\ row.status = "archived"
        /\ row.archived_at = projectClock /\ row.name = project[p].name
    BY <2>4, <2>5, <2>8 DEF ProjectRow
  <2>10. /\ project' \in [ProjectId -> ProjectRow] /\ project'[p] = row
         /\ \A r \in ProjectId \ {p} : project'[r] = project[r]
    BY <2>1, <2>3, <2>9 DEF ProjectInv, ProjectTyped
  <2>. HIDE DEF row, new
  <2>11. \A r \in ProjectId : project'[r].name = project[r].name
    BY <2>9, <2>10
  <2>12. ProjectTyped'
    BY <1>1, <2>2, <2>10 DEF ProjectInv, ProjectTyped
  <2>13. \A r \in ProjectRequest : ProjectStands(projectRequest[r])'
    <3>1. \A r \in ProjectRequest : projectRequest[r].stage # "idle" =>
             /\ project'[projectRequest[r].of].status # "none"
             /\ projectRequest[r].loaded.status = "archived" =>
                   project'[projectRequest[r].of].status = "archived"
      BY <2>9, <2>10 DEF ProjectInv, ProjectStands
    <3>. QED  BY <1>1, <2>2, <3>1 DEF ProjectInv, ProjectStands
  <2>14. \A r \in ProjectRequest :
            Projects!Told(r, "archive")' <=> Projects!Told(r, "archive") \/ r = q
    BY <1>1, <2>2 DEF Projects!Told
  <2>15. \A r \in ProjectRequest : \A kind : Projects!Told(r, kind) =>
            r # q /\ projectRequest[r].of \in ProjectId
    BY <1>1 DEF ProjectInv, ProjectStands, Projects!Told
  <2>16. Projects!ArchivedForGood'
    <3>1. ASSUME NEW r \in ProjectId
          PROVE  /\ (project'[r].status = "archived") <=>
                       \E t \in ProjectRequest : /\ Projects!Told(t, "archive")'
                                                 /\ projectRequest'[t].of = r
                 /\ (project'[r].status = "archived") <=> (project'[r].archived_at # 0)
      <4>1. CASE r = p
        BY <2>2, <2>5, <2>9, <2>10, <2>14, <4>1
      <4>2. CASE r # p
        <5>1. project'[r] = project[r]
          BY <2>10, <4>2
        <5>2. \A t \in ProjectRequest :
                 Projects!Told(t, "archive")' /\ projectRequest'[t].of = r
                 <=> Projects!Told(t, "archive") /\ projectRequest[t].of = r
          BY <2>2, <2>14, <2>15, <4>2
        <5>. QED  BY <5>1, <5>2 DEF ProjectInv, Projects!ArchivedForGood
      <4>. QED  BY <4>1, <4>2
    <3>2. ASSUME NEW r \in ProjectId, NEW t \in ProjectRequest,
                 Projects!Told(t, "archive")', projectRequest'[t].of = r
          PROVE  projectRequest'[t].by = ProjectOwner[r]
      BY <2>2, <2>3, <2>14, <2>15, <3>2 DEF ProjectInv, Projects!ArchivedForGood
    <3>. QED  BY <3>1, <3>2 DEF Projects!ArchivedForGood
  <2>17. \A r \in ProjectRequest :
            Projects!Told(r, "update")' <=> Projects!Told(r, "update")
    BY <1>1, <2>2 DEF Projects!Told
  <2>18. Projects!NamesAreKept'
    BY <1>1, <2>2, <2>11, <2>15, <2>17 DEF ProjectInv, Projects!NamesAreKept
  <2>. QED  BY <2>12, <2>13, <2>16, <2>18 DEF ProjectInv
<1>. QED  BY <1>2, <1>3

\* A card is tied to a project of its person.
LEMMA ProjectTies ==
  ASSUME ProjectInv, NEW q \in ProjectRequest, Projects!create_task(q)
  PROVE  ProjectInv'
<1>. DEFINE tied == [by |-> projectRequest[q].by, of |-> projectRequest[q].of,
                     late |-> project[projectRequest[q].of].status = "archived"]
<1>1. /\ projectRequest[q].stage = "loaded" /\ projectRequest[q].kind = "card"
      /\ projectCard' = projectCard \cup {tied}
      /\ Projects!Answer(q, "done") /\ project' = project /\ projectClock' = projectClock
  BY DEF Projects!create_task, Projects!Ready
<1>2. /\ projectRequest' \in [ProjectRequest -> ProjectAsking]
      /\ projectRequest'[q].stage = "done" /\ projectRequest'[q].kind = "card"
      /\ projectRequest'[q].by = projectRequest[q].by
      /\ projectRequest'[q].of = projectRequest[q].of
      /\ projectRequest'[q].name = projectRequest[q].name
      /\ projectRequest'[q].loaded = projectRequest[q].loaded
      /\ \A r \in ProjectRequest \ {q} : projectRequest'[r] = projectRequest[r]
  BY <1>1, ProjectAnswers
<1>3. tied.by = projectRequest[q].by /\ tied.of = projectRequest[q].of
  OBVIOUS
<1>. HIDE DEF tied
<1>4. ProjectOwner[tied.of] = tied.by
  BY <1>1, <1>3 DEF ProjectInv, ProjectStands
<1>5. ProjectTyped'
  BY <1>1, <1>2 DEF ProjectInv, ProjectTyped
<1>6. \A r \in ProjectRequest : ProjectStands(projectRequest[r])'
  BY <1>1, <1>2 DEF ProjectInv, ProjectStands
<1>7. \A r \in ProjectRequest, kind \in {"update", "archive"} :
         Projects!Told(r, kind)' <=> Projects!Told(r, kind)
  BY <1>1, <1>2 DEF Projects!Told
<1>8. \A r \in ProjectRequest : \A kind : Projects!Told(r, kind) => r # q
  BY <1>1 DEF Projects!Told
<1>9. Projects!ArchivedForGood'
  BY <1>1, <1>2, <1>7, <1>8 DEF ProjectInv, Projects!ArchivedForGood
<1>10. Projects!NamesAreKept'
  BY <1>1, <1>2, <1>4, <1>7, <1>8 DEF ProjectInv, Projects!NamesAreKept
<1>. QED  BY <1>5, <1>6, <1>9, <1>10 DEF ProjectInv

LEMMA ProjectNext ==
  ASSUME ProjectInv, Projects!Next \/ UNCHANGED projectVars
  PROVE  ProjectInv'
<1>1. ASSUME UNCHANGED <<project, projectRequest, projectCard>>,
             projectClock' \in 1..MaxProjectClock
      PROVE  ProjectInv'
  BY <1>1 DEF ProjectInv, ProjectTyped, ProjectStands, Projects!ArchivedForGood,
              Projects!NamesAreKept, Projects!Told
<1>2. CASE UNCHANGED projectVars
  BY <1>1, <1>2 DEF projectVars, ProjectInv, ProjectTyped
<1>3. CASE Projects!Tick
  BY <1>1, <1>3, ProjectBounds DEF Projects!Tick, ProjectInv, ProjectTyped
<1>. QED  BY <1>2, <1>3, ProjectCreates, ProjectLoads, ProjectRenames, ProjectArchives,
             ProjectTies DEF Projects!Next

\* What the invariant says to the owner of a project.
LEMMA ProjectPromises ==
  ASSUME ProjectInv
  PROVE  Projects!TypeOK /\ Projects!ArchivedForGood /\ Projects!NamesAreKept
<1>1. \A p \in ProjectId : /\ project[p].status \in {"none", "active", "archived"}
                           /\ project[p].archived_at \in 0..MaxProjectClock
  BY DEF ProjectInv, ProjectTyped, ProjectRow
<1>2. \A q \in ProjectRequest : projectRequest[q].stage \in {"idle", "loaded", "done", "refused"}
  BY DEF ProjectInv, ProjectTyped, ProjectAsking
<1>. QED  BY <1>1, <1>2 DEF ProjectInv, ProjectTyped, Projects!TypeOK

-----------------------------------------------------------------------------
(* Task cards beside their run: while people only decide and no step fails *)
(* a card says what its step says, and a decision that is on its way was   *)
(* made on the step as it is.                                              *)

CardStatus == Cards!CardStatus
CardStep0 == [status : Cards!StepStatus, version : Nat]

CardTyped ==
    /\ cardRow \in [CardStep -> CardStep0]
    /\ cardRun \in Cards!StepStatus /\ cardAdvance \in BOOLEAN /\ cardQueue \subseteq CardStep
    /\ card \in [Cards!Card -> CardStatus] /\ cardSeen \in [CardStep -> Nat]
    /\ cardDecisions \subseteq Cards!Decision /\ cardApproved \subseteq Cards!Card
    /\ cardRequest = FALSE /\ cardHands = {} /\ cardInRequest = {}
    /\ cardFaults = 0 /\ cardManual = 0

\* A card says what its step says; it is ahead of its step while a rejection is on its way.
CardSays(s) ==
    \/ cardRow[s].status = "queued" /\ card[s] = "created"
    \/ cardRow[s].status = "running" /\ card[s] = "executing"
    \/ cardRow[s].status = "waiting_human" /\ card[s] = "reported"
    \/ /\ cardRow[s].status = "waiting_human" /\ card[s] = "rejected"
       /\ \E d \in cardDecisions : d.step = s
    \/ cardRow[s].status = "succeeded" /\ card[s] = "accepted"
    \/ cardRow[s].status = "failed" /\ card[s] = "rejected"

\* A person decides on the step as it is, and a rejection is of a step that still waits.
CardSeen(s) == cardRow[s].status = "waiting_human" => cardSeen[s] = cardRow[s].version
CardDecided(d) ==
    IF d.to = "accepted" THEN cardRow[d.step].status = "succeeded"
    ELSE /\ card[d.step] = "rejected"
         /\ cardRow[d.step].status = "waiting_human" => d.version = cardRow[d.step].version

CardInv == /\ CardTyped
           /\ \A s \in CardStep : CardSays(s) /\ CardSeen(s)
           /\ \A d \in cardDecisions : CardDecided(d)

LEMMA CardBounds == /\ parent \notin CardStep /\ CardRedLine \subseteq CardStep
                    /\ Cards!Card = CardStep \cup {parent}
  BY ScenesAssumption DEF Cards!CardsParentAssumption, Cards!CardsRedLineAssumption, Cards!Card

\* What the run's status does to the cards: only the parent's moves.
LEMMA CardRefreshes ==
  ASSUME NEW st, NEW cards \in [Cards!Card -> CardStatus], Cards!Refreshed(st, cards)
  PROVE  /\ cardRun' \in Cards!StepStatus
         /\ card' \in [Cards!Card -> CardStatus]
         /\ \A s \in CardStep : card'[s] = cards[s]
<1>1. cardRun' \in Cards!StepStatus
  <2>1. cardRun' = Cards!DeriveRunStatus(st)
    BY DEF Cards!Refreshed
  <2>. QED  BY <2>1 DEF Cards!DeriveRunStatus, Cards!StepStatus
<1>2. \A status, c \in CardStatus : Cards!OnRunStatus(status, c) \in CardStatus
  BY DEF Cards!OnRunStatus, Cards!Driven, CardStatus, Cards!CardStatus
<1>3. Cards!OnRunStatus(cardRun', cards[parent]) \in CardStatus
  BY CardBounds DEF Cards!OnRunStatus, Cards!Driven, CardStatus, Cards!CardStatus
<1>4. \/ card' = cards
      \/ card' = [cards EXCEPT ![parent] = Cards!OnRunStatus(cardRun', cards[parent])]
  BY CardBounds DEF Cards!Refreshed
<1>. QED  BY <1>1, <1>3, <1>4, CardBounds

\* A step that moves, with its card.
LEMMA CardMoves ==
  ASSUME CardInv, CardTyped', NEW s \in CardStep,
         \A t \in CardStep : t # s => /\ cardRow'[t] = cardRow[t] /\ card'[t] = card[t]
                                      /\ cardSeen'[t] = cardSeen[t],
         \A d \in cardDecisions \cup cardDecisions' : d.step # s =>
              (d \in cardDecisions <=> d \in cardDecisions'),
         CardSays(s)', CardSeen(s)',
         \A d \in cardDecisions' : d.step = s => CardDecided(d)'
  PROVE  CardInv'
<1>1. \A t \in CardStep : CardSays(t)' /\ CardSeen(t)'
  <2>. SUFFICES ASSUME NEW t \in CardStep, t # s PROVE CardSays(t)' /\ CardSeen(t)'
    OBVIOUS
  <2>1. \A d \in cardDecisions : d.step = t => d \in cardDecisions'
    OBVIOUS
  <2>. QED  BY <2>1 DEF CardInv, CardSays, CardSeen
<1>2. \A d \in cardDecisions' : CardDecided(d)'
  <2>. SUFFICES ASSUME NEW d \in cardDecisions', d.step # s PROVE CardDecided(d)'
    OBVIOUS
  <2>1. d \in cardDecisions /\ d.step \in CardStep
    BY DEF CardTyped, Cards!Decision
  <2>. QED  BY <2>1 DEF CardInv, CardDecided
<1>. QED  BY <1>1, <1>2 DEF CardInv

LEMMA CardInit == Cards!Init => CardInv
<1>. SUFFICES ASSUME Cards!Init PROVE CardInv
  OBVIOUS
<1>1. CardTyped
  BY DEF Cards!Init, CardTyped, CardStep0, CardStatus, Cards!StepStatus, Cards!CardStatus
<1>2. \A s \in CardStep : CardSays(s) /\ CardSeen(s)
  BY CardBounds DEF Cards!Init, CardSays, CardSeen
<1>. QED  BY <1>1, <1>2 DEF CardInv, Cards!Init

\* What a step becomes when it moves, and what the card of a step says.
LEMMA CardReads ==
  ASSUME CardInv
  PROVE  /\ CardTyped
         /\ \A s \in CardStep :
              /\ cardRow[s] \in CardStep0 /\ cardRow[s].version \in Nat
              /\ CardSays(s) /\ CardSeen(s) /\ s \in Cards!Card /\ s # parent
         /\ \A s \in CardStep, status \in Cards!StepStatus :
              /\ Cards!Moved(s, status) \in [CardStep -> CardStep0]
              /\ Cards!Moved(s, status)[s].status = status
              /\ Cards!Moved(s, status)[s].version = cardRow[s].version + 1
              /\ \A t \in CardStep : t # s => Cards!Moved(s, status)[t] = cardRow[t]
<1>1. CardTyped /\ \A s \in CardStep : cardRow[s] \in CardStep0 /\ cardRow[s].version \in Nat
  BY DEF CardInv, CardTyped, CardStep0
<1>2. ASSUME NEW s \in CardStep, NEW status \in Cards!StepStatus
      PROVE  [status |-> status, version |-> cardRow[s].version + 1] \in CardStep0
  BY <1>1, <1>2 DEF CardStep0
<1>3. \A s \in CardStep, status \in Cards!StepStatus :
        Cards!Moved(s, status) =
          [cardRow EXCEPT ![s] = [status |-> status, version |-> cardRow[s].version + 1]]
  BY <1>1 DEF Cards!Moved, CardTyped
<1>4. cardRow \in [CardStep -> CardStep0]
  BY <1>1 DEF CardTyped
<1>5. \A s \in CardStep, status \in Cards!StepStatus :
        /\ Cards!Moved(s, status) \in [CardStep -> CardStep0]
        /\ Cards!Moved(s, status)[s].status = status
        /\ Cards!Moved(s, status)[s].version = cardRow[s].version + 1
        /\ \A t \in CardStep : t # s => Cards!Moved(s, status)[t] = cardRow[t]
  BY <1>2, <1>3, <1>4
<1>. QED  BY <1>1, <1>5, CardBounds DEF CardInv

\* The run is looked at, or a step is claimed or completed.
LEMMA CardRuns ==
  ASSUME CardInv,
         \/ Cards!Advance
         \/ \E s \in CardStep : \/ Cards!Claim(s) \/ Cards!Exhaust(s)
                                \/ \E ok \in BOOLEAN : Cards!Complete(s, ok)
  PROVE  CardInv'
<1>. USE DEF Cards!StepStatus, CardStatus, Cards!CardStatus
<1>1. CardTyped
  BY CardReads
<1>2. CASE Cards!Advance
  <2>1. /\ Cards!Refreshed(cardRow, card) /\ cardAdvance' = FALSE
        /\ cardQueue' \subseteq CardStep
        /\ UNCHANGED <<cardRow, cardSeen, cardDecisions, cardApproved>>
        /\ UNCHANGED <<cardRequest, cardHands, cardInRequest, cardFaults, cardManual>>
    BY <1>1, <1>2 DEF Cards!Advance, Cards!ReadySteps, CardTyped
  <2>2. /\ cardRun' \in Cards!StepStatus /\ card' \in [Cards!Card -> CardStatus]
        /\ \A s \in CardStep : card'[s] = card[s]
    BY <1>1, <2>1, CardRefreshes DEF CardTyped
  <2>3. CardTyped'
    BY <1>1, <2>1, <2>2 DEF CardTyped
  <2>4. \A s \in CardStep : CardSays(s)' /\ CardSeen(s)'
    BY <2>1, <2>2 DEF CardInv, CardSays, CardSeen
  <2>5. \A d \in cardDecisions' : CardDecided(d)'
    BY <1>1, <2>1, <2>2 DEF CardInv, CardTyped, CardDecided, Cards!Decision
  <2>. QED  BY <2>3, <2>4, <2>5 DEF CardInv
<1>3. ASSUME NEW s \in CardStep, Cards!Claim(s)
      PROVE  CardInv'
  <2>1. /\ cardRow[s].status = "queued" /\ cardRow' = Cards!Moved(s, "running")
        /\ cardSeen' = [cardSeen EXCEPT ![s] = cardRow'[s].version]
        /\ cardQueue' \subseteq CardStep
        /\ cardRun' = IF cardRun = "queued" THEN "running" ELSE cardRun
        /\ UNCHANGED <<cardAdvance, cardDecisions, cardApproved>>
        /\ UNCHANGED <<cardRequest, cardHands, cardInRequest, cardFaults, cardManual>>
    BY <1>1, <1>3 DEF Cards!Claim, Cards!Recorded, CardTyped
  <2>2. card[s] = "created" /\ \A d \in cardDecisions : d.step # s
    BY <2>1 DEF CardInv, CardSays, CardDecided
  <2>3. card' \in [Cards!Card -> CardStatus]
        /\ card'[s] = "executing" /\ \A t \in CardStep : t # s => card'[t] = card[t]
    <3>1. Cards!Driven(card[s]) = "executing"
      BY <2>2 DEF Cards!Driven
    <3>2. Cards!OnRunStatus(cardRun', card[parent]) \in CardStatus
      BY <1>1, CardBounds DEF CardTyped, Cards!OnRunStatus, Cards!Driven
    <3>3. card' = [card EXCEPT ![s] = "executing",
                               ![parent] = IF cardRun' # cardRun
                                           THEN Cards!OnRunStatus(cardRun', card[parent])
                                           ELSE card[parent]]
      BY <1>1, <1>3, <3>1, CardReads, CardBounds DEF Cards!Claim, CardTyped
    <3>. HIDE DEF CardStatus
    <3>4. "executing" \in CardStatus
      BY DEF CardStatus
    <3>. QED  BY <1>1, <3>2, <3>3, <3>4, CardReads, CardBounds DEF CardTyped
  <2>4. /\ cardRow' \in [CardStep -> CardStep0] /\ cardRow'[s].status = "running"
        /\ cardRow'[s].version \in Nat
        /\ \A t \in CardStep : t # s => cardRow'[t] = cardRow[t]
    BY <2>1, CardReads
  <2>5. CardTyped'
    BY <1>1, <2>1, <2>3, <2>4 DEF CardTyped
  <2>6. \A t \in CardStep : t # s => cardSeen'[t] = cardSeen[t]
    BY <1>1, <2>1 DEF CardTyped
  <2>7. CardSays(s)' /\ CardSeen(s)'
    BY <2>3, <2>4 DEF CardSays, CardSeen
  <2>. QED  BY <2>1, <2>2, <2>3, <2>4, <2>5, <2>6, <2>7, CardMoves
<1>4. ASSUME NEW s \in CardStep, NEW ok \in BOOLEAN, Cards!Complete(s, ok)
      PROVE  CardInv'
  <2>. DEFINE status == Cards!CompletionStatus(s, ok)
              told == Cards!OnCompleted(s, status, card[s])
  <2>1. ok /\ UNCHANGED cardFaults
    BY <1>1, <1>4 DEF Cards!Complete, CardTyped
  <2>2. /\ cardRow[s].status = "running" /\ cardRow' = Cards!Moved(s, status)
        /\ cardSeen' = [cardSeen EXCEPT ![s] = cardRow'[s].version]
        /\ Cards!Refreshed(cardRow', [card EXCEPT ![s] = told])
        /\ cardAdvance' = (cardAdvance \/ status = "succeeded")
        /\ UNCHANGED <<cardQueue, cardDecisions, cardApproved>>
        /\ UNCHANGED <<cardRequest, cardHands, cardInRequest, cardManual>>
    BY <1>1, <1>4, CardReads DEF Cards!Complete, Cards!Recorded, CardTyped
  <2>3. card[s] = "executing" /\ \A d \in cardDecisions : d.step # s
    BY <2>2 DEF CardInv, CardSays, CardDecided
  <2>4. \/ status = "waiting_human" /\ told = "reported"
        \/ status = "succeeded" /\ told = "accepted"
    BY <2>1, <2>3 DEF Cards!CompletionStatus, Cards!OnCompleted, Cards!Driven
  <2>. HIDE DEF status, told
  <2>5. /\ cardRun' \in Cards!StepStatus /\ card' \in [Cards!Card -> CardStatus]
        /\ card'[s] = told /\ \A t \in CardStep : t # s => card'[t] = card[t]
    <3>1. /\ [card EXCEPT ![s] = told] \in [Cards!Card -> CardStatus]
          /\ [card EXCEPT ![s] = told][s] = told
          /\ \A t \in CardStep : t # s => [card EXCEPT ![s] = told][t] = card[t]
      BY <1>1, <2>4, CardReads DEF CardTyped
    <3>. QED  BY <2>2, <3>1, CardRefreshes
  <2>6. /\ cardRow' \in [CardStep -> CardStep0] /\ cardRow'[s].status = status
        /\ cardRow'[s].version \in Nat
        /\ \A t \in CardStep : t # s => cardRow'[t] = cardRow[t]
    BY <2>2, <2>4, CardReads
  <2>7. cardSeen' \in [CardStep -> Nat] /\ cardSeen'[s] = cardRow'[s].version
        /\ \A t \in CardStep : t # s => cardSeen'[t] = cardSeen[t]
    BY <1>1, <2>2, <2>6 DEF CardTyped
  <2>8. cardAdvance' \in BOOLEAN
    BY <1>1, <2>2 DEF CardTyped
  <2>9. CardTyped'
    BY <1>1, <2>1, <2>2, <2>5, <2>6, <2>7, <2>8 DEF CardTyped
  <2>10. CardSays(s)' /\ CardSeen(s)'
    BY <2>4, <2>5, <2>6, <2>7 DEF CardSays, CardSeen
  <2>. QED  BY <2>2, <2>3, <2>5, <2>6, <2>7, <2>9, <2>10, CardMoves
<1>5. ASSUME NEW s \in CardStep, Cards!Exhaust(s)
      PROVE  CardInv'
  BY <1>1, <1>5 DEF Cards!Exhaust, CardTyped
<1>. QED  BY <1>2, <1>3, <1>4, <1>5

\* A decision is taken up, once.
LEMMA CardApplies ==
  ASSUME CardInv, NEW d \in cardDecisions, Cards!ApplyDecision(d)
  PROVE  CardInv'
<1>. USE DEF Cards!StepStatus, CardStatus, Cards!CardStatus
<1>. DEFINE s == d.step
<1>1. /\ CardTyped /\ s \in CardStep /\ d \in Cards!Decision /\ CardDecided(d)
      /\ CardSays(s)
  BY CardReads DEF CardInv, CardTyped, Cards!Decision
<1>2. /\ cardDecisions' = cardDecisions \ {d}
      /\ UNCHANGED <<cardQueue, cardSeen, cardApproved>>
      /\ UNCHANGED <<cardRequest, cardHands, cardInRequest, cardFaults, cardManual>>
  BY DEF Cards!ApplyDecision
<1>3. CASE cardRow[s].status = "waiting_human"
  <2>1. d.to = "rejected" /\ card[s] = "rejected" /\ d.version = cardRow[s].version
    BY <1>1, <1>3 DEF CardDecided, Cards!Decision
  <2>2. cardRow[s] = [status |-> "waiting_human", version |-> d.version]
    BY <1>1, <1>3, <2>1, CardReads DEF CardStep0
  <2>3. /\ cardRow' = Cards!Moved(s, "failed") /\ Cards!Refreshed(cardRow', card)
        /\ cardAdvance' = (cardAdvance \/ d.to = "accepted")
    BY <2>1, <2>2 DEF Cards!ApplyDecision
  <2>4. /\ cardRun' \in Cards!StepStatus /\ card' \in [Cards!Card -> CardStatus]
        /\ \A t \in CardStep : card'[t] = card[t]
    BY <1>1, <2>3, CardRefreshes DEF CardTyped
  <2>5. /\ cardRow' \in [CardStep -> CardStep0] /\ cardRow'[s].status = "failed"
        /\ \A t \in CardStep : t # s => cardRow'[t] = cardRow[t]
    BY <1>1, <2>3, CardReads
  <2>6. CardTyped'
    BY <1>1, <1>2, <2>3, <2>4, <2>5 DEF CardTyped
  <2>7. CardSays(s)' /\ CardSeen(s)'
    BY <1>1, <2>1, <2>4, <2>5 DEF CardSays, CardSeen
  <2>8. \A e \in cardDecisions' : e.step = s => CardDecided(e)'
    <3>1. \A e \in cardDecisions : e.step = s => e.to = "rejected"
      BY <1>1, <1>3 DEF CardInv, CardDecided, CardTyped, Cards!Decision
    <3>. QED  BY <1>1, <1>2, <2>1, <2>4, <2>5, <3>1 DEF CardDecided
  <2>. QED  BY <1>1, <1>2, <2>4, <2>5, <2>6, <2>7, <2>8, CardMoves
<1>4. CASE cardRow[s].status # "waiting_human"
  <2>1. UNCHANGED <<cardRow, cardRun, card, cardAdvance>>
    BY <1>4 DEF Cards!ApplyDecision
  <2>2. CardTyped'
    BY <1>1, <1>2, <2>1 DEF CardTyped
  <2>3. CardSays(s)' /\ CardSeen(s)'
    BY <1>1, <1>2, <1>4, <2>1 DEF CardSays, CardSeen
  <2>4. \A e \in cardDecisions' : CardDecided(e)'
    BY <1>2, <2>1 DEF CardInv, CardDecided
  <2>. QED  BY <1>1, <1>2, <2>1, <2>2, <2>3, <2>4, CardMoves
<1>. QED  BY <1>3, <1>4

\* A person decides: nothing else is open to one here.
LEMMA CardDecides ==
  ASSUME CardInv, NEW c \in Cards!Card,
         \/ Cards!Accept(c) \/ \E to \in CardStatus : Cards!Transition(c, to)
  PROVE  CardInv'
<1>. USE DEF Cards!StepStatus, CardStatus, Cards!CardStatus
<1>1. CardTyped
  BY CardReads
<1>2. CASE Cards!Accept(c)
  <2>1. /\ card[c] = "reported" /\ cardManual' = cardManual
        /\ cardDecisions' = cardDecisions \cup Cards!Decided(c, "accepted")
        /\ cardApproved' \subseteq Cards!Card
        /\ UNCHANGED <<cardQueue, cardSeen, cardHands, cardInRequest, cardFaults>>
    BY <1>1, <1>2 DEF Cards!Accept, Cards!CanTransition, Cards!Manual, CardTyped
  <2>2. CASE c = parent
    <3>1. /\ card' = [card EXCEPT ![parent] = "accepted"]
          /\ UNCHANGED <<cardRow, cardRun, cardAdvance, cardRequest>>
          /\ cardDecisions' = cardDecisions
      BY <1>2, <2>1, <2>2, CardBounds DEF Cards!Accept, Cards!Decided
    <3>2. card' \in [Cards!Card -> CardStatus] /\ \A s \in CardStep : card'[s] = card[s]
      BY <1>1, <3>1, CardBounds DEF CardTyped
    <3>3. CardTyped'
      BY <1>1, <2>1, <3>1, <3>2 DEF CardTyped
    <3>4. \A s \in CardStep : CardSays(s)' /\ CardSeen(s)'
      BY <2>1, <3>1, <3>2 DEF CardInv, CardSays, CardSeen
    <3>5. \A d \in cardDecisions' : CardDecided(d)'
      BY <1>1, <3>1, <3>2 DEF CardInv, CardTyped, CardDecided, Cards!Decision
    <3>. QED  BY <3>3, <3>4, <3>5 DEF CardInv
  <2>3. CASE c \in CardStep
    <3>1. cardRow[c].status = "waiting_human" /\ c # parent
      BY <2>1, <2>3, CardBounds DEF CardInv, CardSays
    <3>2. /\ cardRow' = Cards!Moved(c, "succeeded")
          /\ Cards!Refreshed(cardRow', [card EXCEPT ![c] = "accepted"])
          /\ cardAdvance' = TRUE /\ cardRequest' = cardRequest
      BY <1>2, <3>1 DEF Cards!Accept
    <3>. DEFINE e == [step |-> c, to |-> "accepted", version |-> cardSeen[c]]
    <3>3. cardDecisions' = cardDecisions \cup {e} /\ e \in Cards!Decision
      BY <1>1, <2>1, <2>3, <3>1 DEF Cards!Decided, Cards!Decision, CardTyped
    <3>4. e.step = c /\ e.to = "accepted"
      OBVIOUS
    <3>. HIDE DEF e
    <3>5. /\ cardRun' \in Cards!StepStatus /\ card' \in [Cards!Card -> CardStatus]
          /\ card'[c] = "accepted" /\ \A t \in CardStep : t # c => card'[t] = card[t]
      <4>1. /\ [card EXCEPT ![c] = "accepted"] \in [Cards!Card -> CardStatus]
            /\ [card EXCEPT ![c] = "accepted"][c] = "accepted"
            /\ \A t \in CardStep : t # c => [card EXCEPT ![c] = "accepted"][t] = card[t]
        BY <1>1 DEF CardTyped
      <4>. QED  BY <2>3, <3>2, <4>1, CardRefreshes
    <3>6. /\ cardRow' \in [CardStep -> CardStep0] /\ cardRow'[c].status = "succeeded"
          /\ \A t \in CardStep : t # c => cardRow'[t] = cardRow[t]
      BY <2>3, <3>2, CardReads
    <3>7. CardTyped'
      BY <1>1, <2>1, <3>2, <3>3, <3>5, <3>6 DEF CardTyped
    <3>8. CardSays(c)' /\ CardSeen(c)'
      BY <3>5, <3>6 DEF CardSays, CardSeen
    <3>9. \A d \in cardDecisions' : d.step = c => CardDecided(d)'
      <4>1. \A d \in cardDecisions : d.step = c => d.to # "accepted" /\ card[c] = "rejected"
        BY <3>1 DEF CardInv, CardDecided
      <4>. QED  BY <2>1, <3>3, <3>4, <3>6, <4>1 DEF CardDecided
    <3>. QED  BY <2>1, <2>3, <3>3, <3>4, <3>5, <3>6, <3>7, <3>8, <3>9, CardMoves
  <2>. QED  BY <2>2, <2>3, CardBounds
<1>3. ASSUME NEW to \in CardStatus, Cards!Transition(c, to)
      PROVE  CardInv'
  <2>1. /\ card[c] = "reported" /\ to = "rejected" /\ cardManual' = cardManual
        /\ card' = [card EXCEPT ![c] = "rejected"]
        /\ cardDecisions' = cardDecisions \cup Cards!Decided(c, "rejected")
        /\ UNCHANGED <<cardRow, cardRun, cardAdvance, cardQueue>>
        /\ UNCHANGED <<cardSeen, cardRequest, cardHands, cardApproved, cardInRequest, cardFaults>>
    <3>1. to # "accepted" /\ Cards!CanTransition(card[c], to) /\ Cards!Manual(c, to)
      BY <1>3 DEF Cards!Transition
    <3>2. card[c] = "reported" /\ to \in {"accepted", "rejected"} /\ cardManual' = cardManual
      BY <1>1, <3>1 DEF Cards!Manual, CardTyped
    <3>. QED  BY <1>3, <3>1, <3>2 DEF Cards!Transition, Cards!runtime
  <2>2. card' \in [Cards!Card -> CardStatus] /\ card'[c] = "rejected"
        /\ \A t \in CardStep : t # c => card'[t] = card[t]
    BY <1>1, <2>1, CardBounds DEF CardTyped
  <2>3. CASE c = parent
    <3>1. cardDecisions' = cardDecisions /\ \A t \in CardStep : card'[t] = card[t]
      BY <2>1, <2>2, <2>3, CardBounds DEF Cards!Decided
    <3>2. CardTyped'
      BY <1>1, <2>1, <2>2, <3>1 DEF CardTyped
    <3>3. \A s \in CardStep : CardSays(s)' /\ CardSeen(s)'
      BY <2>1, <3>1 DEF CardInv, CardSays, CardSeen
    <3>4. \A d \in cardDecisions' : CardDecided(d)'
      BY <1>1, <2>1, <3>1 DEF CardInv, CardTyped, CardDecided, Cards!Decision
    <3>. QED  BY <3>2, <3>3, <3>4 DEF CardInv
  <2>4. CASE c \in CardStep
    <3>. DEFINE e == [step |-> c, to |-> "rejected", version |-> cardSeen[c]]
    <3>1. cardRow[c].status = "waiting_human" /\ c # parent /\ cardSeen[c] = cardRow[c].version
      BY <2>1, <2>4, CardBounds DEF CardInv, CardSays, CardSeen
    <3>2. cardDecisions' = cardDecisions \cup {e} /\ e \in Cards!Decision
      BY <1>1, <2>1, <2>4, <3>1 DEF Cards!Decided, Cards!Decision, CardTyped
    <3>3. e.step = c /\ e.to = "rejected" /\ e.version = cardRow[c].version
      BY <3>1
    <3>. HIDE DEF e
    <3>4. CardTyped'
      BY <1>1, <2>1, <2>2, <3>2 DEF CardTyped
    <3>5. CardSays(c)' /\ CardSeen(c)'
      BY <2>1, <2>2, <3>1, <3>2, <3>3 DEF CardSays, CardSeen
    <3>6. \A d \in cardDecisions' : d.step = c => CardDecided(d)'
      <4>1. \A d \in cardDecisions : d.step # c
        BY <2>1, <3>1 DEF CardInv, CardDecided
      <4>. QED  BY <2>1, <2>2, <3>2, <3>3, <4>1 DEF CardDecided
    <3>. QED  BY <2>1, <2>2, <2>4, <3>2, <3>3, <3>4, <3>5, <3>6, CardMoves
  <2>. QED  BY <2>3, <2>4, CardBounds
<1>. QED  BY <1>2, <1>3

\* Every step keeps the invariant.
LEMMA CardNext ==
  ASSUME CardInv, Cards!Next \/ UNCHANGED cardVars
  PROVE  CardInv'
<1>1. CASE UNCHANGED cardVars
  <2>1. CardTyped' /\ \A s \in CardStep : CardSays(s)' /\ CardSeen(s)'
    BY <1>1 DEF cardVars, CardInv, CardTyped, CardSays, CardSeen
  <2>. QED  BY <1>1, <2>1 DEF cardVars, CardInv, CardDecided
<1>2. CASE Cards!Runtime
  BY <1>2, CardRuns, CardApplies DEF Cards!Runtime
<1>3. CASE Cards!People
  <2>1. ASSUME NEW c \in Cards!Card, Cards!RunByHand(c) \/ Cards!ReportByHand(c)
        PROVE  FALSE
    BY <2>1 DEF Cards!RunByHand, Cards!ReportByHand, CardInv, CardTyped
  <2>. QED  BY <1>3, <2>1, CardDecides DEF Cards!People, CardStatus
<1>4. CASE Cards!RequestEnds \/ \E s \in CardStep, ok \in BOOLEAN : Cards!RequestRuns(s, ok)
  BY <1>4 DEF Cards!RequestEnds, Cards!RequestRuns, CardInv, CardTyped
<1>. QED  BY <1>1, <1>2, <1>3, <1>4 DEF Cards!Next

\* What the invariant says to the people of a run.
LEMMA CardPromises ==
  ASSUME CardInv
  PROVE  Cards!TypeOK /\ Cards!CardsMirrorSteps
<1>1. Cards!TypeOK
  <2>1. CardTyped /\ cardFaults \in 0..0 /\ cardManual \in 0..0
    BY DEF CardInv, CardTyped
  <2>. QED  BY <2>1 DEF CardTyped, CardStep0, CardStatus, Cards!TypeOK
<1>2. Cards!CardsMirrorSteps
  BY DEF CardInv, CardSays, Cards!CardsMirrorSteps
<1>. QED  BY <1>1, <1>2

-----------------------------------------------------------------------------
(* Task cards that people move by hand beside the run: an acceptance that  *)
(* is on its way to a red-line step was made by a person.                  *)

HandStep0 == [status : Manual!StepStatus, version : Nat]
HandTyped ==
    /\ cardRow \in [HandStep -> HandStep0]
    /\ cardRun \in Manual!StepStatus /\ cardAdvance \in BOOLEAN /\ cardQueue \subseteq HandStep
    /\ card \in [Manual!Card -> Manual!CardStatus] /\ cardSeen \in [HandStep -> Nat]
    /\ cardDecisions \subseteq Manual!Decision /\ cardRequest \in BOOLEAN
    /\ cardHands \subseteq Manual!Card /\ cardApproved \subseteq Manual!Card
    /\ cardInRequest \subseteq HandStep
    /\ cardFaults \in 0..MaxHandFaults /\ cardManual \in 0..MaxHandMoves

DecidedByPeople == \A d \in cardDecisions :
    d.to = "accepted" /\ d.step \in HandRedLine => d.step \in cardApproved

HandInv == /\ HandTyped /\ Manual!RedLineNeedsHuman /\ Manual!DecisionsOnCurrent
           /\ Manual!AcceptedForAReason /\ DecidedByPeople

LEMMA HandBounds == /\ parent \notin HandStep /\ HandRedLine \subseteq HandStep
                    /\ MaxHandFaults \in Nat /\ MaxHandMoves \in Nat
                    /\ Manual!Card = HandStep \cup {parent}
  BY ScenesAssumption DEF Manual!CardsParentAssumption, Manual!CardsRedLineAssumption,
                          Manual!CardsBoundAssumption, Manual!Card

LEMMA HandRefreshes ==
  ASSUME NEW st, NEW cards \in [Manual!Card -> Manual!CardStatus], Manual!Refreshed(st, cards)
  PROVE  /\ cardRun' \in Manual!StepStatus
         /\ card' \in [Manual!Card -> Manual!CardStatus]
         /\ \A s \in HandStep : card'[s] = cards[s]
<1>1. cardRun' \in Manual!StepStatus
  <2>1. cardRun' = Manual!DeriveRunStatus(st)
    BY DEF Manual!Refreshed
  <2>. QED  BY <2>1 DEF Manual!DeriveRunStatus, Manual!StepStatus
<1>2. Manual!OnRunStatus(cardRun', cards[parent]) \in Manual!CardStatus
  BY HandBounds DEF Manual!OnRunStatus, Manual!Driven, Manual!CardStatus
<1>3. \/ card' = cards
      \/ card' = [cards EXCEPT ![parent] = Manual!OnRunStatus(cardRun', cards[parent])]
  BY HandBounds DEF Manual!Refreshed
<1>. QED  BY <1>1, <1>2, <1>3, HandBounds

\* What a step becomes when it moves.
LEMMA HandReads ==
  ASSUME HandTyped, NEW s \in HandStep, NEW status \in Manual!StepStatus
  PROVE  /\ Manual!Moved(s, status) \in [HandStep -> HandStep0]
         /\ Manual!Moved(s, status)[s].status = status
         /\ Manual!Moved(s, status)[s].version \in Nat
         /\ \A t \in HandStep : t # s => Manual!Moved(s, status)[t] = cardRow[t]
<1>1. cardRow \in [HandStep -> HandStep0] /\ cardRow[s].version + 1 \in Nat
  BY DEF HandTyped, HandStep0
<1>2. [status |-> status, version |-> cardRow[s].version + 1] \in HandStep0
  BY <1>1 DEF HandStep0
<1>3. Manual!Moved(s, status) =
        [cardRow EXCEPT ![s] = [status |-> status, version |-> cardRow[s].version + 1]]
  BY <1>1 DEF Manual!Moved
<1>. QED  BY <1>1, <1>2, <1>3

\* People are never forgotten, and an acceptance that is sent to a red-line step is theirs.
HandsHold ==
    /\ cardApproved \subseteq cardApproved' /\ cardInRequest \subseteq cardInRequest'
    /\ \A d \in cardDecisions' \ cardDecisions :
          d.to = "accepted" /\ d.step \in HandRedLine => d.step \in cardApproved'

\* The steps stand, and a card is accepted by a person or by the fallback.
LEMMA HandStands ==
  ASSUME HandInv, HandTyped', HandsHold, UNCHANGED <<cardRow, cardSeen>>,
         \A s \in HandStep : card'[s] = "accepted" =>
             card[s] = "accepted" \/ s \in cardApproved' \/ s \in cardInRequest'
  PROVE  HandInv'
<1>1. DecidedByPeople'
  BY DEF HandInv, DecidedByPeople, HandsHold
<1>2. Manual!RedLineNeedsHuman' /\ Manual!DecisionsOnCurrent' /\ Manual!AcceptedForAReason'
  BY DEF HandInv, HandsHold, Manual!RedLineNeedsHuman, Manual!DecisionsOnCurrent,
         Manual!AcceptedForAReason
<1>. QED  BY <1>1, <1>2 DEF HandInv

\* A step moves: what it becomes is written on its card, and only a person ends a red-line one.
LEMMA HandMoves ==
  ASSUME HandInv, HandTyped', HandsHold, NEW s \in HandStep, NEW status \in Manual!StepStatus,
         cardRow[s].status # "succeeded", cardRow' = Manual!Moved(s, status),
         status = "succeeded" /\ s \in HandRedLine => s \in cardApproved',
         status = "waiting_human" => cardSeen'[s] = cardRow'[s].version,
         \A t \in HandStep : t # s => cardSeen'[t] = cardSeen[t],
         \A t \in HandStep : card'[t] = "accepted" =>
             \/ card[t] = "accepted" \/ t \in cardApproved'
             \/ t = s /\ status = "succeeded"
  PROVE  HandInv'
<1>1. /\ cardRow'[s].status = status
      /\ \A t \in HandStep : t # s => cardRow'[t] = cardRow[t]
  BY HandReads DEF HandInv
<1>2. DecidedByPeople'
  BY DEF HandInv, DecidedByPeople, HandsHold
<1>3. Manual!RedLineNeedsHuman'
  BY <1>1, HandBounds DEF HandInv, HandsHold, Manual!RedLineNeedsHuman
<1>4. Manual!DecisionsOnCurrent'
  BY <1>1 DEF HandInv, Manual!DecisionsOnCurrent
<1>5. Manual!AcceptedForAReason'
  BY <1>1 DEF HandInv, HandsHold, Manual!AcceptedForAReason
<1>. QED  BY <1>2, <1>3, <1>4, <1>5 DEF HandInv

LEMMA HandInit == Manual!Init => HandInv
<1>. SUFFICES ASSUME Manual!Init PROVE HandInv
  OBVIOUS
<1>1. cardFaults \in 0..MaxHandFaults /\ cardManual \in 0..MaxHandMoves
  BY HandBounds DEF Manual!Init
<1>2. HandTyped
  BY <1>1 DEF Manual!Init, HandTyped, HandStep0, Manual!StepStatus, Manual!CardStatus
<1>3. \A s \in HandStep : cardRow[s].status = "queued" /\ card[s] = "created"
  BY HandBounds DEF Manual!Init
<1>. QED  BY <1>2, <1>3, HandBounds
          DEF Manual!Init, HandInv, Manual!RedLineNeedsHuman, Manual!DecisionsOnCurrent,
              Manual!AcceptedForAReason, DecidedByPeople

\* The bounds of the counters are kept.
LEMMA HandCounts ==
  ASSUME HandTyped
  PROVE  /\ cardFaults < MaxHandFaults => cardFaults + 1 \in 0..MaxHandFaults
         /\ cardManual < MaxHandMoves => cardManual + 1 \in 0..MaxHandMoves
  BY HandBounds DEF HandTyped

\* The run is looked at, and its steps are claimed, completed or given up.
LEMMA HandRuns ==
  ASSUME HandInv,
         \/ Manual!Advance
         \/ \E s \in HandStep : \/ Manual!Claim(s) \/ Manual!Exhaust(s)
                                \/ \E ok \in BOOLEAN : Manual!Complete(s, ok)
  PROVE  HandInv'
<1>1. HandTyped
  BY DEF HandInv
<1>2. UNCHANGED <<cardDecisions, cardRequest, cardHands, cardApproved, cardInRequest, cardManual>>
  BY DEF Manual!Advance, Manual!Claim, Manual!Exhaust, Manual!Complete
<1>3. HandsHold
  BY <1>2 DEF HandsHold
<1>4. CASE Manual!Advance
  <2>1. /\ Manual!Refreshed(cardRow, card) /\ cardAdvance' = FALSE
        /\ cardQueue' \subseteq HandStep /\ UNCHANGED <<cardRow, cardSeen, cardFaults>>
    BY <1>1, <1>4 DEF Manual!Advance, Manual!ReadySteps, HandTyped
  <2>2. /\ cardRun' \in Manual!StepStatus /\ card' \in [Manual!Card -> Manual!CardStatus]
        /\ \A s \in HandStep : card'[s] = card[s]
    BY <1>1, <2>1, HandRefreshes DEF HandTyped
  <2>3. HandTyped'
    BY <1>1, <1>2, <2>1, <2>2 DEF HandTyped
  <2>. QED  BY <1>3, <2>1, <2>2, <2>3, HandStands
<1>5. ASSUME NEW s \in HandStep, Manual!Claim(s)
      PROVE  HandInv'
  <2>1. /\ cardRow[s].status = "queued" /\ cardRow' = Manual!Moved(s, "running")
        /\ cardSeen' = [cardSeen EXCEPT ![s] = cardRow'[s].version]
        /\ cardQueue' \subseteq HandStep
        /\ cardRun' = IF cardRun = "queued" THEN "running" ELSE cardRun
        /\ UNCHANGED <<cardAdvance, cardFaults>>
    BY <1>1, <1>5 DEF Manual!Claim, Manual!Recorded, HandTyped
  <2>2. "running" \in Manual!StepStatus /\ cardRun' \in Manual!StepStatus
    BY <1>1, <2>1 DEF HandTyped, Manual!StepStatus
  <2>3. /\ card' \in [Manual!Card -> Manual!CardStatus]
        /\ \A t \in HandStep : card'[t] = "accepted" => card[t] = "accepted"
    <3>. DEFINE own == Manual!Driven(card[s])
                whole == IF cardRun' # cardRun THEN Manual!OnRunStatus(cardRun', card[parent])
                         ELSE card[parent]
    <3>1. s \in Manual!Card /\ parent \in Manual!Card /\ s # parent
      BY HandBounds
    <3>2. own \in Manual!CardStatus /\ (own = "accepted" => card[s] = "accepted")
      BY <1>1, <3>1 DEF HandTyped, Manual!Driven, Manual!CardStatus
    <3>3. whole \in Manual!CardStatus
      BY <1>1, <3>1 DEF HandTyped, Manual!OnRunStatus, Manual!Driven, Manual!CardStatus
    <3>4. card' = [card EXCEPT ![s] = own, ![parent] = whole]
      BY <1>1, <1>5, <3>1 DEF Manual!Claim, HandTyped
    <3>. HIDE DEF own, whole
    <3>. QED  BY <1>1, <3>1, <3>2, <3>3, <3>4, HandBounds DEF HandTyped
  <2>4. cardRow' \in [HandStep -> HandStep0] /\ cardSeen' \in [HandStep -> Nat]
        /\ \A t \in HandStep : t # s => cardSeen'[t] = cardSeen[t]
    BY <1>1, <2>1, <2>2, HandReads DEF HandTyped
  <2>5. HandTyped'
    BY <1>1, <1>2, <2>1, <2>2, <2>3, <2>4 DEF HandTyped
  <2>. QED  BY <1>3, <2>1, <2>2, <2>3, <2>4, <2>5, HandMoves
<1>6. ASSUME NEW s \in HandStep, NEW ok \in BOOLEAN, Manual!Complete(s, ok)
      PROVE  HandInv'
  <2>. DEFINE status == Manual!CompletionStatus(s, ok)
              told == Manual!OnCompleted(s, status, card[s])
  <2>1. /\ cardRow[s].status = "running" /\ cardRow' = Manual!Moved(s, status)
        /\ cardSeen' = [cardSeen EXCEPT ![s] = cardRow'[s].version]
        /\ Manual!Refreshed(cardRow', [card EXCEPT ![s] = told])
        /\ cardAdvance' = (cardAdvance \/ status = "succeeded")
        /\ cardQueue' = cardQueue
    BY <1>1, <1>6, HandBounds DEF Manual!Complete, Manual!Recorded, HandTyped
  <2>2. cardFaults' \in 0..MaxHandFaults
    <3>1. cardFaults' = cardFaults \/ (cardFaults < MaxHandFaults /\ cardFaults' = cardFaults + 1)
      BY <1>6 DEF Manual!Complete
    <3>. QED  BY <1>1, <3>1, HandCounts DEF HandTyped
  <2>3. /\ status \in Manual!StepStatus
        /\ status = "succeeded" => s \notin HandRedLine
    BY DEF Manual!CompletionStatus, Manual!StepStatus
  <2>4. s \in Manual!Card /\ card[s] \in Manual!CardStatus
    BY <1>1, HandBounds DEF HandTyped
  <2>5. /\ told \in Manual!CardStatus
        /\ told = "accepted" => card[s] = "accepted" \/ status = "succeeded"
    BY <2>4 DEF Manual!OnCompleted, Manual!Driven, Manual!CardStatus
  <2>. HIDE DEF status, told
  <2>6. /\ cardRun' \in Manual!StepStatus /\ card' \in [Manual!Card -> Manual!CardStatus]
        /\ card'[s] = told /\ \A t \in HandStep : t # s => card'[t] = card[t]
    <3>1. /\ [card EXCEPT ![s] = told] \in [Manual!Card -> Manual!CardStatus]
          /\ [card EXCEPT ![s] = told][s] = told
          /\ \A t \in HandStep : t # s => [card EXCEPT ![s] = told][t] = card[t]
      BY <1>1, <2>4, <2>5 DEF HandTyped
    <3>. QED  BY <2>1, <3>1, HandRefreshes
  <2>7. cardRow' \in [HandStep -> HandStep0] /\ cardRow'[s].version \in Nat
    BY <1>1, <2>1, <2>3, HandReads
  <2>8. cardSeen' \in [HandStep -> Nat] /\ cardSeen'[s] = cardRow'[s].version
        /\ \A t \in HandStep : t # s => cardSeen'[t] = cardSeen[t]
    BY <1>1, <2>1, <2>7 DEF HandTyped
  <2>9. HandTyped'
    <3>1. cardAdvance' \in BOOLEAN
      BY <1>1, <2>1 DEF HandTyped
    <3>. QED  BY <1>1, <1>2, <2>1, <2>2, <2>6, <2>7, <2>8, <3>1 DEF HandTyped
  <2>10. cardRow[s].status # "succeeded"
    BY <2>1
  <2>11. \A t \in HandStep : card'[t] = "accepted" =>
            \/ card[t] = "accepted" \/ t \in cardApproved'
            \/ t = s /\ status = "succeeded"
    BY <2>5, <2>6
  <2>. QED  BY <1>3, <2>1, <2>3, <2>8, <2>9, <2>10, <2>11, HandMoves
<1>7. ASSUME NEW s \in HandStep, Manual!Exhaust(s)
      PROVE  HandInv'
  <2>1. /\ cardRow[s].status = "running" /\ cardRow' = Manual!Moved(s, "failed")
        /\ Manual!Refreshed(cardRow', card)
        /\ UNCHANGED <<cardAdvance, cardQueue, cardSeen>>
        /\ cardFaults < MaxHandFaults /\ cardFaults' = cardFaults + 1
    BY <1>7 DEF Manual!Exhaust
  <2>2. "failed" \in Manual!StepStatus /\ cardFaults' \in 0..MaxHandFaults
    BY <1>1, <2>1, HandCounts DEF Manual!StepStatus
  <2>3. /\ cardRun' \in Manual!StepStatus /\ card' \in [Manual!Card -> Manual!CardStatus]
        /\ \A t \in HandStep : card'[t] = card[t]
    BY <1>1, <2>1, HandRefreshes DEF HandTyped
  <2>4. cardRow' \in [HandStep -> HandStep0]
    BY <1>1, <2>1, <2>2, HandReads
  <2>5. HandTyped'
    BY <1>1, <1>2, <2>1, <2>2, <2>3, <2>4 DEF HandTyped
  <2>6. cardRow[s].status # "succeeded"
    BY <2>1
  <2>. QED  BY <1>3, <2>1, <2>2, <2>3, <2>5, <2>6, HandMoves
<1>. QED  BY <1>4, <1>5, <1>6, <1>7

\* A decision reaches its step: an acceptance of a red-line step was a person's.
LEMMA HandApplies ==
  ASSUME HandInv, NEW d \in cardDecisions, Manual!ApplyDecision(d)
  PROVE  HandInv'
<1>. DEFINE s == d.step
            status == IF d.to = "accepted" THEN "succeeded" ELSE "failed"
<1>1. HandTyped /\ s \in HandStep
  BY DEF HandInv, HandTyped, Manual!Decision
<1>2. /\ cardDecisions' = cardDecisions \ {d}
      /\ UNCHANGED <<cardQueue, cardSeen, cardApproved>>
      /\ UNCHANGED <<cardRequest, cardHands, cardInRequest, cardFaults, cardManual>>
  BY DEF Manual!ApplyDecision
<1>3. HandsHold
  BY <1>2 DEF HandsHold
<1>4. CASE UNCHANGED <<cardRow, cardRun, card, cardAdvance>>
  <2>1. HandTyped'
    BY <1>1, <1>2, <1>4 DEF HandTyped
  <2>. QED  BY <1>2, <1>3, <1>4, <2>1, HandStands
<1>5. CASE /\ cardRow[s] = [status |-> "waiting_human", version |-> d.version]
           /\ cardRow' = Manual!Moved(s, status) /\ Manual!Refreshed(cardRow', card)
           /\ cardAdvance' = (cardAdvance \/ d.to = "accepted")
  <2>1. /\ status \in Manual!StepStatus /\ status # "waiting_human"
        /\ status = "succeeded" /\ s \in HandRedLine => s \in cardApproved
    BY DEF Manual!StepStatus, HandInv, DecidedByPeople
  <2>. HIDE DEF status
  <2>2. /\ cardRun' \in Manual!StepStatus /\ card' \in [Manual!Card -> Manual!CardStatus]
        /\ \A t \in HandStep : card'[t] = card[t]
    BY <1>1, <1>5, HandRefreshes DEF HandTyped
  <2>3. cardRow' \in [HandStep -> HandStep0] /\ cardRow[s].status # "succeeded"
    BY <1>1, <1>5, <2>1, HandReads
  <2>4. HandTyped'
    <3>1. cardAdvance' \in BOOLEAN
      BY <1>1, <1>5 DEF HandTyped
    <3>. QED  BY <1>1, <1>2, <2>2, <2>3, <3>1 DEF HandTyped
  <2>. QED  BY <1>1, <1>2, <1>3, <1>5, <2>1, <2>2, <2>3, <2>4, HandMoves
<1>. QED  BY <1>4, <1>5 DEF Manual!ApplyDecision

\* A person accepts a card.
LEMMA HandAccepts ==
  ASSUME HandInv, NEW c \in Manual!Card, Manual!Accept(c)
  PROVE  HandInv'
<1>1. HandTyped
  BY DEF HandInv
<1>2. /\ cardDecisions' = cardDecisions \cup Manual!Decided(c, "accepted")
      /\ cardApproved' = cardApproved \cup {c}
      /\ UNCHANGED <<cardQueue, cardSeen, cardHands, cardInRequest, cardFaults>>
  BY DEF Manual!Accept
<1>3. cardManual' \in 0..MaxHandMoves
  <2>1. cardManual' = cardManual \/ (cardManual < MaxHandMoves /\ cardManual' = cardManual + 1)
    BY DEF Manual!Accept, Manual!Manual
  <2>. QED  BY <1>1, <2>1, HandCounts DEF HandTyped
<1>4. /\ Manual!Decided(c, "accepted") \subseteq Manual!Decision
      /\ \A d \in Manual!Decided(c, "accepted") : d.step = c
  BY <1>1, HandBounds DEF Manual!Decided, Manual!Decision, HandTyped
<1>5. HandsHold
  BY <1>2, <1>4 DEF HandsHold
<1>6. "accepted" \in Manual!CardStatus /\ "executing" \in Manual!CardStatus
      /\ "succeeded" \in Manual!StepStatus
  BY DEF Manual!CardStatus, Manual!StepStatus
<1>7. /\ [card EXCEPT ![c] = "accepted"] \in [Manual!Card -> Manual!CardStatus]
      /\ \A t \in HandStep : t # c => [card EXCEPT ![c] = "accepted"][t] = card[t]
  BY <1>1, <1>6, HandBounds DEF HandTyped
<1>8. CASE /\ c \in HandStep /\ cardRow[c].status = "waiting_human"
           /\ cardRow' = Manual!Moved(c, "succeeded")
           /\ Manual!Refreshed(cardRow', [card EXCEPT ![c] = "accepted"])
           /\ cardAdvance' = TRUE /\ UNCHANGED cardRequest
  <2>1. /\ cardRun' \in Manual!StepStatus /\ card' \in [Manual!Card -> Manual!CardStatus]
        /\ \A t \in HandStep : t # c => card'[t] = card[t]
    BY <1>7, <1>8, HandRefreshes
  <2>2. cardRow' \in [HandStep -> HandStep0] /\ cardRow[c].status # "succeeded"
    BY <1>1, <1>6, <1>8, HandReads
  <2>3. HandTyped'
    BY <1>1, <1>2, <1>3, <1>4, <1>8, <2>1, <2>2 DEF HandTyped
  <2>4. \A t \in HandStep : card'[t] = "accepted" => card[t] = "accepted" \/ t \in cardApproved'
    BY <1>2, <2>1
  <2>. QED  BY <1>2, <1>5, <1>6, <1>8, <2>2, <2>3, <2>4, HandMoves
<1>9. CASE /\ UNCHANGED <<cardRow, cardRun, cardAdvance>> /\ cardRequest' \in BOOLEAN
           /\ card' \in [Manual!Card -> Manual!CardStatus]
           /\ \A t \in HandStep : t # c => card'[t] = card[t]
  <2>1. HandTyped'
    BY <1>1, <1>2, <1>3, <1>4, <1>9 DEF HandTyped
  <2>2. \A t \in HandStep : card'[t] = "accepted" =>
            card[t] = "accepted" \/ t \in cardApproved' \/ t \in cardInRequest'
    BY <1>2, <1>9
  <2>. QED  BY <1>2, <1>5, <1>9, <2>1, <2>2, HandStands
<1>10. CASE /\ c \in HandStep
            /\ card' = [card EXCEPT ![c] = "accepted",
                                    ![parent] = IF @ = "created" THEN "executing" ELSE @]
            /\ cardRequest' = TRUE /\ UNCHANGED <<cardRow, cardRun, cardAdvance>>
  <2>1. /\ card' \in [Manual!Card -> Manual!CardStatus]
        /\ \A t \in HandStep : t # c => card'[t] = card[t]
    BY <1>1, <1>6, <1>10, HandBounds DEF HandTyped
  <2>. QED  BY <1>9, <1>10, <2>1
<1>11. CASE /\ c = parent /\ card' = [card EXCEPT ![c] = "accepted"]
            /\ UNCHANGED <<cardRow, cardRun, cardAdvance, cardRequest>>
  BY <1>1, <1>7, <1>9, <1>11 DEF HandTyped
<1>. QED  BY <1>8, <1>10, <1>11 DEF Manual!Accept

\* The other moves: to anything but accepted, or by the fallback, which leaves a red-line
\* card reported.
LEMMA HandOthers ==
  ASSUME HandInv,
         \/ \E c \in Manual!Card : \/ Manual!RunByHand(c) \/ Manual!ReportByHand(c)
                                   \/ \E to \in Manual!CardStatus : Manual!Transition(c, to)
         \/ Manual!RequestEnds \/ \E s \in HandStep, ok \in BOOLEAN : Manual!RequestRuns(s, ok)
  PROVE  HandInv'
<1>1. HandTyped
  BY DEF HandInv
<1>2. UNCHANGED <<cardRow, cardRun, cardAdvance, cardQueue, cardSeen, cardApproved, cardFaults>>
  BY DEF Manual!RunByHand, Manual!ReportByHand, Manual!Transition, Manual!RequestEnds,
         Manual!RequestRuns, Manual!runtime
<1>3. ASSUME NEW c \in Manual!Card, NEW to \in Manual!CardStatus, to # "accepted",
             card' = [card EXCEPT ![c] = to],
             cardDecisions' \subseteq cardDecisions \cup Manual!Decided(c, "rejected"),
             cardHands' \subseteq Manual!Card, cardManual' \in 0..MaxHandMoves,
             UNCHANGED <<cardRequest, cardInRequest>>
      PROVE  HandInv'
  <2>1. /\ Manual!Decided(c, "rejected") \subseteq Manual!Decision
        /\ \A d \in Manual!Decided(c, "rejected") : d.to = "rejected"
    BY <1>1, HandBounds DEF Manual!Decided, Manual!Decision, HandTyped
  <2>2. HandsHold
    BY <1>2, <1>3, <2>1 DEF HandsHold
  <2>3. /\ card' \in [Manual!Card -> Manual!CardStatus]
        /\ \A t \in HandStep : card'[t] = "accepted" => card[t] = "accepted"
    BY <1>1, <1>3, HandBounds DEF HandTyped
  <2>4. HandTyped'
    BY <1>1, <1>2, <1>3, <2>1, <2>3 DEF HandTyped
  <2>. QED  BY <1>2, <2>2, <2>3, <2>4, HandStands
<1>4. /\ "executing" \in Manual!CardStatus /\ "reported" \in Manual!CardStatus
      /\ "accepted" \in Manual!CardStatus
  BY DEF Manual!CardStatus
<1>5. ASSUME NEW c \in Manual!Card, Manual!RunByHand(c)
      PROVE  HandInv'
  <2>1. /\ card' = [card EXCEPT ![c] = "executing"] /\ cardHands' = cardHands \cup {c}
        /\ UNCHANGED <<cardDecisions, cardRequest, cardInRequest>>
    BY <1>5 DEF Manual!RunByHand
  <2>2. cardManual' \in 0..MaxHandMoves
    BY <1>1, <1>5, HandCounts DEF Manual!RunByHand
  <2>3. cardHands' \subseteq Manual!Card
    BY <1>1, <2>1 DEF HandTyped
  <2>. QED  BY <1>3, <1>4, <2>1, <2>2, <2>3
<1>6. ASSUME NEW c \in Manual!Card, Manual!ReportByHand(c)
      PROVE  HandInv'
  <2>1. /\ cardHands' \subseteq Manual!Card
        /\ UNCHANGED <<cardDecisions, cardRequest, cardInRequest, cardManual>>
    BY <1>1, <1>6 DEF Manual!ReportByHand, HandTyped
  <2>2. CASE card' = [card EXCEPT ![c] = "reported"]
    BY <1>1, <1>3, <1>4, <2>1, <2>2 DEF HandTyped
  <2>3. CASE card' = card
    <3>1. HandTyped' /\ HandsHold
      BY <1>1, <1>2, <2>1, <2>3 DEF HandTyped, HandsHold
    <3>. QED  BY <1>2, <2>3, <3>1, HandStands
  <2>. QED  BY <1>6, <2>2, <2>3 DEF Manual!ReportByHand
<1>7. ASSUME NEW c \in Manual!Card, NEW to \in Manual!CardStatus, Manual!Transition(c, to)
      PROVE  HandInv'
  <2>1. /\ to # "accepted" /\ card' = [card EXCEPT ![c] = to]
        /\ cardDecisions' \subseteq cardDecisions \cup Manual!Decided(c, "rejected")
        /\ UNCHANGED <<cardRequest, cardHands, cardInRequest>>
    BY <1>7 DEF Manual!Transition
  <2>2. cardManual' \in 0..MaxHandMoves
    <3>1. cardManual' = cardManual \/ (cardManual < MaxHandMoves /\ cardManual' = cardManual + 1)
      BY <1>7 DEF Manual!Transition, Manual!Manual
    <3>. QED  BY <1>1, <3>1, HandCounts DEF HandTyped
  <2>3. cardHands' \subseteq Manual!Card
    BY <1>1, <2>1 DEF HandTyped
  <2>. QED  BY <1>3, <2>1, <2>2, <2>3
<1>8. CASE Manual!RequestEnds
  <2>1. HandTyped' /\ HandsHold
    BY <1>1, <1>2, <1>8 DEF HandTyped, HandsHold, Manual!RequestEnds
  <2>. QED  BY <1>2, <1>8, <2>1, HandStands DEF Manual!RequestEnds
<1>9. ASSUME NEW s \in HandStep, NEW ok \in BOOLEAN, Manual!RequestRuns(s, ok)
      PROVE  HandInv'
  <2>1. /\ \/ card' = [card EXCEPT ![s] = "accepted"] \/ card' = [card EXCEPT ![s] = "reported"]
        /\ \/ cardDecisions' = cardDecisions
           \/ /\ cardDecisions' = cardDecisions \cup Manual!Decided(s, "accepted")
              /\ s \notin HandRedLine
        /\ cardInRequest' = cardInRequest \cup {s}
        /\ UNCHANGED <<cardRequest, cardHands, cardManual>>
    BY <1>9 DEF Manual!RequestRuns
  <2>2. /\ Manual!Decided(s, "accepted") \subseteq Manual!Decision
        /\ \A d \in Manual!Decided(s, "accepted") : d.step = s
    BY <1>1, HandBounds DEF Manual!Decided, Manual!Decision, HandTyped
  <2>3. HandsHold
    BY <1>2, <2>1, <2>2 DEF HandsHold
  <2>4. /\ card' \in [Manual!Card -> Manual!CardStatus]
        /\ \A t \in HandStep : card'[t] = "accepted" =>
              card[t] = "accepted" \/ t \in cardInRequest'
    BY <1>1, <1>4, <2>1, HandBounds DEF HandTyped
  <2>5. HandTyped'
    BY <1>1, <1>2, <2>1, <2>2, <2>4 DEF HandTyped
  <2>. QED  BY <1>2, <2>3, <2>4, <2>5, HandStands
<1>. QED  BY <1>5, <1>6, <1>7, <1>8, <1>9

\* Every step keeps the invariant.
LEMMA HandNext ==
  ASSUME HandInv, Manual!Next \/ UNCHANGED cardVars
  PROVE  HandInv'
<1>1. CASE UNCHANGED cardVars
  BY <1>1 DEF cardVars, HandInv, HandTyped, Manual!RedLineNeedsHuman,
              Manual!DecisionsOnCurrent, Manual!AcceptedForAReason, DecidedByPeople
<1>. QED  BY <1>1, HandRuns, HandApplies, HandAccepts, HandOthers
          DEF Manual!Next, Manual!Runtime, Manual!People

-----------------------------------------------------------------------------
(* Collaboration: who reviews supervises the department or did, and two    *)
(* failures are counted for each record that is lost.                      *)

CollabPcs == [pc : {"idle"}, tries : {0}]
             \cup [pc : {"read"}, tries : {0}, deed : Reviews!Deed]
             \cup [pc : {"committed"}, tries : 0..1, deed : Reviews!Deed]
CollabRows == Reviews!Pending \cup Reviews!Decided \cup {[status |-> "none"]}

CollabTyped ==
    /\ collabSupervisor \in [CollabDept -> CollabPerson \cup {none}]
    /\ collabRequest \in [CollabRequest -> CollabRows]
    /\ collabChannel \in [CollabChannel -> {"none", "active", "deleted"}]
    /\ collabSession \in [CollabPerson -> CollabPcs]
    /\ collabDone \subseteq Reviews!Deed
    /\ collabCrashes \in Nat /\ collabMisses \in Nat
    /\ collabCrashes + collabMisses <= MaxCollabFaults

\* Who may review what is for a department, now or when the request was opened.
CollabEntitled(d, p) == p \in CollabAdministrator \/ <<d, p>> \in collabSupervised

\* What a governed operation that is under way stands for.
CollabStands(p) ==
    collabSession[p].pc # "idle" =>
       LET deed == collabSession[p].deed
       IN  /\ collabSession[p].pc = "committed" => deed \in collabDone
           /\ deed.what = "review" => /\ collabRequest[deed.on].status # "none"
                                      /\ deed.by = p
                                      /\ CollabEntitled(collabRequest[deed.on].target, p)

CollabReviewed ==
    /\ \A d \in CollabDept : collabSupervisor[d] # none => <<d, collabSupervisor[d]>> \in collabSupervised
    /\ \A p \in CollabPerson : CollabStands(p)
    /\ Reviews!ReviewerEntitled

\* The operations without a record that nobody is about to write, and the people whose
\* record was refused once.
CollabPending(deed) ==
    \E p \in CollabPerson : collabSession[p].pc = "committed" /\ collabSession[p].deed = deed
CollabLost == {deed \in collabDone \ collabAudit : ~CollabPending(deed)}
CollabTried == {p \in CollabPerson : collabSession[p].pc = "committed" /\ collabSession[p].tries = 1}

CollabCounted ==
    /\ collabAudit \subseteq collabDone
    /\ IsFiniteSet(collabDone) /\ IsFiniteSet(CollabTried)
    /\ 2 * Cardinality(CollabLost) + Cardinality(CollabTried) <= 2 * collabCrashes + collabMisses

CollabInv == CollabTyped /\ CollabReviewed /\ CollabCounted

LEMMA CollabBounds == /\ MaxCollabFaults \in Nat /\ none \notin CollabPerson
                      /\ CollabAdministrator \subseteq CollabPerson
  BY ScenesAssumption
     DEF ScenesAssumption, Reviews!CollabPeopleAssumption, Reviews!CollabBoundAssumption

LEMMA CollabSizes ==
  ASSUME CollabCounted
  PROVE  /\ IsFiniteSet(CollabLost) /\ Cardinality(CollabLost) \in Nat
         /\ Cardinality(CollabTried) \in Nat
<1>1. CollabLost \subseteq collabDone
  BY DEF CollabLost
<1>2. IsFiniteSet(CollabLost)
  BY <1>1, FS_Subset DEF CollabCounted
<1>. QED  BY <1>2, FS_CardinalityType DEF CollabCounted

\* The account of lost records is kept when no more are lost or tried.
LEMMA CollabAccounts ==
  ASSUME CollabCounted, CollabTyped, CollabTyped', collabAudit' \subseteq collabDone',
         IsFiniteSet(collabDone'), CollabLost' \subseteq CollabLost,
         CollabTried' \subseteq CollabTried,
         collabCrashes' = collabCrashes, collabMisses' = collabMisses
  PROVE  CollabCounted'
<1>1. /\ Cardinality(CollabLost') \in Nat
      /\ Cardinality(CollabLost') <= Cardinality(CollabLost)
  BY CollabSizes, FS_Subset, FS_CardinalityType
<1>2. /\ IsFiniteSet(CollabTried') /\ Cardinality(CollabTried') \in Nat
      /\ Cardinality(CollabTried') <= Cardinality(CollabTried)
  BY FS_Subset, FS_CardinalityType DEF CollabCounted
<1>. QED  BY <1>1, <1>2, CollabSizes DEF CollabCounted, CollabTyped

\* One more is lost at most.
LEMMA CollabLoses ==
  ASSUME CollabCounted, NEW deed, CollabLost' \subseteq CollabLost \cup {deed}
  PROVE  /\ Cardinality(CollabLost') \in Nat
         /\ Cardinality(CollabLost') <= Cardinality(CollabLost) + 1
<1>1. /\ IsFiniteSet(CollabLost \cup {deed})
      /\ \/ Cardinality(CollabLost \cup {deed}) = Cardinality(CollabLost)
         \/ Cardinality(CollabLost \cup {deed}) = Cardinality(CollabLost) + 1
  BY CollabSizes, FS_AddElement
<1>2. /\ IsFiniteSet(CollabLost')
      /\ Cardinality(CollabLost') <= Cardinality(CollabLost \cup {deed})
  BY <1>1, FS_Subset
<1>3. Cardinality(CollabLost') \in Nat
  BY <1>2, FS_CardinalityType
<1>. QED  BY <1>1, <1>2, <1>3, CollabSizes

\* What a change of one session leaves of the others.
LEMMA CollabMoves ==
  ASSUME CollabTyped, NEW p \in CollabPerson, NEW e \in CollabPcs,
         collabSession' = [collabSession EXCEPT ![p] = e]
  PROVE  /\ collabSession' \in [CollabPerson -> CollabPcs] /\ collabSession'[p] = e
         /\ \A q \in CollabPerson \ {p} : collabSession'[q] = collabSession[q]
  BY DEF CollabTyped

\* The row that an operation saves.
LEMMA CollabSaves ==
  ASSUME CollabTyped, NEW p \in CollabPerson, collabSession[p].pc = "read",
         collabSession[p].deed.what = "review", CollabStands(p),
         Reviews!SaveRequest(collabSession[p].deed)
  PROVE  LET deed == collabSession[p].deed
         IN  /\ deed.on \in CollabRequest /\ collabRequest' \in [CollabRequest -> CollabRows]
             /\ collabRequest'[deed.on].status \in Reviews!Decision
             /\ collabRequest'[deed.on].target = collabRequest[deed.on].target
             /\ collabRequest'[deed.on].by = p
             /\ \A r \in CollabRequest \ {deed.on} : collabRequest'[r] = collabRequest[r]
<1>. DEFINE deed == collabSession[p].deed
            row == collabRequest[deed.on]
            new == [[row EXCEPT !.status = deed.to] EXCEPT !.by = deed.by]
<1>1. deed \in Reviews!Deed
  BY DEF CollabTyped, CollabPcs
<1>2. deed.on \in CollabRequest /\ deed.to \in Reviews!Decision /\ deed.by = p
  BY <1>1 DEF Reviews!Deed, CollabStands
<1>3. row \in Reviews!Pending \cup Reviews!Decided
  BY <1>2 DEF CollabTyped, CollabRows, CollabStands
<1>4. collabRequest' = [[collabRequest EXCEPT ![deed.on].status = deed.to] EXCEPT ![deed.on].by = deed.by]
  BY DEF Reviews!SaveRequest
<1>5. collabRequest' = [collabRequest EXCEPT ![deed.on] = new]
  BY <1>2, <1>4 DEF CollabTyped
<1>6. /\ new.status = deed.to /\ new.by = p /\ new.target = row.target
      /\ new \in Reviews!Decided
  BY <1>2, <1>3 DEF Reviews!Pending, Reviews!Decided
<1>. HIDE DEF new
<1>7. collabRequest'[deed.on] = new
      /\ \A r \in CollabRequest \ {deed.on} : collabRequest'[r] = collabRequest[r]
  BY <1>2, <1>5 DEF CollabTyped
<1>8. collabRequest' \in [CollabRequest -> CollabRows]
  BY <1>2, <1>5, <1>6 DEF CollabTyped, CollabRows
<1>. QED  BY <1>2, <1>6, <1>7, <1>8

LEMMA CollabInit == Reviews!Init => CollabInv
<1>. SUFFICES ASSUME Reviews!Init PROVE CollabInv
  OBVIOUS
<1>1. Reviews!Idle \in CollabPcs /\ Reviews!Idle.pc = "idle"
  BY DEF Reviews!Idle, CollabPcs
<1>2. /\ collabSupervisor \in [CollabDept -> CollabPerson \ CollabAdministrator]
      /\ collabSupervised = {<<d, collabSupervisor[d]>> : d \in CollabDept}
      /\ collabRequest = [r \in CollabRequest |-> [status |-> "none"]]
      /\ collabChannel = [c \in CollabChannel |-> "none"]
      /\ collabSession = [p \in CollabPerson |-> Reviews!Idle]
      /\ collabDone = {} /\ collabAudit = {} /\ collabCrashes = 0 /\ collabMisses = 0
  BY DEF Reviews!Init
<1>3. CollabTyped
  BY <1>1, <1>2, CollabBounds DEF CollabTyped, CollabRows
<1>4. \A p \in CollabPerson : collabSession[p].pc = "idle"
  BY <1>1, <1>2
<1>5. CollabReviewed
  <2>1. \A r \in CollabRequest : collabRequest[r].status = "none"
    BY <1>2
  <2>2. "none" \notin Reviews!Decision
    BY DEF Reviews!Decision
  <2>. QED  BY <1>2, <1>4, <2>1, <2>2 DEF CollabReviewed, CollabStands, Reviews!ReviewerEntitled
<1>6. CollabLost = {} /\ CollabTried = {}
  BY <1>2, <1>4 DEF CollabLost, CollabTried
<1>7. CollabCounted
  BY <1>2, <1>6, FS_EmptySet DEF CollabCounted
<1>. QED  BY <1>3, <1>5, <1>7 DEF CollabInv

\* Another supervisor is appointed; who supervised is remembered.
LEMMA CollabAppoints ==
  ASSUME CollabInv, NEW d \in CollabDept,
         NEW p \in (CollabPerson \ CollabAdministrator) \cup {none}, Reviews!Appoint(d, p)
  PROVE  CollabInv'
<1>1. /\ collabSupervisor' = [collabSupervisor EXCEPT ![d] = p]
      /\ collabSupervised' = collabSupervised \cup ({<<d, p>>} \cap (CollabDept \X CollabPerson))
      /\ UNCHANGED <<collabRequest, collabChannel, collabSession, collabDone, collabAudit,
                     collabCrashes, collabMisses>>
  BY DEF Reviews!Appoint
<1>2. CollabTyped'
  BY <1>1 DEF CollabInv, CollabTyped
<1>3. CollabReviewed'
  <2>1. collabSupervised \subseteq collabSupervised'
    BY <1>1
  <2>2. p # none => <<d, p>> \in collabSupervised'
    BY <1>1
  <2>3. ASSUME NEW e \in CollabDept, collabSupervisor'[e] # none
        PROVE  <<e, collabSupervisor'[e]>> \in collabSupervised'
    BY <1>1, <2>1, <2>2, <2>3 DEF CollabInv, CollabTyped, CollabReviewed
  <2>4. \A q \in CollabPerson : CollabStands(q)'
    BY <1>1, <2>1 DEF CollabInv, CollabReviewed, CollabStands, CollabEntitled
  <2>5. Reviews!ReviewerEntitled'
    BY <1>1, <2>1 DEF CollabInv, CollabReviewed, Reviews!ReviewerEntitled
  <2>. QED  BY <2>3, <2>4, <2>5 DEF CollabReviewed
<1>4. CollabCounted'
  BY <1>1 DEF CollabInv, CollabCounted, CollabLost, CollabTried, CollabPending
<1>. QED  BY <1>2, <1>3, <1>4 DEF CollabInv

\* A request begins undecided.
LEMMA CollabCreates ==
  ASSUME CollabInv, NEW r \in CollabRequest, NEW d \in CollabDept,
         NEW c \in CollabCategory, NEW given \in {none, "low", "high"},
         Reviews!CreateRequest(r, d, c, given)
  PROVE  CollabInv'
<1>. DEFINE new == [status |-> "pending", target |-> d, category |-> c,
                    risk |-> Reviews!RiskLevel(c, given), by |-> none]
<1>1. /\ collabRequest[r].status = "none"
      /\ collabRequest' = [collabRequest EXCEPT ![r] = new]
      /\ UNCHANGED <<collabSupervisor, collabSupervised, collabChannel, collabSession,
                     collabDone, collabAudit, collabCrashes, collabMisses>>
  BY DEF Reviews!CreateRequest
<1>2. Reviews!RiskLevel(c, given) \in {"low", "high"}
  BY DEF Reviews!RiskLevel, Reviews!classify_risk
<1>3. new \in CollabRows /\ new.status = "pending"
  BY <1>2 DEF CollabRows, Reviews!Pending
<1>. HIDE DEF new
<1>4. /\ collabRequest'[r] = new
      /\ \A s \in CollabRequest \ {r} : collabRequest'[s] = collabRequest[s]
  BY <1>1 DEF CollabInv, CollabTyped
<1>5. CollabTyped'
  BY <1>1, <1>3 DEF CollabInv, CollabTyped
<1>6. \A p \in CollabPerson : CollabStands(p)'
  <2>1. ASSUME NEW p \in CollabPerson, collabSession[p].pc # "idle",
               collabSession[p].deed.what = "review"
        PROVE  /\ collabRequest'[collabSession[p].deed.on] = collabRequest[collabSession[p].deed.on]
    <3>1. collabSession[p].deed \in Reviews!Deed
      BY <2>1 DEF CollabInv, CollabTyped, CollabPcs
    <3>2. collabSession[p].deed.on \in CollabRequest
      BY <2>1, <3>1 DEF Reviews!Deed
    <3>. QED  BY <1>1, <1>4, <2>1, <3>2 DEF CollabInv, CollabReviewed, CollabStands
  <2>2. ASSUME NEW p \in CollabPerson
        PROVE  CollabStands(p)'
    <3>1. CollabStands(p)
      BY DEF CollabInv, CollabReviewed
    <3>2. /\ collabSession' = collabSession /\ collabDone' = collabDone
          /\ collabSupervised' = collabSupervised
      BY <1>1
    <3>. QED  BY <2>1, <3>1, <3>2 DEF CollabStands, CollabEntitled
  <2>. QED  BY <2>2
<1>7. Reviews!ReviewerEntitled'
  <2>1. "pending" \notin Reviews!Decision
    BY DEF Reviews!Decision
  <2>. QED  BY <1>1, <1>3, <1>4, <2>1 DEF CollabInv, CollabReviewed, Reviews!ReviewerEntitled
<1>8. CollabReviewed'
  BY <1>1, <1>6, <1>7 DEF CollabInv, CollabReviewed
<1>9. CollabCounted'
  BY <1>1 DEF CollabInv, CollabCounted, CollabLost, CollabTried, CollabPending
<1>. QED  BY <1>5, <1>8, <1>9 DEF CollabInv

\* Who opens an operation is idle, and reviews what he may review.
LEMMA CollabOpens ==
  ASSUME CollabInv, NEW p \in CollabPerson, NEW deed \in Reviews!Deed,
         collabSession[p].pc = "idle",
         collabSession' = [collabSession EXCEPT ![p] = [pc |-> "read", tries |-> 0, deed |-> deed]],
         deed.what = "review" => /\ collabRequest[deed.on].status # "none" /\ deed.by = p
                                 /\ CollabEntitled(collabRequest[deed.on].target, p),
         UNCHANGED <<collabSupervisor, collabSupervised, collabRequest, collabChannel,
                     collabDone, collabAudit, collabCrashes, collabMisses>>
  PROVE  CollabInv'
<1>. DEFINE e == [pc |-> "read", tries |-> 0, deed |-> deed]
<1>1. e \in CollabPcs /\ e.pc = "read" /\ e.deed = deed
  BY DEF CollabPcs
<1>2. collabSession' = [collabSession EXCEPT ![p] = e]
  OBVIOUS
<1>. HIDE DEF e
<1>3. /\ collabSession' \in [CollabPerson -> CollabPcs] /\ collabSession'[p] = e
      /\ \A q \in CollabPerson \ {p} : collabSession'[q] = collabSession[q]
  BY <1>1, <1>2, CollabMoves DEF CollabInv
<1>4. CollabTyped'
  BY <1>3 DEF CollabInv, CollabTyped
<1>5. CollabReviewed'
  <2>1. \A q \in CollabPerson : CollabStands(q)'
    BY <1>1, <1>3 DEF CollabInv, CollabReviewed, CollabStands, CollabEntitled
  <2>. QED  BY <2>1 DEF CollabInv, CollabReviewed, Reviews!ReviewerEntitled
<1>6. CollabTried' = CollabTried
  BY <1>1, <1>3 DEF CollabTried
<1>7. \A x : CollabPending(x)' <=> CollabPending(x)
  BY <1>1, <1>3 DEF CollabPending
<1>8. CollabLost' = CollabLost
  BY <1>7 DEF CollabLost
<1>9. CollabCounted'
  BY <1>6, <1>8 DEF CollabInv, CollabCounted
<1>. QED  BY <1>4, <1>5, <1>9 DEF CollabInv

LEMMA CollabGoverns ==
  ASSUME CollabInv, NEW p \in CollabPerson, Reviews!Governs(p)
  PROVE  CollabInv'
<1>1. ASSUME NEW r \in CollabRequest, NEW to \in Reviews!Decision, Reviews!OpenReview(p, r, to)
      PROVE  CollabInv'
  <2>. DEFINE deed == [what |-> "review", on |-> r, by |-> p, to |-> to]
  <2>1. deed \in Reviews!Deed /\ deed.what = "review" /\ deed.on = r /\ deed.by = p
    BY DEF Reviews!Deed
  <2>2. /\ collabSession[p].pc = "idle" /\ collabRequest[r].status = "pending"
        /\ p \in CollabAdministrator \/ collabSupervisor[collabRequest[r].target] = p
        /\ collabSession' = [collabSession EXCEPT ![p] = [pc |-> "read", tries |-> 0, deed |-> deed]]
        /\ UNCHANGED <<collabSupervisor, collabSupervised, collabRequest, collabChannel,
                       collabDone, collabAudit, collabCrashes, collabMisses>>
    BY <1>1 DEF Reviews!OpenReview, Reviews!At, Reviews!CanReview
  <2>3. collabRequest[r].target \in CollabDept
    BY <2>2 DEF CollabInv, CollabTyped, CollabRows, Reviews!Pending, Reviews!Decided, Reviews!Decision
  <2>4. CollabEntitled(collabRequest[r].target, p)
    BY <2>2, <2>3, CollabBounds DEF CollabInv, CollabReviewed, CollabEntitled
  <2>. HIDE DEF deed
  <2>. QED  BY <2>1, <2>2, <2>4, CollabOpens
<1>2. ASSUME NEW c \in CollabChannel, NEW what \in {"authorize", "revoke"},
             p \in CollabAdministrator, collabSession[p].pc = "idle",
             collabSession' = [collabSession EXCEPT ![p] =
                [pc |-> "read", tries |-> 0, deed |-> [what |-> what, on |-> c, by |-> p]]],
             UNCHANGED <<collabSupervisor, collabSupervised, collabRequest, collabChannel,
                         collabDone, collabAudit, collabCrashes, collabMisses>>
      PROVE  CollabInv'
  <2>. DEFINE deed == [what |-> what, on |-> c, by |-> p]
  <2>1. deed \in Reviews!Deed /\ deed.what # "review"
    BY <1>2 DEF Reviews!Deed
  <2>2. collabSession' = [collabSession EXCEPT ![p] = [pc |-> "read", tries |-> 0, deed |-> deed]]
    BY <1>2
  <2>. HIDE DEF deed
  <2>. QED  BY <1>2, <2>1, <2>2, CollabOpens
<1>3. ASSUME NEW c \in CollabChannel, Reviews!OpenAuthorize(p, c)
      PROVE  CollabInv'
  BY <1>2, <1>3 DEF Reviews!OpenAuthorize, Reviews!At
<1>4. ASSUME NEW c \in CollabChannel, Reviews!OpenRevoke(p, c)
      PROVE  CollabInv'
  BY <1>2, <1>4 DEF Reviews!OpenRevoke, Reviews!At
<1>. QED  BY <1>1, <1>3, <1>4 DEF Reviews!Governs

\* What is committed is of a person who was entitled, and has its record to come.
LEMMA CollabCommits ==
  ASSUME CollabInv, NEW p \in CollabPerson, Reviews!Save(p)
  PROVE  CollabInv'
<1>. DEFINE deed == collabSession[p].deed
            e == [collabSession[p] EXCEPT !.pc = "committed"]
<1>1. /\ collabSession[p].pc = "read"
      /\ IF deed.what = "review"
         THEN Reviews!SaveRequest(deed) /\ UNCHANGED collabChannel
         ELSE Reviews!SaveChannel(deed) /\ UNCHANGED collabRequest
      /\ collabSession' = [collabSession EXCEPT ![p].pc = "committed"]
      /\ collabDone' = collabDone \cup {deed}
      /\ UNCHANGED <<collabSupervisor, collabSupervised, collabAudit, collabCrashes, collabMisses>>
  BY DEF Reviews!Save, Reviews!At
<1>2. collabSession[p] \in [pc : {"read"}, tries : {0}, deed : Reviews!Deed]
  BY <1>1 DEF CollabInv, CollabTyped, CollabPcs
<1>3. /\ e \in CollabPcs /\ e.pc = "committed" /\ e.deed = deed /\ e.tries = 0
      /\ deed \in Reviews!Deed
  BY <1>2 DEF CollabPcs
<1>4. collabSession' = [collabSession EXCEPT ![p] = e]
  BY <1>1 DEF CollabInv, CollabTyped
<1>. HIDE DEF e
<1>5. /\ collabSession' \in [CollabPerson -> CollabPcs] /\ collabSession'[p] = e
      /\ \A q \in CollabPerson \ {p} : collabSession'[q] = collabSession[q]
  BY <1>3, <1>4, CollabMoves DEF CollabInv
<1>6. CollabStands(p)
  BY DEF CollabInv, CollabReviewed
<1>7. ASSUME deed.what = "review"
      PROVE  CollabTyped' /\ CollabReviewed'
  <2>1. /\ deed.on \in CollabRequest /\ collabRequest' \in [CollabRequest -> CollabRows]
        /\ collabRequest'[deed.on].status \in Reviews!Decision
        /\ collabRequest'[deed.on].target = collabRequest[deed.on].target
        /\ collabRequest'[deed.on].by = p
        /\ \A r \in CollabRequest \ {deed.on} : collabRequest'[r] = collabRequest[r]
    BY <1>1, <1>6, <1>7, CollabSaves DEF CollabInv
  <2>2. "none" \notin Reviews!Decision
    BY DEF Reviews!Decision
  <2>3. \A r \in CollabRequest : collabRequest[r].status # "none" =>
           /\ collabRequest'[r].status # "none"
           /\ collabRequest'[r].target = collabRequest[r].target
    BY <2>1, <2>2
  <2>4. \A q \in CollabPerson : collabSession[q].pc # "idle" /\ collabSession[q].deed.what = "review"
           => collabSession[q].deed.on \in CollabRequest
    <3>1. \A q \in CollabPerson : collabSession[q].pc # "idle" => collabSession[q].deed \in Reviews!Deed
      BY DEF CollabInv, CollabTyped, CollabPcs
    <3>. QED  BY <3>1 DEF Reviews!Deed
  <2>5. CollabTyped'
    BY <1>1, <1>3, <1>5, <1>7, <2>1 DEF CollabInv, CollabTyped
  <2>6. \A q \in CollabPerson : CollabStands(q)'
    <3>1. CollabStands(p)'
      BY <1>1, <1>3, <1>5, <1>6, <1>7, <2>1, <2>2 DEF CollabStands, CollabEntitled
    <3>2. ASSUME NEW q \in CollabPerson \ {p}
          PROVE  CollabStands(q)'
      <4>1. CollabStands(q) /\ collabSession'[q] = collabSession[q]
        BY <1>5 DEF CollabInv, CollabReviewed
      <4>. QED  BY <1>1, <2>3, <2>4, <4>1 DEF CollabStands, CollabEntitled
    <3>. QED  BY <3>1, <3>2
  <2>7. Reviews!ReviewerEntitled'
    <3>1. CollabEntitled(collabRequest[deed.on].target, p)
      BY <1>1, <1>6, <1>7 DEF CollabStands
    <3>. QED  BY <1>1, <2>1, <3>1
              DEF CollabInv, CollabReviewed, Reviews!ReviewerEntitled, CollabEntitled
  <2>8. CollabReviewed'
    BY <1>1, <2>6, <2>7 DEF CollabInv, CollabReviewed
  <2>. QED  BY <2>5, <2>8
<1>8. ASSUME deed.what # "review"
      PROVE  CollabTyped' /\ CollabReviewed'
  <2>1. /\ collabRequest' = collabRequest
        /\ collabChannel' \in [CollabChannel -> {"none", "active", "deleted"}]
    BY <1>1, <1>8 DEF Reviews!SaveChannel, CollabInv, CollabTyped
  <2>2. CollabTyped'
    BY <1>1, <1>3, <1>5, <2>1 DEF CollabInv, CollabTyped
  <2>3. \A q \in CollabPerson : CollabStands(q)'
    BY <1>1, <1>3, <1>5, <1>8, <2>1
       DEF CollabInv, CollabReviewed, CollabStands, CollabEntitled
  <2>4. CollabReviewed'
    BY <1>1, <2>1, <2>3 DEF CollabInv, CollabReviewed, Reviews!ReviewerEntitled
  <2>. QED  BY <2>2, <2>4
<1>9. CollabTyped' /\ CollabReviewed'
  BY <1>7, <1>8
<1>10. CollabTried' = CollabTried
  <2>1. p \notin CollabTried /\ p \notin CollabTried'
    <3>1. collabSession[p].pc # "committed"
      BY <1>1
    <3>2. collabSession'[p].tries # 1
      BY <1>3, <1>5
    <3>. QED  BY <3>1, <3>2 DEF CollabTried
  <2>2. ASSUME NEW q \in CollabPerson \ {p}
        PROVE  q \in CollabTried' <=> q \in CollabTried
    BY <1>5 DEF CollabTried
  <2>. QED  BY <2>1, <2>2 DEF CollabTried
<1>11. CollabLost' \subseteq CollabLost
  <2>1. CollabPending(deed)'
    BY <1>3, <1>5 DEF CollabPending
  <2>2. \A x : CollabPending(x) => CollabPending(x)'
    BY <1>1, <1>5 DEF CollabPending
  <2>. QED  BY <1>1, <2>1, <2>2 DEF CollabLost
<1>12. IsFiniteSet(collabDone') /\ collabAudit' \subseteq collabDone'
  BY <1>1, FS_AddElement DEF CollabInv, CollabCounted
<1>13. CollabCounted'
  BY <1>1, <1>9, <1>10, <1>11, <1>12, CollabAccounts DEF CollabInv
<1>. QED  BY <1>9, <1>13 DEF CollabInv

\* What an operation that is over leaves of the account.
LEMMA CollabCloses ==
  ASSUME CollabInv, NEW p \in CollabPerson, Reviews!End(p), collabSession[p].pc # "idle",
         UNCHANGED <<collabSupervisor, collabSupervised, collabRequest, collabChannel, collabDone>>
  PROVE  /\ collabSession' \in [CollabPerson -> CollabPcs]
         /\ CollabReviewed' /\ CollabTried' = CollabTried \ {p}
         /\ collabAudit' = collabAudit => CollabLost' \subseteq CollabLost \cup {collabSession[p].deed}
         /\ collabAudit' = collabAudit \cup {collabSession[p].deed} => CollabLost' \subseteq CollabLost
<1>1. Reviews!Idle \in CollabPcs /\ Reviews!Idle.pc = "idle"
  BY DEF Reviews!Idle, CollabPcs
<1>2. /\ collabSession' \in [CollabPerson -> CollabPcs] /\ collabSession'[p] = Reviews!Idle
      /\ \A q \in CollabPerson \ {p} : collabSession'[q] = collabSession[q]
  BY <1>1, CollabMoves DEF Reviews!End, CollabInv
<1>3. CollabReviewed'
  <2>1. \A q \in CollabPerson : CollabStands(q)'
    BY <1>1, <1>2 DEF CollabInv, CollabReviewed, CollabStands, CollabEntitled
  <2>. QED  BY <2>1 DEF CollabInv, CollabReviewed, Reviews!ReviewerEntitled
<1>4. CollabTried' = CollabTried \ {p}
  BY <1>1, <1>2 DEF CollabTried
<1>5. \A x : CollabPending(x) => CollabPending(x)' \/ x = collabSession[p].deed
  BY <1>2 DEF CollabPending
<1>. QED  BY <1>2, <1>3, <1>4, <1>5 DEF CollabLost

LEMMA CollabAppends ==
  ASSUME CollabInv, NEW p \in CollabPerson, Reviews!Append(p)
  PROVE  CollabInv'
<1>1. /\ collabSession[p].pc = "committed" /\ Reviews!End(p)
      /\ collabAudit' = collabAudit \cup {collabSession[p].deed}
      /\ UNCHANGED <<collabSupervisor, collabSupervised, collabRequest, collabChannel,
                     collabDone, collabCrashes, collabMisses>>
  BY DEF Reviews!Append, Reviews!At
<1>2. /\ collabSession' \in [CollabPerson -> CollabPcs] /\ CollabReviewed'
      /\ CollabTried' \subseteq CollabTried /\ CollabLost' \subseteq CollabLost
  BY <1>1, CollabCloses
<1>3. CollabTyped'
  BY <1>1, <1>2 DEF CollabInv, CollabTyped
<1>4. collabSession[p].deed \in collabDone
  BY <1>1 DEF CollabInv, CollabReviewed, CollabStands
<1>5. CollabCounted'
  BY <1>1, <1>2, <1>3, <1>4, CollabAccounts DEF CollabInv, CollabCounted
<1>. QED  BY <1>2, <1>3, <1>5 DEF CollabInv

\* A record that is refused is tried again, and lost when it is refused again.
LEMMA CollabRefuses ==
  ASSUME CollabInv, NEW p \in CollabPerson, Reviews!AppendFails(p)
  PROVE  CollabInv'
<1>1. /\ collabSession[p].pc = "committed" /\ collabCrashes + collabMisses < MaxCollabFaults
      /\ collabMisses' = collabMisses + 1
      /\ UNCHANGED <<collabSupervisor, collabSupervised, collabRequest, collabChannel,
                     collabDone, collabAudit, collabCrashes>>
  BY DEF Reviews!AppendFails, Reviews!At
<1>2. collabSession[p] \in [pc : {"committed"}, tries : 0..1, deed : Reviews!Deed]
  BY <1>1 DEF CollabInv, CollabTyped, CollabPcs
<1>3. CASE collabSession[p].tries = 0
  <2>. DEFINE e == [collabSession[p] EXCEPT !.tries = 1]
  <2>1. collabSession' = [collabSession EXCEPT ![p] = e]
    BY <1>3 DEF Reviews!AppendFails, Reviews!Tries, CollabInv, CollabTyped
  <2>2. e \in CollabPcs /\ e.pc = "committed" /\ e.tries = 1 /\ e.deed = collabSession[p].deed
    BY <1>2 DEF CollabPcs
  <2>. HIDE DEF e
  <2>3. /\ collabSession' \in [CollabPerson -> CollabPcs] /\ collabSession'[p] = e
        /\ \A q \in CollabPerson \ {p} : collabSession'[q] = collabSession[q]
    BY <2>1, <2>2, CollabMoves DEF CollabInv
  <2>4. CollabTyped'
    BY <1>1, <2>3, CollabBounds DEF CollabInv, CollabTyped
  <2>5. CollabReviewed'
    <3>1. \A q \in CollabPerson : CollabStands(q)'
      BY <1>1, <2>2, <2>3 DEF CollabInv, CollabReviewed, CollabStands, CollabEntitled
    <3>. QED  BY <1>1, <3>1 DEF CollabInv, CollabReviewed, Reviews!ReviewerEntitled
  <2>6. CollabTried' = CollabTried \cup {p} /\ p \notin CollabTried
    BY <1>1, <1>3, <2>2, <2>3 DEF CollabTried
  <2>7. \A x : CollabPending(x)' <=> CollabPending(x)
    BY <1>1, <2>2, <2>3 DEF CollabPending
  <2>8. CollabLost' = CollabLost
    BY <1>1, <2>7 DEF CollabLost
  <2>9. /\ IsFiniteSet(CollabTried')
        /\ Cardinality(CollabTried') = Cardinality(CollabTried) + 1
    BY <2>6, FS_AddElement DEF CollabInv, CollabCounted
  <2>10. CollabCounted'
    BY <1>1, <2>8, <2>9, CollabSizes DEF CollabInv, CollabCounted, CollabTyped
  <2>. QED  BY <2>4, <2>5, <2>10 DEF CollabInv
<1>4. CASE collabSession[p].tries = 1
  <2>1. Reviews!End(p)
    BY <1>4 DEF Reviews!AppendFails, Reviews!Tries
  <2>2. /\ collabSession' \in [CollabPerson -> CollabPcs] /\ CollabReviewed'
        /\ CollabTried' = CollabTried \ {p}
        /\ CollabLost' \subseteq CollabLost \cup {collabSession[p].deed}
    BY <1>1, <2>1, CollabCloses
  <2>3. CollabTyped'
    BY <1>1, <2>2, CollabBounds DEF CollabInv, CollabTyped
  <2>4. p \in CollabTried
    BY <1>1, <1>4 DEF CollabTried
  <2>5. /\ IsFiniteSet(CollabTried')
        /\ Cardinality(CollabTried') = Cardinality(CollabTried) - 1
    BY <2>2, <2>4, FS_RemoveElement DEF CollabInv, CollabCounted
  <2>6. /\ Cardinality(CollabLost') \in Nat
        /\ Cardinality(CollabLost') <= Cardinality(CollabLost) + 1
    BY <2>2, CollabLoses DEF CollabInv
  <2>7. CollabCounted'
    BY <1>1, <2>5, <2>6, CollabSizes DEF CollabInv, CollabCounted, CollabTyped
  <2>. QED  BY <2>2, <2>3, <2>7 DEF CollabInv
<1>. QED  BY <1>2, <1>3, <1>4

\* A request that is cut short loses a record at most.
LEMMA CollabEnds ==
  ASSUME CollabInv, NEW p \in CollabPerson, Reviews!Ends(p)
  PROVE  CollabInv'
<1>1. /\ collabSession[p].pc # "idle" /\ collabCrashes + collabMisses < MaxCollabFaults
      /\ collabCrashes' = collabCrashes + 1 /\ Reviews!End(p)
      /\ UNCHANGED <<collabSupervisor, collabSupervised, collabRequest, collabChannel,
                     collabDone, collabAudit, collabMisses>>
  BY DEF Reviews!Ends, Reviews!At
<1>2. /\ collabSession' \in [CollabPerson -> CollabPcs] /\ CollabReviewed'
      /\ CollabTried' \subseteq CollabTried
      /\ CollabLost' \subseteq CollabLost \cup {collabSession[p].deed}
  BY <1>1, CollabCloses
<1>3. CollabTyped'
  BY <1>1, <1>2, CollabBounds DEF CollabInv, CollabTyped
<1>4. /\ IsFiniteSet(CollabTried') /\ Cardinality(CollabTried') \in Nat
      /\ Cardinality(CollabTried') <= Cardinality(CollabTried)
  BY <1>2, FS_Subset, FS_CardinalityType DEF CollabInv, CollabCounted
<1>5. /\ Cardinality(CollabLost') \in Nat
      /\ Cardinality(CollabLost') <= Cardinality(CollabLost) + 1
  BY <1>2, CollabLoses DEF CollabInv
<1>6. CollabCounted'
  BY <1>1, <1>4, <1>5, CollabSizes DEF CollabInv, CollabCounted, CollabTyped
<1>. QED  BY <1>2, <1>3, <1>6 DEF CollabInv

LEMMA CollabNext ==
  ASSUME CollabInv, Reviews!Next \/ UNCHANGED collabVars
  PROVE  CollabInv'
<1>1. CASE UNCHANGED collabVars
  BY <1>1 DEF collabVars, CollabInv, CollabTyped, CollabReviewed, CollabStands, CollabEntitled,
              CollabCounted, CollabLost, CollabTried, CollabPending, Reviews!ReviewerEntitled
<1>2. CASE Reviews!Creates
  BY <1>2, CollabCreates DEF Reviews!Creates, Reviews!AgentRequests
<1>. QED  BY <1>1, <1>2, CollabAppoints, CollabGoverns, CollabCommits, CollabAppends,
             CollabRefuses, CollabEnds DEF Reviews!Next

\* What the invariant says to the auditor.
LEMMA CollabPromises ==
  ASSUME CollabInv
  PROVE  /\ Reviews!TypeOK /\ Reviews!ReviewerEntitled
         /\ Reviews!AuditIsTrue /\ Reviews!LostRecordsAreCounted
<1>1. Reviews!TypeOK
  <2>1. collabAudit \subseteq Reviews!Deed
    BY DEF CollabInv, CollabTyped, CollabCounted
  <2>2. \A p \in CollabPerson : /\ collabSession[p].tries \in 0..1
                                /\ collabSession[p].pc = "idle" \/ collabSession[p].deed \in Reviews!Deed
    BY DEF CollabInv, CollabTyped, CollabPcs
  <2>. QED  BY <2>1, <2>2 DEF CollabInv, CollabTyped, CollabRows, Reviews!TypeOK, Reviews!At
<1>2. Reviews!ReviewerEntitled /\ Reviews!AuditIsTrue
  BY DEF CollabInv, CollabReviewed, CollabCounted, Reviews!AuditIsTrue
<1>3. Reviews!LostRecordsAreCounted
  <2>. DEFINE unwritten == {deed \in collabDone \ collabAudit :
                               \A p \in CollabPerson : Reviews!At(p, "committed") =>
                                  collabSession[p].deed # deed}
  <2>1. unwritten = CollabLost
    BY DEF CollabLost, CollabPending, Reviews!At
  <2>2. Reviews!Cardinality(unwritten) = Cardinality(CollabLost)
    BY <2>1 DEF Reviews!Cardinality, Cardinality
  <2>3. Cardinality(CollabLost) <= collabCrashes + (collabMisses \div 2)
    BY CollabSizes DEF CollabInv, CollabCounted, CollabTyped
  <2>. QED  BY <2>2, <2>3 DEF Reviews!LostRecordsAreCounted
<1>. QED  BY <1>1, <1>2, <1>3

-----------------------------------------------------------------------------
(* The scenes. *)

\* A step leaves the scene alone, and the variables of the components of other scenes.
LEMMA ScenesStay ==
  ASSUME [Next]_vars
  PROVE  /\ scene' = scene
         /\ (scene = "proposal" /\ Proposal!Next) \/ UNCHANGED proposalVars
         /\ (scene = "meeting" /\ Meeting!Next) \/ UNCHANGED meetingVars
         /\ (scene = "group" /\ Group!Next) \/ UNCHANGED groupVars
         /\ (scene = "archives" /\ Archives!Next) \/ UNCHANGED talkVars
         /\ scene = "focus" => Focused!Next \/ UNCHANGED diaryVars
         /\ scene = "projects" => Projects!Next \/ UNCHANGED projectVars
         /\ scene = "reviews" => Reviews!Next \/ UNCHANGED collabVars
         /\ scene = "cards" => Cards!Next \/ UNCHANGED cardVars
         /\ scene = "manual" => Manual!Next \/ UNCHANGED cardVars
  BY DEF Next, vars

\* However the requests of people overlap: a meeting's task was confirmed by people and is
\* the only one unless a late confirmation hid its mark, who may list a meeting may open
\* it, a decision on a proposal follows a research, and what is approved or becomes a task
\* was approved by a person.
THEOREM PeopleAlwaysDecide == Spec => []PeopleDecide
<1>. DEFINE Inv == /\ scene = "meeting" => MeetingInv
                   /\ scene = "proposal" => ProposalInv
<1>1. Init => Inv
  BY MeetingInit, ProposalInit DEF Init
<1>2. Inv /\ [Next]_vars => Inv'
  BY ScenesStay, MeetingNext, ProposalNext
<1>3. Inv => PeopleDecide
  BY MeetingPromises
     DEF PeopleDecide, MeetingInv, MeetingTyped, ProposalInv, ProposalTyped, ProposalReasons,
         Proposal!ApprovedByPeople
<1>. QED  BY <1>1, <1>2, <1>3, PTL DEF Spec

\* However the requests of a group overlap: who was put out of it before a message was
\* published, and is not back, never receives it, and a message becomes one proposal at
\* most.
THEOREM GroupsAlwaysPrivate == Spec => []GroupsStayPrivate
<1>. DEFINE Inv == scene = "group" => GroupInv
<1>1. Init => Inv
  BY GroupInit DEF Init
<1>2. Inv /\ [Next]_vars => Inv'
  BY ScenesStay, GroupNext
<1>3. Inv => GroupsStayPrivate
  BY GroupPromises DEF GroupsStayPrivate, GroupInv
<1>. QED  BY <1>1, <1>2, <1>3, PTL DEF Spec

\* However the page loads, turns and pins of a conversation overlap, fail or die, a message
\* leaves the table only after an archive that holds it was stored, and never one of the
\* history window; and however requests that loaded a project before save it after, it is
\* archived exactly when its owner was told so, and a new name that was told is there until
\* another is.
THEOREM MemoryAlwaysKept == Spec => []MemoryIsKept
<1>. DEFINE Inv == /\ scene = "archives" => TalkInv
                   /\ scene = "projects" => ProjectInv
<1>1. Init => Inv
  BY TalkInit, ProjectInit DEF Init
<1>2. Inv /\ [Next]_vars => Inv'
  BY ScenesStay, TalkNext, ProjectNext
<1>3. Inv => MemoryIsKept
  BY TalkPromises, ProjectPromises DEF MemoryIsKept
<1>. QED  BY <1>1, <1>2, <1>3, PTL DEF Spec

\* However reviews, appointments and failures overlap: whoever reviewed a collaboration was
\* entitled to when its request was opened, the audit trail holds nothing that did not
\* happen, and a record is lost only by a request that ended or by two refusals of it.
THEOREM ReviewsAlwaysAudited == Spec => []ReviewsAreAudited
<1>. DEFINE Inv == scene = "reviews" => CollabInv
<1>1. Init => Inv
  BY CollabInit DEF Init
<1>2. Inv /\ [Next]_vars => Inv'
  BY ScenesStay, CollabNext
<1>3. Inv => ReviewsAreAudited
  BY CollabPromises DEF ReviewsAreAudited
<1>. QED  BY <1>1, <1>2, <1>3, PTL DEF Spec

\* However the task cards of a run lag behind it: while its steps only succeed, wait or are
\* rejected, a card says what its step says once every event is handled; and whatever
\* people move by hand, no work behind a red line is done before a person approved it, a
\* decision concerns the version its human saw, and an accepted card has a reason.
THEOREM CardsAlwaysFollow == Spec => []CardsFollowTheRun
<1>. DEFINE Inv == /\ scene = "cards" => CardInv
                   /\ scene = "manual" => HandInv
<1>1. Init => Inv
  BY CardInit, HandInit DEF Init
<1>2. Inv /\ [Next]_vars => Inv'
  BY ScenesStay, CardNext, HandNext
<1>3. Inv => CardsFollowTheRun
  BY CardPromises DEF CardsFollowTheRun, HandInv
<1>. QED  BY <1>1, <1>2, <1>3, PTL DEF Spec

\* With one request at a time a person has one focus session (start_focus).
THEOREM OneSessionAtATime == Spec => [](scene = "focus" => Focused!OneFocus)
<1>. DEFINE Inv == scene = "focus" => FocusInv
<1>1. Init => Inv
  BY FocusInit DEF Init
<1>2. Inv /\ [Next]_vars => Inv'
  BY ScenesStay, FocusNext
<1>3. Inv => (scene = "focus" => Focused!OneFocus)
  BY FocusPromises
<1>. QED  BY <1>1, <1>2, <1>3, PTL DEF Spec

\* No step undoes an end: a message that was archived does not come back, whatever turn or
\* pin was under way, and a session that was completed or aborted stays as it ended.
THEOREM EndedNeverReturns == Spec => EndedStaysEnded
<1>. DEFINE Inv == /\ scene = "archives" => TalkInv
                   /\ scene = "focus" => FocusInv
<1>1. Init => Inv
  BY TalkInit, FocusInit DEF Init
<1>2. Inv /\ [Next]_vars => Inv'
  BY ScenesStay, TalkNext, FocusNext
<1>3. Inv /\ [Next]_vars => [/\ scene = "archives" => Archives!GoneStaysGone
                             /\ scene = "focus" => Focused!FocusEndsOnce]_vars
  BY ScenesStay, TalkNext, FocusNext
<1>. QED  BY <1>1, <1>2, <1>3, PTL DEF Spec, EndedStaysEnded
=============================================================================
