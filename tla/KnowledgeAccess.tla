---------------------------- MODULE KnowledgeAccess ----------------------------
(***************************************************************************)
(* Who reads what: knowledge bases of the company, of departments and of   *)
(* persons, grants on them, and the questions of people and of AI          *)
(* employees.  A question first computes the bases that are visible and    *)
(* then, after its embedding, searches the documents that lie in them.     *)
(***************************************************************************)
EXTENDS Integers, Sequences, FiniteSets, Functions, TLAPS

CONSTANTS
    Dept, Path,     \* departments; [Dept -> the departments from the company to it]
    Nowhere,        \* no department
    Person, Admin, Agent, \* who asks; the persons that are administrators
    Home,           \* [Person \cup Agent -> Dept \cup {Nowhere}]
    Base,           \* ids of bases that managers create
    Own,            \* [Person -> an id of a base]: code personal:{id}
    Doc,            \* documents
    Grant,          \* ids of grants
    Moves, Edits    \* bounds: documents moved to another base; settings changed

Asker == Person \cup Agent
AllBase == Base \cup Range(Own)

AccessAssumption ==
    /\ Path \in [Dept -> Seq(Dept)] /\ Nowhere \notin Dept \cup AllBase /\ Admin \subseteq Person
    /\ Person \cap Agent = {} /\ Home \in [Asker -> Dept \cup {Nowhere}]
    /\ Base \cap Range(Own) = {} /\ {Moves, Edits} \subseteq Nat

VARIABLES
    base,       \* [AllBase -> [live, scope, dept, owner, secret, active]]
    grant,      \* [Grant -> [state, base, to]]: none, live, over (expired) or revoked
    lies,       \* [Doc -> the base, or Nowhere]
    ask,        \* [Asker -> question]
    clerk,      \* the change of a grant whose record is not written yet, or "none"
    audit,      \* records of the audit trail
    moves, edits,
    once        \* [Asker -> bases and documents open to it at some time of its question]: history

counts == <<moves, edits>>
vars == <<base, grant, lies, ask, clerk, audit, counts, once>>

-----------------------------------------------------------------------------
NoBase == [live |-> "none", scope |-> "company", dept |-> Nowhere, owner |-> Nowhere,
           secret |-> FALSE, active |-> TRUE]
NoGrant == [state |-> "none", base |-> Nowhere, to |-> Nowhere]
Quiet == [pc |-> "idle", ids |-> {}, cited |-> {}, from |-> {}]

Live(b) == base[b].live = "live" /\ base[b].active
Above(p) == IF Home[p] = Nowhere THEN {} ELSE Range(Path[Home[p]])

\* docs/13: open to all but what is confidential or personal; that, to the department of the base
\* and those below it, to the owner, and to those with a grant, of their own or of a department
\* that they are in or below; all to administrators.
Open(p, bases, grants) ==
    {b \in AllBase :
        \/ /\ bases[b].live = "live" /\ bases[b].active
           /\ \/ p \in Admin
              \/ bases[b].scope # "personal" /\ ~bases[b].secret
              \/ bases[b].secret /\ bases[b].dept # Nowhere /\ bases[b].dept \in Above(p)
              \/ bases[b].scope = "personal" /\ bases[b].owner = p
              \/ p \in DOMAIN Own /\ b = Own[p]
        \/ \E g \in Grant : /\ grants[g].state = "live" /\ grants[g].base = b
                            /\ grants[g].to = p \/ grants[g].to \in Above(p)}

\* The bases and the documents that are open; what is open to those who ask is added to what was.
OpenNow(p, bases, grants, at) ==
    LET open == Open(p, bases, grants) IN open \cup {d \in Doc : at[d] \in open}
Noted == once' = [p \in Asker |-> IF ask[p].pc = "idle" THEN {}
                                  ELSE once[p] \cup OpenNow(p, base', grant', lies')]

Init == /\ base = [b \in AllBase |-> NoBase] /\ grant = [g \in Grant |-> NoGrant]
        /\ lies = [d \in Doc |-> Nowhere] /\ ask = [p \in Asker |-> Quiet]
        /\ clerk = "none" /\ audit = {} /\ moves = 0 /\ edits = 0 /\ once = [p \in Asker |-> {}]

-----------------------------------------------------------------------------
create_knowledge_base(b, scope, d, a, secret) ==
    /\ b \in Base /\ base[b].live = "none"
    /\ scope = "department" <=> d # Nowhere
    /\ scope = "personal" <=> a # Nowhere
    /\ base' = [base EXCEPT ![b] = [live |-> "live", scope |-> scope, dept |-> d, owner |-> a,
                                    secret |-> secret, active |-> TRUE]]
    /\ UNCHANGED <<grant, lies, ask, clerk, audit, counts>> /\ Noted

update_knowledge_base(b) ==
    /\ b \in Base /\ base[b].live = "live" /\ edits < Edits /\ edits' = edits + 1
    /\ \/ base' = [base EXCEPT ![b].secret = ~@]
       \/ base' = [base EXCEPT ![b].active = ~@]
       \/ \E d \in Dept \ {base[b].dept} : base' = [base EXCEPT ![b].dept = d]
    /\ UNCHANGED <<grant, lies, ask, clerk, audit, moves>> /\ Noted

\* Of a base without documents.
delete_knowledge_base(b) ==
    /\ b \in Base /\ base[b].live = "live" /\ \A d \in Doc : lies[d] # b
    /\ base' = [base EXCEPT ![b].live = "deleted"]
    /\ UNCHANGED <<grant, lies, ask, clerk, audit, counts>> /\ Noted

\* A document is indexed in a base, or moved to another.
index_document(d, b) ==
    /\ base[b].live = "live" /\ lies[d] # b
    /\ IF lies[d] = Nowhere THEN UNCHANGED moves ELSE moves < Moves /\ moves' = moves + 1
    /\ lies' = [lies EXCEPT ![d] = b]
    /\ UNCHANGED <<base, grant, ask, clerk, audit, edits>> /\ Noted

\* ensure_personal_kb: the base of a person is made at its first use.
ensure_personal_kb(p) ==
    /\ p \in DOMAIN Own /\ base[Own[p]].live = "none"
    /\ base' = [base EXCEPT ![Own[p]] = [NoBase EXCEPT !.live = "live", !.scope = "personal"]]
    /\ UNCHANGED <<grant, lies, ask, clerk, audit, counts>> /\ Noted

-----------------------------------------------------------------------------
create_grant(g, b, to) ==
    /\ clerk = "none" /\ grant[g].state = "none" /\ base[b].live = "live"
    /\ grant' = [grant EXCEPT ![g] = [state |-> "live", base |-> b, to |-> to]]
    /\ clerk' = <<"create", g>>
    /\ UNCHANGED <<base, lies, ask, audit, counts>> /\ Noted

revoke_grant(g) ==
    /\ clerk = "none" /\ grant[g].state \in {"live", "over"}
    /\ grant' = [grant EXCEPT ![g].state = "revoked"] /\ clerk' = <<"revoke", g>>
    /\ UNCHANGED <<base, lies, ask, audit, counts>> /\ Noted

\* The time of a grant is over.
expire(g) ==
    /\ grant[g].state = "live" /\ grant' = [grant EXCEPT ![g].state = "over"]
    /\ UNCHANGED <<base, lies, ask, clerk, audit, counts>> /\ Noted

\* The record is written in a transaction of its own, or the process dies before.
append_audit_record ==
    /\ clerk # "none" /\ clerk' = "none"
    /\ audit' = audit \cup {clerk} \/ UNCHANGED audit
    /\ UNCHANGED <<base, grant, lies, ask, counts, once>>

-----------------------------------------------------------------------------
\* Variant of granted_resource_ids: the grants that are not revoked.
GrantedOver(p) == {grant[g].base : g \in {h \in Grant : /\ grant[h].state \in {"live", "over"}
                                                        /\ grant[h].to \in {p} \cup Above(p)}}

granted_resource_ids(p) == {grant[g].base : g \in {h \in Grant :
    grant[h].state = "live" /\ grant[h].to \in {p} \cup Above(p)}}

visible_knowledge_base_ids(p) ==
    {b \in AllBase : /\ Live(b)
                     /\ \/ p \in Admin
                        \/ ~base[b].secret /\ base[b].scope # "personal"
                        \/ base[b].secret /\ base[b].dept \in Above(p)}
    \cup IF p \in Admin THEN {} ELSE granted_resource_ids(p)

agent_visible_knowledge_base_ids(a) ==
    {b \in AllBase : /\ Live(b)
                     /\ \/ base[b].scope = "company"
                        \/ base[b].scope = "department" /\ base[b].dept \in Above(a)
                        \/ base[b].scope = "personal" /\ base[b].owner = a}

Begin(p, ids) ==
    /\ ask[p].pc = "idle" /\ ask' = [ask EXCEPT ![p].pc = "visible", ![p].ids = ids]
    /\ once' = [once EXCEPT ![p] = OpenNow(p, base, grant, lies)]
    /\ UNCHANGED <<base, grant, lies, clerk, counts>>

\* ask, diagnose: that of an administrator is recorded first.
knowledge_ask(p) ==
    /\ p \in Person /\ Begin(p, visible_knowledge_base_ids(p))
    /\ audit' = IF p \in Admin THEN audit \cup {<<"search", p>>} ELSE audit

\* ask_my_knowledge: in one's own base only.
ask_my_knowledge(p) ==
    /\ p \in DOMAIN Own /\ Begin(p, {Own[p]}) /\ UNCHANGED audit

search_visible(a) ==
    /\ a \in Agent /\ Begin(a, agent_visible_knowledge_base_ids(a)) /\ UNCHANGED audit

\* The documents that lie in those bases now are searched.
search(p) ==
    /\ ask[p].pc = "visible"
    /\ LET found == {d \in Doc : lies[d] \in ask[p].ids}
       IN  ask' = [ask EXCEPT ![p].pc = "told", ![p].cited = found,
                              ![p].from = {lies[d] : d \in found}]
    /\ UNCHANGED <<base, grant, lies, clerk, audit, counts, once>>

\* The answer is read, and forgotten here.
read(p) ==
    /\ ask[p].pc = "told" /\ ask' = [ask EXCEPT ![p] = Quiet]
    /\ once' = [once EXCEPT ![p] = {}]
    /\ UNCHANGED <<base, grant, lies, clerk, audit, counts>>

Next == \/ \E b \in Base, scope \in {"company", "department", "personal"},
              d \in Dept \cup {Nowhere}, a \in Agent \cup {Nowhere}, s \in BOOLEAN :
                  create_knowledge_base(b, scope, d, a, s)
        \/ \E b \in Base : update_knowledge_base(b) \/ delete_knowledge_base(b)
        \/ \E d \in Doc, b \in AllBase : index_document(d, b)
        \/ \E g \in Grant : \/ expire(g) \/ revoke_grant(g)
                            \/ \E b \in Base, to \in Asker \cup Dept : create_grant(g, b, to)
        \/ append_audit_record
        \/ \E p \in Asker : \/ ensure_personal_kb(p) \/ knowledge_ask(p) \/ ask_my_knowledge(p)
                            \/ search_visible(p) \/ search(p) \/ read(p)

Spec == Init /\ [][Next]_vars

-----------------------------------------------------------------------------
TypeOK == /\ \A b \in AllBase : base[b].scope = "department" => base[b].dept \in Dept
          /\ \A d \in Doc : lies[d] # Nowhere => base[lies[d]].live = "live"
          /\ \A p \in Asker : ask[p].from \subseteq ask[p].ids

Told(p) == ask[p].pc = "told"

\* docs/13: people are told from bases only that were open to them at some time of their question
\* (whatever was moved, closed, granted or revoked since the ids were computed),
PeopleNeedToKnow == \A p \in Person : Told(p) => ask[p].from \subseteq once[p]

\* knowledge.py: of what another's department keeps, an administrator is told with a record only.
CrossSearchesAudited == \A p \in Admin : Told(p) =>
    <<"search", p>> \in audit \/ ask[p].from \subseteq Range(Own)

-----------------------------------------------------------------------------
(* What the documents promise and the code does not keep (see README). *)

\* and so are AI employees;
AgentsNeedToKnow == \A a \in Agent : Told(a) => ask[a].from \subseteq once[a]

\* of documents that were open to them themselves.
NoStrays == \A p \in Person : Told(p) => ask[p].cited \subseteq once[p]

\* docs/13: whatever is granted or revoked is recorded, once the request is over.
GrantsAudited == \A g \in Grant :
    grant[g].state # "none" /\ clerk = "none" => <<"create", g>> \in audit

-----------------------------------------------------------------------------
(* Proofs: what a question may know, whatever changes while it is asked.   *)

Bases == [live : {"none", "live", "deleted"}, scope : {"company", "department", "personal"},
          dept : Dept \cup {Nowhere}, owner : Agent \cup {Nowhere}, secret : BOOLEAN, active : BOOLEAN]
Grants == [state : {"none", "live", "over", "revoked"}, base : AllBase \cup {Nowhere},
           to : Asker \cup Dept \cup {Nowhere}]
Questions == [pc : {"idle", "visible", "told"}, ids : SUBSET AllBase, cited : SUBSET Doc, from : SUBSET AllBase]

\* The state has the shape the code gives it; the base of a person is never switched off.
Shapes ==
    /\ base \in [AllBase -> Bases]
    /\ grant \in [Grant -> Grants]
    /\ \A g \in Grant : grant[g].state # "none" => grant[g].base \in AllBase
    /\ lies \in [Doc -> AllBase \cup {Nowhere}]
    /\ ask \in [Asker -> Questions] /\ \A p \in Asker : ask[p].pc = "idle" => ask[p].from = {}
    /\ once \in [Asker -> SUBSET (AllBase \cup Doc)]
    /\ \A b \in Range(Own) : base[b].active

\* What a person asks in was open at some time since, or is the person's own base, before
\* its first use.
Asked == \A p \in Person : ask[p].pc # "idle" =>
    \A b \in ask[p].ids : b \in once[p] \/ (p \in DOMAIN Own /\ b = Own[p] /\ base[b].live # "live")

\* An administrator asks with a record, or in a base of a person.
Recorded == \A p \in Admin : ask[p].pc # "idle" =>
    <<"search", p>> \in audit \/ ask[p].ids \subseteq Range(Own)

AccessInvariant == Shapes /\ TypeOK /\ Asked /\ PeopleNeedToKnow /\ Recorded

\* What visible_knowledge_base_ids gives a person is open to that person.
LEMMA VisibleIsOpen ==
    ASSUME AccessAssumption, Shapes, NEW p \in Person
    PROVE  visible_knowledge_base_ids(p) \subseteq Open(p, base, grant)
<1>1. p \in Asker /\ Above(p) \subseteq Dept /\ Nowhere \notin Above(p)
    BY DEF AccessAssumption, Asker, Above, Range
<1>2. ASSUME NEW b \in AllBase, Live(b),
             p \in Admin \/ (~base[b].secret /\ base[b].scope # "personal")
                         \/ (base[b].secret /\ base[b].dept \in Above(p))
      PROVE  b \in Open(p, base, grant)
    BY <1>1, <1>2 DEF Open, Live
<1>3. granted_resource_ids(p) \subseteq Open(p, base, grant)
    BY DEF granted_resource_ids, Open, Shapes
<1> QED
    BY <1>2, <1>3 DEF visible_knowledge_base_ids

\* One's own base is open from its first use on.
LEMMA OwnIsOpen ==
    ASSUME NEW p \in DOMAIN Own, NEW bases, NEW grants,
           bases[Own[p]].live = "live", bases[Own[p]].active
    PROVE  Own[p] \in Open(p, bases, grants)
BY DEF Open, AllBase, Range

LEMMA InitAccess ==
    ASSUME AccessAssumption, Init
    PROVE  AccessInvariant
BY DEF AccessAssumption, Init, AccessInvariant, Shapes, TypeOK, Asked, PeopleNeedToKnow, Told, Recorded, NoBase,
       NoGrant, Quiet, Bases, Grants, Questions, AllBase, Asker

\* What is noted of the questions under way.
LEMMA NotedShapes ==
    ASSUME Shapes, Noted
    PROVE  once' \in [Asker -> SUBSET (AllBase \cup Doc)]
<1>1. \A p \in Asker : OpenNow(p, base', grant', lies') \subseteq AllBase \cup Doc
    BY DEF OpenNow, Open
<1> QED
    BY <1>1 DEF Shapes, Noted

\* Whatever a manager, a member or time changes, a question stays within what was open
\* to it: what opens is noted.
LEMMA NotedKeeps ==
    ASSUME AccessAssumption, Shapes, Shapes', Asked, PeopleNeedToKnow, Noted, ask' = ask
    PROVE  Asked' /\ PeopleNeedToKnow'
<1>1. \A p \in Person : p \in Asker
    BY DEF Asker
<1>2. ASSUME NEW p \in Person, ask[p].pc # "idle"
      PROVE  once[p] \subseteq once'[p] /\ Open(p, base', grant') \subseteq once'[p]
    BY <1>1, <1>2 DEF Noted, OpenNow
<1>3. Asked'
  <2> SUFFICES ASSUME NEW p \in Person, ask[p].pc # "idle", NEW b \in ask[p].ids, b \notin once'[p]
               PROVE  p \in DOMAIN Own /\ b = Own[p] /\ base'[b].live # "live"
      BY DEF Asked
  <2>1. p \in DOMAIN Own /\ b = Own[p]
      BY <1>2 DEF Asked
  <2>2. base'[b].active
      BY <2>1 DEF Shapes, Range
  <2> QED
      BY <1>2, <2>1, <2>2, OwnIsOpen
<1>4. PeopleNeedToKnow'
    BY <1>2 DEF PeopleNeedToKnow, Told
<1> QED
    BY <1>3, <1>4

\* A manager's change of a base or of a document keeps the shapes.
LEMMA BasesChange ==
    ASSUME AccessAssumption, Shapes, TypeOK, Noted, UNCHANGED <<grant, ask>>,
           \/ \E b \in Base, scope \in {"company", "department", "personal"},
                 d \in Dept \cup {Nowhere}, a \in Agent \cup {Nowhere}, s \in BOOLEAN :
                     create_knowledge_base(b, scope, d, a, s)
           \/ \E b \in Base : update_knowledge_base(b) \/ delete_knowledge_base(b)
           \/ \E p \in Asker : ensure_personal_kb(p)
           \/ \E d \in Doc, b \in AllBase : index_document(d, b)
    PROVE  Shapes' /\ TypeOK'
<1>O. once' \in [Asker -> SUBSET (AllBase \cup Doc)]
    BY NotedShapes
<1>N. Nowhere \notin Dept /\ \A b \in Base : b \in AllBase /\ b \notin Range(Own)
    BY DEF AccessAssumption, AllBase
<1> DEFINE Kept == /\ base' \in [AllBase -> Bases] /\ lies' \in [Doc -> AllBase \cup {Nowhere}]
                   /\ \A b \in Range(Own) : base'[b].active
                   /\ \A b \in AllBase : base'[b].scope = "department" => base'[b].dept \in Dept
                   /\ \A d \in Doc : lies'[d] # Nowhere => base'[lies'[d]].live = "live"
<1>K. ASSUME Kept PROVE Shapes' /\ TypeOK'
    BY <1>K, <1>O DEF Shapes, TypeOK
<1>T. /\ base \in [AllBase -> Bases] /\ lies \in [Doc -> AllBase \cup {Nowhere}]
      /\ \A b \in Range(Own) : base[b].active
      /\ \A b \in AllBase : base[b].scope = "department" => base[b].dept \in Dept
      /\ \A d \in Doc : lies[d] # Nowhere => base[lies[d]].live = "live"
    BY DEF Shapes, TypeOK
<1>B. ASSUME NEW b \in AllBase, NEW row \in Bases, row.active \/ b \notin Range(Own),
             row.scope = "department" => row.dept \in Dept,
             row.live = "live" \/ \A d \in Doc : lies[d] # b,
             base' = [base EXCEPT ![b] = row], lies' = lies
      PROVE  Kept
    BY <1>B, <1>T
<1>1. ASSUME NEW b \in Base, NEW scope \in {"company", "department", "personal"},
             NEW d \in Dept \cup {Nowhere}, NEW a \in Agent \cup {Nowhere}, NEW s \in BOOLEAN,
             create_knowledge_base(b, scope, d, a, s)
      PROVE  Kept
  <2> DEFINE row == [live |-> "live", scope |-> scope, dept |-> d, owner |-> a, secret |-> s, active |-> TRUE]
  <2>1. row \in Bases /\ (row.scope = "department" => row.dept \in Dept) /\ row.live = "live" /\ row.active
      BY <1>1 DEF create_knowledge_base, Bases
  <2> QED
      BY <1>1, <1>N, <1>B, <2>1 DEF create_knowledge_base
<1>2. ASSUME NEW b \in Base, update_knowledge_base(b) PROVE Kept
  <2>0. b \in AllBase /\ b \notin Range(Own) /\ base[b] \in Bases /\ base[b].live = "live" /\ lies' = lies
      BY <1>2, <1>N, <1>T DEF update_knowledge_base
  <2>1. ASSUME base' = [base EXCEPT ![b].secret = ~@] PROVE Kept
    <3> DEFINE row == [base[b] EXCEPT !.secret = ~@]
    <3>1. row \in Bases /\ row.scope = base[b].scope /\ row.dept = base[b].dept /\ row.live = "live"
        BY <2>0 DEF Bases
    <3>2. base' = [base EXCEPT ![b] = row]
        BY <2>1
    <3> HIDE DEF row
    <3> QED
        BY <1>B, <1>T, <2>0, <3>1, <3>2
  <2>2. ASSUME base' = [base EXCEPT ![b].active = ~@] PROVE Kept
    <3> DEFINE row == [base[b] EXCEPT !.active = ~@]
    <3>1. row \in Bases /\ row.scope = base[b].scope /\ row.dept = base[b].dept /\ row.live = "live"
        BY <2>0 DEF Bases
    <3>2. base' = [base EXCEPT ![b] = row]
        BY <2>2
    <3> HIDE DEF row
    <3> QED
        BY <1>B, <1>T, <2>0, <3>1, <3>2
  <2>3. ASSUME NEW d \in Dept, base' = [base EXCEPT ![b].dept = d] PROVE Kept
    <3> DEFINE row == [base[b] EXCEPT !.dept = d]
    <3>1. row \in Bases /\ row.dept \in Dept /\ row.live = "live"
        BY <2>0 DEF Bases
    <3>2. base' = [base EXCEPT ![b] = row]
        BY <2>3
    <3> HIDE DEF row
    <3> QED
        BY <1>B, <2>0, <3>1, <3>2
  <2> QED
      BY <1>2, <2>1, <2>2, <2>3 DEF update_knowledge_base
<1>3. ASSUME NEW b \in Base, delete_knowledge_base(b) PROVE Kept
  <2> DEFINE row == [base[b] EXCEPT !.live = "deleted"]
  <2>0. base[b] \in Bases
      BY <1>N, <1>T
  <2>1. row \in Bases /\ row.scope = base[b].scope /\ row.dept = base[b].dept
      BY <2>0 DEF Bases
  <2>2. base' = [base EXCEPT ![b] = row] /\ lies' = lies /\ \A d \in Doc : lies[d] # b
      BY <1>3 DEF delete_knowledge_base
  <2> HIDE DEF row
  <2> QED
      BY <1>B, <1>N, <1>T, <2>1, <2>2
<1>4. ASSUME NEW p \in Asker, ensure_personal_kb(p) PROVE Kept
  <2> DEFINE row == [NoBase EXCEPT !.live = "live", !.scope = "personal"]
  <2>1. row \in Bases /\ row.scope # "department" /\ row.live = "live" /\ row.active
      BY DEF NoBase, Bases
  <2>2. base' = [base EXCEPT ![Own[p]] = row] /\ lies' = lies /\ Own[p] \in AllBase
      BY <1>4 DEF ensure_personal_kb, AllBase, Range
  <2> HIDE DEF row
  <2> QED
      BY <1>B, <2>1, <2>2
<1>5. ASSUME NEW d \in Doc, NEW b \in AllBase, index_document(d, b) PROVE Kept
    BY <1>5, <1>T DEF index_document
<1> QED
    BY <1>1, <1>2, <1>3, <1>4, <1>5, <1>K

\* So does a grant, its end and its revocation.
LEMMA GrantsChange ==
    ASSUME Shapes, TypeOK, Noted, UNCHANGED <<base, lies, ask>>,
           \E g \in Grant : \/ expire(g) \/ revoke_grant(g)
                            \/ \E b \in Base, to \in Asker \cup Dept : create_grant(g, b, to)
    PROVE  Shapes' /\ TypeOK'
<1>O. once' \in [Asker -> SUBSET (AllBase \cup Doc)]
    BY NotedShapes
<1>K. ASSUME grant' \in [Grant -> Grants], \A g \in Grant : grant'[g].state # "none" => grant'[g].base \in AllBase
      PROVE  Shapes' /\ TypeOK'
    BY <1>K, <1>O DEF Shapes, TypeOK
<1>B. ASSUME NEW g \in Grant, NEW row \in Grants, row.base \in AllBase, grant' = [grant EXCEPT ![g] = row]
      PROVE  Shapes' /\ TypeOK'
    BY <1>B, <1>K DEF Shapes
<1>1. ASSUME NEW g \in Grant, expire(g) PROVE Shapes' /\ TypeOK'
  <2> DEFINE row == [grant[g] EXCEPT !.state = "over"]
  <2>1. row \in Grants /\ row.base \in AllBase
      BY <1>1 DEF expire, Shapes, Grants
  <2>2. grant' = [grant EXCEPT ![g] = row]
      BY <1>1 DEF expire
  <2> HIDE DEF row
  <2> QED
      BY <1>B, <2>1, <2>2
<1>2. ASSUME NEW g \in Grant, revoke_grant(g) PROVE Shapes' /\ TypeOK'
  <2> DEFINE row == [grant[g] EXCEPT !.state = "revoked"]
  <2>1. row \in Grants /\ row.base \in AllBase
      BY <1>2 DEF revoke_grant, Shapes, Grants
  <2>2. grant' = [grant EXCEPT ![g] = row]
      BY <1>2 DEF revoke_grant
  <2> HIDE DEF row
  <2> QED
      BY <1>B, <2>1, <2>2
<1>3. ASSUME NEW g \in Grant, NEW b \in Base, NEW to \in Asker \cup Dept, create_grant(g, b, to)
      PROVE  Shapes' /\ TypeOK'
  <2>1. [state |-> "live", base |-> b, to |-> to] \in Grants /\ b \in AllBase
      BY DEF Grants, AllBase
  <2> QED
      BY <1>B, <1>3, <2>1 DEF create_grant
<1> QED
    BY <1>1, <1>2, <1>3

\* A question that begins is within what is open, or in the base of the person.
LEMMA QuestionsBegin ==
    ASSUME AccessAssumption, AccessInvariant, NEW p \in Asker,
           knowledge_ask(p) \/ ask_my_knowledge(p) \/ search_visible(p)
    PROVE  AccessInvariant'
<1>T. Shapes /\ TypeOK
    BY DEF AccessInvariant
<1>P. Admin \subseteq Person /\ Person \cap Agent = {} /\ Person \subseteq Asker
    BY DEF AccessAssumption, Asker
<1>V. visible_knowledge_base_ids(p) \subseteq AllBase /\ agent_visible_knowledge_base_ids(p) \subseteq AllBase
    BY <1>T DEF visible_knowledge_base_ids, granted_resource_ids, agent_visible_knowledge_base_ids, Shapes
<1>1. PICK ids \in SUBSET AllBase :
        /\ Begin(p, ids) /\ audit \subseteq audit'
        /\ p \in Person => \/ ids = visible_knowledge_base_ids(p)
                           \/ p \in DOMAIN Own /\ ids = {Own[p]}
        /\ p \in Admin => <<"search", p>> \in audit' \/ ids \subseteq Range(Own)
  <2>1. CASE knowledge_ask(p)
      BY <2>1, <1>V DEF knowledge_ask
  <2>2. CASE ask_my_knowledge(p)
      BY <2>2 DEF ask_my_knowledge, AllBase, Range
  <2>3. CASE search_visible(p)
      BY <2>3, <1>V, <1>P DEF search_visible
  <2> QED
      BY <2>1, <2>2, <2>3
<1>2. /\ ask' = [ask EXCEPT ![p] = [ask[p] EXCEPT !.pc = "visible", !.ids = ids]]
      /\ once' = [once EXCEPT ![p] = OpenNow(p, base, grant, lies)]
      /\ ask[p].pc = "idle" /\ UNCHANGED <<base, grant, lies>>
    BY <1>1 DEF Begin
<1>3. ask'[p].pc = "visible" /\ ask'[p].ids = ids /\ \A q \in Asker : q # p => ask'[q] = ask[q] /\ once'[q] = once[q]
    BY <1>2, <1>T DEF Shapes, Questions
<1>4. Shapes'
  <2>1. [ask[p] EXCEPT !.pc = "visible", !.ids = ids] \in Questions
      BY <1>T DEF Shapes, Questions
  <2>2. OpenNow(p, base, grant, lies) \subseteq AllBase \cup Doc
      BY DEF OpenNow, Open
  <2> QED
      BY <1>2, <1>T, <2>1, <2>2 DEF Shapes
<1>5. Asked'
  <2> SUFFICES ASSUME NEW q \in Person, ask'[q].pc # "idle", NEW b \in ask'[q].ids, b \notin once'[q]
               PROVE  q \in DOMAIN Own /\ b = Own[q] /\ base'[b].live # "live"
      BY DEF Asked
  <2>1. CASE q # p
      BY <1>P, <1>2, <1>3, <2>1 DEF AccessInvariant, Asked
  <2>2. CASE q = p
    <3>1. Open(p, base, grant) \subseteq once'[p]
        BY <1>2, <1>T DEF OpenNow, Shapes
    <3>2. ids # visible_knowledge_base_ids(p)
        BY <1>3, <1>T, <2>2, <3>1, VisibleIsOpen
    <3>3. p \in DOMAIN Own /\ b = Own[p]
        BY <1>1, <1>3, <2>2, <3>2
    <3>4. base[b].active
        BY <1>T, <3>3 DEF Shapes, Range
    <3> QED
        BY <1>2, <2>2, <3>1, <3>3, <3>4, OwnIsOpen
  <2> QED
      BY <2>1, <2>2
<1>6. PeopleNeedToKnow' /\ Recorded'
    BY <1>P, <1>1, <1>3 DEF AccessInvariant, PeopleNeedToKnow, Told, Recorded
<1>7. TypeOK'
  <2>1. ask'[p].from \subseteq ask'[p].ids
      BY <1>2, <1>T DEF Shapes, Questions
  <2> QED
      BY <1>2, <1>3, <1>T, <2>1 DEF TypeOK
<1> QED
    BY <1>4, <1>5, <1>6, <1>7 DEF AccessInvariant

\* The documents that are found lie in bases that are live, and thus noted.
LEMMA SearchTells ==
    ASSUME AccessAssumption, AccessInvariant, NEW p \in Asker, search(p)
    PROVE  AccessInvariant'
<1> DEFINE found == {d \in Doc : lies[d] \in ask[p].ids}
           from == {lies[d] : d \in found}
           told == [ask[p] EXCEPT !.pc = "told", !.cited = found, !.from = from]
<1>T. Shapes /\ TypeOK
    BY DEF AccessInvariant
<1>P. Admin \subseteq Person /\ Person \subseteq Asker
    BY DEF AccessAssumption, Asker
<1>1. /\ ask' = [ask EXCEPT ![p] = told]
      /\ ask[p].pc = "visible" /\ UNCHANGED <<base, grant, lies, audit, once>>
    BY DEF search
<1>2. from \subseteq ask[p].ids /\ ask[p].ids \subseteq AllBase
    BY <1>T DEF Shapes, Questions
<1>3. told \in Questions /\ told.pc = "told" /\ told.ids = ask[p].ids /\ told.from = from
    BY <1>T, <1>2 DEF Shapes, Questions
<1> HIDE DEF told
<1>4. ask'[p] = told /\ \A q \in Asker : q # p => ask'[q] = ask[q]
    BY <1>1, <1>T DEF Shapes
<1>5. Shapes'
    BY <1>1, <1>T, <1>3, <1>4 DEF Shapes
<1>6. TypeOK'
    BY <1>1, <1>T, <1>2, <1>3, <1>4 DEF TypeOK
<1>7. Asked' /\ Recorded'
    BY <1>1, <1>P, <1>3, <1>4 DEF AccessInvariant, Asked, Recorded
<1>8. PeopleNeedToKnow'
  <2> SUFFICES ASSUME p \in Person PROVE from \subseteq once[p]
      BY <1>1, <1>P, <1>3, <1>4 DEF AccessInvariant, PeopleNeedToKnow, Told
  <2> SUFFICES ASSUME NEW d \in found PROVE lies[d] \in once[p]
      OBVIOUS
  <2>1. lies[d] \in AllBase /\ lies[d] # Nowhere
      BY <1>2 DEF AccessAssumption
  <2>2. base[lies[d]].live = "live"
      BY <1>T, <2>1 DEF TypeOK
  <2> QED
      BY <1>1, <2>2 DEF AccessInvariant, Asked
<1> QED
    BY <1>5, <1>6, <1>7, <1>8 DEF AccessInvariant

LEMMA ReadForgets ==
    ASSUME AccessAssumption, AccessInvariant, NEW p \in Asker, read(p)
    PROVE  AccessInvariant'
<1>T. Shapes /\ TypeOK
    BY DEF AccessInvariant
<1>P. Admin \subseteq Person /\ Person \subseteq Asker
    BY DEF AccessAssumption, Asker
<1>1. /\ ask' = [ask EXCEPT ![p] = Quiet] /\ once' = [once EXCEPT ![p] = {}]
      /\ UNCHANGED <<base, grant, lies, audit>>
    BY DEF read
<1>2. Quiet \in Questions /\ Quiet.pc = "idle" /\ Quiet.from = {}
    BY DEF Quiet, Questions
<1>3. ask'[p] = Quiet /\ \A q \in Asker : q # p => ask'[q] = ask[q] /\ once'[q] = once[q]
    BY <1>1, <1>T DEF Shapes
<1>4. Shapes'
    BY <1>1, <1>2, <1>3, <1>T DEF Shapes
<1>5. TypeOK'
    BY <1>1, <1>2, <1>3, <1>T DEF TypeOK
<1>6. Asked' /\ Recorded' /\ PeopleNeedToKnow'
    BY <1>1, <1>P, <1>2, <1>3 DEF AccessInvariant, Asked, Recorded, PeopleNeedToKnow, Told
<1> QED
    BY <1>4, <1>5, <1>6 DEF AccessInvariant

\* What is asked and told keeps the invariant, for any departments, bases, grants and
\* people, however they change meanwhile.
THEOREM AccessKept == AccessAssumption /\ Spec => []AccessInvariant
<1> SUFFICES ASSUME AccessAssumption PROVE Spec => []AccessInvariant
    OBVIOUS
<1>1. Init => AccessInvariant
    BY InitAccess
<1>2. ASSUME AccessInvariant, Next PROVE AccessInvariant'
  <2>N. ASSUME Shapes', TypeOK', Noted, ask' = ask, audit' = audit PROVE AccessInvariant'
      BY <1>2, <2>N, NotedKeeps DEF AccessInvariant, Recorded
  <2>1. ASSUME \/ \E b \in Base, scope \in {"company", "department", "personal"},
                     d \in Dept \cup {Nowhere}, a \in Agent \cup {Nowhere}, s \in BOOLEAN :
                         create_knowledge_base(b, scope, d, a, s)
               \/ \E b \in Base : update_knowledge_base(b) \/ delete_knowledge_base(b)
               \/ \E p \in Asker : ensure_personal_kb(p)
               \/ \E d \in Doc, b \in AllBase : index_document(d, b)
        PROVE  AccessInvariant'
    <3>1. Noted /\ UNCHANGED <<grant, ask, audit>>
        BY <2>1 DEF create_knowledge_base, update_knowledge_base, delete_knowledge_base,
                    ensure_personal_kb, index_document
    <3> QED
        BY <1>2, <2>1, <2>N, <3>1, BasesChange DEF AccessInvariant
  <2>2. ASSUME \E g \in Grant : \/ expire(g) \/ revoke_grant(g)
                                \/ \E b \in Base, to \in Asker \cup Dept : create_grant(g, b, to)
        PROVE  AccessInvariant'
    <3>1. Noted /\ UNCHANGED <<base, lies, ask, audit>>
        BY <2>2 DEF expire, revoke_grant, create_grant
    <3> QED
        BY <1>2, <2>2, <2>N, <3>1, GrantsChange DEF AccessInvariant
  <2>3. CASE append_audit_record
      BY <1>2, <2>3 DEF append_audit_record, AccessInvariant, Shapes, TypeOK, Asked, PeopleNeedToKnow, Told,
                       Recorded
  <2> QED
      BY <1>2, <2>1, <2>2, <2>3, QuestionsBegin, SearchTells, ReadForgets DEF Next
<1>3. AccessInvariant /\ UNCHANGED vars => AccessInvariant'
    BY DEF vars, counts, AccessInvariant, Shapes, TypeOK, Asked, PeopleNeedToKnow, Told, Recorded
<1> QED
    BY <1>1, <1>2, <1>3, PTL DEF Spec

\* PeopleNeedToKnow: people are told from bases only that were open to them at some time
\* of their question.
THEOREM PeopleKnowWhatTheyMay == AccessAssumption /\ Spec => []PeopleNeedToKnow
<1>1. AccessInvariant => PeopleNeedToKnow
    BY DEF AccessInvariant
<1> QED
    BY <1>1, AccessKept, PTL

\* CrossSearchesAudited: an administrator is told of what others keep with a record only.
THEOREM CrossSearchesAreRecorded == AccessAssumption /\ Spec => []CrossSearchesAudited
<1> SUFFICES ASSUME AccessAssumption PROVE Spec => []CrossSearchesAudited
    OBVIOUS
<1>1. AccessInvariant => CrossSearchesAudited
    BY DEF AccessAssumption, AccessInvariant, Asker, TypeOK, Told, Recorded, CrossSearchesAudited
<1> QED
    BY <1>1, AccessKept, PTL
=============================================================================
