------------------------------ MODULE Connectors ------------------------------
(***************************************************************************)
(* The connectors: data sources an administrator registers, the experts    *)
(* that look after them, and the probe of one.                             *)
(*                                                                         *)
(* A request asks the directory whether the expert is there, loads the     *)
(* row, and saves it in one transaction with the event of the change; an   *)
(* update writes the columns that differ from those it loaded.  The index  *)
(* keeps the codes of live rows apart; the check before an insert does     *)
(* not.  A probe reads a connector once, and the token when it asks.       *)
(*                                                                         *)
(* The experts (ExpertReleases) and the configuration that holds tokens    *)
(* (ProviderCards) change on their own; the addressed host is external.    *)
(***************************************************************************)
EXTENDS Naturals, FiniteSets, TLC

CONSTANTS Connector, Code, Url, SafeUrl, Secret, Token, Expert, Nobody,
          Type,     \* connector |-> its connector_type
          Initial,  \* the connectors there are at first |-> [code, url, secret, owner]
          Request, Probe, MaxFaults

ConnectorsAssumption ==
    /\ SafeUrl \subseteq Url /\ Nobody \notin Expert /\ Nobody \notin Url \cup Secret
    /\ DOMAIN Initial \subseteq Connector
    /\ \A c \in Connector : Type[c] \in {"thinkingdata", "feishu_bitable", "feishu_docx", "excel", "http_api"}

VARIABLES row,      \* the table data_source
          expert,   \* the live experts
          token,    \* secret |-> the value in force, or Nobody
          request,
          event,    \* the committed events of changes: [of, at]
          probe,
          past,     \* [of, url, secret] that rows had together
          faults
connectorVars == <<row, expert, token, request, event, probe, past, faults>>

Absent == [state |-> "absent", code |-> Nobody, url |-> Nobody, secret |-> Nobody,
           active |-> TRUE, owner |-> Nobody]
Idle == [stage |-> "idle", kind |-> "none", of |-> Nobody, loaded |-> Absent, set |-> <<>>]
NoProbe == [stage |-> "idle", of |-> Nobody, seen |-> Absent, named |-> Nobody, sent |-> Nobody,
            status |-> "none"]

TypeOK ==
    /\ \A c \in Connector : /\ row[c].state \in {"absent", "live", "deleted"}
                            /\ row[c].owner \in Expert \cup {Nobody}
    /\ \A q \in Request : request[q].stage \in {"idle", "ready", "done", "refused"}
    /\ \A p \in Probe : probe[p].status \in {"none", "ok", "fail", "not_configured", "unsupported"}
    /\ expert \subseteq Expert /\ faults \in 0..MaxFaults

Init ==
    /\ row = [c \in Connector |-> IF c \in DOMAIN Initial THEN [state |-> "live"] @@ Initial[c] @@ Absent
                                  ELSE Absent]
    /\ expert = Expert
    /\ token \in [Secret -> Token \cup {Nobody}]
    /\ request = [q \in Request |-> Idle] /\ probe = [p \in Probe |-> NoProbe]
    /\ event = {} /\ faults = 0
    /\ past = {[of |-> c, url |-> Initial[c].url, secret |-> Initial[c].secret] : c \in DOMAIN Initial}

Live == {c \in Connector : row[c].state = "live"}
Taken(k) == \E c \in Live : row[c].code = k
Refuse(q) == request' = [request EXCEPT ![q].stage = "refused"]
Pair(c, r) == [of |-> c, url |-> r.url, secret |-> r.secret]

\* A request for a new connector: its expert must be there, and the code free.
register(q, c, r) ==
    /\ request[q].stage = "idle" /\ row[c].state = "absent"
    /\ request' = [request EXCEPT ![q] =
          [Idle EXCEPT !.kind = "register", !.of = c, !.set = r,
                       !.stage = IF (r.owner # Nobody /\ r.owner \notin expert) \/ Taken(r.code)
                                 THEN "refused" ELSE "ready"]]
    /\ UNCHANGED <<row, expert, token, event, probe, past, faults>>

\* A request that changes some columns, or deletes: the connector must be there, and the
\* expert it names.
load(q, c, kind, set) ==
    /\ request[q].stage = "idle" /\ row[c].state # "absent"
    /\ request' = [request EXCEPT ![q] =
          [Idle EXCEPT !.kind = kind, !.of = c, !.set = set, !.loaded = row[c],
                       !.stage = IF \/ row[c].state = "deleted"
                                    \/ "owner" \in DOMAIN set /\ set.owner \notin expert
                                 THEN "refused" ELSE "ready"]]
    /\ UNCHANGED <<row, expert, token, event, probe, past, faults>>

\* The change is committed with its event.
Committed(q, new) ==
    LET c == request[q].of
    IN  /\ row' = [row EXCEPT ![c] = new]
        /\ event' = event \cup {[of |-> c, at |-> q]}
        /\ past' = past \cup {Pair(c, new)}
        /\ request' = [request EXCEPT ![q].stage = "done"]

\* The insert; the index refuses a code that was committed since it was checked.
add(q) ==
    /\ request[q].stage = "ready" /\ request[q].kind = "register"
    /\ IF Taken(request[q].set.code) \/ row[request[q].of].state # "absent"
       THEN Refuse(q) /\ UNCHANGED <<row, event, past>>
       ELSE Committed(q, [state |-> "live"] @@ request[q].set @@ Absent)
    /\ UNCHANGED <<expert, token, probe, faults>>

\* Variant of Saved: every column is written.
SavedWhole(loaded, set, current) == set @@ loaded

\* What an update leaves of the row there is now.
Saved(loaded, set, current) ==
    [k \in DOMAIN current |-> IF k \in DOMAIN set /\ set[k] # loaded[k] THEN set[k] ELSE current[k]]

update(q) ==
    /\ request[q].stage = "ready" /\ request[q].kind = "update"
    /\ Committed(q, Saved(request[q].loaded, request[q].set, row[request[q].of]))
    /\ UNCHANGED <<expert, token, probe, faults>>

delete(q) ==
    /\ request[q].stage = "ready" /\ request[q].kind = "delete"
    /\ Committed(q, Saved(request[q].loaded, [state |-> "deleted"], row[request[q].of]))
    /\ UNCHANGED <<expert, token, probe, faults>>

\* The transaction of a request fails: nothing of it stays.
Rollback(q) ==
    /\ request[q].stage = "ready" /\ faults < MaxFaults
    /\ faults' = faults + 1 /\ Refuse(q)
    /\ UNCHANGED <<row, expert, token, event, probe, past>>

-----------------------------------------------------------------------------
\* A probe loads a connector that is there.
get(p, c) ==
    /\ probe[p].stage = "idle" /\ c \in Live
    /\ probe' = [probe EXCEPT ![p] = [NoProbe EXCEPT !.stage = "read", !.of = c, !.seen = row[c]]]
    /\ UNCHANGED <<row, expert, token, request, event, past, faults>>

\* Then the name of its expert, if that is still there.
names(p) ==
    /\ probe[p].stage = "read"
    /\ probe' = [probe EXCEPT ![p].stage = "named",
                    ![p].named = IF probe[p].seen.owner \in expert THEN probe[p].seen.owner ELSE Nobody]
    /\ UNCHANGED <<row, expert, token, request, event, past, faults>>

\* What a connector is probed with: types without a probe are not supported.
Refused(r, type) ==
    IF type # "http_api" THEN "unsupported"
    ELSE IF r.url = Nobody THEN "not_configured" ELSE IF r.url \notin SafeUrl THEN "fail" ELSE "none"

\* The address is checked and asked, with the token in force, or the probe ends.
probe_http_api(p) ==
    /\ probe[p].stage = "named"
    /\ LET r == probe[p].seen
           s == Refused(r, Type[probe[p].of])
       IN  probe' = [probe EXCEPT ![p].status = s, ![p].stage = IF s = "none" THEN "asked" ELSE "done",
                        ![p].sent = IF s = "none" /\ r.secret # Nobody THEN token[r.secret] ELSE Nobody]
    /\ UNCHANGED <<row, expert, token, request, event, past, faults>>

\* The host answers, or anything of the connection fails.
Answered(p) ==
    /\ probe[p].stage = "asked"
    /\ \/ probe' = [probe EXCEPT ![p].stage = "done", ![p].status = "ok"] /\ UNCHANGED faults
       \/ /\ faults < MaxFaults /\ faults' = faults + 1
          /\ probe' = [probe EXCEPT ![p].stage = "done", ![p].status = "fail"]
    /\ UNCHANGED <<row, expert, token, request, event, past>>

\* An expert is deleted; a token is set.
Leave(e) == /\ e \in expert /\ expert' = expert \ {e}
            /\ UNCHANGED <<row, token, request, event, probe, past, faults>>
SetToken(s, v) == /\ \E p \in Probe : probe[p].stage # "done"
                  /\ token[s] # v /\ token' = [token EXCEPT ![s] = v]
                  /\ UNCHANGED <<row, expert, request, event, probe, past, faults>>

New == [code : Code, url : Url \cup {Nobody}, secret : Secret \cup {Nobody}, owner : Expert \cup {Nobody}]
Changes == [url : Url] \cup [secret : Secret] \cup [owner : Expert] \cup [active : BOOLEAN]
Next ==
    \/ \E q \in Request, c \in Connector, r \in New : register(q, c, r)
    \/ \E q \in Request, c \in Connector, s \in Changes : load(q, c, "update", s)
    \/ \E q \in Request, c \in Connector : load(q, c, "delete", <<>>)
    \/ \E q \in Request : add(q) \/ update(q) \/ delete(q) \/ Rollback(q)
    \/ \E p \in Probe : (\E c \in Connector : get(p, c)) \/ names(p) \/ probe_http_api(p) \/ Answered(p)
    \/ \E e \in Expert : Leave(e)
    \/ \E s \in Secret, v \in Token : SetToken(s, v)

-----------------------------------------------------------------------------
Told(q, kind) == request[q].stage = "done" /\ request[q].kind = kind

\* Live connectors have codes of their own, however two registrations overlap, and what
\* was deleted stays deleted, whatever an update loaded before.
CodesAreOwn ==
    /\ \A c, d \in Live : c # d => row[c].code # row[d].code
    /\ \A q \in Request : Told(q, "delete") => row[request[q].of].state = "deleted"

\* What an administrator was told of a column is there, unless another was told otherwise,
\* and every change of a row is told with an event.
ChangesHold ==
    \A q \in Request : request[q].stage = "done" =>
       LET c == request[q].of   s == request[q].set
       IN  /\ [of |-> c, at |-> q] \in event
           /\ \A k \in DOMAIN s : \/ row[c][k] = s[k]
                                  \/ \E r \in Request : /\ request[r].stage = "done" /\ request[r].of = c
                                                        /\ k \in DOMAIN request[r].set
                                                        /\ request[r].set[k] = row[c][k]

\* A request of a probe goes to a safe address, with the token of a secret its connector
\* had together with that address.
TokensGoTogether ==
    \A p \in Probe : probe[p].stage = "asked" \/ probe[p].status = "ok" =>
       /\ probe[p].seen.url \in SafeUrl /\ Type[probe[p].of] = "http_api"
       /\ probe[p].sent # Nobody => Pair(probe[p].of, probe[p].seen) \in past
=============================================================================
