-------------------------- MODULE LodgeIdentity_proofs --------------------------
(***************************************************************************)
(* Proofs about LodgeIdentity: for any number of requests, tokens, keys    *)
(* and sessions, and whatever the lives and the timeout are, what Lodge    *)
(* took back is accepted no longer than its caches and its answers last,   *)
(* who is accepted is so for a valid token, and Lodge is not asked for     *)
(* unknown keys more often than its keys live.                             *)
(***************************************************************************)
EXTENDS LodgeIdentity, FiniteSetTheorems, TLAPS

-----------------------------------------------------------------------------
(* The inductive invariant. *)

Stages == InFlight \cup {"idle", "key", "decode", "accepted", "refused"}

Requests == [stage : Stages, token : Token \cup {"none"}, since : Nat, doc : SUBSET Kid, word : BOOLEAN,
             keyed : Nat, ended : Nat]

Clients == [keys : SUBSET Kid, expires_at : Nat, unknown_until : Nat]

\* The state has the shape the code gives it.
Shapes ==
    /\ now \in 0..LastTime /\ keys \subseteq Kid /\ session \subseteq Session
    /\ DOMAIN gone \subseteq Kid \cup Session /\ gone \in [DOMAIN gone -> Nat]
    /\ client \in Clients
    /\ DOMAIN cache \subseteq Token /\ cache \in [DOMAIN cache -> Nat]
    /\ request \in [Request -> Requests]
    /\ \A q \in Request : request[q].stage # "idle" => request[q].token \in Token
    /\ lock = {} \/ \E q \in Request : lock = {q}
    /\ \A s \in sought : s.at \in Nat
    /\ faults \in 0..MaxFaults

\* Everything noted is of the past, but for the lives of what is cached; what was taken back
\* does not come back.
Past ==
    /\ \A x \in DOMAIN gone : gone[x] <= now
    /\ keys \cap DOMAIN gone = {} /\ session \cap DOMAIN gone = {}
    /\ \A q \in Request : /\ request[q].since <= now /\ request[q].keyed <= now /\ request[q].ended <= now
                          /\ request[q].stage \in InFlight => now <= request[q].since + Timeout
    /\ client.expires_at <= now + KeyTtl
    /\ \A t \in DOMAIN cache : cache[t] <= now + StatusTtl

\* A key that is on its way or cached was withdrawn only after it was asked for.
KeysWere ==
    /\ \A k \in client.keys \cap DOMAIN gone : client.expires_at <= gone[k] + Timeout + KeyTtl
    /\ \A q \in Request :
          /\ request[q].stage \in {"refresh_served", "unknown_served"} =>
                \A k \in request[q].doc \cap DOMAIN gone : request[q].since <= gone[k]
          /\ request[q].stage \in {"decode", "asking", "answered", "accepted"} /\ Of(q).kid \in DOMAIN gone =>
                request[q].keyed < gone[Of(q).kid] + Timeout + KeyTtl

\* So was a session whose word is on its way or cached.
SessionsWere ==
    /\ \A t \in DOMAIN cache : Claims[t].session \in DOMAIN gone =>
          cache[t] <= gone[Claims[t].session] + Timeout + StatusTtl
    /\ \A q \in Request :
          /\ request[q].stage = "answered" /\ request[q].word /\ Of(q).session \in DOMAIN gone =>
                request[q].since <= gone[Of(q).session]
          /\ request[q].stage = "accepted" /\ Of(q).session \in DOMAIN gone =>
                request[q].ended < gone[Of(q).session] + Timeout + StatusTtl

\* A token that Lodge is asked about was valid when it was.
TokensWere ==
    \A q \in Request :
       /\ request[q].stage \in {"asking", "answered"} =>
             /\ Of(q).sound /\ Of(q).scopes \subseteq Ceiling[Of(q).role]
             /\ Of(q).iat <= request[q].since /\ request[q].since < Of(q).exp
       /\ request[q].stage = "accepted" =>
             /\ Of(q).sound /\ Of(q).scopes \subseteq Ceiling[Of(q).role]
             /\ Of(q).iat <= request[q].ended /\ request[q].ended < Of(q).exp + Timeout

\* The client waits out the life of the keys after each fetch for an unknown one.
Waits ==
    /\ \A s \in sought : s.at + KeyTtl <= client.unknown_until
    /\ \A s, t \in sought : s # t => s.at - t.at >= KeyTtl \/ t.at - s.at >= KeyTtl

Bounded == IsFiniteSet(DOMAIN cache) /\ Cardinality(DOMAIN cache) <= MaxEntries

Inv == Shapes /\ Past /\ KeysWere /\ SessionsWere /\ TokensWere /\ Waits /\ Bounded

-----------------------------------------------------------------------------
(* What a step does. *)

\* The rows of the state, field by field.
LEMMA Fields ==
    /\ \A r \in Requests : /\ r.stage \in Stages /\ r.since \in Nat /\ r.doc \in SUBSET Kid
                           /\ r.word \in BOOLEAN /\ r.keyed \in Nat /\ r.ended \in Nat
    /\ \A c \in Clients : c.keys \subseteq Kid /\ c.expires_at \in Nat /\ c.unknown_until \in Nat
BY DEF Requests, Clients

\* What the assumption and the shapes make of the numbers of a state.
LEMMA Numbers ==
    ASSUME LodgeIdentityAssumption, Shapes
    PROVE  /\ now \in Nat /\ KeyTtl \in Nat /\ KeyTtl > 0 /\ StatusTtl \in Nat /\ StatusTtl > 0
           /\ Timeout \in Nat /\ MaxEntries \in Nat /\ LastTime \in Nat
           /\ \A x \in DOMAIN gone : gone[x] \in Nat
           /\ \A t \in DOMAIN cache : cache[t] \in Nat
           /\ \A q \in Request : request[q] \in Requests
           /\ client \in Clients
BY DEF LodgeIdentityAssumption, Shapes

\* A request goes to another stage.
LEMMA Going ==
    ASSUME Shapes, NEW q \in Request, NEW s \in Stages
    PROVE  /\ request' = Stage(q, s) =>
              /\ request'[q].stage = s /\ request'[q].since = now /\ request'[q].token = request[q].token
              /\ request'[q].doc = request[q].doc /\ request'[q].word = request[q].word
              /\ request'[q].keyed = request[q].keyed /\ request'[q].ended = request[q].ended
              /\ \A p \in Request : p # q => request'[p] = request[p]
           /\ request' = Ended(q, s) =>
              /\ request'[q].stage = s /\ request'[q].ended = now /\ request'[q].token = request[q].token
              /\ request'[q].doc = request[q].doc /\ request'[q].word = request[q].word
              /\ request'[q].keyed = request[q].keyed /\ request'[q].since = request[q].since
              /\ \A p \in Request : p # q => request'[p] = request[p]
           /\ request' = [request EXCEPT ![q].stage = s, ![q].keyed = now] =>
              /\ request'[q].stage = s /\ request'[q].keyed = now /\ request'[q].token = request[q].token
              /\ request'[q].doc = request[q].doc /\ request'[q].word = request[q].word
              /\ request'[q].ended = request[q].ended /\ request'[q].since = request[q].since
              /\ \A p \in Request : p # q => request'[p] = request[p]
<1>1. request[q] \in Requests
      BY DEF Shapes
<1>2. ASSUME request' = Stage(q, s)
      PROVE  /\ request'[q].stage = s /\ request'[q].since = now /\ request'[q].token = request[q].token
             /\ request'[q].doc = request[q].doc /\ request'[q].word = request[q].word
             /\ request'[q].keyed = request[q].keyed /\ request'[q].ended = request[q].ended
             /\ \A p \in Request : p # q => request'[p] = request[p]
  <2>1. request' = [request EXCEPT ![q] = [request[q] EXCEPT !.stage = s, !.since = now]]
        BY <1>2 DEF Stage, Shapes
  <2> QED BY <1>1, <2>1 DEF Shapes, Requests
<1>3. ASSUME request' = Ended(q, s)
      PROVE  /\ request'[q].stage = s /\ request'[q].ended = now /\ request'[q].token = request[q].token
             /\ request'[q].doc = request[q].doc /\ request'[q].word = request[q].word
             /\ request'[q].keyed = request[q].keyed /\ request'[q].since = request[q].since
             /\ \A p \in Request : p # q => request'[p] = request[p]
  <2>1. request' = [request EXCEPT ![q] = [request[q] EXCEPT !.stage = s, !.ended = now]]
        BY <1>3 DEF Ended, Shapes
  <2> QED BY <1>1, <2>1 DEF Shapes, Requests
<1>4. ASSUME request' = [request EXCEPT ![q].stage = s, ![q].keyed = now]
      PROVE  /\ request'[q].stage = s /\ request'[q].keyed = now /\ request'[q].token = request[q].token
             /\ request'[q].doc = request[q].doc /\ request'[q].word = request[q].word
             /\ request'[q].ended = request[q].ended /\ request'[q].since = request[q].since
             /\ \A p \in Request : p # q => request'[p] = request[p]
  <2>1. request' = [request EXCEPT ![q] = [request[q] EXCEPT !.stage = s, !.keyed = now]]
        BY <1>4 DEF Shapes
  <2> QED BY <1>1, <2>1 DEF Shapes, Requests
<1> QED BY <1>2, <1>3, <1>4

\* How a step leaves the request that takes it.
Moved(q, stages) ==
    /\ request' \in [Request -> Requests]
    /\ request'[q].stage \in stages /\ request'[q].token = request[q].token
    /\ \A p \in Request : p # q => request'[p] = request[p]

\* What the lookup of a key does.
LEMMA LookingUp ==
    ASSUME Shapes, now \in Nat, KeyTtl \in Nat, NEW q \in Request, NEW c \in Clients, Lookup(q, c)
    PROVE  /\ client'.keys = c.keys /\ client'.expires_at = c.expires_at /\ client' \in Clients
           /\ Moved(q, {"decode", "unknown", "refused"})
           /\ lock' = {} \/ lock' = {q}
           /\ request'[q].stage = "decode" => Of(q).kid \in c.keys /\ request'[q].keyed = now
           /\ request'[q].stage # "decode" => request'[q].keyed = request[q].keyed
           /\ request'[q].stage = "unknown" => request'[q].since = now
           /\ request'[q].stage # "unknown" => request'[q].since = request[q].since
           /\ request'[q].ended \in {request[q].ended, now}
           /\ \/ /\ c.unknown_until <= now /\ client'.unknown_until = now + KeyTtl
                 /\ sought' = sought \cup {[by |-> q, at |-> now]}
              \/ client'.unknown_until = c.unknown_until /\ sought' = sought
<1>1. /\ request[q] \in Requests
      /\ {"decode", "unknown", "refused"} \subseteq Stages
      BY DEF Shapes, Stages, InFlight
<1> DEFINE a == request' = [request EXCEPT ![q].stage = "decode", ![q].keyed = now]
           b == request' = Stage(q, "unknown")
           d == request' = Ended(q, "refused")
<1>2. \A s \in Stages : [request[q] EXCEPT !.stage = s, !.keyed = now] \in Requests
      BY <1>1 DEF Requests
<1>3. \A s \in Stages : [request[q] EXCEPT !.stage = s, !.since = now] \in Requests
      BY <1>1 DEF Requests
<1>4. \A s \in Stages : [request[q] EXCEPT !.stage = s, !.ended = now] \in Requests
      BY <1>1 DEF Requests
<1>5. CASE Of(q).kid \in c.keys
  <2>1. a /\ client' = c /\ lock' = {} /\ sought' = sought
        BY <1>5 DEF Lookup
  <2>2. request' \in [Request -> Requests]
    <3>1. request' = [request EXCEPT ![q] = [request[q] EXCEPT !.stage = "decode", !.keyed = now]]
          BY <2>1 DEF Shapes
    <3> QED BY <1>1, <1>2, <3>1 DEF Shapes
  <2> HIDE DEF b, d
  <2> QED BY <1>1, <1>5, <2>1, <2>2, Going DEF Moved
<1>6. CASE Of(q).kid \notin c.keys /\ c.unknown_until <= now
  <2>1. /\ b /\ lock' = {q} /\ client' = [c EXCEPT !.unknown_until = now + KeyTtl]
        /\ sought' = sought \cup {[by |-> q, at |-> now]}
        BY <1>6 DEF Lookup
  <2>2. request' \in [Request -> Requests]
    <3>1. request' = [request EXCEPT ![q] = [request[q] EXCEPT !.stage = "unknown", !.since = now]]
          BY <2>1 DEF Shapes, Stage
    <3> QED BY <1>1, <1>3, <3>1 DEF Shapes
  <2>3. /\ client'.keys = c.keys /\ client'.expires_at = c.expires_at /\ client' \in Clients
        /\ client'.unknown_until = now + KeyTtl
        BY <2>1 DEF Clients
  <2> QED BY <1>1, <1>6, <2>1, <2>2, <2>3, Going DEF Moved
<1>7. CASE Of(q).kid \notin c.keys /\ ~(c.unknown_until <= now)
  <2>1. d /\ client' = c /\ lock' = {} /\ sought' = sought
        BY <1>7 DEF Lookup
  <2>2. request' \in [Request -> Requests]
    <3>1. request' = [request EXCEPT ![q] = [request[q] EXCEPT !.stage = "refused", !.ended = now]]
          BY <2>1 DEF Shapes, Ended
    <3> QED BY <1>1, <1>4, <3>1 DEF Shapes
  <2> QED BY <1>1, <1>7, <2>1, <2>2, Going DEF Moved
<1> QED BY <1>5, <1>6, <1>7

\* What looking for a key does, and the arrival of keys.
LEMMA KeyStep ==
    ASSUME LodgeIdentityAssumption, Shapes, NEW q \in Request, key_for(q) \/ _refresh(q)
    PROVE  /\ UNCHANGED <<now, keys, session, gone, cache, faults>>
           /\ Moved(q, {"refresh", "unknown", "decode", "refused"}) /\ client' \in Clients
           /\ lock' = {} \/ lock' = {q}
           /\ \/ client'.keys = client.keys /\ client'.expires_at = client.expires_at
              \/ /\ request[q].stage \in {"refresh_served", "unknown_served"}
                 /\ client'.keys = request[q].doc /\ client'.expires_at = now + KeyTtl
           /\ request'[q].stage = "decode" =>
                 Of(q).kid \in client'.keys /\ request'[q].keyed = now /\ client'.expires_at > now
           /\ request'[q].stage # "decode" => request'[q].keyed = request[q].keyed
           /\ request'[q].stage \in {"refresh", "unknown"} => request'[q].since = now
           /\ request'[q].stage \notin {"refresh", "unknown"} => request'[q].since = request[q].since
           /\ request'[q].ended \in {request[q].ended, now}
           /\ \/ /\ client.unknown_until <= now /\ client'.unknown_until = now + KeyTtl
                 /\ sought' = sought \cup {[by |-> q, at |-> now]}
              \/ client'.unknown_until = client.unknown_until /\ sought' = sought
           /\ request[q].stage # "idle"
<1>0. /\ now \in Nat /\ KeyTtl \in Nat /\ KeyTtl > 0 /\ client \in Clients /\ request[q] \in Requests
      /\ {"refresh", "refused", "decode"} \subseteq Stages
      BY Numbers DEF Stages, InFlight
<1>1. /\ UNCHANGED <<now, keys, session, gone, cache, faults>>
      /\ request[q].stage # "idle"
      BY DEF key_for, _refresh
<1>2. CASE key_for(q) /\ Stale
  <2>1. request' = Stage(q, "refresh") /\ lock' = {q} /\ client' = client /\ sought' = sought
        BY <1>2 DEF key_for
  <2>2. request' = [request EXCEPT ![q] = [request[q] EXCEPT !.stage = "refresh", !.since = now]]
        BY <2>1 DEF Stage, Shapes
  <2>3. [request[q] EXCEPT !.stage = "refresh", !.since = now] \in Requests
        BY <1>0 DEF Requests
  <2>4. request' \in [Request -> Requests]
        BY <2>2, <2>3 DEF Shapes
  <2> QED BY <1>0, <1>1, <2>1, <2>4, Going DEF Moved
<1>3. CASE key_for(q) /\ ~Stale
  <2>1. Lookup(q, client) /\ client.expires_at > now
        BY <1>0, <1>3, Fields DEF key_for, Stale
  <2> QED BY <1>0, <1>1, <2>1, LookingUp DEF Moved
<1>4. CASE _refresh(q)
  <2> DEFINE c == [client EXCEPT !.keys = request[q].doc, !.expires_at = now + KeyTtl]
  <2>1. /\ c \in Clients /\ c.keys = request[q].doc /\ c.expires_at = now + KeyTtl
        /\ c.unknown_until = client.unknown_until
    <3>1. request[q].doc \in SUBSET Kid /\ now + KeyTtl \in Nat
          BY <1>0, Fields
    <3> QED BY <1>0, <3>1 DEF Clients
  <2>2. request[q].stage \in {"refresh_served", "unknown_served"}
        BY <1>4 DEF _refresh
  <2>3. CASE request[q].doc = {}
    <3>1. /\ request' = Ended(q, "refused") /\ lock' = {} /\ client' = client /\ sought' = sought
          BY <1>4, <2>3 DEF _refresh
    <3>2. request' = [request EXCEPT ![q] = [request[q] EXCEPT !.stage = "refused", !.ended = now]]
          BY <3>1 DEF Ended, Shapes
    <3>3. [request[q] EXCEPT !.stage = "refused", !.ended = now] \in Requests
          BY <1>0 DEF Requests
    <3>4. request' \in [Request -> Requests]
          BY <3>2, <3>3 DEF Shapes
    <3> QED BY <1>0, <1>1, <3>1, <3>4, Going DEF Moved
  <2>4. CASE request[q].doc # {} /\ request[q].stage = "refresh_served"
    <3>1. Lookup(q, c)
          BY <1>4, <2>4 DEF _refresh
    <3> HIDE DEF c
    <3>2. c.expires_at > now
          BY <1>0, <2>1
    <3> QED BY <1>0, <1>1, <2>1, <2>2, <3>1, <3>2, LookingUp DEF Moved
  <2>5. CASE request[q].doc # {} /\ request[q].stage # "refresh_served"
    <3>1. /\ client' = c /\ lock' = {} /\ sought' = sought
          /\ request' = IF Of(q).kid \in c.keys
                        THEN [request EXCEPT ![q].stage = "decode", ![q].keyed = now]
                        ELSE Ended(q, "refused")
          BY <1>4, <2>5 DEF _refresh
    <3> HIDE DEF c
    <3>2. c.expires_at > now
          BY <1>0, <2>1
    <3>3. CASE Of(q).kid \in c.keys
      <4>1. request' = [request EXCEPT ![q] = [request[q] EXCEPT !.stage = "decode", !.keyed = now]]
            BY <3>1, <3>3 DEF Shapes
      <4>2. [request[q] EXCEPT !.stage = "decode", !.keyed = now] \in Requests
            BY <1>0 DEF Requests
      <4>3. request' \in [Request -> Requests]
            BY <4>1, <4>2 DEF Shapes
      <4>4. request' = [request EXCEPT ![q].stage = "decode", ![q].keyed = now]
            BY <3>1, <3>3
      <4>5. /\ request'[q].stage = "decode" /\ request'[q].keyed = now /\ request'[q].token = request[q].token
            /\ request'[q].ended = request[q].ended /\ request'[q].since = request[q].since
            /\ \A p \in Request : p # q => request'[p] = request[p]
            BY <1>0, <4>4, Going
      <4> QED BY <1>0, <1>1, <2>1, <2>2, <3>1, <3>2, <3>3, <4>3, <4>5 DEF Moved
    <3>4. CASE Of(q).kid \notin c.keys
      <4>1. request' = [request EXCEPT ![q] = [request[q] EXCEPT !.stage = "refused", !.ended = now]]
            BY <3>1, <3>4 DEF Shapes, Ended
      <4>2. [request[q] EXCEPT !.stage = "refused", !.ended = now] \in Requests
            BY <1>0 DEF Requests
      <4>3. request' \in [Request -> Requests]
            BY <4>1, <4>2 DEF Shapes
      <4>4. request' = Ended(q, "refused")
            BY <3>1, <3>4
      <4> QED BY <1>0, <1>1, <2>1, <2>2, <3>1, <3>2, <4>3, <4>4, Going DEF Moved
    <3> QED BY <3>3, <3>4
  <2> QED BY <2>2, <2>3, <2>4, <2>5
<1> QED BY <1>2, <1>3, <1>4

\* What the check of a token and of its session does.
LEMMA TokenStep ==
    ASSUME LodgeIdentityAssumption, Shapes, NEW q \in Request, decode(q) \/ ServeStatus(q) \/ require_active(q)
    PROVE  /\ UNCHANGED <<now, keys, session, gone, client, lock, sought, faults>>
           /\ Moved(q, {"asking", "answered", "accepted", "refused"})
           /\ request'[q].keyed = request[q].keyed
           /\ request'[q].stage = "asking" =>
                 request[q].stage = "decode" /\ Valid(q) /\ request'[q].since = now
           /\ request'[q].stage # "asking" => request'[q].since = request[q].since
           /\ request'[q].stage = "answered" =>
                 /\ request[q].stage = "asking"
                 /\ request'[q].word = (Of(q).session \in session)
           /\ request'[q].stage = "accepted" =>
                 /\ request'[q].ended = now
                 /\ \/ /\ request[q].stage = "decode" /\ Valid(q)
                       /\ request[q].token \in DOMAIN cache /\ cache[request[q].token] > now
                    \/ request[q].stage = "answered" /\ request[q].word
           /\ request'[q].ended \in {request[q].ended, now}
           /\ request[q].stage # "idle"
<1>0. /\ now \in Nat /\ request[q] \in Requests
      /\ {"asking", "answered", "accepted", "refused"} \subseteq Stages
      BY Numbers DEF Stages, InFlight
<1>1. ASSUME NEW s \in {"accepted", "refused"}, request' = Ended(q, s) PROVE request' \in [Request -> Requests]
  <2>1. request' = [request EXCEPT ![q] = [request[q] EXCEPT !.stage = s, !.ended = now]]
        BY <1>1 DEF Ended, Shapes
  <2>2. [request[q] EXCEPT !.stage = s, !.ended = now] \in Requests
        BY <1>0, <1>1 DEF Requests
  <2> QED BY <2>1, <2>2 DEF Shapes
<1>2. CASE decode(q)
  <2>1. UNCHANGED <<now, keys, session, gone, client, lock, sought, faults>> /\ request[q].stage = "decode"
        BY <1>2 DEF decode
  <2>2. CASE ~Valid(q)
    <3>1. request' = Ended(q, "refused")
          BY <1>2, <2>2 DEF decode
    <3> QED BY <1>0, <1>1, <2>1, <3>1, Going DEF Moved
  <2>3. CASE Valid(q) /\ request[q].token \in DOMAIN Kept(cache)
    <3>1. request' = Ended(q, "accepted")
          BY <1>2, <2>3 DEF decode
    <3>2. request[q].token \in DOMAIN cache /\ cache[request[q].token] > now
          BY <2>3 DEF Kept
    <3> QED BY <1>0, <1>1, <2>1, <2>3, <3>1, <3>2, Going DEF Moved
  <2>4. CASE Valid(q) /\ request[q].token \notin DOMAIN Kept(cache)
    <3>1. request' = Stage(q, "asking")
          BY <1>2, <2>4 DEF decode
    <3>2. request' = [request EXCEPT ![q] = [request[q] EXCEPT !.stage = "asking", !.since = now]]
          BY <3>1 DEF Stage, Shapes
    <3>3. [request[q] EXCEPT !.stage = "asking", !.since = now] \in Requests
          BY <1>0 DEF Requests
    <3>4. request' \in [Request -> Requests]
          BY <3>2, <3>3 DEF Shapes
    <3> QED BY <1>0, <2>1, <2>4, <3>1, <3>4, Going DEF Moved
  <2> QED BY <2>2, <2>3, <2>4
<1>3. CASE ServeStatus(q)
  <2> DEFINE word == Of(q).session \in session
  <2>1. /\ UNCHANGED <<now, keys, session, gone, client, lock, sought, faults>> /\ request[q].stage = "asking"
        /\ request' = [request EXCEPT ![q] = [request[q] EXCEPT !.stage = "answered", !.word = word]]
        BY <1>3 DEF ServeStatus, Shapes
  <2>2. word \in BOOLEAN
        OBVIOUS
  <2> HIDE DEF word
  <2>3. [request[q] EXCEPT !.stage = "answered", !.word = word] \in Requests
        BY <1>0, <2>2 DEF Requests
  <2>4. request' \in [Request -> Requests]
        BY <2>1, <2>3 DEF Shapes
  <2>5. /\ request'[q] = [request[q] EXCEPT !.stage = "answered", !.word = word]
        /\ \A p \in Request : p # q => request'[p] = request[p]
        BY <2>1 DEF Shapes
  <2>6. /\ request'[q].stage = "answered" /\ request'[q].word = word /\ request'[q].token = request[q].token
        /\ request'[q].since = request[q].since /\ request'[q].keyed = request[q].keyed
        /\ request'[q].ended = request[q].ended
        BY <1>0, <2>5 DEF Requests
  <2> USE DEF word
  <2> QED BY <2>1, <2>4, <2>5, <2>6 DEF Moved
<1>4. CASE require_active(q)
  <2>1. UNCHANGED <<now, keys, session, gone, client, lock, sought, faults>> /\ request[q].stage = "answered"
        BY <1>4 DEF require_active
  <2>2. \/ request' = Ended(q, "accepted") /\ request[q].word
        \/ request' = Ended(q, "refused")
        BY <1>4 DEF require_active
  <2> QED BY <1>0, <1>1, <2>1, <2>2, Going DEF Moved
<1> QED BY <1>2, <1>3, <1>4

\* What the other steps of a request do.
LEMMA OtherStep ==
    ASSUME LodgeIdentityAssumption, Shapes, NEW q \in Request,
           ServeKeys(q) \/ Fail(q) \/ \E t \in Token : authenticate(q, t)
    PROVE  /\ UNCHANGED <<now, keys, session, gone, client, cache, sought>>
           /\ lock' \in {lock, lock \ {q}}
           /\ \/ faults' = faults
              \/ faults < MaxFaults /\ faults' = faults + 1
           /\ request' \in [Request -> Requests]
           /\ \A p \in Request : p # q => request'[p] = request[p]
           /\ request'[q].stage \in {"key", "refused", "refresh_served", "unknown_served"}
           /\ \/ request'[q].token \in Token
              \/ request'[q].token = request[q].token /\ request[q].stage # "idle"
           /\ request'[q].keyed = request[q].keyed /\ request'[q].since = request[q].since
           /\ request'[q].stage \in {"refresh_served", "unknown_served"} =>
                 request[q].stage \in InFlight /\ request'[q].doc = keys
           /\ request'[q].ended \in {request[q].ended, now}
<1>0. /\ now \in Nat /\ request[q] \in Requests
      BY Numbers
<1>1. CASE ServeKeys(q)
  <2> DEFINE s == IF request[q].stage = "refresh" THEN "refresh_served" ELSE "unknown_served"
  <2>1. /\ UNCHANGED <<now, keys, session, gone, client, lock, cache, sought, faults>>
        /\ request[q].stage \in {"refresh", "unknown"}
        /\ request' = [request EXCEPT ![q] = [request[q] EXCEPT !.stage = s, !.doc = keys]]
        BY <1>1 DEF ServeKeys, Shapes
  <2>2. s \in {"refresh_served", "unknown_served"} /\ s \in Stages
        BY DEF Stages, InFlight
  <2> HIDE DEF s
  <2>3. [request[q] EXCEPT !.stage = s, !.doc = keys] \in Requests
        BY <1>0, <2>2 DEF Requests, Shapes
  <2>4. /\ request' \in [Request -> Requests]
        /\ request'[q] = [request[q] EXCEPT !.stage = s, !.doc = keys]
        /\ \A p \in Request : p # q => request'[p] = request[p]
        BY <2>1, <2>3 DEF Shapes
  <2>5. /\ request'[q].stage = s /\ request'[q].doc = keys /\ request'[q].token = request[q].token
        /\ request'[q].since = request[q].since /\ request'[q].keyed = request[q].keyed
        /\ request'[q].ended = request[q].ended
        BY <1>0, <2>4 DEF Requests
  <2>6. request[q].stage \in InFlight /\ request[q].stage # "idle" /\ lock' = lock /\ faults' = faults
        BY <2>1 DEF InFlight
  <2> QED BY <2>1, <2>2, <2>4, <2>5, <2>6
<1>2. CASE Fail(q)
  <2>1. /\ UNCHANGED <<now, keys, session, gone, client, cache, sought>> /\ lock' = lock \ {q}
        /\ faults < MaxFaults /\ faults' = faults + 1
        /\ request[q].stage # "idle" /\ request' = Ended(q, "refused")
        BY <1>2 DEF Fail, InFlight
  <2>2. request' = [request EXCEPT ![q] = [request[q] EXCEPT !.stage = "refused", !.ended = now]]
        BY <2>1 DEF Ended, Shapes
  <2>3. [request[q] EXCEPT !.stage = "refused", !.ended = now] \in Requests
        BY <1>0 DEF Requests, Stages
  <2>4. request' \in [Request -> Requests]
        BY <2>2, <2>3 DEF Shapes
  <2>5. "refused" \in Stages
        BY DEF Stages
  <2> QED BY <2>1, <2>4, <2>5, Going
<1>3. CASE \E t \in Token : authenticate(q, t)
  <2>1. PICK t \in Token : authenticate(q, t)
        BY <1>3
  <2>2. /\ UNCHANGED <<now, keys, session, gone, client, lock, cache, sought, faults>>
        /\ request' = [request EXCEPT ![q] = [request[q] EXCEPT !.stage = "key", !.token = t]]
        BY <2>1 DEF authenticate, Shapes
  <2>3. [request[q] EXCEPT !.stage = "key", !.token = t] \in Requests
        BY <1>0 DEF Requests, Stages
  <2>4. /\ request' \in [Request -> Requests]
        /\ request'[q] = [request[q] EXCEPT !.stage = "key", !.token = t]
        /\ \A p \in Request : p # q => request'[p] = request[p]
        BY <2>2, <2>3 DEF Shapes
  <2>5. /\ request'[q].stage = "key" /\ request'[q].token = t
        /\ request'[q].since = request[q].since /\ request'[q].keyed = request[q].keyed
        /\ request'[q].ended = request[q].ended
        BY <1>0, <2>4 DEF Requests
  <2> QED BY <2>2, <2>4, <2>5
<1> QED BY <1>1, <1>2, <1>3

\* Lodge takes something back, or publishes a key.
LEMMA LodgeStep ==
    ASSUME LodgeIdentityAssumption, Shapes, Past,
           (\E k \in Kid : Publish(k) \/ Withdraw(k)) \/ \E s \in Session : End(s)
    PROVE  /\ UNCHANGED <<now, client, lock, cache, request, sought, faults>>
           /\ keys' \subseteq Kid /\ session' \subseteq Session
           /\ DOMAIN gone \subseteq DOMAIN gone' /\ DOMAIN gone' \subseteq Kid \cup Session
           /\ \A x \in DOMAIN gone : gone'[x] = gone[x]
           /\ \A x \in DOMAIN gone' \ DOMAIN gone : gone'[x] = now
           /\ gone' \in [DOMAIN gone' -> Nat]
           /\ keys' \cap DOMAIN gone' = {} /\ session' \cap DOMAIN gone' = {}
<1>0. now \in Nat /\ Kid \cap Session = {} /\ keys \subseteq Kid /\ session \subseteq Session
      BY Numbers DEF LodgeIdentityAssumption, Shapes
<1>1. ASSUME NEW x \in Kid \cup Session, x \notin DOMAIN gone, gone' = With(gone, x, now)
      PROVE  /\ DOMAIN gone' = DOMAIN gone \cup {x} /\ DOMAIN gone' \subseteq Kid \cup Session
             /\ \A y \in DOMAIN gone : gone'[y] = gone[y]
             /\ gone'[x] = now /\ gone' \in [DOMAIN gone' -> Nat]
      BY <1>0, <1>1 DEF With, Shapes
<1>2. ASSUME NEW k \in Kid, Publish(k)
      PROVE  /\ UNCHANGED <<now, gone, session, client, lock, cache, request, sought, faults>>
             /\ keys' = keys \cup {k} /\ k \notin DOMAIN gone
      BY <1>2 DEF Publish
<1>3. ASSUME NEW k \in Kid, Withdraw(k)
      PROVE  /\ UNCHANGED <<now, session, client, lock, cache, request, sought, faults>>
             /\ keys' = keys \ {k} /\ k \notin DOMAIN gone /\ k \notin session /\ gone' = With(gone, k, now)
      BY <1>0, <1>3 DEF Withdraw, Past
<1>4. ASSUME NEW s \in Session, End(s)
      PROVE  /\ UNCHANGED <<now, keys, client, lock, cache, request, sought, faults>>
             /\ session' = session \ {s} /\ s \notin DOMAIN gone /\ s \notin keys /\ gone' = With(gone, s, now)
      BY <1>0, <1>4 DEF End, Past
<1>5. CASE \E k \in Kid : Publish(k)
  <2>1. PICK k \in Kid : Publish(k)
        BY <1>5
  <2> QED BY <1>0, <1>2, <2>1 DEF Shapes, Past
<1>6. CASE \E k \in Kid : Withdraw(k)
  <2>1. PICK k \in Kid : Withdraw(k)
        BY <1>6
  <2>2. /\ UNCHANGED <<now, session, client, lock, cache, request, sought, faults>>
        /\ keys' = keys \ {k} /\ k \notin DOMAIN gone /\ k \notin session /\ gone' = With(gone, k, now)
        BY <1>3, <2>1
  <2>3. /\ DOMAIN gone' = DOMAIN gone \cup {k} /\ DOMAIN gone' \subseteq Kid \cup Session
        /\ \A y \in DOMAIN gone : gone'[y] = gone[y]
        /\ gone'[k] = now /\ gone' \in [DOMAIN gone' -> Nat]
        BY <1>1, <2>2
  <2> QED BY <1>0, <2>2, <2>3 DEF Past
<1>7. CASE \E s \in Session : End(s)
  <2>1. PICK s \in Session : End(s)
        BY <1>7
  <2>2. /\ UNCHANGED <<now, keys, client, lock, cache, request, sought, faults>>
        /\ session' = session \ {s} /\ s \notin DOMAIN gone /\ s \notin keys /\ gone' = With(gone, s, now)
        BY <1>4, <2>1
  <2>3. /\ DOMAIN gone' = DOMAIN gone \cup {s} /\ DOMAIN gone' \subseteq Kid \cup Session
        /\ \A y \in DOMAIN gone : gone'[y] = gone[y]
        /\ gone'[s] = now /\ gone' \in [DOMAIN gone' -> Nat]
        BY <1>1, <2>2
  <2> QED BY <1>0, <2>2, <2>3 DEF Past
<1> QED BY <1>5, <1>6, <1>7

\* Every step is one of these.
LEMMA Steps ==
    [Next]_lodgeVars =>
       \/ \E q \in Request : \/ key_for(q) \/ _refresh(q)
                             \/ decode(q) \/ ServeStatus(q) \/ require_active(q)
                             \/ ServeKeys(q) \/ Fail(q) \/ \E t \in Token : authenticate(q, t)
       \/ (\E k \in Kid : Publish(k) \/ Withdraw(k)) \/ \E s \in Session : End(s)
       \/ Tick
       \/ UNCHANGED lodgeVars
BY DEF Next

-----------------------------------------------------------------------------
(* The initial state, and every step. *)

\* Nothing is withdrawn, cached or asked at first.
LEMMA LodgeInit == LodgeIdentityAssumption /\ Init => Inv
<1> SUFFICES ASSUME LodgeIdentityAssumption, Init PROVE Inv
    OBVIOUS
<1>1. Idle \in Requests /\ Idle.stage = "idle" /\ Idle.since = 0 /\ Idle.keyed = 0 /\ Idle.ended = 0
      BY DEF Idle, Requests, Stages
<1>2. \A q \in Request : request[q] = Idle
      BY DEF Init
<1>3. client \in Clients /\ client.keys = {} /\ client.expires_at = 0 /\ client.unknown_until = 0
      BY DEF Init, Clients
<1>4. Shapes
      BY <1>1, <1>2, <1>3 DEF Shapes, Init, LodgeIdentityAssumption
<1>5. Past
      BY <1>1, <1>2, <1>3 DEF Past, Init, LodgeIdentityAssumption, InFlight
<1>6. KeysWere /\ SessionsWere /\ TokensWere /\ Waits
      BY <1>1, <1>2, <1>3 DEF KeysWere, SessionsWere, TokensWere, Waits, Init
<1>7. Bounded
  <2>1. DOMAIN cache = {}
        BY DEF Init
  <2> QED BY <2>1, FS_EmptySet DEF Bounded, LodgeIdentityAssumption
<1> QED BY <1>4, <1>5, <1>6, <1>7 DEF Inv

\* What is kept of the cache, and what is within its capacity.
LEMMA Caching ==
    ASSUME LodgeIdentityAssumption, Shapes, Bounded, NEW q \in Request,
           decode(q) \/ ServeStatus(q) \/ require_active(q)
    PROVE  /\ DOMAIN cache' \subseteq Token /\ cache' \in [DOMAIN cache' -> Nat]
           /\ \A t \in DOMAIN cache' :
                 \/ t \in DOMAIN cache /\ cache'[t] = cache[t]
                 \/ /\ request[q].stage = "answered" /\ request[q].word
                    /\ t = request[q].token /\ cache'[t] = now + StatusTtl
           /\ IsFiniteSet(DOMAIN cache') /\ Cardinality(DOMAIN cache') <= MaxEntries
<1> DEFINE Goal == /\ DOMAIN cache' \subseteq Token /\ cache' \in [DOMAIN cache' -> Nat]
                   /\ \A t \in DOMAIN cache' :
                         \/ t \in DOMAIN cache /\ cache'[t] = cache[t]
                         \/ /\ request[q].stage = "answered" /\ request[q].word
                            /\ t = request[q].token /\ cache'[t] = now + StatusTtl
                   /\ IsFiniteSet(DOMAIN cache') /\ Cardinality(DOMAIN cache') <= MaxEntries
           kept == Kept(cache)
<1>0. /\ DOMAIN cache \subseteq Token /\ \A t \in DOMAIN cache : cache[t] \in Nat
      /\ IsFiniteSet(DOMAIN cache) /\ Cardinality(DOMAIN cache) <= MaxEntries
      /\ now + StatusTtl \in Nat /\ MaxEntries \in Nat
      /\ request[q].stage = "answered" => request[q].token \in Token
  <2>1. now + StatusTtl \in Nat /\ MaxEntries \in Nat /\ \A t \in DOMAIN cache : cache[t] \in Nat
        BY Numbers
  <2> QED BY <2>1 DEF Shapes, Bounded
<1>1. /\ DOMAIN kept \subseteq DOMAIN cache /\ \A t \in DOMAIN kept : kept[t] = cache[t]
      /\ kept = [t \in DOMAIN kept |-> kept[t]]
      BY DEF Kept
<1>2. IsFiniteSet(DOMAIN kept) /\ Cardinality(DOMAIN kept) <= Cardinality(DOMAIN cache)
      BY <1>0, <1>1, FS_Subset
<1>3. Cardinality(DOMAIN cache) \in Nat /\ Cardinality(DOMAIN kept) \in Nat
      BY <1>0, <1>2, FS_CardinalityType
<1>4. cache = [t \in DOMAIN cache |-> cache[t]]
      BY DEF Shapes
<1>5. CASE cache' = cache
      BY <1>0, <1>4, <1>5
<1>6. CASE cache' = kept
  <2> HIDE DEF kept
  <2> QED BY <1>0, <1>1, <1>2, <1>3, <1>6
<1>7. CASE require_active(q) /\ request[q].word
  <2> DEFINE c == With(kept, request[q].token, now + StatusTtl)
  <2>1. request[q].stage = "answered" /\ cache' \in Within(c)
        BY <1>7 DEF require_active
  <2>2. /\ DOMAIN c = DOMAIN kept \cup {request[q].token}
        /\ c[request[q].token] = now + StatusTtl
        /\ \A t \in DOMAIN kept : t # request[q].token => c[t] = kept[t]
        /\ c = [t \in DOMAIN c |-> c[t]]
        BY DEF With
  <2> HIDE DEF kept, c
  <2>3. /\ DOMAIN c \subseteq Token
        /\ \A t \in DOMAIN c : /\ c[t] \in Nat
                               /\ \/ t \in DOMAIN cache /\ c[t] = cache[t]
                                  \/ t = request[q].token /\ c[t] = now + StatusTtl
        BY <1>0, <1>1, <2>1, <2>2
  <2>4. IsFiniteSet(DOMAIN c) /\ Cardinality(DOMAIN c) <= MaxEntries + 1
    <3>1. /\ IsFiniteSet(DOMAIN kept \cup {request[q].token})
          /\ Cardinality(DOMAIN kept \cup {request[q].token})
             = IF request[q].token \in DOMAIN kept THEN Cardinality(DOMAIN kept) ELSE Cardinality(DOMAIN kept) + 1
          BY <1>2, FS_AddElement
    <3> QED BY <1>0, <1>2, <1>3, <2>2, <3>1
  <2>5. CASE Cardinality(DOMAIN c) <= MaxEntries
    <3>1. cache' = c
          BY <2>1, <2>5 DEF Within
    <3> QED BY <1>7, <2>1, <2>2, <2>3, <2>4, <2>5, <3>1
  <2>6. CASE ~(Cardinality(DOMAIN c) <= MaxEntries)
    <3>1. PICK u \in DOMAIN c : cache' = [t \in DOMAIN c \ {u} |-> c[t]]
          BY <2>1, <2>6 DEF Within
    <3>2. DOMAIN cache' = DOMAIN c \ {u} /\ \A t \in DOMAIN cache' : cache'[t] = c[t]
          BY <3>1
    <3>3. Cardinality(DOMAIN c) \in Nat
          BY <2>4, FS_CardinalityType
    <3>4. IsFiniteSet(DOMAIN c \ {u}) /\ Cardinality(DOMAIN c \ {u}) = Cardinality(DOMAIN c) - 1
          BY <2>4, FS_RemoveElement
    <3>5. IsFiniteSet(DOMAIN cache') /\ Cardinality(DOMAIN cache') <= MaxEntries
          BY <1>0, <2>4, <3>2, <3>3, <3>4
    <3>6. DOMAIN cache' \subseteq Token /\ cache' \in [DOMAIN cache' -> Nat]
          BY <2>3, <3>1, <3>2
    <3> QED BY <1>7, <2>1, <2>3, <3>2, <3>5, <3>6
  <2> QED BY <2>5, <2>6
<1> HIDE DEF kept
<1>8. \/ cache' = cache
      \/ cache' = kept
      \/ require_active(q) /\ request[q].word
  <2>1. CASE decode(q)
        BY <2>1 DEF decode, kept
  <2>2. CASE ServeStatus(q)
        BY <2>2 DEF ServeStatus
  <2>3. CASE require_active(q)
        BY <2>3 DEF require_active
  <2> QED BY <2>1, <2>2, <2>3
<1> QED BY <1>5, <1>6, <1>7, <1>8

\* Every step keeps the shapes.
LEMMA ShapesNext == LodgeIdentityAssumption /\ Inv /\ [Next]_lodgeVars => Shapes'
<1> SUFFICES ASSUME LodgeIdentityAssumption, Inv, [Next]_lodgeVars PROVE Shapes'
    OBVIOUS
<1>0. Shapes /\ Past /\ Bounded /\ now \in Nat /\ KeyTtl \in Nat /\ MaxFaults \in Nat
      BY Numbers DEF Inv, LodgeIdentityAssumption
<1>1. ASSUME NEW q \in Request, key_for(q) \/ _refresh(q) PROVE Shapes'
  <2>1. /\ UNCHANGED <<now, keys, session, gone, cache, faults>>
        /\ Moved(q, {"refresh", "unknown", "decode", "refused"}) /\ client' \in Clients
        /\ lock' = {} \/ lock' = {q}
        /\ sought' = sought \cup {[by |-> q, at |-> now]} \/ sought' = sought
        /\ request[q].stage # "idle"
        BY <1>0, <1>1, KeyStep
  <2>2. \A s \in sought' : s.at \in Nat
        BY <1>0, <2>1 DEF Shapes
  <2>3. \A p \in Request : request'[p].stage # "idle" => request'[p].token \in Token
        BY <1>0, <2>1 DEF Moved, Shapes
  <2> QED BY <1>0, <2>1, <2>2, <2>3 DEF Shapes, Moved
<1>2. ASSUME NEW q \in Request, decode(q) \/ ServeStatus(q) \/ require_active(q) PROVE Shapes'
  <2>1. /\ UNCHANGED <<now, keys, session, gone, client, lock, sought, faults>>
        /\ Moved(q, {"asking", "answered", "accepted", "refused"})
        /\ request[q].stage # "idle"
        BY <1>0, <1>2, TokenStep
  <2>2. DOMAIN cache' \subseteq Token /\ cache' \in [DOMAIN cache' -> Nat]
        BY <1>0, <1>2, Caching
  <2>3. \A p \in Request : request'[p].stage # "idle" => request'[p].token \in Token
        BY <1>0, <2>1 DEF Moved, Shapes
  <2> QED BY <1>0, <2>1, <2>2, <2>3 DEF Shapes, Moved
<1>3. ASSUME NEW q \in Request, ServeKeys(q) \/ Fail(q) \/ \E t \in Token : authenticate(q, t) PROVE Shapes'
  <2>1. /\ UNCHANGED <<now, keys, session, gone, client, cache, sought>>
        /\ lock' \in {lock, lock \ {q}}
        /\ \/ faults' = faults
           \/ faults < MaxFaults /\ faults' = faults + 1
        /\ request' \in [Request -> Requests]
        /\ \A p \in Request : p # q => request'[p] = request[p]
        /\ \/ request'[q].token \in Token
           \/ request'[q].token = request[q].token /\ request[q].stage # "idle"
        BY <1>0, <1>3, OtherStep
  <2>2. faults' \in 0..MaxFaults
        BY <1>0, <2>1 DEF Shapes
  <2>3. \A p \in Request : request'[p].stage # "idle" => request'[p].token \in Token
        BY <1>0, <2>1 DEF Shapes
  <2>4. lock' = {} \/ \E p \in Request : lock' = {p}
        BY <1>0, <2>1 DEF Shapes
  <2> QED BY <1>0, <2>1, <2>2, <2>3, <2>4 DEF Shapes
<1>4. ASSUME (\E k \in Kid : Publish(k) \/ Withdraw(k)) \/ \E s \in Session : End(s) PROVE Shapes'
      BY <1>0, <1>4, LodgeStep DEF Shapes
<1>5. ASSUME Tick PROVE Shapes'
  <2>1. now' \in 0..LastTime
        BY <1>0, <1>5, Numbers DEF Tick
  <2> QED BY <1>0, <1>5, <2>1 DEF Shapes, Tick
<1>6. ASSUME UNCHANGED lodgeVars PROVE Shapes'
      BY <1>0, <1>6 DEF Shapes, lodgeVars
<1> QED BY <1>1, <1>2, <1>3, <1>4, <1>5, <1>6, Steps

\* Time goes on only while no request in flight times out, and nothing is noted ahead of it.
LEMMA PastNext == LodgeIdentityAssumption /\ Inv /\ [Next]_lodgeVars => Past'
<1> SUFFICES ASSUME LodgeIdentityAssumption, Inv, [Next]_lodgeVars PROVE Past'
    OBVIOUS
<1> DEFINE Old(q) == /\ request[q].since <= now /\ request[q].keyed <= now /\ request[q].ended <= now
                     /\ request[q].stage \in InFlight => now <= request[q].since + Timeout
<1>0. /\ Shapes /\ Past /\ Bounded
      /\ now \in Nat /\ KeyTtl \in Nat /\ Timeout \in Nat /\ StatusTtl \in Nat
      /\ \A q \in Request : request[q] \in Requests
      /\ \A x \in DOMAIN gone : gone[x] \in Nat
      /\ client.expires_at \in Nat
      BY Numbers, Fields DEF Inv
<1>1. ASSUME NEW q \in Request, key_for(q) \/ _refresh(q) PROVE Past'
  <2>1. /\ UNCHANGED <<now, keys, session, gone, cache, faults>>
        /\ Moved(q, {"refresh", "unknown", "decode", "refused"})
        /\ client'.expires_at = client.expires_at \/ client'.expires_at = now + KeyTtl
        /\ request'[q].keyed = now \/ request'[q].keyed = request[q].keyed
        /\ request'[q].stage \in {"refresh", "unknown"} => request'[q].since = now
        /\ request'[q].stage \notin {"refresh", "unknown"} => request'[q].since = request[q].since
        /\ request'[q].ended = request[q].ended \/ request'[q].ended = now
        BY <1>0, <1>1, KeyStep
  <2>2. Old(q)'
        BY <1>0, <2>1 DEF Moved, Past, InFlight
  <2>3. \A p \in Request : p # q => Old(p)'
        BY <1>0, <2>1 DEF Moved, Past
  <2> QED BY <1>0, <2>1, <2>2, <2>3 DEF Past
<1>2. ASSUME NEW q \in Request, decode(q) \/ ServeStatus(q) \/ require_active(q) PROVE Past'
  <2>1. /\ UNCHANGED <<now, keys, session, gone, client, lock, sought, faults>>
        /\ Moved(q, {"asking", "answered", "accepted", "refused"})
        /\ request'[q].keyed = request[q].keyed
        /\ request'[q].stage = "asking" => request'[q].since = now
        /\ request'[q].stage # "asking" => request'[q].since = request[q].since
        /\ request'[q].stage = "answered" => request[q].stage = "asking"
        /\ request'[q].ended = request[q].ended \/ request'[q].ended = now
        BY <1>0, <1>2, TokenStep
  <2>2. Old(q)'
        BY <1>0, <2>1 DEF Moved, Past, InFlight
  <2>3. \A p \in Request : p # q => Old(p)'
        BY <1>0, <2>1 DEF Moved, Past
  <2>4. \A t \in DOMAIN cache' : (t \in DOMAIN cache /\ cache'[t] = cache[t]) \/ cache'[t] = now + StatusTtl
        BY <1>0, <1>2, Caching
  <2>5. \A t \in DOMAIN cache' : cache'[t] <= now' + StatusTtl
        BY <1>0, <2>1, <2>4 DEF Past
  <2> QED BY <1>0, <2>1, <2>2, <2>3, <2>5 DEF Past
<1>3. ASSUME NEW q \in Request, ServeKeys(q) \/ Fail(q) \/ \E t \in Token : authenticate(q, t) PROVE Past'
  <2>1. /\ UNCHANGED <<now, keys, session, gone, client, cache, sought>>
        /\ \A p \in Request : p # q => request'[p] = request[p]
        /\ request'[q].stage \in {"key", "refused", "refresh_served", "unknown_served"}
        /\ request'[q].keyed = request[q].keyed /\ request'[q].since = request[q].since
        /\ request'[q].stage \in {"refresh_served", "unknown_served"} => request[q].stage \in InFlight
        /\ request'[q].ended = request[q].ended \/ request'[q].ended = now
        BY <1>0, <1>3, OtherStep
  <2>2. Old(q)'
        BY <1>0, <2>1 DEF Past, InFlight
  <2>3. \A p \in Request : p # q => Old(p)'
        BY <1>0, <2>1 DEF Past
  <2> QED BY <1>0, <2>1, <2>2, <2>3 DEF Past
<1>4. ASSUME (\E k \in Kid : Publish(k) \/ Withdraw(k)) \/ \E s \in Session : End(s) PROVE Past'
  <2>1. /\ UNCHANGED <<now, client, lock, cache, request, sought, faults>>
        /\ \A x \in DOMAIN gone : gone'[x] = gone[x]
        /\ \A x \in DOMAIN gone' \ DOMAIN gone : gone'[x] = now
        /\ keys' \cap DOMAIN gone' = {} /\ session' \cap DOMAIN gone' = {}
        BY <1>0, <1>4, LodgeStep
  <2>2. \A x \in DOMAIN gone' : gone'[x] <= now'
        BY <1>0, <2>1 DEF Past
  <2> QED BY <1>0, <2>1, <2>2 DEF Past
<1>5. ASSUME Tick PROVE Past'
  <2>1. /\ UNCHANGED <<keys, session, gone, client, lock, cache, request, sought, faults>> /\ now' = now + 1
        /\ \A q \in Request : request[q].stage \in InFlight => now < request[q].since + Timeout
        BY <1>5 DEF Tick
  <2>2. \A q \in Request : request[q].since \in Nat /\ request[q].keyed \in Nat /\ request[q].ended \in Nat
        BY <1>0, Fields
  <2>3. \A q \in Request : Old(q)'
        BY <1>0, <2>1, <2>2 DEF Past
  <2>4. /\ \A x \in DOMAIN gone : gone[x] <= now'
        /\ client.expires_at <= now' + KeyTtl
        /\ \A t \in DOMAIN cache : cache[t] <= now' + StatusTtl
    <3>1. \A t \in DOMAIN cache : cache[t] \in Nat
          BY <1>0, Numbers
    <3> QED BY <1>0, <2>1, <3>1 DEF Past
  <2> QED BY <1>0, <2>1, <2>3, <2>4 DEF Past
<1>6. ASSUME UNCHANGED lodgeVars PROVE Past'
      BY <1>0, <1>6 DEF Past, lodgeVars
<1> QED BY <1>1, <1>2, <1>3, <1>4, <1>5, <1>6, Steps

\* What Lodge takes back later than something was asked for was not taken back before it.
LEMMA TakenBackLater ==
    ASSUME LodgeIdentityAssumption, Inv,
           (\E k \in Kid : Publish(k) \/ Withdraw(k)) \/ \E s \in Session : End(s)
    PROVE  /\ UNCHANGED <<now, client, cache, request, sought>>
           /\ \A x \in DOMAIN gone' : /\ gone'[x] \in Nat
                                      /\ \/ x \in DOMAIN gone /\ gone'[x] = gone[x]
                                         \/ gone'[x] = now
BY LodgeStep DEF Inv

\* A document is cached for KeyTtl from its arrival, which is within Timeout of the request.
LEMMA KeysWereNext == LodgeIdentityAssumption /\ Inv /\ [Next]_lodgeVars => KeysWere'
<1> SUFFICES ASSUME LodgeIdentityAssumption, Inv, [Next]_lodgeVars PROVE KeysWere'
    OBVIOUS
<1> DEFINE Docs(q) == request[q].stage \in {"refresh_served", "unknown_served"} =>
                         \A k \in request[q].doc \cap DOMAIN gone : request[q].since <= gone[k]
           Keyed(q) == request[q].stage \in {"decode", "asking", "answered", "accepted"}
                       /\ Of(q).kid \in DOMAIN gone =>
                          request[q].keyed < gone[Of(q).kid] + Timeout + KeyTtl
           Kept0 == \A k \in client.keys \cap DOMAIN gone : client.expires_at <= gone[k] + Timeout + KeyTtl
<1>0. /\ Shapes /\ Past /\ KeysWere
      /\ now \in Nat /\ KeyTtl \in Nat /\ KeyTtl > 0 /\ Timeout \in Nat
      /\ \A q \in Request : /\ request[q] \in Requests /\ request[q].since \in Nat /\ request[q].keyed \in Nat
                            /\ request[q].since <= now /\ request[q].keyed <= now
                            /\ request[q].stage \in InFlight => now <= request[q].since + Timeout
      /\ \A x \in DOMAIN gone : gone[x] \in Nat /\ gone[x] <= now
      /\ client.expires_at \in Nat /\ client.expires_at <= now + KeyTtl
      BY Numbers, Fields DEF Inv, Past
<1>1. ASSUME NEW q \in Request, key_for(q) \/ _refresh(q) PROVE KeysWere'
  <2>1. /\ UNCHANGED <<now, keys, session, gone, cache, faults>>
        /\ Moved(q, {"refresh", "unknown", "decode", "refused"})
        /\ \/ client'.keys = client.keys /\ client'.expires_at = client.expires_at
           \/ /\ request[q].stage \in {"refresh_served", "unknown_served"}
              /\ client'.keys = request[q].doc /\ client'.expires_at = now + KeyTtl
        /\ request'[q].stage = "decode" =>
              Of(q).kid \in client'.keys /\ request'[q].keyed = now /\ client'.expires_at > now
        BY <1>0, <1>1, KeyStep
  <2>2. Kept0'
    <3>1. CASE client'.keys = client.keys /\ client'.expires_at = client.expires_at
          BY <1>0, <2>1, <3>1 DEF KeysWere
    <3>2. CASE /\ request[q].stage \in {"refresh_served", "unknown_served"}
               /\ client'.keys = request[q].doc /\ client'.expires_at = now + KeyTtl
      <4>1. now <= request[q].since + Timeout
            BY <1>0, <3>2 DEF InFlight
      <4>2. \A k \in request[q].doc \cap DOMAIN gone : request[q].since <= gone[k]
            BY <1>0, <3>2 DEF KeysWere
      <4> QED BY <1>0, <2>1, <3>2, <4>1, <4>2
    <3> QED BY <2>1, <3>1, <3>2
  <2>3. Docs(q)'
        BY <2>1 DEF Moved
  <2>4. Keyed(q)'
    <3> SUFFICES ASSUME request'[q].stage = "decode", Of(q)'.kid \in DOMAIN gone'
                 PROVE  request'[q].keyed < gone'[Of(q)'.kid] + Timeout + KeyTtl
        BY <2>1 DEF Moved
    <3>1. Of(q)' = Of(q)
          BY <2>1 DEF Of, Moved
    <3>2. client'.expires_at <= gone'[Of(q).kid] + Timeout + KeyTtl
          BY <2>1, <2>2, <3>1
    <3>3. client'.expires_at \in Nat
          BY <1>0, <2>1
    <3> QED BY <1>0, <2>1, <3>1, <3>2, <3>3
  <2>5. ASSUME NEW p \in Request, p # q PROVE Docs(p)' /\ Keyed(p)'
    <3>1. request'[p] = request[p] /\ Of(p)' = Of(p) /\ gone' = gone
          BY <2>1, <2>5 DEF Moved, Of
    <3> QED BY <1>0, <3>1 DEF KeysWere
  <2> QED BY <2>2, <2>3, <2>4, <2>5 DEF KeysWere
<1>2. ASSUME NEW q \in Request, decode(q) \/ ServeStatus(q) \/ require_active(q) PROVE KeysWere'
  <2>1. /\ UNCHANGED <<now, keys, session, gone, client, lock, sought, faults>>
        /\ Moved(q, {"asking", "answered", "accepted", "refused"})
        /\ request'[q].keyed = request[q].keyed
        /\ request'[q].stage = "asking" => request[q].stage = "decode"
        /\ request'[q].stage = "answered" => request[q].stage = "asking"
        /\ request'[q].stage = "accepted" => request[q].stage \in {"decode", "answered"}
        BY <1>0, <1>2, TokenStep
  <2>2. Docs(q)' /\ Keyed(q)'
    <3>1. Of(q)' = Of(q)
          BY <2>1 DEF Of, Moved
    <3> QED BY <1>0, <2>1, <3>1 DEF Moved, KeysWere
  <2>3. ASSUME NEW p \in Request, p # q PROVE Docs(p)' /\ Keyed(p)'
    <3>1. request'[p] = request[p] /\ Of(p)' = Of(p) /\ gone' = gone
          BY <2>1, <2>3 DEF Moved, Of
    <3> QED BY <1>0, <3>1 DEF KeysWere
  <2>4. Kept0'
        BY <1>0, <2>1 DEF KeysWere
  <2> QED BY <2>2, <2>3, <2>4 DEF KeysWere
<1>3. ASSUME NEW q \in Request, ServeKeys(q) \/ Fail(q) \/ \E t \in Token : authenticate(q, t) PROVE KeysWere'
  <2>1. /\ UNCHANGED <<now, keys, session, gone, client, cache, sought>>
        /\ \A p \in Request : p # q => request'[p] = request[p]
        /\ request'[q].stage \in {"key", "refused", "refresh_served", "unknown_served"}
        /\ request'[q].stage \in {"refresh_served", "unknown_served"} => request'[q].doc = keys
        BY <1>0, <1>3, OtherStep
  <2>2. Docs(q)' /\ Keyed(q)'
        BY <1>0, <2>1 DEF Past
  <2>3. ASSUME NEW p \in Request, p # q PROVE Docs(p)' /\ Keyed(p)'
    <3>1. request'[p] = request[p] /\ Of(p)' = Of(p) /\ gone' = gone
          BY <2>1, <2>3 DEF Of
    <3> QED BY <1>0, <3>1 DEF KeysWere
  <2>4. Kept0'
        BY <1>0, <2>1 DEF KeysWere
  <2> QED BY <2>2, <2>3, <2>4 DEF KeysWere
<1>4. ASSUME (\E k \in Kid : Publish(k) \/ Withdraw(k)) \/ \E s \in Session : End(s) PROVE KeysWere'
  <2>1. /\ UNCHANGED <<now, client, cache, request, sought>>
        /\ \A x \in DOMAIN gone' : /\ gone'[x] \in Nat
                                   /\ \/ x \in DOMAIN gone /\ gone'[x] = gone[x]
                                      \/ gone'[x] = now
        BY <1>4, TakenBackLater
  <2>2. Kept0'
        BY <1>0, <2>1 DEF KeysWere
  <2>3. ASSUME NEW p \in Request PROVE Docs(p)' /\ Keyed(p)'
    <3>1. request'[p] = request[p] /\ Of(p)' = Of(p)
          BY <2>1 DEF Of
    <3> QED BY <1>0, <2>1, <3>1 DEF KeysWere
  <2> QED BY <2>2, <2>3 DEF KeysWere
<1>5. ASSUME UNCHANGED <<client, request, gone>> PROVE KeysWere'
      BY <1>0, <1>5 DEF KeysWere, Of
<1>6. ASSUME Tick \/ UNCHANGED lodgeVars PROVE KeysWere'
      BY <1>5, <1>6 DEF Tick, lodgeVars
<1> QED BY <1>1, <1>2, <1>3, <1>4, <1>6, Steps

\* A word is cached for StatusTtl from its arrival, which is within Timeout of the request.
LEMMA SessionsWereNext == LodgeIdentityAssumption /\ Inv /\ [Next]_lodgeVars => SessionsWere'
<1> SUFFICES ASSUME LodgeIdentityAssumption, Inv, [Next]_lodgeVars PROVE SessionsWere'
    OBVIOUS
<1> DEFINE Word(q) == request[q].stage = "answered" /\ request[q].word /\ Of(q).session \in DOMAIN gone =>
                         request[q].since <= gone[Of(q).session]
           Accepted(q) == request[q].stage = "accepted" /\ Of(q).session \in DOMAIN gone =>
                             request[q].ended < gone[Of(q).session] + Timeout + StatusTtl
           Cached == \A t \in DOMAIN cache : Claims[t].session \in DOMAIN gone =>
                        cache[t] <= gone[Claims[t].session] + Timeout + StatusTtl
<1>0. /\ Shapes /\ Past /\ SessionsWere /\ Bounded
      /\ now \in Nat /\ StatusTtl \in Nat /\ StatusTtl > 0 /\ Timeout \in Nat
      /\ \A q \in Request : /\ request[q] \in Requests /\ request[q].since \in Nat /\ request[q].ended \in Nat
                            /\ request[q].since <= now /\ request[q].ended <= now
                            /\ request[q].stage \in InFlight => now <= request[q].since + Timeout
      /\ \A x \in DOMAIN gone : gone[x] \in Nat /\ gone[x] <= now
      /\ \A t \in DOMAIN cache : cache[t] \in Nat /\ cache[t] <= now + StatusTtl
      BY Numbers, Fields DEF Inv, Past
<1>1. ASSUME NEW q \in Request, UNCHANGED <<gone, cache>>,
             \A p \in Request : p # q => request'[p] = request[p],
             request'[q].stage \notin {"answered", "accepted"}
      PROVE  SessionsWere'
  <2>1. Word(q)' /\ Accepted(q)'
        BY <1>1
  <2>2. ASSUME NEW p \in Request, p # q PROVE Word(p)' /\ Accepted(p)'
    <3>1. request'[p] = request[p] /\ Of(p)' = Of(p) /\ gone' = gone
          BY <1>1, <2>2 DEF Of
    <3> QED BY <1>0, <3>1 DEF SessionsWere
  <2>3. Cached'
        BY <1>0, <1>1 DEF SessionsWere
  <2> QED BY <2>1, <2>2, <2>3 DEF SessionsWere
<1>2. ASSUME NEW q \in Request, key_for(q) \/ _refresh(q) PROVE SessionsWere'
  <2>1. UNCHANGED <<gone, cache>> /\ Moved(q, {"refresh", "unknown", "decode", "refused"})
        BY <1>0, <1>2, KeyStep
  <2> QED BY <1>1, <2>1 DEF Moved
<1>3. ASSUME NEW q \in Request, ServeKeys(q) \/ Fail(q) \/ \E t \in Token : authenticate(q, t) PROVE SessionsWere'
  <2>1. /\ UNCHANGED <<gone, cache>>
        /\ \A p \in Request : p # q => request'[p] = request[p]
        /\ request'[q].stage \in {"key", "refused", "refresh_served", "unknown_served"}
        BY <1>0, <1>3, OtherStep
  <2> QED BY <1>1, <2>1
<1>4. ASSUME NEW q \in Request, decode(q) \/ ServeStatus(q) \/ require_active(q) PROVE SessionsWere'
  <2>1. /\ UNCHANGED <<now, session, gone>>
        /\ Moved(q, {"asking", "answered", "accepted", "refused"})
        /\ request'[q].stage # "asking" => request'[q].since = request[q].since
        /\ request'[q].stage = "answered" => request'[q].word = (Of(q).session \in session)
        /\ request'[q].stage = "accepted" =>
              /\ request'[q].ended = now
              /\ \/ /\ request[q].stage = "decode"
                    /\ request[q].token \in DOMAIN cache /\ cache[request[q].token] > now
                 \/ request[q].stage = "answered" /\ request[q].word
        BY <1>0, <1>4, TokenStep
  <2>2. Of(q)' = Of(q) /\ Of(q) = Claims[request[q].token]
        BY <2>1 DEF Of, Moved
  <2>3. ASSUME request[q].stage = "answered", request[q].word, Of(q).session \in DOMAIN gone
        PROVE  now <= gone[Of(q).session] + Timeout
        BY <1>0, <2>3 DEF SessionsWere, InFlight
  <2>4. Word(q)'
        BY <1>0, <2>1, <2>2 DEF Past
  <2>5. Accepted(q)'
    <3> SUFFICES ASSUME request'[q].stage = "accepted", Of(q).session \in DOMAIN gone
                 PROVE  now < gone[Of(q).session] + Timeout + StatusTtl
        BY <2>1, <2>2
    <3>1. CASE request[q].token \in DOMAIN cache /\ cache[request[q].token] > now
          BY <1>0, <2>2, <3>1 DEF SessionsWere
    <3>2. CASE request[q].stage = "answered" /\ request[q].word
          BY <1>0, <2>3, <3>2
    <3> QED BY <2>1, <3>1, <3>2
  <2>6. ASSUME NEW p \in Request, p # q PROVE Word(p)' /\ Accepted(p)'
    <3>1. request'[p] = request[p] /\ Of(p)' = Of(p) /\ gone' = gone
          BY <2>1, <2>6 DEF Of, Moved
    <3> QED BY <1>0, <3>1 DEF SessionsWere
  <2>7. ASSUME NEW t \in DOMAIN cache', Claims[t].session \in DOMAIN gone
        PROVE  cache'[t] <= gone[Claims[t].session] + Timeout + StatusTtl
    <3>1. \/ t \in DOMAIN cache /\ cache'[t] = cache[t]
          \/ /\ request[q].stage = "answered" /\ request[q].word
             /\ t = request[q].token /\ cache'[t] = now + StatusTtl
          BY <1>0, <1>4, Caching
    <3>2. CASE t \in DOMAIN cache /\ cache'[t] = cache[t]
          BY <1>0, <2>7, <3>2 DEF SessionsWere
    <3>3. CASE /\ request[q].stage = "answered" /\ request[q].word
               /\ t = request[q].token /\ cache'[t] = now + StatusTtl
          BY <1>0, <2>2, <2>3, <2>7, <3>3
    <3> QED BY <3>1, <3>2, <3>3
  <2>8. Cached'
        BY <2>1, <2>7
  <2> QED BY <2>4, <2>5, <2>6, <2>8 DEF SessionsWere
<1>5. ASSUME (\E k \in Kid : Publish(k) \/ Withdraw(k)) \/ \E s \in Session : End(s) PROVE SessionsWere'
  <2>1. /\ UNCHANGED <<now, client, cache, request, sought>>
        /\ \A x \in DOMAIN gone' : /\ gone'[x] \in Nat
                                   /\ \/ x \in DOMAIN gone /\ gone'[x] = gone[x]
                                      \/ gone'[x] = now
        BY <1>5, TakenBackLater
  <2>2. Cached'
        BY <1>0, <2>1 DEF SessionsWere
  <2>3. ASSUME NEW p \in Request PROVE Word(p)' /\ Accepted(p)'
    <3>1. request'[p] = request[p] /\ Of(p)' = Of(p)
          BY <2>1 DEF Of
    <3> QED BY <1>0, <2>1, <3>1 DEF SessionsWere
  <2> QED BY <2>2, <2>3 DEF SessionsWere
<1>6. ASSUME UNCHANGED <<cache, request, gone>> PROVE SessionsWere'
      BY <1>0, <1>6 DEF SessionsWere, Of
<1>7. ASSUME Tick \/ UNCHANGED lodgeVars PROVE SessionsWere'
      BY <1>6, <1>7 DEF Tick, lodgeVars
<1> QED BY <1>2, <1>3, <1>4, <1>5, <1>7, Steps

\* A token is decoded before Lodge is asked about it, and the answer takes no longer than Timeout.
LEMMA TokensWereNext == LodgeIdentityAssumption /\ Inv /\ [Next]_lodgeVars => TokensWere'
<1> SUFFICES ASSUME LodgeIdentityAssumption, Inv, [Next]_lodgeVars PROVE TokensWere'
    OBVIOUS
<1> DEFINE Asked(q) == request[q].stage \in {"asking", "answered"} =>
                          /\ Of(q).sound /\ Of(q).scopes \subseteq Ceiling[Of(q).role]
                          /\ Of(q).iat <= request[q].since /\ request[q].since < Of(q).exp
           Accepted(q) == request[q].stage = "accepted" =>
                             /\ Of(q).sound /\ Of(q).scopes \subseteq Ceiling[Of(q).role]
                             /\ Of(q).iat <= request[q].ended /\ request[q].ended < Of(q).exp + Timeout
<1>0. /\ Shapes /\ Past /\ TokensWere
      /\ now \in Nat /\ Timeout \in Nat
      /\ \A q \in Request : /\ request[q].since \in Nat /\ request[q].since <= now
                            /\ request[q].stage \in InFlight => now <= request[q].since + Timeout
                            /\ request[q].stage # "idle" => Of(q).iat \in Int /\ Of(q).exp \in Int
  <2>1. \A q \in Request : request[q].stage # "idle" => Of(q).iat \in Int /\ Of(q).exp \in Int
        BY DEF Inv, Shapes, Of, LodgeIdentityAssumption
  <2> QED BY <2>1, Numbers, Fields DEF Inv, Past
<1>1. ASSUME NEW q \in Request, \A p \in Request : p # q => request'[p] = request[p],
             Asked(q)', Accepted(q)'
      PROVE  TokensWere'
  <2>1. ASSUME NEW p \in Request, p # q PROVE Asked(p)' /\ Accepted(p)'
    <3>1. request'[p] = request[p] /\ Of(p)' = Of(p)
          BY <1>1, <2>1 DEF Of
    <3> QED BY <1>0, <3>1 DEF TokensWere
  <2> QED BY <1>1, <2>1 DEF TokensWere
<1>2. ASSUME NEW q \in Request, key_for(q) \/ _refresh(q) PROVE TokensWere'
  <2>1. Moved(q, {"refresh", "unknown", "decode", "refused"})
        BY <1>0, <1>2, KeyStep
  <2> QED BY <1>1, <2>1 DEF Moved
<1>3. ASSUME NEW q \in Request, ServeKeys(q) \/ Fail(q) \/ \E t \in Token : authenticate(q, t) PROVE TokensWere'
  <2>1. /\ \A p \in Request : p # q => request'[p] = request[p]
        /\ request'[q].stage \in {"key", "refused", "refresh_served", "unknown_served"}
        BY <1>0, <1>3, OtherStep
  <2> QED BY <1>1, <2>1
<1>4. ASSUME NEW q \in Request, decode(q) \/ ServeStatus(q) \/ require_active(q) PROVE TokensWere'
  <2>1. /\ Moved(q, {"asking", "answered", "accepted", "refused"})
        /\ request'[q].stage = "asking" => Valid(q) /\ request'[q].since = now
        /\ request'[q].stage # "asking" => request'[q].since = request[q].since
        /\ request'[q].stage = "answered" => request[q].stage = "asking"
        /\ request'[q].stage = "accepted" =>
              request'[q].ended = now /\ (Valid(q) \/ request[q].stage = "answered")
        /\ request[q].stage # "idle"
        BY <1>0, <1>4, TokenStep
  <2>2. Of(q)' = Of(q)
        BY <2>1 DEF Of, Moved
  <2>3. Valid(q) => /\ Of(q).sound /\ Of(q).scopes \subseteq Ceiling[Of(q).role]
                    /\ Of(q).iat <= now /\ now < Of(q).exp
        BY DEF Valid
  <2>4. request[q].stage \in {"asking", "answered"} =>
           /\ Of(q).sound /\ Of(q).scopes \subseteq Ceiling[Of(q).role]
           /\ Of(q).iat <= request[q].since /\ request[q].since < Of(q).exp
        BY <1>0 DEF TokensWere
  <2>5. request[q].stage = "answered" => now <= request[q].since + Timeout
        BY <1>0 DEF InFlight
  <2>6. Asked(q)'
        BY <1>0, <2>1, <2>2, <2>3, <2>4 DEF Moved
  <2>7. Accepted(q)'
        BY <1>0, <2>1, <2>2, <2>3, <2>4, <2>5
  <2> QED BY <1>1, <2>1, <2>6, <2>7 DEF Moved
<1>5. ASSUME UNCHANGED request PROVE TokensWere'
      BY <1>0, <1>5 DEF TokensWere, Of
<1>6. ASSUME (\E k \in Kid : Publish(k) \/ Withdraw(k)) \/ \E s \in Session : End(s) PROVE TokensWere'
      BY <1>5, <1>6, TakenBackLater
<1>7. ASSUME Tick \/ UNCHANGED lodgeVars PROVE TokensWere'
      BY <1>5, <1>7 DEF Tick, lodgeVars
<1> QED BY <1>2, <1>3, <1>4, <1>6, <1>7, Steps

\* The client asks for an unknown key only when unknown_until has passed, and moves it on.
LEMMA WaitsNext == LodgeIdentityAssumption /\ Inv /\ [Next]_lodgeVars => Waits'
<1> SUFFICES ASSUME LodgeIdentityAssumption, Inv, [Next]_lodgeVars PROVE Waits'
    OBVIOUS
<1>0. /\ Shapes /\ Past /\ Bounded /\ Waits /\ now \in Nat /\ KeyTtl \in Nat
      /\ client.unknown_until \in Nat /\ \A s \in sought : s.at \in Nat
      BY Numbers, Fields DEF Inv, Shapes
<1>1. ASSUME NEW q \in Request, key_for(q) \/ _refresh(q) PROVE Waits'
  <2>1. \/ /\ client.unknown_until <= now /\ client'.unknown_until = now + KeyTtl
           /\ sought' = sought \cup {[by |-> q, at |-> now]}
        \/ client'.unknown_until = client.unknown_until /\ sought' = sought
        BY <1>0, <1>1, KeyStep
  <2>2. CASE client'.unknown_until = client.unknown_until /\ sought' = sought
        BY <1>0, <2>2 DEF Waits
  <2>3. CASE /\ client.unknown_until <= now /\ client'.unknown_until = now + KeyTtl
             /\ sought' = sought \cup {[by |-> q, at |-> now]}
    <3>1. \A s \in sought : s.at + KeyTtl <= now
          BY <1>0, <2>3 DEF Waits
    <3>2. \A s \in sought' : s.at + KeyTtl <= client'.unknown_until
          BY <1>0, <2>3, <3>1
    <3>3. \A s, t \in sought' : s # t => s.at - t.at >= KeyTtl \/ t.at - s.at >= KeyTtl
          BY <1>0, <2>3, <3>1 DEF Waits
    <3> QED BY <3>2, <3>3 DEF Waits
  <2> QED BY <2>1, <2>2, <2>3
<1>2. ASSUME UNCHANGED <<client, sought>> PROVE Waits'
      BY <1>0, <1>2 DEF Waits
<1>3. ASSUME NEW q \in Request, decode(q) \/ ServeStatus(q) \/ require_active(q) PROVE Waits'
      BY <1>0, <1>2, <1>3, TokenStep
<1>4. ASSUME NEW q \in Request, ServeKeys(q) \/ Fail(q) \/ \E t \in Token : authenticate(q, t) PROVE Waits'
      BY <1>0, <1>2, <1>4, OtherStep
<1>5. ASSUME (\E k \in Kid : Publish(k) \/ Withdraw(k)) \/ \E s \in Session : End(s) PROVE Waits'
      BY <1>2, <1>5, TakenBackLater
<1>6. ASSUME Tick \/ UNCHANGED lodgeVars PROVE Waits'
      BY <1>2, <1>6 DEF Tick, lodgeVars
<1> QED BY <1>1, <1>3, <1>4, <1>5, <1>6, Steps

\* What is put in the cache evicts an entry when the cache is full.
LEMMA BoundedNext == LodgeIdentityAssumption /\ Inv /\ [Next]_lodgeVars => Bounded'
<1> SUFFICES ASSUME LodgeIdentityAssumption, Inv, [Next]_lodgeVars PROVE Bounded'
    OBVIOUS
<1>0. Shapes /\ Past /\ Bounded
      BY DEF Inv
<1>1. ASSUME UNCHANGED cache PROVE Bounded'
      BY <1>0, <1>1 DEF Bounded
<1>2. ASSUME NEW q \in Request, decode(q) \/ ServeStatus(q) \/ require_active(q) PROVE Bounded'
      BY <1>0, <1>2, Caching DEF Bounded
<1>3. ASSUME NEW q \in Request, key_for(q) \/ _refresh(q) PROVE Bounded'
      BY <1>0, <1>1, <1>3, KeyStep
<1>4. ASSUME NEW q \in Request, ServeKeys(q) \/ Fail(q) \/ \E t \in Token : authenticate(q, t) PROVE Bounded'
      BY <1>0, <1>1, <1>4, OtherStep
<1>5. ASSUME (\E k \in Kid : Publish(k) \/ Withdraw(k)) \/ \E s \in Session : End(s) PROVE Bounded'
      BY <1>1, <1>5, TakenBackLater
<1>6. ASSUME Tick \/ UNCHANGED lodgeVars PROVE Bounded'
      BY <1>1, <1>6 DEF Tick, lodgeVars
<1> QED BY <1>2, <1>3, <1>4, <1>5, <1>6, Steps

\* The invariant holds in every state the verifier and its clients reach.
THEOREM LodgeInvariant == LodgeIdentityAssumption /\ Spec => []Inv
<1> SUFFICES ASSUME LodgeIdentityAssumption PROVE Spec => []Inv
    OBVIOUS
<1>1. Init => Inv
      BY LodgeInit
<1>2. Inv /\ [Next]_lodgeVars => Inv'
      BY ShapesNext, PastNext, KeysWereNext, SessionsWereNext, TokensWereNext, WaitsNext, BoundedNext DEF Inv
<1> QED BY <1>1, <1>2, PTL DEF Spec

-----------------------------------------------------------------------------
(* What it gives. *)

\* A session that ended is refused once a word about it that was under way, and the cache
\* of it, have run out (LodgeStatusClient.require_active).
THEOREM EndedSessionsStayOut == LodgeIdentityAssumption /\ Spec => []EndedSessionsAreRefused
<1>1. Inv => EndedSessionsAreRefused
      BY DEF Inv, SessionsWere, EndedSessionsAreRefused
<1> QED BY <1>1, LodgeInvariant, PTL

\* A withdrawn key checks no token once a fetch that was under way, and the cache of it,
\* have run out (LodgeJwksClient.key_for).
THEOREM WithdrawnKeysStayOut == LodgeIdentityAssumption /\ Spec => []WithdrawnKeysAreForgotten
<1>1. Inv => WithdrawnKeysAreForgotten
      BY DEF Inv, KeysWere, WithdrawnKeysAreForgotten
<1> QED BY <1>1, LodgeInvariant, PTL

\* Who is accepted has a sound token of its role's scopes, within its life but for the time
\* an answer may take (LodgeIdentityService.authenticate).
THEOREM OnlyTheValidAreAccepted == LodgeIdentityAssumption /\ Spec => []AcceptedIsValid
<1>1. Inv => AcceptedIsValid
      BY DEF Inv, TokensWere, AcceptedIsValid
<1> QED BY <1>1, LodgeInvariant, PTL

\* Unknown keys are fetched once in the life of the cached ones, and the cache of words has
\* its capacity (LodgeStatusClient._enforce_capacity).
THEOREM LodgeIsSparedAlways == LodgeIdentityAssumption /\ Spec => []LodgeIsSpared
<1>1. Inv => LodgeIsSpared
      BY DEF Inv, Waits, Bounded, LodgeIsSpared
<1> QED BY <1>1, LodgeInvariant, PTL
================================================================================
