----------------------------- MODULE LodgeIdentity -----------------------------
(***************************************************************************)
(* The resource server's check of a token that Lodge issued: by the keys   *)
(* of Lodge, the claims of the token, and Lodge's word that its session is *)
(* active, with a cache of the keys and one of the words.                  *)
(*                                                                         *)
(* The keys are looked up under a lock, which is kept while they are       *)
(* fetched: when they are too old, and once in a while for a key that is   *)
(* not among them.  A word is asked for without a lock.  What Lodge        *)
(* answers is what holds when it answers; it arrives later, within the     *)
(* timeout or not at all (the code limits every read of an answer and its  *)
(* length: Timeout is what these limits add up to).                        *)
(*                                                                         *)
(* Keys that Lodge withdraws, sessions it ends and identities it changes   *)
(* are external, and so is what signs a token: a sound token is one whose  *)
(* signature and fixed claims are in order.                                *)
(***************************************************************************)
EXTENDS Integers, FiniteSets

CONSTANTS Token, Claims,     \* token |-> [sound, kid, session, role, scopes, iat, nbf, exp]
          Kid, FirstKeys, Session,
          Ceiling,           \* role |-> the scopes it may have
          MaxLife, KeyTtl, StatusTtl, Timeout, MaxEntries,
          Request, LastTime, MaxFaults

LodgeIdentityAssumption ==
    /\ KeyTtl \in Nat \ {0} /\ StatusTtl \in Nat \ {0} /\ Timeout \in Nat /\ MaxEntries \in Nat \ {0}
    /\ LastTime \in Nat /\ MaxFaults \in Nat /\ FirstKeys \subseteq Kid /\ Kid \cap Session = {}
    /\ \A t \in Token : /\ Claims[t].kid \in Kid /\ Claims[t].session \in Session
                        /\ Claims[t].iat \in Int /\ Claims[t].exp \in Int

VARIABLES now,
          keys, session,   \* at Lodge: the keys it publishes, the sessions that are active
          gone,            \* key or session |-> when it was withdrawn or ended
          client,          \* the cached keys: [keys, expires_at, unknown_until]
          lock,            \* the requests that have the lock of the keys
          cache,           \* token |-> until when Lodge's word counts
          request,
          sought,          \* the fetches for an unknown key: [by, at]
          faults
lodgeVars == <<now, keys, session, gone, client, lock, cache, request, sought, faults>>

Idle == [stage |-> "idle", token |-> "none", since |-> 0, doc |-> {}, word |-> FALSE, keyed |-> 0, ended |-> 0]
InFlight == {"refresh", "unknown", "asking", "refresh_served", "unknown_served", "answered"}

TypeOK ==
    /\ now \in 0..LastTime /\ keys \subseteq Kid /\ session \subseteq Session
    /\ \A q \in Request : request[q].stage \in InFlight \cup {"idle", "key", "decode", "accepted", "refused"}
    /\ DOMAIN cache \subseteq Token /\ Cardinality(lock) <= 1 /\ faults \in 0..MaxFaults

Init ==
    /\ now = 0 /\ keys = FirstKeys /\ session = Session /\ gone = [x \in {} |-> 0]
    /\ client = [keys |-> {}, expires_at |-> 0, unknown_until |-> 0]
    /\ lock = {} /\ cache = [t \in {} |-> 0] /\ sought = {} /\ faults = 0
    /\ request = [q \in Request |-> Idle]

With(f, x, y) == [z \in DOMAIN f \cup {x} |-> IF z = x THEN y ELSE f[z]]
Of(q) == Claims[request[q].token]
Stage(q, stage) == [request EXCEPT ![q].stage = stage, ![q].since = now]
Ended(q, stage) == [request EXCEPT ![q].stage = stage, ![q].ended = now]

authenticate(q, t) ==
    /\ request[q].stage = "idle"
    /\ request' = [request EXCEPT ![q].stage = "key", ![q].token = t]
    /\ UNCHANGED <<now, keys, session, gone, client, lock, cache, sought, faults>>

\* The key of a token is among the cached ones; or they are fetched for it, unless that was
\* done for an unknown key a short while ago; or the token is refused.
Lookup(q, c) ==
    IF Of(q).kid \in c.keys
    THEN /\ request' = [request EXCEPT ![q].stage = "decode", ![q].keyed = now]
         /\ client' = c /\ lock' = {} /\ UNCHANGED sought
    ELSE IF c.unknown_until <= now
    THEN /\ request' = Stage(q, "unknown") /\ lock' = {q}
         /\ client' = [c EXCEPT !.unknown_until = now + KeyTtl]
         /\ sought' = sought \cup {[by |-> q, at |-> now]}
    ELSE request' = Ended(q, "refused") /\ client' = c /\ lock' = {} /\ UNCHANGED sought

\* Variant of Stale: the keys are fetched once.
StaleOnce == client.keys = {}

Stale == client.expires_at <= now

key_for(q) ==
    /\ request[q].stage = "key" /\ lock = {}
    /\ IF Stale
       THEN request' = Stage(q, "refresh") /\ lock' = {q} /\ UNCHANGED <<client, sought>>
       ELSE Lookup(q, client)
    /\ UNCHANGED <<now, keys, session, gone, cache, faults>>

\* Lodge answers with the keys it has.
ServeKeys(q) ==
    /\ request[q].stage \in {"refresh", "unknown"}
    /\ request' = [request EXCEPT ![q].stage = IF @ = "refresh" THEN "refresh_served" ELSE "unknown_served",
                                  ![q].doc = keys]
    /\ UNCHANGED <<now, keys, session, gone, client, lock, cache, sought, faults>>

\* The keys arrive; none at all are refused.
_refresh(q) ==
    /\ request[q].stage \in {"refresh_served", "unknown_served"}
    /\ LET c == [client EXCEPT !.keys = request[q].doc, !.expires_at = now + KeyTtl]
       IN  IF request[q].doc = {}
           THEN request' = Ended(q, "refused") /\ lock' = {} /\ UNCHANGED <<client, sought>>
           ELSE IF request[q].stage = "refresh_served" THEN Lookup(q, c)
           ELSE /\ client' = c /\ lock' = {} /\ UNCHANGED sought
                /\ request' = IF Of(q).kid \in c.keys
                              THEN [request EXCEPT ![q].stage = "decode", ![q].keyed = now]
                              ELSE Ended(q, "refused")
    /\ UNCHANGED <<now, keys, session, gone, cache, faults>>

-----------------------------------------------------------------------------
Unexpired(t) == cache[t] > now
Kept(c) == [t \in {u \in DOMAIN c : c[u] > now} |-> c[t]]

\* The claims of a token are in order, its times too, and its scopes are ones its role may have.
Valid(q) ==
    LET c == Of(q)
    IN  /\ c.sound /\ c.iat <= now /\ c.nbf <= now /\ now < c.exp /\ c.exp - c.iat <= MaxLife
        /\ c.role \in DOMAIN Ceiling /\ c.scopes \subseteq Ceiling[c.role]

\* A valid token is accepted on a word of Lodge that still counts, or Lodge is asked.
decode(q) ==
    /\ request[q].stage = "decode"
    /\ IF ~Valid(q) THEN request' = Ended(q, "refused") /\ UNCHANGED cache
       ELSE /\ cache' = Kept(cache)
            /\ request' = IF request[q].token \in DOMAIN Kept(cache) THEN Ended(q, "accepted")
                          ELSE Stage(q, "asking")
    /\ UNCHANGED <<now, keys, session, gone, client, lock, sought, faults>>

\* Lodge says whether the session is active.
ServeStatus(q) ==
    /\ request[q].stage = "asking"
    /\ request' = [request EXCEPT ![q].stage = "answered", ![q].word = Of(q).session \in session]
    /\ UNCHANGED <<now, keys, session, gone, client, lock, cache, sought, faults>>

\* What the cache may be within its capacity: the entry that ends first makes room.
Within(c) ==
    IF Cardinality(DOMAIN c) <= MaxEntries THEN {c}
    ELSE {[t \in DOMAIN c \ {u} |-> c[t]] : u \in {v \in DOMAIN c : \A t \in DOMAIN c : c[v] <= c[t]}}

require_active(q) ==
    /\ request[q].stage = "answered"
    /\ IF request[q].word
       THEN /\ request' = Ended(q, "accepted")
            /\ cache' \in Within(With(Kept(cache), request[q].token, now + StatusTtl))
       ELSE request' = Ended(q, "refused") /\ UNCHANGED cache
    /\ UNCHANGED <<now, keys, session, gone, client, lock, sought, faults>>

\* Lodge cannot be reached, or what it says cannot be used: the token is refused.
Fail(q) ==
    /\ request[q].stage \in InFlight /\ faults < MaxFaults
    /\ faults' = faults + 1 /\ request' = Ended(q, "refused") /\ lock' = lock \ {q}
    /\ UNCHANGED <<now, keys, session, gone, client, cache, sought>>

\* Lodge publishes a key, withdraws one, or ends a session (a changed identity is as good).
Publish(k) == /\ k \notin keys /\ k \notin DOMAIN gone /\ keys' = keys \cup {k}
              /\ UNCHANGED <<now, session, gone, client, lock, cache, request, sought, faults>>
Withdraw(k) == /\ k \in keys /\ keys' = keys \ {k} /\ gone' = With(gone, k, now)
               /\ UNCHANGED <<now, session, client, lock, cache, request, sought, faults>>
End(s) == /\ s \in session /\ session' = session \ {s} /\ gone' = With(gone, s, now)
          /\ UNCHANGED <<now, keys, client, lock, cache, request, sought, faults>>

\* Nothing is in flight longer than the timeout.
Tick == /\ now < LastTime /\ now' = now + 1
        /\ \A q \in Request : request[q].stage \in InFlight => now < request[q].since + Timeout
        /\ UNCHANGED <<keys, session, gone, client, lock, cache, request, sought, faults>>

Next ==
    \/ \E q \in Request : \/ \E t \in Token : authenticate(q, t)
                          \/ key_for(q) \/ ServeKeys(q) \/ _refresh(q)
                          \/ decode(q) \/ ServeStatus(q) \/ require_active(q) \/ Fail(q)
    \/ \E k \in Kid : Publish(k) \/ Withdraw(k)
    \/ \E s \in Session : End(s)
    \/ Tick

Spec == Init /\ [][Next]_lodgeVars

-----------------------------------------------------------------------------
\* A session that ended is accepted no longer than a word about it counts and may take to
\* arrive, whatever the cache evicts and whichever requests overlap.
EndedSessionsAreRefused ==
    \A q \in Request : request[q].stage = "accepted" /\ Of(q).session \in DOMAIN gone =>
       request[q].ended < gone[Of(q).session] + Timeout + StatusTtl

\* A token is not checked with a key that Lodge withdrew longer ago than the keys are kept
\* and may take to arrive.
WithdrawnKeysAreForgotten ==
    \A q \in Request : request[q].stage \in {"decode", "asking", "answered", "accepted"}
                       /\ Of(q).kid \in DOMAIN gone =>
       request[q].keyed < gone[Of(q).kid] + Timeout + KeyTtl

\* Who is accepted has a sound token within its life but for the time Lodge may take, and
\* no scope beyond its role's.
AcceptedIsValid ==
    \A q \in Request : request[q].stage = "accepted" =>
       LET c == Of(q)
       IN  /\ c.sound /\ c.scopes \subseteq Ceiling[c.role]
           /\ c.iat <= request[q].ended /\ request[q].ended < c.exp + Timeout

\* Lodge is not asked for unknown keys more often than once in the life of the cached ones,
\* however many tokens have such keys; and the cache stays within its capacity.
LodgeIsSpared ==
    /\ \A s, t \in sought : s # t => s.at - t.at >= KeyTtl \/ t.at - s.at >= KeyTtl
    /\ Cardinality(DOMAIN cache) <= MaxEntries
=============================================================================
