---------------------------- MODULE ProviderCards ----------------------------
(***************************************************************************)
(* The cards of the AI providers and the values of the configuration: rows *)
(* of the database that every process also keeps a copy of.  A request     *)
(* reads rows, writes the columns it changed in one commit, reads the      *)
(* cards again and only then replaces the copy of its process.             *)
(*                                                                         *)
(*   request: idle -> decide -> commit -> sync -> push -> idle             *)
(*            idle -> create -> insert -> (create of the next seed | sync) *)
(*            idle -> edit -> override -> idle                             *)
(***************************************************************************)
EXTENDS Integers, Sequences, FiniteSets, FiniteSetsExt

CONSTANTS
    Card,      \* 1 .. n, in the order of their create_time
    Tier,      \* {TIER_DAILY, TIER_REASONING}
    Seeds,     \* the tiers that seed_from_api_key makes a card for, in order
    Process,   \* server processes
    Request,   \* requests that may be under way at once
    Kind,      \* what administrators do: "move", "test", "delete", "stop", "start",
               \* "primary", "create", "edit"; and "crash"
    Value,     \* values of the configuration item
    Initial,   \* the tiers of the cards there are at first, in order
    None

CardAssumption ==
    /\ IsFiniteSet(Card) /\ Card = 1 .. Cardinality(Card)
    /\ Initial \in Seq(Tier) /\ DOMAIN Initial \subseteq Card
    /\ None \notin Card \cup Tier \cup Value

VARIABLES
    card,     \* ai_provider: [Card -> card]
    value,    \* sys_config: the value of one item
    request,  \* [Request -> request]
    up,       \* [Process -> BOOLEAN]
    cache,    \* factory.py, [Process -> [Tier -> candidates]]
    overlay   \* runtime_config.py, [Process -> Value or None]

vars == <<card, value, request, up, cache, overlay>>

-----------------------------------------------------------------------------
NoCard == [state |-> "none", tier |-> None, active |-> FALSE, primary |-> FALSE,
           tested |-> FALSE]
ProviderRecord(t, primary) ==
    [state |-> "live", tier |-> t, active |-> TRUE, primary |-> primary, tested |-> FALSE]

list_active_by_tier(cards, t) ==
    {c \in DOMAIN cards : cards[c].state = "live" /\ cards[c].active /\ cards[c].tier = t}
Primaries(cards, t) == {c \in list_active_by_tier(cards, t) : cards[c].primary}

\* What a process is told: the active cards of each tier, the primary one in front.
synchronize(cards) ==
    [t \in Tier |->
        LET active == list_active_by_tier(cards, t) IN
        [ids |-> active,
         first |-> IF Primaries(cards, t) # {} THEN Max(Primaries(cards, t))
                   ELSE IF active # {} THEN Min(active) ELSE None]]

Idle == [pc |-> "idle"]
NoCache == [t \in Tier |-> [ids |-> {}, first |-> None]]

\* Runs that begin with cards begin with servers that were told of them; the others
\* begin with a first start.
Init == /\ card = [c \in Card |->
             IF c \in DOMAIN Initial
             THEN ProviderRecord(Initial[c], \A d \in 1 .. c - 1 : Initial[d] # Initial[c])
             ELSE NoCard]
        /\ value = None
        /\ request = [q \in Request |-> Idle]
        /\ up = [p \in Process |-> DOMAIN Initial # {}]
        /\ cache = [p \in Process |-> synchronize(card)]
        /\ overlay = [p \in Process |-> None]

-----------------------------------------------------------------------------
\* update, record_test, mark_deleted, set_active and make_primary.
Changed(read, kind, t) ==
    CASE kind = "move" -> [read EXCEPT !.tier = t]
      [] kind = "test" -> [read EXCEPT !.tested = TRUE]
      [] kind = "delete" -> [read EXCEPT !.state = "deleted", !.primary = FALSE]
      [] kind = "stop" -> [read EXCEPT !.active = FALSE, !.primary = FALSE]
      [] kind = "start" -> [read EXCEPT !.active = TRUE]
      [] kind = "primary" -> [read EXCEPT !.primary = TRUE]

\* The columns that differ from what the session loaded.
save(cards, read, write) ==
    [c \in Card |->
        IF c \in DOMAIN write
        THEN [f \in DOMAIN write[c] |->
                 IF write[c][f] # read[c][f] THEN write[c][f] ELSE cards[c][f]]
        ELSE cards[c]]

Only(c, r) == [d \in {c} |-> r]

\* A deletion or a toggle flushes its row, and holds it until it ends.
Locks(q) == IF request[q].pc = "commit" /\ request[q].kind \in {"delete", "stop", "start"}
            THEN {request[q].c} ELSE {}
Free(q, cs) == \A r \in Request \ {q} : Locks(r) \cap cs = {}

\* _required: the card is read; one that is stopped is not made primary.
get(q, p, kind, c, t) ==
    /\ request[q].pc = "idle" /\ up[p] /\ card[c].state = "live"
    /\ kind = "primary" => card[c].active
    /\ request' = [request EXCEPT ![q] = [pc |-> "decide", p |-> p, kind |-> kind, c |-> c,
                                          read |-> card[c], t |-> t]]
    /\ UNCHANGED <<card, value, up, cache, overlay>>

\* Variant of promote: nobody succeeds a primary card.
PromoteNone(cards, t) == {}

\* _promote_if_needed: the oldest active card of a tier that has no primary one.
promote(cards, t) ==
    IF Primaries(cards, t) = {} /\ list_active_by_tier(cards, t) # {}
    THEN {Min(list_active_by_tier(cards, t))} ELSE {}

\* What the request will write, from a second query.
decide(q) ==
    /\ request[q].pc = "decide"
    /\ LET r == request[q]
           own == Changed(r.read, r.kind, r.t)
           flushed == save(card, Only(r.c, r.read), Only(r.c, own))
           more == promote(flushed, r.read.tier)
           siblings == list_active_by_tier(card, r.read.tier)
           read == [c \in Card |-> IF c = r.c THEN r.read ELSE card[c]]
           write == CASE r.kind \in {"move", "test"} -> Only(r.c, own)
                      [] r.kind \in {"delete", "stop", "start"} ->
                           [c \in more \cup {r.c} |->
                               IF c = r.c THEN [own EXCEPT !.primary = @ \/ c \in more]
                               ELSE [card[c] EXCEPT !.primary = TRUE]]
                      [] r.kind = "primary" ->
                           [c \in siblings |-> [read[c] EXCEPT !.primary = (c = r.c)]]
       IN  /\ r.kind \in {"delete", "stop", "start"} => Free(q, {r.c})
           /\ request' = [request EXCEPT ![q] = [pc |-> "commit", p |-> r.p, kind |-> r.kind,
                                  c |-> r.c, read |-> read, write |-> write]]
    /\ UNCHANGED <<card, value, up, cache, overlay>>

\* The use case commits; a test tells nobody.
commit(q) ==
    /\ request[q].pc = "commit" /\ Free(q, DOMAIN request[q].write)
    /\ card' = save(card, request[q].read, request[q].write)
    /\ request' = [request EXCEPT ![q] =
         IF request[q].kind = "test" THEN Idle ELSE [pc |-> "sync", p |-> request[q].p]]
    /\ UNCHANGED <<value, up, cache, overlay>>

\* A request fails before it commits: a lost connection, a deadlock of two rows.
Fail(q) ==
    /\ request[q].pc \in {"decide", "commit"}
    /\ request' = [request EXCEPT ![q] = Idle]
    /\ UNCHANGED <<card, value, up, cache, overlay>>

-----------------------------------------------------------------------------
\* create: a card is primary if its tier has no active card when that is asked.
create_provider(q, p, tiers) ==
    request' = [request EXCEPT ![q] = [pc |-> "create", p |-> p, tiers |-> tiers,
        first |-> list_active_by_tier(card, Head(tiers)) = {}]]

Create(q, p, t) ==
    /\ request[q].pc = "idle" /\ up[p]
    /\ create_provider(q, p, <<t>>)
    /\ UNCHANGED <<card, value, up, cache, overlay>>

\* The card is committed; a start goes on with the next seed.
insert(q) ==
    /\ request[q].pc = "create"
    /\ \E c \in Card :
         /\ card[c].state = "none" /\ \A d \in 1 .. c - 1 : card[d].state # "none"
         /\ card' = [card EXCEPT ![c] =
              ProviderRecord(Head(request[q].tiers), request[q].first)]
    /\ IF Tail(request[q].tiers) = <<>>
       THEN request' = [request EXCEPT ![q] = [pc |-> "sync", p |-> request[q].p]]
       ELSE create_provider(q, request[q].p, Tail(request[q].tiers))
    /\ UNCHANGED <<value, up, cache, overlay>>

\* synchronize_runtime: the cards are read in a transaction of their own,
list_all(q) ==
    /\ request[q].pc = "sync"
    /\ request' = [request EXCEPT ![q] = [pc |-> "push", p |-> request[q].p, seen |-> card]]
    /\ UNCHANGED <<card, value, up, cache, overlay>>

\* and replace the candidates of the process. A start is over then.
set_provider_status(q) ==
    /\ request[q].pc = "push"
    /\ cache' = [cache EXCEPT ![request[q].p] = synchronize(request[q].seen)]
    /\ request' = [request EXCEPT ![q] = Idle]
    /\ up' = [up EXCEPT ![request[q].p] = TRUE]
    /\ UNCHANGED <<card, value, overlay>>

-----------------------------------------------------------------------------
\* lifespan: the configuration is loaded, and where no card is left the
\* seeds are made, each in a commit of its own.
start(q, p) ==
    /\ request[q].pc = "idle" /\ ~up[p]
    /\ \A r \in Request : request[r].pc # "idle" => request[r].p # p
    /\ overlay' = [overlay EXCEPT ![p] = value]
    /\ IF \E c \in Card : card[c].state = "live"
       THEN request' = [request EXCEPT ![q] = [pc |-> "sync", p |-> p]]
       ELSE create_provider(q, p, Seeds)
    /\ UNCHANGED <<card, value, up, cache>>

\* A process dies, and what it was doing.
Crash(p) ==
    /\ up' = [up EXCEPT ![p] = FALSE]
    /\ cache' = [cache EXCEPT ![p] = NoCache]
    /\ overlay' = [overlay EXCEPT ![p] = None]
    /\ request' = [q \in Request |->
         IF request[q].pc # "idle" /\ request[q].p = p THEN Idle ELSE request[q]]
    /\ UNCHANGED <<card, value>>

-----------------------------------------------------------------------------
\* UpdateConfiguration: the value is committed,
update_config(q, p, v) ==
    /\ request[q].pc = "idle" /\ up[p]
    /\ value' = v
    /\ request' = [request EXCEPT ![q] = [pc |-> "override", p |-> p, v |-> v]]
    /\ UNCHANGED <<card, up, cache, overlay>>

\* and then put over the settings of the process.
set_override(q) ==
    /\ request[q].pc = "override"
    /\ overlay' = [overlay EXCEPT ![request[q].p] = request[q].v]
    /\ request' = [request EXCEPT ![q] = Idle]
    /\ UNCHANGED <<card, value, up, cache>>

Next == \/ \E q \in Request, p \in Process, c \in Card, t \in Tier,
              k \in Kind \ {"create", "edit", "crash"} :
             (k # "move" => t = card[c].tier) /\ get(q, p, k, c, t)
        \/ \E q \in Request, p \in Process, t \in Tier :
             "create" \in Kind /\ Create(q, p, t)
        \/ \E q \in Request, p \in Process, v \in Value :
             "edit" \in Kind /\ update_config(q, p, v)
        \/ \E q \in Request : \/ decide(q) \/ commit(q) \/ Fail(q) \/ insert(q)
                              \/ list_all(q) \/ set_provider_status(q) \/ set_override(q)
        \/ \E q \in Request, p \in Process : start(q, p)
        \/ \E p \in Process : "crash" \in Kind /\ Crash(p)

Spec == Init /\ [][Next]_vars

-----------------------------------------------------------------------------
Resting == \A q \in Request : request[q].pc = "idle"

TypeOK == /\ \A c \in Card : /\ card[c].state \in {"none", "live", "deleted"}
                             /\ card[c].tier \in Tier \cup {None}
          /\ \A p \in Process, t \in Tier : /\ cache[p][t].ids \subseteq Card
                                            /\ cache[p][t].first = None <=> cache[p][t].ids = {}
          /\ value \in Value \cup {None} /\ overlay \in [Process -> Value \cup {None}]

\* models/ai_provider.py: whatever is created, deleted, stopped and started, each tier that
\* has an active card has one primary card, which is active.
OnePrimary == \A t \in Tier :
    /\ list_active_by_tier(card, t) # {} => Cardinality(Primaries(card, t)) = 1
    /\ \A c \in Card : card[c].tier = t /\ card[c].primary => c \in list_active_by_tier(card, t)

\* factory.py, runtime_config.py: when no request is under way, a process that is up offers
\* the cards and uses the value that the database has.
Told == Resting => \A p \in Process : up[p] =>
    cache[p] = synchronize(card) /\ overlay[p] = value

\* However requests interleave, a deleted card stays deleted, and a card that was stopped
\* is active again only as somebody starts it; a test that began before does neither.
GoneStays == \A c \in Card :
    /\ card[c].state = "deleted" => card'[c].state = "deleted"
    /\ (card[c].state = "live" /\ ~card[c].active /\ card'[c].active) =>
         \E q \in Request : /\ request[q].pc = "commit" /\ request[q].c = c
                            /\ request[q].kind = "start"

-----------------------------------------------------------------------------
(* What the documents promise and the code does not keep (see README). *)

\* domain/models.py: a card that is not active is not primary.
PrimaryIsActive == \A c \in Card : card[c].primary => card[c].active

\* The handbook: a server that started on an empty table has a card of both tiers to offer,
SeededBoth == \A p \in Process, t \in Tier : up[p] => cache[p][t].first # None

\* and two cards are made, one of each tier.
SeededOnce == \A t \in Tier : Cardinality(list_active_by_tier(card, t)) <= 1
=============================================================================
