-------------------------------- MODULE SignIn --------------------------------
(***************************************************************************)
(* Accounts and how a browser gets a token for one.  An administrator's    *)
(* request is let in, reads an account, and commits later; the directory   *)
(* of Feishu is synchronized the same way.  A login at Feishu leaves a     *)
(* state in Redis and a cookie that binds it to the browser; the callback  *)
(* consumes both, and hands the token over by a second pair of them.       *)
(*                                                                         *)
(*   login: new -start-> stored -callback-> consumed -> known -> handoff   *)
(*          -exchange-> handed, or ended at any of them                    *)
(***************************************************************************)
EXTENDS Integers, FiniteSets

CONSTANTS
    User,      \* ids of accounts
    Initial,   \* those there are at first: administrators with an open id each
    OpenId,    \* identities at Feishu
    InitialId, \* [Initial -> OpenId]
    Request,   \* requests about accounts that may be under way at once
    Change,    \* what an administrator may change: "stop", "start", "demote", "bind"
    Browser,   \* browsers
    Login,     \* logins at Feishu, each with its state and its handoff: bound
    None

SignInAssumption ==
    /\ Initial \subseteq User /\ InitialId \in [Initial -> OpenId]
    /\ None \notin OpenId \cup User \cup Login

VARIABLES
    account,  \* sys_user: [User -> account]
    request,  \* what each request read and is about to write
    login,    \* [Login -> login]
    binding,  \* [Browser -> Login or None]: the cookie with the binding of a state
    handle,   \* [Browser -> Login or None]: the cookie with the handle of a handoff
    token,    \* [Browser -> User or None]
    handed    \* [Login -> how often its token was handed over]: history

accounts == <<account, request>>
logins == <<login, binding, handle, token, handed>>
vars == <<account, request, login, binding, handle, token, handed>>

-----------------------------------------------------------------------------
NoAccount == [live |-> FALSE, active |-> FALSE, role |-> "member", openId |-> None]
NewLogin == [pc |-> "new", browser |-> None, at |-> None, person |-> None, user |-> None]
Idle == [pc |-> "idle"]

Init == /\ account = [u \in User |->
              IF u \in Initial THEN [live |-> TRUE, active |-> TRUE, role |-> "admin",
                                     openId |-> InitialId[u]]
              ELSE NoAccount]
        /\ request = [q \in Request |-> Idle]
        /\ login = [l \in Login |-> NewLogin]
        /\ binding = [b \in Browser |-> None]
        /\ handle = [b \in Browser |-> None]
        /\ token = [b \in Browser |-> None]
        /\ handed = [l \in Login |-> 0]

find_by_feishu_open_id(o) == {u \in User : account[u].openId = o}

\* get_current_user and the guard on the role.
Admin(u) == account[u].live /\ account[u].active /\ account[u].role = "admin"

\* uq_user_feishu_open_id: an open id belongs to one account for good.
Free(u, o) == o = None \/ find_by_feishu_open_id(o) \subseteq {u}

-----------------------------------------------------------------------------
Changed(a, c, o) ==
    CASE c = "stop" -> [a EXCEPT !.active = FALSE]
      [] c = "start" -> [a EXCEPT !.active = TRUE]
      [] c = "demote" -> [a EXCEPT !.role = "member"]
      [] c = "bind" -> [a EXCEPT !.openId = o]

\* Nobody stops or demotes himself.
update_user(q, admin, u, c, o) ==
    /\ request[q].pc = "idle" /\ Admin(admin) /\ account[u].live
    /\ ~(u = admin /\ c \in {"stop", "demote"})
    /\ request' = [request EXCEPT ![q] = [pc |-> "save", u |-> u, read |-> account[u],
                                          new |-> Changed(account[u], c, o)]]
    /\ UNCHANGED account /\ UNCHANGED logins

\* Variant of save: every column is written, changed or not.
SaveAll(u, read, new) == new

\* The columns that differ from what was read.
save(u, read, new) == [c \in DOMAIN new |-> IF new[c] # read[c] THEN new[c] ELSE account[u][c]]

CommitUpdate(q) ==
    /\ request[q].pc = "save"
    /\ LET u == request[q].u
           stored == save(u, request[q].read, request[q].new)
       IN  \/ Free(u, stored.openId) /\ account' = [account EXCEPT ![u] = stored]
           \/ ~Free(u, stored.openId) /\ UNCHANGED account
    /\ request' = [request EXCEPT ![q] = Idle]
    /\ UNCHANGED logins

\* create_user: an administrator adds an account, with an open id or without.
create_user(admin, u, role, o) ==
    /\ Admin(admin) /\ ~account[u].live /\ Free(u, o)
    /\ account' = [account EXCEPT ![u] = [live |-> TRUE, active |-> TRUE, role |-> role,
                                          openId |-> o]]
    /\ UNCHANGED request /\ UNCHANGED logins

\* The directory names a person: nobody has his open id, or somebody is refreshed, and his
\* role and whether he is stopped are left alone.
sync_external_user(q, o) ==
    /\ request[q].pc = "idle"
    /\ request' = [request EXCEPT ![q] =
         IF find_by_feishu_open_id(o) = {} THEN [pc |-> "add", openId |-> o] ELSE Idle]
    /\ UNCHANGED account /\ UNCHANGED logins

CommitSync(q) ==
    /\ request[q].pc = "add"
    /\ \/ \E u \in User : /\ ~account[u].live /\ Free(u, request[q].openId)
                          /\ account' = [account EXCEPT ![u] = [live |-> TRUE, active |-> TRUE,
                                             role |-> "member", openId |-> request[q].openId]]
       \/ find_by_feishu_open_id(request[q].openId) # {} /\ UNCHANGED account
    /\ request' = [request EXCEPT ![q] = Idle]
    /\ UNCHANGED logins

-----------------------------------------------------------------------------
\* feishu_start: the state is stored, bound to the browser by its cookie.
start(b, l) ==
    /\ login[l].pc = "new"
    /\ login' = [login EXCEPT ![l].pc = "stored", ![l].browser = b]
    /\ binding' = [binding EXCEPT ![b] = l]
    /\ UNCHANGED <<handle, token, handed>> /\ UNCHANGED accounts

\* A person agrees at Feishu, and the browser is sent back with the state.
Authorize(l, o) ==
    /\ login[l].pc = "stored" /\ login[l].person = None
    /\ login' = [login EXCEPT ![l].person = o]
    /\ UNCHANGED <<binding, handle, token, handed>> /\ UNCHANGED accounts

\* The state is deleted as it is read, by the browser that it is bound to.
consume_state(b, l) ==
    /\ login[l].pc = "stored" /\ binding[b] = l
    /\ login' = [login EXCEPT ![l].pc = "consumed", ![l].at = b]

\* feishu_callback: any browser may come with any state; a redirect, whatever its result,
\* deletes the binding cookie of the browser.
feishu_callback(b, l) ==
    /\ login[l].person # None
    /\ \/ consume_state(b, l)
       \/ ~(login[l].pc = "stored" /\ binding[b] = l) /\ UNCHANGED login
    /\ binding' = [binding EXCEPT ![b] = None]
    /\ UNCHANGED <<handle, token, handed>> /\ UNCHANGED accounts

\* The code is exchanged for the identity, and the identity for an active account.
authenticate_feishu(l) ==
    /\ login[l].pc = "consumed"
    /\ LET found == {u \in find_by_feishu_open_id(login[l].person) : account[u].active} IN
       \/ \E u \in found : login' = [login EXCEPT ![l].pc = "known", ![l].user = u]
       \/ login' = [login EXCEPT ![l].pc = "ended"]   \* refused, or Feishu failed
    /\ UNCHANGED <<binding, handle, token, handed>> /\ UNCHANGED accounts

\* The token waits under a handle that only the browser of the callback is given.
create_exchange(l) ==
    /\ login[l].pc = "known"
    /\ login' = [login EXCEPT ![l].pc = "handoff"]
    /\ handle' = [handle EXCEPT ![login[l].at] = l]
    /\ UNCHANGED <<binding, token, handed>> /\ UNCHANGED accounts

\* Variant of consume_exchange: the handoff is not deleted.
ConsumeKept(b) ==
    /\ handle[b] # None /\ login[handle[b]].pc = "handoff"
    /\ UNCHANGED <<login, handle>>

\* The handoff is deleted as it is read.
consume_exchange(b) ==
    /\ handle[b] # None /\ login[handle[b]].pc = "handoff"
    /\ login' = [login EXCEPT ![handle[b]].pc = "handed"]
    /\ handle' = [handle EXCEPT ![b] = None]

\* feishu_exchange: the token of the handoff, or an error that deletes the cookie.
feishu_exchange(b) ==
    /\ handle[b] # None
    /\ \/ /\ consume_exchange(b)
          /\ token' = [token EXCEPT ![b] = login[handle[b]].user]
          /\ handed' = [handed EXCEPT ![handle[b]] = IF @ > 1 THEN @ ELSE @ + 1]
       \/ /\ login[handle[b]].pc # "handoff"
          /\ handle' = [handle EXCEPT ![b] = None]
          /\ UNCHANGED <<login, token, handed>>
    /\ UNCHANGED binding /\ UNCHANGED accounts

\* A state lives for ten minutes, a handoff for one.
Expire(l) ==
    /\ login[l].pc \in {"stored", "handoff"}
    /\ login' = [login EXCEPT ![l].pc = "ended"]
    /\ UNCHANGED <<binding, handle, token, handed>> /\ UNCHANGED accounts

Accounts == \/ \E q \in Request, a, u \in User, c \in Change, o \in OpenId \cup {None} :
                 update_user(q, a, u, c, o)
            \/ \E q \in Request : CommitUpdate(q) \/ CommitSync(q)
            \/ \E a, u \in User, r \in {"admin", "member"}, o \in OpenId \cup {None} :
                 Request # {} /\ create_user(a, u, r, o)
            \/ \E q \in Request, o \in OpenId : sync_external_user(q, o)

Logins == \/ \E b \in Browser, l \in Login : start(b, l) \/ feishu_callback(b, l)
          \/ \E l \in Login, o \in OpenId : Authorize(l, o)
          \/ \E l \in Login : authenticate_feishu(l) \/ create_exchange(l) \/ Expire(l)
          \/ \E b \in Browser : feishu_exchange(b)

Next == Accounts \/ Logins

Spec == Init /\ [][Next]_vars

-----------------------------------------------------------------------------
TypeOK == /\ \A u \in User : /\ account[u].openId \in OpenId \cup {None}
                             /\ account[u].active => account[u].live
          /\ \A l \in Login : login[l].pc \in {"known", "handoff", "handed"} =>
                                /\ login[l].user \in User /\ login[l].person \in OpenId
                                /\ login[l].at \in Browser
          /\ \A b \in Browser : binding[b] \in Login \cup {None}

\* However syncs, creations and bindings interleave, a person at Feishu has one account,
\* stopped or not.
OneAccountEach == \A o \in OpenId : Cardinality(find_by_feishu_open_id(o)) <= 1

\* A stopped account becomes active again only by a request to start it, never by one that
\* read it before it was stopped.
StopStays == \A u \in User : (account[u].live /\ ~account[u].active /\ account'[u].active) =>
    \E q \in Request : /\ request[q].pc = "save" /\ request[q].u = u
                       /\ request[q].new.active /\ ~request[q].read.active

\* users.py: no administrator locks himself out: somebody may always administer.
AdminRemains == \E u \in User : Admin(u)

\* A token is handed over once per login, however often the browser comes with the state
\* or the handle.
HandedOnce == \A l \in Login : handed[l] <= 1

\* The token in a browser is for the account of a person who agreed to a login that began
\* in that browser, whichever browser came with which state.
OwnToken == /\ \A b \in Browser : handle[b] # None => login[handle[b]].browser = b
            /\ \A b \in Browser : token[b] # None =>
                 \E l \in Login : /\ login[l].browser = b /\ handed[l] = 1
                                  /\ login[l].user = token[b]

-----------------------------------------------------------------------------
(* What the documents promise and the code does not keep (see README). *)

\* test_feishu_login.py: a state that a callback was refused for, as the callback was not
\* bound to it, is not lost: the browser that it is bound to can still come with it.
RefusalDisturbsNone == [][\A b \in Browser, l \in Login :
    (binding[b] = l /\ login[l].pc = "stored" /\ binding'[b] = None) =>
        login'[l].pc # "stored"]_vars
=============================================================================
