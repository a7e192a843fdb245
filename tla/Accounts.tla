------------------------------ MODULE Accounts ------------------------------
(***************************************************************************)
(* Dashboard accounts and their sessions: the bootstrap of the first       *)
(* administrator (main.py), login behind a fixed-window limit (auth.py,    *)
(* ratelimit.py), tokens nobody revokes (jwt_auth.py), the routes that ask *)
(* the table for the account (deps.py) and those that ask only the token   *)
(* (analytics.py).                                                         *)
(*                                                                         *)
(* A browser has one request under way.  All share an address: the limit   *)
(* is per address.                                                         *)
(***************************************************************************)
EXTENDS Integers, FiniteSets

CONSTANTS
    User,
    Root,       \* ADMIN_BOOTSTRAP_USERNAME
    Browser,
    Process,    \* API processes that may start
    JwtTtl, RlLimit, RlWindow,
    MaxAttempts,  \* bound: where the counter stops counting, beyond RlLimit
    Moment,     \* bound: the times that are looked at
    NONE

Role == {"admin", "user"}
Row == [role : Role, active : BOOLEAN]

ASSUME NoneAssumption == NONE \notin Int /\ NONE \notin Row /\ Root \in User
ASSUME LimitsAssumption == {JwtTtl, RlLimit, RlWindow, MaxAttempts} \subseteq Nat

VARIABLES
    users,      \* the rows: role and active, NONE when there is none
    proc,       \* what an API process is at
    cookie,     \* the token a browser holds, NONE without
    req,        \* the request of a browser
    rl,         \* the counter of the address in Redis: how many, until when
    time,
    lost,       \* history: when an account was last deactivated
    died        \* history: a request of this window ended before its EXPIRE

avars == <<users, proc, cookie, req, rl, time, lost, died>>

NoRequestYet == [pc |-> "idle", user |-> NONE, role |-> NONE, at |-> 0, stale |-> FALSE]
NoCounter == [n |-> 0, end |-> NONE]

AccountsInit ==
    /\ users = [u \in User |-> NONE]
    /\ proc = [p \in Process |-> "down"]
    /\ cookie = [b \in Browser |-> NONE]
    /\ req = [b \in Browser |-> NoRequestYet]
    /\ rl = NoCounter
    /\ time = 0
    /\ lost = [u \in User |-> -1]
    /\ died = FALSE

Active(u) == users[u] # NONE /\ users[u].active
ActiveAdmin(u) == Active(u) /\ users[u].role = "admin"
Serving == \E p \in Process : proc[p] = "up"

-----------------------------------------------------------------------------
(* _bootstrap_admin, before a process serves. *)

\* count(conn) > 0: nothing to do.  A database that does not answer is logged,
\* and the process serves all the same.
Boot(p) ==
    /\ proc[p] = "down"
    /\ \/ proc' = [proc EXCEPT ![p] = IF \E u \in User : users[u] # NONE THEN "up" ELSE "insert"]
       \/ proc' = [proc EXCEPT ![p] = "up"]
    /\ UNCHANGED <<users, cookie, req, rl, time, lost, died>>

\* The INSERT; another process may have made it first, whose UniqueViolation is
\* logged.
BootInsert(p) ==
    /\ proc[p] = "insert"
    /\ users' = IF users[Root] = NONE
                THEN [users EXCEPT ![Root] = [role |-> "admin", active |-> TRUE]]
                ELSE users
    /\ proc' = [proc EXCEPT ![p] = "up"]
    /\ UNCHANGED <<cookie, req, rl, time, lost, died>>

\* A restart.  The requests it was serving end one by one: Die.
Stop(p) ==
    /\ proc[p] = "up"
    /\ proc' = [proc EXCEPT ![p] = "down"]
    /\ UNCHANGED <<users, cookie, req, rl, time, lost, died>>

-----------------------------------------------------------------------------
(* Slips. *)
\* First, EXPIRE set when the limit is reached.
FirstAtLimit(n) == n = RlLimit

\* MayLogin, the column active not looked at.
MayLoginInactive(u) == users[u] # NONE

\* AdminOf, the role of the token believed.
AdminOfToken(b) == cookie[b].role = "admin"
-----------------------------------------------------------------------------
(* POST /auth/login *)

First(n) == n = 1

\* INCR.
Attempt(b, u) ==
    /\ Serving
    /\ req[b].pc = "idle"
    /\ rl' = [rl EXCEPT !.n = IF @ < MaxAttempts THEN @ + 1 ELSE @]
    /\ \/ First(rl'.n) /\ req' = [req EXCEPT ![b].pc = "expire", ![b].user = u]
       \/ ~First(rl'.n) /\ rl'.n =< RlLimit /\ req' = [req EXCEPT ![b].pc = "check", ![b].user = u]
       \/ ~First(rl'.n) /\ rl'.n > RlLimit /\ UNCHANGED req
    /\ UNCHANGED <<users, proc, cookie, time, lost, died>>

\* EXPIRE, as long as the key is still there.
SetExpiry(b) ==
    /\ req[b].pc = "expire"
    /\ rl' = [rl EXCEPT !.end = time + RlWindow]
    /\ req' = [req EXCEPT ![b].pc = "check"]
    /\ UNCHANGED <<users, proc, cookie, time, lost, died>>

MayLogin(u) == Active(u)

\* The row is read and the password checked; a wrong one is refused as an
\* unknown account is.
CheckUser(b) ==
    /\ req[b].pc = "check"
    /\ \/ /\ MayLogin(req[b].user)
          /\ req' = [req EXCEPT ![b].pc = "issue", ![b].role = users[req[b].user].role,
                                ![b].at = time]
       \/ req' = [req EXCEPT ![b] = NoRequestYet]
    /\ UNCHANGED <<users, proc, cookie, rl, time, lost, died>>

\* create_token, and the cookies.  checked is not in the token.
Issue(b) ==
    /\ req[b].pc = "issue"
    /\ cookie' = [cookie EXCEPT ![b] =
          [sub |-> req[b].user, role |-> req[b].role, exp |-> time + JwtTtl, checked |-> req[b].at]]
    /\ req' = [req EXCEPT ![b] = NoRequestYet]
    /\ UNCHANGED <<users, proc, rl, time, lost, died>>

\* A request with a cookie and a token that has not expired.
Claims(b) == Serving /\ req[b].pc = "idle" /\ cookie[b] # NONE /\ time < cookie[b].exp

\* POST /auth/logout: 401 for an account that is not active, whose cookies stay.
Logout(b) ==
    /\ Claims(b)
    /\ Active(cookie[b].sub)
    /\ cookie' = [cookie EXCEPT ![b] = NONE]
    /\ UNCHANGED <<users, proc, req, rl, time, lost, died>>

\* Analytics, the stream and the lists of the registry answer without asking the
\* table.
Admitted(b) == Claims(b) /\ cookie[b].role \in Role

\* current_admin: the row, not the token, says who is an administrator.
AdminOf(b) == ActiveAdmin(cookie[b].sub)

CheckAdmin(b) ==
    /\ Claims(b)
    /\ AdminOf(b)
    /\ req' = [req EXCEPT ![b].pc = "act", ![b].user = cookie[b].sub]
    /\ UNCHANGED <<users, proc, cookie, rl, time, lost, died>>

\* The operation commits.  Requests checked before it are not checked again.
Change(b, u, row) ==
    /\ req[b].pc = "act"
    /\ users' = [users EXCEPT ![u] = row]
    /\ req' = [c \in Browser |->
          IF c = b THEN NoRequestYet
          ELSE [req[c] EXCEPT !.stale =
                   @ \/ (req[c].pc = "act" /\ req[c].user = u /\ row # [role |-> "admin", active |-> TRUE])]]
    /\ lost' = IF Active(u) /\ ~row.active THEN [lost EXCEPT ![u] = time] ELSE lost
    /\ UNCHANGED <<proc, cookie, rl, time, died>>

\* POST /admin/users: 409 for a name in use.
CreateUser(b, u, role) ==
    /\ users[u] = NONE
    /\ Change(b, u, [role |-> role, active |-> TRUE])

\* PUT /admin/users/{id}: the fields that were sent.  Nothing keeps an
\* administrator from deactivating the last one.
UpdateUser(b, u, role, active) ==
    /\ users[u] # NONE
    /\ Change(b, u, [role   |-> IF role = NONE THEN users[u].role ELSE role,
                     active |-> IF active = NONE THEN users[u].active ELSE active])

\* The process dies, or what the request needs does not answer.
Die(b) ==
    /\ req[b].pc # "idle"
    /\ req' = [req EXCEPT ![b] = NoRequestYet]
    /\ died' = (died \/ req[b].pc = "expire")
    /\ UNCHANGED <<users, proc, cookie, rl, time, lost>>

\* The counter's key expires, and the cookies (Max-Age) with their tokens.
Later ==
    /\ time + 1 \in Moment
    /\ time' = time + 1
    /\ LET over == rl.end # NONE /\ rl.end =< time'
       IN  /\ rl' = IF over THEN NoCounter ELSE rl
           /\ died' = (died /\ ~over)
    /\ cookie' = [b \in Browser |->
          IF cookie[b] # NONE /\ cookie[b].exp =< time' THEN NONE ELSE cookie[b]]
    /\ UNCHANGED <<users, proc, req, lost>>

AccountsNext ==
    \/ \E p \in Process : Boot(p) \/ BootInsert(p) \/ Stop(p)
    \/ \E b \in Browser, u \in User : Attempt(b, u)
    \/ \E b \in Browser :
          \/ SetExpiry(b) \/ CheckUser(b) \/ Issue(b)
          \/ Logout(b) \/ CheckAdmin(b) \/ Die(b)
    \/ \E b \in Browser, u \in User, role \in Role : CreateUser(b, u, role)
    \/ \E b \in Browser, u \in User, role \in Role \cup {NONE}, active \in BOOLEAN \cup {NONE} :
          UpdateUser(b, u, role, active)
    \/ Later

AccountsSpec == AccountsInit /\ [][AccountsNext]_avars
-----------------------------------------------------------------------------
(* Properties. *)

\* The routes that ask only the token let a deactivated account in no longer than
\* the token lasts, and only with one whose login had passed the check of the row
\* before: nothing an account does after its deactivation gives it a token, nor
\* makes the one it has last longer (auth.py:39-43, jwt_auth.py:37).
SessionsOfTheActive ==
    \A b \in Browser : Admitted(b) =>
        \/ Active(cookie[b].sub)
        \/ users[cookie[b].sub] # NONE /\ cookie[b].checked =< lost[cookie[b].sub]

\* Accounts are changed by administrators: a demotion or a deactivation takes
\* effect at the next request, whatever role the token still claims; only an
\* operation that had been checked may still commit (deps.py:75-80).
ChangedByAdmins ==
    [][\A b \in Browser : req[b].pc = "act" /\ req'[b].pc = "idle" /\ users' # users =>
          ActiveAdmin(req[b].user) \/ req[b].stale]_avars

\* Every window of the login limit ends: a counter without an expiry belongs to a
\* request about to set it, or to one that died before it could, which closes the
\* address for good (ratelimit.py:12-15).
WindowsEnd ==
    rl.n > 0 /\ rl.end = NONE =>
        died \/ \E b \in Browser : req[b].pc = "expire"
=============================================================================
