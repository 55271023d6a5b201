------------------------------- MODULE Accounts -------------------------------
(***************************************************************************)
(* Accounts, their sessions, and the requests that change them: signing    *)
(* in, registering, signing out, and the administration of other users.    *)
(*                                                                         *)
(* A request is a sequence of transactions steps of READ COMMITTED: what   *)
(* it read early may be out of date when it writes.  The only order comes  *)
(* from the locks the code takes, the advisory lock of the administrator   *)
(* rule and the row lock of the target, both held until the transaction    *)
(* ends (get_db_session commits once, after the endpoint).                 *)
(***************************************************************************)
EXTENDS Integers, FiniteSets

CONSTANTS Users,      \* accounts, named by their normalized e-mail
          Requests,   \* requests; each runs at most once
          Roles,      \* of the roles, those a behaviour tells apart
          None        \* no request

ASSUME NamesAssumption == Users \cap Requests = {} /\ None \notin Users \cup Requests

ASSUME UsersAssumption == IsFiniteSet(Users)

\* Only ADMIN has USERS_MANAGE; EDITOR and USER differ in nothing modelled here.
ASSUME RolesAssumption == {"USER", "ADMIN"} \subseteq Roles

VARIABLES users,      \* the row of each account
          sessions,   \* the row of each session
          requests,   \* what each request has read and holds
          rule,       \* the request holding the lock of the administrator rule
          rowLock     \* the request holding the row lock of each account

vars == <<users, sessions, requests, rule, rowLock>>

Account == [role : Roles, status : {"ACTIVE", "BLOCKED"}, version : Nat \ {0}]

Absent == [role |-> "USER", status |-> "ABSENT", version |-> 0]

\* A session is named by the request that opened it, or by the account it was
\* opened for before the behaviour starts.
SessionNames == Users \cup Requests

Session == [user : Users, version : Nat \ {0}, state : {"OPEN", "ENDED"}]

NoSession(u) == [user |-> u, version |-> 1, state |-> "ENDED"]

NewRequest == [step |-> "new", kind |-> "none", target |-> None, seen |-> Absent,
               found |-> {}]

Done == [NewRequest EXCEPT !.step = "done"]

-----------------------------------------------------------------------------

IsAdmin(a) == a.role = "ADMIN" /\ a.status = "ACTIVE"

ActiveAdmins == {u \in Users : IsAdmin(users[u])}

\* What the dependency of every endpoint accepts.
Usable(s) ==
  /\ sessions[s].state = "OPEN"
  /\ users[sessions[s].user].status = "ACTIVE"
  /\ users[sessions[s].user].version = sessions[s].version

\* Mutant: a request that ends keeps the row lock of its target.
EndKeeping(r) ==
  /\ requests' = [requests EXCEPT ![r] = Done]
  /\ rule' = IF rule = r THEN None ELSE rule
  /\ UNCHANGED rowLock

\* The end of a request: its transaction commits or rolls back, and every lock
\* it holds is released.
End(r) ==
  /\ requests' = [requests EXCEPT ![r] = Done]
  /\ rule' = IF rule = r THEN None ELSE rule
  /\ rowLock' = [u \in Users |-> IF rowLock[u] = r THEN None ELSE rowLock[u]]

Begin(r, kind, target, seen) ==
  /\ requests[r].step = "new"
  /\ requests' = [requests EXCEPT ![r] =
                    [NewRequest EXCEPT !.step = "read", !.kind = kind,
                                       !.target = target, !.seen = seen]]

-----------------------------------------------------------------------------

\* A sign-in reads the account, then spends its time on the password.
BeginLogin(r) ==
  /\ \E u \in Users : users[u].status = "ACTIVE" /\ Begin(r, "login", u, users[u])
  /\ UNCHANGED <<users, sessions, rule, rowLock>>

\* Mutant: the session takes the version of the account when it is inserted.
SessionVersionNow(r) == users[requests[r].target].version

SessionVersion(r) == requests[r].seen.version

\* Its update of last_active_at waits for the row; the session it inserts
\* carries the version it read before that.
CommitLogin(r) ==
  LET u == requests[r].target IN
  /\ requests[r].step = "read" /\ requests[r].kind = "login"
  /\ rowLock[u] = None
  /\ sessions' = [sessions EXCEPT ![r] =
                    [user |-> u, version |-> SessionVersion(r), state |-> "OPEN"]]
  /\ End(r)
  /\ UNCHANGED users

BeginRegister(r) ==
  /\ \E u \in Users : users[u] = Absent /\ Begin(r, "register", u, Absent)
  /\ UNCHANGED <<users, sessions, rule, rowLock>>

\* The unique index on normalized_email.
Free(u) == users[u] = Absent

CommitRegister(r) ==
  LET u == requests[r].target IN
  /\ requests[r].step = "read" /\ requests[r].kind = "register"
  /\ IF Free(u)
     THEN /\ users' = [users EXCEPT ![u] =
                         [role |-> "USER", status |-> "ACTIVE", version |-> 1]]
          /\ sessions' = [sessions EXCEPT ![r] =
                            [user |-> u, version |-> 1, state |-> "OPEN"]]
     ELSE UNCHANGED <<users, sessions>>
  /\ End(r)

\* Signing out ends the session the request came with.
Logout ==
  /\ \E s \in SessionNames : /\ Usable(s)
                             /\ sessions' = [sessions EXCEPT ![s].state = "ENDED"]
  /\ UNCHANGED <<users, requests, rule, rowLock>>

\* A session whose account is blocked or has a newer version is revoked by the
\* first request of an optional user that brings it; a mandatory user's 401
\* rolls that back.  A session also expires.
Lapse ==
  /\ \E s \in SessionNames : /\ sessions[s].state = "OPEN"
                             /\ sessions' = [sessions EXCEPT ![s].state = "ENDED"]
  /\ UNCHANGED <<users, requests, rule, rowLock>>

-----------------------------------------------------------------------------

Kinds == {"role", "block", "unblock"}

\* An administrator's request is let in once, with the permission its account
\* has at that moment; it may not change its own role nor block itself, and it
\* sees its own account ACTIVE as it was loaded, so it has nothing to unblock.
Authorize(r) ==
  /\ \E s \in SessionNames, kind \in Kinds, target \in Users :
       /\ Usable(s) /\ users[sessions[s].user].role = "ADMIN"
       /\ target # sessions[s].user
       /\ Begin(r, kind, target, Absent)
  /\ UNCHANGED <<users, sessions, rule, rowLock>>

Asks(r) == requests[r].kind \in Kinds

\* Mutant: no advisory lock orders the requests that could remove administrators.
UnruledAll(kind) == kind \in Kinds

Unruled(kind) == kind = "unblock"

LockRule(r) ==
  /\ requests[r].step = "read" /\ Asks(r) /\ ~Unruled(requests[r].kind)
  /\ rule = None
  /\ rule' = r
  /\ requests' = [requests EXCEPT ![r].step = "ruled"]
  /\ UNCHANGED <<users, sessions, rowLock>>

NewVersion(a) == a.version + 1

\* What the request may make of the row it locked.
Changes(kind, a) ==
  CASE kind = "role" -> {[a EXCEPT !.role = role, !.version = NewVersion(a)] : role \in Roles}
    [] kind = "block" -> {[a EXCEPT !.status = "BLOCKED", !.version = NewVersion(a)]}
    [] kind = "unblock" -> {[a EXCEPT !.status = "ACTIVE", !.version = NewVersion(a)]}

LastAdmin(u) == IsAdmin(users[u]) /\ Cardinality(ActiveAdmins) <= 1

\* A missing account, the last administrator, or nothing to do.
Refused(kind, u, new) ==
  \/ users[u] = Absent
  \/ kind # "unblock" /\ ~IsAdmin(new) /\ LastAdmin(u)
  \/ kind # "role" /\ new.status = users[u].status

MayLock(r) ==
  /\ Asks(r)
  /\ requests[r].step = IF Unruled(requests[r].kind) THEN "read" ELSE "ruled"
  /\ rowLock[requests[r].target] = None

\* The row is read again under its lock, then counted against, then changed in
\* memory; the sessions to revoke are those visible now.
LockTarget(r) ==
  LET u == requests[r].target
      kind == requests[r].kind
  IN /\ MayLock(r)
     /\ \E new \in Changes(kind, users[u]) :
          /\ ~Refused(kind, u, new)
          /\ requests' = [requests EXCEPT
                            ![r].step = "locked", ![r].seen = new,
                            ![r].found = {s \in SessionNames : kind # "unblock"
                                            /\ sessions[s].user = u
                                            /\ sessions[s].state = "OPEN"}]
     /\ rowLock' = [rowLock EXCEPT ![u] = r]
     /\ UNCHANGED <<users, sessions, rule>>

Refuse(r) ==
  LET u == requests[r].target
      kind == requests[r].kind
  IN /\ MayLock(r)
     /\ \E new \in Changes(kind, users[u]) : Refused(kind, u, new)
     /\ End(r)
     /\ UNCHANGED <<users, sessions>>

CommitChange(r) ==
  /\ requests[r].step = "locked"
  /\ users' = [users EXCEPT ![requests[r].target] = requests[r].seen]
  /\ sessions' = [s \in SessionNames |->
                    IF s \in requests[r].found
                    THEN [sessions[s] EXCEPT !.state = "ENDED"] ELSE sessions[s]]
  /\ End(r)

\* A lost connection, a deadlock that PostgreSQL breaks or a wrong password: the
\* transaction is rolled back.
Rollback(r) ==
  /\ requests[r].step \in {"read", "ruled", "locked"}
  /\ End(r)
  /\ UNCHANGED <<users, sessions>>

-----------------------------------------------------------------------------

Init ==
  /\ users \in [Users -> {Absent} \cup [role : Roles, status : {"ACTIVE", "BLOCKED"},
                                        version : {1}]]
  /\ ActiveAdmins # {}
  /\ sessions = [s \in SessionNames |->
                   IF s \in Users
                   THEN [user |-> s, version |-> 1,
                         state |-> IF IsAdmin(users[s]) THEN "OPEN" ELSE "ENDED"]
                   ELSE NoSession(CHOOSE u \in Users : TRUE)]
  /\ requests = [r \in Requests |-> NewRequest]
  /\ rule = None
  /\ rowLock = [u \in Users |-> None]

Next ==
  \/ Logout
  \/ Lapse
  \/ \E r \in Requests : \/ BeginLogin(r) \/ CommitLogin(r)
                         \/ BeginRegister(r) \/ CommitRegister(r)
                         \/ Authorize(r) \/ LockRule(r) \/ LockTarget(r) \/ Refuse(r)
                         \/ CommitChange(r)
                         \/ Rollback(r)

Spec == Init /\ [][Next]_vars

-----------------------------------------------------------------------------

\* Types; a lock is held by a request that has taken it, and only by that one.
AccountsTypeOK ==
  /\ users \in [Users -> {Absent} \cup Account]
  /\ sessions \in [SessionNames -> Session]
  /\ \A r \in Requests :
       /\ requests[r].step \in {"new", "read", "ruled", "locked", "done"}
       /\ rule = r => requests[r].step \in {"ruled", "locked"}
       /\ \A u \in Users : (rowLock[u] = r) <=> /\ requests[r].step = "locked"
                                                /\ requests[r].target = u

\* There is always an active administrator, whatever administrators do to each
\* other at the same time and however stale the permission they were let in
\* with (lock_admin_rule, active_admin_count; the rule "at least one ACTIVE
\* ADMIN is protected from a race").
AdminRemains == ActiveAdmins # {}

\* A session that works after a step is either one that worked before it, of an
\* account whose role and status the step left alone, or one that the step
\* opened for an account that is still as the sign-in had read it.  So no
\* session outlives a change of role or a block, not even one that was being
\* opened meanwhile, and none comes back when the account is unblocked.
SessionsFollow ==
  [][\A s \in SessionNames :
       Usable(s)' =>
         \/ /\ Usable(s) /\ sessions'[s].user = sessions[s].user
            /\ users'[sessions[s].user] = users[sessions[s].user]
         \/ /\ s \in Requests /\ requests[s].step = "read"
            /\ requests[s].target = sessions'[s].user
            /\ \/ requests[s].seen = users'[sessions'[s].user]
               \/ requests[s].seen = Absent /\ users'[sessions'[s].user].version = 1]_vars
===============================================================================
