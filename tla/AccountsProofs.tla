--------------------------- MODULE AccountsProofs ---------------------------
(***************************************************************************)
(* What holds of Accounts for any finite number of accounts and any number *)
(* of overlapping requests: the types and locks, the last administrator,   *)
(* and that no session outlives a change of its account.                   *)
(***************************************************************************)
EXTENDS Accounts, FiniteSetTheorems, TLAPS

RequestRow ==
  [step : {"new", "read", "ruled", "locked", "done"},
   kind : {"none", "login", "register"} \cup Kinds,
   target : Users \cup {None}, seen : Account \cup {Absent}, found : SUBSET SessionNames]

Running(r) == requests[r].step \in {"read", "ruled", "locked"}

\* The types of all the state; a request that runs has a kind and a target.
Typed ==
  /\ users \in [Users -> {Absent} \cup Account]
  /\ sessions \in [SessionNames -> Session]
  /\ requests \in [Requests -> RequestRow]
  /\ rule \in Requests \cup {None}
  /\ rowLock \in [Users -> Requests \cup {None}]
  /\ \A r \in Requests : Running(r) => requests[r].kind # "none" /\ requests[r].target \in Users

\* Who holds the advisory lock and the row locks.
Locks ==
  /\ \A r \in Requests : requests[r].step \in {"ruled", "locked"} =>
       Asks(r) /\ (requests[r].kind # "unblock" <=> rule = r)
  /\ \A r \in Requests : rule = r => requests[r].step \in {"ruled", "locked"}
  /\ \A r \in Requests, u \in Users :
       (rowLock[u] = r) <=> requests[r].step = "locked" /\ requests[r].target = u

\* What a request that holds a row is about to make of it is still a change of that
\* row, and takes no administrator away but beside another one.
Pending ==
  \A r \in Requests : requests[r].step = "locked" =>
    LET u == requests[r].target
        new == requests[r].seen
    IN /\ users[u] # Absent
       /\ new \in Changes(requests[r].kind, users[u])
       /\ IsAdmin(users[u]) /\ ~IsAdmin(new) => \E v \in Users \ {u} : IsAdmin(users[v])

\* What a sign-in has read is the account as it is or as it was; an open session
\* carries no version that its account has not reached.
Versions ==
  /\ \A r \in Requests : requests[r].step = "read" /\ requests[r].kind = "login" =>
       LET old == requests[r].seen
           new == users[requests[r].target]
       IN /\ old \in Account /\ new \in Account
          /\ old.version < new.version \/ old = new
  /\ \A r \in Requests : requests[r].step = "read" /\ requests[r].kind = "register" =>
       requests[r].seen = Absent
  /\ \A s \in SessionNames : sessions[s].state = "OPEN" =>
       sessions[s].version <= users[sessions[s].user].version

AccountsInv == Typed /\ Locks /\ Pending /\ Versions /\ AdminRemains

-----------------------------------------------------------------------------
(* Types and locks.                                                        *)

\* A request that ended is a request again.
LEMMA RequestsTyped ==
    /\ NewRequest \in RequestRow /\ Done \in RequestRow
    /\ \A u \in Users : NoSession(u) \in Session
  BY DEF NewRequest, Done, RequestRow, NoSession, Session, Absent

\* Every change of an account gives an account, with the next version.
LEMMA ChangesTyped ==
    ASSUME NEW a \in Account, NEW kind \in Kinds, NEW new \in Changes(kind, a)
    PROVE  new \in Account /\ new.version = a.version + 1
<1>0. NewVersion(a) \in Nat \ {0} /\ NewVersion(a) = a.version + 1
  BY DEF NewVersion, Account
<1>1. CASE kind = "role"
  <2>1. PICK role \in Roles : new = [a EXCEPT !.role = role, !.version = NewVersion(a)]
    BY <1>1 DEF Changes
  <2> QED BY <1>0, <2>1 DEF Account
<1>2. CASE kind = "block"
  <2>1. new = [a EXCEPT !.status = "BLOCKED", !.version = NewVersion(a)]
    BY <1>2 DEF Changes
  <2> QED BY <1>0, <2>1 DEF Account
<1>3. CASE kind = "unblock"
  <2>1. new = [a EXCEPT !.status = "ACTIVE", !.version = NewVersion(a)]
    BY <1>3 DEF Changes
  <2> QED BY <1>0, <2>1 DEF Account
<1> QED BY <1>1, <1>2, <1>3 DEF Kinds

\* The types hold after every step: a change of an account makes an account of it, and a
\* sign-in opens a session with a version some account had.
LEMMA NextTyped ==
    ASSUME Typed, Versions, [Next]_vars
    PROVE  Typed'
<1> USE RequestsTyped DEF Typed
<1>1. ASSUME NEW r \in Requests, NEW kind \in {"login", "register"} \cup Kinds,
             NEW target \in Users, NEW seen \in Account \cup {Absent},
             Begin(r, kind, target, seen), UNCHANGED <<users, sessions, rule, rowLock>>
      PROVE  Typed'
  <2>1. requests'[r] \in RequestRow /\ requests'[r].kind = kind /\ requests'[r].target = target
    BY <1>1 DEF Begin, NewRequest, RequestRow
  <2> QED BY <1>1, <2>1 DEF Begin, Running, Kinds
<1>2. ASSUME NEW r \in Requests, End(r),
             users' \in [Users -> {Absent} \cup Account], sessions' \in [SessionNames -> Session]
      PROVE  Typed'
  BY <1>2 DEF End, Running, Done, NewRequest
<1>3. CASE Logout \/ Lapse
  BY <1>3 DEF Logout, Lapse, Session, Running
<1>4. ASSUME NEW r \in Requests, BeginLogin(r) \/ BeginRegister(r) \/ Authorize(r)
      PROVE  Typed'
  BY <1>1, <1>4 DEF BeginLogin, BeginRegister, Authorize, Account, Absent
<1>5. ASSUME NEW r \in Requests, CommitLogin(r)
      PROVE  Typed'
  <2>1. requests[r].target \in Users /\ SessionVersion(r) \in Nat \ {0}
    BY <1>5 DEF CommitLogin, Running, SessionVersion, Versions, Account
  <2>2. sessions' \in [SessionNames -> Session]
    BY <1>5, <2>1 DEF CommitLogin, SessionNames, Session
  <2> QED BY <1>2, <1>5, <2>2 DEF CommitLogin
<1>11. ASSUME NEW r \in Requests, CommitRegister(r)
      PROVE  Typed'
  <2>1. requests[r].target \in Users
    BY <1>11 DEF CommitRegister, Running
  <2>2. sessions' \in [SessionNames -> Session]
    BY <1>11, <2>1 DEF CommitRegister, SessionNames, Session
  <2>3. users' \in [Users -> {Absent} \cup Account]
    BY <1>11, <2>1, RolesAssumption DEF CommitRegister, Account
  <2> QED BY <1>2, <1>11, <2>2, <2>3 DEF CommitRegister
<1>6. ASSUME NEW r \in Requests, LockRule(r)
      PROVE  Typed'
  BY <1>6 DEF LockRule, RequestRow, Running
<1>7. ASSUME NEW r \in Requests, LockTarget(r)
      PROVE  Typed'
  <2>1. PICK new \in Changes(requests[r].kind, users[requests[r].target]) :
           /\ ~Refused(requests[r].kind, requests[r].target, new)
           /\ requests' = [requests EXCEPT
                             ![r].step = "locked", ![r].seen = new,
                             ![r].found = {s \in SessionNames : requests[r].kind # "unblock"
                                             /\ sessions[s].user = requests[r].target
                                             /\ sessions[s].state = "OPEN"}]
    BY <1>7 DEF LockTarget
  <2>2. requests[r].kind \in Kinds /\ requests[r].target \in Users
    BY <1>7 DEF LockTarget, MayLock, Asks, Running
  <2>3. new \in Account
    BY <2>1, <2>2, ChangesTyped DEF Refused
  <2>4. requests'[r] \in RequestRow /\ requests'[r].kind = requests[r].kind
        /\ requests'[r].target = requests[r].target
    BY <2>1, <2>3 DEF RequestRow
  <2>5. requests' \in [Requests -> RequestRow] /\ \A q \in Requests \ {r} : requests'[q] = requests[q]
    BY <2>1, <2>4
  <2>6. rowLock' \in [Users -> Requests \cup {None}] /\ UNCHANGED <<users, sessions, rule>>
    BY <1>7 DEF LockTarget
  <2> QED BY <2>2, <2>4, <2>5, <2>6 DEF Running, Kinds
<1>8. ASSUME NEW r \in Requests, Refuse(r) \/ Rollback(r)
      PROVE  Typed'
  BY <1>2, <1>8 DEF Refuse, Rollback
<1>9. ASSUME NEW r \in Requests, CommitChange(r)
      PROVE  Typed'
  <2>1. requests[r].target \in Users /\ requests[r].seen \in Account \cup {Absent}
    BY <1>9 DEF CommitChange, RequestRow, Running
  <2>2. users' \in [Users -> {Absent} \cup Account]
    BY <1>9, <2>1 DEF CommitChange
  <2>3. \A s \in SessionNames : [sessions[s] EXCEPT !.state = "ENDED"] \in Session
    BY DEF Session
  <2>4. sessions' \in [SessionNames -> Session]
    BY <1>9, <2>3 DEF CommitChange
  <2> QED BY <1>2, <1>9, <2>2, <2>4 DEF CommitChange
<1>10. CASE UNCHANGED vars
  BY <1>10 DEF vars, Running
<1> QED BY <1>3, <1>4, <1>5, <1>6, <1>7, <1>8, <1>9, <1>10, <1>11 DEF Next

\* The locks are held by whom they should be: a request takes them one after the other
\* and gives both back when its transaction ends.
LEMMA NextLocks ==
    ASSUME Typed, Locks, [Next]_vars
    PROVE  Locks'
<1> USE DEF Typed, Locks
<1>1. ASSUME NEW r \in Requests, NEW kind, NEW target, NEW seen,
             Begin(r, kind, target, seen), UNCHANGED <<rule, rowLock>>
      PROVE  Locks'
  <2>1. requests'[r].step = "read" /\ requests[r].step = "new"
        /\ \A q \in Requests \ {r} : requests'[q] = requests[q]
    BY <1>1 DEF Begin, NewRequest
  <2> QED BY <1>1, <2>1 DEF Asks
<1>2. ASSUME NEW r \in Requests, End(r)
      PROVE  Locks'
  <2>1. requests'[r].step = "done" /\ \A q \in Requests \ {r} : requests'[q] = requests[q]
    BY <1>2 DEF End, Done, NewRequest
  <2>2. rule' = (IF rule = r THEN None ELSE rule)
        /\ rowLock' = [u \in Users |-> IF rowLock[u] = r THEN None ELSE rowLock[u]]
    BY <1>2 DEF End
  <2> QED BY <2>1, <2>2, NamesAssumption DEF Asks
<1>3. ASSUME NEW r \in Requests, LockRule(r)
      PROVE  Locks'
  <2>1. /\ requests'[r].step = "ruled" /\ requests'[r].kind = requests[r].kind
        /\ \A q \in Requests \ {r} : requests'[q] = requests[q]
    BY <1>3 DEF LockRule, RequestRow
  <2> QED BY <1>3, <2>1, NamesAssumption DEF LockRule, Asks, Unruled
<1>4. ASSUME NEW r \in Requests, LockTarget(r)
      PROVE  Locks'
  <2>1. /\ requests'[r].step = "locked" /\ requests'[r].kind = requests[r].kind
        /\ requests'[r].target = requests[r].target
        /\ \A q \in Requests \ {r} : requests'[q] = requests[q]
    BY <1>4 DEF LockTarget, RequestRow
  <2>2. MayLock(r) /\ rule' = rule /\ rowLock' = [rowLock EXCEPT ![requests[r].target] = r]
    BY <1>4 DEF LockTarget
  <2>3. /\ Asks(r) /\ requests[r].step # "locked"
        /\ requests[r].kind # "unblock" <=> rule = r
    BY <2>2 DEF MayLock, Unruled
  <2>4. requests[r].target \in Users /\ rowLock[requests[r].target] = None
    BY <2>2 DEF MayLock, Unruled, Running
  <2> QED BY <2>1, <2>2, <2>3, <2>4, NamesAssumption DEF Asks
<1>5. CASE Logout \/ Lapse \/ UNCHANGED vars
  BY <1>5 DEF Logout, Lapse, vars, Asks
<1>6. ASSUME NEW r \in Requests, BeginLogin(r) \/ BeginRegister(r) \/ Authorize(r)
      PROVE  Locks'
  BY <1>1, <1>6 DEF BeginLogin, BeginRegister, Authorize
<1>7. ASSUME NEW r \in Requests,
             CommitLogin(r) \/ CommitRegister(r) \/ Refuse(r) \/ Rollback(r) \/ CommitChange(r)
      PROVE  Locks'
  BY <1>2, <1>7 DEF CommitLogin, CommitRegister, Refuse, Rollback, CommitChange
<1> QED BY <1>3, <1>4, <1>5, <1>6, <1>7 DEF Next

-----------------------------------------------------------------------------
(* The last administrator.                                                 *)

\* active_admin_count tells whether there is another administrator.
LEMMA OtherAdmin ==
    ASSUME NEW u \in Users, IsAdmin(users[u]), ~LastAdmin(u)
    PROVE  \E v \in Users \ {u} : IsAdmin(users[v])
<1>1. IsFiniteSet(ActiveAdmins) /\ Cardinality(ActiveAdmins) \in Nat
  BY UsersAssumption, FS_Subset, FS_CardinalityType DEF ActiveAdmins
<1>2. Cardinality(ActiveAdmins) > 1
  BY <1>1 DEF LastAdmin
<1>3. ActiveAdmins # {u}
  BY <1>1, <1>2, FS_Singleton, SMTT(20)
<1> QED BY <1>3 DEF ActiveAdmins

\* An account that is unblocked is an administrator if it was one.
LEMMA UnblockKeeps ==
    ASSUME NEW a \in Account, NEW new \in Changes("unblock", a), IsAdmin(a)
    PROVE  IsAdmin(new)
<1>1. new = [a EXCEPT !.status = "ACTIVE", !.version = NewVersion(a)]
  BY DEF Changes
<1>2. NewVersion(a) \in Nat \ {0}
  BY DEF NewVersion, Account
<1> QED BY <1>1, <1>2 DEF IsAdmin, Account

\* While a request holds the row of its target, and the advisory lock when it could take
\* an administrator away, nobody else undoes what it read (lock_admin_rule, with_for_update).
LEMMA NextPending ==
    ASSUME Typed, Locks, Pending, [Next]_vars
    PROVE  Pending'
<1> USE DEF Typed, Locks
<1>1. ASSUME NEW r \in Requests, requests'[r].step # "locked",
             \A q \in Requests \ {r} : requests'[q] = requests[q], UNCHANGED users
      PROVE  Pending'
  BY <1>1 DEF Pending, Asks
<1>2. ASSUME NEW r \in Requests, BeginLogin(r) \/ BeginRegister(r) \/ Authorize(r)
      PROVE  Pending'
  <2>1. \E kind, target, seen : Begin(r, kind, target, seen)
    BY <1>2 DEF BeginLogin, BeginRegister, Authorize
  <2>2. requests'[r].step = "read" /\ \A q \in Requests \ {r} : requests'[q] = requests[q]
    BY <2>1 DEF Begin, NewRequest
  <2>3. UNCHANGED users
    BY <1>2 DEF BeginLogin, BeginRegister, Authorize
  <2> QED BY <1>1, <2>2, <2>3
<1>3. ASSUME NEW r \in Requests, CommitLogin(r) \/ Refuse(r) \/ Rollback(r)
      PROVE  Pending'
  BY <1>1, <1>3 DEF CommitLogin, Refuse, Rollback, End, Done, NewRequest
<1>4. ASSUME NEW r \in Requests, LockRule(r)
      PROVE  Pending'
  BY <1>1, <1>4 DEF LockRule, RequestRow
<1>5. CASE Logout \/ Lapse \/ UNCHANGED vars
  BY <1>5 DEF Logout, Lapse, vars, Pending
<1>6. ASSUME NEW r \in Requests, CommitRegister(r)
      PROVE  Pending'
  <2>1. /\ requests'[r].step = "done" /\ requests[r].target \in Users
        /\ \A q \in Requests \ {r} : requests'[q] = requests[q]
    BY <1>6 DEF CommitRegister, End, Done, NewRequest, Running
  <2>2. \A u \in Users : users[u] # Absent => users'[u] = users[u]
    BY <1>6, <2>1 DEF CommitRegister, Free
  <2>3. \A u \in Users : IsAdmin(users[u]) => IsAdmin(users'[u])
    BY <2>2 DEF IsAdmin, Absent
  <2>4. \A q \in Requests : requests'[q].step = "locked" =>
           /\ requests'[q] = requests[q] /\ requests[q].step = "locked"
           /\ requests[q].target \in Users /\ users[requests[q].target] # Absent
    BY <2>1 DEF Pending, Running
  <2>5. \A q \in Requests : requests'[q].step = "locked" =>
           users'[requests[q].target] = users[requests[q].target]
    BY <2>2, <2>4
  <2> QED BY <2>3, <2>4, <2>5 DEF Pending
<1>7. ASSUME NEW r \in Requests, LockTarget(r)
      PROVE  Pending'
  <2> DEFINE u == requests[r].target
  <2>1. PICK new \in Changes(requests[r].kind, users[u]) :
           /\ ~Refused(requests[r].kind, u, new)
           /\ requests' = [requests EXCEPT
                             ![r].step = "locked", ![r].seen = new,
                             ![r].found = {s \in SessionNames : requests[r].kind # "unblock"
                                             /\ sessions[s].user = u
                                             /\ sessions[s].state = "OPEN"}]
    BY <1>7 DEF LockTarget
  <2>2. /\ requests'[r].seen = new /\ requests'[r].kind = requests[r].kind
        /\ requests'[r].target = u
        /\ \A q \in Requests \ {r} : requests'[q] = requests[q]
    BY <2>1 DEF RequestRow
  <2>3. u \in Users /\ requests[r].kind \in Kinds /\ users' = users
    BY <1>7 DEF LockTarget, MayLock, Asks, Running
  <2>4. users[u] \in Account
    BY <2>1, <2>3 DEF Refused
  <2>5. IsAdmin(users[u]) /\ ~IsAdmin(new) => \E v \in Users \ {u} : IsAdmin(users[v])
    BY <2>1, <2>3, <2>4, OtherAdmin, UnblockKeeps DEF Refused
  <2> QED BY <2>1, <2>2, <2>3, <2>4, <2>5 DEF Pending, Refused
<1>8. ASSUME NEW r \in Requests, CommitChange(r)
      PROVE  Pending'
  <2> DEFINE u == requests[r].target
  <2>1. /\ requests[r].step = "locked" /\ requests'[r].step = "done" /\ u \in Users
        /\ \A q \in Requests \ {r} : requests'[q] = requests[q]
        /\ users' = [users EXCEPT ![u] = requests[r].seen]
    BY <1>8 DEF CommitChange, End, Done, NewRequest, Running
  <2> SUFFICES ASSUME NEW q \in Requests \ {r}, requests[q].step = "locked"
               PROVE  LET t == requests[q].target
                          new == requests[q].seen
                      IN /\ users'[t] # Absent
                         /\ new \in Changes(requests[q].kind, users'[t])
                         /\ IsAdmin(users'[t]) /\ ~IsAdmin(new) =>
                               \E v \in Users \ {t} : IsAdmin(users'[v])
    BY <2>1 DEF Pending
  <2> DEFINE t == requests[q].target
  <2>2. t \in Users /\ t # u /\ users'[t] = users[t] /\ users[t] \in Account
    BY <2>1 DEF Running, Pending
  <2>3. ASSUME IsAdmin(users[t]), ~IsAdmin(requests[q].seen)
        PROVE  \E v \in Users \ {t} : IsAdmin(users'[v])
    <3>1. requests[q].kind # "unblock"
      BY <2>2, <2>3, UnblockKeeps DEF Pending
    <3>2. requests[r].kind = "unblock"
      BY <2>1, <3>1, NamesAssumption
    <3>3. users[u] \in Account /\ requests[r].seen \in Changes("unblock", users[u])
      BY <2>1, <3>2 DEF Pending
    <3>4. PICK v \in Users \ {t} : IsAdmin(users[v])
      BY <2>3 DEF Pending
    <3> QED BY <2>1, <3>3, <3>4, UnblockKeeps
  <2> QED BY <2>2, <2>3 DEF Pending
<1> QED BY <1>2, <1>3, <1>4, <1>5, <1>6, <1>7, <1>8 DEF Next

\* So no commit takes the last administrator away (active_admin_count under the rule's lock).
LEMMA NextAdmin ==
    ASSUME Typed, Locks, Pending, AdminRemains, [Next]_vars
    PROVE  AdminRemains'
<1>1. ASSUME NEW r \in Requests, CommitChange(r)
      PROVE  AdminRemains'
  <2> DEFINE u == requests[r].target
  <2>1. u \in Users /\ users' = [users EXCEPT ![u] = requests[r].seen]
    BY <1>1 DEF CommitChange, Typed, Running
  <2>2. IsAdmin(users[u]) /\ ~IsAdmin(requests[r].seen) => \E v \in Users \ {u} : IsAdmin(users[v])
    BY <1>1 DEF CommitChange, Pending
  <2>3. PICK v \in Users : IsAdmin(users[v])
    BY DEF AdminRemains, ActiveAdmins
  <2>4. \E w \in Users : IsAdmin(users'[w])
    BY <2>1, <2>2, <2>3 DEF Typed
  <2> QED BY <2>4 DEF AdminRemains, ActiveAdmins
<1>2. ASSUME NEW r \in Requests, CommitRegister(r)
      PROVE  AdminRemains'
  <2>1. \A u \in Users : IsAdmin(users[u]) => IsAdmin(users'[u])
    BY <1>2 DEF CommitRegister, Free, Typed, Running, IsAdmin, Absent
  <2> QED BY <2>1 DEF AdminRemains, ActiveAdmins
<1>3. CASE UNCHANGED users
  BY <1>3 DEF AdminRemains, ActiveAdmins
<1> QED BY <1>1, <1>2, <1>3
        DEF Next, vars, Logout, Lapse, BeginLogin, CommitLogin, BeginRegister, Authorize,
            LockRule, LockTarget, Refuse, Rollback

-----------------------------------------------------------------------------
(* The sessions.                                                           *)

\* No step takes the version of an account back, and one that leaves the version leaves
\* the account.
LEMMA VersionsGrow ==
    ASSUME Typed, Locks, Pending, [Next]_vars, NEW u \in Users
    PROVE  /\ users[u] \in Account => users'[u] \in Account
           /\ users'[u] = users[u] \/ users[u].version < users'[u].version
<1>1. users[u].version \in Nat /\ (users[u] \in Account => users[u].version \in Nat \ {0})
  BY DEF Typed, Account, Absent
<1>2. ASSUME NEW r \in Requests, CommitChange(r)
      PROVE  /\ users[u] \in Account => users'[u] \in Account
             /\ users'[u] = users[u] \/ users[u].version < users'[u].version
  <2> DEFINE t == requests[r].target
  <2>1. /\ t \in Users /\ users' = [users EXCEPT ![t] = requests[r].seen]
        /\ requests[r].kind \in Kinds /\ users[t] \in Account
        /\ requests[r].seen \in Changes(requests[r].kind, users[t])
    BY <1>2 DEF CommitChange, Typed, Running, Locks, Pending, Asks
  <2>2. requests[r].seen \in Account /\ requests[r].seen.version = users[t].version + 1
    BY <2>1, ChangesTyped
  <2>3. CASE u = t
    <3>1. users'[u] = requests[r].seen
      BY <2>1, <2>3 DEF Typed
    <3> QED BY <1>1, <2>2, <2>3, <3>1
  <2>4. CASE u # t
    BY <2>1, <2>4 DEF Typed
  <2> QED BY <2>3, <2>4
<1>3. ASSUME NEW r \in Requests, CommitRegister(r)
      PROVE  /\ users[u] \in Account => users'[u] \in Account
             /\ users'[u] = users[u] \/ users[u].version < users'[u].version
  <2>1. requests[r].target \in Users
    BY <1>3 DEF CommitRegister, Typed, Running
  <2> QED BY <1>3, <2>1, RolesAssumption DEF CommitRegister, Free, Typed, Account, Absent
<1>4. CASE UNCHANGED users
  BY <1>4
<1> QED BY <1>2, <1>3, <1>4
        DEF Next, vars, Logout, Lapse, BeginLogin, CommitLogin, BeginRegister, Authorize,
            LockRule, LockTarget, Refuse, Rollback

\* A session that is open after a step was that session before, or was opened by the
\* commit of a sign-in or of a registration.
LEMMA OpenSessions ==
    ASSUME Typed, [Next]_vars, NEW s \in SessionNames, sessions'[s].state = "OPEN"
    PROVE  \/ sessions'[s] = sessions[s]
           \/ /\ s \in Requests /\ CommitLogin(s) /\ UNCHANGED users
              /\ sessions'[s].user = requests[s].target
              /\ sessions'[s].version = requests[s].seen.version
           \/ /\ s \in Requests /\ CommitRegister(s)
              /\ sessions'[s].user = requests[s].target /\ sessions'[s].version = 1
              /\ users'[requests[s].target].version = 1
<1> USE DEF Typed
<1>1. CASE Logout \/ Lapse
  <2>1. PICK t \in SessionNames : sessions' = [sessions EXCEPT ![t].state = "ENDED"]
    BY <1>1 DEF Logout, Lapse
  <2> QED BY <2>1 DEF Session
<1>2. ASSUME NEW r \in Requests, CommitLogin(r)
      PROVE  sessions'[s] = sessions[s]
             \/ /\ s = r /\ UNCHANGED users /\ sessions'[s].user = requests[s].target
                /\ sessions'[s].version = requests[s].seen.version
  BY <1>2 DEF CommitLogin, SessionVersion
<1>3. ASSUME NEW r \in Requests, CommitRegister(r)
      PROVE  sessions'[s] = sessions[s]
             \/ /\ s = r /\ sessions'[s].user = requests[s].target /\ sessions'[s].version = 1
                /\ users'[requests[s].target].version = 1
  <2>1. requests[r].target \in Users
    BY <1>3 DEF CommitRegister, Running
  <2> QED BY <1>3, <2>1 DEF CommitRegister
<1>4. ASSUME NEW r \in Requests, CommitChange(r)
      PROVE  sessions'[s] = sessions[s]
  BY <1>4 DEF CommitChange, Session
<1>5. CASE UNCHANGED sessions
  BY <1>5
<1> QED BY <1>1, <1>2, <1>3, <1>4, <1>5
        DEF Next, vars, BeginLogin, BeginRegister, Authorize, LockRule, LockTarget, Refuse,
            Rollback

\* A request that is reading was reading before, or has just begun.
LEMMA Readers ==
    ASSUME Typed, [Next]_vars, NEW q \in Requests, requests'[q].step = "read"
    PROVE  \/ requests'[q] = requests[q]
           \/ /\ UNCHANGED users
              /\ requests'[q].kind = "login" =>
                    /\ requests'[q].seen \in Account
                    /\ requests'[q].seen = users[requests'[q].target]
              /\ requests'[q].kind = "register" => requests'[q].seen = Absent
<1> USE DEF Typed
<1>1. ASSUME NEW r \in Requests, NEW kind, NEW target, NEW seen, Begin(r, kind, target, seen)
      PROVE  \/ requests'[q] = requests[q]
             \/ requests'[q].kind = kind /\ requests'[q].target = target
                /\ requests'[q].seen = seen
  BY <1>1 DEF Begin, NewRequest
<1>2. ASSUME NEW r \in Requests, BeginLogin(r)
      PROVE  \/ requests'[q] = requests[q]
             \/ /\ UNCHANGED users /\ requests'[q].kind = "login"
                /\ requests'[q].seen \in Account /\ requests'[q].seen = users[requests'[q].target]
  <2>1. PICK u \in Users : users[u].status = "ACTIVE" /\ Begin(r, "login", u, users[u])
    BY <1>2 DEF BeginLogin
  <2>2. users[u] \in Account
    BY <2>1 DEF Absent
  <2> QED BY <1>1, <1>2, <2>1, <2>2 DEF BeginLogin
<1>3. ASSUME NEW r \in Requests, BeginRegister(r)
      PROVE  \/ requests'[q] = requests[q]
             \/ UNCHANGED users /\ requests'[q].kind = "register" /\ requests'[q].seen = Absent
  BY <1>1, <1>3 DEF BeginRegister
<1>4. ASSUME NEW r \in Requests, Authorize(r)
      PROVE  \/ requests'[q] = requests[q]
             \/ UNCHANGED users /\ requests'[q].kind \in Kinds
  <2>1. PICK kind \in Kinds, target \in Users : Begin(r, kind, target, Absent)
    BY <1>4 DEF Authorize
  <2> QED BY <1>1, <1>4, <2>1 DEF Authorize
<1>5. ASSUME NEW r \in Requests, End(r)
      PROVE  requests'[q] = requests[q]
  BY <1>5 DEF End, Done, NewRequest
<1>6. ASSUME NEW r \in Requests, LockRule(r) \/ LockTarget(r)
      PROVE  requests'[q] = requests[q]
  <2>1. CASE LockRule(r)
    BY <1>6, <2>1 DEF LockRule, RequestRow
  <2>2. CASE LockTarget(r)
    BY <1>6, <2>2, ZenonT(40) DEF LockTarget, RequestRow
  <2> QED BY <1>6, <2>1, <2>2
<1>7. ASSUME NEW r \in Requests,
             CommitLogin(r) \/ CommitRegister(r) \/ Refuse(r) \/ Rollback(r) \/ CommitChange(r)
      PROVE  requests'[q] = requests[q]
  BY <1>5, <1>7 DEF CommitLogin, CommitRegister, Refuse, Rollback, CommitChange
<1>8. CASE UNCHANGED requests
  BY <1>8
<1> QED BY <1>2, <1>3, <1>4, <1>6, <1>7, <1>8 DEF Next, vars, Logout, Lapse, Kinds

\* What a sign-in read stays behind its account or equal to it, and so does every session.
LEMMA NextVersions ==
    ASSUME Typed, Locks, Pending, Versions, [Next]_vars
    PROVE  Versions'
<1> USE DEF Typed
<1>1. ASSUME NEW q \in Requests, requests'[q].step = "read", requests'[q].kind = "login"
      PROVE  LET old == requests'[q].seen
                 new == users'[requests'[q].target]
             IN /\ old \in Account /\ new \in Account
                /\ old.version < new.version \/ old = new
  <2>1. CASE requests'[q] = requests[q]
    <3> DEFINE u == requests[q].target
               old == requests[q].seen
    <3>1. /\ u \in Users /\ old \in Account /\ users[u] \in Account
          /\ old.version < users[u].version \/ old = users[u]
      BY <1>1, <2>1 DEF Running, Versions
    <3>2. users'[u] \in Account /\ (users'[u] = users[u] \/ users[u].version < users'[u].version)
      BY <3>1, VersionsGrow
    <3>3. old.version \in Nat /\ users[u].version \in Nat /\ users'[u].version \in Nat
      BY <3>1, <3>2 DEF Account
    <3> QED BY <2>1, <3>1, <3>2, <3>3
  <2> QED BY <1>1, <2>1, Readers
<1>2. ASSUME NEW q \in Requests, requests'[q].step = "read", requests'[q].kind = "register"
      PROVE  requests'[q].seen = Absent
  BY <1>2, Readers DEF Versions
<1>3. ASSUME NEW s \in SessionNames, sessions'[s].state = "OPEN"
      PROVE  sessions'[s].version <= users'[sessions'[s].user].version
  <2>1. CASE sessions'[s] = sessions[s]
    <3> DEFINE u == sessions[s].user
    <3>1. /\ u \in Users /\ sessions[s].version \in Nat /\ users[u].version \in Nat
          /\ sessions[s].version <= users[u].version
      BY <1>3, <2>1 DEF Session, Versions, Account, Absent
    <3>2. users'[u] = users[u] \/ users[u].version < users'[u].version
      BY <3>1, VersionsGrow
    <3>3. users'[u].version \in Nat
      BY <3>1, NextTyped DEF Account, Absent
    <3> QED BY <2>1, <3>1, <3>2, <3>3
  <2>2. CASE s \in Requests /\ CommitLogin(s) /\ UNCHANGED users
             /\ sessions'[s].user = requests[s].target
             /\ sessions'[s].version = requests[s].seen.version
    <3>1. /\ requests[s].seen \in Account /\ users[requests[s].target] \in Account
          /\ \/ requests[s].seen.version < users[requests[s].target].version
             \/ requests[s].seen = users[requests[s].target]
      BY <2>2 DEF CommitLogin, Versions
    <3> QED BY <2>2, <3>1 DEF Account
  <2> QED BY <1>3, <2>1, <2>2, OpenSessions
<1> QED BY <1>1, <1>2, <1>3 DEF Versions

-----------------------------------------------------------------------------
(* The theorems.                                                           *)

\* The states the accounts start from.
LEMMA InitInv == Init => AccountsInv
<1> SUFFICES ASSUME Init PROVE AccountsInv
  OBVIOUS
<1> USE DEF Init
<1>1. \A r \in Requests : requests[r] = NewRequest
  OBVIOUS
<1>2. (CHOOSE u \in Users : TRUE) \in Users
  BY DEF ActiveAdmins
<1>3. users \in [Users -> {Absent} \cup Account]
  BY DEF Account
<1>4. sessions \in [SessionNames -> Session]
  BY <1>2, RequestsTyped DEF Session, SessionNames
<1>5. Typed
  BY <1>1, <1>3, <1>4, RequestsTyped DEF Typed, Running, NewRequest
<1>6. Locks
  BY <1>1, NamesAssumption DEF Locks, NewRequest
<1>7. Pending
  BY <1>1 DEF Pending, NewRequest
<1>8. \A s \in SessionNames : sessions[s].state = "OPEN" =>
         sessions[s].version <= users[sessions[s].user].version
  <2> SUFFICES ASSUME NEW s \in SessionNames, sessions[s].state = "OPEN"
               PROVE  sessions[s].version <= users[sessions[s].user].version
    OBVIOUS
  <2>1. s \in Users /\ IsAdmin(users[s]) /\ sessions[s].user = s /\ sessions[s].version = 1
    BY DEF SessionNames, NoSession
  <2>2. users[s].version = 1
    BY <2>1 DEF IsAdmin, Absent
  <2> QED BY <2>1, <2>2
<1>9. Versions
  BY <1>1, <1>8 DEF Versions, NewRequest
<1> QED BY <1>5, <1>6, <1>7, <1>9 DEF AccountsInv, AdminRemains

\* The inductive invariant of the accounts.
LEMMA AccountsInductive == Spec => []AccountsInv
<1>1. AccountsInv /\ [Next]_vars => AccountsInv'
  BY NextTyped, NextLocks, NextPending, NextVersions, NextAdmin DEF AccountsInv
<1> QED BY <1>1, InitInv, PTL DEF Spec

\* The types hold, and each lock is held by the one request that has taken it.
THEOREM AccountsTypeCorrect == Spec => []AccountsTypeOK
<1>1. AccountsInv => AccountsTypeOK
  BY DEF AccountsInv, AccountsTypeOK, Typed, Locks, RequestRow
<1> QED BY <1>1, AccountsInductive, PTL

\* There is always an active administrator, however many requests of administrators
\* against each other overlap and however stale the permissions they came with.
THEOREM AdminRemainsCorrect == Spec => []AdminRemains
<1>1. AccountsInv => AdminRemains
  BY DEF AccountsInv
<1> QED BY <1>1, AccountsInductive, PTL

\* No session outlives a change of its account's role or a block, not even one that was
\* being opened meanwhile: a session usable after a step was usable before it, of an account
\* the step left alone, or was opened by it for the account the sign-in had read.
THEOREM SessionsFollowCorrect == Spec => SessionsFollow
<1>1. ASSUME AccountsInv, [Next]_vars, NEW s \in SessionNames, Usable(s)'
      PROVE  \/ /\ Usable(s) /\ sessions'[s].user = sessions[s].user
                /\ users'[sessions[s].user] = users[sessions[s].user]
             \/ /\ s \in Requests /\ requests[s].step = "read"
                /\ requests[s].target = sessions'[s].user
                /\ \/ requests[s].seen = users'[sessions'[s].user]
                   \/ requests[s].seen = Absent /\ users'[sessions'[s].user].version = 1
  <2> USE DEF AccountsInv
  <2>1. /\ sessions'[s].state = "OPEN"
        /\ users'[sessions'[s].user].status = "ACTIVE"
        /\ users'[sessions'[s].user].version = sessions'[s].version
    BY <1>1 DEF Usable
  <2>2. CASE sessions'[s] = sessions[s]
    <3> DEFINE u == sessions[s].user
    <3>1. /\ u \in Users /\ sessions[s].version \in Nat /\ users[u].version \in Nat
          /\ sessions[s].version <= users[u].version
      BY <1>1, <2>1, <2>2 DEF Session, Versions, Account, Absent, Typed
    <3>2. users'[u] = users[u] \/ users[u].version < users'[u].version
      BY <1>1, <3>1, VersionsGrow
    <3>3. users'[u] = users[u]
      BY <2>1, <2>2, <3>1, <3>2
    <3> QED BY <2>1, <2>2, <3>3 DEF Usable
  <2>3. CASE s \in Requests /\ CommitLogin(s) /\ UNCHANGED users
             /\ sessions'[s].user = requests[s].target
             /\ sessions'[s].version = requests[s].seen.version
    <3>1. /\ requests[s].step = "read"
          /\ requests[s].seen \in Account /\ users[requests[s].target] \in Account
          /\ \/ requests[s].seen.version < users[requests[s].target].version
             \/ requests[s].seen = users[requests[s].target]
      BY <1>1, <2>3 DEF CommitLogin, Versions
    <3>2. requests[s].seen = users[requests[s].target]
      BY <2>1, <2>3, <3>1 DEF Account
    <3> QED BY <2>3, <3>1, <3>2
  <2>4. CASE s \in Requests /\ CommitRegister(s)
             /\ sessions'[s].user = requests[s].target /\ sessions'[s].version = 1
             /\ users'[requests[s].target].version = 1
    BY <1>1, <2>4 DEF CommitRegister, Versions
  <2> QED BY <1>1, <2>1, <2>2, <2>3, <2>4, OpenSessions
<1>2. AccountsInv /\ [Next]_vars =>
        [\A s \in SessionNames :
           Usable(s)' =>
             \/ /\ Usable(s) /\ sessions'[s].user = sessions[s].user
                /\ users'[sessions[s].user] = users[sessions[s].user]
             \/ /\ s \in Requests /\ requests[s].step = "read"
                /\ requests[s].target = sessions'[s].user
                /\ \/ requests[s].seen = users'[sessions'[s].user]
                   \/ requests[s].seen = Absent /\ users'[sessions'[s].user].version = 1]_vars
  BY <1>1
<1> QED BY <1>2, AccountsInductive, PTL DEF Spec, SessionsFollow

=============================================================================
