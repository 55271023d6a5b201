---------------------------- MODULE JobLifecycle ----------------------------
(***************************************************************************)
(* What the queue promises of one job, without leases, heartbeats, worker  *)
(* rows or processes: a job is submitted, started at most MaxAttempts      *)
(* times, each time by one owner, put back by a retry or a recovery, and   *)
(* ends once.  Jobs move independently, several of them in one step when   *)
(* one transaction recovers several.                                       *)
(***************************************************************************)
EXTENDS Integers

CONSTANTS Jobs, Owners, Nobody, MaxAttempts

VARIABLES state, owner, attempts

lifecycle == <<state, owner, attempts>>

Ended == {"COMPLETED", "FAILED", "CANCELLED"}

Init ==
    /\ state \in [Jobs -> {"ABSENT", "RUNNING"}]
    /\ owner = [j \in Jobs |-> Nobody]
    /\ attempts = [j \in Jobs |-> 0]

Submit(j) ==
    /\ state[j] = "ABSENT" /\ state'[j] = "QUEUED"
    /\ owner'[j] = Nobody
    /\ attempts'[j] = 0

Start(j) ==
    /\ state[j] = "QUEUED" /\ state'[j] = "RUNNING"
    /\ owner'[j] \in Owners
    /\ attempts[j] < MaxAttempts /\ attempts'[j] = attempts[j] + 1

PutBack(j) ==
    /\ state[j] = "RUNNING" /\ state'[j] = "QUEUED"
    /\ owner'[j] = Nobody
    /\ attempts[j] < MaxAttempts /\ attempts'[j] = attempts[j]

\* A job that nobody owns cannot be completed.
End(j) ==
    /\ state[j] = "RUNNING" /\ state'[j] \in Ended
    /\ state'[j] = "COMPLETED" => owner[j] \in Owners
    /\ owner'[j] = owner[j]
    /\ attempts'[j] = attempts[j]

Withdraw(j) ==
    /\ state[j] = "QUEUED" /\ state'[j] = "CANCELLED"
    /\ owner'[j] = Nobody
    /\ attempts'[j] = attempts[j]

Rest(j) ==
    /\ state'[j] = state[j]
    /\ owner'[j] = owner[j]
    /\ attempts'[j] = attempts[j]

Move(j) == Rest(j) \/ Submit(j) \/ Start(j) \/ PutBack(j) \/ End(j) \/ Withdraw(j)

Next == \A j \in Jobs : Move(j)

Spec == Init /\ [][Next]_lifecycle

=============================================================================
