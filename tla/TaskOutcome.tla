----------------------------- MODULE TaskOutcome -----------------------------
(***************************************************************************)
(* What a durable task promises its owner, without workers, leases or      *)
(* fences: a submission is open until it settles once; each settlement     *)
(* comes with exactly one notification, whose number is larger than every  *)
(* earlier one; "done" needs a landed write and is final; a failed or      *)
(* cancelled submission may be reopened, a bounded number of times; and a  *)
(* landed write is never taken back.                                       *)
(***************************************************************************)
EXTENDS Integers

CONSTANTS Tasks, MaxRounds

VARIABLES
    outcome,   \* "absent", "open" or how the submission settled
    notes,     \* the notification of each round, "none" before it is sent
    written    \* submissions whose write has landed

vars == <<outcome, notes, written>>

Settled == {"done", "failed", "cancelled"}
Rounds == 1 .. MaxRounds

Init ==
    /\ outcome = [t \in Tasks |-> "absent"]
    /\ notes = [t \in Tasks |-> [r \in Rounds |-> "none"]]
    /\ written = {}

Open(t) ==
    /\ outcome[t] = "absent"
    /\ outcome' = [outcome EXCEPT ![t] = "open"]
    /\ UNCHANGED <<notes, written>>

Settle(t, r, how) ==
    /\ outcome[t] = "open"
    /\ \A later \in Rounds : later >= r => notes[t][later] = "none"
    /\ how = "done" => t \in written
    /\ outcome' = [outcome EXCEPT ![t] = how]
    /\ notes' = [notes EXCEPT ![t][r] = how]
    /\ UNCHANGED written

Reopen(t) ==
    /\ outcome[t] \in {"failed", "cancelled"}
    /\ notes[t][MaxRounds] = "none"
    /\ outcome' = [outcome EXCEPT ![t] = "open"]
    /\ UNCHANGED <<notes, written>>

Write(t) ==
    /\ outcome[t] # "absent"
    /\ t \notin written
    /\ written' = written \cup {t}
    /\ UNCHANGED <<outcome, notes>>

Next ==
    \E t \in Tasks :
        \/ Open(t)
        \/ Reopen(t)
        \/ Write(t)
        \/ \E r \in Rounds, how \in Settled : Settle(t, r, how)

Spec == Init /\ [][Next]_vars
=============================================================================
