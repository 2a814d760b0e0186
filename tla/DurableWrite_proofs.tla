------------------------- MODULE DurableWrite_proofs -------------------------
(***************************************************************************)
(* Theorems about DurableWrite, for any tasks, workers, hubs and faults.   *)
(*                                                                         *)
(* The workers use the ledger as DurableTask says, so what is proved of    *)
(* the ledger holds here (Proved).  The invariants of the composition rest *)
(* on it: a worker's attempt row names it for as long as it works, though  *)
(* its lease may be gone (WorkerRow), and what a worker decided to report  *)
(* is true for as long as it may report it (Decided).                      *)
(***************************************************************************)
EXTENDS DurableWrite, TLAPS

Proved == INSTANCE DurableTask_proofs WITH
    Owners <- Workers,
    landed <- {t \in Tasks : HasReceipt(t)}

\* The publication of a fenced task excludes every other owner, and whoever
\* fails the task has looked for its receipt.
Careful(t) == t \in FencedTasks \ Unreadable

\* The worker was given its attempt, and nobody else was or will be.
WorkerRow(w) ==
    ~At(w, "idle") =>
        /\ Task(w) \in Tasks /\ Attempt(w) \in 1 .. MaxAttempts
        /\ attempts[Task(w)][Attempt(w)].status \notin {"none", "queued"}
        /\ attempts[Task(w)][Attempt(w)].owner = w

\* What it is about to report holds, as long as it owns the attempt.
Decided(w) ==
    At(w, "finish") =>
        /\ worker[w].outcome # "none"
        /\ worker[w].outcome = "done" => HasReceipt(Task(w))
        /\ Careful(Task(w)) /\ worker[w].outcome # "done" /\ OwnsLease(w) => ~HasReceipt(Task(w))

\* What was reported of a task holds.
Told(t) ==
    /\ taskStatus[t] = "done" => HasReceipt(t)
    /\ Careful(t) /\ taskStatus[t] \in {"failed", "cancelled"} => ~HasReceipt(t)

WorkerRows ==
    [pc : {"idle", "begin", "admit", "write", "publish", "recover", "failing", "finish"},
     task : Tasks \cup {NoOwner}, attempt : 0 .. MaxAttempts, attached : BOOLEAN,
     outcome : {"none"} \cup Ledger!Terminal, error : Ledger!Errors]
Revisions == Seq([author : Tasks \cup {Outside}, base : Nat])

Domains ==
    /\ revisions \in Revisions /\ expectedHead \in [Tasks -> Nat]
    /\ worker \in [Workers -> WorkerRows] /\ faults \in 0 .. MaxFaults

\* The inductive invariant.
WriteInv ==
    /\ Proved!LedgerInv
    /\ Domains /\ OneRevisionPerTask /\ RevisionsFormAChain
    /\ \A w \in Workers : WorkerRow(w) /\ Decided(w)
    /\ \A t \in Tasks : Told(t)

-----------------------------------------------------------------------------
(* The ledger's transactions as the workers call them and as DurableTask   *)
(* takes them.                                                             *)

LEMMA SameParts ==
    /\ \A t, n, o : Ledger!Owns(t, n, o) <=> Proved!Owns(t, n, o)
    /\ \A t, n, o : Ledger!HoldsPublicationFence(t, n, o) <=> Proved!HoldsPublicationFence(t, n, o)
    /\ Ledger!Terminal = Proved!Terminal /\ Ledger!Errors = Proved!Errors
BY DEF Ledger!Owns, Proved!Owns, Ledger!HoldsPublicationFence, Proved!HoldsPublicationFence,
   Ledger!Terminal, Proved!Terminal, Ledger!Errors, Proved!Errors

LEMMA SameClientSteps ==
    ASSUME NEW t \in Tasks
    PROVE  /\ Ledger!Submit(t) => Proved!Submit(t)
           /\ Ledger!RequestCancel(t) => Proved!RequestCancel(t)
           /\ \A id \in RetryIds : Ledger!Retry(t, id) => Proved!Retry(t, id)
           /\ \A n : Ledger!LeaseExpires(t, n) => Proved!LeaseExpires(t, n)
<1>1. Ledger!Submit(t) => Proved!Submit(t)
  BY DEF Ledger!Submit, Proved!Submit, Ledger!QueuedAttempt, Proved!QueuedAttempt
<1>2. Ledger!RequestCancel(t) => Proved!RequestCancel(t)
  BY DEF Ledger!RequestCancel, Proved!RequestCancel, Ledger!Open, Proved!Open
<1>3. \A id \in RetryIds : Ledger!Retry(t, id) => Proved!Retry(t, id)
  BY DEF Ledger!Retry, Proved!Retry, Ledger!ReopenTask, Proved!ReopenTask, Ledger!QueuedAttempt,
     Proved!QueuedAttempt, Ledger!AttemptNumbers, Proved!AttemptNumbers
<1>4. \A n : Ledger!LeaseExpires(t, n) => Proved!LeaseExpires(t, n)
  BY DEF Ledger!LeaseExpires, Proved!LeaseExpires, Ledger!taskVars, Proved!taskVars
<1> QED
  BY <1>1, <1>2, <1>3, <1>4

LEMMA SameClaims ==
    ASSUME NEW t \in Tasks
    PROVE  /\ Ledger!ClaimReconciles(t) => Proved!ClaimReconciles(t)
           /\ Ledger!ClaimExhausts(t) => Proved!ClaimExhausts(t)
           /\ Ledger!ClaimCancels(t) => Proved!ClaimCancels(t)
           /\ \A o : Ledger!ClaimRuns(t, o) => Proved!ClaimRuns(t, o)
<1> USE DEF Ledger!Claimable, Proved!Claimable, Ledger!Exhausted, Proved!Exhausted,
            Ledger!Orphaned, Proved!Orphaned, Ledger!ClaimNumber, Proved!ClaimNumber,
            Ledger!ClaimCounters, Proved!ClaimCounters, Ledger!FencedRows, Proved!FencedRows,
            Ledger!QueuedAttempt, Proved!QueuedAttempt, Ledger!AttemptNumbers,
            Proved!AttemptNumbers, Ledger!Open, Proved!Open, Ledger!FindsNoReceipt,
            Proved!FindsNoReceipt
<1>1. \A n, outcome, rowStatus, error :
         Ledger!SettleInClaim(t, n, outcome, rowStatus, error) =>
            Proved!SettleInClaim(t, n, outcome, rowStatus, error)
  BY DEF Ledger!SettleInClaim, Proved!SettleInClaim, Ledger!Emit, Proved!Emit
<1>2. Ledger!ClaimReconciles(t) => Proved!ClaimReconciles(t)
  BY <1>1 DEF Ledger!ClaimReconciles, Proved!ClaimReconciles
<1>3. Ledger!ClaimExhausts(t) => Proved!ClaimExhausts(t)
  BY <1>1 DEF Ledger!ClaimExhausts, Proved!ClaimExhausts
<1>4. Ledger!ClaimCancels(t) => Proved!ClaimCancels(t)
  BY <1>1 DEF Ledger!ClaimCancels, Proved!ClaimCancels
<1>5. \A o : Ledger!ClaimRuns(t, o) => Proved!ClaimRuns(t, o)
  BY DEF Ledger!ClaimRuns, Proved!ClaimRuns
<1> QED
  BY <1>2, <1>3, <1>4, <1>5

LEMMA SameFinish ==
    ASSUME NEW t \in Tasks, NEW n, NEW o, NEW outcome, NEW error,
           Ledger!Finish(t, n, o, outcome, error)
    PROVE  Proved!Finish(t, n, o, outcome, error)
BY DEF Ledger!Finish, Proved!Finish, Ledger!Owns, Proved!Owns, Ledger!Terminal, Proved!Terminal,
   Ledger!Emit, Proved!Emit

LEMMA SameTypes == Proved!LedgerInv => Ledger!TypeOK
BY DEF Proved!LedgerInv, Proved!TypeOK, Ledger!TypeOK, Proved!Open, Ledger!Open,
   Proved!Terminal, Ledger!Terminal, Proved!Errors, Ledger!Errors, Proved!AttemptNumbers,
   Ledger!AttemptNumbers, Proved!AttemptRows, Ledger!AttemptRows

LEMMA SameInit == Ledger!Init => Proved!Init
BY DEF Ledger!Init, Proved!Init, Ledger!AttemptNumbers, Proved!AttemptNumbers,
   Ledger!NoAttempt, Proved!NoAttempt

LEMMA SameSteps == [Ledger!Next]_(Ledger!vars) => [Proved!Next]_(Proved!vars)
<1> SUFFICES ASSUME [Ledger!Next]_(Ledger!vars) PROVE [Proved!Next]_(Proved!vars)
  OBVIOUS
<1> USE DEF Ledger!AttemptNumbers, Proved!AttemptNumbers
<1>1. CASE UNCHANGED Ledger!vars
  BY <1>1 DEF Ledger!vars, Proved!vars, Ledger!taskVars, Proved!taskVars
<1>2. ASSUME NEW t \in Tasks,
             \/ Ledger!Submit(t) \/ Ledger!RequestCancel(t)
             \/ \E id \in RetryIds : Ledger!Retry(t, id)
             \/ \E n \in 1 .. MaxAttempts : Ledger!LeaseExpires(t, n)
      PROVE  Proved!Next
  BY <1>2, SameClientSteps DEF Proved!Next
<1>3. ASSUME NEW t \in Tasks, NEW o \in Workers, Ledger!Claim(t, o)
      PROVE  Proved!Next
  BY <1>3, SameClaims DEF Ledger!Claim, Proved!Claim, Proved!Next
<1>4. ASSUME NEW t \in Tasks, NEW n \in 1 .. MaxAttempts, NEW o \in Workers,
             Ledger!OwnerStep(t, n, o)
      PROVE  Proved!Next
  <2>1. Ledger!Land(t, n, o) => Proved!Land(t, n, o)
    BY SameParts DEF Ledger!Land, Proved!Land, Ledger!taskVars, Proved!taskVars
  <2>2. \A outcome : Ledger!FinishReplay(t, n, outcome) => Proved!FinishReplay(t, n, outcome)
    BY SameParts DEF Ledger!FinishReplay, Proved!FinishReplay, Ledger!Emit, Proved!Emit,
       Ledger!taskVars, Proved!taskVars
  <2>3. Proved!OwnerStep(t, n, o)
    BY <1>4, <2>1, <2>2, SameFinish, SameParts DEF Ledger!OwnerStep, Proved!OwnerStep
  <2> QED
    BY <2>3 DEF Proved!Next
<1> QED
  BY <1>1, <1>2, <1>3, <1>4 DEF Ledger!Next

-----------------------------------------------------------------------------
(* Receipts and the control state of the workers.                          *)

LEMMA AppendedRevision ==
    ASSUME Domains, NEW author \in Tasks \cup {Outside}, NEW base \in Nat,
           revisions' = Append(revisions, [author |-> author, base |-> base])
    PROVE  /\ revisions' \in Revisions
           /\ \A t : HasReceipt(t)' <=> HasReceipt(t) \/ t = author
           /\ base = CurrentHead /\ RevisionsFormAChain => RevisionsFormAChain'
           /\ OneRevisionPerTask /\ (author = Outside \/ ~HasReceipt(author)) => OneRevisionPerTask'
<1> DEFINE new == [author |-> author, base |-> base]
<1>1. /\ new \in [author : Tasks \cup {Outside}, base : Nat]
      /\ new.author = author /\ new.base = base
  OBVIOUS
<1> HIDE DEF new
<1>2. revisions' = Append(revisions, new)
  BY DEF new
<1>3. /\ revisions' \in Revisions /\ DOMAIN revisions' = 1 .. Len(revisions) + 1
      /\ DOMAIN revisions = 1 .. Len(revisions) /\ Len(revisions) \in Nat
      /\ revisions'[Len(revisions) + 1] = new
      /\ \A i \in 1 .. Len(revisions) : revisions'[i] = revisions[i]
  BY <1>1, <1>2 DEF Domains, Revisions
<1>4. \A t : HasReceipt(t)' <=> HasReceipt(t) \/ t = author
  BY <1>1, <1>3 DEF HasReceipt
<1>5. base = CurrentHead /\ RevisionsFormAChain => RevisionsFormAChain'
  BY <1>1, <1>3 DEF RevisionsFormAChain, CurrentHead
<1>6. OneRevisionPerTask /\ (author = Outside \/ ~HasReceipt(author)) => OneRevisionPerTask'
  BY <1>1, <1>3 DEF OneRevisionPerTask, HasReceipt
<1> QED
  BY <1>3, <1>4, <1>5, <1>6

LEMMA SameReceipts ==
    ASSUME UNCHANGED revisions
    PROVE  /\ \A t : HasReceipt(t)' <=> HasReceipt(t)
           /\ {t \in Tasks : HasReceipt(t)}' = {t \in Tasks : HasReceipt(t)}
BY DEF HasReceipt

\* A step of the worker w alone.
Works(w, pc, outcome) ==
    /\ worker' \in [Workers -> WorkerRows]
    /\ \A v \in Workers \ {w} : worker'[v] = worker[v]
    /\ worker'[w].pc = pc /\ worker'[w].outcome = outcome
    /\ worker'[w].task = Task(w) /\ worker'[w].attempt = Attempt(w)

Pcs == {"idle", "begin", "admit", "write", "publish", "recover", "failing", "finish"}

LEMMA WorkerSteps ==
    ASSUME worker \in [Workers -> WorkerRows], NEW w \in Workers
    PROVE  /\ \A pc \in Pcs : GoTo(w, pc) => Works(w, pc, worker[w].outcome)
           /\ \A pc \in Pcs, error \in Ledger!Errors :
                 Raise(w, pc, error) => Works(w, pc, worker[w].outcome)
           /\ \A outcome \in Ledger!Terminal : Settle(w, outcome) => Works(w, "finish", outcome)
<1> USE DEF Works, WorkerRows, Pcs, Task, Attempt
<1>1. \A pc \in Pcs : GoTo(w, pc) => Works(w, pc, worker[w].outcome)
  BY DEF GoTo
<1>2. \A pc \in Pcs, error \in Ledger!Errors : Raise(w, pc, error) => Works(w, pc, worker[w].outcome)
  <2> SUFFICES ASSUME NEW pc \in Pcs, NEW error \in Ledger!Errors, Raise(w, pc, error)
               PROVE  Works(w, pc, worker[w].outcome)
    OBVIOUS
  <2> DEFINE new == [worker[w] EXCEPT !.pc = pc, !.error = error]
  <2>1. worker' = [worker EXCEPT ![w] = new]
    BY DEF Raise
  <2>2. /\ new \in WorkerRows /\ new.pc = pc /\ new.outcome = worker[w].outcome
        /\ new.task = Task(w) /\ new.attempt = Attempt(w)
    OBVIOUS
  <2> HIDE DEF new
  <2> QED
    BY <2>1, <2>2
<1>3. \A outcome \in Ledger!Terminal : Settle(w, outcome) => Works(w, "finish", outcome)
  <2> SUFFICES ASSUME NEW outcome \in Ledger!Terminal, Settle(w, outcome)
               PROVE  Works(w, "finish", outcome)
    OBVIOUS
  <2> DEFINE new == [worker[w] EXCEPT !.pc = "finish", !.outcome = outcome]
  <2>1. worker' = [worker EXCEPT ![w] = new]
    BY DEF Settle
  <2>2. /\ new \in WorkerRows /\ new.pc = "finish" /\ new.outcome = outcome
        /\ new.task = Task(w) /\ new.attempt = Attempt(w)
    OBVIOUS
  <2> HIDE DEF new
  <2> QED
    BY <2>1, <2>2
<1> QED
  BY <1>1, <1>2, <1>3

LEMMA PublisherWorks ==
    ASSUME worker \in [Workers -> WorkerRows], NEW w \in Workers, Publishes(w)
    PROVE  Works(w, "finish", "done")
<1> DEFINE new == [worker[w] EXCEPT !.pc = "finish", !.outcome = "done", !.error = "none"]
<1>1. worker' = [worker EXCEPT ![w] = new]
  BY DEF Publishes
<1>2. {"none"} \subseteq Ledger!Errors /\ "done" \in Ledger!Terminal
  BY DEF Ledger!Errors, Ledger!Terminal
<1>3. /\ new \in WorkerRows /\ new.pc = "finish" /\ new.outcome = "done"
      /\ new.task = Task(w) /\ new.attempt = Attempt(w)
  BY <1>2 DEF WorkerRows, Task, Attempt
<1> HIDE DEF new
<1> QED
  BY <1>1, <1>3 DEF Works

LEMMA WorkerLeaves ==
    ASSUME worker \in [Workers -> WorkerRows], NEW w \in Workers, Leave(w)
    PROVE  /\ worker' \in [Workers -> WorkerRows]
           /\ \A v \in Workers \ {w} : worker'[v] = worker[v]
           /\ worker'[w].pc = "idle"
<1>1. Idle \in WorkerRows /\ Idle.pc = "idle"
  BY LedgerAssumption DEF Idle, WorkerRows, Ledger!Errors
<1> QED
  BY <1>1 DEF Leave

-----------------------------------------------------------------------------
(* What a step of the ledger means to the workers.                         *)

LedgerStep == [Ledger!Next]_(Ledger!vars)

\* The attempt row n of task t names w as the owner of a live lease.
RowIsOwned(row, w) == row.status = "running" /\ row.owner = w /\ row.lease = "live"

LEMMA LedgerStays ==
    ASSUME WriteInv, LedgerStep
    PROVE  /\ Proved!LedgerInv'
           /\ \A t \in Tasks : taskStatus'[t] = "done" => HasReceipt(t)
           /\ \A w \in Workers :
                 ~At(w, "idle") =>
                    LET row == attempts[Task(w)][Attempt(w)]
                        next == attempts'[Task(w)][Attempt(w)]
                    IN  /\ next.status \notin {"none", "queued"}
                        /\ next.owner = w
                        /\ RowIsOwned(next, w) => RowIsOwned(row, w)
<1>1. Proved!LedgerInv /\ [Proved!Next]_(Proved!vars)
  BY SameSteps DEF WriteInv, LedgerStep
<1>2. Proved!LedgerInv'
  BY <1>1, LedgerAssumption, Proved!NextPreserves
<1>3. \A t \in Tasks : taskStatus'[t] = "done" => HasReceipt(t)
  BY <1>1, LedgerAssumption, Proved!DoneNeedsReceipt DEF WriteInv, Told
<1>4. ASSUME NEW t \in Tasks, NEW n \in Proved!AttemptNumbers, NEW o \in Workers,
             attempts[t][n].status \notin {"none", "queued"}
      PROVE  /\ attempts'[t][n].status \notin {"none", "queued"}
             /\ attempts'[t][n].owner = attempts[t][n].owner
             /\ RowIsOwned(attempts'[t][n], o) => RowIsOwned(attempts[t][n], o)
  <2>1. Proved!Owns(t, n, o)' => Proved!Owns(t, n, o)
    BY <1>1, <1>4, LedgerAssumption, Proved!ClaimedRowsStay
  <2>2. /\ attempts'[t][n].status \notin {"none", "queued"}
        /\ attempts'[t][n].owner = attempts[t][n].owner
    BY <1>1, <1>4, LedgerAssumption, Proved!ClaimedRowsStay
  <2> QED
    BY <2>1, <2>2 DEF Proved!Owns, RowIsOwned
<1>5. \A w \in Workers :
        ~At(w, "idle") =>
          /\ Task(w) \in Tasks /\ Attempt(w) \in Proved!AttemptNumbers
          /\ attempts[Task(w)][Attempt(w)].status \notin {"none", "queued"}
          /\ attempts[Task(w)][Attempt(w)].owner = w
  BY DEF WriteInv, WorkerRow, Proved!AttemptNumbers
<1> QED
  BY <1>2, <1>3, <1>4, <1>5

\* A step of the ledger under which no receipt is added preserves the invariant,
\* given what it says of the worker that takes it.
LEMMA LedgerStepPreserves ==
    ASSUME WriteInv, LedgerStep, UNCHANGED revisions, Domains',
           \A t \in Tasks : Careful(t) /\ taskStatus'[t] \in {"failed", "cancelled"}
               => taskStatus'[t] = taskStatus[t] \/ ~HasReceipt(t),
           \A w \in Workers : worker'[w] = worker[w] \/ (WorkerRow(w)' /\ Decided(w)')
    PROVE  WriteInv'
<1>1. /\ Proved!LedgerInv'
      /\ \A t \in Tasks : taskStatus'[t] = "done" => HasReceipt(t)
  BY LedgerStays
<1>2. OneRevisionPerTask' /\ RevisionsFormAChain'
  BY DEF WriteInv, OneRevisionPerTask, RevisionsFormAChain
<1>3. \A t \in Tasks : Told(t)'
  BY <1>1, SameReceipts DEF WriteInv, Told, Careful
<1>4. ASSUME NEW w \in Workers, worker'[w] = worker[w] PROVE WorkerRow(w)' /\ Decided(w)'
  <2>1. ~At(w, "idle") =>
          LET row == attempts[Task(w)][Attempt(w)]
              next == attempts'[Task(w)][Attempt(w)]
          IN  /\ next.status \notin {"none", "queued"}
              /\ next.owner = w
              /\ RowIsOwned(next, w) => RowIsOwned(row, w)
    BY LedgerStays
  <2>2. WorkerRow(w) /\ Decided(w)
    BY DEF WriteInv
  <2>3. WorkerRow(w)'
    BY <1>4, <2>1, <2>2 DEF WorkerRow, At, Task, Attempt
  <2>4. At(w, "finish") => ~At(w, "idle")
    BY DEF At
  <2>5. Decided(w)'
    BY <1>4, <2>1, <2>2, <2>4, SameReceipts DEF Decided, At, Task, Attempt, OwnsLease, Ledger!Owns,
       RowIsOwned, Careful
  <2> QED
    BY <2>3, <2>5
<1> QED
  BY <1>1, <1>2, <1>3, <1>4 DEF WriteInv

\* A step of a worker that leaves the ledger and the revisions alone.
LEMMA WorkPreserves ==
    ASSUME WriteInv, UNCHANGED <<ledgerVars, revisions, expectedHead>>, faults' \in 0 .. MaxFaults,
           NEW w \in Workers, ~At(w, "idle"),
           NEW pc \in Pcs \ {"idle"}, NEW outcome, Works(w, pc, outcome),
           pc = "finish" =>
              /\ outcome # "none"
              /\ outcome = "done" => HasReceipt(Task(w))
              /\ Careful(Task(w)) /\ outcome # "done" /\ OwnsLease(w) => ~HasReceipt(Task(w))
    PROVE  WriteInv' /\ LedgerStep
<1>1. LedgerStep
  BY SameReceipts DEF LedgerStep, ledgerVars, taskVars, Ledger!vars, Ledger!taskVars
<1>2. WorkerRow(w)
  BY DEF WriteInv
<1>3. WorkerRow(w)'
  BY <1>2 DEF WorkerRow, Works, At, Task, Attempt, ledgerVars
<1>4. Decided(w)'
  BY SameReceipts DEF Decided, Works, At, Task, Attempt, OwnsLease, Ledger!Owns, ledgerVars, Careful
<1>5. Domains'
  BY DEF WriteInv, Domains, Works
<1> QED
  BY <1>1, <1>3, <1>4, <1>5, LedgerStepPreserves DEF Works, ledgerVars, taskVars

LEMMA MovePreserves ==
    ASSUME WriteInv, UNCHANGED <<ledgerVars, revisions, expectedHead>>, faults' \in 0 .. MaxFaults,
           NEW w \in Workers, ~At(w, "idle"),
           NEW pc \in Pcs \ {"idle", "finish"},
           GoTo(w, pc) \/ \E error \in Ledger!Errors : Raise(w, pc, error)
    PROVE  WriteInv' /\ LedgerStep
<1>1. Works(w, pc, worker[w].outcome)
  BY WorkerSteps DEF WriteInv, Domains
<1> QED
  BY <1>1, WorkPreserves

LEMMA SettlePreserves ==
    ASSUME WriteInv, UNCHANGED <<ledgerVars, revisions, expectedHead>>, faults' \in 0 .. MaxFaults,
           NEW w \in Workers, ~At(w, "idle"),
           NEW outcome \in Ledger!Terminal,
           Settle(w, outcome) \/ (outcome = "done" /\ Publishes(w)),
           outcome = "done" => HasReceipt(Task(w)),
           Careful(Task(w)) /\ outcome # "done" => ~HasReceipt(Task(w))
    PROVE  WriteInv' /\ LedgerStep
<1>1. Works(w, "finish", outcome)
  BY WorkerSteps, PublisherWorks DEF WriteInv, Domains
<1>2. outcome # "none"
  BY DEF Ledger!Terminal
<1>3. "finish" \in Pcs \ {"idle"}
  BY DEF Pcs
<1> QED
  BY <1>1, <1>2, <1>3, WorkPreserves

-----------------------------------------------------------------------------
(* The actions.                                                            *)

LEMMA FaultIsCounted == ASSUME Domains, NEW kind, Fault(kind) PROVE faults' \in 0 .. MaxFaults
BY BoundsAssumption DEF Domains, Fault

LEMMA ClientPreserves ==
    ASSUME WriteInv, NEW t \in Tasks,
           \/ Submit(t) \/ RequestCancel(t) \/ \E id \in RetryIds : Retry(t, id)
           \/ \E n \in 1 .. MaxAttempts : LeaseExpires(t, n)
    PROVE  WriteInv' /\ LedgerStep
<1>1. UNCHANGED <<revisions, worker, faults>>
  BY DEF Submit, RequestCancel, Retry, LeaseExpires
<1>2. LedgerStep
  BY DEF Submit, RequestCancel, Retry, LeaseExpires, LedgerStep, Ledger!Next, Ledger!AttemptNumbers
<1>3. expectedHead' \in [Tasks -> Nat]
  BY DEF Submit, RequestCancel, Retry, LeaseExpires, WriteInv, Domains, CurrentHead, Revisions
<1>4. Domains'
  BY <1>1, <1>3 DEF WriteInv, Domains
<1>5. \A u \in Tasks : taskStatus'[u] \in {taskStatus[u], "queued"}
  <2>1. taskStatus \in [Tasks -> {"absent"} \cup Ledger!Open \cup Ledger!Terminal]
    BY SameTypes DEF WriteInv, Ledger!TypeOK
  <2> QED
    BY <2>1 DEF Submit, RequestCancel, Retry, LeaseExpires, Ledger!Submit, Ledger!RequestCancel,
       Ledger!Retry, Ledger!ReopenTask, Ledger!LeaseExpires, Ledger!taskVars
<1> QED
  BY <1>1, <1>2, <1>4, <1>5, LedgerStepPreserves

LEMMA DispatchPreserves ==
    ASSUME WriteInv, NEW w \in Workers, NEW t \in Tasks, Dispatch(w, t)
    PROVE  WriteInv' /\ LedgerStep
<1>1. At(w, "idle") /\ UNCHANGED <<revisions, expectedHead, faults>>
  BY DEF Dispatch
<1>2. Ledger!Claim(t, w)
  BY DEF Dispatch, Ledger!Claim
<1>3. LedgerStep
  BY <1>2 DEF LedgerStep, Ledger!Next
<1>4. ASSUME NEW u \in Tasks, Careful(u), taskStatus'[u] \in {"failed", "cancelled"}
      PROVE  taskStatus'[u] = taskStatus[u] \/ ~HasReceipt(u)
  <2>1. Proved!Claim(t, w)
    BY <1>2, SameClaims DEF Ledger!Claim, Proved!Claim
  <2> QED
    BY <1>4, <2>1, LedgerAssumption, Proved!ClaimsGiveUpUnlanded DEF WriteInv, Careful
<1>5. CASE UNCHANGED worker
  <2>1. Domains'
    BY <1>1, <1>5 DEF WriteInv, Domains
  <2> QED
    BY <1>1, <1>3, <1>4, <1>5, <2>1, LedgerStepPreserves
<1>6. CASE /\ Ledger!ClaimRuns(t, w)
           /\ worker' = [worker EXCEPT ![w] =
                 [Idle EXCEPT !.pc = IF t \in RunnerTasks THEN "admit" ELSE "begin",
                              !.task = t, !.attempt = lastAttempt'[t]]]
  <2> DEFINE pc == IF t \in RunnerTasks THEN "admit" ELSE "begin"
             new == [Idle EXCEPT !.pc = pc, !.task = t, !.attempt = lastAttempt'[t]]
  <2>1. /\ lastAttempt'[t] \in 1 .. MaxAttempts
        /\ attempts'[t][lastAttempt'[t]].status = "running"
        /\ attempts'[t][lastAttempt'[t]].owner = w
    BY <1>6, SameClaims, LedgerAssumption, Proved!ClaimGivesRow DEF WriteInv, Proved!AttemptNumbers
  <2>2. pc \in {"admit", "begin"}
    OBVIOUS
  <2> HIDE DEF pc
  <2> DEFINE n == lastAttempt'[t]
  <2>8. n \in 0 .. MaxAttempts
    BY <2>1, LedgerAssumption
  <2>9. new = [Idle EXCEPT !.pc = pc, !.task = t, !.attempt = n]
    OBVIOUS
  <2>10. /\ Idle \in WorkerRows /\ pc \in Pcs /\ t \in Tasks \cup {NoOwner}
    BY <2>2, LedgerAssumption DEF Idle, WorkerRows, Pcs, Ledger!Errors
  <2> HIDE DEF n, new
  <2>3. /\ new \in WorkerRows /\ new.pc = pc /\ new.task = t /\ new.attempt = n
    BY <2>8, <2>9, <2>10 DEF WorkerRows, Pcs
  <2> USE DEF n
  <2>4. worker' = [worker EXCEPT ![w] = new]
    BY <1>6 DEF pc, new
  <2>5. /\ worker' \in [Workers -> WorkerRows] /\ worker'[w] = new
        /\ \A v \in Workers \ {w} : worker'[v] = worker[v]
    BY <2>3, <2>4 DEF WriteInv, Domains
  <2>6. Domains'
    BY <1>1, <2>5 DEF WriteInv, Domains
  <2>7. WorkerRow(w)' /\ Decided(w)'
    BY <2>1, <2>2, <2>3, <2>5 DEF WorkerRow, Decided, At, Task, Attempt
  <2> QED
    BY <1>1, <1>3, <1>4, <2>5, <2>6, <2>7, LedgerStepPreserves
<1> QED
  BY <1>5, <1>6 DEF Dispatch

LEMMA OutsidePreserves == ASSUME WriteInv, PublishOutside PROVE WriteInv' /\ LedgerStep
<1>1. UNCHANGED <<ledgerVars, expectedHead, worker, faults>>
  BY DEF PublishOutside
<1>2. CurrentHead \in Nat /\ Domains
  BY DEF WriteInv, Domains, Revisions, CurrentHead
<1>3. /\ revisions' \in Revisions
      /\ \A t \in Tasks : HasReceipt(t)' <=> HasReceipt(t)
      /\ OneRevisionPerTask' /\ RevisionsFormAChain'
  BY <1>2, AppendedRevision, OutsideAssumption DEF PublishOutside, WriteInv
<1>4. {t \in Tasks : HasReceipt(t)}' = {t \in Tasks : HasReceipt(t)}
  BY <1>3
<1>5. LedgerStep
  BY <1>1, <1>4 DEF LedgerStep, ledgerVars, taskVars, Ledger!vars, Ledger!taskVars
<1>6. Proved!LedgerInv'
  BY <1>5, LedgerStays
<1>7. Domains'
  BY <1>1, <1>2, <1>3 DEF Domains
<1>8. \A w \in Workers : WorkerRow(w)' /\ Decided(w)'
  BY <1>1, <1>3 DEF WriteInv, WorkerRow, Decided, At, Task, Attempt, OwnsLease, Ledger!Owns, ledgerVars,
     Careful
<1>9. \A t \in Tasks : Told(t)'
  BY <1>1, <1>3 DEF WriteInv, Told, Careful, ledgerVars, taskVars
<1> QED
  BY <1>3, <1>5, <1>6, <1>7, <1>8, <1>9 DEF WriteInv

LEMMA BeginPreserves ==
    ASSUME WriteInv, NEW w \in Workers, Begin(w) \/ Admit(w) \/ WriteArtifact(w)
    PROVE  WriteInv' /\ LedgerStep
<1>1. /\ UNCHANGED <<ledgerVars, revisions, expectedHead>> /\ faults' \in 0 .. MaxFaults
      /\ ~At(w, "idle")
  BY DEF Begin, Admit, WriteArtifact, At, WriteInv, Domains
<1>2. /\ {"other", "stale_expected_head"} \subseteq Ledger!Errors /\ "done" \in Ledger!Terminal
      /\ {"failing", "admit", "write", "publish"} \subseteq Pcs \ {"idle", "finish"}
  BY DEF Ledger!Errors, Ledger!Terminal, Pcs
<1>3. CASE \E pc \in {"failing", "admit", "write", "publish"} :
              GoTo(w, pc) \/ Raise(w, pc, "other") \/ Raise(w, pc, "stale_expected_head")
  BY <1>1, <1>2, <1>3, MovePreserves
<1>4. CASE HasReceipt(Task(w)) /\ Settle(w, "done")
  BY <1>1, <1>2, <1>4, SettlePreserves
<1> QED
  BY <1>3, <1>4 DEF Begin, Admit, WriteArtifact

LEMMA RecoverPreserves ==
    ASSUME WriteInv, NEW w \in Workers, Recover(w) \/ Fail(w)
    PROVE  WriteInv' /\ LedgerStep
<1>1. /\ UNCHANGED <<ledgerVars, revisions, expectedHead>>
      /\ ~At(w, "idle")
  BY DEF Recover, Fail, At
<1>2. faults' \in 0 .. MaxFaults
  BY FaultIsCounted DEF Recover, Fail, WriteInv, Domains
<1>3. CASE HasReceipt(Task(w)) /\ (Settle(w, "done") \/ Publishes(w))
  <2>1. "done" \in Ledger!Terminal
    BY DEF Ledger!Terminal
  <2> QED
    BY <1>1, <1>2, <1>3, <2>1, SettlePreserves
<1>4. CASE GoTo(w, "failing")
  <2>1. "failing" \in Pcs \ {"idle", "finish"}
    BY DEF Pcs
  <2> QED
    BY <1>1, <1>2, <1>4, <2>1, MovePreserves
<1>5. CASE /\ SettleFailure(w) \/ Settle(w, "failed")
           /\ Task(w) \in RunnerTasks \cup Unreadable \/ ~HasReceipt(Task(w))
  <2>1. Careful(Task(w)) => ~HasReceipt(Task(w))
    BY <1>5, RunnerAssumption DEF Careful, Fault
  <2>2. \E outcome \in Ledger!Terminal : outcome # "done" /\ Settle(w, outcome)
    BY <1>5 DEF SettleFailure, Ledger!Terminal
  <2> QED
    BY <1>1, <1>2, <2>1, <2>2, SettlePreserves
<1> QED
  BY <1>3, <1>4, <1>5 DEF Recover, Fail

LEMMA DetachPreserves ==
    ASSUME WriteInv, NEW w \in Workers, Detach(w)
    PROVE  WriteInv' /\ LedgerStep
<1>1. /\ UNCHANGED <<ledgerVars, revisions, expectedHead>> /\ faults' \in 0 .. MaxFaults
      /\ ~At(w, "idle") /\ worker[w].pc \in Pcs \ {"idle", "finish"}
  BY DEF Detach, At, WriteInv, Domains, Pcs
<1>2. Works(w, worker[w].pc, worker[w].outcome)
  BY DEF Detach, Works, WriteInv, Domains, WorkerRows, Task, Attempt
<1> QED
  BY <1>1, <1>2, WorkPreserves

LEMMA CrashPreserves ==
    ASSUME WriteInv, NEW h \in Hubs, Crash(h)
    PROVE  WriteInv' /\ LedgerStep
<1>1. UNCHANGED <<ledgerVars, revisions, expectedHead>> /\ faults' \in 0 .. MaxFaults
  BY FaultIsCounted DEF Crash, WriteInv
<1>2. LedgerStep
  BY <1>1, SameReceipts DEF LedgerStep, ledgerVars, taskVars, Ledger!vars, Ledger!taskVars
<1>3. Idle \in WorkerRows /\ Idle.pc = "idle"
  BY LedgerAssumption DEF Idle, WorkerRows, Ledger!Errors
<1>4. /\ worker' \in [Workers -> WorkerRows]
      /\ \A w \in Workers : worker'[w] = worker[w] \/ worker'[w].pc = "idle"
  BY <1>3 DEF Crash, WriteInv, Domains
<1>5. Domains'
  BY <1>1, <1>4 DEF WriteInv, Domains
<1>6. \A w \in Workers : worker'[w] = worker[w] \/ (WorkerRow(w)' /\ Decided(w)')
  BY <1>4 DEF WorkerRow, Decided, At
<1> QED
  BY <1>1, <1>2, <1>5, <1>6, LedgerStepPreserves DEF ledgerVars, taskVars

\* The commit of a worker's revision.  If the task is fenced the worker owns
\* its only running attempt, so no other worker can hold a verdict on it.
LEMMA CommitPreserves ==
    ASSUME WriteInv, NEW w \in Workers, ~At(w, "idle"), PublicationCommits(w),
           revisions' = Append(revisions, [author |-> Task(w), base |-> expectedHead[Task(w)]]),
           UNCHANGED <<ledgerVars, expectedHead>>, faults' \in 0 .. MaxFaults,
           \/ Works(w, "finish", "done")
           \/ \E outcome : Works(w, "recover", outcome)
    PROVE  WriteInv' /\ LedgerStep
<1> DEFINE t == Task(w)
<1>1. /\ t \in Tasks /\ Attempt(w) \in 1 .. MaxAttempts
      /\ attempts[t][Attempt(w)].owner = w
      /\ ~HasReceipt(t) /\ expectedHead[t] = CurrentHead /\ expectedHead[t] \in Nat
      /\ t \in FencedTasks => Ledger!HoldsPublicationFence(t, Attempt(w), w)
  BY DEF WriteInv, WorkerRow, PublicationCommits, PublicationRefused, Domains
<1>2. /\ revisions' \in Revisions
      /\ \A u : HasReceipt(u)' <=> HasReceipt(u) \/ u = t
      /\ RevisionsFormAChain' /\ OneRevisionPerTask'
  BY <1>1, AppendedRevision DEF WriteInv
<1>3. {u \in Tasks : HasReceipt(u)}' = {u \in Tasks : HasReceipt(u)} \cup {t}
  BY <1>1, <1>2
<1>4. Ledger!Land(t, Attempt(w), w)
  BY <1>1, <1>3 DEF Ledger!Land, ledgerVars, taskVars, Ledger!taskVars
<1>5. LedgerStep
  BY <1>1, <1>4 DEF LedgerStep, Ledger!Next, Ledger!OwnerStep, Ledger!AttemptNumbers
<1>6. Proved!LedgerInv'
  BY <1>5, LedgerStays
<1>7. Domains'
  BY <1>2 DEF WriteInv, Domains, Works
<1>8. ASSUME NEW u \in Tasks PROVE Told(u)'
  <2>1. Careful(t) => taskStatus[t] = "running"
    BY <1>1 DEF Careful, Ledger!HoldsPublicationFence
  <2> QED
    BY <1>2, <2>1 DEF WriteInv, Told, Careful, ledgerVars, taskVars
<1>9. WorkerRow(w)' /\ Decided(w)'
  BY <1>1, <1>2 DEF WorkerRow, Decided, Works, At, Task, Attempt, WriteInv, ledgerVars
<1>10. ASSUME NEW v \in Workers, v # w PROVE WorkerRow(v)' /\ Decided(v)'
  <2>1. worker'[v] = worker[v] /\ WorkerRow(v) /\ Decided(v) /\ UNCHANGED attempts
    BY <1>10 DEF Works, WriteInv, ledgerVars
  <2>2. WorkerRow(v)'
    BY <2>1 DEF WorkerRow, At, Task, Attempt
  <2>3. ASSUME At(v, "finish"), Careful(t), Task(v) = t, OwnsLease(v) PROVE FALSE
    <3>1. Attempt(v) \in 1 .. MaxAttempts /\ attempts[t][Attempt(v)].owner = v
      BY <2>1, <2>3 DEF WorkerRow, At
    <3>2. /\ attempts[t][Attempt(v)].status = "running"
          /\ attempts[t][Attempt(w)].status = "running"
      BY <1>1, <2>3 DEF OwnsLease, Ledger!Owns, Careful, Ledger!HoldsPublicationFence
    <3>3. Proved!OneOpenAttempt
      BY LedgerAssumption, Proved!LedgerInvImplies DEF WriteInv
    <3>4. Attempt(v) = Attempt(w)
      BY <1>1, <3>1, <3>2, <3>3 DEF Proved!OneOpenAttempt, Proved!AttemptNumbers, Proved!Open
    <3> QED
      BY <1>1, <1>10, <3>1, <3>4
  <2>4. Decided(v)'
    BY <1>2, <2>1, <2>3 DEF Decided, At, Task, Attempt, OwnsLease, Ledger!Owns, Careful
  <2> QED
    BY <2>2, <2>4
<1> QED
  BY <1>2, <1>5, <1>6, <1>7, <1>8, <1>9, <1>10 DEF WriteInv

LEMMA PublishPreserves ==
    ASSUME WriteInv, NEW w \in Workers, Publish(w)
    PROVE  WriteInv' /\ LedgerStep
<1>1. /\ UNCHANGED <<ledgerVars, expectedHead>> /\ ~At(w, "idle")
      /\ worker \in [Workers -> WorkerRows]
  BY DEF Publish, At, WriteInv, Domains
<1>2. faults' \in 0 .. MaxFaults
  BY FaultIsCounted DEF Publish, WriteInv, Domains
<1>3. /\ {"other", "stale_expected_head"} \subseteq Ledger!Errors /\ "done" \in Ledger!Terminal
      /\ "recover" \in Pcs \ {"idle", "finish"}
  BY DEF Ledger!Errors, Ledger!Terminal, Pcs
<1>4. CASE /\ UNCHANGED revisions
           /\ Raise(w, "recover", "other") \/ Raise(w, "recover", "stale_expected_head")
  BY <1>1, <1>2, <1>3, <1>4, MovePreserves
<1>5. CASE PublicationReplayed(w) /\ Settle(w, "done") /\ UNCHANGED revisions
  BY <1>1, <1>2, <1>3, <1>5, SettlePreserves DEF PublicationReplayed
<1>6. CASE /\ PublicationCommits(w)
           /\ revisions' = Append(revisions, [author |-> Task(w), base |-> expectedHead[Task(w)]])
           /\ Settle(w, "done") \/ Raise(w, "recover", "other")
  <2>1. Works(w, "finish", "done") \/ Works(w, "recover", worker[w].outcome)
    BY <1>1, <1>3, <1>6, WorkerSteps
  <2> QED
    BY <1>1, <1>2, <1>6, <2>1, CommitPreserves
<1> QED
  BY <1>4, <1>5, <1>6 DEF Publish

LEMMA RecheckPreserves ==
    ASSUME WriteInv, NEW w \in Workers, RecheckRaises(w)
    PROVE  WriteInv' /\ LedgerStep
<1>1. /\ UNCHANGED <<ledgerVars, revisions, expectedHead>>
      /\ ~At(w, "idle")
  BY DEF RecheckRaises, At
<1>2. faults' \in 0 .. MaxFaults
  BY FaultIsCounted DEF RecheckRaises, WriteInv, Domains
<1>3. Raise(w, "failing", "other")
  BY DEF RecheckRaises
<1>4. "other" \in Ledger!Errors /\ "failing" \in Pcs \ {"idle", "finish"}
  BY DEF Ledger!Errors, Pcs
<1> QED
  BY <1>1, <1>2, <1>3, <1>4, MovePreserves

\* A finish that commits is one the ledger allows, and what it reports holds.
LEMMA FinishReports ==
    ASSUME WriteInv, NEW w \in Workers, At(w, "finish"), UNCHANGED revisions,
           Ledger!Finish(Task(w), Attempt(w), w, worker[w].outcome, FinishError(w))
    PROVE  /\ LedgerStep
           /\ \A t \in Tasks : Careful(t) /\ taskStatus'[t] \in {"failed", "cancelled"}
                 => taskStatus'[t] = taskStatus[t] \/ ~HasReceipt(t)
<1> DEFINE outcome == worker[w].outcome
<1>1. /\ Task(w) \in Tasks /\ Attempt(w) \in 1 .. MaxAttempts
      /\ outcome \in Ledger!Terminal /\ worker[w].error \in Ledger!Errors
      /\ outcome = "done" => HasReceipt(Task(w))
      /\ Careful(Task(w)) /\ outcome # "done" /\ OwnsLease(w) => ~HasReceipt(Task(w))
  BY DEF WriteInv, Domains, WorkerRow, Decided, At, WorkerRows
<1>2. FinishError(w) \in Ledger!Errors /\ (outcome = "done" => FinishError(w) = "none")
  BY <1>1 DEF FinishError, Ledger!Errors
<1>3. Ledger!OwnerStep(Task(w), Attempt(w), w)
  BY <1>1, <1>2 DEF Ledger!OwnerStep
<1>4. LedgerStep
  BY <1>1, <1>3 DEF LedgerStep, Ledger!Next, Ledger!AttemptNumbers
<1>5. OwnsLease(w)
  BY DEF Ledger!Finish, OwnsLease
<1>6. taskStatus' = [taskStatus EXCEPT ![Task(w)] = outcome]
  BY DEF Ledger!Finish
<1>7. taskStatus \in [Tasks -> {"absent"} \cup Ledger!Open \cup Ledger!Terminal]
  BY SameTypes DEF WriteInv, Ledger!TypeOK
<1> QED
  BY <1>1, <1>4, <1>5, <1>6, <1>7

LEMMA FinishPreserves ==
    ASSUME WriteInv, NEW w \in Workers, Finish(w) \/ FinishRaises(w)
    PROVE  WriteInv' /\ LedgerStep
<1>1. /\ UNCHANGED <<revisions, expectedHead>> /\ At(w, "finish") /\ ~At(w, "idle")
      /\ worker \in [Workers -> WorkerRows]
  BY DEF Finish, FinishRaises, At, WriteInv, Domains
<1>2. faults' \in 0 .. MaxFaults
  BY FaultIsCounted DEF Finish, FinishRaises, WriteInv, Domains
<1>3. \/ UNCHANGED ledgerVars
      \/ Ledger!Finish(Task(w), Attempt(w), w, worker[w].outcome, FinishError(w))
  BY DEF Finish, FinishRaises
<1>4. /\ LedgerStep
      /\ \A t \in Tasks : Careful(t) /\ taskStatus'[t] \in {"failed", "cancelled"}
            => taskStatus'[t] = taskStatus[t] \/ ~HasReceipt(t)
  <2>1. CASE UNCHANGED ledgerVars
    BY <1>1, <2>1, SameReceipts DEF LedgerStep, ledgerVars, taskVars, Ledger!vars, Ledger!taskVars
  <2> QED
    BY <1>1, <1>3, <2>1, FinishReports
<1>5. /\ worker' \in [Workers -> WorkerRows]
      /\ \A v \in Workers \ {w} : worker'[v] = worker[v]
      /\ \/ worker'[w].pc = "idle"
         \/ /\ worker'[w].task = Task(w) /\ worker'[w].attempt = Attempt(w)
            /\ \/ worker'[w].pc = "failing"
               \/ /\ worker'[w].pc = "finish" /\ worker'[w].outcome = "failed"
                  /\ ~Careful(Task(w))
  <2>1. CASE Leave(w) \/ Raise(w, "failing", "other")
    <3>1. "other" \in Ledger!Errors /\ "failing" \in Pcs
      BY DEF Ledger!Errors, Pcs
    <3> QED
      BY <1>1, <2>1, <3>1, WorkerLeaves, WorkerSteps DEF Works
  <2>2. CASE /\ Task(w) \in RunnerTasks
             /\ worker' = [worker EXCEPT ![w].outcome = "failed", ![w].error = "other"]
    <3>1. "other" \in Ledger!Errors /\ "failed" \in Ledger!Terminal
      BY DEF Ledger!Errors, Ledger!Terminal
    <3>2. worker'[w] = [worker[w] EXCEPT !.outcome = "failed", !.error = "other"]
      BY <1>1, <2>2
    <3>3. worker'[w] \in WorkerRows
      BY <1>1, <3>1, <3>2 DEF WorkerRows
    <3>4. ~Careful(Task(w))
      BY <2>2, RunnerAssumption DEF Careful
    <3>5. worker'[w].pc = "finish" /\ worker'[w].outcome = "failed"
      BY <1>1, <3>2 DEF At, WorkerRows
    <3>6. worker'[w].task = Task(w) /\ worker'[w].attempt = Attempt(w)
      BY <1>1, <3>2 DEF Task, Attempt, WorkerRows
    <3> QED
      BY <1>1, <2>2, <3>3, <3>4, <3>5, <3>6
  <2> QED
    BY <2>1, <2>2 DEF Finish, FinishRaises
<1>6. Domains'
  BY <1>1, <1>2, <1>5 DEF WriteInv, Domains
<1>7. WorkerRow(w)' /\ Decided(w)'
  <2>1. LET next == attempts'[Task(w)][Attempt(w)]
        IN  next.status \notin {"none", "queued"} /\ next.owner = w
    BY <1>1, <1>4, LedgerStays
  <2>2. Task(w) \in Tasks /\ Attempt(w) \in 1 .. MaxAttempts
    BY <1>1 DEF WriteInv, WorkerRow
  <2> QED
    BY <1>5, <2>1, <2>2 DEF WorkerRow, Decided, At, Task, Attempt
<1> QED
  BY <1>1, <1>4, <1>5, <1>6, <1>7, LedgerStepPreserves

LEMMA InitHolds == Init => WriteInv /\ Ledger!Init
<1> SUFFICES ASSUME Init PROVE WriteInv /\ Ledger!Init
  OBVIOUS
<1>1. revisions = << >> /\ \A t : ~HasReceipt(t)
  BY DEF Init, HasReceipt
<1>2. Ledger!Init
  BY <1>1 DEF Init, Ledger!Init, Ledger!AttemptNumbers
<1>3. Proved!LedgerInv
  BY <1>2, SameInit, LedgerAssumption, Proved!InitLedger
<1>4. Domains
  <2>1. Idle \in WorkerRows
    BY LedgerAssumption DEF Idle, WorkerRows, Ledger!Errors
  <2> QED
    BY <1>1, <2>1, BoundsAssumption DEF Init, Domains, Revisions
<1>5. OneRevisionPerTask /\ RevisionsFormAChain
  BY <1>1 DEF OneRevisionPerTask, RevisionsFormAChain
<1>6. \A w \in Workers : WorkerRow(w) /\ Decided(w)
  BY DEF Init, Idle, WorkerRow, Decided, At
<1>7. \A t \in Tasks : Told(t)
  BY DEF Init, Told
<1> QED
  BY <1>2, <1>3, <1>4, <1>5, <1>6, <1>7 DEF WriteInv

LEMMA NextPreservesWrites == WriteInv /\ [Next]_vars => WriteInv' /\ LedgerStep
<1> SUFFICES ASSUME WriteInv, [Next]_vars PROVE WriteInv' /\ LedgerStep
  OBVIOUS
<1>1. CASE PublishOutside
  BY <1>1, OutsidePreserves
<1>2. ASSUME NEW t \in Tasks,
             \/ Submit(t) \/ RequestCancel(t) \/ \E id \in RetryIds : Retry(t, id)
             \/ \E n \in 1 .. MaxAttempts : LeaseExpires(t, n)
      PROVE  WriteInv' /\ LedgerStep
  BY <1>2, ClientPreserves
<1>3. ASSUME NEW t \in Tasks, NEW w \in Workers, Dispatch(w, t) PROVE WriteInv' /\ LedgerStep
  BY <1>3, DispatchPreserves
<1>4. ASSUME NEW w \in Workers, Step(w) \/ RecheckRaises(w) \/ FinishRaises(w) \/ Detach(w)
      PROVE  WriteInv' /\ LedgerStep
  BY <1>4, BeginPreserves, PublishPreserves, RecoverPreserves, RecheckPreserves, FinishPreserves,
     DetachPreserves DEF Step
<1>5. ASSUME NEW h \in Hubs, Crash(h) PROVE WriteInv' /\ LedgerStep
  BY <1>5, CrashPreserves
<1>6. CASE UNCHANGED vars
  <2>1. LedgerStep
    BY <1>6, SameReceipts DEF vars, LedgerStep, ledgerVars, taskVars, Ledger!vars, Ledger!taskVars
  <2>2. Domains'
    BY <1>6 DEF vars, ledgerVars, taskVars, WriteInv, Domains
  <2> QED
    BY <1>6, <2>1, <2>2, LedgerStepPreserves DEF vars, ledgerVars, taskVars
<1> QED
  BY <1>1, <1>2, <1>3, <1>4, <1>5, <1>6 DEF Next

-----------------------------------------------------------------------------
(* The theorems.                                                           *)

\* The inductive invariant holds of every interleaving of workers, clients,
\* other writers and faults.
THEOREM WriteInvariant == Spec => []WriteInv
BY InitHolds, NextPreservesWrites, PTL DEF Spec

\* Every variable holds values of its domain.
THEOREM WriteTypeCorrect == Spec => []TypeOK
<1>1. ASSUME WriteInv PROVE TypeOK
  <2>1. Ledger!TypeOK
    BY <1>1, SameTypes DEF WriteInv
  <2>2. \A i \in DOMAIN revisions : revisions[i] \in [author : Tasks \cup {Outside}, base : Nat]
    <3>1. ASSUME NEW S, NEW s \in Seq(S) PROVE \A i \in DOMAIN s : s[i] \in S
      OBVIOUS
    <3> QED
      BY <1>1, <3>1 DEF WriteInv, Domains, Revisions
  <2> QED
    BY <1>1, <2>1, <2>2 DEF WriteInv, Domains, WorkerRows, TypeOK
<1> QED
  BY <1>1, WriteInvariant, PTL

\* The workers, with their stalls, crashes and lost responses, and the
\* catalog's publication transaction take only steps that the task ledger
\* allows: DurableWrite implements DurableTask.
THEOREM WorkersUseLedger == Spec => UsesLedger
<1>1. Init => Ledger!Init
  BY InitHolds
<1>2. WriteInv /\ [Next]_vars => [Ledger!Next]_(Ledger!vars)
  BY NextPreservesWrites DEF LedgerStep
<1> QED
  BY <1>1, <1>2, WriteInvariant, PTL DEF Spec, UsesLedger, Ledger!Spec

\* However often a task is retried, recovered or run by two workers at once,
\* its write is published at most once.
THEOREM TasksPublishOnce == Spec => []OneRevisionPerTask
<1>1. WriteInv => OneRevisionPerTask
  BY DEF WriteInv
<1> QED
  BY <1>1, WriteInvariant, PTL

\* Every revision replaces exactly the head its author saw.
THEOREM RevisionsAreAChain == Spec => []RevisionsFormAChain
<1>1. WriteInv => RevisionsFormAChain
  BY DEF WriteInv
<1> QED
  BY <1>1, WriteInvariant, PTL

\* A task reported done has its receipt in the revision ledger.
THEOREM DoneHasItsReceipt == Spec => []DoneHasReceipt
<1>1. WriteInv => DoneHasReceipt
  BY DEF WriteInv, Told, DoneHasReceipt
<1> QED
  BY <1>1, WriteInvariant, PTL

\* Where the publication is fenced and the receipts can be read, a committed
\* write is never reported as failed or cancelled, whatever crashes, lost
\* responses, retries and stalls lie in between.
THEOREM FencedWritesAreReported == Spec => []FencedNeverMisreported
<1>1. WriteInv => FencedNeverMisreported
  BY LedgerAssumption DEF WriteInv, Told, Careful, FencedNeverMisreported
<1> QED
  BY <1>1, WriteInvariant, PTL

-----------------------------------------------------------------------------
(* What is proved of the ledger, for the workers that use it.              *)

LEMMA WorkersImplementLedger == Spec => Proved!Spec
<1>1. Init => Proved!Init
  BY InitHolds, SameInit
<1>2. WriteInv /\ [Next]_vars => [Proved!Next]_(Proved!vars)
  BY NextPreservesWrites, SameSteps DEF LedgerStep
<1> QED
  BY <1>1, <1>2, WriteInvariant, PTL DEF Spec, Proved!Spec

\* Through two mappings: whatever workers stall, crash or lose responses, a
\* submission settles once per round with one notification, is done only with
\* a landed revision, and a landed revision is never taken back.
THEOREM WorkersKeepPromise == Spec => Ledger!KeepsPromise
<1>1. Proved!Spec => Proved!KeepsPromise
  BY LedgerAssumption, Proved!LedgerKeepsPromise
<1> USE DEF Proved!Open, Ledger!Open, Proved!Promise!Rounds, Ledger!Promise!Rounds
<1>2. Proved!Promise!Init => Ledger!Promise!Init
  BY DEF Proved!Promise!Init, Ledger!Promise!Init
<1>3. Proved!Promise!Next => Ledger!Promise!Next
  <2>1. \A t : Proved!Promise!Open(t) => Ledger!Promise!Open(t)
    BY DEF Proved!Promise!Open, Ledger!Promise!Open
  <2>2. \A t : Proved!Promise!Reopen(t) => Ledger!Promise!Reopen(t)
    BY DEF Proved!Promise!Reopen, Ledger!Promise!Reopen
  <2>3. \A t : Proved!Promise!Write(t) => Ledger!Promise!Write(t)
    BY DEF Proved!Promise!Write, Ledger!Promise!Write
  <2>4. \A t, r, how : Proved!Promise!Settle(t, r, how) => Ledger!Promise!Settle(t, r, how)
    BY DEF Proved!Promise!Settle, Ledger!Promise!Settle
  <2> QED
    BY <2>1, <2>2, <2>3, <2>4 DEF Proved!Promise!Next, Ledger!Promise!Next,
       Proved!Promise!Settled, Ledger!Promise!Settled
<1>4. UNCHANGED Proved!Promise!vars => UNCHANGED Ledger!Promise!vars
  BY DEF Proved!Promise!vars, Ledger!Promise!vars
<1>5. [Proved!Promise!Next]_(Proved!Promise!vars) => [Ledger!Promise!Next]_(Ledger!Promise!vars)
  BY <1>3, <1>4
<1> QED
  BY <1>1, <1>2, <1>5, WorkersImplementLedger, PTL DEF Proved!KeepsPromise, Ledger!KeepsPromise,
     Proved!Promise!Spec, Ledger!Promise!Spec

LEMMA SameVars == UNCHANGED Proved!vars => UNCHANGED Ledger!vars
BY DEF Proved!vars, Ledger!vars, Proved!taskVars, Ledger!taskVars

\* A task that settled keeps its outcome under every worker, however late,
\* until its owner retries it.
THEOREM WorkersLeaveOutcomes == Spec => Ledger!OutcomeIsFinal
<1> DEFINE Final(Terminal) ==
             \A t \in Tasks :
                taskStatus[t] \in Terminal /\ taskStatus'[t] # taskStatus[t] =>
                    /\ taskStatus[t] # "done"
                    /\ taskStatus'[t] = "queued"
                    /\ lastAttempt'[t] = lastAttempt[t] + 1
<1>1. Proved!Spec => Proved!OutcomeIsFinal
  BY LedgerAssumption, Proved!OutcomesAreFinal
<1>2. [Final(Proved!Terminal)]_(Proved!vars) => [Final(Ledger!Terminal)]_(Ledger!vars)
  BY SameParts, SameVars
<1> QED
  BY <1>1, <1>2, WorkersImplementLedger, PTL DEF Proved!OutcomeIsFinal, Ledger!OutcomeIsFinal

\* A worker whose attempt was fenced or settled cannot speak again: neither
\* its row nor its notification ever changes.
THEOREM SupersededWorkersAreSilent == Spec => Ledger!SupersededAttemptIsFrozen
<1> DEFINE Frozen(Numbers, Terminal) ==
             \A t \in Tasks, n \in Numbers :
                attempts[t][n].status \in {"fenced"} \cup Terminal =>
                    /\ attempts'[t][n] = attempts[t][n]
                    /\ inbox'[t][n] = inbox[t][n]
<1>1. Proved!Spec => Proved!SupersededAttemptIsFrozen
  BY LedgerAssumption, Proved!SupersededOwnersAreSilent
<1>2. [Frozen(Proved!AttemptNumbers, Proved!Terminal)]_(Proved!vars)
         => [Frozen(Ledger!AttemptNumbers, Ledger!Terminal)]_(Ledger!vars)
  BY SameParts, SameVars DEF Proved!AttemptNumbers, Ledger!AttemptNumbers
<1> QED
  BY <1>1, <1>2, WorkersImplementLedger, PTL
     DEF Proved!SupersededAttemptIsFrozen, Ledger!SupersededAttemptIsFrozen

\* A cancellation is not lost to a worker that crashes, stalls or hands over:
\* it stands until the task settles, and no new attempt starts under it.
THEOREM WorkersKeepCancellation == Spec => Ledger!CancelSticks
<1> DEFINE Sticks(Numbers, Open) ==
             \A t \in Tasks :
                cancelRequested[t] /\ taskStatus[t] \in Open =>
                    /\ taskStatus'[t] \in Open => cancelRequested'[t]
                    /\ \A n \in Numbers :
                          attempts'[t][n].status = "running" =>
                              attempts[t][n].status = "running"
<1>1. Proved!Spec => Proved!CancelSticks
  BY LedgerAssumption, Proved!CancelIsNeverLost
<1>2. [Sticks(Proved!AttemptNumbers, Proved!Open)]_(Proved!vars)
         => [Sticks(Ledger!AttemptNumbers, Ledger!Open)]_(Ledger!vars)
  BY SameVars DEF Proved!AttemptNumbers, Ledger!AttemptNumbers, Proved!Open, Ledger!Open
<1> QED
  BY <1>1, <1>2, WorkersImplementLedger, PTL DEF Proved!CancelSticks, Ledger!CancelSticks
=============================================================================
