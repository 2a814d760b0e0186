----------------------------- MODULE DurableWrite -----------------------------
(***************************************************************************)
(* Durable tasks that publish one managed-local revision each: the workers *)
(* of hub/keyed_upsert_tasks.py, restore_revision_tasks.py,                *)
(* merge_columns_tasks.py and durable_tasks.py, composed with the task     *)
(* ledger (DurableTask) and the revision ledger of one destination.        *)
(*                                                                         *)
(* A worker is one call of _worker.  Each of its metadata transactions is  *)
(* one action, so it may stall between any two of them for longer than its *)
(* lease.  Hubs are hub processes that share the database; a hub dispatches*)
(* a task only while it has no live worker of its own for it.  A runner    *)
(* task (managed_local_write) executes in a second thread: when its        *)
(* supervisor loses the lease it walks away and the thread runs on,        *)
(* detached.                                                               *)
(***************************************************************************)
EXTENDS Integers, Sequences, FiniteSets

CONSTANTS
    Tasks, RetryIds, MaxAttempts, FencedTasks, StaleFinal, NoOwner, NoRetry,
    Workers,      \* executions of _worker that may run at the same time
    Hubs,         \* hub processes sharing the database
    HubOf,        \* the hub each worker runs in
    RunnerTasks,  \* managed_local_write tasks
    Outside,      \* the author of every revision that no task writes
    Unreadable,   \* tasks of which a read of the receipt may fail
    MaxSubmitted, \* bound: how many of the tasks are submitted
    MaxOutside,   \* bound: how many revisions others publish
    MaxFaults,    \* bound: hub crashes, lost responses and failed reads
    Faults        \* which of "crash", "response" and "read" happen

ASSUME LedgerAssumption ==
    /\ MaxAttempts \in Nat \ {0}
    /\ FencedTasks \subseteq Tasks /\ StaleFinal \subseteq Tasks
    /\ NoOwner \notin Workers /\ NoRetry \notin RetryIds
ASSUME WorkersAssumption == HubOf \in [Workers -> Hubs]
ASSUME RunnerAssumption == RunnerTasks \subseteq Tasks /\ RunnerTasks \cap FencedTasks = {}
ASSUME BoundsAssumption == MaxSubmitted \in Nat /\ MaxOutside \in Nat /\ MaxFaults \in Nat
ASSUME OutsideAssumption == Outside \notin Tasks

VARIABLES
    taskStatus, cancelRequested, retryCount, taskError, lastAttempt,
    attempts, inbox,     \* the task ledger, see DurableTask
    revisions,           \* the destination's revisions in publication order
    expectedHead,        \* the head each task's write intent was built on
    worker,              \* the control state of each worker
    faults               \* how many faults happened

taskVars == <<taskStatus, cancelRequested, retryCount, taskError, lastAttempt>>
ledgerVars == <<taskVars, attempts, inbox>>
vars == <<ledgerVars, revisions, expectedHead, worker, faults>>

\* A revision carries the receipt of its author's idempotency key.
HasReceipt(t) == \E i \in DOMAIN revisions : revisions[i].author = t
CurrentHead == Len(revisions)

Ledger == INSTANCE DurableTask WITH
    Owners <- Workers,
    landed <- {t \in Tasks : HasReceipt(t)}

Idle ==
    [pc |-> "idle", task |-> NoOwner, attempt |-> 0, attached |-> TRUE,
     outcome |-> "none", error |-> "none"]

Init ==
    /\ taskStatus = [t \in Tasks |-> "absent"]
    /\ cancelRequested = [t \in Tasks |-> FALSE]
    /\ retryCount = [t \in Tasks |-> 0]
    /\ taskError = [t \in Tasks |-> "none"]
    /\ lastAttempt = [t \in Tasks |-> 0]
    /\ attempts = [t \in Tasks |-> [n \in 1 .. MaxAttempts |-> Ledger!NoAttempt]]
    /\ inbox = [t \in Tasks |-> [n \in 1 .. MaxAttempts |-> "none"]]
    /\ revisions = << >>
    /\ expectedHead = [t \in Tasks |-> 0]
    /\ worker = [w \in Workers |-> Idle]
    /\ faults = 0

-----------------------------------------------------------------------------
(* The control state of a worker.                                          *)

At(w, pc) == worker[w].pc = pc
Task(w) == worker[w].task
Attempt(w) == worker[w].attempt

GoTo(w, pc) == worker' = [worker EXCEPT ![w].pc = pc]
Raise(w, pc, error) == worker' = [worker EXCEPT ![w].pc = pc, ![w].error = error]
Settle(w, outcome) == worker' = [worker EXCEPT ![w].pc = "finish", ![w].outcome = outcome]
Publishes(w) ==
    worker' = [worker EXCEPT ![w].pc = "finish", ![w].outcome = "done", ![w].error = "none"]
Leave(w) == worker' = [worker EXCEPT ![w] = Idle]

OwnsLease(w) == Ledger!Owns(Task(w), Attempt(w), w)
ShouldStop(w) == Ledger!ShouldStop(Task(w), Attempt(w), w)

\* A fault of the given kind, while the bound on faults allows one more.
Fault(kind) ==
    /\ kind \in Faults
    /\ faults < MaxFaults
    /\ faults' = faults + 1

-----------------------------------------------------------------------------
(* Clients.                                                                *)

\* The write intent names the head its author saw, now or some time ago.
Submit(t) ==
    /\ UNCHANGED <<revisions, worker, faults>>
    /\ Cardinality({u \in Tasks : taskStatus[u] # "absent"}) < MaxSubmitted
    /\ Ledger!Submit(t)
    /\ \E head \in 0 .. CurrentHead : expectedHead' = [expectedHead EXCEPT ![t] = head]

RequestCancel(t) ==
    /\ UNCHANGED <<revisions, expectedHead, worker, faults>>
    /\ Ledger!RequestCancel(t)

Retry(t, id) ==
    /\ UNCHANGED <<revisions, expectedHead, worker, faults>>
    /\ Ledger!Retry(t, id)

\* Another writer moves the destination's head.
PublishOutside ==
    /\ Cardinality({i \in DOMAIN revisions : revisions[i].author = Outside}) < MaxOutside
    /\ revisions' = Append(revisions, [author |-> Outside, base |-> CurrentHead])
    /\ UNCHANGED <<ledgerVars, expectedHead, worker, faults>>

LeaseExpires(t, n) ==
    /\ UNCHANGED <<revisions, expectedHead, worker, faults>>
    /\ Ledger!LeaseExpires(t, n)

-----------------------------------------------------------------------------
(* Workers.                                                                *)

\* The hub has no live worker for the task, so it starts one, whose claim
\* either settles the task or makes the worker its owner.
Dispatch(w, t) ==
    /\ UNCHANGED <<revisions, expectedHead, faults>>
    /\ At(w, "idle")
    /\ \A v \in Workers : HubOf[v] = HubOf[w] /\ Task(v) = t => ~worker[v].attached
    /\ \/ /\ \/ Ledger!ClaimReconciles(t)
             \/ Ledger!ClaimExhausts(t)
             \/ Ledger!ClaimCancels(t)
          /\ UNCHANGED worker
       \/ /\ Ledger!ClaimRuns(t, w)
          /\ worker' = [worker EXCEPT ![w] =
                [Idle EXCEPT !.pc = IF t \in RunnerTasks THEN "admit" ELSE "begin",
                             !.task = t, !.attempt = lastAttempt'[t]]]

\* The first heartbeat after the claim.
Begin(w) ==
    /\ At(w, "begin")
    /\ IF ShouldStop(w) THEN Raise(w, "failing", "other") ELSE GoTo(w, "admit")
    /\ UNCHANGED <<ledgerVars, revisions, expectedHead, faults>>

\* A prior receipt answers the task; otherwise the write is admitted only
\* while its expected head is the destination's head.
Admit(w) ==
    /\ At(w, "admit")
    /\ \/ HasReceipt(Task(w)) /\ Settle(w, "done")
       \/ /\ ~HasReceipt(Task(w))
          /\ expectedHead[Task(w)] # CurrentHead
          /\ Raise(w, "failing", "stale_expected_head")
       \/ /\ ~HasReceipt(Task(w))
          /\ expectedHead[Task(w)] = CurrentHead
          /\ GoTo(w, "write")
    /\ UNCHANGED <<ledgerVars, revisions, expectedHead, faults>>

\* The artifact is staged, or writing it fails; then before_publish makes a
\* last check of lease and cancel.
WriteArtifact(w) ==
    /\ At(w, "write")
    /\ \/ ~ShouldStop(w) /\ GoTo(w, "publish")
       \/ Raise(w, "failing", "other")
    /\ UNCHANGED <<ledgerVars, revisions, expectedHead, faults>>

\* Mutant: publication does not look at the task rows.
NeverRefused(w) == FALSE

\* What the publication transaction answers, each in one transaction with
\* the checks that lead to it.
PublicationRefused(w) ==
    /\ Task(w) \in FencedTasks
    /\ ~Ledger!HoldsPublicationFence(Task(w), Attempt(w), w)

PublicationReplayed(w) == ~PublicationRefused(w) /\ HasReceipt(Task(w))

PublicationStale(w) ==
    /\ ~PublicationRefused(w)
    /\ ~HasReceipt(Task(w))
    /\ expectedHead[Task(w)] # CurrentHead

\* Mutant: publication relies on the checks made at admission.
CommitsUnchecked(w) == ~PublicationRefused(w)

\* Mutant: publication does not compare the expected head.
CommitsOverMovedHead(w) == ~PublicationRefused(w) /\ ~HasReceipt(Task(w))

PublicationCommits(w) ==
    /\ ~PublicationRefused(w)
    /\ ~HasReceipt(Task(w))
    /\ expectedHead[Task(w)] = CurrentHead

Publish(w) ==
    /\ At(w, "publish")
    /\ \/ /\ PublicationRefused(w)
          /\ Raise(w, "recover", "other")
          /\ UNCHANGED <<revisions, faults>>
       \/ /\ PublicationStale(w)
          /\ Raise(w, "recover", "stale_expected_head")
          /\ UNCHANGED <<revisions, faults>>
       \/ /\ PublicationReplayed(w)
          /\ Settle(w, "done")
          /\ UNCHANGED <<revisions, faults>>
       \/ /\ PublicationCommits(w)
          /\ revisions' = Append(revisions,
                             [author |-> Task(w), base |-> expectedHead[Task(w)]])
          /\ \/ Settle(w, "done") /\ UNCHANGED faults
             \/ Raise(w, "recover", "other") /\ Fault("response")
    /\ UNCHANGED <<ledgerVars, expectedHead>>

\* Mutant: an exception from publication is taken for a lost response.
RecoverUnseen(w) ==
    /\ At(w, "recover")
    /\ Settle(w, "done")
    /\ UNCHANGED <<ledgerVars, revisions, expectedHead, faults>>

\* After an exception from publication the receipt tells a committed write
\* from a rolled-back one.
Recover(w) ==
    /\ At(w, "recover")
    /\ \/ HasReceipt(Task(w)) /\ Publishes(w) /\ UNCHANGED faults
       \/ ~HasReceipt(Task(w)) /\ GoTo(w, "failing") /\ UNCHANGED faults
       \/ Task(w) \in Unreadable /\ GoTo(w, "failing") /\ Fault("read")
    /\ UNCHANGED <<ledgerVars, revisions, expectedHead>>

\* A worker that published looks for the receipt again if it is to stop by
\* now; the runner of a managed_local_write does not.
RecheckRaises(w) ==
    /\ At(w, "finish")
    /\ worker[w].outcome = "done" /\ worker[w].error = "none"
    /\ Task(w) \in Unreadable \ RunnerTasks
    /\ ShouldStop(w)
    /\ Fault("read")
    /\ Raise(w, "failing", "other")
    /\ UNCHANGED <<ledgerVars, revisions, expectedHead>>

\* The outcome of a worker whose attempt raised.  A runner does not look for
\* a receipt again, and may fail before it notices that it is to stop.
SettleFailure(w) ==
    Settle(w, IF ShouldStop(w) THEN "cancelled" ELSE "failed")

Fail(w) ==
    /\ At(w, "failing")
    /\ \/ /\ Task(w) \in RunnerTasks
          /\ SettleFailure(w) \/ Settle(w, "failed")
          /\ UNCHANGED faults
       \/ /\ Task(w) \notin RunnerTasks
          /\ \/ HasReceipt(Task(w)) /\ Settle(w, "done") /\ UNCHANGED faults
             \/ ~HasReceipt(Task(w)) /\ SettleFailure(w) /\ UNCHANGED faults
             \/ Task(w) \in Unreadable /\ SettleFailure(w) /\ Fault("read")
    /\ UNCHANGED <<ledgerVars, revisions, expectedHead>>

\* Only a status that failed carries its error.
FinishError(w) == IF worker[w].outcome = "failed" THEN worker[w].error ELSE "none"

\* finish_durable_task_attempt settles the task, or finds that the worker
\* no longer owns it; the worker ends either way.  A detached runner thread
\* has nobody left to call it.
Finish(w) ==
    /\ UNCHANGED <<revisions, expectedHead, faults>>
    /\ At(w, "finish")
    /\ \/ /\ worker[w].attached
          /\ Ledger!Finish(Task(w), Attempt(w), w, worker[w].outcome, FinishError(w))
       \/ /\ ~(/\ worker[w].attached
               /\ taskStatus[Task(w)] \notin Ledger!Terminal
               /\ OwnsLease(w))
          /\ UNCHANGED ledgerVars
    /\ Leave(w)

\* The finish raises, before or after its commit; the worker's exception
\* path then works out an outcome anew, which for a runner is failure.
FinishRaises(w) ==
    /\ UNCHANGED <<revisions, expectedHead>>
    /\ At(w, "finish")
    /\ worker[w].attached
    /\ Fault("response")
    /\ \/ Ledger!Finish(Task(w), Attempt(w), w, worker[w].outcome, FinishError(w))
       \/ UNCHANGED ledgerVars
    /\ IF Task(w) \in RunnerTasks
       THEN worker' = [worker EXCEPT ![w].outcome = "failed", ![w].error = "other"]
       ELSE Raise(w, "failing", "other")

\* The supervisor of a runner finds its lease gone and leaves its thread
\* behind.
Detach(w) ==
    /\ Task(w) \in RunnerTasks
    /\ worker[w].attached
    /\ worker[w].pc \in {"admit", "write", "publish", "recover", "failing"}
    /\ ~OwnsLease(w)
    /\ worker' = [worker EXCEPT ![w].attached = FALSE]
    /\ UNCHANGED <<ledgerVars, revisions, expectedHead, faults>>

\* A hub process dies and restarts: its threads are gone.
Crash(h) ==
    /\ Fault("crash")
    /\ \E w \in Workers : HubOf[w] = h /\ ~At(w, "idle")
    /\ worker' = [w \in Workers |-> IF HubOf[w] = h THEN Idle ELSE worker[w]]
    /\ UNCHANGED <<ledgerVars, revisions, expectedHead>>

-----------------------------------------------------------------------------

Step(w) ==
    \/ Begin(w)
    \/ Admit(w)
    \/ WriteArtifact(w)
    \/ Publish(w)
    \/ Recover(w)
    \/ Fail(w)
    \/ Finish(w)

Next ==
    \/ PublishOutside
    \/ \E t \in Tasks :
          \/ Submit(t)
          \/ RequestCancel(t)
          \/ \E id \in RetryIds : Retry(t, id)
          \/ \E n \in 1 .. MaxAttempts : LeaseExpires(t, n)
          \/ \E w \in Workers : Dispatch(w, t)
    \/ \E w \in Workers : Step(w) \/ RecheckRaises(w) \/ FinishRaises(w) \/ Detach(w)
    \/ \E h \in Hubs : Crash(h)

\* Threads are scheduled, time passes, and the recovery loop of some hub
\* comes round again to every task whose last attempt is queued or expired.
Fairness ==
    /\ \A w \in Workers : WF_vars(Step(w))
    /\ \A t \in Tasks :
          /\ WF_vars(\E w \in Workers : Dispatch(w, t))
          /\ WF_vars(\E n \in 1 .. MaxAttempts : LeaseExpires(t, n))

Spec == Init /\ [][Next]_vars
FairSpec == Spec /\ Fairness

-----------------------------------------------------------------------------
(* Properties.                                                             *)

\* Every variable holds values of its domain.
TypeOK ==
    /\ Ledger!TypeOK
    /\ \A i \in DOMAIN revisions :
          revisions[i] \in [author : Tasks \cup {Outside}, base : Nat]
    /\ expectedHead \in [Tasks -> Nat]
    /\ worker \in [Workers ->
          [pc : {"idle", "begin", "admit", "write", "publish", "recover",
                 "failing", "finish"},
           task : Tasks \cup {NoOwner},
           attempt : 0 .. MaxAttempts,
           attached : BOOLEAN,
           outcome : {"none"} \cup Ledger!Terminal,
           error : Ledger!Errors]]
    /\ faults \in 0 .. MaxFaults

\* However often a task is retried, recovered or run by two owners at once,
\* and whatever response is lost, its write is published at most once.
OneRevisionPerTask ==
    \A i, j \in DOMAIN revisions :
        revisions[i].author = revisions[j].author /\ revisions[i].author # Outside
        => i = j

\* Every revision replaces exactly the head its author saw: a destination
\* that moved stops the publication, and no revision is lost under another.
RevisionsFormAChain ==
    \A i \in DOMAIN revisions : revisions[i].base = i - 1

\* A task reported done has its receipt in the revision ledger.
DoneHasReceipt ==
    \A t \in Tasks : taskStatus[t] = "done" => HasReceipt(t)

\* Recovery, cancel or attempt exhaustion never misreports a committed write
\* as failed or cancelled, where the publication re-checks the task's fence
\* and whoever fails the task can read its receipts.
FencedNeverMisreported ==
    \A t \in FencedTasks \ Unreadable :
        taskStatus[t] \in {"failed", "cancelled"} => ~HasReceipt(t)

\* The workers and the catalog use the task ledger only as DurableTask
\* says: its theorems hold here.
UsesLedger == Ledger!Spec

\* A submitted task settles, and settles again after each retry: no crash,
\* expiry or lost response leaves it open for ever.
EveryTaskSettles ==
    \A t \in Tasks :
        taskStatus[t] \in Ledger!Open ~> taskStatus[t] \in Ledger!Terminal

\* A fenced write that committed is eventually reported as such.
CommittedIsReported ==
    \A t \in FencedTasks \ Unreadable : HasReceipt(t) ~> taskStatus[t] = "done"
=============================================================================
