-------------------------- MODULE LinearCheckpoint --------------------------
(***************************************************************************)
(* A linear checkpoint task: the rows of its first phase are saved as a    *)
(* hidden managed local file, and any later attempt publishes from that    *)
(* file instead of computing them again (hub/linear_checkpoint.py,         *)
(* linear_checkpoint_tasks.py, the checkpoint transactions of metadb.py    *)
(* and the checkpoint files of storage.py).                                *)
(*                                                                         *)
(* One task on the ledger of DurableTask.  Every claim opens an attempt of *)
(* its own and an attempt's worker runs once, so attempt, worker and the   *)
(* generation of the file it may reserve are the same number.  A worker    *)
(* may stall between any two of its steps for longer than its lease.       *)
(*                                                                         *)
(* A generation's lock file is created once and never again, so the inode  *)
(* under its name is the one its holders hold, and an exclusive lock is    *)
(* taken and let go within one action: what it excludes in between is the  *)
(* worker that finds the file locked, at CreateLock's and OpenLock's       *)
(* refusals.  The transactions re-derive the candidate from all its rows   *)
(* and raise when they disagree; AuthorityAgrees says they never do.       *)
(***************************************************************************)
EXTENDS Integers, FiniteSets

CONSTANTS
    Task,         \* the task
    RetryIds,     \* client-chosen retry request identities
    MaxAttempts,  \* DurableTask.max_attempts
    NoOwner, NoRetry,
    MaxFaults     \* bound: crashes, lost responses and failed reads

Generations == 1 .. MaxAttempts

ASSUME AttemptsAssumption == MaxAttempts \in Nat \ {0}
ASSUME NullsAssumption == NoOwner \notin Generations /\ NoRetry \notin RetryIds
ASSUME FaultsAssumption == MaxFaults \in Nat

VARIABLES
    taskStatus, cancelRequested, retryCount, taskError, lastAttempt,
    attempts, inbox, landed,  \* the task ledger, see DurableTask
    checkpoint,   \* the DurableCheckpoint row
    row,          \* the artifact row of each generation
    leases,       \* the read leases on it
    data,         \* its bytes: "none", "partial" or "whole"
    lockFile,     \* the name of its lock file: "none", "empty" or "valid"
    worker,       \* the control state of each attempt's worker
    unlocked,     \* generations some reaper found without a lock file
    faults

ledgerVars == <<taskStatus, cancelRequested, retryCount, taskError,
                lastAttempt, attempts, inbox, landed>>
fileVars == <<data, lockFile>>
rowVars == <<row, leases>>
vars == <<ledgerVars, checkpoint, rowVars, fileVars, worker, unlocked, faults>>

Ledger == INSTANCE DurableTask WITH
    Tasks <- {Task}, Owners <- Generations, FencedTasks <- {}, StaleFinal <- {},
    Unreadable <- {Task}

\* writer: the writer pair is set; owner: the checkpoint's reference exists.
NoRow == [state |-> "none", writer |-> FALSE, owner |-> FALSE]

\* bound: the inode of the candidate is on record.
NoCandidate == [phase |-> "pending", gen |-> 0, bound |-> FALSE]

Init ==
    /\ Ledger!Init
    /\ checkpoint = NoCandidate
    /\ row = [g \in Generations |-> NoRow]
    /\ leases = [g \in Generations |-> {}]
    /\ data = [g \in Generations |-> "none"]
    /\ lockFile = [g \in Generations |-> "none"]
    /\ worker = [n \in Generations |-> [pc |-> "idle", gen |-> n, outcome |-> "none"]]
    /\ unlocked = {}
    /\ faults = 0

-----------------------------------------------------------------------------
(* Workers, rows and locks.                                                *)

At(n, pc) == worker[n].pc = pc
GoTo(n, pc) == worker' = [worker EXCEPT ![n].pc = pc]
GoWith(n, pc, g) == worker' = [worker EXCEPT ![n].pc = pc, ![n].gen = g]
Settle(n, pc, outcome) == worker' = [worker EXCEPT ![n].pc = pc, ![n].outcome = outcome]

\* Where a worker holds the lock of its generation shared: as its writer, or
\* as a reader of the committed one.
Writing == {"file", "bind", "write", "commit", "refused", "unsure"}
Reading == {"copy", "land", "close"}
Holders(g) == {n \in Generations : worker[n].gen = g /\ worker[n].pc \in Writing \cup Reading \cup {"acquire"}}

\* LOCK_EX | LOCK_NB on the lock file, if it names an inode with its token.
CanExclude(g) == lockFile[g] = "valid" /\ Holders(g) = {}

\* The attempt is the latest, runs, and its lease has not lapsed; with the
\* canvas its rows are gone.
Current(n) ==
    /\ checkpoint.phase # "gone"
    /\ taskStatus[Task] = "running"
    /\ n = lastAttempt[Task]
    /\ Ledger!Owns(Task, n, n)

ShouldStop(n) == checkpoint.phase = "gone" \/ Ledger!ShouldStop(Task, n, n)
Landed == Task \in landed

\* A durable_checkpoints.candidate_uri binding is a reclaim reference.
Bound(g) == checkpoint.phase \in {"reserved", "committed"} /\ checkpoint.gen = g

Candidate(g) == checkpoint.phase = "reserved" /\ checkpoint.gen = g

\* The binding is cleared and the artifact marked for deletion.
Detach(g) ==
    /\ checkpoint' = NoCandidate
    /\ row' = [row EXCEPT ![g].state = "deleting", ![g].writer = FALSE]

Fault == faults < MaxFaults /\ faults' = faults + 1

-----------------------------------------------------------------------------
(* Deleting a generation: _delete_claimed_result, by the reaper or by the  *)
(* worker that retired or aborted it.                                      *)

\* Bytes, row and lock go while the lock is held exclusively.
DeleteLocked(g) ==
    /\ row[g].state = "deleting"
    /\ CanExclude(g)
    /\ row' = [row EXCEPT ![g] = NoRow]
    /\ data' = [data EXCEPT ![g] = "none"]
    /\ lockFile' = [lockFile EXCEPT ![g] = "none"]

\* Bytes and row of a generation that had no lock file a moment ago.
DeleteUnlocked(g) ==
    /\ IF row[g].state = "deleting"
       THEN /\ row' = [row EXCEPT ![g] = NoRow]
            /\ data' = [data EXCEPT ![g] = "none"]
       ELSE UNCHANGED <<row, data>>
    /\ UNCHANGED lockFile

-----------------------------------------------------------------------------
(* Clients of the task and of its canvas.                                  *)

Submit ==
    /\ UNCHANGED <<checkpoint, rowVars, fileVars, worker, unlocked, faults>>
    /\ Ledger!Submit(Task)

RequestCancel ==
    /\ UNCHANGED <<checkpoint, rowVars, fileVars, worker, unlocked, faults>>
    /\ checkpoint.phase # "gone"
    /\ Ledger!RequestCancel(Task)

Retry(id) ==
    /\ UNCHANGED <<checkpoint, rowVars, fileVars, worker, unlocked, faults>>
    /\ checkpoint.phase # "gone"
    /\ Ledger!Retry(Task, id)

LeaseExpires(n) ==
    /\ UNCHANGED <<checkpoint, rowVars, fileVars, worker, unlocked, faults>>
    /\ Ledger!LeaseExpires(Task, n)

\* The canvas of a settled task is deleted, and its rows with it: committed
\* truth loses its owner, an uncommitted candidate is retired.
DeleteCanvas ==
    /\ checkpoint.phase # "gone"
    /\ taskStatus[Task] \in Ledger!Terminal
    /\ checkpoint' = [NoCandidate EXCEPT !.phase = "gone"]
    /\ row' = CASE checkpoint.phase = "committed" ->
                      [row EXCEPT ![checkpoint.gen].owner = FALSE]
                [] checkpoint.phase = "reserved" ->
                      [row EXCEPT ![checkpoint.gen].state = "deleting",
                                  ![checkpoint.gen].writer = FALSE]
                [] OTHER -> row
    /\ UNCHANGED <<ledgerVars, leases, fileVars, worker, unlocked, faults>>

-----------------------------------------------------------------------------
(* _worker: claim, recovery and reservation.                               *)

\* A worker's claim that settles the task ends the worker with it.
DispatchSettles ==
    /\ UNCHANGED <<checkpoint, rowVars, fileVars, worker, unlocked, faults>>
    /\ checkpoint.phase # "gone"
    /\ \/ Ledger!ClaimReconciles(Task)
       \/ Ledger!ClaimExhausts(Task)
       \/ Ledger!ClaimCancels(Task)

\* Any other gives it the new attempt.
Dispatch(n) ==
    /\ UNCHANGED <<checkpoint, rowVars, fileVars, unlocked, faults>>
    /\ checkpoint.phase # "gone"
    /\ At(n, "idle")
    /\ Ledger!ClaimRuns(Task, n)
    /\ n = lastAttempt'[Task]
    /\ GoTo(n, "recover")

\* Mutant: whatever another attempt produced is retired, committed or not.
RecoverRetiresCommitted(n) ==
    /\ At(n, "recover")
    /\ \/ /\ ~Current(n)
          /\ GoTo(n, "failing")
          /\ UNCHANGED <<checkpoint, row>>
       \/ /\ Current(n)
          /\ checkpoint.phase = "pending"
          /\ GoTo(n, "reserve")
          /\ UNCHANGED <<checkpoint, row>>
       \/ /\ Current(n)
          /\ checkpoint.phase # "pending"
          /\ Detach(checkpoint.gen)
          /\ GoWith(n, "discard", checkpoint.gen)
    /\ UNCHANGED <<ledgerVars, leases, fileVars, unlocked, faults>>

\* Committed truth is read back by whoever asks.  An owner goes on to
\* reserve, after it has retired what a fenced attempt left behind.
Recover(n) ==
    /\ At(n, "recover")
    /\ \/ /\ checkpoint.phase = "committed"
          /\ GoTo(n, "committed")
          /\ UNCHANGED <<checkpoint, row>>
       \/ /\ checkpoint.phase # "committed"
          /\ ~Current(n)
          /\ GoTo(n, "failing")
          /\ UNCHANGED <<checkpoint, row>>
       \/ /\ checkpoint.phase = "pending"
          /\ Current(n)
          /\ GoTo(n, "reserve")
          /\ UNCHANGED <<checkpoint, row>>
       \/ /\ checkpoint.phase = "reserved"
          /\ Current(n)
          /\ Detach(checkpoint.gen)
          /\ GoWith(n, "discard", checkpoint.gen)
    /\ UNCHANGED <<ledgerVars, leases, fileVars, unlocked, faults>>

\* Its own generation is discarded by an abort, which ends the attempt.
Discarded(n) ==
    worker' = [worker EXCEPT ![n] =
        IF @.gen = n THEN [pc |-> "finish", gen |-> n, outcome |-> "cancelled"]
        ELSE [pc |-> "reserve", gen |-> n, outcome |-> "none"]]

\* The file of the candidate is deleted at once if that works; a failure is
\* suppressed and left to the reaper.  If the row is gone so must its bytes
\* be, and what is left of the lock goes too.
Discard(n) ==
    /\ At(n, "discard")
    /\ LET g == worker[n].gen IN
          \/ DeleteLocked(g) /\ Discarded(n)
          \/ lockFile[g] = "none" /\ GoTo(n, "discardUnlocked") /\ UNCHANGED <<row, fileVars>>
          \/ lockFile[g] # "none" /\ ~CanExclude(g) /\ Discarded(n) /\ UNCHANGED <<row, fileVars>>
          \/ /\ row[g].state = "none" /\ CanExclude(g)
             /\ lockFile' = [lockFile EXCEPT ![g] = IF data[g] = "none" THEN "none" ELSE @]
             /\ Discarded(n) /\ UNCHANGED <<row, data>>
    /\ UNCHANGED <<ledgerVars, checkpoint, leases, unlocked, faults>>

DiscardUnlocked(n) ==
    /\ At(n, "discardUnlocked")
    /\ DeleteUnlocked(worker[n].gen)
    /\ Discarded(n)
    /\ UNCHANGED <<ledgerVars, checkpoint, leases, unlocked, faults>>

\* Row and binding are made in one transaction, by an owner that nobody
\* asked to stop: one asked before it looks is cancelled, one asked later is
\* refused.  A lost response is not looked into by this attempt.
Reserve(n) ==
    /\ At(n, "reserve")
    /\ \/ /\ ShouldStop(n)
          /\ Settle(n, "finish", "cancelled")
          /\ UNCHANGED <<checkpoint, row, faults>>
       \/ /\ ~Current(n) \/ ShouldStop(n)
          /\ GoTo(n, "failing")
          /\ UNCHANGED <<checkpoint, row, faults>>
       \/ /\ Current(n)
          /\ ~ShouldStop(n)
          /\ checkpoint.phase = "pending"
          /\ checkpoint' = [phase |-> "reserved", gen |-> n, bound |-> FALSE]
          /\ row' = [row EXCEPT ![n] = [state |-> "writing", writer |-> TRUE, owner |-> FALSE]]
          /\ \/ GoTo(n, "prefix") /\ UNCHANGED faults
             \/ GoTo(n, "failing") /\ Fault
    /\ UNCHANGED <<ledgerVars, leases, fileVars, unlocked>>

\* The prefix runs and its result is copied; a failure leaves the
\* reservation to the next attempt, a cancellation aborts it.
RunPrefix(n) ==
    /\ At(n, "prefix")
    /\ \/ ~ShouldStop(n) /\ GoTo(n, "create")
       \/ GoTo(n, "failing")
       \/ ShouldStop(n) /\ GoTo(n, "abort")
    /\ UNCHANGED <<ledgerVars, checkpoint, rowVars, fileVars, unlocked, faults>>

-----------------------------------------------------------------------------
(* materialize_and_commit_checkpoint.                                      *)

\* The lock file, empty at first; nobody looks at the lease here.
CreateLock(n) ==
    /\ At(n, "create")
    /\ lockFile' = [lockFile EXCEPT ![n] = "empty"]
    /\ GoTo(n, "fence")
    /\ UNCHANGED <<ledgerVars, checkpoint, rowVars, data, unlocked, faults>>

\* The lock is shared and its token written, to the inode, which a sweep may
\* have unlinked; or a sweep holds it just then, and the empty file stays.
FenceLock(n) ==
    /\ At(n, "fence")
    /\ \/ /\ GoTo(n, "file")
          /\ lockFile' = [lockFile EXCEPT ![n] = IF @ = "empty" THEN "valid" ELSE @]
       \/ GoTo(n, "failing") /\ UNCHANGED lockFile
    /\ UNCHANGED <<ledgerVars, checkpoint, rowVars, data, unlocked, faults>>

\* The file is created, or both are removed again.
CreateFile(n) ==
    /\ At(n, "file")
    /\ \/ /\ GoTo(n, "bind")
          /\ data' = [data EXCEPT ![n] = "partial"]
          /\ UNCHANGED lockFile
       \/ /\ GoTo(n, "failing")
          /\ lockFile' = [lockFile EXCEPT ![n] = "none"]
          /\ UNCHANGED data
    /\ UNCHANGED <<ledgerVars, checkpoint, rowVars, unlocked, faults>>

\* The inode is put on record before any byte is written.
Bind(n) ==
    /\ At(n, "bind")
    /\ \/ /\ ~(Current(n) /\ Candidate(n))
          /\ GoTo(n, "refused")
          /\ UNCHANGED <<checkpoint, faults>>
       \/ /\ Current(n)
          /\ Candidate(n)
          /\ checkpoint' = [checkpoint EXCEPT !.bound = TRUE]
          /\ \/ GoTo(n, "write") /\ UNCHANGED faults
             \/ GoTo(n, "unsure") /\ Fault
    /\ UNCHANGED <<ledgerVars, rowVars, fileVars, unlocked>>

\* Bytes are written, synced and proved from the held descriptor; it fails
\* if the name was unlinked meanwhile, with a RuntimeError or another one.
WriteAndProve(n) ==
    /\ At(n, "write")
    /\ \/ /\ data[n] = "partial"
          /\ data' = [data EXCEPT ![n] = "whole"]
          /\ GoTo(n, "commit")
       \/ GoTo(n, "unsure") /\ UNCHANGED data
       \/ GoTo(n, "refused") /\ UNCHANGED data
    /\ UNCHANGED <<ledgerVars, checkpoint, rowVars, lockFile, unlocked, faults>>

CommitAdmitted(n) == Current(n) /\ ~cancelRequested[Task] /\ Candidate(n)

\* Evidence, owner reference and ready row in one transaction.
Commit(n) ==
    /\ At(n, "commit")
    /\ \/ /\ ~CommitAdmitted(n)
          /\ GoTo(n, "refused")
          /\ UNCHANGED <<checkpoint, row, faults>>
       \/ /\ CommitAdmitted(n)
          /\ checkpoint' = [checkpoint EXCEPT !.phase = "committed"]
          /\ row' = [row EXCEPT ![n] = [state |-> "ready", writer |-> FALSE, owner |-> TRUE]]
          /\ \/ GoTo(n, "committed") /\ UNCHANGED faults
             \/ GoTo(n, "unsure") /\ Fault
    /\ UNCHANGED <<ledgerVars, leases, fileVars, unlocked>>

\* A refusal (RuntimeError) of an attempt that should stop aborts the
\* candidate; a lost response, or another error, fails the attempt.
AfterFailure(n) ==
    GoTo(n, IF At(n, "refused") /\ ShouldStop(n) THEN "abort" ELSE "failing")

\* Mutant: a readback that fails is taken for "not committed".
ReconcileGuesses(n) ==
    /\ worker[n].pc \in {"refused", "unsure"}
    /\ \/ checkpoint.phase = "committed" /\ UNCHANGED <<fileVars, faults>>
       \/ /\ checkpoint.phase # "committed" /\ UNCHANGED faults
          /\ data' = [data EXCEPT ![n] = "none"]
          /\ lockFile' = [lockFile EXCEPT ![n] = "none"]
       \/ /\ Fault
          /\ data' = [data EXCEPT ![n] = "none"]
          /\ lockFile' = [lockFile EXCEPT ![n] = "none"]
    /\ AfterFailure(n)
    /\ UNCHANGED <<ledgerVars, checkpoint, rowVars, unlocked>>

\* The writer asks what became of the checkpoint.  Unless it is committed,
\* by whatever attempt, or the answer fails, file and lock are removed.
Reconcile(n) ==
    /\ worker[n].pc \in {"refused", "unsure"}
    /\ \/ checkpoint.phase = "committed" /\ UNCHANGED <<fileVars, faults>>
       \/ Fault /\ UNCHANGED fileVars
       \/ /\ checkpoint.phase # "committed" /\ UNCHANGED faults
          /\ data' = [data EXCEPT ![n] = "none"]
          /\ lockFile' = [lockFile EXCEPT ![n] = "none"]
    /\ AfterFailure(n)
    /\ UNCHANGED <<ledgerVars, checkpoint, rowVars, unlocked>>

\* abort_checkpoint refuses committed truth and foreign owners; both are
\* suppressed.  An abort already made finds nothing.
Abort(n) ==
    /\ At(n, "abort")
    /\ \/ /\ Current(n)
          /\ Candidate(n)
          /\ Detach(n)
          /\ GoTo(n, "discard")
       \/ /\ ~(Current(n) /\ Candidate(n))
          /\ Settle(n, "finish", "cancelled")
          /\ UNCHANGED <<checkpoint, row>>
    /\ UNCHANGED <<ledgerVars, leases, fileVars, unlocked, faults>>

-----------------------------------------------------------------------------
(* _publish_from_checkpoint.                                               *)

\* A cancellation after the commit keeps the checkpoint; a prior receipt
\* answers the task.
Proceed(n) ==
    /\ At(n, "committed")
    /\ \/ ShouldStop(n) /\ Settle(n, "finish", "cancelled")
       \/ ~ShouldStop(n) /\ Landed /\ Settle(n, "finish", "done")
       \/ ~ShouldStop(n) /\ ~Landed /\ GoTo(n, "open")
    /\ UNCHANGED <<ledgerVars, checkpoint, rowVars, fileVars, unlocked, faults>>

\* The committed generation is looked up and its lock shared, unless it is
\* gone or a sweep has it locked just then.
OpenLock(n) ==
    /\ At(n, "open")
    /\ \/ /\ checkpoint.phase = "committed"
          /\ lockFile[checkpoint.gen] = "valid"
          /\ GoWith(n, "acquire", checkpoint.gen)
       \/ GoTo(n, "failing")
    /\ UNCHANGED <<ledgerVars, checkpoint, rowVars, fileVars, unlocked, faults>>

\* The read lease is taken, and the bytes are compared with the evidence.
AcquireRead(n) ==
    /\ At(n, "acquire")
    /\ LET g == worker[n].gen IN
          \/ /\ row[g].state = "ready" /\ data[g] = "whole"
             /\ leases' = [leases EXCEPT ![g] = @ \cup {n}]
             /\ GoTo(n, "copy")
          \/ /\ ~(row[g].state = "ready" /\ data[g] = "whole")
             /\ GoTo(n, "failing")
             /\ UNCHANGED leases
    /\ UNCHANGED <<ledgerVars, checkpoint, row, fileVars, unlocked, faults>>

\* The rows are copied to the write's own artifact; the guard is checked
\* before and after.
Copy(n) ==
    /\ At(n, "copy")
    /\ \/ ~ShouldStop(n) /\ data[worker[n].gen] = "whole" /\ GoTo(n, "land")
       \/ ShouldStop(n) /\ Settle(n, "close", "cancelled")
       \/ Settle(n, "close", "failing")
    /\ UNCHANGED <<ledgerVars, checkpoint, rowVars, fileVars, unlocked, faults>>

\* The managed write is published, replayed or refused (see DurableWrite);
\* its transaction does not look at the lease.
Land(n) ==
    /\ UNCHANGED <<checkpoint, rowVars, fileVars, unlocked, faults>>
    /\ At(n, "land")
    /\ \/ Ledger!Land(Task, n, n) /\ Settle(n, "close", "done")
       \/ Landed /\ Settle(n, "close", "done") /\ UNCHANGED ledgerVars
       \/ Settle(n, "close", "failing") /\ UNCHANGED ledgerVars

\* The guard is closed: first the lease, then the descriptors.  Whoever was
\* stopped looks for a receipt once more.
Close(n) ==
    /\ At(n, "close")
    /\ leases' = [leases EXCEPT ![worker[n].gen] = @ \ {n}]
    /\ worker' = [worker EXCEPT ![n] =
          IF @.outcome = "failing" THEN [pc |-> "failing", gen |-> n, outcome |-> "none"]
          ELSE [pc |-> "finish", gen |-> n, outcome |-> IF Landed THEN "done" ELSE "cancelled"]]
    /\ UNCHANGED <<ledgerVars, checkpoint, row, fileVars, unlocked, faults>>

\* Whoever failed prefers a receipt.
Fail(n) ==
    /\ At(n, "failing")
    /\ worker' = [worker EXCEPT ![n] =
          [pc |-> "finish", gen |-> n,
           outcome |-> IF Landed THEN "done" ELSE IF ShouldStop(n) THEN "cancelled" ELSE "failed"]]
    /\ UNCHANGED <<ledgerVars, checkpoint, rowVars, fileVars, unlocked, faults>>

\* The outcome is recorded, unless the attempt is no longer the worker's.
Finish(n) ==
    /\ UNCHANGED <<checkpoint, rowVars, fileVars, unlocked, faults>>
    /\ At(n, "finish")
    /\ \/ /\ Current(n)
          /\ Ledger!Finish(Task, n, n, worker[n].outcome,
                           IF worker[n].outcome = "failed" THEN "other" ELSE "none")
       \/ ~Current(n) /\ UNCHANGED ledgerVars
    /\ GoWith(n, "ended", n)

\* The hub process dies: its locks are released, its leases stay.
Crash(n) ==
    /\ ~At(n, "idle") /\ ~At(n, "ended")
    /\ Fault
    /\ GoWith(n, "ended", n)
    /\ UNCHANGED <<ledgerVars, checkpoint, rowVars, fileVars, unlocked>>

-----------------------------------------------------------------------------
(* prune_results, in any hub process.                                      *)

\* Mutant: a checkpoint's binding is no reason to spare a dead writer.
ReconcileDeadBound(g) ==
    /\ row[g].state \in {"writing", "ready"}
    /\ row[g].writer \/ leases[g] # {}
    /\ CanExclude(g)
    /\ row' = [row EXCEPT ![g].writer = FALSE]
    /\ leases' = [leases EXCEPT ![g] = {}]
    /\ UNCHANGED <<ledgerVars, checkpoint, fileVars, worker, unlocked, faults>>

\* The fences of processes that are dead, as their lock shows, are cleared,
\* except on a file that a checkpoint is bound to.
ReconcileDead(g) ==
    /\ row[g].state \in {"writing", "ready"}
    /\ row[g].writer \/ leases[g] # {}
    /\ ~Bound(g)
    /\ CanExclude(g)
    /\ row' = [row EXCEPT ![g].writer = FALSE]
    /\ leases' = [leases EXCEPT ![g] = {}]
    /\ UNCHANGED <<ledgerVars, checkpoint, fileVars, worker, unlocked, faults>>

\* A file that nothing refers to is marked for deletion.
ClaimReclaim(g) ==
    /\ row[g].state \in {"writing", "ready"}
    /\ ~row[g].writer /\ ~row[g].owner /\ leases[g] = {}
    /\ ~Bound(g)
    /\ row' = [row EXCEPT ![g].state = "deleting"]
    /\ UNCHANGED <<ledgerVars, checkpoint, leases, fileVars, worker, unlocked, faults>>

\* A marked file is deleted; a crash after the row is gone leaves the lock.
ReapLocked(g) ==
    /\ row[g].state = "deleting"
    /\ \/ DeleteLocked(g) /\ UNCHANGED faults
       \/ /\ CanExclude(g) /\ Fault
          /\ row' = [row EXCEPT ![g] = NoRow]
          /\ data' = [data EXCEPT ![g] = "none"]
          /\ UNCHANGED lockFile
    /\ UNCHANGED <<ledgerVars, checkpoint, leases, worker, unlocked>>

\* Mutant: a missing lock file is an error, as a foreign token is.
NeverMissLock(g) == FALSE

\* A reserved candidate that never materialized has no lock file.
MissLock(g) ==
    /\ row[g].state = "deleting"
    /\ lockFile[g] = "none"
    /\ g \notin unlocked
    /\ unlocked' = unlocked \cup {g}
    /\ UNCHANGED <<ledgerVars, checkpoint, rowVars, fileVars, worker, faults>>

ReapUnlocked(g) ==
    /\ g \in unlocked
    /\ unlocked' = unlocked \ {g}
    /\ DeleteUnlocked(g)
    /\ UNCHANGED <<ledgerVars, checkpoint, leases, worker, faults>>

\* A lock that has neither bytes nor a row, with a token or without.
SweepLock(g) ==
    /\ lockFile[g] # "none"
    /\ Holders(g) = {}
    /\ data[g] = "none"
    /\ row[g].state = "none"
    /\ lockFile' = [lockFile EXCEPT ![g] = "none"]
    /\ UNCHANGED <<ledgerVars, checkpoint, rowVars, data, worker, unlocked, faults>>

-----------------------------------------------------------------------------

WorkerStep(n) ==
    \/ Recover(n) \/ Discard(n) \/ DiscardUnlocked(n) \/ Reserve(n) \/ RunPrefix(n)
    \/ CreateLock(n) \/ FenceLock(n) \/ CreateFile(n) \/ Bind(n) \/ WriteAndProve(n)
    \/ Commit(n) \/ Reconcile(n) \/ Abort(n)
    \/ Proceed(n) \/ OpenLock(n) \/ AcquireRead(n) \/ Copy(n) \/ Land(n) \/ Close(n)
    \/ Fail(n) \/ Finish(n)

Reap(g) ==
    \/ ReconcileDead(g) \/ ClaimReclaim(g) \/ ReapLocked(g)
    \/ MissLock(g) \/ ReapUnlocked(g) \/ SweepLock(g)

Next ==
    \/ Submit \/ RequestCancel \/ DispatchSettles \/ DeleteCanvas
    \/ \E id \in RetryIds : Retry(id)
    \/ \E n \in Generations : \/ LeaseExpires(n) \/ Dispatch(n) \/ Crash(n)
                              \/ WorkerStep(n) \/ Reap(n)

Spec == Init /\ [][Next]_vars

\* Threads run, and maintenance comes round again and again.
FairSpec ==
    /\ Spec
    /\ \A n \in Generations : WF_vars(WorkerStep(n)) /\ WF_vars(Reap(n))

-----------------------------------------------------------------------------
(* Properties.                                                             *)

Steps ==
    {"idle", "recover", "discard", "discardUnlocked", "reserve", "prefix", "create", "fence",
     "abort", "committed", "open", "acquire", "failing", "finish", "ended"} \cup Writing \cup Reading

\* Every variable of the checkpoint holds values of its domain.
TypeOK ==
    /\ checkpoint \in [phase : {"pending", "reserved", "committed", "gone"},
                       gen : 0 .. MaxAttempts, bound : BOOLEAN]
    /\ row \in [Generations -> [state : {"none", "writing", "ready", "deleting"},
                                writer : BOOLEAN, owner : BOOLEAN]]
    /\ leases \in [Generations -> SUBSET Generations]
    /\ data \in [Generations -> {"none", "partial", "whole"}]
    /\ lockFile \in [Generations -> {"none", "empty", "valid"}]
    /\ worker \in [Generations ->
          [pc : Steps, gen : Generations, outcome : {"none", "done", "failed", "cancelled", "failing"}]]
    /\ unlocked \in SUBSET Generations
    /\ faults \in 0 .. MaxFaults

\* The checkpoint and the artifacts it speaks of agree, so none of its
\* transactions, which raise otherwise, is ever stuck on its own records: a
\* reserved candidate has the only writer row, its own; a committed one is
\* ready, with its sole owner, its recorded inode and all its bytes; and no
\* other row is written or owned.
AuthorityAgrees ==
    /\ \A g \in Generations :
          /\ row[g].writer <=> Candidate(g)
          /\ row[g].writer => row[g].state = "writing"
          /\ row[g].owner <=> (checkpoint.phase = "committed" /\ checkpoint.gen = g)
    /\ checkpoint.phase = "committed" =>
          /\ checkpoint.gen \in Generations
          /\ checkpoint.bound
          /\ row[checkpoint.gen].state = "ready"
          /\ data[checkpoint.gen] = "whole"

\* Whoever reads the checkpoint keeps its artifact, ready and, as long as
\* the canvas lasts, with all its bytes: no reaper and no late writer takes
\* it away.
ReaderKeepsCheckpoint ==
    \A n \in Generations :
        worker[n].pc \in Reading =>
            LET g == worker[n].gen IN
            /\ row[g].state = "ready"
            /\ checkpoint.phase # "gone" => checkpoint.gen = g /\ data[g] = "whole"

\* Committed truth is final: until the canvas is deleted no attempt, however
\* late, replaces it, aborts it or retires it.
EvidenceIsFinal ==
    [][checkpoint.phase = "committed" =>
          checkpoint' = checkpoint \/ checkpoint'.phase = "gone"]_vars

\* An empty lock file under a row, and a lease whose lock file is gone, are
\* more than maintenance can undo.
Stuck(g) == lockFile[g] = "empty" \/ (lockFile[g] = "none" /\ leases[g] # {})

\* What is retired, aborted or released is reclaimed in the end.
LeftoversGo ==
    \A g \in Generations : <>[](row[g].state # "none" => Bound(g) \/ Stuck(g))
=============================================================================
