----------------------------- MODULE LocalResult -----------------------------
(***************************************************************************)
(* Managed local results: a file, its row in the registry and its lock     *)
(* file (hub/storage.py LocalStorage, hub/metadb.py 16942-18105).          *)
(*                                                                         *)
(* Every registry transaction locks the registry row first, so each is one *)
(* action.  What a process does in the file system lies between them and   *)
(* is fenced by the lock file only: a writer, its child process and every  *)
(* reader hold it shared, whoever reconciles, deletes or sweeps holds it   *)
(* exclusively, and nobody waits for it.  A result's name is never reused, *)
(* hence a lock file has one inode, and shared[r] and exclusive[r] are the *)
(* holders of that inode, whether its name still exists or not.            *)
(***************************************************************************)
EXTENDS Integers, FiniteSets

CONSTANTS
    Results,      \* managed results; each has one run that writes it
    Readers,      \* read guards
    Owners,       \* durable rows other than the run state that keep results
    RunState,     \* the owner that is the state of the result's own run
    Cleaners,     \* processes that run prune_results
    Processes,    \* hub and kernel processes
    ProcessOf,    \* where each writer, reader and cleaner lives
    Writer,       \* who holds the lock for a result's writer process ...
    Child,        \* ... and for the child that inherited its descriptor
    Nobody,       \* no holder of an exclusive lock, no target of a cleaner
    MaxFaults     \* bound: crashes, lost responses and failed commits

Durable == Owners \cup {RunState}
Sharers == Readers \cup {Writer, Child}

\* Whoever can delete: a cleaner, or the writer that aborts its own result.
Deleters == Cleaners \cup Results

ASSUME DistinctAssumption ==
    /\ Durable \cap Sharers = {}
    /\ RunState \notin Owners
    /\ {Writer, Child} \cap Readers = {}
    /\ Writer # Child
    /\ Cleaners \cap Results = {}
    /\ Nobody \notin Deleters
ASSUME ProcessAssumption == ProcessOf \in [Results \cup Readers \cup Cleaners -> Processes]
ASSUME FaultAssumption == MaxFaults \in Nat

VARIABLES
    row,          \* the artifact row of each result
    refs,         \* the reference rows: durable owners and read leases
    file,         \* whether the result's bytes exist under its name
    lockFile,     \* "absent", "empty" or "valid": the lock file's name
    shared,       \* who holds the lock shared
    exclusive,    \* who holds it exclusively
    writer,       \* the control state of each result's writer
    child,        \* its child process: "none", "running", "wrote", "failed"
    reader,       \* the control state of each read guard
    readerOf,     \* the result each guard is for
    cleaner,      \* the control state of each deleter
    target,       \* the result it is working on
    faults

rowVars == <<row, refs>>
lockVars == <<lockFile, shared, exclusive>>
writerVars == <<writer, child>>
readerVars == <<reader, readerOf>>
cleanerVars == <<cleaner, target>>
vars == <<rowVars, file, lockVars, writerVars, readerVars, cleanerVars, faults>>

NoRow == [state |-> "none", writing |-> FALSE]

Init ==
    /\ row = [r \in Results |-> NoRow]
    /\ refs = [r \in Results |-> {}]
    /\ file = [r \in Results |-> FALSE]
    /\ lockFile = [r \in Results |-> "absent"]
    /\ shared = [r \in Results |-> {}]
    /\ exclusive = [r \in Results |-> Nobody]
    /\ writer = [r \in Results |-> "idle"]
    /\ child = [r \in Results |-> "none"]
    /\ reader = [x \in Readers |-> "idle"]
    /\ readerOf = [x \in Readers |-> Nobody]
    /\ cleaner = [d \in Deleters |-> "idle"]
    /\ target = [d \in Deleters |-> Nobody]
    /\ faults = 0

-----------------------------------------------------------------------------
(* Rows and locks.                                                         *)

State(r) == row[r].state
HasWriter(r) == row[r].writing

\* The writer pair of a row is set while its run is its owner.
SetRow(r, state, writing) ==
    row' = [row EXCEPT ![r] = [state |-> state, writing |-> writing]]
AddRef(r, x) == refs' = [refs EXCEPT ![r] = @ \cup {x}]
DropRefs(r, X) == refs' = [refs EXCEPT ![r] = @ \ X]

\* LOCK_SH | LOCK_NB and LOCK_EX | LOCK_NB.
CanShare(r) == exclusive[r] = Nobody
CanExclude(r) == exclusive[r] = Nobody /\ shared[r] = {}
Share(r, x) == shared' = [shared EXCEPT ![r] = @ \cup {x}]
Unshare(r, x) == shared' = [shared EXCEPT ![r] = @ \ {x}]

WriterGoes(r, pc) == writer' = [writer EXCEPT ![r] = pc]
ReaderGoes(x, pc) == reader' = [reader EXCEPT ![x] = pc]
CleanerGoes(d, pc) == cleaner' = [cleaner EXCEPT ![d] = pc]

CleanerRests(d) ==
    /\ CleanerGoes(d, "idle")
    /\ target' = [target EXCEPT ![d] = Nobody]

Fault == faults < MaxFaults /\ faults' = faults + 1

-----------------------------------------------------------------------------
(* Writers: begin_result, the child process, commit_result, the run state, *)
(* release_result and abort_result.                                        *)

\* The lock file is created before the row, empty and not locked yet.
CreateLock(r) ==
    /\ writer[r] = "idle"
    /\ lockFile' = [lockFile EXCEPT ![r] = "empty"]
    /\ WriterGoes(r, "created")
    /\ UNCHANGED <<rowVars, file, shared, exclusive, child, readerVars,
                   cleanerVars, faults>>

\* It is fenced and its token written, unless a sweep has it locked; the
\* token reaches the inode whether or not the name is still there.
FenceLock(r) ==
    /\ writer[r] = "created"
    /\ \/ /\ CanShare(r)
          /\ Share(r, Writer)
          /\ lockFile' = [lockFile EXCEPT ![r] = IF @ = "empty" THEN "valid" ELSE @]
          /\ WriterGoes(r, "fenced")
       \/ /\ ~CanShare(r)
          /\ WriterGoes(r, "ended")
          /\ UNCHANGED <<lockFile, shared>>
    /\ UNCHANGED <<rowVars, file, exclusive, child, readerVars, cleanerVars, faults>>

\* The row is reserved.  A response that is lost, before or after the
\* commit, begins an abort.
Begin(r) ==
    /\ writer[r] = "fenced"
    /\ \/ SetRow(r, "writing", TRUE) /\ WriterGoes(r, "begun") /\ UNCHANGED faults
       \/ SetRow(r, "writing", TRUE) /\ WriterGoes(r, "aborting") /\ Fault
       \/ UNCHANGED row /\ WriterGoes(r, "aborting") /\ Fault
    /\ UNCHANGED <<refs, file, lockVars, child, readerVars, cleanerVars>>

\* The run's child process inherits the descriptor of the lock, or fails to
\* start.
StartChild(r) ==
    /\ writer[r] = "begun"
    /\ \/ /\ WriterGoes(r, "running")
          /\ child' = [child EXCEPT ![r] = "running"]
          /\ Share(r, Child)
       \/ WriterGoes(r, "aborting") /\ UNCHANGED <<child, shared>>
    /\ UNCHANGED <<rowVars, file, lockFile, exclusive, readerVars, cleanerVars, faults>>

\* The child writes the file, and sooner or later exits; only then is its
\* descriptor closed, whatever became of its parent.
ChildWrites(r) ==
    /\ child[r] = "running"
    /\ ~file[r]
    /\ file' = [file EXCEPT ![r] = TRUE]
    /\ UNCHANGED <<rowVars, lockVars, writerVars, readerVars, cleanerVars, faults>>

ChildExits(r) ==
    /\ child[r] = "running"
    /\ \/ file[r] /\ child' = [child EXCEPT ![r] = "wrote"]
       \/ child' = [child EXCEPT ![r] = "failed"]
    /\ Unshare(r, Child)
    /\ UNCHANGED <<rowVars, file, lockFile, exclusive, writer, readerVars,
                   cleanerVars, faults>>

\* Mutant: the commit does not look for the lock's name.
CanCommitUnlocked(r) ==
    /\ child[r] = "wrote"
    /\ file[r]
    /\ State(r) = "writing"
    /\ HasWriter(r)

\* commit_result, after the child was reaped.  It checks that the lock's
\* name and the file are still there; if anything raises, the run aborts.
CanCommit(r) ==
    /\ child[r] = "wrote"
    /\ lockFile[r] # "absent"
    /\ file[r]
    /\ State(r) = "writing"
    /\ HasWriter(r)

Commit(r) ==
    /\ writer[r] = "running"
    /\ child[r] # "running"
    /\ \/ CanCommit(r) /\ SetRow(r, "ready", TRUE)
          /\ WriterGoes(r, "committed") /\ UNCHANGED faults
       \/ CanCommit(r) /\ Fault /\ WriterGoes(r, "aborting")
          /\ (SetRow(r, "ready", TRUE) \/ UNCHANGED row)
       \/ ~CanCommit(r) /\ WriterGoes(r, "aborting") /\ UNCHANGED <<row, faults>>
    /\ UNCHANGED <<refs, file, lockVars, child, readerVars, cleanerVars>>

\* The terminal run state becomes the result's first owner and clears the
\* writer pair.  A lost response is answered by the receipt of the same
\* transaction, so it shows nothing here.  A run whose state was deleted or
\* fenced meanwhile is rejected and aborts.
Publish(r) ==
    /\ writer[r] = "committed"
    /\ \/ /\ State(r) = "ready"
          /\ SetRow(r, "ready", FALSE)
          /\ AddRef(r, RunState)
          /\ WriterGoes(r, "published")
       \/ WriterGoes(r, "aborting") /\ UNCHANGED rowVars
    /\ UNCHANGED <<file, lockVars, child, readerVars, cleanerVars, faults>>

\* release_local_result_writer answers True also when retention has already
\* claimed the row; then the writer's descriptor is closed.
Release(r) ==
    /\ writer[r] = "published"
    /\ State(r) = "none" \/ ~HasWriter(r)
    /\ WriterGoes(r, "ended")
    /\ Unshare(r, Writer)
    /\ UNCHANGED <<rowVars, file, lockFile, exclusive, child, readerVars,
                   cleanerVars, faults>>

\* abandon_local_result answers with a delete token.
Abandons(r) ==
    /\ HasWriter(r)
    /\ State(r) = "deleting" \/ refs[r] = {}

\* The abort marks the row, closes the writer's descriptor and goes on to
\* delete the exact file.  A lost response leaves it pending for
\* retry_result_fences, a row that is not its own for good.
Abort(r) ==
    /\ writer[r] = "aborting"
    /\ child[r] # "running"
    /\ \/ /\ State(r) = "none"
          /\ WriterGoes(r, "ended")
          /\ Unshare(r, Writer)
          /\ UNCHANGED <<row, cleanerVars, faults>>
       \/ /\ Abandons(r)
          /\ SetRow(r, "deleting", TRUE)
          /\ WriterGoes(r, "ended")
          /\ Unshare(r, Writer)
          /\ cleaner' = [cleaner EXCEPT ![r] = "delete"]
          /\ target' = [target EXCEPT ![r] = r]
          /\ UNCHANGED faults
       \/ /\ Abandons(r)
          /\ Fault
          /\ SetRow(r, "deleting", TRUE)
          /\ UNCHANGED <<writer, shared, cleanerVars>>
    /\ UNCHANGED <<refs, file, lockFile, exclusive, child, readerVars>>

-----------------------------------------------------------------------------
(* Durable owners.                                                         *)

\* Mutant: an owner may take a result that is being deleted.
OwnDeleting(o, r) ==
    /\ State(r) \in {"ready", "deleting"}
    /\ ~HasWriter(r)
    /\ o \notin refs[r]
    /\ AddRef(r, o)
    /\ UNCHANGED <<row, file, lockVars, writerVars, readerVars, cleanerVars, faults>>

\* sync_local_result_owner raises unless the result is ready and published.
Own(o, r) ==
    /\ State(r) = "ready"
    /\ ~HasWriter(r)
    /\ o \notin refs[r]
    /\ AddRef(r, o)
    /\ UNCHANGED <<row, file, lockVars, writerVars, readerVars, cleanerVars, faults>>

\* An owner is deleted or rewritten without the result, a run state retired.
Disown(o, r) ==
    /\ o \in refs[r]
    /\ DropRefs(r, {o})
    /\ UNCHANGED <<row, file, lockVars, writerVars, readerVars, cleanerVars, faults>>

-----------------------------------------------------------------------------
(* Readers: acquire_result_read and LocalResultReadGuard.close.            *)

\* The lock file is opened and its token read; the lock comes later.
OpenLock(x, r) ==
    /\ reader[x] = "idle"
    /\ lockFile[r] = "valid"
    /\ ReaderGoes(x, "opened")
    /\ readerOf' = [readerOf EXCEPT ![x] = r]
    /\ UNCHANGED <<rowVars, file, lockVars, writerVars, cleanerVars, faults>>

ShareLock(x) ==
    /\ reader[x] = "opened"
    /\ LET r == readerOf[x] IN
          \/ CanShare(r) /\ Share(r, x) /\ ReaderGoes(x, "sharing")
          \/ ~CanShare(r) /\ ReaderGoes(x, "closed") /\ UNCHANGED shared
    /\ UNCHANGED <<rowVars, file, lockFile, exclusive, writerVars, readerOf,
                   cleanerVars, faults>>

CanRead(r) == State(r) = "ready"

\* Mutant: the lease is taken to be enough, and the lock is let go.
AcquireReadUnlocked(x) ==
    /\ reader[x] = "sharing"
    /\ LET r == readerOf[x] IN
          /\ Unshare(r, x)
          /\ \/ CanRead(r) /\ AddRef(r, x) /\ ReaderGoes(x, "reading")
             \/ ~CanRead(r) /\ ReaderGoes(x, "closed") /\ UNCHANGED refs
    /\ UNCHANGED <<row, file, lockFile, exclusive, writerVars, readerOf, cleanerVars, faults>>

\* The read lease.  A commit whose response is lost is closed like a failed
\* acquisition.
AcquireRead(x) ==
    /\ reader[x] = "sharing"
    /\ LET r == readerOf[x] IN
          \/ CanRead(r) /\ AddRef(r, x) /\ ReaderGoes(x, "reading") /\ UNCHANGED faults
          \/ CanRead(r) /\ AddRef(r, x) /\ ReaderGoes(x, "closing") /\ Fault
          \/ ~CanRead(r) /\ ReaderGoes(x, "closing") /\ UNCHANGED <<refs, faults>>
    /\ UNCHANGED <<row, file, lockVars, writerVars, readerOf, cleanerVars>>

StopReading(x) ==
    /\ reader[x] = "reading"
    /\ ReaderGoes(x, "closing")
    /\ UNCHANGED <<rowVars, file, lockVars, writerVars, readerOf, cleanerVars, faults>>

\* The lease is dropped before the descriptors are closed; a lost response
\* leaves the guard pending with its descriptors open.
CloseRead(x) ==
    /\ reader[x] = "closing"
    /\ LET r == readerOf[x] IN
          /\ DropRefs(r, {x})
          /\ \/ Unshare(r, x) /\ ReaderGoes(x, "closed") /\ UNCHANGED faults
             \/ Fault /\ x \in refs[r] /\ UNCHANGED <<shared, reader>>
    /\ UNCHANGED <<row, file, lockFile, exclusive, writerVars, readerOf, cleanerVars>>

-----------------------------------------------------------------------------
(* prune_results.                                                          *)

\* local_result_lock_candidates.
PickSuspect(c, r) ==
    /\ cleaner[c] = "idle"
    /\ State(r) \in {"writing", "ready"}
    /\ HasWriter(r) \/ refs[r] \cap Readers # {}
    /\ CleanerGoes(c, "suspect")
    /\ target' = [target EXCEPT ![c] = r]
    /\ UNCHANGED <<rowVars, file, lockVars, writerVars, readerVars, faults>>

\* Some time later the lock proves that every process that used it is gone.
ExcludeSuspect(c) ==
    /\ cleaner[c] = "suspect"
    /\ LET r == target[c] IN
          \/ /\ lockFile[r] = "valid" /\ CanExclude(r)
             /\ exclusive' = [exclusive EXCEPT ![r] = c]
             /\ CleanerGoes(c, "reconcile")
             /\ UNCHANGED target
          \/ /\ ~(lockFile[r] = "valid" /\ CanExclude(r))
             /\ CleanerRests(c)
             /\ UNCHANGED exclusive
    /\ UNCHANGED <<rowVars, file, lockFile, shared, writerVars, readerVars, faults>>

Unexclude(c, r) ==
    exclusive' = IF exclusive[r] = c THEN [exclusive EXCEPT ![r] = Nobody] ELSE exclusive

\* reconcile_dead_local_result.
ReconcileDead(c) ==
    /\ cleaner[c] = "reconcile"
    /\ LET r == target[c] IN
          /\ IF State(r) \in {"writing", "ready"}
             THEN SetRow(r, State(r), FALSE) /\ DropRefs(r, Readers)
             ELSE UNCHANGED rowVars
          /\ Unexclude(c, r)
    /\ CleanerRests(c)
    /\ UNCHANGED <<file, lockFile, shared, writerVars, readerVars, faults>>

\* Mutant: what nobody refers to is taken, though its writer is at work.
UnreferencedReclaimable(r) ==
    \/ State(r) = "deleting"
    \/ State(r) \in {"writing", "ready"} /\ refs[r] = {}

\* Mutant: a deletion that failed is not claimed again.
FreshReclaimable(r) ==
    State(r) \in {"writing", "ready"} /\ ~HasWriter(r) /\ refs[r] = {}

Reclaimable(r) ==
    \/ State(r) = "deleting"
    \/ State(r) \in {"writing", "ready"} /\ ~HasWriter(r) /\ refs[r] = {}

\* claim_local_result_reclaims; a claim of several is the claim of each.
ClaimReclaim(c, r) ==
    /\ cleaner[c] = "idle"
    /\ Reclaimable(r)
    /\ row' = [row EXCEPT ![r] =
          [state |-> "deleting", writing |-> State(r) = "deleting" /\ HasWriter(r)]]
    /\ CleanerGoes(c, "delete")
    /\ target' = [target EXCEPT ![c] = r]
    /\ UNCHANGED <<refs, file, lockVars, writerVars, readerVars, faults>>

\* _delete_claimed_result: a lock file that is not there any more is not
\* needed, one that somebody holds puts the deletion off.
LockForDelete(d) ==
    /\ cleaner[d] = "delete"
    /\ LET r == target[d] IN
          \/ /\ lockFile[r] = "absent"
             /\ CleanerGoes(d, "unlink")
             /\ UNCHANGED <<exclusive, target>>
          \/ /\ lockFile[r] = "valid" /\ CanExclude(r)
             /\ exclusive' = [exclusive EXCEPT ![r] = d]
             /\ CleanerGoes(d, "unlink")
             /\ UNCHANGED target
          \/ /\ lockFile[r] # "absent"
             /\ ~(lockFile[r] = "valid" /\ CanExclude(r))
             /\ CleanerRests(d)
             /\ UNCHANGED exclusive
    /\ UNCHANGED <<rowVars, file, lockFile, shared, writerVars, readerVars, faults>>

\* Mutant: the row goes first, the file after the commit if nothing fails.
DeleteRowFirst(d) ==
    /\ cleaner[d] = "unlink"
    /\ State(target[d]) = "deleting" /\ refs[target[d]] = {}
    /\ row' = [row EXCEPT ![target[d]] = NoRow]
    /\ CleanerGoes(d, "unlock")
    /\ \/ file' = [file EXCEPT ![target[d]] = FALSE] /\ UNCHANGED faults
       \/ Fault /\ UNCHANGED file
    /\ UNCHANGED <<refs, lockVars, writerVars, readerVars, target>>

\* delete_local_result unlinks the file inside the transaction that removes
\* the row; if that does not commit, the row remains to be deleted again.
DeleteRow(d) ==
    /\ cleaner[d] = "unlink"
    /\ LET r == target[d] IN
          \/ /\ State(r) = "deleting" /\ refs[r] = {}
             /\ file' = [file EXCEPT ![r] = FALSE]
             /\ \/ row' = [row EXCEPT ![r] = NoRow] /\ CleanerGoes(d, "unlock")
                   /\ UNCHANGED <<target, exclusive, faults>>
                \/ Fault /\ CleanerRests(d) /\ Unexclude(d, r) /\ UNCHANGED row
          \/ /\ State(r) = "none" /\ ~file[r]
             /\ CleanerGoes(d, "unlock")
             /\ UNCHANGED <<row, file, target, exclusive, faults>>
          \/ /\ ~(State(r) = "deleting" /\ refs[r] = {})
             /\ ~(State(r) = "none" /\ ~file[r])
             /\ CleanerRests(d)
             /\ Unexclude(d, r)
             /\ UNCHANGED <<row, file, faults>>
    /\ UNCHANGED <<refs, lockFile, shared, writerVars, readerVars>>

\* The lock file goes last, still under the lock.
UnlinkLock(d) ==
    /\ cleaner[d] = "unlock"
    /\ LET r == target[d] IN
          /\ lockFile' = IF exclusive[r] = d THEN [lockFile EXCEPT ![r] = "absent"]
                                             ELSE lockFile
          /\ Unexclude(d, r)
    /\ CleanerRests(d)
    /\ UNCHANGED <<rowVars, file, shared, writerVars, readerVars, faults>>

\* _reconcile_orphan_locks visits every lock file.
ExcludeForSweep(c, r) ==
    /\ cleaner[c] = "idle"
    /\ lockFile[r] # "absent"
    /\ CanExclude(r)
    /\ exclusive' = [exclusive EXCEPT ![r] = c]
    /\ CleanerGoes(c, "sweep")
    /\ target' = [target EXCEPT ![c] = r]
    /\ UNCHANGED <<rowVars, file, lockFile, shared, writerVars, readerVars, faults>>

IsOrphanLock(r) == ~file[r] /\ State(r) = "none"

SweepLock(c) ==
    /\ cleaner[c] = "sweep"
    /\ LET r == target[c] IN
          /\ lockFile' = IF IsOrphanLock(r) THEN [lockFile EXCEPT ![r] = "absent"]
                                            ELSE lockFile
          /\ Unexclude(c, r)
    /\ CleanerRests(c)
    /\ UNCHANGED <<rowVars, file, shared, writerVars, readerVars, faults>>

-----------------------------------------------------------------------------

\* A process dies: its descriptors are closed, and with them its locks,
\* except those its children inherited.
Crash(p) ==
    /\ Fault
    /\ writer' = [r \in Results |->
          IF ProcessOf[r] = p /\ writer[r] # "idle" THEN "ended" ELSE writer[r]]
    /\ reader' = [x \in Readers |->
          IF ProcessOf[x] = p /\ reader[x] # "idle" THEN "closed" ELSE reader[x]]
    /\ cleaner' = [d \in Deleters |-> IF ProcessOf[d] = p THEN "idle" ELSE cleaner[d]]
    /\ target' = [d \in Deleters |-> IF ProcessOf[d] = p THEN Nobody ELSE target[d]]
    /\ shared' = [r \in Results |->
          {x \in shared[r] :
              /\ x \in Readers => ProcessOf[x] # p
              /\ x = Writer => ProcessOf[r] # p}]
    /\ exclusive' = [r \in Results |->
          IF exclusive[r] # Nobody /\ ProcessOf[exclusive[r]] = p
          THEN Nobody ELSE exclusive[r]]
    /\ UNCHANGED <<rowVars, file, lockFile, child, readerOf>>

WriterStep(r) ==
    \/ CreateLock(r)
    \/ FenceLock(r)
    \/ Begin(r)
    \/ StartChild(r)
    \/ Commit(r)
    \/ Publish(r)
    \/ Release(r)
    \/ Abort(r)

ReaderStep(x) ==
    \/ ShareLock(x)
    \/ AcquireRead(x)
    \/ StopReading(x)
    \/ CloseRead(x)

DeleterStep(d) == LockForDelete(d) \/ DeleteRow(d) \/ UnlinkLock(d)

CleanerStep(c) == ExcludeSuspect(c) \/ ReconcileDead(c) \/ SweepLock(c)

Next ==
    \/ \E r \in Results : WriterStep(r) \/ ChildWrites(r) \/ ChildExits(r)
    \/ \E r \in Results, o \in Owners : Own(o, r)
    \/ \E r \in Results, o \in Durable : Disown(o, r)
    \/ \E x \in Readers : ReaderStep(x)
    \/ \E x \in Readers, r \in Results : OpenLock(x, r)
    \/ \E d \in Deleters : DeleterStep(d)
    \/ \E c \in Cleaners : CleanerStep(c)
    \/ \E c \in Cleaners, r \in Results :
          PickSuspect(c, r) \/ ClaimReclaim(c, r) \/ ExcludeForSweep(c, r)
    \/ \E p \in Processes : Crash(p)

\* The code of a run and of a reader goes on, children end, and the pass of
\* prune_results comes round to every row and every lock file.
Fairness ==
    /\ \A r \in Results : WF_vars(WriterStep(r)) /\ WF_vars(ChildExits(r))
    /\ \A x \in Readers : WF_vars(ReaderStep(x))
    /\ \A d \in Deleters : WF_vars(DeleterStep(d))
    /\ \A c \in Cleaners : WF_vars(CleanerStep(c))
    /\ \A c \in Cleaners, r \in Results :
          /\ SF_vars(PickSuspect(c, r))
          /\ SF_vars(ClaimReclaim(c, r))
          /\ SF_vars(ExcludeForSweep(c, r))

Spec == Init /\ [][Next]_vars
FairSpec == Spec /\ Fairness

-----------------------------------------------------------------------------
(* Properties.                                                             *)

\* Every variable holds values of its domain.
TypeOK ==
    /\ row \in [Results -> [state : {"none", "writing", "ready", "deleting"},
                            writing : BOOLEAN]]
    /\ refs \in [Results -> SUBSET (Durable \cup Readers)]
    /\ file \in [Results -> BOOLEAN]
    /\ lockFile \in [Results -> {"absent", "empty", "valid"}]
    /\ shared \in [Results -> SUBSET Sharers]
    /\ exclusive \in [Results -> Deleters \cup {Nobody}]
    /\ writer \in [Results -> {"idle", "created", "fenced", "begun", "running", "committed",
                               "published", "aborting", "ended"}]
    /\ child \in [Results -> {"none", "running", "wrote", "failed"}]
    /\ reader \in [Readers -> {"idle", "opened", "sharing", "reading", "closing", "closed"}]
    /\ readerOf \in [Readers -> Results \cup {Nobody}]
    /\ cleaner \in [Deleters -> {"idle", "suspect", "reconcile", "delete", "unlink",
                                 "unlock", "sweep"}]
    /\ target \in [Deleters -> Results \cup {Nobody}]
    /\ \A d \in Deleters : cleaner[d] = "idle" <=> target[d] = Nobody
    /\ faults \in 0 .. MaxFaults

\* Whatever a durable owner refers to is ready and has its bytes and its lock
\* file: no crash, abort, sweep or reclamation takes either from under a
\* reference, and a row that lost its lock is never committed.
OwnedResultExists ==
    \A r \in Results :
        refs[r] \cap Durable # {} => State(r) = "ready" /\ file[r] /\ lockFile[r] # "absent"

\* A reader that was admitted keeps its lease and the file until it closes.
\* LocalResultReadGuard.check says that no valid path removes a guard's
\* reference before close() and looks at neither.
ReaderKeepsFile ==
    \A x \in Readers : reader[x] = "reading" =>
        /\ x \in refs[readerOf[x]]
        /\ State(readerOf[x]) = "ready"
        /\ file[readerOf[x]]

\* While a child process may still write, its row is reserved for it, even
\* when the process that started it is dead.
LiveChildKeepsRow ==
    \A r \in Results : child[r] = "running" => State(r) = "writing" /\ HasWriter(r)

\* Bytes without a row would never be found again.
NoOrphanBytes == \A r \in Results : file[r] => State(r) # "none"

\* A row whose lock has lost its name, because a sweep unlinked it before it
\* was fenced.  Its commit fails, and if its writer dies nothing can prove
\* the death.
LostItsLock(r) == State(r) = "writing" /\ lockFile[r] = "absent"

\* Every result whose writer has ended, or died, is in the end owned, or
\* gone with its row, bytes and lock file.
Settled(r) ==
    \/ refs[r] \cap Durable # {}
    \/ State(r) = "none" /\ ~file[r] /\ lockFile[r] = "absent"

ResultSettles ==
    \A r \in Results : writer[r] = "ended" ~> Settled(r) \/ LostItsLock(r)
=============================================================================
