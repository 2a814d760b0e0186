---------------------------- MODULE ExternalWait -----------------------------
(***************************************************************************)
(* A durable task that waits for a job at an external provider, downloads  *)
(* its result into a staging directory and publishes it (hub/metadb.py     *)
(* 10304-10745, hub/external_wait_tasks.py).                               *)
(*                                                                         *)
(* The recovery loops of the hub processes claim the task under a short    *)
(* lease and hand the claim to a worker.  A worker whose lease lapsed, or  *)
(* whose one-second timer gave its call up, goes on: it is late, and only  *)
(* the owner token fences it.  Every transaction is one action; so is each *)
(* call of the adapter and each visit to the staging directory, which all  *)
(* visitors make under one advisory file lock.                             *)
(*                                                                         *)
(* The adapter keeps its contract (docs/PLUGINS.md): to submit under the   *)
(* same idempotency key again returns the same job.  An attempt's key is   *)
(* its number here, and so is its handle.                                  *)
(***************************************************************************)
EXTENDS Naturals, FiniteSets

CONSTANTS
    Workers,      \* the worker threads of all hub processes
    Nobody,       \* no owner of a lease or of the lock
    MaxPolls,     \* polls an attempt may make; 64 in the code
    MaxAttempts,  \* attempts of the task; 3 in the code
    MaxFaults     \* bound: lapsed leases, crashes, transient adapter failures

ASSUME NobodyAssumption == Nobody \notin Workers
ASSUME BoundAssumption ==
    /\ MaxPolls \in Nat \ {0}
    /\ MaxAttempts \in Nat \ {0}
    /\ MaxFaults \in Nat

VARIABLES
    task,     \* the row of the task with its latest attempt
    wait,     \* the row of the wait
    listed,   \* the task is on the list of an expiry that is under way
    jobs,     \* what the provider knows of the job of each attempt
    stage,    \* the staging directory of the latest attempt, and the file in it
    lock,     \* who holds the task's file lock
    worker,   \* the control state of each worker and its claim
    landed,   \* the attempt whose publication committed the dataset, or 0
    faults    \* how many faults there were

vars == <<task, wait, listed, jobs, stage, lock, worker, landed, faults>>

Attempts == 1 .. MaxAttempts
TerminalStatus == {"done", "failed", "cancelled"}
Terminal == task.status \in TerminalStatus
Finalizing == wait.phase \in {"provider_succeeded", "downloading", "downloaded", "publishing"}

\* Nothing is submitted, nothing is staged.
NewWait == [phase |-> "unsubmitted", handle |-> 0, polls |-> 0, owner |-> Nobody,
            pinned |-> FALSE, overdue |-> FALSE]
NoStage == [dir |-> "absent", file |-> FALSE]
AtRest == [pc |-> "idle", action |-> "none", attempt |-> 1, handle |-> 0,
           cancel |-> FALSE, pinned |-> FALSE, verdict |-> "none"]

Init ==
    /\ task = [status |-> "queued", cancel |-> FALSE, attempt |-> 1]
    /\ wait = NewWait
    /\ listed = FALSE
    /\ jobs = [a \in Attempts |-> "none"]
    /\ stage = NoStage
    /\ lock = Nobody
    /\ worker = [w \in Workers |-> AtRest]
    /\ landed = 0
    /\ faults = 0

-----------------------------------------------------------------------------
(* The rows.                                                               *)

\* _external_wait_terminal: the task settles and its lease is released.
Settles(status, phase) ==
    /\ task' = [task EXCEPT !.status = status]
    /\ wait' = [wait EXCEPT !.phase = phase, !.owner = Nobody]

\* A settlement that also forgets the staging directory.
SettlesUnstaged(status, phase) ==
    /\ task' = [task EXCEPT !.status = status]
    /\ wait' = [wait EXCEPT !.phase = phase, !.owner = Nobody, !.pinned = FALSE]

\* The fence of every transaction of a worker.
Owns(w) == ~Terminal /\ wait.owner = w

At(w, pc) == worker[w].pc = pc
Claim(w) == worker[w]
Goes(w, pc, verdict) == worker' = [worker EXCEPT ![w].pc = pc, ![w].verdict = verdict]
Rests(w) == worker' = [worker EXCEPT ![w] = AtRest]

\* The worker visits the directory of the latest attempt, not of an earlier one.
IsLatest(w) == Claim(w).attempt = task.attempt

-----------------------------------------------------------------------------
(* The user and the clock.                                                 *)

RequestCancel ==
    /\ ~Terminal /\ ~task.cancel
    /\ task' = [task EXCEPT !.cancel = TRUE]
    /\ UNCHANGED <<wait, listed, jobs, stage, lock, worker, landed, faults>>

\* A new attempt has a new idempotency key, and its own staging directory.
Retry ==
    /\ task.status \in {"failed", "cancelled"}
    /\ task.attempt < MaxAttempts
    /\ task' = [status |-> "queued", cancel |-> FALSE, attempt |-> task.attempt + 1]
    /\ wait' = NewWait
    /\ stage' = NoStage
    /\ UNCHANGED <<listed, jobs, lock, worker, landed, faults>>

\* Nobody looks at the deadline once the provider has succeeded.
DeadlinePasses ==
    /\ ~Terminal /\ ~Finalizing /\ ~wait.overdue
    /\ wait' = [wait EXCEPT !.overdue = TRUE]
    /\ UNCHANGED <<task, listed, jobs, stage, lock, worker, landed, faults>>

\* A stalled or dead owner's lease runs out; no heartbeat revives it.
LeaseLapses ==
    /\ wait.owner # Nobody
    /\ IF At(wait.owner, "idle") THEN UNCHANGED faults
                                 ELSE faults < MaxFaults /\ faults' = faults + 1
    /\ wait' = [wait EXCEPT !.owner = Nobody]
    /\ UNCHANGED <<task, listed, jobs, stage, lock, worker, landed>>

\* Expiry first lists the overdue tasks, then fails each in a transaction
\* that looks at the task's status only.
ListOverdue ==
    /\ ~listed /\ ~Terminal
    /\ wait.overdue /\ ~Finalizing
    /\ listed' = TRUE
    /\ UNCHANGED <<task, wait, jobs, stage, lock, worker, landed, faults>>

\* Mutant: expiry does not look at the task again.
ExpireBlindly ==
    /\ listed
    /\ listed' = FALSE
    /\ Settles("failed", "provider_failed")
    /\ UNCHANGED <<jobs, stage, lock, worker, landed, faults>>

Expire ==
    /\ listed
    /\ listed' = FALSE
    /\ IF Terminal THEN UNCHANGED <<task, wait>>
                   ELSE Settles("failed", "provider_failed")
    /\ UNCHANGED <<jobs, stage, lock, worker, landed, faults>>

-----------------------------------------------------------------------------
(* claim_external_wait_transition.                                         *)

Unclaimed(w) == At(w, "idle") /\ ~Terminal /\ wait.owner = Nobody

NeverSubmitted == wait.handle = 0 /\ wait.phase = "unsubmitted"

ClaimCancels(w) ==
    /\ Unclaimed(w)
    /\ task.cancel /\ NeverSubmitted
    /\ Settles("cancelled", "cancelled_before_submit")
    /\ UNCHANGED <<listed, jobs, stage, lock, worker, landed, faults>>

\* The attempt ran out of time or of polls.
Exhausted == ~Finalizing /\ (wait.overdue \/ wait.polls >= MaxPolls)

ClaimFails(w) ==
    /\ Unclaimed(w)
    /\ ~(task.cancel /\ NeverSubmitted) /\ Exhausted
    /\ Settles("failed", "provider_failed")
    /\ UNCHANGED <<listed, jobs, stage, lock, worker, landed, faults>>

ClaimedPhase ==
    CASE wait.phase = "unsubmitted" -> "submitting"
      [] wait.phase = "provider_succeeded" /\ ~task.cancel -> "downloading"
      [] wait.phase = "downloaded" /\ ~task.cancel -> "publishing"
      [] OTHER -> wait.phase

\* Mutant: a cancelled task is discarded in any of its last phases.
CancellableAtEnd == Finalizing

Cancellable == wait.phase \in {"provider_succeeded", "downloading", "downloaded"}

ActionOf(phase) ==
    CASE task.cancel /\ Cancellable -> "cancel_after_success"
      [] ~(task.cancel /\ Cancellable) /\ phase = "downloading" -> "download"
      [] ~(task.cancel /\ Cancellable) /\ phase = "publishing" -> "publish"
      [] OTHER -> "provider"

ClaimRuns(w) ==
    /\ Unclaimed(w)
    /\ ~(task.cancel /\ NeverSubmitted) /\ ~Exhausted
    /\ wait' = [wait EXCEPT !.phase = ClaimedPhase, !.owner = w]
    /\ task' = [task EXCEPT !.status = "running"]
    /\ worker' = [worker EXCEPT ![w] =
           IF ActionOf(ClaimedPhase) = "provider"
           THEN [AtRest EXCEPT !.pc = "call", !.attempt = task.attempt,
                               !.handle = wait.handle, !.cancel = task.cancel]
           ELSE [AtRest EXCEPT !.pc = "lock", !.attempt = task.attempt,
                               !.action = ActionOf(ClaimedPhase), !.pinned = wait.pinned]]
    /\ UNCHANGED <<listed, jobs, stage, lock, landed, faults>>

-----------------------------------------------------------------------------
(* _perform: one call of the provider's adapter, and its commit.           *)

\* No adapter, or one that raises, gives no answer, whether the provider acted
\* or not.  An answer that breaks the contract counts as a failed job.
Replies(w, job) ==
    CASE job = "none" -> {"transient", "failed"}
      [] job # "none" /\ Claim(w).handle = 0 -> {"transient", "failed", "handle"}
      [] OTHER -> {"transient", "failed", job}

Call(w) ==
    /\ At(w, "call")
    /\ LET a == Claim(w).attempt IN
       \E job \in IF Claim(w).handle = 0
                  THEN {jobs[a], IF jobs[a] = "none" THEN "running" ELSE jobs[a]}
                  ELSE {jobs[a]} \cup IF Claim(w).cancel /\ jobs[a] = "running"
                                     THEN {"cancelled"} ELSE {} :
       \E reply \in Replies(w, job) :
          /\ jobs' = [jobs EXCEPT ![a] = job]
          /\ Goes(w, "commit", reply)
    /\ UNCHANGED <<task, wait, listed, stage, lock, landed, faults>>

\* The job succeeds; one that fails answers "failed", as any call may.  How
\* the job of an earlier attempt ends changes nothing here.
ProviderEnds ==
    /\ jobs[task.attempt] = "running"
    /\ jobs' = [jobs EXCEPT ![task.attempt] = "succeeded"]
    /\ UNCHANGED <<task, wait, listed, stage, lock, worker, landed, faults>>

Polls == IF wait.handle = 0 THEN 0 ELSE wait.polls + 1

\* commit_external_wait_transition with a failure code.
CommitsFailure ==
    IF Polls >= MaxPolls
    THEN Settles("failed", "provider_failed")
    ELSE /\ wait' = [wait EXCEPT !.owner = Nobody, !.polls = Polls]
         /\ UNCHANGED task

\* One second is over: the timer gives the call up, but does not stop it.
TimerFires(w) ==
    /\ At(w, "call") \/ At(w, "commit")
    /\ Owns(w)
    /\ CommitsFailure
    /\ UNCHANGED <<listed, jobs, stage, lock, worker, landed, faults>>

\* Mutant: a commit looks at the task, not at the lease's owner.
OwnsAny(w) == ~Terminal

Records(w, reply) ==
    CASE reply = "transient" -> CommitsFailure
      [] reply = "handle" ->
            /\ wait' = IF wait.handle = 0
                       THEN [wait EXCEPT !.handle = Claim(w).attempt, !.phase = "accepted",
                                         !.owner = Nobody]
                       ELSE [wait EXCEPT !.owner = Nobody]
            /\ UNCHANGED task
      [] reply = "running" ->
            /\ wait' = [wait EXCEPT !.phase = "running", !.owner = Nobody, !.polls = Polls]
            /\ UNCHANGED task
      [] reply = "succeeded" ->
            /\ wait' = [wait EXCEPT !.phase = "provider_succeeded", !.owner = Nobody,
                                    !.polls = Polls]
            /\ UNCHANGED task
      [] reply = "failed" -> Settles("failed", "provider_failed")
      [] reply = "cancelled" -> Settles("cancelled", "provider_cancelled")

CommitFence(w) == Owns(w)

Commit(w) ==
    /\ At(w, "commit")
    /\ IF CommitFence(w)
       THEN Records(w, Claim(w).verdict)
       ELSE UNCHANGED <<task, wait>>
    /\ Rests(w)
    /\ UNCHANGED <<listed, jobs, stage, lock, landed, faults>>

-----------------------------------------------------------------------------
(* The staging directory: _download.                                       *)

Unlocks(w) == Rests(w) /\ lock' = IF lock = w THEN Nobody ELSE lock

\* The lock is taken: the task is given back for a later try.
FindsBusy(w) ==
    /\ At(w, "lock") /\ lock # Nobody
    /\ Goes(w, "end", "transient")
    /\ UNCHANGED <<task, wait, listed, jobs, stage, lock, landed, faults>>

\* A claim that knows no directory makes a new one in the place of any other;
\* one that knows a directory refuses any other.
PreparedDir(w) ==
    IF Claim(w).pinned /\ stage.dir # "absent" THEN stage ELSE [dir |-> "fresh", file |-> FALSE]

Prepare(w) ==
    /\ At(w, "lock") /\ lock = Nobody
    /\ Claim(w).action = "download"
    /\ IF IsLatest(w) /\ Claim(w).pinned /\ stage.dir = "fresh"
       THEN Unlocks(w) /\ UNCHANGED stage
       ELSE /\ stage' = IF IsLatest(w) THEN PreparedDir(w) ELSE stage
            /\ lock' = w
            /\ Goes(w, "pin", "none")
    /\ UNCHANGED <<task, wait, listed, jobs, landed, faults>>

\* The directory it made is recorded, or is the one that is on record.
Pin(w) ==
    /\ At(w, "pin")
    /\ IF Owns(w) /\ wait.phase = "downloading" /\ (wait.pinned => stage.dir = "pinned")
       THEN /\ wait' = [wait EXCEPT !.pinned = TRUE]
            /\ stage' = [stage EXCEPT !.dir = "pinned"]
            /\ worker' = [worker EXCEPT ![w].pc = "download", ![w].pinned = TRUE]
       ELSE UNCHANGED <<wait, stage>> /\ Goes(w, "end", "transient")
    /\ UNCHANGED <<task, listed, jobs, lock, landed, faults>>

\* The adapter's file and its evidence are checked against each other.
Download(w) ==
    /\ At(w, "download")
    /\ \/ /\ stage' = IF IsLatest(w) THEN [stage EXCEPT !.file = TRUE] ELSE stage
          /\ Goes(w, "evidence", "none")
          /\ UNCHANGED faults
       \/ /\ stage' = IF IsLatest(w) THEN [stage EXCEPT !.file = TRUE] ELSE stage
          /\ Goes(w, "clean", "invalid")
          /\ UNCHANGED faults
       \/ /\ faults < MaxFaults
          /\ faults' = faults + 1
          /\ Goes(w, "end", "transient")
          /\ UNCHANGED stage
    /\ UNCHANGED <<task, wait, listed, jobs, lock, landed>>

CommitDownload(w) ==
    /\ At(w, "evidence")
    /\ CASE ~(Owns(w) /\ wait.phase = "downloading") -> UNCHANGED wait /\ Unlocks(w)
         [] Owns(w) /\ wait.phase = "downloading" /\ task.cancel ->
               UNCHANGED <<wait, lock>> /\ Goes(w, "clean", "cancel")
         [] Owns(w) /\ wait.phase = "downloading" /\ ~task.cancel ->
               /\ wait' = [wait EXCEPT !.phase = "downloaded", !.owner = Nobody]
               /\ Unlocks(w)
    /\ UNCHANGED <<task, listed, jobs, stage, landed, faults>>

\* Cancelled after the provider succeeded: what is staged is discarded.
Discard(w) ==
    /\ At(w, "lock") /\ lock = Nobody
    /\ Claim(w).action = "cancel_after_success"
    /\ lock' = w
    /\ Goes(w, "clean", "cancel")
    /\ UNCHANGED <<task, wait, listed, jobs, stage, landed, faults>>

-----------------------------------------------------------------------------
(* _publish: write_managed_local_file, which returns the receipt of an     *)
(* earlier publication, whatever its attempt, before it looks at the file. *)

OpenStage(w) ==
    /\ At(w, "lock") /\ lock = Nobody
    /\ Claim(w).action = "publish"
    /\ IF Claim(w).pinned
       THEN lock' = w /\ Goes(w, "write", "none")
       ELSE UNCHANGED lock /\ Goes(w, "end", "transient")
    /\ UNCHANGED <<task, wait, listed, jobs, stage, landed, faults>>

\* The staged file is there; of an earlier attempt's nothing is known here.
CanValidate(w) == IsLatest(w) => stage.dir = "pinned" /\ stage.file

Write(w) ==
    /\ At(w, "write")
    /\ IF landed # 0
       THEN Goes(w, "clean", "finish") /\ UNCHANGED landed
       ELSE \/ /\ CanValidate(w)
               /\ landed' = Claim(w).attempt
               /\ \E verdict \in {"finish", "invalid"} : Goes(w, "clean", verdict)
            \/ UNCHANGED landed /\ Goes(w, "clean", "invalid")
    /\ UNCHANGED <<task, wait, listed, jobs, stage, lock, faults>>

\* A failure that is neither a conflict nor invalid data is tried again.
WriteFails(w) ==
    /\ At(w, "write")
    /\ faults < MaxFaults
    /\ faults' = faults + 1
    /\ Goes(w, "end", "transient")
    /\ UNCHANGED <<task, wait, listed, jobs, stage, lock, landed>>

-----------------------------------------------------------------------------
(* The end of a visit: the owner empties the directory, then settles.      *)

\* Mutant: a directory that was never pinned cannot be cleaned.
PinnedCleanable(w) == Claim(w).pinned /\ stage.dir # "fresh"

\* _cleanup_stage refuses a directory that is not the claim's.
Cleanable(w) == Claim(w).pinned => stage.dir # "fresh"

\* heartbeat_external_wait_transition, then _cleanup_stage.
Clean(w) ==
    /\ At(w, "clean")
    /\ IF Owns(w) /\ (Claim(w).verdict = "cancel" => Cleanable(w))
       THEN /\ stage' = IF Claim(w).pinned /\ stage.dir = "pinned"
                        THEN [stage EXCEPT !.file = FALSE] ELSE stage
            /\ Goes(w, "end", Claim(w).verdict)
            /\ UNCHANGED lock
       ELSE UNCHANGED stage /\ Unlocks(w)
    /\ UNCHANGED <<task, wait, listed, jobs, landed, faults>>

\* An empty directory of the claim's is removed once the task has settled.
StageRemoved == [stage EXCEPT !.dir = IF @ = "pinned" THEN "absent" ELSE @]

\* cancel_external_wait_after_success
EndCancels(w) ==
    /\ At(w, "end") /\ Claim(w).verdict = "cancel"
    /\ IF Owns(w) /\ task.cancel /\ Cancellable
       THEN SettlesUnstaged("cancelled", "cancelled_after_success") /\ stage' = StageRemoved
       ELSE UNCHANGED <<task, wait, stage>>
    /\ Unlocks(w)
    /\ UNCHANGED <<listed, jobs, landed, faults>>

\* finish_external_wait_publication
EndFinishes(w) ==
    /\ At(w, "end") /\ Claim(w).verdict = "finish"
    /\ IF Owns(w) /\ wait.phase = "publishing"
       THEN SettlesUnstaged("done", "published") /\ stage' = StageRemoved
       ELSE UNCHANGED <<task, wait, stage>>
    /\ Unlocks(w)
    /\ UNCHANGED <<listed, jobs, landed, faults>>

\* fail_external_wait_finalization
EndFails(w) ==
    /\ At(w, "end") /\ Claim(w).verdict \in {"invalid", "transient"}
    /\ IF Owns(w) /\ wait.phase \in {"downloading", "publishing"}
       THEN IF Claim(w).verdict = "invalid"
            THEN SettlesUnstaged("failed", "finalization_failed") /\ stage' = StageRemoved
            ELSE /\ wait' = [wait EXCEPT !.owner = Nobody]
                 /\ UNCHANGED <<task, stage>>
       ELSE UNCHANGED <<task, wait, stage>>
    /\ Unlocks(w)
    /\ UNCHANGED <<listed, jobs, landed, faults>>

\* The worker's process dies: the system drops its file lock.
Crash(w) ==
    /\ ~At(w, "idle")
    /\ faults < MaxFaults
    /\ faults' = faults + 1
    /\ Unlocks(w)
    /\ UNCHANGED <<task, wait, listed, jobs, stage, landed>>

-----------------------------------------------------------------------------
ClaimTask(w) == ClaimCancels(w) \/ ClaimFails(w) \/ ClaimRuns(w)

\* What a live worker goes on to do.
Work(w) ==
    \/ Call(w) \/ Commit(w)
    \/ FindsBusy(w) \/ Prepare(w) \/ Pin(w) \/ Download(w) \/ CommitDownload(w)
    \/ Discard(w) \/ OpenStage(w) \/ Write(w) \/ WriteFails(w)
    \/ Clean(w) \/ EndCancels(w) \/ EndFinishes(w) \/ EndFails(w)

Next ==
    \/ RequestCancel \/ Retry \/ DeadlinePasses \/ LeaseLapses
    \/ ListOverdue \/ Expire \/ ProviderEnds
    \/ \E w \in Workers : ClaimTask(w) \/ Work(w) \/ TimerFires(w) \/ Crash(w)

\* The recovery loops go on claiming, workers go on working, a lease that
\* nobody renews lapses and the deadline comes.  The provider owes nothing.
Fairness ==
    /\ WF_vars(DeadlinePasses)
    /\ WF_vars(LeaseLapses)
    /\ WF_vars(\E w \in Workers : ClaimTask(w))
    /\ \A w \in Workers : WF_vars(Work(w))

Spec == Init /\ [][Next]_vars /\ Fairness

-----------------------------------------------------------------------------
(* Properties.                                                             *)

Phases == {"unsubmitted", "submitting", "accepted", "running", "provider_succeeded",
           "downloading", "downloaded", "publishing", "published", "provider_failed",
           "provider_cancelled", "finalization_failed", "cancelled_before_submit",
           "cancelled_after_success"}

\* Types; a settled or unclaimed task has no owner, polls stay in the
\* budget, and the lock is held by a worker in the middle of its visit.
TypeOK ==
    /\ task \in [status : TerminalStatus \cup {"queued", "running"}, cancel : BOOLEAN,
                 attempt : Attempts]
    /\ wait \in [phase : Phases, handle : 0 .. MaxAttempts, polls : 0 .. MaxPolls,
                 owner : Workers \cup {Nobody}, pinned : BOOLEAN, overdue : BOOLEAN]
    /\ listed \in BOOLEAN
    /\ jobs \in [Attempts -> {"none", "running", "succeeded", "cancelled"}]
    /\ stage \in [dir : {"absent", "fresh", "pinned"}, file : BOOLEAN]
    /\ lock \in Workers \cup {Nobody}
    /\ worker \in [Workers ->
          [pc : {"idle", "call", "commit", "lock", "pin", "download", "evidence", "write",
                 "clean", "end"},
           action : {"none", "download", "publish", "cancel_after_success"},
           attempt : Attempts, handle : 0 .. MaxAttempts, cancel : BOOLEAN, pinned : BOOLEAN,
           verdict : {"none", "transient", "invalid", "handle", "running", "succeeded",
                      "failed", "cancelled", "cancel", "finish"}]]
    /\ landed \in 0 .. MaxAttempts
    /\ faults \in 0 .. MaxFaults
    /\ Terminal => wait.owner = Nobody
    /\ lock # Nobody => ~At(lock, "idle")

\* A cancelled attempt left no job running at the provider and published
\* nothing, whatever late workers of it still do.
CancelledLeavesNothing ==
    task.status = "cancelled" => jobs[task.attempt] # "running" /\ landed # task.attempt

\* The handle on record is the job of the latest attempt, and the provider
\* knows it: a late submission of an earlier attempt is not taken for it.
HandleIsTheAttempts ==
    wait.handle # 0 => wait.handle = task.attempt /\ jobs[task.attempt] # "none"

\* A task is done only if its dataset has been published.
DoneHasLanded == task.status = "done" => landed # 0

\* A settled task changes only by a retry, which raises its attempt.
TerminalIsFinal ==
    [][Terminal => \/ task' = task /\ wait'.phase = wait.phase
                   \/ task'.attempt = task.attempt + 1]_vars

\* The directory on record is no longer the one in place.
Displaced == wait.pinned /\ stage.dir # "pinned"

\* The task settles in time, unless its staging directory was replaced.
SettlesUnlessDisplaced == ~Terminal ~> (Terminal \/ Displaced)

=============================================================================
