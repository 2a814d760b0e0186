# Verification of Data Playground's durable execution

Data Playground is a FastAPI hub (`src/kernel/hub`) in front of a SQL metadata
database (SQLite for one process, PostgreSQL under READ COMMITTED for several),
with per-canvas kernel processes that execute runs in child processes, durable
tasks that survive restarts, jobs in external systems, and managed files that
runs write and others read. Several hubs may share one database
(`src/deploy/README.md`), and every kernel shares it as well. This directory
holds TLA+ modules of the protocols in it, the TLC runs that check them and TLAPS
proofs about them. `PROJECT.json` maps each definition to the lines it models.

## Inventory

| Component | State | Operations | Hard parts | What must hold |
|---|---|---|---|---|
| Durable task ledger (`metadb.py` 738-900, 8631-11000) | task, attempt and inbox rows | submit, claim, heartbeat, finish, cancel, retry, recovery scan | lease expiry, fenced owners, attempt exhaustion, repeated retries | one open attempt; an open task is claimable; notifications truthful and complete; outcomes final |
| Write publication and task workers (`metadb.py` 21079-21950, `durable_tasks.py`, `keyed_upsert_tasks.py`, `restore_revision_tasks.py`, `merge_columns_tasks.py`, `local_writes.py`, `plugins/runner.py`) | revision ledger with receipts, write intents, the threads | admit, stage, publish, recover, settle | lost commit responses, stalls beyond the lease, crashes, several hubs | one revision per task; no lost revision; a committed write is reported as done |
| External wait tasks (`metadb.py` 832-863, 10304-10745, `external_wait_tasks.py`) | the wait's row, the provider's jobs, the staging directory and its lock | claim, call, commit, pin, download, publish, settle, expire | calls given up but not stopped, late owners, cancellation at every phase | true and final outcomes, no job left behind a cancellation |
| Backend jobs (`metadb.py` 15064-16435, `run_controller.py`, plugin `dp_ray`) | submission and publication state with leases, the plan | claim, submit, observe, fence, stop, reconcile, publish | requests that arrive late, a backend that forgets, publishers that die | terminal evidence stays true; one frozen plan; a fence excludes the workload |
| Local results (`metadb.py` 16942-18105, `storage.py`, `subprocess_runner.py`) | artifact rows, references, files, lock files | begin, commit, read, own, reconcile, reclaim, delete, sweep | transactions against the file system, inherited locks, crashes | nothing referenced is deleted, everything else is |
| Kernel lease and run dispatch (`metadb.py` 24205-24494, 12026-12115, `kernel_backend.py`, `kernel.py`, `routers/runs.py`, `main.py`) | lease row per canvas, run state, kernel processes | claim, spawn, ready, heartbeat, drop, reap; dispatch claim, POST, stamp | read-then-write without locks, zombie kernels, lost answers, boot recovery | one dispatcher; the run reports its job; settled is settled; every run settles |
| Run states (`metadb.py` 14321-14845) | status, stamp, terminal fence, result references | save, fence, retention | several writers of one status | monotone status |
| Linear checkpoints (`metadb.py` 17066-17690, `linear_checkpoint.py`, `linear_checkpoint_tasks.py`, `storage.py`) | checkpoint row, artifact rows, files and locks, the threads | claim, retire, reserve, materialize, bind, commit, abort, reopen, publish, delete the canvas, reap | attempts that overlap, unknown commits, crashes between row, lock and bytes | committed evidence is final and whole; what is retired goes |
| Merge columns, sparse output, bounded fan-out, distribution reports | items and members per task | stage, commit, resume | resumption of a part | reuse only of what was committed |
| Object attempts (`metadb.py` 18109-19640, `handoff.py`, `run_controller.py`, `plugins/runner.py`) | attempt rows, references, leases, inventories, the objects in the store, the result cache | allocate, write, commit, publish, pin, read, own, forget, expire, delete, verify | writes that arrive late, leases instead of locks, reapers that lost their claim, cache replacement | what is referenced or read is whole; what is deleted stays empty; the rest is deleted or set aside |
| Workspace and catalog (`metadb.py` 3269-4931, 22089 on) | folders, placements, lineage | move, rename, edit under versions | opposite moves, all behind one write mutex (3395) | the tree stays a tree |
| Settings and canvas versions (`metadb.py` 24566-24707) | revisions | compare and set | stale editors | no lost update |
| Profiles, previews, relation cache | tokens, projections, registries | admit, cancel, evict | late results | latest wins |
| Compiler, SQL engine, adapters, routers, auth, web front end | - | - | sequential or pure I/O | not modelled |

Calls go from routers to `metadb` transactions and to background threads; the
database is the only state the processes share, but for the file system
(`LocalResult`, `ExternalWait`) and the systems outside (Ray, a provider). Each
transaction is therefore the natural unit of an action; where one reads without
a lock and writes later it is split, and so is everything a process does between
two transactions that another may see.

## Modules

| Module | What it models |
|---|---|
| `TaskOutcome` | abstract promise of a durable task: settles, is announced once per settlement, done is final and needs a landed write |
| `DurableTask` | the task ledger; any owner may call any transaction at any time |
| `DurableWrite` | the workers, hubs and the revision ledger, composed with the ledger (`Ledger == INSTANCE DurableTask`) |
| `ExternalWait` | a task that waits for a job at a provider, downloads its result and publishes it |
| `BackendJob` | a run in Ray: submission, fences, stop control, reconciliation, publication |
| `LinearCheckpoint` | a task that saves its first phase in a hidden file and publishes from it, composed with the ledger |
| `LocalResult` | a result's row, references, file and lock file, its writer, child and readers, and the reclamation |
| `ObjectAttempt` | result generations in an object store: their writers, the cache, readers under leases, and the reapers |
| `KernelRun` | kernel lease, kernel processes, submissions, POST and retries, run states, reapers |
| `DurableTask_proofs`, `DurableWrite_proofs`, `ExternalWait_proofs`, `BackendJob_proofs`, `LinearCheckpoint_proofs`, `LocalResult_proofs`, `ObjectAttempt_proofs`, `KernelRun_proofs` | theorems about the modules they are named after |
| `MC...` | the small instances TLC checks |

An operator whose comment begins with "Mutant" is a plausible bug. PROJECT.json
says which definition it would replace and which property it breaks.

### DurableTask

A task row is `taskStatus`, `cancelRequested`, `retryCount`, `taskError`,
`lastAttempt`; `attempts[t][n]` is the row with attempt number `n` and
`inbox[t][n]` the inbox item about it. `Claim` is `_claim_durable_task_kind`,
divided by its branches: reconcile with a landed receipt, exhaust, cancel, run.
Its side effects (fencing the previous attempt, counters, inbox item) are part of
the branch. Leases are reduced to live or not; `LeaseExpires` is the passage of
time, so a heartbeat that renews a live lease changes nothing. Two kinds differ
inside the ledger: `FencedTasks` re-check their attempt in the publication's
transaction (`_lock_merge_columns_publication_fence`), the others do not;
`StaleFinal` is the set of tasks whose stale-destination failure may not be
retried. A claim that cannot read a receipt goes on as if there were none
(`_finish_task_with_landed_write_receipt` swallows the exception); `Unreadable` are
the tasks this may happen to, hence `FindsNoReceipt`. Owners and outcomes are left
open: DurableWrite restricts them.

### DurableWrite

A worker is one call of `_worker`; each of its metadata transactions is an
action: `Begin` (heartbeat), `Admit`, `WriteArtifact`, `Publish`, `Recover`
(receipt lookup), `Fail`, `Finish`. A lost response makes `Publish` or `Finish`
raise before or after their commit. `Dispatch` respects the per-process table of
running tasks; a crash empties it. A managed-local task (`RunnerTasks`) executes
in a thread that a supervisor abandons (`Detach`) when the lease is gone, and any
exception of its supervisor ends in `failed`. Reading a receipt may fail for the
`Unreadable` tasks; their worker then reports the attempt as failed or cancelled. A
worker that has published asks once more whether it should stop and, if so, reads
the receipt again: what it finds is what it has, so only the failure of this read
is an action (`RecheckRaises`).

### ExternalWait

`task` is the row of the task with its latest attempt, `wait` the row of the wait
with the owner token of its lease, `jobs` what the provider knows. A worker
carries its claim, as read by `claim_external_wait_transition`, and its control
state. The provider is called under the attempt's idempotency key; the adapter's
contract (`docs/PLUGINS.md`) is that the same key returns the same job, which is
why the handle of an attempt is its number here. The code gives every adapter
call one second and then settles the lease with a transient failure, while the
call goes on in its thread: `TimerFires` commits the failure and leaves the
worker where it was. The staging directory is entered under one advisory file
lock per task (`_stage_lock`); `Prepare`, `Pin`, `Download`,
`CommitDownload`, `Discard`, `OpenStage`, `Write`, `Clean` and `End...` are the
steps of a visit. A directory is `fresh` until the row records it, then `pinned`.
Expiry lists overdue waits in one transaction (`ListOverdue`) and fails each in
another (`Expire`). A download or a publication may fail and be tried again; the
code sets no limit to how often, the model does (`MaxFaults`).

### BackendJob

`job` is the row of `run_backend_jobs`: the submission state, its lease owner,
the intents to stop, the publication state, its lease owner and the frozen plan.
Each hub has a supervisor that goes through the loop of `_supervise_jobs`:
refresh, find the job, note or persist what was found, claim and send a request,
settle, publish. Ray is `remote`: the one job it knows under the run's
submission ID; a request to submit waits in `inFlight` after its sender may have
stopped waiting, and Ray forgets jobs when its head restarts
(`RemoteForgets`). A lease is not timed: whoever looks finds it live or
lapsed.

### LinearCheckpoint

`checkpoint` is the row of `durable_checkpoints` (the phase `gone` when its canvas
is deleted), `row`, `leases`, `data` and `lockFile` are an artifact per generation,
and `worker[n]` is the thread of attempt `n`. Each claim opens an attempt and each
attempt is run by one thread, so one number names the attempt, its thread and the
generation it may reserve. Each transaction is an action (`Recover`, `Reserve`,
`Bind`, `Commit`, `Abort`, `AcquireRead`), and so is each step on the files that
another may see: the lock file is created empty (`CreateLock`) and gets its token
later (`FenceLock`), then the data file is created (`CreateFile`), written and
proved (`WriteAndProve`). `Bind` and `Commit` may take effect and still raise; the
writer then asks what became of the checkpoint (`Reconcile`), and may get no
answer. `Land` is the publication of DurableWrite, of which only the receipt
matters here. The reapers find a file locked or not (`ReapLocked`, `MissLock`),
in any process. No action stands for `reattach`: a worker asks once, before its
attempt has reserved anything. `release_checkpoint` has no caller but the tests
and the conformance suite.

### LocalResult

`row`, `refs` are the registry's row and its references (durable owners and read
leases), `file` says whether there are bytes, `lockFile`, `shared` and
`exclusive` the lock file and who holds locks on its inode. Every registry
transaction locks the registry row first, so each is one action; file-system
steps lie between. A child inherits its parent's descriptor and with it the
lock, so `Crash` of the parent's process leaves `Child` in `shared`.
`prune_results` is a cleaner: `PickSuspect`/`ExcludeSuspect`/`ReconcileDead`
declare a writer dead, `ClaimReclaim`/`LockForDelete`/`DeleteRow`/`UnlinkLock`
delete what nobody refers to in two phases, `ExcludeForSweep`/`SweepLock` remove
orphan lock files.

### ObjectAttempt

A run writes at most one attempt, so attempts are named by their runs. `row` is
the registry's row with its delete claim, `cache`, `kept` and `pin` are the
references of the result cache, of a run's terminal state and of a pinned cache
hit, `objects` and `flying` what the store holds and what may still reach it. An
attempt consists of a `shard`, the `manifest`, written last, and perhaps a `late`
write. Every
registry transaction locks the attempt's row, so each is one action, and `Dropped`
is the rule that each of them applies to an attempt that lost a reference. Full
runs publish by their run state (`Own`) and then offer the result to the cache;
regions publish through the cache and consume what the cache names
(`PutCache`, `ReadBack`, `Attest`), another run's result included (`Yield`). A
reaper claims an attempt, lists it, and then checks its claim, erases a member
and acknowledges it, member by member; after a quiet period somebody verifies that
nothing is left. A listing and the transaction that follows it are one step. A
reaper has one claim at a time, so the holder stands for the delete epoch.

### KernelRun

`lease` is the `Kernel` row; `fresh` stands for a heartbeat younger than
`KERNEL_STALE_S`. `claim_kernel` locks the row and is one action; ready,
heartbeat and drop read unlocked and write by primary key, hence `...Begins` and
`...Commits`, and so do the reapers: `ReadStaleLeases`/`DeleteStaleLeases`,
`ReadLiveKernels`/`FailOrphans`. `FailOrphans` filters and locks its rows in one
statement. A request is the control state of the submission route: ensure a
kernel, claim the dispatch, ensure again, POST, react. `_post` resends after a
lost answer (`MaxPosts` for `connect_retries`), and each delivery is a job of its
own, as the kernel does not recognise a repeat. A booting hub or kernel runs the
reapers with `boot` set, which also takes unstamped runs. A run failed by a
reaper has the status "interrupted" here, for the properties; the code writes
`failed`. `Posts` with a job "rejected" were failed by the kernel itself,
"refused" raised before a worker started, a child that could not be spawned
included. `JobStarts` is the start of the child and the status that stamps the run:
nothing looks at the one without the other in between. A first status that is not
written (`_emit` swallows the exception) is not modelled. `CheckDispatch` reads the
status, the stamp and the absence of a backend job at once; no other step makes
their order matter, since a run that is stamped or settled stays so.

## Runs

| Run | Shows | Instance |
|---|---|---|
| `task_ledger` | the ledger's invariants and step properties, and that it implements `TaskOutcome` (`KeepsPromise`) | one task (transactions touch one task's rows only), two owners, three attempts, two retry identities: enough for a superseded owner, an exhaustion and a retry after it |
| `durable_write` | a write under the fence is never misreported, detached threads never publish twice, the workers use the ledger as `DurableTask` allows (`UsesLedger`), every task settles, a committed write ends as done | two hubs, two workers; one submission (`MaxSubmitted`), of a fenced task, of one without the fence whose receipt reads may fail, or of one with a runner thread; two attempts, one foreign revision, two faults (crash, lost response, failed read) |
| `external_wait` | what settles is final and true, a cancellation leaves nothing behind, and a wait settles | two workers, two polls, two attempts, one fault (lapsed lease of a worker, crash or transient failure) |
| `backend_job` | fences exclude the workload, evidence stays true, the plan is frozen once and replayed, a stop prevents the first submission | two supervisors, both intents, Ray forgets once |
| `linear_checkpoint` | the checkpoint, its artifacts and bytes agree; committed evidence is final and a reader keeps it; what was retired, aborted or released is reclaimed | two attempts, one retry identity, three faults (crash, lost response, failed read-back) |
| `local_result` | references and locks keep what they must, bytes have rows, and what nobody refers to goes | one result, two readers, another owner, one cleaner, two processes, three faults |
| `object_attempt` | what is referenced or read under a lease is whole, a manifest vouches for its data, what is deleted stays empty, and what nobody publishes is deleted or set aside | a full run, a region run, one reader, two reapers, two deletions, one fault (crash, late write, failed request, lapsed lease of a working holder) |
| `kernel_run` | one dispatcher, true outcome, final status | two submissions of one run, two kernels, two POSTs each, one missed heartbeat, one fault |
| `kernel_live` | every run settles, every zombie leaves | one submission, two kernels, one missed heartbeat, two faults |
| `stale_evidence`, `repeated_run`, `misreaped_run` | the findings below | smallest instance with the race |

In `kernel_live` two kernels are as many as one submission can need, since it
ensures a kernel twice. A hub that crashes restarts at once: its boot recovery is
what ends the runs it had claimed and not delivered. In `local_result` a single
result suffices because no transaction or lock of one result looks at another;
two readers and the writer are what a cleaner can race with, and the two
processes separate the kernel (writer, one reader) from the hub (reader,
cleaner). In `external_wait` a second attempt is enough for a late worker of the
first; the second worker is the one that takes over. In `object_attempt` the two
runs have the same cache key, which makes them meet in the cache; two reapers are
a late one and the one that takes over. One fault is enough for each to be met by
everything else, but not for an attempt to use up its `MaxDeletes` deletions: that
way to quarantine is covered by the proofs only. `AttemptSettles` starts when the
writer is known to have stopped: nobody reclaims an attempt that a crashed writer
left in `writing`, as there is no proof of its end.

In `linear_checkpoint` two attempts are a late one and the one that takes over, at
any distance; three faults let a commit's answer and the read-back be lost and the
process crash on top of it.

The type invariants are proved for every module; the runs leave them to the proofs,
as they do with `DoneHasReceipt`, the invariant that a task that is done has its
receipt.

Every bound is a CONSTANT (`Max...`). Faults are bounded so that the state space
is finite; two allow a failure while another is being recovered from. Attempts
and polls are bounded by the code itself (3 and 64), with smaller values in some
runs. `CHECK_DEADLOCK FALSE` is set because a settled system stops. Symmetry is
used where the constants are interchangeable and the run has no liveness property.

### Fairness

* `DurableWrite`, `KernelRun`: weak fairness of every worker's and request's own
  steps (threads are scheduled, HTTP calls have timeouts), the passage of time
  that ends a lease nobody renews, the recovery loop's dispatch of each claimable
  task (`durable_tasks.recovery_loop`), the hub's reaper loop
  (`main._reaper_loop`) and the kernel's heartbeat loop as far as it reacts. A
  worker process ends: the runner has a deadline (`DP_RUN_DEADLINE_S`).
* `ExternalWait`: weak fairness of the deadline, of the lapse of a lease nobody
  renews, of the recovery loop's claims and of a live worker's steps. The
  provider owes nothing: a job may run for ever, and the deadline then settles
  the task.
* `LinearCheckpoint`: weak fairness of each worker's steps (a thread runs until it
  ends or its process dies) and of the maintenance of each generation: every hub
  calls `prune_results` again and again, and none of its steps undoes another.
* `LocalResult`: weak fairness of the steps of a live writer, reader, deleter and
  cleaner and of a child's exit. Strong fairness of a cleaner's visit to a row
  and to a lock file: `prune_results` passes over all of them again and again,
  and a visit is possible only while the cleaner is between two others.
* `ObjectAttempt`: weak fairness of the steps of live runs and reapers, of the
  end of a read, of the arrival or loss of a late write, of time and of the expiry
  of leases. Strong fairness of a reaper's visit to an attempt, as the loop of
  `_object_attempt_reaper_loop` comes round to each of them again.
* `BackendJob`: safety only. Whether a run settles depends on Ray's answers,
  which no fairness the code justifies would state.

No fairness is assumed of faults, submissions, cancels, retries, of a heartbeat,
or of a drop.

## Findings

1. `stale_evidence`: a hub that claimed the submission and stalled submits the
   job again after another hub froze the terminal result and Ray forgot the job.
2. `repeated_run`: `_post` repeats `/run` after a timeout; the kernel starts a
   second worker for the same run.
3. `misreaped_run`: a kernel booting for one canvas fails another canvas's run
   that is queued and not stamped yet.

The details, with the quoted lines, are in PROJECT.json. More observations have no
run of their own. The model does what the code does; the properties leave these
cases out, most of them by a named exception:

* A POST whose answer is lost while the kernel still prepares the run makes the hub
  fail it as never dispatched: the proof is a missing stamp (`routers/runs.py`
  739-746), and the kernel stamps a run only when its worker starts (`kernel.py`
  430-449). The kernel then executes what its row says has failed.
  `TerminalRunIsFinal` keeps the row as it is; nothing excludes the execution.
* A worker whose claim predates the record of the staging directory replaces that
  directory before its own fence is checked (`external_wait_tasks.py` 107), though
  `docs/BACKUP_RESTORE.md` 438 has late external-wait owners "remain fenced". Every
  later claim then finds a directory that is not the one on record and refuses it.
  `SettlesUnlessDisplaced` excepts it.
* A lock file is created and locked in two steps (`storage.py` 1213-1222). A sweep in
  between unlinks its name, and the row begun afterwards has a lock nobody can find.
  Such a row is never committed (`OwnedResultExists`), but if its writer dies first it
  is never reconciled: `ResultSettles` excepts it (`LostItsLock`).
* An expiry of external waits lists the overdue ones in one transaction and fails each
  in another, which asks for an open task only (`metadb.py` 10397-10411). It may fail a
  wait whose job succeeded since, or the fresh attempt of a retry; `TerminalIsFinal`
  is about tasks that have settled.
* For kinds that do not re-check the fence when they publish (`keyed_upsert`,
  `restore_revision`, managed local runs), a stalled worker on a second hub commits
  after its task was settled as failed or cancelled, although the docstring of
  `_finish_task_with_landed_write_receipt` (`metadb.py` 9961) says that recovery
  "never misreports a committed write". `FencedNeverMisreported` is about the kind
  that does; its mutant, the publication without the fence, shows the difference.
* `renew_object_attempt_lease` (`metadb.py` 18911) renews a read lease that is past
  without a look at its attempt, so the fail-closed check of `handoff.py` 558
  passes on an attempt that is being deleted. `ReaderKeepsObjects` is about readers
  whose lease has not lapsed; `Renew` models the revival.
* A lock file of a checkpoint that stays empty under its row (a crash before the
  token is written, `storage.py` 1213-1225, or a sweep that locks it just then)
  cannot be removed: the deletion refuses its token (1414), the sweep refuses
  because the row exists (1576-1581). The row stays `deleting`, although
  `linear_checkpoint.py` 146 leaves "the exact deletion" to the reaper. `Stuck` in
  `LeftoversGo` excepts it, and with it a lease whose lock file is gone: if the
  canvas is deleted while a writer whose commit landed is stalled, its read-back
  finds nothing, so it unlinks the bytes and the lock of a file that may be read
  just then, and a lease that its reader leaves behind in a crash is never cleared.
* A worker stalled between its reservation and its files, whose row was retired
  meanwhile, creates files without a row. If a later attempt has committed by
  then, the read-back (`linear_checkpoint.py` 108-115) takes that commit for its
  own and keeps the file. `LeftoversGo` is about rows.
* A cancellation between the commit of the checkpoint and the publication
  (`linear_checkpoint_tasks.py` 361) finishes the attempt as cancelled without a
  look for a receipt, which a stalled earlier attempt may have landed.

## Proofs

The theorems hold for any values of the constants that satisfy the assumptions
named in the modules. `PROJECT.json` lists the main ones; each proofs module also
proves `TypeOK` of its specification (`TypeCorrect` and its like).

`DurableTask_proofs` proves, for any set of tasks, owners and retry identities
and any attempt limit, `Spec => []LedgerInv`, and from it every invariant the
run `task_ledger` checks. `LedgerInv` is `TypeOK` and, for each task, `TaskInv`:
the conjunction of the checked invariants and a few more (`RowsInOrder`,
`InboxAgreesWithAttempt`, `RetryCountNumbersLastAttempt`), which turn out to be
inductive only together (that an open attempt is the last one needs the numbering
by `retryCount`; that an open task has an open last attempt needs the former; the
truth of the inbox needs both). The proof goes by task: a transaction touches
the rows of one, and `Frame` keeps the others. One lemma per transaction shows
that it preserves `TaskInv`. From the invariant follow the step properties
(`OutcomeIsFinal`, `SupersededAttemptIsFrozen`, `CancelSticks`,
`OneItemPerSettlement`) and `LedgerKeepsPromise`: each step of the ledger is a
step or a stutter of `TaskOutcome` under the mapping that hides attempts.

`DurableWrite_proofs` proves, for any tasks, workers, hubs, retries and faults,
the safety properties of `DurableWrite`. The instance `Proved` of
`DurableTask_proofs` brings the ledger's lemmas to the composition (`SameSteps`:
a transaction of the instance `Ledger` is one of `Proved`). `WorkersUseLedger`
shows that workers and publications take only steps of the ledger, so the
ledger's theorems hold of them. Two facts carry the invariant: the row of a
worker's attempt names it for as long as it works, lease or no lease
(`WorkerRow`), and what it decided to report is true while it may still report
it (`Decided`). The second is why the fence matters. A commit under the fence
means that the worker owns the only running attempt (`OneOpenAttempt`, of the
ledger), so no other worker still holds the verdict "failed" with a live lease
(`CommitPreserves`). That a committed write is never misreported is therefore
proved for the fenced tasks whose receipts can be read (`FencedNeverMisreported`);
the mutant of its run, a commit without the fence, shows that the fence is needed.
Through both mappings the workers keep what `TaskOutcome` promises a client
(`WorkersKeepPromise`), and the step properties of the ledger hold of them:
`WorkersLeaveOutcomes`, `SupersededWorkersAreSilent`, `WorkersKeepCancellation`.

`KernelRun_proofs` proves the safety properties that `kernel_run` checks, for any
runs, canvases, submissions, kernels and faults. The row of a run is inserted
once, by the claim of its dispatch; the submission that inserted it is the only
one that ever posts, and a job exists only by its posts. A job that has ended
stays as it is, so a status once written from it stays true, and what is
terminal is never written again. A reaper fails only what is not terminal.

Three theorems about runs go beyond what the run checks. `KernelsServeTheirCanvas`:
a kernel serves the canvas it was spawned for, and every lease, post, job and
stamp names one of the run's own canvas (`OwnKernels`), though leases are looked
up again, replaced and deleted in between. `EveryRunIsRemembered`: a queued or
running run is with the kernel it is stamped with, or its request is still at
work, or a booting hub's reaper has yet to look at it (`NoRunIsForgotten`). That
is the safety half of `RunSettles`: no order of crashes leaves a run that nobody
will ever settle. It is inductive with the traces a dispatch leaves
(`RecallInv`). `SinglePostsExecuteOnce`: with at most one post per request no run
is executed twice, so that the retries of `_post` are the one cause of what the
run `repeated_run` finds.

`LocalResult_proofs` proves the safety invariants of `LocalResult` for any
results, readers, owners, cleaners, processes and faults. Everything rests on
the lock: an exclusive holder excludes every sharer (`LockExcludes`), a writer, a
child and a guard share the lock for as long as they rely on it (`SharersHold`),
and a cleaner declares them dead only while it has it (`Reconcilers`).
`WriterFollows` ties the row to how far the writer got. One lemma per action.
`ResultsGoForward` says what no step may do (`Forward`): a row goes only from
nothing to writing, ready, deleting and nothing again, the first only by the begin
of its own writer, once; bytes are unlinked only from a row that is being deleted
without references, and only what is ready gains one. It needs one more fact: a
row that is gone is gone with its writer pair (`NoneIsNoRow`).
What is owned has a lock file because what is ready has one (`ReadyIsLockable`): a
commit looks for its name, and whoever unlinks one that it holds has seen the row go
(`Unlockers`); the row cannot come back meanwhile, since its begin needs the lock.

`LinearCheckpoint_proofs` proves the safety properties of `LinearCheckpoint` for any
number of attempts, retries and faults, and that its workers take only steps of the
ledger (`CheckpointUsesLedger`). `CheckpointInv` adds four parts to what is checked:
what is ready is bound and committed (`BindingsHold`), a reader's lease is on a
ready row (`ReadersHold`), how far the writer of the candidate has got
(`WritersFollow`), and that only a landed receipt is reported as done
(`OutcomesHold`). Committed bytes are safe from their own late writer because a
writer that has yet to create its file cannot be the one whose candidate is
committed, and one whose read-back finds another answer is not on it; readers are
safe from the reapers because a lease is cleared only under the exclusive lock.
Most steps move one worker only (`Quiet`, `StayPreserves`). As for `DurableWrite`,
the instance `Proved` of the ledger's proofs gives `CheckpointKeepsPromise`, the
promise of `TaskOutcome` through both mappings, and the ledger's step properties
(`AttemptsLeaveOutcomes`, `SupersededAttemptsAreSilent`, `AttemptsKeepCancellation`).

`ObjectAttempt_proofs` proves the safety properties of `ObjectAttempt` for any
runs, readers, reapers, deletions and faults. `AttemptsInv` has a part for each
actor: `RefInv` (referenced is the same as published), `AttemptInv` (what a state
says of the store), `RunInv` (what a run relies on at each step), `ReaderInv` and
`CleanerInv`. A reaper that lost its claim still deletes a member: it is
harmless because an attempt that was once claimed never leaves the doomed states,
its objects and what is left of its inventory only dwindle, the manifest first,
and no reader whose lease has not lapsed is on it. `GenerationsGoForward` states
the order of the states itself (`Order`, and quarantine from all that is not
`SetAside`), with what a step may do to the objects: nothing but its own run's
writes adds data or a manifest, and nothing goes before its deletion is claimed.
The order needs a second invariant, `HolderKnows`, which the theorem `HoldersKnow`
states: a reaper whose claim still stands finds the attempt in the state of that
claim, because every step that ends a deletion takes the claim away (`Turns`).

`ExternalWait_proofs` proves the safety properties of `ExternalWait` for any
workers, polls, attempts and faults. A late worker is harmless because it is
either of an earlier attempt, whose number is in everything it does, or not the
owner (`OwnerIsCurrent`, `NothingAhead`); what an answer says of the job stays
true (`VerdictsHold`), and the phase bounds how far the latest attempt can have
got, late workers included (`PhaseBounds`). Most actions add nothing to what is
known of the job and share the lemma `MovesPreserve`.

`BackendJob_proofs` proves every property the run `backend_job` checks, for any
supervisors, intents and number of losses. A supervisor looks at Ray, looks at
the row and acts, each in a step of its own, so the question is what may be
relied on later. Four facts stay true once they are (`Known`: Ray has the job or
has lost it for good; `FenceHolds`; `HasEnded`; `Over`: it does not execute and
never will), as long as Ray forgets nothing or one supervisor is at work
(`Quiet`), the condition the run `stale_evidence` shows to be needed. `QuietInv`
says which of them each state of the row (`RowRelies`) and each step of a
supervisor (`ReliesOn`) rests on. A step of a supervisor preserves them if it
moves the row (`RowMoves`) and its own state (`SupervisorMoves`) only as they
allow (`StepPreserves`); a step of Ray if no fact becomes untrue
(`RayPreserves`). `FrozenPlansStay` and `StoppedAttemptsStayQueued` are about
steps and follow from the same invariant.

Leaves are kept small: each closes in a fraction of the provers' default time limits.

Only model-checked: the liveness properties, since fairness and ENABLED are out of
the prover's reach. Three properties are violated, as the runs that expect it show,
and are not theorems.

## Not modelled

Left out of the modules above: the files behind revisions and their retention;
previews, profile runs and cancellation in kernels; retention of run states; the
per-kind payload of tasks; quotas and the registry's identity; what a provider's
answer contains; of object attempts the sinks and their catalog publication, the
reuse of allocation keys, object versions and multipart uploads, the claims on
namespaces, and the limits of a batch.

Merge columns, sparse outputs and bounded fan-out tasks above the ledger and the
checkpoints, profile admission and projections, previews and the relation cache,
settings and workspace edits have protocols of their own that would be next, in
this order. The last ones are single transactions behind one lock or one revision
check. Of linear checkpoints the release by hand, the audit after a restore and the
content of the evidence (rows, hashes, schema) are left out.

Compiler, SQL engine, node library, adapters, authentication and the web client
are sequential or pure I/O. The share of the implementation the modules map is
small because most of it is such code: request validation, data models, queries,
the user interface.
