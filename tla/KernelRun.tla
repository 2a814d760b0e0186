------------------------------ MODULE KernelRun ------------------------------
(***************************************************************************)
(* Canvas kernels and the runs they execute: the kernel lease and the run  *)
(* states of hub/metadb.py, shared by the requests and the reaper of every *)
(* hub process (hub/routers/runs.py, hub/kernel_backend.py, hub/main.py)   *)
(* and by the kernel processes (hub/kernel.py).                            *)
(*                                                                         *)
(* A claim of the lease locks its row and is one action.  The kernel's own *)
(* transactions and the reaper's read the row unlocked and write it later  *)
(* by its primary key, so a read and its write are two actions.  Database  *)
(* time is abstracted to whether a lease is fresh.                         *)
(***************************************************************************)
EXTENDS Integers

CONSTANTS
    Canvases,
    Kernels,      \* identities minted for kernel processes
    Hubs,         \* hub processes
    Runs,         \* admitted local runs
    CanvasOf,     \* the canvas of each run
    Requests,     \* HTTP submissions and replays, one use each
    HubOf,        \* the hub that serves each request
    NoKernel,     \* the NULL kernel identity
    NoRun,        \* a request that has not begun
    MaxPosts,     \* bound: how often a request posts its run (connect_retries)
    MaxStale,     \* bound: how often a lease misses its heartbeats
    MaxFaults     \* bound: crashed processes, wedged kernels, lost responses

ASSUME CanvasAssumption == Canvases # {} /\ CanvasOf \in [Runs -> Canvases]
ASSUME HubAssumption == HubOf \in [Requests -> Hubs]
ASSUME NullAssumption == NoKernel \notin Kernels /\ NoRun \notin Runs
ASSUME ProcessAssumption == Hubs \cap Kernels = {}
ASSUME KernelBounds == MaxPosts \in Nat /\ MaxStale \in Nat /\ MaxFaults \in Nat

VARIABLES
    lease,     \* the Kernel row of each canvas; holder NoKernel when absent
    kernel,    \* the kernel processes and their open transaction
    request,   \* the control state of each request
    job,       \* what each POST of a run came to in the kernel it reached
    run,       \* RunState: status and kernel_id
    reaper,    \* the reaper of each hub, and of each kernel while it boots
    stales, faults

vars == <<lease, kernel, request, job, run, reaper, stales, faults>>

\* "interrupted" is the failure that reap_orphaned_runs writes.
Terminal == {"done", "failed", "cancelled", "interrupted"}
Processes == Hubs \cup Kernels
Posts == Requests \X (1 .. MaxPosts)

NoLease == [holder |-> NoKernel, state |-> "none", endpoint |-> NoKernel, fresh |-> FALSE]
ReaperOff == [pc |-> "off", boot |-> FALSE, stale |-> {}, live |-> {}]
ReaperBoot == [ReaperOff EXCEPT !.pc = "read", !.boot = TRUE]

Init ==
    /\ lease = [c \in Canvases |-> NoLease]
    /\ kernel = [k \in Kernels |->
          [pc |-> "unborn", canvas |-> CHOOSE c \in Canvases : TRUE, txn |-> "none"]]
    /\ request = [q \in Requests |->
          [pc |-> "new", run |-> NoRun, claimed |-> FALSE, kernel |-> NoKernel, token |-> NoKernel]]
    /\ job = [d \in Posts |-> [kernel |-> NoKernel, pc |-> "none"]]
    /\ run = [r \in Runs |-> [status |-> "absent", stamp |-> NoKernel]]
    /\ reaper = [p \in Processes |-> ReaperOff]
    /\ stales = 0
    /\ faults = 0

-----------------------------------------------------------------------------

Holds(k) == lease[kernel[k].canvas].holder = k
Sent(d) == job[d].pc # "none"
Active(d) == job[d].pc \in {"admitted", "started"}
Canvas(q) == CanvasOf[request[q].run]
Status(q) == run[request[q].run].status
RunOf(d) == request[d[1]].run

Proceed(q, pc) == request' = [request EXCEPT ![q].pc = pc]

\* The request has no further use of the kernel that it waited for.
Leave(q, pc) ==
    request' = [request EXCEPT ![q].pc = pc, ![q].kernel = NoKernel, ![q].token = NoKernel]

Fault == faults < MaxFaults /\ faults' = faults + 1

\* A process that ends takes its jobs with it.
Exit(k) ==
    /\ kernel' = [kernel EXCEPT ![k].pc = "gone", ![k].txn = "none"]
    /\ reaper' = [reaper EXCEPT ![k] = ReaperOff]
    /\ job' = [d \in Posts |->
                 IF job[d].kernel = k /\ Active(d) THEN [job[d] EXCEPT !.pc = "lost"]
                 ELSE job[d]]

\* The terminal fence: a run that settled keeps its status.
WriteStatus(r, status) ==
    run' = IF run[r].status \in Terminal THEN run
           ELSE [run EXCEPT ![r].status = status]

-----------------------------------------------------------------------------
(* Requests.                                                               *)

\* A submission arrives at its hub, or is replayed at another.
Begin(q, r) ==
    /\ request[q].pc = "new"
    /\ request' = [request EXCEPT ![q].pc = "ensure", ![q].run = r]
    /\ UNCHANGED <<lease, kernel, job, run, reaper, stales, faults>>

\* claim_kernel: an absent or stale lease goes to a fresh identity, which
\* the caller then spawns; a fresh lease is used as it is.
ClaimLease(q, k) ==
    /\ request[q].pc = "ensure"
    /\ ~lease[Canvas(q)].fresh
    /\ kernel[k].pc = "unborn"
    /\ lease' = [lease EXCEPT ![Canvas(q)] =
          [holder |-> k, state |-> "starting", endpoint |-> NoKernel, fresh |-> TRUE]]
    /\ kernel' = [kernel EXCEPT ![k].pc = "minted", ![k].canvas = Canvas(q)]
    /\ request' = [request EXCEPT ![q].pc = "spawn", ![q].kernel = k]
    /\ UNCHANGED <<job, run, reaper, stales, faults>>

LoseLease(q) ==
    /\ request[q].pc = "ensure"
    /\ lease[Canvas(q)].fresh
    /\ Proceed(q, "await")
    /\ UNCHANGED <<lease, kernel, job, run, reaper, stales, faults>>

\* The winner starts the process, which begins with the recovery that every
\* service process runs at boot.
Spawn(q) ==
    /\ request[q].pc = "spawn"
    /\ kernel' = [kernel EXCEPT ![request[q].kernel].pc = "booting"]
    /\ reaper' = [reaper EXCEPT ![request[q].kernel] = ReaperBoot]
    /\ Proceed(q, "await")
    /\ UNCHANGED <<lease, job, run, stales, faults>>

\* The lease is ready: the request goes on to claim the run, or to post it.
AwaitReady(q) ==
    /\ request[q].pc = "await"
    /\ lease[Canvas(q)].state = "ready"
    /\ request' = [request EXCEPT
          ![q].pc = IF request[q].claimed THEN "post" ELSE "claim",
          ![q].kernel = lease[Canvas(q)].endpoint,
          ![q].token = lease[Canvas(q)].holder]
    /\ UNCHANGED <<lease, kernel, job, run, reaper, stales, faults>>

\* No kernel became ready in time.
AwaitTimesOut(q) ==
    /\ request[q].pc = "await"
    /\ lease[Canvas(q)].state # "ready"
    /\ Leave(q, IF request[q].claimed THEN "raised" ELSE "end")
    /\ UNCHANGED <<lease, kernel, job, run, reaper, stales, faults>>

\* Mutant: a replay dispatches a run that is still queued.
ClaimQueuedRun(q) ==
    /\ request[q].pc = "claim"
    /\ IF Status(q) \in {"absent", "queued"}
       THEN /\ run' = [run EXCEPT ![request[q].run].status = "queued"]
            /\ request' = [request EXCEPT ![q].pc = "ensure", ![q].claimed = TRUE]
       ELSE Leave(q, "end") /\ UNCHANGED run
    /\ UNCHANGED <<lease, kernel, job, reaper, stales, faults>>

\* claim_local_run_dispatch: whoever inserts the queued row dispatches the
\* run, a replay adopts it.
ClaimRun(q) ==
    /\ request[q].pc = "claim"
    /\ IF Status(q) = "absent"
       THEN /\ run' = [run EXCEPT ![request[q].run].status = "queued"]
            /\ request' = [request EXCEPT ![q].pc = "ensure", ![q].claimed = TRUE]
       ELSE Leave(q, "end") /\ UNCHANGED run
    /\ UNCHANGED <<lease, kernel, job, reaper, stales, faults>>

\* The endpoint answers, and accepts the token.
Reachable(q) ==
    /\ request[q].kernel = request[q].token
    /\ kernel[request[q].kernel].pc = "serving"

\* One more POST of the run.
Post(q) ==
    /\ request[q].pc = "post"
    /\ IF Reachable(q)
       THEN \E i \in 1 .. MaxPosts :
              /\ \A j \in 1 .. MaxPosts : j < i <=> Sent(<<q, j>>)
              /\ job' = [job EXCEPT ![<<q, i>>] =
                            [kernel |-> request[q].kernel, pc |-> "admitted"]]
              /\ Proceed(q, "posted")
       ELSE Leave(q, "raised") /\ UNCHANGED job
    /\ UNCHANGED <<lease, kernel, run, reaper, stales, faults>>

LastPost(q, d) ==
    \E i \in 1 .. MaxPosts :
        d = <<q, i>> /\ Sent(d) /\ \A j \in i + 1 .. MaxPosts : ~Sent(<<q, j>>)

\* The kernel answers once the worker started or the job was refused; a
\* kernel that died does not, and the answer of a live one may be lost.
\* _post then repeats the request, or gives up.
Response(q) ==
    /\ request[q].pc = "posted"
    /\ \/ /\ \E d \in Posts :
                /\ LastPost(q, d)
                /\ \/ job[d].pc \notin {"admitted", "refused", "lost"} /\ Leave(q, "end")
                   \/ job[d].pc \in {"refused", "lost"} /\ Leave(q, "raised")
          /\ UNCHANGED faults
       \/ /\ Fault
          /\ \/ Leave(q, "raised")
             \/ ~Sent(<<q, MaxPosts>>) /\ Proceed(q, "post")
    /\ UNCHANGED <<lease, kernel, job, run, reaper, stales>>

\* Mutant: every claimed run is taken for dispatched.
AdoptAfterRaise(q) ==
    /\ request[q].pc = "raised"
    /\ Proceed(q, "end")
    /\ UNCHANGED <<lease, kernel, job, run, reaper, stales, faults>>

\* The dispatch raised.  A run that is still queued and carries no kernel's
\* stamp counts as never dispatched.
CheckDispatch(q) ==
    /\ request[q].pc = "raised"
    /\ Proceed(q, IF Status(q) = "queued" /\ run[request[q].run].stamp = NoKernel
                  THEN "fail" ELSE "end")
    /\ UNCHANGED <<lease, kernel, job, run, reaper, stales, faults>>

\* fail_claimed_local_run_dispatch
FailDispatch(q) ==
    /\ request[q].pc = "fail"
    /\ IF Status(q) = "queued" THEN WriteStatus(request[q].run, "failed") ELSE UNCHANGED run
    /\ Proceed(q, "end")
    /\ UNCHANGED <<lease, kernel, job, reaper, stales, faults>>

-----------------------------------------------------------------------------
(* Jobs in a kernel.                                                       *)

\* The worker is started, and save_run_state reports it queued and stamps
\* the run with its kernel, unless the run settled meanwhile.
JobStarts(d) ==
    /\ job[d].pc = "admitted"
    /\ job' = [job EXCEPT ![d].pc = "started"]
    /\ run' = IF run[RunOf(d)].status \in Terminal THEN run
              ELSE [run EXCEPT ![RunOf(d)].status = "queued",
                               ![RunOf(d)].stamp = IF @ = NoKernel THEN job[d].kernel ELSE @]
    /\ UNCHANGED <<lease, kernel, request, reaper, stales, faults>>

\* The kernel finds the admitted inputs unusable and fails the run itself.
JobRejected(d) ==
    /\ job[d].pc = "admitted"
    /\ job' = [job EXCEPT ![d].pc = "rejected"]
    /\ IF run[RunOf(d)].status = "queued" THEN WriteStatus(RunOf(d), "failed") ELSE UNCHANGED run
    /\ UNCHANGED <<lease, kernel, request, reaper, stales, faults>>

\* The job raises before its worker starts.
JobRefused(d) ==
    /\ job[d].pc = "admitted"
    /\ job' = [job EXCEPT ![d].pc = "refused"]
    /\ UNCHANGED <<lease, kernel, request, run, reaper, stales, faults>>

JobRuns(d) ==
    /\ job[d].pc = "started"
    /\ run[RunOf(d)].status = "queued"
    /\ WriteStatus(RunOf(d), "running")
    /\ UNCHANGED <<lease, kernel, request, job, reaper, stales, faults>>

\* Mutant: a worker that exits counts as done.
JobExits(d, outcome) ==
    /\ job[d].pc = "started"
    /\ job' = [job EXCEPT ![d].pc = outcome]
    /\ WriteStatus(RunOf(d), "done")
    /\ UNCHANGED <<lease, kernel, request, reaper, stales, faults>>

JobEnds(d, outcome) ==
    /\ job[d].pc = "started"
    /\ job' = [job EXCEPT ![d].pc = outcome]
    /\ WriteStatus(RunOf(d), outcome)
    /\ UNCHANGED <<lease, kernel, request, reaper, stales, faults>>

-----------------------------------------------------------------------------
(* Kernel processes.                                                       *)

\* The unlocked read of mark_kernel_ready, heartbeat_kernel or drop_kernel:
\* the row is this kernel's.
Open(k, pc, txn) ==
    /\ kernel[k].pc = pc
    /\ kernel[k].txn = "none"
    /\ Holds(k)
    /\ kernel' = [kernel EXCEPT ![k].txn = txn]
    /\ UNCHANGED <<lease, request, job, run, reaper, stales>>

Commit(k, txn, row) ==
    /\ kernel[k].txn = txn
    /\ lease' = [lease EXCEPT ![kernel[k].canvas] = row]

Row(k) == lease[kernel[k].canvas]
RowExists(k) == Row(k).holder # NoKernel

ReadyBegins(k) == Open(k, "binding", "ready") /\ UNCHANGED faults

\* The row is updated by its key; a row that vanished makes the update, and
\* with it the startup, fail.
ReadyCommits(k) ==
    /\ kernel[k].txn = "ready"
    /\ \/ /\ RowExists(k)
          /\ Commit(k, "ready",
                [Row(k) EXCEPT !.state = "ready", !.endpoint = k, !.fresh = TRUE])
          /\ kernel' = [kernel EXCEPT ![k].pc = "serving", ![k].txn = "none"]
          /\ UNCHANGED <<job, reaper>>
       \/ ~RowExists(k) /\ Exit(k) /\ UNCHANGED lease
    /\ UNCHANGED <<request, run, stales, faults>>

\* The lease is no longer this kernel's: marking it ready returns False,
\* which nobody looks at.
ReadyFenced(k) ==
    /\ kernel[k].pc = "binding"
    /\ kernel[k].txn = "none"
    /\ ~Holds(k)
    /\ kernel' = [kernel EXCEPT ![k].pc = "serving"]
    /\ UNCHANGED <<lease, request, job, run, reaper, stales, faults>>

HeartbeatBegins(k) == Open(k, "serving", "heartbeat") /\ UNCHANGED faults

\* An update of a vanished row raises; the heartbeat loop goes on.
HeartbeatCommits(k) ==
    /\ Commit(k, "heartbeat", IF RowExists(k) THEN [Row(k) EXCEPT !.fresh = TRUE] ELSE Row(k))
    /\ kernel' = [kernel EXCEPT ![k].txn = "none"]
    /\ UNCHANGED <<request, job, run, reaper, stales, faults>>

\* Mutant: a heartbeat that finds no row goes on.
HeartbeatReplaced(k) ==
    /\ kernel[k].pc = "serving"
    /\ kernel[k].txn = "none"
    /\ RowExists(k) /\ ~Holds(k)
    /\ Exit(k)
    /\ UNCHANGED <<lease, request, run, stales, faults>>

\* A heartbeat that finds another holder, or none, ends the process.
HeartbeatFenced(k) ==
    /\ kernel[k].pc = "serving"
    /\ kernel[k].txn = "none"
    /\ ~Holds(k)
    /\ Exit(k)
    /\ UNCHANGED <<lease, request, run, stales, faults>>

\* A kernel without a running worker gives up its lease when its idle time
\* is over; so does a wedged one, busy or not.
DropBegins(k) ==
    /\ Open(k, "serving", "drop")
    /\ \/ (\A d \in Posts : job[d].kernel = k => job[d].pc # "started") /\ UNCHANGED faults
       \/ Fault

DropCommits(k) ==
    /\ Commit(k, "drop", NoLease)
    /\ Exit(k)
    /\ UNCHANGED <<request, run, stales, faults>>

KernelCrashes(k) ==
    /\ kernel[k].pc \in {"booting", "binding", "serving"}
    /\ Fault
    /\ Exit(k)
    /\ UNCHANGED <<lease, request, run, stales>>

\* The holder misses its heartbeats.
LeaseGoesStale(c) ==
    /\ lease[c].fresh
    /\ stales < MaxStale \/ kernel[lease[c].holder].pc \in {"minted", "gone"}
    /\ stales' = IF stales < MaxStale THEN stales + 1 ELSE stales
    /\ lease' = [lease EXCEPT ![c].fresh = FALSE]
    /\ UNCHANGED <<kernel, request, job, run, reaper, faults>>

-----------------------------------------------------------------------------
(* Reapers: every hub on a timer, every hub and kernel when it boots.      *)

ReaperWakes(h) ==
    /\ reaper[h].pc = "off"
    /\ reaper' = [reaper EXCEPT ![h].pc = "read"]
    /\ UNCHANGED <<lease, kernel, request, job, run, stales, faults>>

\* reap_kernels: the stale rows are read and then deleted by their keys.
ReadStaleLeases(p) ==
    /\ reaper[p].pc = "read"
    /\ reaper' = [reaper EXCEPT ![p].pc = "delete",
          ![p].stale = {c \in Canvases : lease[c].holder # NoKernel /\ ~lease[c].fresh}]
    /\ UNCHANGED <<lease, kernel, request, job, run, stales, faults>>

DeleteStaleLeases(p) ==
    /\ reaper[p].pc = "delete"
    /\ lease' = [c \in Canvases |-> IF c \in reaper[p].stale THEN NoLease ELSE lease[c]]
    /\ reaper' = [reaper EXCEPT ![p].pc = "live", ![p].stale = {}]
    /\ UNCHANGED <<kernel, request, job, run, stales, faults>>

\* reap_orphaned_runs: the live kernels are read first, the runs after.
ReadLiveKernels(p) ==
    /\ reaper[p].pc = "live"
    /\ reaper' = [reaper EXCEPT ![p].pc = "fail",
          ![p].live = {lease[c].holder : c \in {d \in Canvases : lease[d].fresh}}]
    /\ UNCHANGED <<lease, kernel, request, job, run, stales, faults>>

\* Mutant: settled runs are reaped again.
OrphanedWhateverStatus(p, r) ==
    /\ run[r].status # "absent"
    /\ run[r].stamp \notin reaper[p].live
    /\ run[r].stamp = NoKernel => reaper[p].boot

\* A run without a stamp is taken for one of a previous hub at boot only.
Orphaned(p, r) ==
    /\ run[r].status \in {"queued", "running"}
    /\ run[r].stamp \notin reaper[p].live
    /\ run[r].stamp = NoKernel => reaper[p].boot

FailOrphans(p) ==
    /\ reaper[p].pc = "fail"
    /\ run' = [r \in Runs |-> IF Orphaned(p, r) THEN [run[r] EXCEPT !.status = "interrupted"]
                              ELSE run[r]]
    /\ reaper' = [reaper EXCEPT ![p] = ReaperOff]
    /\ kernel' = IF p \in Kernels THEN [kernel EXCEPT ![p].pc = "binding"] ELSE kernel
    /\ UNCHANGED <<lease, request, job, stales, faults>>

\* A hub process dies with its requests and restarts.
HubCrashes(h) ==
    /\ Fault
    /\ request' = [q \in Requests |->
          IF HubOf[q] = h /\ request[q].pc # "new"
          THEN [request[q] EXCEPT !.pc = "end", !.kernel = NoKernel, !.token = NoKernel]
          ELSE request[q]]
    /\ reaper' = [reaper EXCEPT ![h] = ReaperBoot]
    /\ UNCHANGED <<lease, kernel, job, run, stales>>

-----------------------------------------------------------------------------

RequestStep(q) ==
    \/ \E k \in Kernels : ClaimLease(q, k)
    \/ LoseLease(q)
    \/ Spawn(q)
    \/ AwaitReady(q)
    \/ AwaitTimesOut(q)
    \/ ClaimRun(q)
    \/ Post(q)
    \/ Response(q)
    \/ CheckDispatch(q)
    \/ FailDispatch(q)

JobStep(d) ==
    \/ JobStarts(d)
    \/ JobRejected(d)
    \/ JobRefused(d)
    \/ JobRuns(d)
    \/ \E outcome \in {"done", "failed", "cancelled"} : JobEnds(d, outcome)

\* What the threads of a kernel process do of themselves.
KernelStep(k) ==
    \/ ReadyBegins(k)
    \/ ReadyCommits(k)
    \/ ReadyFenced(k)
    \/ HeartbeatCommits(k)
    \/ HeartbeatFenced(k)
    \/ DropCommits(k)

ReaperStep(p) ==
    \/ ReadStaleLeases(p)
    \/ DeleteStaleLeases(p)
    \/ ReadLiveKernels(p)
    \/ FailOrphans(p)

Next ==
    \/ \E q \in Requests :
          \/ \E r \in Runs : Begin(q, r)
          \/ RequestStep(q)
    \/ \E d \in Posts : JobStep(d)
    \/ \E k \in Kernels :
          \/ KernelStep(k)
          \/ HeartbeatBegins(k)
          \/ DropBegins(k)
          \/ KernelCrashes(k)
    \/ \E c \in Canvases : LeaseGoesStale(c)
    \/ \E h \in Hubs : ReaperWakes(h) \/ HubCrashes(h)
    \/ \E p \in Processes : ReaperStep(p)

\* The lease of a holder that will never heartbeat again.
HolderIsLost(c) == LeaseGoesStale(c) /\ kernel[lease[c].holder].pc \in {"minted", "gone"}

\* Threads are scheduled, lost leases go stale, and reapers come round.
Fairness ==
    /\ \A q \in Requests : WF_vars(RequestStep(q))
    /\ \A d \in Posts : WF_vars(JobStep(d))
    /\ \A k \in Kernels : WF_vars(KernelStep(k))
    /\ \A c \in Canvases : WF_vars(HolderIsLost(c))
    /\ \A h \in Hubs : WF_vars(ReaperWakes(h))
    /\ \A p \in Processes : WF_vars(ReaperStep(p))

Spec == Init /\ [][Next]_vars
FairSpec == Spec /\ Fairness

-----------------------------------------------------------------------------
(* Properties.                                                             *)

\* Every variable holds values of its domain.
TypeOK ==
    /\ lease \in [Canvases ->
          [holder : Kernels \cup {NoKernel}, state : {"none", "starting", "ready"},
           endpoint : Kernels \cup {NoKernel}, fresh : BOOLEAN]]
    /\ kernel \in [Kernels ->
          [pc : {"unborn", "minted", "booting", "binding", "serving", "gone"},
           canvas : Canvases, txn : {"none", "ready", "heartbeat", "drop"}]]
    /\ request \in [Requests ->
          [pc : {"new", "ensure", "spawn", "await", "claim", "post", "posted",
                 "raised", "fail", "end"},
           run : Runs \cup {NoRun}, claimed : BOOLEAN,
           kernel : Kernels \cup {NoKernel}, token : Kernels \cup {NoKernel}]]
    /\ job \in [Posts ->
          [kernel : Kernels \cup {NoKernel},
           pc : {"none", "admitted", "refused", "rejected", "started", "lost",
                 "done", "failed", "cancelled"}]]
    /\ run \in [Runs ->
          [status : {"absent", "queued", "running"} \cup Terminal,
           stamp : Kernels \cup {NoKernel}]]
    /\ reaper \in [Processes ->
          [pc : {"off", "read", "delete", "live", "fail"}, boot : BOOLEAN,
           stale : SUBSET Canvases, live : SUBSET Kernels]]
    /\ stales \in 0 .. MaxStale
    /\ faults \in 0 .. MaxFaults

\* However often a submission is replayed, at whatever hub, one request
\* alone dispatches its run.
OneDispatcher ==
    \A d, e \in Posts : Sent(d) /\ Sent(e) /\ RunOf(d) = RunOf(e) => d[1] = e[1]

\* A run reports what a job of it did: done or cancelled only if a job
\* ended so.  Failure may also be the verdict of a hub.
OutcomeIsTheJobs ==
    \A r \in Runs :
        run[r].status \in {"done", "cancelled"} =>
            \E d \in Posts : RunOf(d) = r /\ job[d].pc = run[r].status

\* What claim_local_run_dispatch promises: no second worker is started for a
\* run, for "repeating a local worker is never safe".
SingleExecution ==
    \A d, e \in Posts :
        LET Executed(f) == job[f].pc \in {"started", "done", "failed", "cancelled"} IN
        Executed(d) /\ Executed(e) /\ RunOf(d) = RunOf(e) => d = e

\* Settled runs stay settled: no late status of a zombie kernel, no reaper
\* and no failed dispatch replaces an outcome.
TerminalRunIsFinal ==
    [][\A r \in Runs :
          run[r].status \in Terminal => run'[r].status = run[r].status]_vars

\* What reap_orphaned_runs promises: a run that is with a kernel which the
\* recovery itself found live is left running.
LiveRunIsSpared ==
    [][\A p \in Processes : \A d \in Posts :
          Active(d) /\ job[d].kernel \in reaper[p].live
          /\ run[RunOf(d)].status \notin Terminal
          => run'[RunOf(d)].status # "interrupted"]_vars

\* A run that was queued settles: no dead hub, dead kernel or lost answer
\* leaves its client waiting for ever.
RunSettles ==
    \A r \in Runs : run[r].status \in {"queued", "running"} ~> run[r].status \in Terminal

\* A kernel that lost its lease leaves: two kernels do not serve a canvas
\* for ever.
ZombieExits ==
    \A k \in Kernels : kernel[k].pc = "serving" /\ ~Holds(k) ~> kernel[k].pc = "gone"
=============================================================================
