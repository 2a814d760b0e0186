--------------------------- MODULE KernelRun_proofs ---------------------------
(***************************************************************************)
(* Theorems about KernelRun, for any canvases, kernels, hubs, runs and     *)
(* requests.                                                               *)
(*                                                                         *)
(* The row of a run is inserted once, by whoever finds it absent; that     *)
(* request alone is its dispatcher, and only a dispatcher posts (Claims).  *)
(* A job that ended stays ended, so the outcome a run took from it stays   *)
(* true (OutcomeIsTheJobs).                                                *)
(***************************************************************************)
EXTENDS KernelRun, TLAPS

\* A dispatcher is at work on a run that is recorded, and is its only one.
Claims ==
    /\ \A q \in Requests :
          /\ request[q].pc # "new" => request[q].run \in Runs
          /\ request[q].pc = "new" => ~request[q].claimed
          /\ request[q].pc \in {"post", "posted"} => request[q].claimed
          /\ request[q].claimed => run[request[q].run].status # "absent"
    /\ \A p, q \in Requests :
          request[p].claimed /\ request[q].claimed /\ request[p].run = request[q].run => p = q
    /\ \A d \in Posts : Sent(d) => request[d[1]].claimed

\* A fresh lease has a holder, which a reaper counts as live.
FreshLeasesAreHeld == \A c \in Canvases : lease[c].fresh => lease[c].holder \in Kernels

\* The inductive invariant.
RunInv == TypeOK /\ Claims /\ FreshLeasesAreHeld /\ OutcomeIsTheJobs

-----------------------------------------------------------------------------
(* Domains.                                                                *)

LeaseRows == [holder : Kernels \cup {NoKernel}, state : {"none", "starting", "ready"},
              endpoint : Kernels \cup {NoKernel}, fresh : BOOLEAN]
KernelRows == [pc : {"unborn", "minted", "booting", "binding", "serving", "gone"},
               canvas : Canvases, txn : {"none", "ready", "heartbeat", "drop"}]
RequestPcs == {"new", "ensure", "spawn", "await", "claim", "post", "posted", "raised", "fail", "end"}
RequestRows == [pc : RequestPcs, run : Runs \cup {NoRun}, claimed : BOOLEAN,
                kernel : Kernels \cup {NoKernel}, token : Kernels \cup {NoKernel}]
JobRows == [kernel : Kernels \cup {NoKernel},
            pc : {"none", "admitted", "refused", "rejected", "started", "lost",
                  "done", "failed", "cancelled"}]
Statuses == {"absent", "queued", "running"} \cup Terminal
RunRows == [status : Statuses, stamp : Kernels \cup {NoKernel}]
ReaperRows == [pc : {"off", "read", "delete", "live", "fail"}, boot : BOOLEAN,
               stale : SUBSET Canvases, live : SUBSET Kernels]

LEMMA TypeParts ==
    TypeOK <=> /\ lease \in [Canvases -> LeaseRows] /\ kernel \in [Kernels -> KernelRows]
               /\ request \in [Requests -> RequestRows] /\ job \in [Posts -> JobRows]
               /\ run \in [Runs -> RunRows] /\ reaper \in [Processes -> ReaperRows]
               /\ stales \in 0 .. MaxStale /\ faults \in 0 .. MaxFaults
BY DEF TypeOK, LeaseRows, KernelRows, RequestRows, RequestPcs, JobRows, RunRows, Statuses, ReaperRows

LEMMA TypesNext ==
    ASSUME lease' \in [Canvases -> LeaseRows], kernel' \in [Kernels -> KernelRows],
           request' \in [Requests -> RequestRows], job' \in [Posts -> JobRows],
           run' \in [Runs -> RunRows], reaper' \in [Processes -> ReaperRows],
           stales' \in 0 .. MaxStale, faults' \in 0 .. MaxFaults
    PROVE  TypeOK'
BY DEF TypeOK, LeaseRows, KernelRows, RequestRows, RequestPcs, JobRows, RunRows, Statuses, ReaperRows

LEMMA ConstantRows ==
    /\ NoLease \in LeaseRows /\ ~NoLease.fresh
    /\ ReaperOff \in ReaperRows /\ ReaperBoot \in ReaperRows
BY DEF NoLease, LeaseRows, ReaperOff, ReaperBoot, ReaperRows

\* One row of a request or a reaper is replaced.
LEMMA RequestReplaced ==
    ASSUME TypeOK, NEW q \in Requests, NEW new \in RequestRows,
           request' = [request EXCEPT ![q] = new]
    PROVE  /\ request' \in [Requests -> RequestRows] /\ request'[q] = new
           /\ \A p \in Requests \ {q} : request'[p] = request[p]
<1>1. request \in [Requests -> RequestRows]
  BY TypeParts
<1> QED
  BY <1>1

LEMMA KernelReplaced ==
    ASSUME TypeOK, NEW k \in Kernels, NEW new \in KernelRows,
           kernel' = [kernel EXCEPT ![k] = new]
    PROVE  kernel' \in [Kernels -> KernelRows]
<1>1. kernel \in [Kernels -> KernelRows]
  BY TypeParts
<1> QED
  BY <1>1

LEMMA ReaperReplaced ==
    ASSUME TypeOK, NEW p \in Processes, NEW new \in ReaperRows,
           reaper' = [reaper EXCEPT ![p] = new]
    PROVE  reaper' \in [Processes -> ReaperRows]
<1>1. reaper \in [Processes -> ReaperRows]
  BY TypeParts
<1> QED
  BY <1>1

LEMMA FaultIsCounted == ASSUME TypeOK, Fault PROVE faults' \in 0 .. MaxFaults
BY TypeParts, KernelBounds DEF Fault

-----------------------------------------------------------------------------
(* How a step may move requests, jobs, runs and leases.                    *)

\* Every request keeps its run, and posts only for one that it has claimed.
RequestsMove ==
    /\ request' \in [Requests -> RequestRows]
    /\ \A q \in Requests :
          /\ request'[q].run = request[q].run
          /\ request'[q].claimed = request[q].claimed
          /\ request'[q].pc = "new" <=> request[q].pc = "new"
          /\ request'[q].pc \in {"post", "posted"} => request[q].claimed

\* No job is sent, and one that ended stays as it ended.
JobsMove ==
    /\ job' \in [Posts -> JobRows]
    /\ \A d \in Posts : /\ job'[d].pc # "none" => Sent(d)
                        /\ job[d].pc \in {"done", "cancelled"} => job'[d].pc = job[d].pc

\* No run vanishes, and a new outcome is that of a job.
RunsMove ==
    /\ run' \in [Runs -> RunRows]
    /\ \A r \in Runs :
          /\ run[r].status # "absent" => run'[r].status # "absent"
          /\ \/ run'[r].status \notin {"done", "cancelled"}
             \/ run'[r].status = run[r].status
             \/ \E d \in Posts : RunOf(d) = r /\ job'[d].pc = run'[r].status

LeasesMove ==
    /\ lease' \in [Canvases -> LeaseRows]
    /\ FreshLeasesAreHeld'

ProcessesMove ==
    /\ kernel' \in [Kernels -> KernelRows] /\ reaper' \in [Processes -> ReaperRows]
    /\ stales' \in 0 .. MaxStale /\ faults' \in 0 .. MaxFaults

LEMMA MovesPreserve ==
    ASSUME RunInv, RequestsMove, JobsMove, RunsMove, LeasesMove, ProcessesMove
    PROVE  RunInv'
<1>1. TypeOK'
  BY TypesNext DEF RequestsMove, JobsMove, RunsMove, LeasesMove, ProcessesMove
<1>2. \A d \in Posts : d[1] \in Requests
  BY DEF Posts
<1>3. Claims'
  <2>1. \A q \in Requests : request[q].claimed => request[q].run \in Runs
    BY DEF RunInv, Claims
  <2> QED
    BY <1>2, <2>1 DEF RunInv, Claims, RequestsMove, JobsMove, RunsMove, Sent
<1>4. OutcomeIsTheJobs'
  <2> SUFFICES ASSUME NEW r \in Runs, run'[r].status \in {"done", "cancelled"}
               PROVE  \E d \in Posts : RunOf(d)' = r /\ job'[d].pc = run'[r].status
    BY DEF OutcomeIsTheJobs
  <2>1. \A d \in Posts : RunOf(d)' = RunOf(d)
    BY <1>2 DEF RunOf, RequestsMove
  <2>2. CASE run'[r].status = run[r].status
    BY <2>1, <2>2 DEF RunInv, OutcomeIsTheJobs, JobsMove
  <2> QED
    BY <2>1, <2>2 DEF RunsMove
<1> QED
  BY <1>1, <1>3, <1>4 DEF RunInv, LeasesMove

\* What a step leaves alone.
LEMMA Same ==
    ASSUME RunInv
    PROVE  /\ UNCHANGED request => RequestsMove
           /\ UNCHANGED job => JobsMove
           /\ UNCHANGED run => RunsMove
           /\ UNCHANGED lease => LeasesMove
           /\ UNCHANGED kernel => kernel' \in [Kernels -> KernelRows]
           /\ UNCHANGED reaper => reaper' \in [Processes -> ReaperRows]
           /\ UNCHANGED stales => stales' \in 0 .. MaxStale
           /\ UNCHANGED faults => faults' \in 0 .. MaxFaults
<1>1. UNCHANGED request => RequestsMove
  BY TypeParts DEF RunInv, RequestsMove, Claims
<1>2. UNCHANGED job => JobsMove
  BY TypeParts DEF RunInv, JobsMove, Sent
<1>3. UNCHANGED run => RunsMove
  BY TypeParts DEF RunInv, RunsMove
<1>4. UNCHANGED lease => LeasesMove
  BY TypeParts DEF RunInv, LeasesMove, FreshLeasesAreHeld
<1> QED
  BY <1>1, <1>2, <1>3, <1>4, TypeParts DEF RunInv

\* A request goes on; to post, only once it has claimed its run.
LEMMA ProceedMoves ==
    ASSUME RunInv, NEW q \in Requests, NEW pc \in RequestPcs \ {"new"}, request[q].pc # "new",
           Proceed(q, pc), pc \in {"post", "posted"} => request[q].claimed
    PROVE  RequestsMove
BY TypeParts DEF RunInv, Claims, Proceed, RequestsMove, RequestRows

LEMMA LeaveMoves ==
    ASSUME RunInv, NEW q \in Requests, NEW pc \in RequestPcs \ {"new", "post", "posted"},
           request[q].pc # "new", Leave(q, pc)
    PROVE  RequestsMove
<1> DEFINE new == [request[q] EXCEPT !.pc = pc, !.kernel = NoKernel, !.token = NoKernel]
<1>1. request[q] \in RequestRows /\ request' = [request EXCEPT ![q] = new]
  BY TypeParts DEF RunInv, Leave
<1>2. /\ new \in RequestRows /\ new.pc = pc
      /\ new.run = request[q].run /\ new.claimed = request[q].claimed
  BY <1>1 DEF RequestRows
<1> HIDE DEF new
<1> QED
  BY <1>1, <1>2, TypeParts DEF RunInv, Claims, RequestsMove

\* The terminal fence, for a status that is no job's outcome.
LEMMA WriteMoves ==
    ASSUME RunInv, NEW r \in Runs, NEW status \in Statuses \ {"absent"}, WriteStatus(r, status),
           \/ status \notin {"done", "cancelled"}
           \/ \E d \in Posts : RunOf(d) = r /\ job'[d].pc = status
    PROVE  RunsMove
<1>1. CASE run[r].status \in Terminal
  BY <1>1, Same DEF WriteStatus
<1>2. CASE run' = [run EXCEPT ![r].status = status]
  BY <1>2, TypeParts DEF RunInv, RunsMove, RunRows
<1> QED
  BY <1>1, <1>2 DEF WriteStatus

LEMMA ExitMoves ==
    ASSUME RunInv, NEW k \in Kernels, Exit(k)
    PROVE  /\ JobsMove
           /\ kernel' \in [Kernels -> KernelRows] /\ reaper' \in [Processes -> ReaperRows]
<1>1. JobsMove
  <2>1. \A d \in Posts : \/ job'[d] = job[d]
                         \/ Active(d) /\ job'[d] = [job[d] EXCEPT !.pc = "lost"]
    BY DEF Exit
  <2>2. job' \in [Posts -> JobRows]
    BY TypeParts DEF RunInv, Exit, JobRows
  <2> QED
    BY <2>1, <2>2, TypeParts DEF RunInv, JobsMove, JobRows, Active, Sent
<1> QED
  BY <1>1, TypeParts, ConstantRows DEF RunInv, Exit, KernelRows, Processes

-----------------------------------------------------------------------------
(* The actions.                                                            *)

LEMMA BeginPreserves ==
    ASSUME RunInv, NEW q \in Requests, NEW r \in Runs, Begin(q, r) PROVE RunInv'
<1> USE DEF RunInv
<1>1. /\ request[q].pc = "new" /\ ~request[q].claimed
      /\ request' = [request EXCEPT ![q].pc = "ensure", ![q].run = r]
      /\ UNCHANGED <<lease, kernel, job, run, reaper, stales, faults>>
  BY DEF Begin, Claims
<1>2. /\ request' \in [Requests -> RequestRows]
      /\ request'[q].pc = "ensure" /\ request'[q].run = r /\ request'[q].claimed = FALSE
      /\ \A p \in Requests \ {q} : request'[p] = request[p]
  <2>1. PICK new : new = [request[q] EXCEPT !.pc = "ensure", !.run = r]
    OBVIOUS
  <2>2. request[q] \in RequestRows /\ request' = [request EXCEPT ![q] = new]
    BY <1>1, <2>1, TypeParts
  <2>3. /\ new \in RequestRows /\ new.pc = "ensure" /\ new.run = r
        /\ new.claimed = request[q].claimed
    BY <2>1, <2>2 DEF RequestRows, RequestPcs
  <2>4. request[q].claimed = FALSE
    BY <1>1, <2>2 DEF RequestRows
  <2> QED
    BY <2>2, <2>3, <2>4, RequestReplaced
<1>3. TypeOK'
  BY <1>1, <1>2, TypeParts, TypesNext
<1>4. \A d \in Posts : d[1] \in Requests /\ (Sent(d) => d[1] # q)
  BY <1>1 DEF Posts, Claims
<1>5. Claims'
  BY <1>1, <1>2, <1>4 DEF Claims, Sent
<1>6. OutcomeIsTheJobs'
  <2>1. \A d \in Posts : Sent(d) => RunOf(d)' = RunOf(d)
    BY <1>2, <1>4 DEF RunOf
  <2> QED
    BY <1>1, <2>1 DEF OutcomeIsTheJobs, Sent
<1> QED
  BY <1>1, <1>3, <1>5, <1>6 DEF FreshLeasesAreHeld

LEMMA ClaimRunPreserves ==
    ASSUME RunInv, NEW q \in Requests, ClaimRun(q) PROVE RunInv'
<1>1. CASE Leave(q, "end") /\ UNCHANGED run
  BY <1>1, LeaveMoves, Same, MovesPreserve DEF ClaimRun, RequestPcs, ProcessesMove
<1>2. CASE /\ Status(q) = "absent"
           /\ run' = [run EXCEPT ![request[q].run].status = "queued"]
           /\ request' = [request EXCEPT ![q].pc = "ensure", ![q].claimed = TRUE]
  <2> USE DEF RunInv
  <2> DEFINE r == request[q].run
  <2>1. r \in Runs /\ run[r].status = "absent" /\ request[q].pc = "claim"
        /\ UNCHANGED <<lease, kernel, job, reaper, stales, faults>>
    BY <1>2 DEF Claims, ClaimRun, Status
  <2>2. /\ request' \in [Requests -> RequestRows]
        /\ request'[q].pc = "ensure" /\ request'[q].run = r /\ request'[q].claimed = TRUE
        /\ \A p \in Requests \ {q} : request'[p] = request[p]
    <3>1. PICK new : new = [request[q] EXCEPT !.pc = "ensure", !.claimed = TRUE]
      OBVIOUS
    <3>2. request[q] \in RequestRows /\ request' = [request EXCEPT ![q] = new]
      BY <1>2, <3>1, TypeParts
    <3>3. new \in RequestRows /\ new.pc = "ensure" /\ new.run = r /\ new.claimed = TRUE
      BY <3>1, <3>2 DEF RequestRows, RequestPcs
    <3> QED
      BY <3>2, <3>3, RequestReplaced
  <2>3. /\ run' \in [Runs -> RunRows] /\ run'[r].status = "queued"
        /\ \A s \in Runs \ {r} : run'[s] = run[s]
    BY <1>2, <2>1, TypeParts DEF RunRows, Statuses
  <2> HIDE DEF r
  <2>4. TypeOK'
    BY <2>1, <2>2, <2>3, TypeParts, TypesNext
  <2>5. \A p \in Requests : request[p].claimed => request[p].run \in Runs \ {r}
    BY <2>1 DEF Claims
  <2>6. \A d \in Posts : d[1] \in Requests
    BY DEF Posts
  <2>7. Claims'
    BY <2>1, <2>2, <2>3, <2>5, <2>6 DEF Claims, Sent, r
  <2>8. OutcomeIsTheJobs'
    <3>1. \A d \in Posts : RunOf(d)' = RunOf(d)
      BY <2>2, <2>6 DEF RunOf, r
    <3> QED
      BY <2>1, <2>3, <3>1 DEF OutcomeIsTheJobs
  <2> QED
    BY <2>1, <2>4, <2>7, <2>8 DEF FreshLeasesAreHeld
<1> QED
  BY <1>1, <1>2 DEF ClaimRun

LEMMA PostPreserves ==
    ASSUME RunInv, NEW q \in Requests, Post(q) PROVE RunInv'
<1>1. CASE Leave(q, "raised") /\ UNCHANGED job
  BY <1>1, LeaveMoves, Same, MovesPreserve DEF Post, RequestPcs, ProcessesMove
<1>2. CASE \E i \in 1 .. MaxPosts :
              /\ \A j \in 1 .. MaxPosts : j < i <=> Sent(<<q, j>>)
              /\ job' = [job EXCEPT ![<<q, i>>] =
                            [kernel |-> request[q].kernel, pc |-> "admitted"]]
              /\ Proceed(q, "posted")
  <2> USE DEF RunInv
  <2>1. PICK i \in 1 .. MaxPosts :
              /\ \A j \in 1 .. MaxPosts : j < i <=> Sent(<<q, j>>)
              /\ job' = [job EXCEPT ![<<q, i>>] =
                            [kernel |-> request[q].kernel, pc |-> "admitted"]]
              /\ Proceed(q, "posted")
    BY <1>2
  <2> DEFINE d == <<q, i>>
             new == [kernel |-> request[q].kernel, pc |-> "admitted"]
  <2>2. request[q].pc = "post" /\ request[q].claimed
        /\ UNCHANGED <<lease, kernel, run, reaper, stales, faults>>
    BY DEF Post, Claims
  <2>3. d \in Posts /\ d[1] = q /\ ~Sent(d)
    BY <2>1, KernelBounds DEF Posts
  <2>4. new \in JobRows /\ job' = [job EXCEPT ![d] = new]
    BY <2>1, TypeParts DEF JobRows, RequestRows
  <2> HIDE DEF new, d
  <2>5. /\ job' \in [Posts -> JobRows]
        /\ \A e \in Posts \ {d} : job'[e] = job[e]
    BY <2>3, <2>4, TypeParts
  <2>6. RequestsMove
    BY <2>1, <2>2, ProceedMoves DEF RequestPcs
  <2>7. TypeOK'
    BY <2>2, <2>5, <2>6, TypeParts, TypesNext DEF RequestsMove
  <2>8. \A e \in Posts : e[1] \in Requests
    BY DEF Posts
  <2>9. Claims'
    BY <2>2, <2>3, <2>5, <2>6, <2>8 DEF Claims, RequestsMove, Sent
  <2>10. OutcomeIsTheJobs'
    <3>1. \A e \in Posts : RunOf(e)' = RunOf(e)
      BY <2>6, <2>8 DEF RunOf, RequestsMove
    <3> QED
      BY <2>2, <2>3, <2>5, <3>1 DEF OutcomeIsTheJobs, Sent
  <2> QED
    BY <2>2, <2>7, <2>9, <2>10 DEF FreshLeasesAreHeld
<1> QED
  BY <1>1, <1>2 DEF Post

\* The other steps of a request claim nothing and send nothing.
LEMMA RequestPreserves ==
    ASSUME RunInv, NEW q \in Requests,
           \/ \E k \in Kernels : ClaimLease(q, k)
           \/ LoseLease(q) \/ Spawn(q) \/ AwaitReady(q) \/ AwaitTimesOut(q) \/ Response(q)
           \/ CheckDispatch(q) \/ FailDispatch(q)
    PROVE  RunInv'
<1> USE DEF ProcessesMove, RequestPcs
<1>0. request[q].pc # "new" => request[q].run \in Runs /\ Canvas(q) \in Canvases
  BY CanvasAssumption DEF RunInv, Claims, Canvas
<1>1. ASSUME NEW k \in Kernels, ClaimLease(q, k) PROVE RunInv'
  <2> DEFINE row == [holder |-> k, state |-> "starting", endpoint |-> NoKernel, fresh |-> TRUE]
  <2>1. row \in LeaseRows /\ row.holder \in Kernels
    BY DEF LeaseRows
  <2>2. LeasesMove
    BY <1>1, <2>1, TypeParts DEF ClaimLease, RunInv, LeasesMove, FreshLeasesAreHeld
  <2>3. RequestsMove
    <3> DEFINE new == [request[q] EXCEPT !.pc = "spawn", !.kernel = k]
    <3>1. /\ request[q] \in RequestRows /\ request' = [request EXCEPT ![q] = new]
          /\ request[q].pc = "ensure"
      BY <1>1, TypeParts DEF RunInv, ClaimLease
    <3>2. /\ new \in RequestRows /\ new.pc = "spawn"
          /\ new.run = request[q].run /\ new.claimed = request[q].claimed
      BY <3>1 DEF RequestRows
    <3> HIDE DEF new
    <3> QED
      BY <3>1, <3>2, TypeParts DEF RunInv, Claims, RequestsMove
  <2>4. kernel' \in [Kernels -> KernelRows]
    BY <1>0, <1>1, TypeParts DEF ClaimLease, RunInv, KernelRows
  <2> QED
    BY <1>1, <2>2, <2>3, <2>4, Same, MovesPreserve DEF ClaimLease
<1>2. CASE LoseLease(q)
  BY <1>2, ProceedMoves, Same, MovesPreserve DEF LoseLease
<1>3. CASE Spawn(q)
  <2>1. kernel' \in [Kernels -> KernelRows]
    BY <1>3, TypeParts DEF Spawn, RunInv, KernelRows
  <2>2. reaper' \in [Processes -> ReaperRows]
    BY <1>3, TypeParts, ConstantRows DEF Spawn, RunInv
  <2> QED
    BY <1>3, <2>1, <2>2, ProceedMoves, Same, MovesPreserve DEF Spawn
<1>4. CASE AwaitReady(q)
  <2>1. lease[Canvas(q)].endpoint \in Kernels \cup {NoKernel}
        /\ lease[Canvas(q)].holder \in Kernels \cup {NoKernel}
    BY <1>0, <1>4, TypeParts DEF AwaitReady, RunInv, LeaseRows
  <2>2. RequestsMove
    <3> DEFINE pc == IF request[q].claimed THEN "post" ELSE "claim"
               new == [request[q] EXCEPT !.pc = pc, !.kernel = lease[Canvas(q)].endpoint,
                                         !.token = lease[Canvas(q)].holder]
    <3>1. /\ request[q] \in RequestRows /\ request' = [request EXCEPT ![q] = new]
          /\ request[q].pc = "await"
      BY <1>4, TypeParts DEF RunInv, AwaitReady
    <3>2. pc \in {"post", "claim"} /\ (pc = "post" => request[q].claimed)
      OBVIOUS
    <3> HIDE DEF pc
    <3>3. /\ new \in RequestRows /\ new.pc = pc
          /\ new.run = request[q].run /\ new.claimed = request[q].claimed
      BY <2>1, <3>1, <3>2 DEF RequestRows
    <3> HIDE DEF new
    <3> QED
      BY <3>1, <3>2, <3>3, TypeParts DEF RunInv, Claims, RequestsMove
  <2> QED
    BY <1>4, <2>2, Same, MovesPreserve DEF AwaitReady
<1>5. CASE AwaitTimesOut(q)
  BY <1>5, LeaveMoves, Same, MovesPreserve DEF AwaitTimesOut
<1>6. CASE Response(q)
  <2>1. RequestsMove
    <3>1. request[q].pc = "posted" /\ request[q].claimed
          /\ (Leave(q, "end") \/ Leave(q, "raised") \/ Proceed(q, "post"))
      BY <1>6 DEF Response, RunInv, Claims
    <3> QED
      BY <3>1, LeaveMoves, ProceedMoves
  <2>2. faults' \in 0 .. MaxFaults
    BY <1>6, Same, FaultIsCounted DEF Response, RunInv
  <2> QED
    BY <1>6, <2>1, <2>2, Same, MovesPreserve DEF Response
<1>7. CASE CheckDispatch(q)
  BY <1>7, ProceedMoves, Same, MovesPreserve DEF CheckDispatch
<1>8. CASE FailDispatch(q)
  <2>1. RunsMove
    BY <1>0, <1>8, WriteMoves, Same DEF FailDispatch, Statuses, Terminal
  <2> QED
    BY <1>8, <2>1, ProceedMoves, Same, MovesPreserve DEF FailDispatch
<1> QED
  BY <1>1, <1>2, <1>3, <1>4, <1>5, <1>6, <1>7, <1>8

\* Jobs.
LEMMA JobPreserves ==
    ASSUME RunInv, NEW d \in Posts, JobStep(d) PROVE RunInv'
<1> USE DEF RunInv
<1>1. CASE ~Sent(d)
  BY <1>1 DEF JobStep, JobStarts, JobRejected, JobRefused, JobRuns, JobEnds, Sent
<1>2. CASE Sent(d)
  <2>1. d[1] \in Requests
    BY DEF Posts
  <2>2. RunOf(d) \in Runs /\ run[RunOf(d)].status # "absent"
    BY <1>2, <2>1 DEF Claims, RunOf
  <2>3. ASSUME job[d].pc \in {"admitted", "started"},
               NEW pc \in {"started", "rejected", "refused", "done", "failed", "cancelled"},
               job' = [job EXCEPT ![d].pc = pc]
        PROVE  JobsMove /\ job'[d].pc = pc
    BY <2>3, TypeParts DEF JobsMove, JobRows, Sent
  <2>4. ASSUME UNCHANGED <<lease, kernel, request, reaper, stales, faults>>, JobsMove, RunsMove
        PROVE  RunInv'
    BY <2>4, Same, MovesPreserve DEF ProcessesMove
  <2>5. CASE JobStarts(d)
    <3>1. RunsMove
      <4>1. CASE UNCHANGED run
        BY <4>1, Same
      <4>2. CASE run' = [run EXCEPT ![RunOf(d)].status = "queued",
                               ![RunOf(d)].stamp = IF @ = NoKernel THEN job[d].kernel ELSE @]
        <5> DEFINE stamp == IF run[RunOf(d)].stamp = NoKernel THEN job[d].kernel
                                                            ELSE run[RunOf(d)].stamp
                   new == [run[RunOf(d)] EXCEPT !.status = "queued", !.stamp = stamp]
        <5>1. run[RunOf(d)] \in RunRows /\ run' = [run EXCEPT ![RunOf(d)] = new]
          BY <2>2, <4>2, TypeParts
        <5>2. stamp \in Kernels \cup {NoKernel}
          BY <5>1, TypeParts DEF RunRows, JobRows
        <5> HIDE DEF stamp
        <5>3. new \in RunRows /\ new.status = "queued"
          BY <5>1, <5>2 DEF RunRows, Statuses
        <5> HIDE DEF new
        <5> QED
          BY <2>2, <5>1, <5>3, TypeParts DEF RunsMove
      <4> QED
        BY <2>5, <4>1, <4>2 DEF JobStarts
    <3>2. JobsMove
      BY <2>3, <2>5 DEF JobStarts
    <3> QED
      BY <2>4, <2>5, <3>1, <3>2 DEF JobStarts
  <2>6. CASE JobRejected(d)
    BY <2>2, <2>3, <2>4, <2>6, WriteMoves, Same DEF JobRejected, Statuses, Terminal
  <2>7. CASE JobRefused(d)
    BY <2>3, <2>4, <2>7, Same DEF JobRefused
  <2>8. CASE JobRuns(d)
    BY <2>2, <2>4, <2>8, WriteMoves, Same DEF JobRuns, Statuses
  <2>9. ASSUME NEW outcome \in {"done", "failed", "cancelled"}, JobEnds(d, outcome)
        PROVE  RunInv'
    BY <2>2, <2>3, <2>4, <2>9, WriteMoves DEF JobEnds, Statuses, Terminal
  <2> QED
    BY <2>5, <2>6, <2>7, <2>8, <2>9 DEF JobStep
<1> QED
  BY <1>1, <1>2

\* Kernel processes leave requests and runs alone.
LEMMA KernelPreserves ==
    ASSUME RunInv, NEW k \in Kernels,
           KernelStep(k) \/ HeartbeatBegins(k) \/ DropBegins(k) \/ KernelCrashes(k)
    PROVE  RunInv'
<1> USE DEF ProcessesMove
<1>1. kernel[k] \in KernelRows /\ kernel[k].canvas \in Canvases /\ Row(k) \in LeaseRows
  BY TypeParts DEF RunInv, KernelRows, Row
<1>2. ASSUME NEW pc, NEW txn \in {"ready", "heartbeat", "drop"}, Open(k, pc, txn)
      PROVE  /\ kernel' \in [Kernels -> KernelRows]
             /\ UNCHANGED <<lease, request, job, run, reaper, stales>>
  BY <1>2, TypeParts DEF Open, RunInv, KernelRows
<1>3. ASSUME NEW txn, NEW row \in LeaseRows, row.fresh => row.holder \in Kernels,
             Commit(k, txn, row)
      PROVE  LeasesMove
  BY <1>1, <1>3, TypeParts DEF Commit, RunInv, LeasesMove, FreshLeasesAreHeld
<1>4. RowExists(k) => Row(k).holder \in Kernels
  BY <1>1 DEF RowExists, LeaseRows
<1>5. CASE ReadyBegins(k) \/ HeartbeatBegins(k)
  BY <1>2, <1>5, Same, MovesPreserve DEF ReadyBegins, HeartbeatBegins
<1>6. CASE DropBegins(k)
  BY <1>2, <1>6, Same, FaultIsCounted, MovesPreserve DEF DropBegins, RunInv
<1>7. CASE ReadyCommits(k)
  <2>1. CASE ~RowExists(k) /\ Exit(k) /\ UNCHANGED lease
    BY <1>7, <2>1, ExitMoves, Same, MovesPreserve DEF ReadyCommits
  <2>2. CASE /\ RowExists(k)
             /\ Commit(k, "ready",
                   [Row(k) EXCEPT !.state = "ready", !.endpoint = k, !.fresh = TRUE])
             /\ kernel' = [kernel EXCEPT ![k].pc = "serving", ![k].txn = "none"]
             /\ UNCHANGED <<job, reaper>>
    <3> DEFINE row == [Row(k) EXCEPT !.state = "ready", !.endpoint = k, !.fresh = TRUE]
    <3>1. row \in LeaseRows /\ row.holder \in Kernels
      BY <1>1, <1>4, <2>2 DEF LeaseRows
    <3>2. kernel' \in [Kernels -> KernelRows]
      <4>1. kernel[k] \in KernelRows
        BY TypeParts DEF RunInv
      <4>2. [kernel[k] EXCEPT !.pc = "serving", !.txn = "none"] \in KernelRows
        BY <4>1 DEF KernelRows
      <4>3. PICK new : new = [kernel[k] EXCEPT !.pc = "serving", !.txn = "none"]
        OBVIOUS
      <4>4. kernel' = [kernel EXCEPT ![k] = new]
        BY <2>2, <4>3
      <4> QED
        BY <4>2, <4>3, <4>4, KernelReplaced DEF RunInv
    <3>3. LeasesMove
      <4> HIDE DEF row
      <4> QED
        BY <1>3, <2>2, <3>1 DEF row
    <3> QED
      BY <1>7, <2>2, <3>2, <3>3, Same, MovesPreserve DEF ReadyCommits
  <2> QED
    BY <1>7, <2>1, <2>2 DEF ReadyCommits
<1>8. CASE ReadyFenced(k)
  <2>1. kernel' \in [Kernels -> KernelRows]
    BY <1>8, TypeParts DEF ReadyFenced, RunInv, KernelRows
  <2> QED
    BY <1>8, <2>1, Same, MovesPreserve DEF ReadyFenced
<1>9. CASE HeartbeatCommits(k)
  <2> DEFINE row == IF RowExists(k) THEN [Row(k) EXCEPT !.fresh = TRUE] ELSE Row(k)
  <2>1. row \in LeaseRows /\ (row.fresh => row.holder \in Kernels)
    BY <1>1, <1>4 DEF LeaseRows, RunInv, FreshLeasesAreHeld, Row
  <2>2. kernel' \in [Kernels -> KernelRows]
    BY <1>9, TypeParts DEF HeartbeatCommits, RunInv, KernelRows
  <2>3. LeasesMove
    <3> HIDE DEF row
    <3> QED
      BY <1>3, <1>9, <2>1 DEF HeartbeatCommits, row
  <2> QED
    BY <1>9, <2>2, <2>3, Same, MovesPreserve DEF HeartbeatCommits
<1>10. CASE HeartbeatFenced(k)
  BY <1>10, ExitMoves, Same, MovesPreserve DEF HeartbeatFenced
<1>11. CASE DropCommits(k)
  <2>1. LeasesMove
    BY <1>3, <1>11, ConstantRows DEF DropCommits
  <2> QED
    BY <1>11, <2>1, ExitMoves, Same, MovesPreserve DEF DropCommits
<1>12. CASE KernelCrashes(k)
  BY <1>12, ExitMoves, Same, FaultIsCounted, MovesPreserve DEF KernelCrashes, RunInv
<1> QED
  BY <1>5, <1>6, <1>7, <1>8, <1>9, <1>10, <1>11, <1>12 DEF KernelStep

LEMMA StalePreserves ==
    ASSUME RunInv, NEW c \in Canvases, LeaseGoesStale(c) PROVE RunInv'
<1>1. LeasesMove
  BY TypeParts DEF RunInv, LeaseGoesStale, LeasesMove, LeaseRows, FreshLeasesAreHeld
<1>2. stales' \in 0 .. MaxStale
  BY TypeParts, KernelBounds DEF RunInv, LeaseGoesStale
<1> QED
  BY <1>1, <1>2, Same, MovesPreserve DEF LeaseGoesStale, ProcessesMove

\* Reapers delete stale leases, and fail runs.
LEMMA ReaperPreserves ==
    ASSUME RunInv, NEW p \in Processes, ReaperStep(p) PROVE RunInv'
<1> USE DEF ProcessesMove
<1>1. reaper[p] \in ReaperRows
  BY TypeParts DEF RunInv
<1>2. CASE ReadStaleLeases(p)
  <2>1. reaper' \in [Processes -> ReaperRows]
    <3>1. PICK stale \in SUBSET Canvases :
            reaper' = [reaper EXCEPT ![p] = [reaper[p] EXCEPT !.pc = "delete", !.stale = stale]]
      BY <1>2 DEF ReadStaleLeases
    <3>2. [reaper[p] EXCEPT !.pc = "delete", !.stale = stale] \in ReaperRows
      BY <1>1 DEF ReaperRows
    <3> QED
      BY <3>1, <3>2, ReaperReplaced DEF RunInv
  <2> QED
    BY <1>2, <2>1, Same, MovesPreserve DEF ReadStaleLeases
<1>3. CASE DeleteStaleLeases(p)
  <2>1. reaper' \in [Processes -> ReaperRows]
    <3>1. reaper' = [reaper EXCEPT ![p] = [reaper[p] EXCEPT !.pc = "live", !.stale = {}]]
      BY <1>3 DEF DeleteStaleLeases
    <3>2. [reaper[p] EXCEPT !.pc = "live", !.stale = {}] \in ReaperRows
      BY <1>1 DEF ReaperRows
    <3> QED
      BY <3>1, <3>2, ReaperReplaced DEF RunInv
  <2>2. LeasesMove
    <3>1. lease \in [Canvases -> LeaseRows] /\ FreshLeasesAreHeld
      BY TypeParts DEF RunInv
    <3>2. lease' = [c \in Canvases |-> IF c \in reaper[p].stale THEN NoLease ELSE lease[c]]
      BY <1>3 DEF DeleteStaleLeases
    <3>3. lease' \in [Canvases -> LeaseRows]
      BY <3>1, <3>2, ConstantRows
    <3>4. \A c \in Canvases : lease'[c] \in {NoLease, lease[c]}
      BY <3>2
    <3> QED
      BY <3>1, <3>3, <3>4, ConstantRows DEF LeasesMove, FreshLeasesAreHeld
  <2> QED
    BY <1>3, <2>1, <2>2, Same, MovesPreserve DEF DeleteStaleLeases
<1>4. CASE ReadLiveKernels(p)
  <2> DEFINE live == {lease[c].holder : c \in {d \in Canvases : lease[d].fresh}}
  <2>1. live \in SUBSET Kernels
    BY DEF RunInv, FreshLeasesAreHeld
  <2>2. reaper' = [reaper EXCEPT ![p].pc = "fail", ![p].live = live]
    BY <1>4 DEF ReadLiveKernels
  <2> HIDE DEF live
  <2>3. reaper' \in [Processes -> ReaperRows]
    <3>1. [reaper[p] EXCEPT !.pc = "fail", !.live = live] \in ReaperRows
      BY <1>1, <2>1 DEF ReaperRows
    <3>2. PICK new : new = [reaper[p] EXCEPT !.pc = "fail", !.live = live]
      OBVIOUS
    <3>3. reaper' = [reaper EXCEPT ![p] = new]
      BY <2>2, <3>2
    <3> QED
      BY <3>1, <3>2, <3>3, ReaperReplaced DEF RunInv
  <2> QED
    BY <1>4, <2>3, Same, MovesPreserve DEF ReadLiveKernels
<1>5. CASE FailOrphans(p)
  <2>1. RunsMove
    BY <1>5, TypeParts DEF FailOrphans, RunInv, RunsMove, RunRows, Statuses, Terminal
  <2>2. kernel' \in [Kernels -> KernelRows]
    BY <1>5, TypeParts DEF FailOrphans, RunInv, KernelRows
  <2>3. reaper' \in [Processes -> ReaperRows]
    BY <1>5, TypeParts, ConstantRows DEF FailOrphans, RunInv
  <2> QED
    BY <1>5, <2>1, <2>2, <2>3, Same, MovesPreserve DEF FailOrphans
<1> QED
  BY <1>2, <1>3, <1>4, <1>5 DEF ReaperStep

LEMMA HubPreserves ==
    ASSUME RunInv, NEW h \in Hubs, ReaperWakes(h) \/ HubCrashes(h) PROVE RunInv'
<1> USE DEF ProcessesMove
<1>1. CASE ReaperWakes(h)
  <2>1. reaper' \in [Processes -> ReaperRows]
    BY <1>1, TypeParts DEF ReaperWakes, RunInv, ReaperRows
  <2> QED
    BY <1>1, <2>1, Same, MovesPreserve DEF ReaperWakes
<1>2. CASE HubCrashes(h)
  <2>1. reaper' \in [Processes -> ReaperRows]
    BY <1>2, TypeParts, ConstantRows DEF HubCrashes, RunInv
  <2> DEFINE ended(q) == [request[q] EXCEPT !.pc = "end", !.kernel = NoKernel, !.token = NoKernel]
  <2>2. \A q \in Requests : /\ ended(q) \in RequestRows /\ ended(q).pc = "end"
                            /\ ended(q).run = request[q].run
                            /\ ended(q).claimed = request[q].claimed
    BY TypeParts DEF RunInv, RequestRows, RequestPcs
  <2>3. request' = [q \in Requests |->
          IF HubOf[q] = h /\ request[q].pc # "new" THEN ended(q) ELSE request[q]]
    BY <1>2 DEF HubCrashes
  <2> HIDE DEF ended
  <2>4. RequestsMove
    BY <2>2, <2>3, TypeParts DEF RunInv, Claims, RequestsMove
  <2> QED
    BY <1>2, <2>1, <2>4, Same, FaultIsCounted, MovesPreserve DEF HubCrashes, RunInv
<1> QED
  BY <1>1, <1>2

-----------------------------------------------------------------------------
(* The theorems.                                                           *)

LEMMA InitEstablishes == ASSUME Init PROVE RunInv
<1>1. /\ lease \in [Canvases -> LeaseRows]
      /\ \A c \in Canvases : ~lease[c].fresh
      /\ reaper \in [Processes -> ReaperRows]
  BY ConstantRows DEF Init
<1>2. kernel \in [Kernels -> KernelRows]
  <2>1. (CHOOSE c \in Canvases : TRUE) \in Canvases
    BY CanvasAssumption
  <2> QED
    BY <2>1 DEF Init, KernelRows
<1>3. /\ request \in [Requests -> RequestRows]
      /\ \A q \in Requests : request[q].pc = "new" /\ ~request[q].claimed
  BY DEF Init, RequestRows, RequestPcs
<1>4. job \in [Posts -> JobRows] /\ \A d \in Posts : job[d].pc = "none"
  BY DEF Init, JobRows
<1>5. run \in [Runs -> RunRows] /\ \A r \in Runs : run[r].status = "absent"
  BY DEF Init, RunRows, Statuses
<1>6. TypeOK
  <2>1. stales \in 0 .. MaxStale /\ faults \in 0 .. MaxFaults
    BY KernelBounds DEF Init
  <2> QED
    BY <1>1, <1>2, <1>3, <1>4, <1>5, <2>1, TypeParts
<1> QED
  BY <1>1, <1>3, <1>4, <1>5, <1>6 DEF RunInv, Claims, FreshLeasesAreHeld, OutcomeIsTheJobs, Sent

\* The inductive invariant holds in every reachable state.
THEOREM RunInvariant == Spec => []RunInv
<1>1. Init => RunInv
  BY InitEstablishes
<1>2. RunInv /\ [Next]_vars => RunInv'
  <2> SUFFICES ASSUME RunInv, [Next]_vars PROVE RunInv'
    OBVIOUS
  <2>1. CASE UNCHANGED vars
    BY <2>1, Same, MovesPreserve DEF vars, ProcessesMove
  <2>2. CASE Next
    BY <2>2, BeginPreserves, ClaimRunPreserves, PostPreserves, RequestPreserves, JobPreserves,
       KernelPreserves, StalePreserves, ReaperPreserves, HubPreserves DEF Next, RequestStep
  <2> QED
    BY <2>1, <2>2
<1> QED
  BY <1>1, <1>2, PTL DEF Spec

\* Every variable keeps its domain.
THEOREM RunTypeCorrect == Spec => []TypeOK
<1>1. RunInv => TypeOK
  BY DEF RunInv
<1> QED
  BY <1>1, RunInvariant, PTL

\* However often a submission is replayed, at whatever hub, one request alone
\* dispatches its run.
THEOREM RunsHaveOneDispatcher == Spec => []OneDispatcher
<1>1. RunInv => OneDispatcher
  <2>1. \A d \in Posts : d[1] \in Requests
    BY DEF Posts
  <2> QED
    BY <2>1 DEF RunInv, Claims, OneDispatcher, RunOf
<1> QED
  BY <1>1, RunInvariant, PTL

\* A run that reports success or cancellation has a job that ended so.
THEOREM OutcomesAreJobs == Spec => []OutcomeIsTheJobs
<1>1. RunInv => OutcomeIsTheJobs
  BY DEF RunInv
<1> QED
  BY <1>1, RunInvariant, PTL

\* No late status, reaper or failed dispatch replaces the outcome of a run.
THEOREM SettledRunsStay == Spec => TerminalRunIsFinal
<1>1. RunInv /\ [Next]_vars
         => [\A r \in Runs :
                run[r].status \in Terminal => run'[r].status = run[r].status]_vars
  <2> SUFFICES ASSUME RunInv, Next, NEW r \in Runs, run[r].status \in Terminal
               PROVE  run'[r].status = run[r].status
    OBVIOUS
  <2>0. run \in [Runs -> RunRows]
    BY TypeParts DEF RunInv
  <2>1. ASSUME NEW s, NEW status, WriteStatus(s, status)
        PROVE  run'[r].status = run[r].status
    BY <2>0, <2>1 DEF WriteStatus, RunRows
  <2>2. ASSUME NEW q \in Requests, (\E s \in Runs : Begin(q, s)) \/ RequestStep(q)
        PROVE  run'[r].status = run[r].status
    <3>1. CASE ClaimRun(q)
      BY <2>0, <3>1 DEF ClaimRun, Status, Terminal, RunRows
    <3>2. CASE FailDispatch(q)
      BY <2>1, <3>2 DEF FailDispatch
    <3> QED
      BY <2>2, <3>1, <3>2 DEF Begin, RequestStep, ClaimLease, LoseLease, Spawn, AwaitReady,
         AwaitTimesOut, Post, Response, CheckDispatch
  <2>3. ASSUME NEW d \in Posts, JobStep(d)
        PROVE  run'[r].status = run[r].status
    <3>1. CASE JobStarts(d)
      BY <2>0, <3>1 DEF JobStarts, RunRows
    <3>2. CASE JobRejected(d) \/ JobRefused(d) \/ JobRuns(d)
      BY <2>1, <3>2 DEF JobRejected, JobRefused, JobRuns
    <3>3. ASSUME NEW outcome \in {"done", "failed", "cancelled"}, JobEnds(d, outcome)
          PROVE  run'[r].status = run[r].status
      BY <2>1, <3>3 DEF JobEnds
    <3> QED
      BY <2>3, <3>1, <3>2, <3>3 DEF JobStep
  <2>4. ASSUME NEW k \in Kernels,
               KernelStep(k) \/ HeartbeatBegins(k) \/ DropBegins(k) \/ KernelCrashes(k)
        PROVE  UNCHANGED run
    BY <2>4 DEF KernelStep, ReadyBegins, ReadyCommits, ReadyFenced, HeartbeatBegins,
       HeartbeatCommits, HeartbeatFenced, DropBegins, DropCommits, KernelCrashes, Open
  <2>5. ASSUME NEW p \in Processes, ReaperStep(p)
        PROVE  run'[r].status = run[r].status
    BY <2>0, <2>5 DEF ReaperStep, ReadStaleLeases, DeleteStaleLeases, ReadLiveKernels, FailOrphans,
       Orphaned, Terminal
  <2>6. CASE \/ \E c \in Canvases : LeaseGoesStale(c)
             \/ \E h \in Hubs : ReaperWakes(h) \/ HubCrashes(h)
    BY <2>6 DEF LeaseGoesStale, ReaperWakes, HubCrashes
  <2> QED
    BY <2>2, <2>3, <2>4, <2>5, <2>6 DEF Next
<1> QED
  BY <1>1, RunInvariant, PTL DEF Spec, TerminalRunIsFinal
-----------------------------------------------------------------------------
(* Kernels serve the runs of their own canvas.                             *)

\* A kernel that was minted for the canvas, alive or not.
Own(k, c) == k \in Kernels /\ kernel[k].pc # "unborn" /\ kernel[k].canvas = c

LeasesOwn == \A c \in Canvases :
                /\ lease[c].endpoint # NoKernel => Own(lease[c].endpoint, c)
                /\ lease[c].state = "ready" => lease[c].endpoint # NoKernel
PostsOwn == \A q \in Requests :
               request[q].pc \in {"post", "posted"} => Own(request[q].kernel, Canvas(q))
JobsOwn == \A d \in Posts : Sent(d) => Own(job[d].kernel, CanvasOf[RunOf(d)])
StampsOwn == \A r \in Runs : run[r].stamp # NoKernel => Own(run[r].stamp, CanvasOf[r])

\* A run is posted to, executed by and stamped with kernels of its own canvas
\* only: that is what the token of the lease is for.
OwnKernels == LeasesOwn /\ PostsOwn /\ JobsOwn /\ StampsOwn

\* A kernel that was minted keeps its canvas.
KernelsKeep == \A k \in Kernels : kernel[k].pc # "unborn" =>
                  kernel'[k].pc # "unborn" /\ kernel'[k].canvas = kernel[k].canvas

\* What a step that moves no kernel to another canvas leaves alone.
LEMMA OwnStays ==
    ASSUME RunInv, OwnKernels, KernelsKeep
    PROVE  /\ UNCHANGED lease => LeasesOwn'
           /\ (\A q \in Requests : request'[q].pc \in {"post", "posted"} =>
                  /\ request[q].pc \in {"post", "posted"}
                  /\ request'[q].kernel = request[q].kernel /\ request'[q].run = request[q].run)
              => PostsOwn'
           /\ (\A d \in Posts : job'[d].pc # "none" =>
                  Sent(d) /\ job'[d].kernel = job[d].kernel /\ RunOf(d)' = RunOf(d))
              => JobsOwn'
           /\ (\A r \in Runs : run'[r].stamp = run[r].stamp) => StampsOwn'
<1>1. UNCHANGED lease => LeasesOwn'
  BY DEF OwnKernels, LeasesOwn, KernelsKeep, Own
<1>2. ASSUME \A q \in Requests : request'[q].pc \in {"post", "posted"} =>
                /\ request[q].pc \in {"post", "posted"}
                /\ request'[q].kernel = request[q].kernel /\ request'[q].run = request[q].run
      PROVE  PostsOwn'
  BY <1>2 DEF OwnKernels, PostsOwn, KernelsKeep, Own, Canvas
<1>3. ASSUME \A d \in Posts : job'[d].pc # "none" =>
                Sent(d) /\ job'[d].kernel = job[d].kernel /\ RunOf(d)' = RunOf(d)
      PROVE  JobsOwn'
  BY <1>3 DEF OwnKernels, JobsOwn, KernelsKeep, Own, Sent
<1>4. ASSUME \A r \in Runs : run'[r].stamp = run[r].stamp PROVE StampsOwn'
  BY <1>4 DEF OwnKernels, StampsOwn, KernelsKeep, Own
<1> QED
  BY <1>1, <1>2, <1>3, <1>4

LEMMA UnmovedOwn ==
    ASSUME RunInv, OwnKernels
    PROVE  /\ UNCHANGED kernel => KernelsKeep
           /\ KernelsKeep /\ UNCHANGED lease => LeasesOwn'
           /\ KernelsKeep /\ UNCHANGED request => PostsOwn'
           /\ KernelsKeep /\ UNCHANGED <<job, request>> => JobsOwn'
           /\ KernelsKeep /\ UNCHANGED run => StampsOwn'
BY OwnStays DEF KernelsKeep, RunOf, Sent

\* A request that goes on keeps its run.
LEMMA RequestRunsStay ==
    ASSUME RunInv, OwnKernels, KernelsKeep, UNCHANGED job,
           \A q \in Requests : request[q].pc # "new" => request'[q].run = request[q].run
    PROVE  JobsOwn'
<1>1. \A d \in Posts : Sent(d) => RunOf(d)' = RunOf(d)
  BY DEF RunInv, Claims, RunOf, Posts
<1> QED
  BY <1>1, OwnStays DEF Sent

LEMMA RequestOwns ==
    ASSUME RunInv, OwnKernels, NEW q \in Requests,
           (\E r \in Runs : Begin(q, r)) \/ RequestStep(q)
    PROVE  OwnKernels'
<1> USE DEF OwnKernels
<1>0. request \in [Requests -> RequestRows]
  BY TypeParts DEF RunInv
<1>1. ASSUME NEW r \in Runs, Begin(q, r) PROVE OwnKernels'
  <2>1. request' = [request EXCEPT ![q].pc = "ensure", ![q].run = r]
        /\ UNCHANGED <<lease, kernel, job, run>> /\ request[q].pc = "new"
    BY <1>1 DEF Begin
  <2>2. request'[q].pc = "ensure" /\ \A p \in Requests \ {q} : request'[p] = request[p]
    BY <1>0, <2>1 DEF RequestRows
  <2> QED
    BY <2>1, <2>2, UnmovedOwn, RequestRunsStay, OwnStays
<1>2. ASSUME NEW pc \in RequestPcs, request[q].pc # "new", Proceed(q, pc) \/ Leave(q, pc)
      PROVE  /\ \A p \in Requests : request'[p].run = request[p].run
             /\ request'[q].pc = pc /\ \A p \in Requests \ {q} : request'[p] = request[p]
             /\ Proceed(q, pc) => request'[q].kernel = request[q].kernel
  BY <1>0, <1>2 DEF Proceed, Leave, RequestRows
<1>3. ASSUME UNCHANGED <<lease, job>>, KernelsKeep,
             \A r \in Runs : run'[r].stamp = run[r].stamp,
             NEW pc \in RequestPcs, request[q].pc # "new",
             \/ Leave(q, pc) /\ pc \notin {"post", "posted"}
             \/ Proceed(q, pc) /\ (pc \in {"post", "posted"} => request[q].pc \in {"post", "posted"})
      PROVE  OwnKernels'
  <2>1. PostsOwn'
    BY <1>2, <1>3, OwnStays
  <2> QED
    BY <1>2, <1>3, <2>1, UnmovedOwn, RequestRunsStay, OwnStays
<1> USE DEF RequestPcs
<1>4. ASSUME NEW k \in Kernels, ClaimLease(q, k) PROVE OwnKernels'
  <2>1. /\ request[q].pc = "ensure" /\ kernel[k].pc = "unborn"
        /\ request' = [request EXCEPT ![q].pc = "spawn", ![q].kernel = k]
        /\ kernel' = [kernel EXCEPT ![k].pc = "minted", ![k].canvas = Canvas(q)]
        /\ lease' = [lease EXCEPT ![Canvas(q)] =
              [holder |-> k, state |-> "starting", endpoint |-> NoKernel, fresh |-> TRUE]]
        /\ UNCHANGED <<job, run>>
    BY <1>4 DEF ClaimLease
  <2>2. KernelsKeep
    BY <2>1, TypeParts DEF RunInv, KernelRows, KernelsKeep
  <2>3. request'[q].pc = "spawn" /\ request'[q].run = request[q].run
        /\ \A p \in Requests \ {q} : request'[p] = request[p]
    BY <1>0, <2>1 DEF RequestRows
  <2>4. PostsOwn' /\ JobsOwn' /\ StampsOwn'
    BY <2>1, <2>2, <2>3, UnmovedOwn, RequestRunsStay, OwnStays
  <2>5. LeasesOwn'
    <3>1. \A c \in Canvases : \/ lease'[c] = lease[c]
                              \/ lease'[c].endpoint = NoKernel /\ lease'[c].state = "starting"
      BY <2>1, TypeParts DEF RunInv
    <3> QED
      BY <2>2, <3>1 DEF LeasesOwn, KernelsKeep, Own
  <2> QED
    BY <2>4, <2>5
<1>5. CASE LoseLease(q) \/ AwaitTimesOut(q) \/ CheckDispatch(q)
  BY <1>3, <1>5, UnmovedOwn DEF LoseLease, AwaitTimesOut, CheckDispatch
<1>6. CASE Spawn(q)
  <2>1. KernelsKeep
    BY <1>6, TypeParts DEF RunInv, KernelRows, KernelsKeep, Spawn
  <2> QED
    BY <1>3, <1>6, <2>1 DEF Spawn
<1>7. CASE AwaitReady(q)
  <2>1. /\ request[q].pc = "await" /\ lease[Canvas(q)].state = "ready"
        /\ UNCHANGED <<lease, kernel, job, run>>
    BY <1>7 DEF AwaitReady
  <2>2. /\ request'[q].run = request[q].run /\ request'[q].kernel = lease[Canvas(q)].endpoint
        /\ \A p \in Requests \ {q} : request'[p] = request[p]
    BY <1>0, <1>7 DEF AwaitReady, RequestRows
  <2>3. Canvas(q) \in Canvases
    BY <2>1, CanvasAssumption DEF RunInv, Claims, Canvas
  <2>4. PostsOwn'
    BY <2>1, <2>2, <2>3 DEF LeasesOwn, PostsOwn, Own, Canvas
  <2> QED
    BY <2>1, <2>2, <2>4, UnmovedOwn, RequestRunsStay
<1>8. CASE ClaimRun(q)
  <2>1. CASE Leave(q, "end") /\ UNCHANGED run
    BY <1>3, <1>8, <2>1, UnmovedOwn DEF ClaimRun
  <2>2. CASE /\ run' = [run EXCEPT ![request[q].run].status = "queued"]
             /\ request' = [request EXCEPT ![q].pc = "ensure", ![q].claimed = TRUE]
    <3>1. /\ request'[q].pc = "ensure" /\ request'[q].run = request[q].run
          /\ \A p \in Requests \ {q} : request'[p] = request[p]
      BY <1>0, <2>2 DEF RequestRows
    <3>2. \A r \in Runs : run'[r].stamp = run[r].stamp
      BY <2>2, TypeParts DEF RunInv, RunRows
    <3> QED
      BY <1>8, <3>1, <3>2, UnmovedOwn, RequestRunsStay, OwnStays DEF ClaimRun
  <2> QED
    BY <1>8, <2>1, <2>2 DEF ClaimRun
<1>9. CASE Post(q)
  <2>1. CASE Leave(q, "raised") /\ UNCHANGED job
    BY <1>3, <1>9, <2>1, UnmovedOwn DEF Post
  <2>2. ASSUME NEW i \in 1 .. MaxPosts,
               job' = [job EXCEPT ![<<q, i>>] =
                          [kernel |-> request[q].kernel, pc |-> "admitted"]],
               Proceed(q, "posted")
        PROVE  OwnKernels'
    <3>1. request[q].pc = "post" /\ UNCHANGED <<lease, kernel, run>> /\ KernelsKeep
      BY <1>9, UnmovedOwn DEF Post
    <3>2. PostsOwn' /\ \A p \in Requests : request'[p].run = request[p].run
      BY <1>2, <2>2, <3>1, OwnStays
    <3>3. \A d \in Posts : RunOf(d)' = RunOf(d)
      BY <3>2 DEF RunOf, Posts
    <3>4. \A d \in Posts : \/ job'[d] = job[d]
                           \/ d[1] = q /\ job'[d].kernel = request[q].kernel
      BY <2>2, TypeParts DEF RunInv
    <3>5. Own(request[q].kernel, Canvas(q))
      BY <3>1 DEF PostsOwn
    <3>6. JobsOwn'
      BY <3>1, <3>3, <3>4, <3>5 DEF JobsOwn, Own, Sent, RunOf, Canvas
    <3> QED
      BY <3>1, <3>2, <3>6, UnmovedOwn
  <2> QED
    BY <1>9, <2>1, <2>2 DEF Post
<1>10. CASE Response(q)
  BY <1>3, <1>10, UnmovedOwn DEF Response
<1>11. CASE FailDispatch(q)
  <2>1. \A r \in Runs : run'[r].stamp = run[r].stamp
    BY <1>11, TypeParts DEF RunInv, RunRows, FailDispatch, WriteStatus
  <2> QED
    BY <1>3, <1>11, <2>1, UnmovedOwn DEF FailDispatch
<1> QED
  BY <1>1, <1>4, <1>5, <1>6, <1>7, <1>8, <1>9, <1>10, <1>11 DEF RequestStep

LEMMA JobOwns ==
    ASSUME RunInv, OwnKernels, NEW d \in Posts, JobStep(d) PROVE OwnKernels'
<1> USE DEF OwnKernels
<1>1. UNCHANGED <<lease, kernel, request>> /\ KernelsKeep
  BY UnmovedOwn DEF JobStep, JobStarts, JobRejected, JobRefused, JobRuns, JobEnds
<1>2. LeasesOwn' /\ PostsOwn'
  BY <1>1, UnmovedOwn
<1>3. Sent(d) /\ Own(job[d].kernel, CanvasOf[RunOf(d)])
  BY DEF JobsOwn, JobStep, JobStarts, JobRejected, JobRefused, JobRuns, JobEnds, Sent
<1>4. JobsOwn'
  <2>1. \A e \in Posts : /\ job'[e].pc # "none" => Sent(e)
                         /\ job'[e].kernel = job[e].kernel
    BY <1>3, TypeParts DEF RunInv, JobRows, Sent,
       JobStep, JobStarts, JobRejected, JobRefused, JobRuns, JobEnds
  <2> QED
    BY <1>1, <2>1, OwnStays DEF RunOf
<1>5. StampsOwn'
  <2>1. CASE JobStarts(d)
    <3>1. \A r \in Runs : \/ run'[r].stamp = run[r].stamp
                          \/ r = RunOf(d) /\ run'[r].stamp = job[d].kernel
      BY <2>1, TypeParts DEF RunInv, RunRows, JobStarts
    <3> QED
      BY <1>1, <1>3, <3>1 DEF StampsOwn, Own
  <2>2. CASE ~JobStarts(d)
    <3>1. \A r \in Runs : run'[r].stamp = run[r].stamp
      BY <2>2, TypeParts DEF RunInv, RunRows, WriteStatus,
         JobStep, JobRejected, JobRefused, JobRuns, JobEnds
    <3> QED
      BY <1>1, <3>1, OwnStays
  <2> QED
    BY <2>1, <2>2
<1> QED
  BY <1>2, <1>4, <1>5

LEMMA ExitOwns ==
    ASSUME RunInv, OwnKernels, NEW k \in Kernels, Exit(k), UNCHANGED <<request, run>>
    PROVE  KernelsKeep /\ PostsOwn' /\ JobsOwn' /\ StampsOwn'
<1>1. KernelsKeep
  BY TypeParts DEF RunInv, KernelRows, Exit, KernelsKeep
<1>2. \A d \in Posts : /\ job'[d].pc # "none" => Sent(d)
                       /\ job'[d].kernel = job[d].kernel
  BY TypeParts DEF RunInv, JobRows, Exit, Sent, Active
<1> QED
  BY <1>1, <1>2, UnmovedOwn, OwnStays DEF RunOf

LEMMA KernelOwns ==
    ASSUME RunInv, OwnKernels, NEW k \in Kernels,
           KernelStep(k) \/ HeartbeatBegins(k) \/ DropBegins(k) \/ KernelCrashes(k)
    PROVE  OwnKernels'
<1> USE DEF OwnKernels
<1>0. kernel \in [Kernels -> KernelRows] /\ lease \in [Canvases -> LeaseRows]
      /\ kernel[k].canvas \in Canvases
  BY TypeParts DEF RunInv, KernelRows
<1>1. UNCHANGED <<request, run>>
  BY DEF KernelStep, ReadyBegins, ReadyCommits, ReadyFenced, HeartbeatBegins,
     HeartbeatCommits, HeartbeatFenced, DropBegins, DropCommits, KernelCrashes, Open
<1>2. ASSUME KernelsKeep, UNCHANGED job, LeasesOwn' PROVE OwnKernels'
  BY <1>1, <1>2, UnmovedOwn
<1>3. ASSUME NEW pc, NEW txn, Open(k, pc, txn), pc # "unborn" PROVE OwnKernels'
  <2>1. KernelsKeep
    BY <1>0, <1>3 DEF Open, KernelRows, KernelsKeep
  <2> QED
    BY <1>2, <1>3, <2>1, UnmovedOwn DEF Open
<1>4. ASSUME NEW txn, NEW row, Commit(k, txn, row), KernelsKeep,
             row.endpoint # NoKernel => Own(row.endpoint, kernel[k].canvas)',
             row.state = "ready" => row.endpoint # NoKernel,
             kernel'[k].canvas = kernel[k].canvas
      PROVE  LeasesOwn'
  <2>1. \A c \in Canvases : lease'[c] = IF c = kernel[k].canvas THEN row ELSE lease[c]
    BY <1>0, <1>4 DEF Commit
  <2> QED
    BY <1>0, <1>4, <2>1 DEF LeasesOwn, KernelsKeep, Own
<1>5. CASE ReadyBegins(k) \/ HeartbeatBegins(k) \/ DropBegins(k)
  BY <1>3, <1>5 DEF ReadyBegins, HeartbeatBegins, DropBegins
<1>6. CASE ReadyCommits(k)
  <2>1. CASE ~RowExists(k) /\ Exit(k) /\ UNCHANGED lease
    BY <1>1, <2>1, ExitOwns, UnmovedOwn
  <2>2. CASE /\ Commit(k, "ready",
                   [Row(k) EXCEPT !.state = "ready", !.endpoint = k, !.fresh = TRUE])
             /\ kernel' = [kernel EXCEPT ![k].pc = "serving", ![k].txn = "none"]
             /\ UNCHANGED <<job, reaper>>
    <3>1. PICK row : row = [Row(k) EXCEPT !.state = "ready", !.endpoint = k, !.fresh = TRUE]
      OBVIOUS
    <3>2. Row(k) \in LeaseRows
      BY <1>0 DEF Row
    <3>3. row.endpoint = k
      BY <3>1, <3>2 DEF LeaseRows
    <3>4. KernelsKeep /\ kernel'[k].canvas = kernel[k].canvas /\ kernel'[k].pc = "serving"
      BY <1>0, <2>2 DEF KernelRows, KernelsKeep
    <3>5. LeasesOwn'
      BY <1>4, <2>2, <3>1, <3>3, <3>4, NullAssumption DEF Own
    <3> QED
      BY <1>2, <2>2, <3>4, <3>5
  <2> QED
    BY <1>6, <2>1, <2>2 DEF ReadyCommits
<1>7. CASE ReadyFenced(k)
  <2>1. KernelsKeep
    BY <1>0, <1>7 DEF ReadyFenced, KernelRows, KernelsKeep
  <2> QED
    BY <1>2, <1>7, <2>1, UnmovedOwn DEF ReadyFenced
<1>8. CASE HeartbeatCommits(k)
  <2>1. PICK row : row = IF RowExists(k) THEN [Row(k) EXCEPT !.fresh = TRUE] ELSE Row(k)
    OBVIOUS
  <2>2. Row(k) \in LeaseRows
    BY <1>0 DEF Row
  <2>3. row.endpoint = Row(k).endpoint /\ row.state = Row(k).state
    BY <2>1, <2>2 DEF LeaseRows
  <2>4. KernelsKeep /\ kernel'[k].canvas = kernel[k].canvas /\ UNCHANGED job
    BY <1>0, <1>8 DEF HeartbeatCommits, KernelRows, KernelsKeep
  <2>5. LeasesOwn
    OBVIOUS
  <2>6. /\ row.endpoint # NoKernel => Own(row.endpoint, kernel[k].canvas)'
        /\ row.state = "ready" => row.endpoint # NoKernel
    BY <1>0, <2>3, <2>4, <2>5 DEF LeasesOwn, Own, KernelsKeep, Row
  <2>7. Commit(k, "heartbeat", row)
    BY <1>8, <2>1 DEF HeartbeatCommits
  <2> QED
    BY <1>2, <1>4, <2>4, <2>6, <2>7
<1>9. CASE HeartbeatFenced(k) \/ KernelCrashes(k)
  BY <1>1, <1>9, ExitOwns, UnmovedOwn DEF HeartbeatFenced, KernelCrashes
<1>10. CASE DropCommits(k)
  <2>1. KernelsKeep /\ kernel'[k].canvas = kernel[k].canvas
    BY <1>0, <1>1, <1>10, ExitOwns DEF DropCommits, Exit, KernelRows
  <2>2. LeasesOwn'
    BY <1>4, <1>10, <2>1 DEF DropCommits, NoLease
  <2> QED
    BY <1>1, <1>10, <2>2, ExitOwns DEF DropCommits
<1> QED
  BY <1>5, <1>6, <1>7, <1>8, <1>9, <1>10 DEF KernelStep

\* Stale leases, reapers and hubs: no kernel is minted or posted to.
LEMMA RecoveryOwns ==
    ASSUME RunInv, OwnKernels,
           \/ \E c \in Canvases : LeaseGoesStale(c)
           \/ \E h \in Hubs : ReaperWakes(h) \/ HubCrashes(h)
           \/ \E p \in Processes : ReaperStep(p)
    PROVE  OwnKernels'
<1> USE DEF OwnKernels
<1>1. CASE \E c \in Canvases : LeaseGoesStale(c)
  <2>1. \A c \in Canvases : lease'[c].endpoint = lease[c].endpoint
                            /\ lease'[c].state = lease[c].state
    BY <1>1, TypeParts DEF RunInv, LeaseRows, LeaseGoesStale
  <2>2. UNCHANGED <<kernel, request, job, run>>
    BY <1>1 DEF LeaseGoesStale
  <2>3. LeasesOwn'
    BY <2>1, <2>2 DEF LeasesOwn, Own
  <2> QED
    BY <2>2, <2>3, UnmovedOwn
<1>2. ASSUME NEW h \in Hubs, ReaperWakes(h) PROVE OwnKernels'
  BY <1>2, UnmovedOwn DEF ReaperWakes
<1>3. ASSUME NEW h \in Hubs, HubCrashes(h) PROVE OwnKernels'
  <2>1. \A q \in Requests : /\ request'[q].run = request[q].run
                            /\ request'[q].pc = "end" \/ request'[q] = request[q]
    BY <1>3, TypeParts DEF RunInv, RequestRows, HubCrashes
  <2>2. UNCHANGED <<lease, kernel, job, run>>
    BY <1>3 DEF HubCrashes
  <2>3. PostsOwn'
    BY <2>1, <2>2, UnmovedOwn, OwnStays
  <2> QED
    BY <2>1, <2>2, <2>3, UnmovedOwn, RequestRunsStay
<1>4. ASSUME NEW p \in Processes, ReaperStep(p) PROVE OwnKernels'
  <2>1. UNCHANGED <<request, job>>
    BY <1>4 DEF ReaperStep, ReadStaleLeases, DeleteStaleLeases, ReadLiveKernels, FailOrphans
  <2>2. KernelsKeep
    BY <1>4, TypeParts DEF RunInv, KernelRows, KernelsKeep, ReaperStep, ReadStaleLeases,
       DeleteStaleLeases, ReadLiveKernels, FailOrphans
  <2>3. StampsOwn'
    <3>1. \A r \in Runs : run'[r].stamp = run[r].stamp
      BY <1>4, TypeParts DEF RunInv, RunRows, ReaperStep, ReadStaleLeases, DeleteStaleLeases,
         ReadLiveKernels, FailOrphans
    <3> QED
      BY <2>2, <3>1, OwnStays
  <2>4. LeasesOwn'
    <3>1. \A c \in Canvases : lease'[c] \in {NoLease, lease[c]}
      BY <1>4, TypeParts DEF RunInv, ReaperStep, ReadStaleLeases, DeleteStaleLeases,
         ReadLiveKernels, FailOrphans
    <3> QED
      BY <2>2, <3>1 DEF LeasesOwn, Own, KernelsKeep, NoLease
  <2> QED
    BY <2>1, <2>2, <2>3, <2>4, UnmovedOwn
<1> QED
  BY <1>1, <1>2, <1>3, <1>4

\* However leases expire, are replaced and are deleted, a run is sent to,
\* executed by and stamped with kernels of its own canvas alone.
THEOREM KernelsServeTheirCanvas == Spec => []OwnKernels
<1>1. Init => OwnKernels
  BY DEF Init, NoLease, OwnKernels, LeasesOwn, PostsOwn, JobsOwn, StampsOwn, Sent
<1>2. RunInv /\ OwnKernels /\ [Next]_vars => OwnKernels'
  <2> SUFFICES ASSUME RunInv, OwnKernels, [Next]_vars PROVE OwnKernels'
    OBVIOUS
  <2>1. CASE UNCHANGED vars
    BY <2>1, UnmovedOwn DEF vars, OwnKernels
  <2>2. CASE Next
    BY <2>2, RequestOwns, JobOwns, KernelOwns, RecoveryOwns DEF Next
  <2> QED
    BY <2>1, <2>2
<1> QED
  BY <1>1, <1>2, RunInvariant, PTL DEF Spec
-----------------------------------------------------------------------------
(* No run is forgotten.                                                    *)

Unsettled == {"queued", "running"}

\* The run is at the kernel that it is stamped with: a job of it runs there,
\* or went down with the process.
AtItsKernel(r) ==
    \E d \in Posts : /\ RunOf(d) = r /\ job[d].kernel = run[r].stamp
                     /\ job[d].pc \in {"started", "lost"}

\* A request is still to dispatch the run, or to fail it.
Dispatched(r) ==
    \E q \in Requests : request[q].claimed /\ request[q].run = r /\ request[q].pc # "end"

\* A hub is to reap every run without a stamp.
Booting == \E h \in Hubs : reaper[h].boot

Remembered(r) ==
    \/ run[r].stamp \in Kernels /\ AtItsKernel(r)
    \/ /\ run[r].stamp = NoKernel /\ run[r].status = "queued"
       /\ Dispatched(r) \/ Booting

\* Whoever is to settle an unsettled run exists at every moment: the kernel it
\* is stamped with, whose lease a reaper will look at; or the request that
\* claimed it; or, when the request died with its hub, the reaper that the hub
\* restarts with.
NoRunIsForgotten == \A r \in Runs : run[r].status \in Unsettled => Remembered(r)

Stamped(r) == run[r].status \in Terminal \/ run[r].stamp # NoKernel

\* A worker that started, and a job that the kernel failed itself, left a
\* trace in the row; a request without a claim cannot have lost its turn.
Traces ==
    /\ \A d \in Posts :
          job[d].pc \in {"rejected", "started", "done", "failed", "cancelled"} => Stamped(RunOf(d))
    /\ \A r \in Runs : run[r].status = "absent" => run[r].stamp = NoKernel
    /\ \A q \in Requests : request[q].pc = "claim" => ~request[q].claimed

RecallInv == RunInv /\ OwnKernels /\ Traces /\ NoRunIsForgotten

\* A claimed request keeps its run, and ends only when the run has settled or
\* carries a stamp.
ClaimsGo ==
    \A q \in Requests :
       /\ request[q].claimed => /\ request'[q].claimed /\ request'[q].run = request[q].run
                                /\ \/ request[q].pc # "end" => request'[q].pc # "end"
                                   \/ Stamped(request[q].run)'
       /\ request'[q].pc = "claim" => ~request'[q].claimed

\* Jobs stay where they were posted; one leaves its worker for a settled run.
JobsGo ==
    \A d \in Posts :
       /\ Sent(d) => job'[d].kernel = job[d].kernel
       /\ job[d].pc \in {"started", "lost"} =>
             job'[d].pc \in {"started", "lost"} \/ run'[RunOf(d)].status \in Terminal
       /\ job'[d].pc \in {"rejected", "started", "done", "failed", "cancelled"} =>
             Sent(d) /\ Stamped(RunOf(d))'

\* A run changes its status or settles; only one with a stamp runs.
RunsGo ==
    \A r \in Runs :
       /\ run'[r].stamp = run[r].stamp
       /\ run'[r].status \in Unsettled =>
             /\ run[r].status \in Unsettled
             /\ run'[r].status = run[r].status \/ run[r].stamp # NoKernel
       /\ run[r].status # "absent" => run'[r].status # "absent"
       /\ run[r].status \in Terminal => run'[r].status \in Terminal

LEMMA Recalled ==
    ASSUME RecallInv, RunInv', OwnKernels', ClaimsGo, JobsGo, RunsGo, Booting => Booting'
    PROVE  RecallInv'
<1> USE DEF RecallInv
<1>1. \A d \in Posts : Sent(d) => d[1] \in Requests /\ request[d[1]].claimed /\ RunOf(d) \in Runs
  BY DEF RunInv, Claims, Posts, RunOf
<1>2. \A d \in Posts : Sent(d) => RunOf(d)' = RunOf(d)
  BY <1>1 DEF ClaimsGo, RunOf
<1>3. Traces'
  <2>1. \A d \in Posts : job'[d].pc \in {"rejected", "started", "done", "failed", "cancelled"}
           => Stamped(RunOf(d))'
    BY DEF JobsGo
  <2>2. \A r \in Runs : run'[r].status = "absent" => run'[r].stamp = NoKernel
    BY DEF RunsGo, Traces
  <2>3. \A q \in Requests : request'[q].pc = "claim" => ~request'[q].claimed
    BY DEF ClaimsGo
  <2> QED
    BY <2>1, <2>2, <2>3 DEF Traces
<1>4. ASSUME NEW r \in Runs, run'[r].status \in Unsettled PROVE Remembered(r)'
  <2>1. run'[r].stamp = run[r].stamp /\ run[r].status \in Unsettled /\ run'[r].status \notin Terminal
    BY <1>4 DEF RunsGo, Unsettled, Terminal
  <2>2. CASE run[r].stamp \in Kernels /\ AtItsKernel(r)
    <3>1. PICK d \in Posts : /\ RunOf(d) = r /\ job[d].kernel = run[r].stamp
                             /\ job[d].pc \in {"started", "lost"}
      BY <2>2 DEF AtItsKernel
    <3>2. Sent(d)
      BY <3>1 DEF Sent
    <3>3. /\ RunOf(d)' = r /\ job'[d].kernel = run'[r].stamp
          /\ job'[d].pc \in {"started", "lost"}
      BY <1>2, <2>1, <3>1, <3>2 DEF JobsGo
    <3> QED
      BY <2>1, <2>2, <3>3 DEF Remembered, AtItsKernel
  <2>3. CASE /\ run[r].stamp = NoKernel /\ run[r].status = "queued"
             /\ Dispatched(r) \/ Booting
    <3>1. run'[r].stamp = NoKernel /\ run'[r].status = "queued" /\ ~Stamped(r)'
      BY <1>4, <2>1, <2>3 DEF RunsGo, Stamped
    <3>2. CASE Booting
      BY <3>1, <3>2 DEF Remembered
    <3>3. CASE Dispatched(r)
      <4>1. Dispatched(r)'
        BY <3>1, <3>3 DEF ClaimsGo, Dispatched
      <4> QED
        BY <3>1, <4>1 DEF Remembered
    <3> QED
      BY <2>3, <3>2, <3>3
  <2> QED
    BY <2>1, <2>2, <2>3 DEF NoRunIsForgotten, Remembered
<1> QED
  BY <1>3, <1>4 DEF NoRunIsForgotten

\* What a step leaves alone.
LEMMA UnmovedGo ==
    ASSUME RecallInv
    PROVE  /\ UNCHANGED request => ClaimsGo
           /\ UNCHANGED run => RunsGo
           /\ UNCHANGED <<job, request>> /\ RunsGo => JobsGo
           /\ UNCHANGED reaper => (Booting => Booting')
<1> USE DEF RecallInv
<1>1. UNCHANGED request => ClaimsGo
  BY DEF ClaimsGo, Traces
<1>2. UNCHANGED run => RunsGo
  BY DEF RunsGo
<1>3. ASSUME UNCHANGED <<job, request>>, RunsGo PROVE JobsGo
  <2>1. \A d \in Posts : Sent(d) => RunOf(d) \in Runs /\ RunOf(d)' = RunOf(d)
    BY <1>3 DEF RunInv, Claims, Posts, RunOf
  <2> QED
    BY <1>3, <2>1 DEF JobsGo, RunsGo, Traces, Stamped, Sent
<1>4. UNCHANGED reaper => (Booting => Booting')
  BY DEF Booting
<1> QED
  BY <1>1, <1>2, <1>3, <1>4

\* The jobs of requests that go on and post nothing.
LEMMA JobsWait ==
    ASSUME RecallInv, ClaimsGo, RunsGo, UNCHANGED job PROVE JobsGo
<1>1. \A d \in Posts : Sent(d) => RunOf(d) \in Runs /\ RunOf(d)' = RunOf(d)
  BY DEF RecallInv, RunInv, Claims, Posts, RunOf, ClaimsGo
<1> QED
  BY <1>1 DEF RecallInv, JobsGo, RunsGo, Traces, Stamped, Sent

\* The terminal fence keeps the runs that settled.
LEMMA WriteGoes ==
    ASSUME RecallInv, NEW r \in Runs, NEW status, WriteStatus(r, status),
           \/ status \in Terminal
           \/ status \in Unsettled /\ run[r].status \in Unsettled /\ run[r].stamp # NoKernel
    PROVE  RunsGo
<1>1. \A s \in Runs : /\ run'[s].stamp = run[s].stamp
                      /\ \/ run'[s].status = run[s].status
                         \/ s = r /\ run'[s].status = status /\ run[s].status \notin Terminal
  BY TypeParts DEF RecallInv, RunInv, RunRows, WriteStatus
<1>2. "absent" \notin Terminal \cup Unsettled /\ Terminal \cap Unsettled = {}
  BY DEF Terminal, Unsettled
<1> QED
  BY <1>1, <1>2 DEF RunsGo

LEMMA RequestRecalls ==
    ASSUME RecallInv, RunInv', OwnKernels', NEW q \in Requests,
           (\E r \in Runs : Begin(q, r)) \/ RequestStep(q)
    PROVE  RecallInv'
<1> USE DEF RecallInv
<1>0. request \in [Requests -> RequestRows] /\ run \in [Runs -> RunRows]
  BY TypeParts DEF RunInv
<1>1. ASSUME NEW r \in Runs, Begin(q, r) PROVE RecallInv'
  <2>1. /\ request'[q].claimed = request[q].claimed /\ request'[q].pc = "ensure"
        /\ \A p \in Requests \ {q} : request'[p] = request[p]
    BY <1>0, <1>1 DEF Begin, RequestRows
  <2>2. ~request[q].claimed
    BY <1>1 DEF Begin, RunInv, Claims
  <2>3. ClaimsGo
    BY <2>1, <2>2 DEF ClaimsGo, Traces
  <2> QED
    BY <1>1, <2>3, UnmovedGo, JobsWait, Recalled DEF Begin
<1>2. ASSUME NEW pc \in RequestPcs, Proceed(q, pc) \/ Leave(q, pc), pc # "claim",
             \/ pc # "end"
             \/ ~request[q].claimed
             \/ Stamped(request[q].run)'
      PROVE  ClaimsGo
  <2>1. /\ request'[q].claimed = request[q].claimed /\ request'[q].pc = pc
        /\ request'[q].run = request[q].run
        /\ \A p \in Requests \ {q} : request'[p] = request[p]
    BY <1>0, <1>2 DEF Proceed, Leave, RequestRows
  <2> QED
    BY <1>2, <2>1 DEF ClaimsGo, Traces
<1> USE DEF RequestPcs
<1>3. ASSUME ClaimsGo, UNCHANGED <<job, run>>, Booting => Booting' PROVE RecallInv'
  BY <1>3, UnmovedGo, JobsWait, Recalled
<1>4. request[q].pc # "new" => request[q].run \in Runs
  BY DEF RunInv, Claims
<1>5. ASSUME NEW k \in Kernels, ClaimLease(q, k) PROVE RecallInv'
  <2>1. /\ request'[q].claimed = request[q].claimed /\ request'[q].pc = "spawn"
        /\ request'[q].run = request[q].run
        /\ \A p \in Requests \ {q} : request'[p] = request[p]
    BY <1>0, <1>5 DEF ClaimLease, RequestRows
  <2>2. ClaimsGo
    BY <2>1 DEF ClaimsGo, Traces
  <2> QED
    BY <1>3, <1>5, <2>2, UnmovedGo DEF ClaimLease
<1>6. CASE LoseLease(q)
  BY <1>2, <1>3, <1>6, UnmovedGo DEF LoseLease
<1>7. CASE Spawn(q)
  <2>1. Booting => Booting'
    BY <1>7, TypeParts DEF Spawn, Booting, RunInv, Processes, ReaperBoot, ReaperOff
  <2> QED
    BY <1>2, <1>3, <1>7, <2>1 DEF Spawn
<1>8. CASE AwaitReady(q)
  <2>1. /\ request'[q].claimed = request[q].claimed
        /\ request'[q].pc = IF request[q].claimed THEN "post" ELSE "claim"
        /\ request'[q].run = request[q].run
        /\ \A p \in Requests \ {q} : request'[p] = request[p]
    BY <1>0, <1>8 DEF AwaitReady, RequestRows
  <2>2. ClaimsGo
    BY <2>1 DEF ClaimsGo, Traces
  <2> QED
    BY <1>3, <1>8, <2>2, UnmovedGo DEF AwaitReady
<1>9. CASE AwaitTimesOut(q)
  BY <1>2, <1>3, <1>9, UnmovedGo DEF AwaitTimesOut
<1>10. CASE ClaimRun(q)
  <2>1. request[q].pc = "claim" /\ ~request[q].claimed /\ UNCHANGED <<job, reaper>>
    BY <1>10 DEF ClaimRun, Traces
  <2>2. CASE Leave(q, "end") /\ UNCHANGED run
    BY <1>2, <1>3, <2>1, <2>2, UnmovedGo
  <2>3. CASE /\ Status(q) = "absent"
             /\ run' = [run EXCEPT ![request[q].run].status = "queued"]
             /\ request' = [request EXCEPT ![q].pc = "ensure", ![q].claimed = TRUE]
    <3> DEFINE r == request[q].run
    <3>1. r \in Runs /\ run[r].status = "absent"
      BY <1>4, <2>1, <2>3 DEF Status
    <3> HIDE DEF r
    <3>2. /\ run'[r].status = "queued" /\ run'[r].stamp = NoKernel
          /\ \A s \in Runs \ {r} : run'[s] = run[s]
      BY <1>0, <2>3, <3>1 DEF RunRows, Traces, r
    <3>3. /\ request'[q].claimed /\ request'[q].pc = "ensure" /\ request'[q].run = r
          /\ \A p \in Requests \ {q} : request'[p] = request[p]
      BY <1>0, <2>3 DEF RequestRows, r
    <3>4. \A d \in Posts : Sent(d) => /\ d[1] \in Requests \ {q} /\ RunOf(d)' = RunOf(d)
                                      /\ RunOf(d) \in Runs \ {r}
      BY <2>1, <3>1, <3>3 DEF RunInv, Claims, Posts, RunOf
    <3>5. Traces'
      BY <2>1, <3>2, <3>3, <3>4 DEF Traces, Stamped, Sent
    <3>6. ASSUME NEW s \in Runs, run'[s].status \in Unsettled PROVE Remembered(s)'
      <4>1. CASE s = r
        BY <3>2, <3>3, <4>1 DEF Remembered, Dispatched
      <4>2. CASE s # r
        <5>1. run'[s] = run[s] /\ Remembered(s)
          BY <3>2, <3>6, <4>2 DEF NoRunIsForgotten
        <5>2. AtItsKernel(s) => AtItsKernel(s)'
          BY <2>1, <3>4, <5>1 DEF AtItsKernel, Sent
        <5>3. Dispatched(s) => Dispatched(s)'
          BY <2>1, <3>3 DEF Dispatched
        <5> QED
          BY <2>1, <5>1, <5>2, <5>3 DEF Remembered, Booting
      <4> QED
        BY <4>1, <4>2
    <3> QED
      BY <3>5, <3>6 DEF NoRunIsForgotten
  <2> QED
    BY <1>10, <2>2, <2>3 DEF ClaimRun
<1>11. CASE Post(q)
  <2>1. CASE Leave(q, "raised") /\ UNCHANGED job
    BY <1>2, <1>3, <1>11, <2>1, UnmovedGo DEF Post
  <2>2. ASSUME NEW i \in 1 .. MaxPosts, \A j \in 1 .. MaxPosts : j < i <=> Sent(<<q, j>>),
               job' = [job EXCEPT ![<<q, i>>] =
                          [kernel |-> request[q].kernel, pc |-> "admitted"]],
               Proceed(q, "posted")
        PROVE  RecallInv'
    <3>1. UNCHANGED <<run, reaper>>
      BY <1>11 DEF Post
    <3>2. ClaimsGo
      BY <1>2, <2>2
    <3>3. \A d \in Posts : IF d = <<q, i>> THEN ~Sent(d) /\ job'[d].pc = "admitted"
                                           ELSE job'[d] = job[d]
      BY <2>2, TypeParts, KernelBounds DEF RunInv, Posts
    <3>4. \A d \in Posts : Sent(d) => RunOf(d)' = RunOf(d)
      BY <3>2 DEF RunInv, Claims, Posts, RunOf, ClaimsGo
    <3>5. JobsGo
      BY <3>1, <3>3, <3>4 DEF JobsGo, Traces, Stamped, Sent
    <3> QED
      BY <3>1, <3>2, <3>5, UnmovedGo, Recalled
  <2> QED
    BY <1>11, <2>1, <2>2 DEF Post
<1>12. CASE Response(q)
  <2>1. UNCHANGED <<job, run, reaper>>
    BY <1>12 DEF Response
  <2>2. CASE Leave(q, "raised") \/ Proceed(q, "post")
    BY <1>2, <1>3, <2>1, <2>2, UnmovedGo
  <2>3. ASSUME NEW d \in Posts, LastPost(q, d), job[d].pc \notin {"admitted", "refused", "lost"},
               Leave(q, "end")
        PROVE  RecallInv'
    <3>1. Sent(d) /\ d[1] = q
      BY <2>3 DEF LastPost
    <3>2. job[d].pc \in {"rejected", "started", "done", "failed", "cancelled"}
      BY <2>3, <3>1, TypeParts DEF RunInv, JobRows, Sent
    <3>3. Stamped(request[q].run)
      BY <3>1, <3>2 DEF Traces, RunOf
    <3>4. Stamped(request[q].run)'
      <4>1. request'[q].run = request[q].run
        BY <1>0, <2>3 DEF Leave, RequestRows
      <4> QED
        BY <2>1, <3>3, <4>1 DEF Stamped
    <3>5. ClaimsGo
      BY <1>2, <2>3, <3>4
    <3> QED
      BY <1>3, <2>1, <3>5, UnmovedGo
  <2> QED
    BY <1>12, <2>2, <2>3 DEF Response
<1>13. CASE CheckDispatch(q)
  <2>1. request[q].pc = "raised" /\ UNCHANGED <<job, run, reaper>>
    BY <1>13 DEF CheckDispatch
  <2>2. CASE Proceed(q, "fail")
    BY <1>2, <1>3, <2>1, <2>2, UnmovedGo
  <2>3. CASE Proceed(q, "end") /\ ~(Status(q) = "queued" /\ run[request[q].run].stamp = NoKernel)
    <3>1. ~request[q].claimed \/ Stamped(request[q].run)
      <4>1. request[q].run \in Runs /\ (request[q].claimed => Status(q) # "absent")
        BY <1>4, <2>1 DEF RunInv, Claims, Status
      <4>2. Status(q) \in Unsettled \cup Terminal \cup {"absent"}
        BY <1>0, <4>1 DEF Status, RunRows, Statuses, Unsettled
      <4> QED
        BY <2>3, <4>1, <4>2, NullAssumption
           DEF NoRunIsForgotten, Remembered, Stamped, Status, Unsettled
    <3>2. ~request[q].claimed \/ Stamped(request[q].run)'
      <4>1. request'[q].run = request[q].run
        BY <1>0, <2>3 DEF Proceed, RequestRows
      <4> QED
        BY <2>1, <3>1, <4>1 DEF Stamped
    <3> QED
      BY <1>2, <1>3, <2>1, <2>3, <3>2, UnmovedGo
  <2> QED
    BY <1>13, <2>2, <2>3 DEF CheckDispatch
<1>14. CASE FailDispatch(q)
  <2>1. request[q].pc = "fail" /\ request[q].run \in Runs /\ Proceed(q, "end")
        /\ UNCHANGED <<job, reaper>>
    BY <1>4, <1>14 DEF FailDispatch
  <2>2. RunsGo
    BY <1>14, <2>1, WriteGoes, UnmovedGo DEF FailDispatch, Terminal
  <2>3. ~request[q].claimed \/ Stamped(request[q].run)'
    <3>1. request'[q].run = request[q].run
      BY <1>0, <2>1 DEF Proceed, RequestRows
    <3>2. CASE Status(q) = "queued"
      <4>1. run' = [run EXCEPT ![request[q].run].status = "failed"]
        BY <1>14, <3>2 DEF FailDispatch, WriteStatus, Status, Terminal
      <4>2. run'[request[q].run].status = "failed"
        BY <1>0, <2>1, <4>1 DEF RunRows
      <4> QED
        BY <3>1, <4>2 DEF Stamped, Terminal
    <3>3. CASE Status(q) # "queued"
      <4>1. UNCHANGED run
        BY <1>14, <3>3 DEF FailDispatch
      <4>2. request[q].claimed => Status(q) # "absent"
        BY DEF RunInv, Claims, Status
      <4>3. Status(q) \in Unsettled \cup Terminal \cup {"absent"}
        BY <1>0, <2>1 DEF Status, RunRows, Statuses, Unsettled
      <4>4. ~request[q].claimed \/ Stamped(request[q].run)
        BY <2>1, <3>3, <4>2, <4>3, NullAssumption
           DEF NoRunIsForgotten, Remembered, Stamped, Status, Unsettled
      <4> QED
        BY <3>1, <4>1, <4>4 DEF Stamped
    <3> QED
      BY <3>2, <3>3
  <2>4. ClaimsGo
    BY <1>2, <2>1, <2>3
  <2> QED
    BY <2>1, <2>2, <2>4, UnmovedGo, JobsWait, Recalled
<1> QED
  BY <1>1, <1>5, <1>6, <1>7, <1>8, <1>9, <1>10, <1>11, <1>12, <1>13, <1>14 DEF RequestStep

LEMMA JobRecalls ==
    ASSUME RecallInv, RunInv', OwnKernels', NEW d \in Posts, JobStep(d) PROVE RecallInv'
<1> USE DEF RecallInv
<1> DEFINE r == RunOf(d)
<1>0. job \in [Posts -> JobRows] /\ run \in [Runs -> RunRows]
  BY TypeParts DEF RunInv
<1>1. /\ Sent(d) /\ r \in Runs /\ run[r].status # "absent" /\ job[d].kernel \in Kernels
      /\ UNCHANGED <<request, reaper>>
  <2>1. Sent(d) /\ UNCHANGED <<request, reaper>>
    BY DEF JobStep, JobStarts, JobRejected, JobRefused, JobRuns, JobEnds, Sent
  <2> QED
    BY <2>1 DEF RunInv, Claims, Posts, RunOf, OwnKernels, JobsOwn, Own
<1>2. \A e \in Posts : RunOf(e)' = RunOf(e)
  BY <1>1 DEF RunOf
<1> HIDE DEF r
<1>3. ClaimsGo /\ (Booting => Booting')
  BY <1>1, UnmovedGo
<1>4. run[r].status \in Unsettled => Remembered(r)
  BY <1>1 DEF NoRunIsForgotten
<1>5. run[r].status \in Unsettled \cup Terminal
  BY <1>0, <1>1 DEF RunRows, Statuses, Unsettled
<1>6. ASSUME RunsGo, NEW pc, job' = [job EXCEPT ![d].pc = pc],
             job[d].pc = "started" => run'[r].status \in Terminal,
             \/ pc \in {"rejected", "done", "failed", "cancelled"} /\ Stamped(r)'
             \/ pc = "refused",
             job[d].pc # "lost"
      PROVE  RecallInv'
  <2>1. /\ job'[d].kernel = job[d].kernel /\ job'[d].pc = pc
        /\ \A e \in Posts \ {d} : job'[e] = job[e]
    BY <1>0, <1>6 DEF JobRows
  <2>2. \A e \in Posts : Sent(e) => RunOf(e) \in Runs
    BY DEF RunInv, Claims, Posts, RunOf
  <2>3. \A s \in Runs : Stamped(s) => Stamped(s)'
    BY <1>6 DEF RunsGo, Stamped
  <2>4. r' = r
    BY <1>2 DEF r
  <2>5. JobsGo
    <3> SUFFICES ASSUME NEW e \in Posts
                 PROVE  /\ Sent(e) => job'[e].kernel = job[e].kernel
                        /\ job[e].pc \in {"started", "lost"} =>
                              job'[e].pc \in {"started", "lost"} \/ run'[RunOf(e)].status \in Terminal
                        /\ job'[e].pc \in {"rejected", "started", "done", "failed", "cancelled"} =>
                              Sent(e) /\ Stamped(RunOf(e))'
      BY DEF JobsGo
    <3>1. CASE e = d
      BY <1>1, <1>6, <2>1, <3>1 DEF r
    <3>2. CASE e # d
      <4>1. job'[e] = job[e]
        BY <2>1, <3>2
      <4>2. job[e].pc \in {"rejected", "started", "done", "failed", "cancelled"}
               => Sent(e) /\ Stamped(RunOf(e))
        BY DEF Traces, Sent
      <4>3. Sent(e) /\ Stamped(RunOf(e)) => Stamped(RunOf(e))'
        BY <1>2, <2>2, <2>3 DEF Stamped
      <4> QED
        BY <4>1, <4>2, <4>3
    <3> QED
      BY <3>1, <3>2
  <2> QED
    BY <1>3, <1>6, <2>5, Recalled
<1>7. ASSUME run[r].status \in Terminal, UNCHANGED run PROVE RunsGo /\ Stamped(r)'
  BY <1>2, <1>7, UnmovedGo DEF Stamped, r
<1>8. ASSUME NEW status \in Terminal, WriteStatus(r, status)
      PROVE  RunsGo /\ Stamped(r)' /\ run'[r].status \in Terminal
  <2>1. RunsGo
    BY <1>1, <1>8, WriteGoes
  <2>2. run'[r].status \in Terminal
    BY <1>0, <1>1, <1>8 DEF WriteStatus, RunRows
  <2> QED
    BY <1>2, <2>1, <2>2 DEF Stamped, r
<1>9. CASE JobStarts(d)
  <2>1. job[d].pc = "admitted" /\ job' = [job EXCEPT ![d].pc = "started"]
    BY <1>9 DEF JobStarts
  <2>2. /\ job'[d].kernel = job[d].kernel /\ job'[d].pc = "started"
        /\ \A e \in Posts \ {d} : job'[e] = job[e]
    BY <1>0, <2>1 DEF JobRows
  <2>3. \A s \in Runs :
          IF s = r /\ run[r].status \notin Terminal
          THEN run'[s].status = "queued"
               /\ run'[s].stamp = (IF run[r].stamp = NoKernel THEN job[d].kernel ELSE run[r].stamp)
          ELSE run'[s] = run[s]
    BY <1>0, <1>9 DEF JobStarts, RunRows, r
  <2>4. \A s \in Runs : Stamped(s) => Stamped(s)'
    BY <1>1, <2>3, NullAssumption DEF Stamped
  <2>5. Stamped(r)'
    BY <1>1, <1>2, <2>3, NullAssumption DEF Stamped, r
  <2>6. Traces'
    <3>1. \A e \in Posts :
             job'[e].pc \in {"rejected", "started", "done", "failed", "cancelled"}
                => Stamped(RunOf(e))'
      <4> SUFFICES ASSUME NEW e \in Posts,
                          job'[e].pc \in {"rejected", "started", "done", "failed", "cancelled"}
                   PROVE  Stamped(RunOf(e))'
        OBVIOUS
      <4>1. CASE e = d
        BY <1>2, <2>5, <4>1 DEF Stamped, r
      <4>2. CASE e # d
        <5>1. Sent(e) /\ Stamped(RunOf(e))
          BY <2>2, <4>2 DEF Traces, Sent
        <5>2. RunOf(e) \in Runs
          BY <5>1 DEF RunInv, Claims, Posts, RunOf
        <5> QED
          BY <1>2, <2>4, <5>1, <5>2 DEF Stamped
      <4> QED
        BY <4>1, <4>2
    <3>2. \A s \in Runs : run'[s].status = "absent" => run'[s].stamp = NoKernel
      BY <2>3 DEF Traces
    <3> QED
      BY <1>1, <3>1, <3>2 DEF Traces
  <2>7. ASSUME NEW s \in Runs, run'[s].status \in Unsettled PROVE Remembered(s)'
    <3>1. CASE s = r /\ run[r].stamp = NoKernel
      <4>1. run[r].status \notin Terminal
        BY <2>3, <2>7, <3>1 DEF Unsettled, Terminal
      <4>2. run'[s].stamp = job'[d].kernel /\ job'[d].kernel \in Kernels /\ RunOf(d)' = s
        BY <1>1, <1>2, <2>2, <2>3, <3>1, <4>1 DEF r
      <4> QED
        BY <2>2, <4>2 DEF Remembered, AtItsKernel
    <3>2. CASE ~(s = r /\ run[r].stamp = NoKernel)
      <4>1. /\ run'[s].stamp = run[s].stamp /\ run[s].status \in Unsettled
            /\ s # r => run'[s] = run[s]
        BY <1>5, <2>3, <2>7, <3>2 DEF Unsettled, Terminal
      <4>2. Remembered(s)
        BY <4>1 DEF NoRunIsForgotten
      <4>3. AtItsKernel(s) => AtItsKernel(s)'
        BY <1>2, <2>1, <2>2, <4>1 DEF AtItsKernel
      <4>4. run[s].stamp = NoKernel => run'[s] = run[s]
        BY <3>2, <4>1
      <4> QED
        BY <1>1, <4>1, <4>2, <4>3, <4>4 DEF Remembered, Dispatched, Booting
    <3> QED
      BY <3>1, <3>2
  <2> QED
    BY <2>6, <2>7 DEF NoRunIsForgotten
<1>10. CASE JobRejected(d)
  <2>1. job[d].pc = "admitted" /\ job' = [job EXCEPT ![d].pc = "rejected"]
    BY <1>10 DEF JobRejected
  <2>2. CASE run[r].status = "queued"
    BY <1>6, <1>8, <1>10, <2>1, <2>2 DEF JobRejected, Terminal, r
  <2>3. CASE run[r].status # "queued"
    <3>1. UNCHANGED run
      BY <1>10, <2>3 DEF JobRejected, r
    <3>2. Stamped(r)
      BY <1>4, <1>5, <2>3, NullAssumption DEF Remembered, Stamped, Unsettled
    <3>3. Stamped(r)' /\ RunsGo
      BY <1>2, <3>1, <3>2, UnmovedGo DEF Stamped, r
    <3> QED
      BY <1>6, <2>1, <3>3
  <2> QED
    BY <2>2, <2>3
<1>11. CASE JobRefused(d)
  BY <1>6, <1>11, UnmovedGo DEF JobRefused
<1>12. CASE JobRuns(d)
  <2>1. job[d].pc = "started" /\ run[r].status = "queued" /\ UNCHANGED job
        /\ WriteStatus(r, "running")
    BY <1>12 DEF JobRuns, r
  <2>2. Stamped(r) /\ run[r].stamp # NoKernel
    BY <2>1 DEF Traces, Stamped, Terminal, r
  <2>3. RunsGo
    BY <1>1, <2>1, <2>2, WriteGoes DEF Unsettled
  <2> QED
    BY <1>1, <1>3, <2>1, <2>3, UnmovedGo, Recalled
<1>13. ASSUME NEW outcome \in {"done", "failed", "cancelled"}, JobEnds(d, outcome)
       PROVE  RecallInv'
  BY <1>6, <1>8, <1>13 DEF JobEnds, Terminal, r
<1> QED
  BY <1>9, <1>10, <1>11, <1>12, <1>13 DEF JobStep

LEMMA KernelRecalls ==
    ASSUME RecallInv, RunInv', OwnKernels', NEW k \in Kernels,
           KernelStep(k) \/ HeartbeatBegins(k) \/ DropBegins(k) \/ KernelCrashes(k)
    PROVE  RecallInv'
<1> USE DEF RecallInv
<1>1. UNCHANGED <<request, run>>
  BY DEF KernelStep, ReadyBegins, ReadyCommits, ReadyFenced, HeartbeatBegins,
     HeartbeatCommits, HeartbeatFenced, DropBegins, DropCommits, KernelCrashes, Open
<1>2. \/ UNCHANGED <<job, reaper>>
      \/ Exit(k)
  BY DEF KernelStep, ReadyBegins, ReadyCommits, ReadyFenced, HeartbeatBegins,
     HeartbeatCommits, HeartbeatFenced, DropBegins, DropCommits, KernelCrashes, Open
<1>3. CASE UNCHANGED <<job, reaper>>
  BY <1>1, <1>3, UnmovedGo, Recalled
<1>4. CASE Exit(k)
  <2>1. Booting => Booting'
    <3>1. \A h \in Hubs : reaper'[h] = reaper[h]
      BY <1>4, TypeParts, ProcessAssumption DEF Exit, RunInv, Processes
    <3> QED
      BY <3>1 DEF Booting
  <2>2. \A d \in Posts : /\ job'[d].kernel = job[d].kernel
                         /\ \/ job'[d].pc = job[d].pc
                            \/ job'[d].pc = "lost"
    BY <1>4, TypeParts DEF RunInv, JobRows, Exit
  <2>3. JobsGo
    BY <1>1, <2>2 DEF JobsGo, Traces, Stamped, Sent, RunOf
  <2> QED
    BY <1>1, <2>1, <2>3, UnmovedGo, Recalled
<1> QED
  BY <1>2, <1>3, <1>4

\* A hub that dies leaves its requests' runs to the reaper it boots with, and
\* that reaper, once it is done, has failed every run without a stamp.
LEMMA RecoveryRecalls ==
    ASSUME RecallInv, RunInv', OwnKernels',
           \/ \E c \in Canvases : LeaseGoesStale(c)
           \/ \E h \in Hubs : ReaperWakes(h) \/ HubCrashes(h)
           \/ \E p \in Processes : ReaperStep(p)
    PROVE  RecallInv'
<1> USE DEF RecallInv
<1>0. reaper \in [Processes -> ReaperRows] /\ run \in [Runs -> RunRows] /\ Hubs \subseteq Processes
  BY TypeParts DEF RunInv, Processes
<1>1. CASE \E c \in Canvases : LeaseGoesStale(c)
  BY <1>1, UnmovedGo, Recalled DEF LeaseGoesStale
<1>2. ASSUME \A h \in Hubs : reaper[h].boot => reaper'[h].boot PROVE Booting => Booting'
  BY <1>2 DEF Booting
<1>3. ASSUME NEW h \in Hubs, ReaperWakes(h) PROVE RecallInv'
  <2>1. Booting => Booting'
    BY <1>0, <1>2, <1>3 DEF ReaperWakes, ReaperRows
  <2> QED
    BY <1>3, <2>1, UnmovedGo, Recalled DEF ReaperWakes
<1>4. ASSUME NEW h \in Hubs, HubCrashes(h) PROVE RecallInv'
  <2>1. UNCHANGED <<job, run>>
    BY <1>4 DEF HubCrashes
  <2>2. Booting'
    BY <1>0, <1>4 DEF HubCrashes, Booting, ReaperBoot, ReaperOff
  <2>3. \A q \in Requests : /\ request'[q].run = request[q].run
                            /\ request'[q].claimed = request[q].claimed
                            /\ request'[q].pc = "end" \/ request'[q] = request[q]
    BY <1>4, TypeParts DEF RunInv, RequestRows, HubCrashes
  <2>4. \A d \in Posts : RunOf(d)' = RunOf(d)
    BY <2>3 DEF Posts, RunOf
  <2>5. Traces'
    BY <2>1, <2>3, <2>4 DEF Traces, Stamped
  <2>6. ASSUME NEW r \in Runs, run'[r].status \in Unsettled PROVE Remembered(r)'
    <3>1. Remembered(r)
      BY <2>1, <2>6 DEF NoRunIsForgotten
    <3>2. AtItsKernel(r) => AtItsKernel(r)'
      BY <2>1, <2>4 DEF AtItsKernel
    <3> QED
      BY <2>1, <2>2, <3>1, <3>2 DEF Remembered
  <2> QED
    BY <2>5, <2>6 DEF NoRunIsForgotten
<1>5. ASSUME NEW p \in Processes, ReaperStep(p), ~FailOrphans(p) PROVE RecallInv'
  <2>1. UNCHANGED <<request, job, run>>
    BY <1>5 DEF ReaperStep, ReadStaleLeases, DeleteStaleLeases, ReadLiveKernels
  <2>2. Booting => Booting'
    BY <1>0, <1>2, <1>5 DEF ReaperStep, ReadStaleLeases, DeleteStaleLeases, ReadLiveKernels, ReaperRows
  <2> QED
    BY <2>1, <2>2, UnmovedGo, Recalled
<1>6. ASSUME NEW p \in Processes, FailOrphans(p) PROVE RecallInv'
  <2>1. UNCHANGED <<request, job>>
    BY <1>6 DEF FailOrphans
  <2>2. \A r \in Runs : IF Orphaned(p, r) THEN /\ run'[r].status = "interrupted"
                                               /\ run'[r].stamp = run[r].stamp
                                          ELSE run'[r] = run[r]
    BY <1>0, <1>6 DEF FailOrphans, RunRows
  <2>3. RunsGo
    BY <2>2 DEF RunsGo, Orphaned, Unsettled, Terminal
  <2>4. CASE ~reaper[p].boot
    <3>1. Booting => Booting'
      BY <1>0, <1>2, <1>6, <2>4 DEF FailOrphans
    <3> QED
      BY <2>1, <2>3, <3>1, UnmovedGo, Recalled
  <2>5. CASE reaper[p].boot
    <3>1. Traces'
      BY <2>1, <2>3, UnmovedGo DEF JobsGo, RunsGo, Traces, Stamped, RunOf
    <3>2. ASSUME NEW r \in Runs, run'[r].status \in Unsettled PROVE Remembered(r)'
      <4>1. run'[r] = run[r] /\ ~Orphaned(p, r)
        BY <2>2, <3>2 DEF Unsettled
      <4>2. run[r].stamp # NoKernel
        <5>1. NoKernel \notin reaper[p].live
          BY <1>0, NullAssumption DEF ReaperRows
        <5> QED
          BY <2>5, <3>2, <4>1, <5>1 DEF Orphaned, Unsettled
      <4>3. run[r].stamp \in Kernels /\ AtItsKernel(r)
        BY <3>2, <4>1, <4>2 DEF NoRunIsForgotten, Remembered
      <4> QED
        BY <2>1, <4>1, <4>3 DEF Remembered, AtItsKernel, RunOf
    <3> QED
      BY <3>1, <3>2 DEF NoRunIsForgotten
  <2>6. reaper[p].boot \in BOOLEAN
    BY <1>0 DEF ReaperRows
  <2> QED
    BY <2>4, <2>5, <2>6
<1> QED
  BY <1>1, <1>3, <1>4, <1>5, <1>6

\* A queued or running run always has somebody to settle it.
THEOREM EveryRunIsRemembered == Spec => []NoRunIsForgotten
<1>1. Init => Traces /\ NoRunIsForgotten
  BY DEF Init, Traces, NoRunIsForgotten, Unsettled
<1>2. RecallInv /\ RunInv' /\ OwnKernels' /\ [Next]_vars => RecallInv'
  <2> SUFFICES ASSUME RecallInv, RunInv', OwnKernels', [Next]_vars PROVE RecallInv'
    OBVIOUS
  <2>1. CASE UNCHANGED vars
    BY <2>1, UnmovedGo, Recalled DEF vars
  <2>2. CASE Next
    BY <2>2, RequestRecalls, JobRecalls, KernelRecalls, RecoveryRecalls DEF Next
  <2> QED
    BY <2>1, <2>2
<1>3. RecallInv => NoRunIsForgotten
  BY DEF RecallInv
<1>4. RunInv /\ OwnKernels /\ Traces /\ NoRunIsForgotten => RecallInv
  BY DEF RecallInv
<1> QED
  BY <1>1, <1>2, <1>3, <1>4, RunInvariant, KernelsServeTheirCanvas, PTL DEF Spec

\* Where a request is never repeated, no run is executed twice: the retries of
\* _post are the one way to a second worker of a run.
THEOREM SinglePostsExecuteOnce ==
    ASSUME MaxPosts <= 1
    PROVE  Spec => []SingleExecution
<1>1. OneDispatcher => SingleExecution
  <2> SUFFICES ASSUME OneDispatcher, NEW d \in Posts, NEW e \in Posts,
                      job[d].pc \in {"started", "done", "failed", "cancelled"},
                      job[e].pc \in {"started", "done", "failed", "cancelled"},
                      RunOf(d) = RunOf(e)
               PROVE  d = e
    BY DEF SingleExecution
  <2>1. d[1] = e[1]
    BY DEF OneDispatcher, Sent
  <2>2. d[2] = 1 /\ e[2] = 1
    BY KernelBounds DEF Posts
  <2> QED
    BY <2>1, <2>2 DEF Posts
<1> QED
  BY <1>1, RunsHaveOneDispatcher, PTL
=============================================================================
