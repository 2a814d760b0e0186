----------------------------- MODULE BackendJob ------------------------------
(***************************************************************************)
(* One run in an external backend: its row run_backend_jobs (hub/metadb.py *)
(* 15339-16330), the supervisors that drive it (plugin dp_ray,             *)
(* _supervise_jobs and what it calls) and Ray Jobs, as the plugin uses it. *)
(*                                                                         *)
(* Each hub process supervises the run.  Its transactions lock the row and *)
(* are one action each; so is each call of the Jobs API.  All requests use *)
(* the one deterministic submission ID, hence Ray accepts at most one while*)
(* it remembers the job.  A request may outlive its sender's patience, and *)
(* Ray may forget the job (its head restarts), which ends the job and the  *)
(* requests that were on their way.  A lease's owner, in the code a token  *)
(* of one attempt to submit or to publish, is here its supervisor.         *)
(*                                                                         *)
(* A supervisor's three loops are one here, with the checks in the order   *)
(* of the first and the third.  An ambiguous answer is a poll that is      *)
(* repeated, so it needs no action.                                        *)
(***************************************************************************)
EXTENDS Naturals

CONSTANTS
    Supervisors,  \* one per hub process
    Nobody,       \* no owner of a lease
    Intents,      \* what may be asked of the run: "cancellation", "quarantine"
    MaxLosses     \* bound: how often Ray forgets the job

ASSUME NobodyAssumption == Nobody \notin Supervisors
ASSUME IntentAssumption == Intents \subseteq {"cancellation", "quarantine"}
ASSUME BoundAssumption == MaxLosses \in Nat

VARIABLES
    job,          \* the row: submission, publication, their leases, the plan
    catalog,      \* whether the effects of the plan are in the catalog
    remote,       \* the job Ray knows under the submission ID
    result,       \* the result object: "none", "done" or "failed"
    inFlight,     \* requests to submit that Ray has not answered
    supervisor,   \* the control state of each supervisor
    losses        \* how often Ray forgot the job

rayVars == <<remote, result, inFlight>>
vars == <<job, catalog, rayVars, supervisor, losses>>

Reconciliation == {"result_fencing", "result_submitted", "result_stop_fenced"}
Unsettled == Reconciliation \cup {"submitting", "fencing", "stopping", "fence_stopping"}
Submissions == Unsettled \cup {"queued", "submitted", "stop_fenced", "result_fenced"}

Fences == {"cancellation", "quarantine", "reconciliation"}
Live == {"running", "stopping"}
NoJob == [job |-> "none", status |-> "none"]

\* A supervisor: where it is, why it acts, what it read of the row, what it
\* saw of the job, and the terminal result it wants to publish.
AtRest == [pc |-> "refresh", reason |-> "run", read |-> "none", readOwner |-> Nobody,
           seen |-> NoJob, evidence |-> "none"]

Init ==
    /\ job = [submission |-> "queued", submissionOwner |-> Nobody, intent |-> {},
              publication |-> "pending", publicationOwner |-> Nobody, plan |-> "none"]
    /\ catalog = FALSE
    /\ remote = NoJob
    /\ result = "none"
    /\ inFlight = {}
    /\ supervisor = [s \in Supervisors |-> [AtRest EXCEPT !.pc = "idle"]]
    /\ losses = 0

-----------------------------------------------------------------------------
(* The row and the supervisors' steps.                                     *)

Pending == job.publication = "pending"

\* A lease is renewed by a thread that may stall, for a bounded time, and a
\* lapsed one can be renewed: whoever looks finds it live or lapsed.
Leased ==
    \/ job.publicationOwner # Nobody
    \/ job.submission \in {"submitting", "fencing", "result_fencing"}

\* A new submission state; a pending publication loses its claim with it.
WithSubmission(state, owner) ==
    [job EXCEPT !.submission = state, !.submissionOwner = owner,
                !.publicationOwner = Nobody]

At(s, pc) == supervisor[s].pc = pc
Reason(s) == supervisor[s].reason
Seen(s) == supervisor[s].seen

Goes(s, pc) ==
    supervisor' = [supervisor EXCEPT
        ![s].pc = pc, ![s].read = "none", ![s].readOwner = Nobody]

\* What it read of the row serves the step after it saw the job, not later.
Sees(s, pc) ==
    supervisor' = [supervisor EXCEPT
        ![s].pc = pc, ![s].seen = remote,
        ![s].read = IF pc = "replay" THEN @ ELSE "none",
        ![s].readOwner = IF pc = "persist" THEN @ ELSE Nobody]

\* Back to the top of the loop.
Rests(s) == supervisor' = [supervisor EXCEPT ![s] = AtRest]

\* Off to publish a terminal result, or whatever plan is already staged.
Publishes(s, evidence) ==
    supervisor' = [supervisor EXCEPT ![s] = [AtRest EXCEPT !.pc = "publish", !.evidence = evidence]]

\* What a step that lost its row to a publisher, or to another state, does.
GivesWay(s) == IF Pending THEN Rests(s) ELSE Publishes(s, "none")

-----------------------------------------------------------------------------
(* Asking the run to stop.                                                 *)

RequestCancel ==
    /\ "cancellation" \in Intents
    /\ Pending
    /\ job' = [job EXCEPT !.intent = @ \cup {"cancellation"}]
    /\ UNCHANGED <<catalog, rayVars, supervisor, losses>>

\* A supervisor reads a corrupt artifact; a publisher that came first wins.
RequestQuarantine(s) ==
    /\ "quarantine" \in Intents
    /\ At(s, "find") /\ Reason(s) \in {"run", "cancellation"}
    /\ IF Pending
       THEN job' = [job EXCEPT !.intent = @ \cup {"quarantine"}] /\ Rests(s)
       ELSE UNCHANGED job /\ Publishes(s, "none")
    /\ UNCHANGED <<catalog, rayVars, losses>>

-----------------------------------------------------------------------------
(* Observing the job.                                                      *)

Start(s) ==
    /\ At(s, "idle")
    /\ Rests(s)
    /\ UNCHANGED <<job, catalog, rayVars, losses>>

ReasonToAct ==
    CASE job.submission \in Reconciliation -> "reconciliation"
      [] job.submission \notin Reconciliation /\ "quarantine" \in job.intent -> "quarantine"
      [] job.submission \notin Reconciliation /\ job.intent = {"cancellation"} -> "cancellation"
      [] OTHER -> "run"

\* A staged plan and a settled result fence are published at once.
Refresh(s) ==
    /\ At(s, "refresh")
    /\ \/ job.publication = "effects_started" /\ Publishes(s, "none")
       \/ /\ job.publication # "effects_started"
          /\ job.submission = "result_fenced"
          /\ IF "quarantine" \in job.intent
             THEN Publishes(s, "failed")
             ELSE supervisor' = [supervisor EXCEPT ![s].pc = "reread",
                                                   ![s].reason = "reconciliation"]
       \/ /\ job.publication # "effects_started"
          /\ job.submission # "result_fenced"
          /\ supervisor' = [supervisor EXCEPT
                ![s].pc = "find", ![s].reason = ReasonToAct,
                ![s].read = job.submission,
                ![s].readOwner = IF ReasonToAct = "run" THEN Nobody ELSE job.submissionOwner]
    /\ UNCHANGED <<job, catalog, rayVars, losses>>

\* What to do about the job that was found, or about none.
AfterFind(s) ==
    LET read == supervisor[s].read
        missing == remote.job = "none"
    IN  CASE Reason(s) = "run" -> IF missing THEN "replay" ELSE "note"
          [] Reason(s) = "reconciliation" ->
                IF read = "result_fencing" THEN IF missing THEN "claimFence" ELSE "persist"
                ELSE IF remote.status \in Live THEN "stop" ELSE "settle"
          [] OTHER ->
                IF ~missing THEN "persist"
                ELSE IF read \in {"stopping", "fence_stopping"} THEN "settle" ELSE "claimFence"

Find(s) ==
    /\ At(s, "find")
    /\ IF Reason(s) = "run" /\ remote.job \in Fences
       THEN Rests(s)
       ELSE Sees(s, AfterFind(s))
    /\ UNCHANGED <<job, catalog, rayVars, losses>>

\* Mutant: a late observation still changes the row of a frozen run.
CanNoteLate == job.submission \notin {"stop_fenced", "result_stop_fenced", "result_fenced"}

\* note_backend_submission_observed.
CanNote == Pending /\ job.submission \notin {"stop_fenced", "result_stop_fenced", "result_fenced"}

Noted ==
    WithSubmission(CASE job.submission \in Reconciliation -> "result_submitted"
                     [] job.submission \notin Reconciliation /\ job.intent # {} -> "stopping"
                     [] OTHER -> "submitted", Nobody)

\* A job that ended is published as it ended: a success by its result, a
\* stop by its result if there is one.
Note(s) ==
    /\ At(s, "note")
    /\ IF CanNote
       THEN /\ job' = Noted
            /\ CASE Seen(s).status \in Live -> Rests(s)
                 [] Seen(s).status = "failed" -> Publishes(s, "failed")
                 [] OTHER -> Goes(s, "reread")
       ELSE UNCHANGED job /\ GivesWay(s)
    /\ UNCHANGED <<catalog, rayVars, losses>>

\* The job is missing: its result, if any, is final, unless a request is
\* unsettled; without one the run may be submitted.
Replay(s) ==
    /\ At(s, "replay")
    /\ \/ result = "none" /\ Goes(s, "claim")
       \/ /\ result # "none" /\ supervisor[s].read = "submitting"
          /\ supervisor' = [supervisor EXCEPT ![s].pc = "claimFence",
                                              ![s].reason = "reconciliation"]
       \/ result # "none" /\ supervisor[s].read # "submitting" /\ Publishes(s, result)
    /\ UNCHANGED <<job, catalog, rayVars, losses>>

\* The result is read once its writer is known to have ended.
WithoutResult(s) ==
    IF \/ Reason(s) = "cancellation" /\ Seen(s).status # "succeeded"
       \/ Reason(s) = "run" /\ Seen(s).status = "stopped"
    THEN "cancelled" ELSE "failed"

Reread(s) ==
    /\ At(s, "reread")
    /\ Publishes(s, IF result # "none" THEN result ELSE WithoutResult(s))
    /\ UNCHANGED <<job, catalog, rayVars, losses>>

-----------------------------------------------------------------------------
(* Submitting the job, or a fence in its place.                            *)

\* Mutant: an intent to stop does not keep the run from being submitted.
CanClaimDespiteIntent ==
    Pending /\ job.submission \in {"queued", "submitted", "submitting"}

\* claim_backend_submission_after_missing.
CanClaim ==
    Pending /\ job.intent = {} /\ job.submission \in {"queued", "submitted", "submitting"}

Claim(s) ==
    /\ At(s, "claim")
    /\ \/ CanClaim /\ job' = WithSubmission("submitting", s) /\ Goes(s, "send")
       \/ (CanClaim => Leased) /\ UNCHANGED job /\ Rests(s)
    /\ UNCHANGED <<catalog, rayVars, losses>>

\* claim_backend_stop_fence.
CanFence(reason) ==
    /\ Pending
    /\ IF reason = "reconciliation"
       THEN job.submission \in {"submitting", "result_fencing"}
       ELSE job.intent # {} /\ job.submission \in {"submitting", "fencing"}

\* A run that was never submitted, or whose winner is known, and that Ray
\* does not have, has no execution left.
ProvesMissing(reason) ==
    /\ Pending /\ reason # "reconciliation"
    /\ job.submission \in {"queued", "submitted", "stop_fenced"}

ClaimFence(s) ==
    /\ At(s, "claimFence")
    /\ LET r == Reason(s) IN
          \/ /\ CanFence(r)
             /\ job' = WithSubmission(
                   IF r = "reconciliation" THEN "result_fencing" ELSE "fencing", s)
             /\ Goes(s, "send")
          \/ /\ ~CanFence(r) /\ ProvesMissing(r)
             /\ IF r = "quarantine" THEN Publishes(s, "failed") ELSE Goes(s, "reread")
             /\ UNCHANGED job
          \/ /\ ~ProvesMissing(r)
             /\ CanFence(r) => Leased
             /\ Rests(s)
             /\ UNCHANGED job
    /\ UNCHANGED <<catalog, rayVars, losses>>

Sends(s) == IF Reason(s) = "run" THEN "workload" ELSE Reason(s)

Send(s) ==
    /\ At(s, "send")
    /\ inFlight' = inFlight \cup {<<s, Sends(s)>>}
    /\ Goes(s, "await")
    /\ UNCHANGED <<job, catalog, remote, result, losses>>

\* Ray accepts a request unless it knows a job by this ID.  Its sender may
\* learn that its request was accepted.  Equal requests of one supervisor are
\* one here: the first to arrive decides.
Deliver(s, kind) ==
    /\ <<s, kind>> \in inFlight
    /\ inFlight' = inFlight \ {<<s, kind>>}
    /\ IF remote = NoJob
       THEN LET accepted == [job |-> kind, status |-> "running"] IN
            /\ remote' = accepted
            /\ \/ UNCHANGED supervisor
               \/ /\ At(s, "await") /\ Sends(s) = kind
                  /\ supervisor' = [supervisor EXCEPT
                        ![s].pc = IF kind = "workload" THEN "note" ELSE "accept",
                        ![s].seen = accepted]
       ELSE UNCHANGED <<remote, supervisor>>
    /\ UNCHANGED <<job, catalog, result, losses>>

\* Mutant: whatever holds the ID after a request to fence is taken for the fence.
RecheckTrusting(s) ==
    /\ At(s, "await")
    /\ IF remote.job = "none"
       THEN Rests(s)
       ELSE Sees(s, IF Sends(s) = "workload" THEN "note" ELSE "accept")
    /\ UNCHANGED <<job, catalog, rayVars, losses>>

\* The request was rejected, or its answer does not come: ask Ray once; a
\* job that is not there (yet) leaves the claim as it is.
Recheck(s) ==
    /\ At(s, "await")
    /\ IF remote.job \in {"none"} \cup (IF Sends(s) = "workload" THEN Fences ELSE {})
       THEN Rests(s)
       ELSE supervisor' = [supervisor EXCEPT
               ![s].pc = IF Sends(s) = "workload" THEN "note" ELSE "persist",
               ![s].seen = remote,
               ![s].readOwner = IF Sends(s) = "workload" THEN Nobody ELSE job.submissionOwner]
    /\ UNCHANGED <<job, catalog, rayVars, losses>>

\* note_backend_stop_fence_accepted.
CanAccept(owner) ==
    /\ Pending
    /\ job.submission \in {"fencing", "fence_stopping", "stop_fenced",
                           "result_fencing", "result_stop_fenced"}
    /\ owner # Nobody => job.submissionOwner = owner
    /\ job.submission \in Reconciliation \/ job.intent # {}

Accepted ==
    WithSubmission(IF job.submission \in Reconciliation THEN "result_stop_fenced"
                                                        ELSE "fence_stopping", Nobody)

FenceState(reason) ==
    IF reason = "reconciliation" THEN {"result_stop_fenced", "result_fenced"}
                                 ELSE {"fence_stopping"}

AcceptAs(s, owner, fence, pc) ==
    \/ CanAccept(owner) /\ job' = Accepted /\ Goes(s, pc)
    \/ /\ ~CanAccept(owner)
       /\ IF Pending /\ job.submission \in FenceState(fence) THEN Goes(s, pc) ELSE GivesWay(s)
       /\ UNCHANGED job

Accept(s) ==
    /\ At(s, "accept")
    /\ AcceptAs(s, s, Reason(s), "refind")
    /\ UNCHANGED <<catalog, rayVars, losses>>

Allowed(fence) ==
    \/ fence \in job.intent
    \/ fence = "reconciliation" /\ job.submission \in Reconciliation \cup {"result_fenced"}

\* _persist_fencing_winner: which request won is in the job's metadata.
Persist(s) ==
    /\ At(s, "persist")
    /\ LET next == IF Seen(s).status \in Live THEN "stop" ELSE "settle" IN
          \/ /\ remote.job # "workload"
             /\ remote.job \in Fences => ~Allowed(remote.job)
             /\ Rests(s)
             /\ UNCHANGED job
          \/ /\ remote.job \in Fences /\ Allowed(remote.job)
             /\ AcceptAs(s, supervisor[s].readOwner, remote.job, next)
          \/ /\ remote.job = "workload"
             /\ IF CanNote THEN job' = Noted /\ Goes(s, next)
                           ELSE UNCHANGED job /\ GivesWay(s)
    /\ UNCHANGED <<catalog, rayVars, losses>>

-----------------------------------------------------------------------------
(* Stopping the winner.                                                    *)

\* A process asks Ray to stop the job once: it may have done so before.
Stop(s) ==
    /\ At(s, "stop")
    /\ \/ remote.status = "running" /\ remote' = [remote EXCEPT !.status = "stopping"]
       \/ UNCHANGED remote
    /\ Goes(s, "refind")
    /\ UNCHANGED <<job, catalog, result, inFlight, losses>>

\* Mutant: a job that was asked to stop is taken for stopped.
RefindHasty(s) ==
    /\ At(s, "refind")
    /\ Sees(s, "settle")
    /\ UNCHANGED <<job, catalog, rayVars, losses>>

Refind(s) ==
    /\ At(s, "refind")
    /\ IF remote.status \in Live THEN Sees(s, "stop") \/ Rests(s) ELSE Sees(s, "settle")
    /\ UNCHANGED <<job, catalog, rayVars, losses>>

\* Mutant: a stopped run is published as cancelled, its result unread.
EndedUnread(s) ==
    CASE Reason(s) = "quarantine" -> Publishes(s, "failed")
      [] Reason(s) = "cancellation" -> Publishes(s, "cancelled")
      [] OTHER -> Goes(s, "reread")

\* What follows from the proof that the winner has ended.
Ended(s) ==
    CASE Reason(s) = "quarantine" -> Publishes(s, "failed")
      [] Reason(s) = "cancellation" /\ Seen(s) = [job |-> "workload", status |-> "failed"]
            -> Publishes(s, "failed")
      [] OTHER -> Goes(s, "reread")

\* settle_backend_result_reconciliation, settle_backend_stop_control.
Settle(s) ==
    /\ At(s, "settle")
    /\ LET sub == job.submission IN
       IF Reason(s) = "reconciliation"
       THEN \/ /\ Pending /\ sub \in {"result_submitted", "result_stop_fenced"}
               /\ job' = WithSubmission(
                     IF sub = "result_submitted" THEN "submitted" ELSE "result_fenced", Nobody)
               /\ Ended(s)
            \/ /\ Pending /\ sub \in {"queued", "submitted", "stop_fenced", "result_fenced"}
               /\ Ended(s)
               /\ UNCHANGED job
            \/ /\ Pending => sub \in {"submitting", "fencing", "stopping", "fence_stopping",
                                      "result_fencing"}
               /\ GivesWay(s)
               /\ UNCHANGED job
       ELSE \/ /\ Pending /\ sub \in {"stopping", "fence_stopping"} /\ job.intent # {}
               /\ job' = WithSubmission(
                     IF sub = "stopping" THEN "submitted" ELSE "stop_fenced", Nobody)
               /\ Ended(s)
            \/ /\ ~(Pending /\ sub \in {"stopping", "fence_stopping"} /\ job.intent # {})
               /\ Ended(s)
               /\ UNCHANGED job
    /\ UNCHANGED <<catalog, rayVars, losses>>

-----------------------------------------------------------------------------
(* Publishing the terminal result.                                         *)

\* claim_backend_publication; one that finds the lease live tries again.
ClaimPublication(s) ==
    /\ At(s, "publish")
    /\ \/ /\ job.publication = "published"
          /\ Goes(s, "ended")
          /\ UNCHANGED job
       \/ /\ Pending /\ job.submission \in Unsettled
          /\ Rests(s)
          /\ UNCHANGED job
       \/ /\ job.publication # "published"
          /\ Pending => job.submission \notin Unsettled
          /\ job' = [job EXCEPT !.publicationOwner = s]
          /\ Goes(s, IF Pending THEN "begin" ELSE "apply")
    /\ UNCHANGED <<catalog, rayVars, losses>>

\* Mutant: a publisher that comes second stages its own result.
BeginOver(s) ==
    /\ At(s, "begin")
    /\ IF job.publication # "published" /\ supervisor[s].evidence # "none"
       THEN /\ job' = [job EXCEPT !.publication = "effects_started",
                                  !.plan = supervisor[s].evidence]
            /\ Goes(s, "apply")
       ELSE UNCHANGED job /\ Goes(s, "publish")
    /\ UNCHANGED <<catalog, rayVars, losses>>

\* begin_backend_publication_effects freezes the plan.  A success whose
\* catalog entry has moved on is frozen as a failure.
Begin(s) ==
    /\ At(s, "begin")
    /\ \/ job.publication = "published" /\ Goes(s, "publish") /\ UNCHANGED job
       \/ job.publication = "effects_started" /\ Goes(s, "apply") /\ UNCHANGED job
       \/ Pending /\ Goes(s, "publish") /\ UNCHANGED job  \* its lease is lost, or lapsed
       \/ /\ Pending /\ job.publicationOwner = s
          /\ \/ job.submission \in Unsettled
             \/ "quarantine" \in job.intent /\ supervisor[s].evidence # "failed"
          /\ Rests(s)
          /\ UNCHANGED job
       \/ /\ Pending /\ job.publicationOwner = s
          /\ job.submission \notin Unsettled
          /\ "quarantine" \in job.intent => supervisor[s].evidence = "failed"
          /\ \E plan \in {supervisor[s].evidence} \cup
                         (IF supervisor[s].evidence = "done" THEN {"failed"} ELSE {}) :
                job' = [job EXCEPT !.publication = "effects_started", !.plan = plan]
          /\ Goes(s, "apply")
    /\ UNCHANGED <<catalog, rayVars, losses>>

\* Only the frozen plan is replayed, and replaying it twice is once.
Apply(s) ==
    /\ At(s, "apply")
    /\ \/ /\ catalog' = (catalog \/ job.plan = "done")
          /\ Goes(s, "finish")
       \/ Goes(s, "publish") /\ UNCHANGED catalog  \* the catalog is unavailable
    /\ UNCHANGED <<job, rayVars, losses>>

\* finish_backend_publication: the result, the run state and the history.
Finish(s) ==
    /\ At(s, "finish")
    /\ IF /\ job.publicationOwner = s
          /\ job.publication = "effects_started"
          /\ job.plan = "done" => catalog
       THEN /\ job' = [job EXCEPT !.publication = "published", !.publicationOwner = Nobody]
            /\ Goes(s, "ended")
       ELSE UNCHANGED job /\ Goes(s, "publish")
    /\ UNCHANGED <<catalog, rayVars, losses>>

-----------------------------------------------------------------------------
(* Ray, time and crashes.                                                  *)

\* A workload writes its result and then ends, or it ends without.
RemoteWrites ==
    /\ remote.job = "workload" /\ remote.status \in Live
    /\ result = "none"
    /\ \E outcome \in {"done", "failed"} : result' = outcome
    /\ UNCHANGED <<job, catalog, remote, inFlight, supervisor, losses>>

RemoteEnds ==
    /\ remote.status \in Live
    /\ \E status \in {"succeeded", "failed"} \cup
                     (IF remote.status = "stopping" THEN {"stopped"} ELSE {}) :
          /\ status = "succeeded" => remote.job # "workload" \/ result = "done"
          /\ remote' = [remote EXCEPT !.status = status]
    /\ UNCHANGED <<job, catalog, result, inFlight, supervisor, losses>>

RemoteForgets ==
    /\ losses < MaxLosses /\ losses' = losses + 1
    /\ remote # NoJob \/ inFlight # {}
    /\ remote' = NoJob
    /\ inFlight' = {}
    /\ UNCHANGED <<job, catalog, result, supervisor>>

\* An error ends a supervisor, or its process dies: another one starts.
Interrupt(s) ==
    /\ supervisor[s].pc \notin {"idle", "refresh", "ended"}
    /\ Rests(s)
    /\ UNCHANGED <<job, catalog, rayVars, losses>>

SupervisorStep(s) ==
    \/ Refresh(s) \/ Find(s) \/ Note(s) \/ Replay(s) \/ Reread(s)
    \/ Claim(s) \/ ClaimFence(s) \/ Send(s) \/ Recheck(s)
    \/ Accept(s) \/ Persist(s) \/ Stop(s) \/ Refind(s) \/ Settle(s)
    \/ ClaimPublication(s) \/ Begin(s) \/ Apply(s) \/ Finish(s)

Next ==
    \/ RequestCancel
    \/ \E s \in Supervisors : Start(s) \/ SupervisorStep(s) \/ RequestQuarantine(s) \/ Interrupt(s)
    \/ \E s \in Supervisors, kind \in {"workload"} \cup Fences :
          Deliver(s, kind)
    \/ RemoteWrites \/ RemoteEnds \/ RemoteForgets

Spec == Init /\ [][Next]_vars
-----------------------------------------------------------------------------
(* Properties.                                                             *)

\* Every variable holds values of its domain.
TypeOK ==
    /\ job \in [submission : Submissions,
               submissionOwner : Supervisors \cup {Nobody}, intent : SUBSET Intents,
               publication : {"pending", "effects_started", "published"},
               publicationOwner : Supervisors \cup {Nobody},
               plan : {"none", "done", "failed", "cancelled"}]
    /\ job.plan = "none" <=> Pending
    /\ catalog \in BOOLEAN
    /\ remote \in [job : {"none", "workload"} \cup Fences,
                  status : {"none", "running", "stopping", "succeeded", "failed", "stopped"}]
    /\ result \in {"none", "done", "failed"}
    /\ inFlight \subseteq Supervisors \X ({"workload"} \cup Fences)
    /\ supervisor \in [Supervisors ->
          [pc : {"idle", "refresh", "find", "note", "replay", "reread", "claim", "claimFence",
                 "send", "await", "accept", "persist", "stop", "refind", "settle", "publish",
                 "begin", "apply", "finish", "ended"},
           reason : {"run"} \cup Fences,
           read : {"none"} \cup Submissions,
           readOwner : Supervisors \cup {Nobody},
           seen : [job : {"none", "workload"} \cup Fences,
                   status : {"none", "running", "stopping", "succeeded", "failed", "stopped"}],
           evidence : {"none", "done", "failed", "cancelled"}]]
    /\ losses \in 0 .. MaxLosses

WorkloadRuns == remote.job = "workload" /\ remote.status \in Live

\* The result of a workload that wrote one is final while it still winds up.
Executes == WorkloadRuns /\ result = "none"

\* docs/RAY_JOBS.md, step 6: "`effects_started` prevents a stale observer from
\* submitting or stopping work".  No workload is at its work once the terminal
\* result of the run is frozen.
FrozenAfterExecution == ~Pending => ~Executes

\* At most one supervisor has been started.
Alone == \A s, t \in Supervisors : s # t => At(s, "idle") \/ At(t, "idle")

\* The same where Ray forgets nothing, or a single supervisor is at work.
FrozenAfterExecutionUnlessReplayed == losses = 0 \/ Alone => FrozenAfterExecution

\* Once a fence is known to hold the ID, the workload does not, whoever else
\* had claimed the submission before, as long as Ray remembers the fence.
FenceExcludesWorkload ==
    /\ losses = 0
    /\ job.submission \in {"fence_stopping", "stop_fenced", "result_stop_fenced", "result_fenced"}
    => ~WorkloadRuns

\* A success is published with its result, and a cancellation never buries
\* the result of a run that completed (unless Ray forgot the job: see
\* FrozenAfterExecution).
PlanIsTrue ==
    /\ job.plan = "done" => result = "done"
    /\ job.plan = "cancelled" /\ losses = 0 => result = "none"

\* The catalog shows the run's output when, and only when, its frozen plan
\* says so, and does so before the run's success is public.
CatalogFollowsPlan ==
    /\ catalog => job.plan = "done"
    /\ job.publication = "published" /\ job.plan = "done" => catalog

\* A plan is frozen once, and a frozen run is not submitted any more.
PlanIsFrozen ==
    [][~Pending => /\ job'.plan = job.plan
                   /\ job'.publication # "pending"
                   /\ job'.submission = job.submission]_vars

\* What was asked to stop does not start: an attempt that nobody had
\* claimed is never submitted once the intent is durable.
StopPreventsSubmission ==
    [][job.intent # {} /\ job.submission = "queued" =>
          job'.submission = "queued" /\ inFlight' = {} /\ remote' = NoJob]_vars
=============================================================================
