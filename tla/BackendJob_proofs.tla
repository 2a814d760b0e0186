-------------------------- MODULE BackendJob_proofs --------------------------
(***************************************************************************)
(* Theorems about BackendJob, for any number of supervisors and losses.    *)
(*                                                                         *)
(* What a supervisor concludes about the job must still hold when it acts  *)
(* on it.  As long as Ray remembers the job, or a single supervisor is at  *)
(* work (Quiet), four facts are stable once true: the job is known to Ray  *)
(* or lost for good (Known), a fence holds its ID (FenceHolds), it has     *)
(* ended (HasEnded), it does not execute and never will (Over).  The       *)
(* invariant QuietInv says which of them each state of the row and each    *)
(* step of a supervisor may rely on.                                       *)
(***************************************************************************)
EXTENDS BackendJob, TLAPS

\* Where the result of the run is final, see FrozenAfterExecutionUnlessReplayed.
Quiet == losses = 0 \/ Alone

\* Ray has forgotten the job and every request: only a new one starts it.
Lost == losses # 0 /\ remote = NoJob /\ inFlight = {}

Known == remote.job # "none" \/ Lost
FenceHolds == remote.job \in Fences \/ Lost
HasEnded == (remote.job # "none" /\ remote.status \notin Live) \/ Lost
NeverStarts == remote = NoJob /\ job.submission = "queued" /\ job.intent # {}
Over == HasEnded \/ remote.job \in Fences \/ NeverStarts

\* States of the row in which a job has been observed, and in which a fence has.
Observed == {"submitted", "stopping", "fence_stopping", "stop_fenced", "result_submitted",
             "result_stop_fenced", "result_fenced"}
FenceKnown == {"fence_stopping", "stop_fenced", "result_stop_fenced", "result_fenced"}
Claimed == {"submitting", "fencing", "result_fencing"}
Publishing == {"publish", "begin", "apply", "finish", "ended"}

\* What a supervisor may rely on at its next step.
ReliesOn(s) ==
    /\ At(s, "find") /\ supervisor[s].read \in Observed => Known
    /\ supervisor[s].pc \in {"stop", "refind", "persist", "note", "accept"} => Known
    /\ supervisor[s].pc \in {"note", "persist"} /\ Seen(s).status \notin Live => HasEnded
    /\ At(s, "settle") => HasEnded
    /\ At(s, "accept") => FenceHolds
    /\ At(s, "claimFence") /\ Reason(s) \notin {"run", "reconciliation"}
          /\ job.submission = "submitted" => HasEnded
    /\ At(s, "reread") => Over
    /\ supervisor[s].evidence # "none" => result # "none" \/ Over
    /\ supervisor[s].evidence = "cancelled" /\ losses = 0 => result = "none" /\ Over
    /\ Alone /\ At(s, "send") => Pending /\ job.submission \in Claimed

RowRelies ==
    /\ job.submission \in Observed => Known
    /\ job.submission \in FenceKnown => FenceHolds
    /\ ~Pending => result # "none" \/ Over
    /\ job.plan = "cancelled" /\ losses = 0 => result = "none" /\ Over

QuietInv == Quiet => RowRelies /\ \A s \in Supervisors : ReliesOn(s)

\* Whatever happens to Ray and the other supervisors.
NobodySubmitted ==
    job.submission = "queued" =>
        /\ inFlight = {} /\ remote = NoJob
        /\ \A s \in Supervisors : supervisor[s].pc \notin {"send", "await", "note"}

EvidenceInv ==
    /\ remote.job = "none" <=> remote.status = "none"
    /\ job.plan = "done" => result = "done"
    /\ \A s \in Supervisors :
          /\ supervisor[s].pc \in Publishing \ {"ended"} /\ Pending =>
                supervisor[s].evidence # "none"
          /\ supervisor[s].evidence # "none" => supervisor[s].pc \in Publishing
          /\ supervisor[s].evidence = "done" => result = "done"
          /\ Reason(s) \notin {"run", "reconciliation"} => job.intent # {}
          /\ At(s, "claimFence") => Reason(s) # "run"
          /\ At(s, "find") /\ Reason(s) = "reconciliation" =>
                supervisor[s].read \in Reconciliation

\* The inductive invariant.
JobInv == TypeOK /\ NobodySubmitted /\ EvidenceInv /\ CatalogFollowsPlan /\ QuietInv

-----------------------------------------------------------------------------
(* Domains, and what the helpers of the actions set.                       *)

Pcs == {"idle", "refresh", "find", "note", "replay", "reread", "claim", "claimFence", "send",
        "await", "accept", "persist", "stop", "refind", "settle", "publish", "begin",
        "apply", "finish", "ended"}
Reasons == {"run"} \cup Fences
Evidences == {"none", "done", "failed", "cancelled"}
RemoteRows == [job : {"none", "workload"} \cup Fences,
               status : {"none", "running", "stopping", "succeeded", "failed", "stopped"}]
JobRows == [submission : Submissions, submissionOwner : Supervisors \cup {Nobody},
            intent : SUBSET Intents,
            publication : {"pending", "effects_started", "published"},
            publicationOwner : Supervisors \cup {Nobody}, plan : Evidences]
SupervisorRows == [pc : Pcs, reason : Reasons, read : {"none"} \cup Submissions,
                   readOwner : Supervisors \cup {Nobody}, seen : RemoteRows,
                   evidence : Evidences]

LEMMA TypeParts ==
    TypeOK <=> /\ job \in JobRows /\ (job.plan = "none" <=> Pending) /\ catalog \in BOOLEAN
               /\ remote \in RemoteRows /\ result \in {"none", "done", "failed"}
               /\ inFlight \subseteq Supervisors \X ({"workload"} \cup Fences)
               /\ supervisor \in [Supervisors -> SupervisorRows]
               /\ losses \in 0 .. MaxLosses
BY DEF TypeOK, JobRows, SupervisorRows, RemoteRows, Pcs, Reasons, Evidences

LEMMA TypesNext ==
    ASSUME job' \in JobRows, job'.plan = "none" <=> job'.publication = "pending",
           catalog' \in BOOLEAN, remote' \in RemoteRows, result' \in {"none", "done", "failed"},
           inFlight' \subseteq Supervisors \X ({"workload"} \cup Fences),
           supervisor' \in [Supervisors -> SupervisorRows], losses' \in 0 .. MaxLosses
    PROVE  TypeOK'
BY DEF TypeOK, JobRows, SupervisorRows, RemoteRows, Pcs, Reasons, Evidences, Pending

\* Supervisor s goes to the given step with the given knowledge.
Becomes(s, pc, reason, read, seen, evidence) ==
    /\ supervisor' \in [Supervisors -> SupervisorRows]
    /\ \A t \in Supervisors \ {s} : supervisor'[t] = supervisor[t]
    /\ supervisor'[s].pc = pc /\ supervisor'[s].reason = reason
    /\ supervisor'[s].read = read /\ supervisor'[s].seen = seen
    /\ supervisor'[s].evidence = evidence

LEMMA NoJobIsARow == NoJob \in RemoteRows
BY DEF NoJob, RemoteRows

LEMMA AtRestIsARow ==
    /\ AtRest \in SupervisorRows
    /\ AtRest.pc = "refresh" /\ AtRest.reason = "run" /\ AtRest.read = "none"
    /\ AtRest.seen = NoJob /\ AtRest.evidence = "none"
<1> HIDE DEF NoJob
<1> QED
  BY NoJobIsARow DEF AtRest, SupervisorRows, Pcs, Reasons, Evidences

LEMMA RowSets ==
    ASSUME TypeOK, NEW s \in Supervisors, NEW new \in SupervisorRows,
           supervisor' = [supervisor EXCEPT ![s] = new]
    PROVE  Becomes(s, new.pc, new.reason, new.read, new.seen, new.evidence)
BY TypeParts DEF Becomes

LEMMA GoesSets ==
    ASSUME TypeOK, NEW s \in Supervisors, NEW pc \in Pcs, Goes(s, pc)
    PROVE  Becomes(s, pc, Reason(s), "none", Seen(s), supervisor[s].evidence)
<1> DEFINE new == [supervisor[s] EXCEPT !.pc = pc, !.read = "none", !.readOwner = Nobody]
<1>1. supervisor[s] \in SupervisorRows
  BY TypeParts
<1>2. /\ new \in SupervisorRows /\ new.pc = pc /\ new.reason = Reason(s)
      /\ new.read = "none" /\ new.seen = Seen(s) /\ new.evidence = supervisor[s].evidence
  BY <1>1 DEF SupervisorRows, Reason, Seen
<1>3. supervisor' = [supervisor EXCEPT ![s] = new]
  BY TypeParts DEF Goes
<1> HIDE DEF new
<1>4. Becomes(s, new.pc, new.reason, new.read, new.seen, new.evidence)
  BY <1>2, <1>3, RowSets
<1> QED
  BY <1>2, <1>4

LEMMA SeesSets ==
    ASSUME TypeOK, NEW s \in Supervisors, NEW pc \in Pcs, Sees(s, pc)
    PROVE  \E read \in {"none", supervisor[s].read} :
              Becomes(s, pc, Reason(s), read, remote, supervisor[s].evidence)
<1> DEFINE read == IF pc = "replay" THEN supervisor[s].read ELSE "none"
           owner == IF pc = "persist" THEN supervisor[s].readOwner ELSE Nobody
           new == [supervisor[s] EXCEPT !.pc = pc, !.seen = remote, !.read = read,
                                        !.readOwner = owner]
<1>1. supervisor[s] \in SupervisorRows /\ remote \in RemoteRows
  BY TypeParts
<1>2. /\ new \in SupervisorRows /\ new.pc = pc /\ new.reason = Reason(s)
      /\ new.read = read /\ new.seen = remote /\ new.evidence = supervisor[s].evidence
  BY <1>1 DEF SupervisorRows, Reason
<1>3. supervisor' = [supervisor EXCEPT ![s] = new]
  BY TypeParts DEF Sees
<1>4. read \in {"none", supervisor[s].read}
  OBVIOUS
<1> HIDE DEF new, read
<1>5. Becomes(s, new.pc, new.reason, new.read, new.seen, new.evidence)
  BY <1>2, <1>3, RowSets
<1> QED
  BY <1>2, <1>4, <1>5

LEMMA RestsSets ==
    ASSUME TypeOK, NEW s \in Supervisors, Rests(s)
    PROVE  Becomes(s, "refresh", "run", "none", NoJob, "none")
<1>1. supervisor' = [supervisor EXCEPT ![s] = AtRest]
  BY DEF Rests
<1>2. Becomes(s, AtRest.pc, AtRest.reason, AtRest.read, AtRest.seen, AtRest.evidence)
  BY <1>1, AtRestIsARow, RowSets
<1> QED
  BY <1>2, AtRestIsARow

LEMMA PublishesSets ==
    ASSUME TypeOK, NEW s \in Supervisors, NEW e \in Evidences, Publishes(s, e)
    PROVE  Becomes(s, "publish", "run", "none", NoJob, e)
<1> DEFINE new == [AtRest EXCEPT !.pc = "publish", !.evidence = e]
<1>1. supervisor' = [supervisor EXCEPT ![s] = new]
  BY DEF Publishes
<1>2. /\ new \in SupervisorRows /\ new.pc = "publish" /\ new.reason = "run"
      /\ new.read = "none" /\ new.seen = NoJob /\ new.evidence = e
  <2> HIDE DEF AtRest
  <2> QED
    BY AtRestIsARow DEF SupervisorRows, Pcs
<1> HIDE DEF new
<1>3. Becomes(s, new.pc, new.reason, new.read, new.seen, new.evidence)
  BY <1>1, <1>2, RowSets
<1> QED
  BY <1>2, <1>3

LEMMA WithSubmissionSets ==
    ASSUME TypeOK, NEW state \in Submissions, NEW owner \in Supervisors \cup {Nobody},
           job' = WithSubmission(state, owner)
    PROVE  /\ job' \in JobRows /\ job'.submission = state
           /\ job'.intent = job.intent /\ job'.publication = job.publication
           /\ job'.plan = job.plan
BY TypeParts DEF WithSubmission, JobRows

-----------------------------------------------------------------------------
(* Steps of a supervisor that leave Ray alone.                             *)

SameRay == UNCHANGED <<rayVars, losses>>

\* How such a step may move the row and the catalog.
RowMoves ==
    /\ job' \in JobRows /\ catalog' \in BOOLEAN
    /\ job'.plan = "none" <=> job'.publication = "pending"
    /\ job'.submission = "queued" => job.submission = "queued"
    /\ job.intent # {} => job'.intent # {}
    /\ job.submission = "queued" /\ job.intent # {} => job'.submission = "queued"
    /\ job'.publication = "pending" => Pending
    /\ job'.plan = "done" => result = "done"
    /\ CatalogFollowsPlan'
    /\ Quiet => RowRelies'
    /\ Quiet /\ job.intent # {} /\ job'.submission = "submitted" =>
          job.submission = "submitted" \/ HasEnded

\* What the supervisor may then rely on.
SupervisorMoves(s) ==
    /\ supervisor' \in [Supervisors -> SupervisorRows]
    /\ \A t \in Supervisors \ {s} : supervisor'[t] = supervisor[t]
    /\ supervisor'[s].pc # "idle"
    /\ job'.submission = "queued" => supervisor'[s].pc \notin {"send", "await", "note"}
    /\ supervisor'[s].pc \in Publishing \ {"ended"} /\ job'.publication = "pending" =>
          supervisor'[s].evidence # "none"
    /\ supervisor'[s].evidence # "none" => supervisor'[s].pc \in Publishing
    /\ supervisor'[s].evidence = "done" => result = "done"
    /\ supervisor'[s].reason \notin {"run", "reconciliation"} => job'.intent # {}
    /\ supervisor'[s].pc = "claimFence" => supervisor'[s].reason # "run"
    /\ supervisor'[s].pc = "find" /\ supervisor'[s].reason = "reconciliation" =>
          supervisor'[s].read \in Reconciliation
    /\ Quiet => ReliesOn(s)'

LEMMA FactsAreKept ==
    ASSUME SameRay, job.submission = "queued" /\ job.intent # {} =>
                       job'.submission = "queued" /\ job'.intent # {}
    PROVE  /\ Known' <=> Known
           /\ FenceHolds' <=> FenceHolds
           /\ HasEnded' <=> HasEnded
           /\ Over => Over'
BY DEF SameRay, rayVars, Known, FenceHolds, HasEnded, Over, NeverStarts, Lost

LEMMA StepPreserves ==
    ASSUME JobInv, NEW s \in Supervisors, SameRay, RowMoves, SupervisorMoves(s)
    PROVE  JobInv'
<1> USE DEF JobInv
<1>1. TypeOK'
  BY TypeParts, TypesNext DEF SameRay, rayVars, RowMoves, SupervisorMoves
<1>2. NobodySubmitted'
  BY DEF NobodySubmitted, SameRay, rayVars, RowMoves, SupervisorMoves
<1>3. EvidenceInv'
  BY DEF EvidenceInv, SameRay, rayVars, RowMoves, SupervisorMoves, At, Reason, Pending
<1>4. CatalogFollowsPlan'
  BY DEF RowMoves
<1>5. QuietInv'
  <2> SUFFICES ASSUME Quiet' PROVE RowRelies' /\ \A t \in Supervisors : ReliesOn(t)'
    BY DEF QuietInv
  <2>1. Quiet
    BY DEF Quiet, Alone, At, SameRay, SupervisorMoves
  <2>2. RowRelies' /\ ReliesOn(s)'
    BY <2>1 DEF RowMoves, SupervisorMoves
  <2>3. ASSUME NEW t \in Supervisors \ {s} PROVE ReliesOn(t)'
    <3>1. supervisor'[t] = supervisor[t] /\ ReliesOn(t)
      BY <2>1 DEF QuietInv, SupervisorMoves
    <3>2. /\ Known' <=> Known
          /\ FenceHolds' <=> FenceHolds
          /\ HasEnded' <=> HasEnded
          /\ Over => Over'
          /\ losses' = losses /\ result' = result
      BY FactsAreKept DEF RowMoves, SameRay, rayVars
    <3>3. Alone' => supervisor[t].pc = "idle"
      BY <3>1 DEF Alone, At, SupervisorMoves
    <3>4. At(t, "claimFence") /\ Reason(t) \notin {"run", "reconciliation"}
             /\ job'.submission = "submitted" => HasEnded
      BY <2>1, <3>1 DEF ReliesOn, EvidenceInv, RowMoves
    <3> QED
      BY <3>1, <3>2, <3>3, <3>4 DEF ReliesOn, At, Reason, Seen
  <2> QED
    BY <2>2, <2>3
<1> QED
  BY <1>1, <1>2, <1>3, <1>4, <1>5

\* A step that leaves the row alone.
LEMMA SameRowMoves ==
    ASSUME JobInv, SameRay, UNCHANGED <<job, catalog>>
    PROVE  RowMoves
<1>1. CatalogFollowsPlan' /\ (Quiet => RowRelies')
  BY DEF JobInv, CatalogFollowsPlan, QuietInv, RowRelies, Pending, SameRay, rayVars, Known,
         FenceHolds, HasEnded, Over, NeverStarts, Lost
<1> QED
  BY <1>1, TypeParts DEF JobInv, RowMoves, EvidenceInv, Pending

\* A new submission state: what has to be shown of it.
LEMMA SubmissionMoves ==
    ASSUME JobInv, SameRay, UNCHANGED catalog,
           NEW state \in Submissions \ {"queued"}, NEW owner \in Supervisors \cup {Nobody},
           job' = WithSubmission(state, owner), Pending,
           job.submission = "queued" => job.intent = {},
           Quiet /\ state \in Observed => Known,
           Quiet /\ state \in FenceKnown => FenceHolds,
           Quiet /\ state = "submitted" /\ job.intent # {} => HasEnded
    PROVE  /\ RowMoves
           /\ job'.submission = state /\ job'.intent = job.intent /\ job'.publication = "pending"
<1>1. /\ job' \in JobRows /\ job'.submission = state
      /\ job'.intent = job.intent /\ job'.publication = job.publication
      /\ job'.plan = job.plan
  BY WithSubmissionSets DEF JobInv
<1>2. job.publication = "pending" /\ job.plan = "none"
  BY TypeParts DEF JobInv, Pending
<1>3. CatalogFollowsPlan'
  BY <1>1, <1>2 DEF JobInv, CatalogFollowsPlan
<1>4. /\ Known' <=> Known
      /\ FenceHolds' <=> FenceHolds
  BY DEF SameRay, rayVars, Known, FenceHolds, Lost
<1>5. Quiet => RowRelies'
  BY <1>1, <1>2, <1>4 DEF RowRelies, Pending
<1>6. catalog' \in BOOLEAN
  BY TypeParts DEF JobInv
<1> QED
  BY <1>1, <1>2, <1>3, <1>5, <1>6 DEF RowMoves, Pending

\* Back to the top of the loop nothing is relied on.
LEMMA RestMoves ==
    ASSUME JobInv, NEW s \in Supervisors, Rests(s)
    PROVE  SupervisorMoves(s)
<1>1. Becomes(s, "refresh", "run", "none", NoJob, "none")
  BY RestsSets DEF JobInv
<1> QED
  BY <1>1 DEF Becomes, SupervisorMoves, ReliesOn, At, Reason, Seen, Publishing

\* Off to publish a plan that is already staged.
LEMMA ReplayMoves ==
    ASSUME JobInv, NEW s \in Supervisors, Publishes(s, "none"), job'.publication # "pending"
    PROVE  SupervisorMoves(s)
<1>1. Becomes(s, "publish", "run", "none", NoJob, "none")
  BY PublishesSets DEF JobInv, Evidences
<1> QED
  BY <1>1 DEF Becomes, SupervisorMoves, ReliesOn, At, Reason, Seen, Observed,
     Publishing

\* Off to publish evidence that holds.
LEMMA EvidenceMoves ==
    ASSUME JobInv, NEW s \in Supervisors, NEW e \in Evidences \ {"none"}, Publishes(s, e),
           SameRay, RowMoves,
           e = "done" => result = "done",
           Quiet => result # "none" \/ Over,
           Quiet /\ losses = 0 /\ e = "cancelled" => result = "none" /\ Over
    PROVE  SupervisorMoves(s)
<1>1. Becomes(s, "publish", "run", "none", NoJob, e)
  BY PublishesSets DEF JobInv
<1>2. Over => Over'
  BY FactsAreKept DEF RowMoves
<1> QED
  BY <1>1, <1>2 DEF Becomes, SupervisorMoves, ReliesOn, At, Reason, Seen, Observed, Publishing,
     SameRay, rayVars

LEMMA GivesWayMoves ==
    ASSUME JobInv, NEW s \in Supervisors, GivesWay(s), UNCHANGED job
    PROVE  SupervisorMoves(s)
BY RestMoves, ReplayMoves DEF GivesWay, Pending

\* On to a step at which nothing is published yet.
LEMMA GoMoves ==
    ASSUME JobInv, NEW s \in Supervisors, NEW pc \in Pcs \ (Publishing \cup {"idle", "find"}),
           Goes(s, pc), SameRay, RowMoves,
           supervisor[s].pc \notin Publishing,
           job'.submission = "queued" => pc \notin {"send", "await", "note"},
           Quiet /\ pc \in {"stop", "refind", "persist", "note", "accept"} => Known,
           Quiet /\ pc \in {"note", "persist"} /\ Seen(s).status \notin Live => HasEnded,
           Quiet /\ pc = "settle" => HasEnded,
           Quiet /\ pc = "accept" => FenceHolds,
           pc # "claimFence",
           Quiet /\ pc = "reread" => Over,
           pc = "send" =>
              job'.publication = "pending" /\ job'.submission \in Claimed
    PROVE  SupervisorMoves(s)
<1>1. Becomes(s, pc, Reason(s), "none", Seen(s), supervisor[s].evidence)
  BY GoesSets DEF JobInv
<1>2. /\ Known' <=> Known
      /\ FenceHolds' <=> FenceHolds
      /\ HasEnded' <=> HasEnded
      /\ Over => Over'
      /\ losses' = losses
  BY FactsAreKept DEF RowMoves, SameRay
<1>3. supervisor[s].evidence = "none"
  BY DEF JobInv, EvidenceInv
<1>4. Reason(s) \notin {"run", "reconciliation"} => job'.intent # {}
  BY DEF JobInv, EvidenceInv, RowMoves
<1>5. Quiet => ReliesOn(s)'
  BY <1>1, <1>2, <1>3 DEF Becomes, ReliesOn, At, Seen, Reason, Pending
<1> QED
  BY <1>1, <1>3, <1>4, <1>5 DEF Becomes, SupervisorMoves, Publishing

\* On to another step of the publication.
LEMMA PublicationMoves ==
    ASSUME JobInv, NEW s \in Supervisors, NEW pc \in Publishing, Goes(s, pc),
           SameRay, RowMoves, supervisor[s].pc \in Publishing \ {"ended"},
           job'.publication = "pending" => Pending
    PROVE  SupervisorMoves(s)
<1>1. Becomes(s, pc, Reason(s), "none", Seen(s), supervisor[s].evidence)
  BY GoesSets DEF JobInv, Publishing, Pcs
<1>2. Over => Over'
  BY FactsAreKept DEF RowMoves
<1>3. Reason(s) \notin {"run", "reconciliation"} => job'.intent # {}
  BY DEF JobInv, EvidenceInv, RowMoves
<1>4. Quiet => ReliesOn(s)
  BY DEF JobInv, QuietInv
<1>5. Quiet => ReliesOn(s)'
  BY <1>1, <1>2, <1>4 DEF Becomes, ReliesOn, At, Seen, Reason, Publishing, SameRay, rayVars
<1>6. /\ pc # "ended" /\ job'.publication = "pending" => supervisor[s].evidence # "none"
      /\ supervisor[s].evidence = "done" => result = "done"
  BY DEF JobInv, EvidenceInv
<1> QED
  BY <1>1, <1>3, <1>5, <1>6 DEF Becomes, SupervisorMoves, Publishing

-----------------------------------------------------------------------------
(* The actions.                                                            *)

LEMMA StartPreserves ==
    ASSUME JobInv, NEW s \in Supervisors, Start(s)
    PROVE  JobInv'
<1>1. SameRay
  BY DEF Start, SameRay
<1>2. RowMoves
  BY <1>1, SameRowMoves DEF Start
<1>3. SupervisorMoves(s)
  BY RestMoves DEF Start
<1> QED
  BY <1>1, <1>2, <1>3, StepPreserves

LEMMA InterruptPreserves ==
    ASSUME JobInv, NEW s \in Supervisors, Interrupt(s)
    PROVE  JobInv'
<1>1. SameRay
  BY DEF Interrupt, SameRay
<1>2. RowMoves
  BY <1>1, SameRowMoves DEF Interrupt
<1>3. SupervisorMoves(s)
  BY RestMoves DEF Interrupt
<1> QED
  BY <1>1, <1>2, <1>3, StepPreserves

LEMMA RequestQuarantinePreserves ==
    ASSUME JobInv, NEW s \in Supervisors, RequestQuarantine(s)
    PROVE  JobInv'
<1>1. SameRay
  BY DEF RequestQuarantine, SameRay
<1>2. RowMoves
  <2>1. CASE UNCHANGED job
    BY <1>1, <2>1, SameRowMoves DEF RequestQuarantine
  <2>2. CASE Pending /\ job' = [job EXCEPT !.intent = @ \cup {"quarantine"}]
    <3>1. /\ job' \in JobRows /\ job'.submission = job.submission
          /\ job'.publication = job.publication /\ job'.plan = job.plan
          /\ job'.intent # {}
      BY <2>2, TypeParts DEF RequestQuarantine, JobInv, JobRows
    <3>2. UNCHANGED catalog /\ catalog \in BOOLEAN /\ (job.plan = "none" <=> Pending)
      BY TypeParts DEF RequestQuarantine, JobInv
    <3>3. CatalogFollowsPlan'
      BY <3>1, <3>2 DEF JobInv, CatalogFollowsPlan
    <3>4. Quiet => RowRelies'
      <4>1. /\ Known' <=> Known
            /\ FenceHolds' <=> FenceHolds
            /\ Over => Over'
        BY <1>1, <3>1, FactsAreKept
      <4> QED
        BY <1>1, <3>1, <4>1 DEF JobInv, QuietInv, RowRelies, Pending, SameRay, rayVars
    <3> QED
      BY <2>2, <3>1, <3>2, <3>3, <3>4 DEF RowMoves, Pending, JobInv, EvidenceInv
  <2> QED
    BY <2>1, <2>2 DEF RequestQuarantine
<1>3. SupervisorMoves(s)
  BY RestMoves, ReplayMoves DEF RequestQuarantine, Pending
<1> QED
  BY <1>1, <1>2, <1>3, StepPreserves

LEMMA RefreshPreserves ==
    ASSUME JobInv, NEW s \in Supervisors, Refresh(s)
    PROVE  JobInv'
<1>1. SameRay
  BY DEF Refresh, SameRay
<1>2. RowMoves
  BY <1>1, SameRowMoves DEF Refresh
<1>3. SupervisorMoves(s)
  <2>1. CASE job.publication = "effects_started" /\ Publishes(s, "none")
    BY <2>1, ReplayMoves DEF Refresh
  <2>2. CASE job.submission = "result_fenced" /\ Publishes(s, "failed")
    <3>1. Quiet => Over
      BY <2>2 DEF JobInv, QuietInv, RowRelies, FenceKnown, FenceHolds, Over, HasEnded
    <3> QED
      BY <1>1, <1>2, <2>2, <3>1, EvidenceMoves DEF Evidences
  <2>3. CASE /\ job.submission = "result_fenced"
             /\ supervisor' = [supervisor EXCEPT ![s].pc = "reread",
                                                 ![s].reason = "reconciliation"]
    <3> DEFINE new == [supervisor[s] EXCEPT !.pc = "reread", !.reason = "reconciliation"]
    <3>1. supervisor[s] \in SupervisorRows
      BY TypeParts DEF JobInv
    <3>2. /\ new \in SupervisorRows /\ new.pc = "reread" /\ new.reason = "reconciliation"
          /\ new.evidence = supervisor[s].evidence
      BY <3>1 DEF SupervisorRows, Pcs, Reasons, Fences
    <3>3. supervisor' = [supervisor EXCEPT ![s] = new]
      BY <2>3, TypeParts DEF JobInv
    <3> HIDE DEF new
    <3>4. Becomes(s, new.pc, new.reason, new.read, new.seen, new.evidence)
      BY <3>2, <3>3, RowSets DEF JobInv
    <3>5. (Quiet => Over) /\ (Over => Over')
      BY <1>1, <1>2, <2>3, FactsAreKept DEF JobInv, QuietInv, RowRelies, FenceKnown, FenceHolds,
         Over, HasEnded, RowMoves
    <3>6. supervisor[s].evidence = "none"
      BY DEF Refresh, At, JobInv, EvidenceInv, Publishing
    <3> QED
      BY <3>2, <3>4, <3>5, <3>6 DEF Becomes, SupervisorMoves, ReliesOn, At, Reason, Seen,
         Publishing
  <2>4. CASE supervisor' = [supervisor EXCEPT
                ![s].pc = "find", ![s].reason = ReasonToAct, ![s].read = job.submission,
                ![s].readOwner = IF ReasonToAct = "run" THEN Nobody ELSE job.submissionOwner]
    <3> DEFINE owner == IF ReasonToAct = "run" THEN Nobody ELSE job.submissionOwner
               new == [supervisor[s] EXCEPT !.pc = "find", !.reason = ReasonToAct,
                                            !.read = job.submission, !.readOwner = owner]
    <3>1. supervisor[s] \in SupervisorRows /\ job \in JobRows
      BY TypeParts DEF JobInv
    <3>2. /\ ReasonToAct \in Reasons
          /\ ReasonToAct \notin {"run", "reconciliation"} => job.intent # {}
          /\ ReasonToAct = "reconciliation" => job.submission \in Reconciliation
      BY DEF ReasonToAct, Reasons, Fences
    <3>3. owner \in Supervisors \cup {Nobody}
      BY <3>1 DEF JobRows
    <3> HIDE DEF owner
    <3>4. /\ new \in SupervisorRows /\ new.pc = "find" /\ new.reason = ReasonToAct
          /\ new.read = job.submission /\ new.evidence = supervisor[s].evidence
      BY <3>1, <3>2, <3>3 DEF SupervisorRows, Pcs, JobRows
    <3>5. supervisor' = [supervisor EXCEPT ![s] = new]
      BY <2>4, TypeParts DEF JobInv, owner
    <3> HIDE DEF new
    <3>6. Becomes(s, new.pc, new.reason, new.read, new.seen, new.evidence)
      BY <3>4, <3>5, RowSets DEF JobInv
    <3>7. supervisor[s].evidence = "none" /\ job' = job
      BY DEF Refresh, At, JobInv, EvidenceInv, Publishing
    <3>8. Quiet /\ job.submission \in Observed => Known'
      BY <1>1, <1>2, FactsAreKept DEF JobInv, QuietInv, RowRelies, RowMoves
    <3> QED
      BY <3>2, <3>4, <3>6, <3>7, <3>8 DEF Becomes, SupervisorMoves, ReliesOn, At, Reason, Seen,
         Publishing
  <2> QED
    BY <2>1, <2>2, <2>3, <2>4 DEF Refresh
<1> QED
  BY <1>1, <1>2, <1>3, StepPreserves

LEMMA FindPreserves ==
    ASSUME JobInv, NEW s \in Supervisors, Find(s)
    PROVE  JobInv'
<1>1. SameRay
  BY DEF Find, SameRay
<1>2. RowMoves
  BY <1>1, SameRowMoves DEF Find
<1>3. SupervisorMoves(s)
  <2>1. CASE Rests(s)
    BY <2>1, RestMoves
  <2>2. CASE Sees(s, AfterFind(s))
    <3>1. supervisor[s] \in SupervisorRows /\ remote \in RemoteRows
      BY TypeParts DEF JobInv
    <3>2. /\ supervisor[s].pc = "find" /\ supervisor[s].evidence = "none" /\ job' = job
          /\ Reason(s) \notin {"run", "reconciliation"} => job.intent # {}
          /\ Reason(s) = "reconciliation" => supervisor[s].read \in Reconciliation
          /\ remote.job = "none" <=> remote.status = "none"
      BY DEF Find, At, JobInv, EvidenceInv, Publishing
    <3>3. /\ AfterFind(s) \in {"replay", "note", "claimFence", "persist", "stop", "settle"}
          /\ AfterFind(s) \in {"note", "persist", "stop"} => remote.job # "none"
          /\ AfterFind(s) = "note" => Reason(s) = "run"
          /\ AfterFind(s) = "claimFence" => remote.job = "none" /\ Reason(s) # "run"
          /\ AfterFind(s) = "settle" =>
                supervisor[s].read \in Observed /\ remote.status \notin Live
      BY <3>2 DEF AfterFind, Live, Reconciliation, Observed
    <3>4. PICK read \in {"none", supervisor[s].read} :
             Becomes(s, AfterFind(s), Reason(s), read, remote, "none")
      BY <2>2, <3>2, <3>3, SeesSets DEF JobInv, Pcs
    <3>5. /\ Known' <=> Known
          /\ HasEnded' <=> HasEnded
      BY <1>1, <1>2, FactsAreKept DEF RowMoves
    <3>6. /\ remote.job # "none" => Known
          /\ remote.job # "none" /\ remote.status \notin Live => HasEnded
          /\ Known /\ remote.status \notin Live => HasEnded
          /\ Known /\ remote.job = "none" => HasEnded
      BY DEF Known, HasEnded
    <3>7. Quiet => /\ supervisor[s].read \in Observed => Known
                   /\ job.submission = "submitted" => Known
      BY <3>2 DEF JobInv, QuietInv, RowRelies, ReliesOn, At, Observed
    <3>8. Quiet => ReliesOn(s)'
      BY <3>2, <3>3, <3>4, <3>5, <3>6, <3>7 DEF Becomes, ReliesOn, At, Reason, Seen
    <3>9. job.submission = "queued" => AfterFind(s) # "note"
      BY <3>3 DEF JobInv, NobodySubmitted, NoJob
    <3> QED
      BY <3>2, <3>3, <3>4, <3>8, <3>9 DEF Becomes, SupervisorMoves, Publishing
  <2> QED
    BY <2>1, <2>2 DEF Find
<1> QED
  BY <1>1, <1>2, <1>3, StepPreserves

LEMMA NotedMoves ==
    ASSUME JobInv, SameRay, UNCHANGED catalog, CanNote, job' = Noted, Quiet => Known,
           job.submission # "queued"
    PROVE  RowMoves /\ job'.submission # "queued"
<1> DEFINE state == CASE job.submission \in Reconciliation -> "result_submitted"
                      [] job.submission \notin Reconciliation /\ job.intent # {} -> "stopping"
                      [] OTHER -> "submitted"
<1>1. /\ state \in {"result_submitted", "stopping", "submitted"}
      /\ state = "submitted" => job.intent = {}
  OBVIOUS
<1>2. job' = WithSubmission(state, Nobody) /\ Pending
  BY DEF Noted, CanNote
<1> HIDE DEF state
<1>3. /\ state \in Submissions \ {"queued"}
      /\ state \notin FenceKnown
  BY <1>1 DEF Submissions, Unsettled, Reconciliation, FenceKnown
<1> QED
  BY <1>1, <1>2, <1>3, SubmissionMoves

LEMMA NotePreserves ==
    ASSUME JobInv, NEW s \in Supervisors, Note(s)
    PROVE  JobInv'
<1>1. SameRay
  BY DEF Note, SameRay
<1>4. /\ supervisor[s].pc = "note" /\ job.submission # "queued"
      /\ Quiet => Known /\ (Seen(s).status \notin Live => HasEnded)
  BY DEF Note, At, JobInv, NobodySubmitted, QuietInv, ReliesOn
<1>2. RowMoves
  BY <1>1, <1>4, NotedMoves, SameRowMoves DEF Note
<1>3. SupervisorMoves(s)
  <2>1. CASE ~CanNote
    BY <2>1, GivesWayMoves DEF Note
  <2>2. CASE CanNote /\ Rests(s)
    BY <2>2, RestMoves
  <2>3. CASE CanNote /\ Seen(s).status \notin Live /\ Publishes(s, "failed")
    BY <1>1, <1>2, <1>4, <2>3, EvidenceMoves DEF Evidences, Over
  <2>4. CASE CanNote /\ Seen(s).status \notin Live /\ Goes(s, "reread")
    BY <1>1, <1>2, <1>4, <2>4, GoMoves DEF Pcs, Publishing, Over
  <2> QED
    BY <2>1, <2>2, <2>3, <2>4 DEF Note, Live
<1> QED
  BY <1>1, <1>2, <1>3, StepPreserves

LEMMA ReplayPreserves ==
    ASSUME JobInv, NEW s \in Supervisors, Replay(s)
    PROVE  JobInv'
<1>1. SameRay
  BY DEF Replay, SameRay
<1>2. RowMoves
  BY <1>1, SameRowMoves DEF Replay
<1>3. SupervisorMoves(s)
  <2>1. CASE Goes(s, "claim")
    BY <1>1, <1>2, <2>1, GoMoves DEF Replay, At, Pcs, Publishing
  <2>2. CASE supervisor' = [supervisor EXCEPT ![s].pc = "claimFence",
                                              ![s].reason = "reconciliation"]
    <3> DEFINE new == [supervisor[s] EXCEPT !.pc = "claimFence", !.reason = "reconciliation"]
    <3>1. supervisor[s] \in SupervisorRows
      BY TypeParts DEF JobInv
    <3>2. /\ new \in SupervisorRows /\ new.pc = "claimFence" /\ new.reason = "reconciliation"
          /\ new.evidence = supervisor[s].evidence
      BY <3>1 DEF SupervisorRows, Pcs, Reasons, Fences
    <3>3. supervisor' = [supervisor EXCEPT ![s] = new]
      BY <2>2, TypeParts DEF JobInv
    <3> HIDE DEF new
    <3>4. Becomes(s, new.pc, new.reason, new.read, new.seen, new.evidence)
      BY <3>2, <3>3, RowSets DEF JobInv
    <3>5. supervisor[s].evidence = "none"
      BY DEF Replay, At, JobInv, EvidenceInv, Publishing
    <3> QED
      BY <3>2, <3>4, <3>5 DEF Becomes, SupervisorMoves, ReliesOn, At, Reason, Seen, Publishing
  <2>3. CASE result # "none" /\ Publishes(s, result)
    BY <1>1, <1>2, <2>3, TypeParts, EvidenceMoves DEF JobInv, Evidences
  <2> QED
    BY <2>1, <2>2, <2>3 DEF Replay
<1> QED
  BY <1>1, <1>2, <1>3, StepPreserves

LEMMA RereadPreserves ==
    ASSUME JobInv, NEW s \in Supervisors, Reread(s)
    PROVE  JobInv'
<1>1. SameRay
  BY DEF Reread, SameRay
<1>2. RowMoves
  BY <1>1, SameRowMoves DEF Reread
<1>3. SupervisorMoves(s)
  <2>1. Quiet => Over
    BY DEF Reread, At, JobInv, QuietInv, ReliesOn
  <2>2. CASE result # "none"
    BY <1>1, <1>2, <2>2, TypeParts, EvidenceMoves DEF Reread, JobInv, Evidences
  <2>3. CASE result = "none"
    <3>1. WithoutResult(s) \in {"cancelled", "failed"}
      BY DEF WithoutResult
    <3> QED
      BY <1>1, <1>2, <2>1, <2>3, <3>1, EvidenceMoves DEF Reread, Evidences
  <2> QED
    BY <2>2, <2>3
<1> QED
  BY <1>1, <1>2, <1>3, StepPreserves

LEMMA ClaimPreserves ==
    ASSUME JobInv, NEW s \in Supervisors, Claim(s)
    PROVE  JobInv'
<1>1. SameRay
  BY DEF Claim, SameRay
<1>4. ASSUME job' = WithSubmission("submitting", s), CanClaim
      PROVE  RowMoves /\ job'.submission = "submitting" /\ job'.publication = "pending"
  <2>1. "submitting" \in Submissions \ {"queued"} /\ "submitting" \notin Observed \cup FenceKnown
    BY DEF Submissions, Unsettled, Observed, FenceKnown
  <2> QED
    BY <1>1, <1>4, <2>1, SubmissionMoves DEF Claim, CanClaim
<1>2. RowMoves
  BY <1>1, <1>4, SameRowMoves DEF Claim
<1>3. SupervisorMoves(s)
  <2>1. CASE job' = WithSubmission("submitting", s) /\ CanClaim /\ Goes(s, "send")
    BY <1>1, <1>2, <1>4, <2>1, GoMoves DEF Claim, At, Pcs, Publishing, Claimed
  <2>2. CASE Rests(s)
    BY <2>2, RestMoves
  <2> QED
    BY <2>1, <2>2 DEF Claim
<1> QED
  BY <1>1, <1>2, <1>3, StepPreserves

LEMMA ClaimFencePreserves ==
    ASSUME JobInv, NEW s \in Supervisors, ClaimFence(s)
    PROVE  JobInv'
<1>1. SameRay
  BY DEF ClaimFence, SameRay
<1>4. ASSUME NEW state \in {"result_fencing", "fencing"}, CanFence(Reason(s)),
             job' = WithSubmission(state, s)
      PROVE  RowMoves /\ job'.submission = state /\ job'.publication = "pending"
  <2>1. state \in Submissions \ {"queued"} /\ state \notin Observed \cup FenceKnown
    BY DEF Submissions, Unsettled, Reconciliation, Observed, FenceKnown
  <2>2. Pending /\ job.submission # "queued"
    BY <1>4 DEF CanFence
  <2> QED
    BY <1>1, <1>4, <2>1, <2>2, SubmissionMoves DEF ClaimFence, FenceKnown
<1>5. ProvesMissing(Reason(s)) => (Quiet => Over)
  <2> SUFFICES ASSUME ProvesMissing(Reason(s)), Quiet PROVE Over
    OBVIOUS
  <2>1. Reason(s) \notin {"run", "reconciliation"} /\ job.intent # {}
    BY DEF ProvesMissing, ClaimFence, At, JobInv, EvidenceInv
  <2>2. CASE job.submission = "queued"
    BY <2>1, <2>2 DEF JobInv, NobodySubmitted, Over, NeverStarts
  <2>3. CASE job.submission = "submitted"
    BY <2>1, <2>3 DEF ClaimFence, JobInv, QuietInv, ReliesOn, Over
  <2>4. CASE job.submission = "stop_fenced"
    BY <2>4 DEF JobInv, QuietInv, RowRelies, FenceKnown, FenceHolds, Over, HasEnded
  <2> QED
    BY <2>2, <2>3, <2>4 DEF ProvesMissing
<1>2. RowMoves
  BY <1>1, <1>4, SameRowMoves DEF ClaimFence
<1>3. SupervisorMoves(s)
  <2>1. CASE /\ CanFence(Reason(s)) /\ Goes(s, "send")
             /\ job' = WithSubmission(
                   IF Reason(s) = "reconciliation" THEN "result_fencing" ELSE "fencing", s)
    <3>1. job'.submission \in {"result_fencing", "fencing"} /\ job'.publication = "pending"
      BY <1>4, <2>1
    <3> QED
      BY <1>1, <1>2, <2>1, <3>1, GoMoves DEF ClaimFence, At, Pcs, Publishing, Claimed
  <2>2. CASE ProvesMissing(Reason(s)) /\ Publishes(s, "failed")
    BY <1>1, <1>2, <1>5, <2>2, EvidenceMoves DEF Evidences
  <2>3. CASE ProvesMissing(Reason(s)) /\ Goes(s, "reread")
    BY <1>1, <1>2, <1>5, <2>3, GoMoves DEF ClaimFence, At, Pcs, Publishing
  <2>4. CASE Rests(s)
    BY <2>4, RestMoves
  <2> QED
    BY <2>1, <2>2, <2>3, <2>4 DEF ClaimFence
<1> QED
  BY <1>1, <1>2, <1>3, StepPreserves

LEMMA RecheckPreserves ==
    ASSUME JobInv, NEW s \in Supervisors, Recheck(s)
    PROVE  JobInv'
<1>1. SameRay
  BY DEF Recheck, SameRay
<1>2. RowMoves
  BY <1>1, SameRowMoves DEF Recheck
<1>3. SupervisorMoves(s)
  <2>1. CASE Rests(s)
    BY <2>1, RestMoves
  <2>2. CASE ~Rests(s)
    <3> DEFINE pc == IF Sends(s) = "workload" THEN "note" ELSE "persist"
               owner == IF Sends(s) = "workload" THEN Nobody ELSE job.submissionOwner
               new == [supervisor[s] EXCEPT !.pc = pc, !.seen = remote, !.readOwner = owner]
    <3>1. supervisor[s] \in SupervisorRows /\ remote \in RemoteRows /\ job \in JobRows
      BY TypeParts DEF JobInv
    <3>2. pc \in {"note", "persist"} /\ owner \in Supervisors \cup {Nobody}
      BY <3>1 DEF JobRows
    <3>3. supervisor' = [supervisor EXCEPT ![s].pc = pc, ![s].seen = remote,
                                           ![s].readOwner = owner] /\ remote.job # "none"
      BY <2>2 DEF Recheck
    <3> HIDE DEF pc, owner
    <3>4. /\ new \in SupervisorRows /\ new.pc = pc /\ new.reason = Reason(s)
          /\ new.seen = remote /\ new.evidence = supervisor[s].evidence
      BY <3>1, <3>2 DEF SupervisorRows, Pcs, Reason
    <3>5. supervisor' = [supervisor EXCEPT ![s] = new]
      BY <3>3, TypeParts DEF JobInv
    <3> HIDE DEF new
    <3>6. Becomes(s, new.pc, new.reason, new.read, new.seen, new.evidence)
      BY <3>4, <3>5, RowSets DEF JobInv
    <3>7. /\ supervisor[s].evidence = "none" /\ job' = job /\ job.submission # "queued"
          /\ Reason(s) \notin {"run", "reconciliation"} => job.intent # {}
      BY DEF Recheck, At, JobInv, EvidenceInv, NobodySubmitted, Publishing
    <3>8. Known' /\ (remote.status \notin Live => HasEnded')
      BY <1>1, <3>3 DEF SameRay, rayVars, Known, HasEnded
    <3> QED
      BY <3>2, <3>4, <3>6, <3>7, <3>8 DEF Becomes, SupervisorMoves, ReliesOn, At, Reason, Seen,
         Publishing
  <2> QED
    BY <2>1, <2>2
<1> QED
  BY <1>1, <1>2, <1>3, StepPreserves

\* The fence that holds the ID is recorded.
LEMMA AcceptMoves ==
    ASSUME JobInv, NEW s \in Supervisors, NEW owner, NEW fence, NEW pc \in {"refind", "stop", "settle"},
           AcceptAs(s, owner, fence, pc), SameRay, UNCHANGED catalog,
           supervisor[s].pc \notin Publishing,
           Quiet => FenceHolds, Quiet => Known, Quiet /\ pc = "settle" => HasEnded
    PROVE  RowMoves /\ SupervisorMoves(s)
<1>1. pc \in Pcs \ (Publishing \cup {"idle", "find"})
  BY DEF Pcs, Publishing
<1>2. CASE CanAccept(owner) /\ job' = Accepted /\ Goes(s, pc)
  <2> DEFINE state == IF job.submission \in Reconciliation THEN "result_stop_fenced"
                                                           ELSE "fence_stopping"
  <2>1. state \in {"result_stop_fenced", "fence_stopping"} /\ job' = WithSubmission(state, Nobody)
    BY <1>2 DEF Accepted
  <2> HIDE DEF state
  <2>2. Pending /\ job.submission # "queued" /\ state \in Submissions \ {"queued"}
    BY <1>2, <2>1 DEF CanAccept, Submissions, Unsettled, Reconciliation
  <2>3. RowMoves /\ job'.submission = state
    BY <2>1, <2>2, SubmissionMoves
  <2> QED
    BY <1>1, <1>2, <2>1, <2>3, GoMoves
<1>3. CASE UNCHANGED job /\ Goes(s, pc)
  <2>1. RowMoves
    BY <1>3, SameRowMoves
  <2> QED
    BY <1>1, <1>3, <2>1, GoMoves
<1>4. CASE UNCHANGED job /\ GivesWay(s)
  BY <1>4, SameRowMoves, GivesWayMoves
<1> QED
  BY <1>2, <1>3, <1>4 DEF AcceptAs

LEMMA AcceptPreserves ==
    ASSUME JobInv, NEW s \in Supervisors, Accept(s)
    PROVE  JobInv'
<1>1. SameRay
  BY DEF Accept, SameRay
<1>2. RowMoves /\ SupervisorMoves(s)
  <2>1. Quiet => FenceHolds /\ Known
    BY DEF Accept, At, JobInv, QuietInv, ReliesOn
  <2> QED
    BY <1>1, <2>1, AcceptMoves DEF Accept, At, Publishing
<1> QED
  BY <1>1, <1>2, StepPreserves

LEMMA PersistPreserves ==
    ASSUME JobInv, NEW s \in Supervisors, Persist(s)
    PROVE  JobInv'
<1>1. SameRay
  BY DEF Persist, SameRay
<1>2. RowMoves /\ SupervisorMoves(s)
  <2> DEFINE next == IF Seen(s).status \in Live THEN "stop" ELSE "settle"
  <2>1. /\ next \in {"stop", "settle"} /\ supervisor[s].pc = "persist"
        /\ Quiet => Known /\ (next = "settle" => HasEnded)
    BY DEF Persist, At, JobInv, QuietInv, ReliesOn
  <2>2. CASE Rests(s) /\ UNCHANGED job
    BY <1>1, <2>2, RestMoves, SameRowMoves DEF Persist
  <2>3. CASE remote.job \in Fences /\ AcceptAs(s, supervisor[s].readOwner, remote.job, next)
    BY <1>1, <2>1, <2>3, AcceptMoves DEF Persist, Publishing, FenceHolds
  <2>4. CASE remote.job = "workload" /\ CanNote /\ job' = Noted /\ Goes(s, next)
    <3>1. job.submission # "queued"
      BY <2>4 DEF JobInv, NobodySubmitted, NoJob
    <3>2. RowMoves /\ job'.submission # "queued"
      BY <1>1, <2>1, <2>4, <3>1, NotedMoves DEF Persist
    <3> QED
      BY <1>1, <2>1, <2>4, <3>2, GoMoves DEF Pcs, Publishing
  <2>5. CASE UNCHANGED job /\ GivesWay(s)
    BY <1>1, <2>5, GivesWayMoves, SameRowMoves DEF Persist
  <2> QED
    BY <2>2, <2>3, <2>4, <2>5 DEF Persist
<1> QED
  BY <1>1, <1>2, StepPreserves

LEMMA RefindPreserves ==
    ASSUME JobInv, NEW s \in Supervisors, Refind(s)
    PROVE  JobInv'
<1>1. SameRay
  BY DEF Refind, SameRay
<1>2. RowMoves
  BY <1>1, SameRowMoves DEF Refind
<1>3. SupervisorMoves(s)
  <2>1. CASE Rests(s)
    BY <2>1, RestMoves
  <2>2. ASSUME NEW pc \in {"stop", "settle"}, Sees(s, pc), pc = "settle" => remote.status \notin Live
        PROVE  SupervisorMoves(s)
    <3>1. PICK read \in {"none", supervisor[s].read} :
             Becomes(s, pc, Reason(s), read, remote, supervisor[s].evidence)
      BY <2>2, SeesSets DEF JobInv, Pcs
    <3>2. /\ supervisor[s].evidence = "none" /\ job' = job
          /\ Reason(s) \notin {"run", "reconciliation"} => job.intent # {}
          /\ Quiet => Known
      BY DEF Refind, At, JobInv, EvidenceInv, Publishing, QuietInv, ReliesOn
    <3>3. /\ Known => Known'
          /\ Known /\ remote.status \notin Live => HasEnded'
      BY <1>1 DEF SameRay, rayVars, Known, HasEnded, Lost
    <3> QED
      BY <2>2, <3>1, <3>2, <3>3 DEF Becomes, SupervisorMoves, ReliesOn, At, Reason, Seen,
         Publishing
  <2> QED
    BY <2>1, <2>2 DEF Refind
<1> QED
  BY <1>1, <1>2, <1>3, StepPreserves

\* Once the winner has ended, its terminal result is evidence.
LEMMA EndedMoves ==
    ASSUME JobInv, NEW s \in Supervisors, Ended(s), SameRay, RowMoves,
           supervisor[s].pc \notin Publishing, Quiet => HasEnded
    PROVE  SupervisorMoves(s)
<1>1. CASE Publishes(s, "failed")
  BY <1>1, EvidenceMoves DEF Evidences, Over
<1>2. CASE Goes(s, "reread")
  BY <1>2, GoMoves DEF Pcs, Publishing, Over
<1> QED
  BY <1>1, <1>2 DEF Ended

LEMMA SettlePreserves ==
    ASSUME JobInv, NEW s \in Supervisors, Settle(s)
    PROVE  JobInv'
<1>1. SameRay
  BY DEF Settle, SameRay
<1>2. RowMoves /\ SupervisorMoves(s)
  <2>1. /\ supervisor[s].pc \notin Publishing
        /\ Quiet => HasEnded
        /\ HasEnded => Known
        /\ UNCHANGED catalog
    BY DEF Settle, At, JobInv, QuietInv, ReliesOn, Publishing, HasEnded, Known
  <2>2. ASSUME UNCHANGED job PROVE RowMoves
    BY <1>1, <2>1, <2>2, SameRowMoves
  <2>3. ASSUME NEW state \in {"submitted", "result_fenced", "stop_fenced"}, Pending,
               job.submission # "queued", job' = WithSubmission(state, Nobody),
               state # "submitted" => job.submission \in FenceKnown
        PROVE  RowMoves
    <3>1. state \in Submissions \ {"queued"} /\ (state = "submitted" => state \notin FenceKnown)
      BY DEF Submissions, FenceKnown
    <3>2. Quiet /\ state # "submitted" => FenceHolds
      BY <2>3 DEF JobInv, QuietInv, RowRelies
    <3> QED
      BY <1>1, <2>1, <2>3, <3>1, <3>2, SubmissionMoves
  <2>4. RowMoves
    <3>1. CASE UNCHANGED job
      BY <2>2, <3>1
    <3>2. CASE /\ Pending /\ job.submission \in {"result_submitted", "result_stop_fenced"}
               /\ job' = WithSubmission(
                     IF job.submission = "result_submitted" THEN "submitted"
                                                            ELSE "result_fenced", Nobody)
      BY <2>3, <3>2 DEF FenceKnown
    <3>3. CASE /\ Pending /\ job.submission \in {"stopping", "fence_stopping"}
               /\ job' = WithSubmission(
                     IF job.submission = "stopping" THEN "submitted" ELSE "stop_fenced", Nobody)
      BY <2>3, <3>3 DEF FenceKnown
    <3> QED
      BY <3>1, <3>2, <3>3 DEF Settle
  <2>5. Ended(s) \/ (GivesWay(s) /\ UNCHANGED job)
    BY DEF Settle
  <2> QED
    BY <1>1, <2>1, <2>4, <2>5, EndedMoves, GivesWayMoves
<1> QED
  BY <1>1, <1>2, StepPreserves

\* The row's publication moves on; the submission does not.
LEMMA PublicationRowMoves ==
    ASSUME JobInv, SameRay, UNCHANGED catalog, job' \in JobRows,
           job'.submission = job.submission, job'.intent = job.intent,
           job'.publication = "pending" => Pending,
           job'.plan = "none" <=> job'.publication = "pending",
           \/ job'.plan = job.plan /\ (Pending => job'.publication = "pending")
           \/ /\ job'.plan = "done" => result = "done"
              /\ ~catalog \/ job'.plan = "done"
              /\ job'.publication # "published"
              /\ Quiet => result # "none" \/ Over
              /\ job'.plan = "cancelled" /\ losses = 0 => result = "none" /\ Over,
           job'.publication = "published" /\ job'.plan = "done" => catalog
    PROVE  RowMoves
<1>1. /\ Known' <=> Known
      /\ FenceHolds' <=> FenceHolds
      /\ Over => Over'
      /\ losses' = losses /\ result' = result
  BY FactsAreKept DEF SameRay, rayVars
<1>2. Quiet => RowRelies'
  BY <1>1 DEF JobInv, QuietInv, RowRelies, Pending
<1>3. CatalogFollowsPlan'
  BY DEF JobInv, CatalogFollowsPlan
<1>4. catalog \in BOOLEAN
  BY TypeParts DEF JobInv
<1> QED
  BY <1>2, <1>3, <1>4 DEF RowMoves, JobInv, EvidenceInv

LEMMA ClaimPublicationPreserves ==
    ASSUME JobInv, NEW s \in Supervisors, ClaimPublication(s)
    PROVE  JobInv'
<1>1. SameRay
  BY DEF ClaimPublication, SameRay
<1>2. RowMoves /\ SupervisorMoves(s)
  <2>1. /\ supervisor[s].pc = "publish" /\ UNCHANGED catalog
        /\ job \in JobRows /\ (job.plan = "none" <=> Pending)
    BY TypeParts DEF ClaimPublication, At, JobInv
  <2>2. CASE UNCHANGED job
    <3>1. RowMoves
      BY <1>1, <2>1, <2>2, SameRowMoves
    <3>2. CASE Rests(s)
      BY <3>1, <3>2, RestMoves
    <3>3. ASSUME NEW pc \in {"ended", "begin", "apply"}, Goes(s, pc) PROVE SupervisorMoves(s)
      BY <1>1, <2>1, <2>2, <3>1, <3>3, PublicationMoves DEF Publishing, Pending
    <3> QED
      BY <3>1, <3>2, <3>3 DEF ClaimPublication
  <2>3. CASE /\ job' = [job EXCEPT !.publicationOwner = s]
             /\ Goes(s, IF Pending THEN "begin" ELSE "apply")
    <3>1. /\ job' \in JobRows /\ job'.submission = job.submission /\ job'.intent = job.intent
          /\ job'.publication = job.publication /\ job'.plan = job.plan
      BY <2>1, <2>3 DEF JobRows
    <3>2. RowMoves
      BY <1>1, <2>1, <3>1, PublicationRowMoves DEF Pending, JobInv, CatalogFollowsPlan
    <3> QED
      BY <1>1, <2>1, <2>3, <3>1, <3>2, PublicationMoves DEF Publishing, Pending
  <2> QED
    BY <2>2, <2>3 DEF ClaimPublication
<1> QED
  BY <1>1, <1>2, StepPreserves

LEMMA BeginPreserves ==
    ASSUME JobInv, NEW s \in Supervisors, Begin(s)
    PROVE  JobInv'
<1>1. SameRay
  BY DEF Begin, SameRay
<1>2. RowMoves /\ SupervisorMoves(s)
  <2>1. /\ supervisor[s].pc = "begin" /\ UNCHANGED catalog
        /\ job \in JobRows /\ (job.plan = "none" <=> Pending)
        /\ supervisor[s].evidence \in Evidences
        /\ Pending => supervisor[s].evidence # "none"
        /\ supervisor[s].evidence = "done" => result = "done"
    BY TypeParts DEF Begin, At, JobInv, SupervisorRows, EvidenceInv, Publishing
  <2>2. CASE UNCHANGED job
    <3>1. RowMoves
      BY <1>1, <2>1, <2>2, SameRowMoves
    <3>2. CASE Rests(s)
      BY <3>1, <3>2, RestMoves
    <3>3. ASSUME NEW pc \in {"publish", "apply"}, Goes(s, pc) PROVE SupervisorMoves(s)
      BY <1>1, <2>1, <2>2, <3>1, <3>3, PublicationMoves DEF Publishing, Pending
    <3> QED
      BY <3>1, <3>2, <3>3 DEF Begin
  <2>3. ASSUME Pending, Goes(s, "apply"),
               NEW plan \in {supervisor[s].evidence} \cup
                     (IF supervisor[s].evidence = "done" THEN {"failed"} ELSE {}),
               job' = [job EXCEPT !.publication = "effects_started", !.plan = plan]
        PROVE  RowMoves /\ SupervisorMoves(s)
    <3>1. plan \in Evidences \ {"none"}
      BY <2>1, <2>3 DEF Evidences
    <3>2. /\ job' \in JobRows /\ job'.submission = job.submission /\ job'.intent = job.intent
          /\ job'.publication = "effects_started" /\ job'.plan = plan
      BY <2>1, <2>3, <3>1 DEF JobRows
    <3>3. /\ Quiet => result # "none" \/ Over
          /\ plan = "cancelled" /\ losses = 0 => result = "none" /\ Over
      BY <2>1, <2>3 DEF JobInv, QuietInv, ReliesOn, Quiet
    <3>4. ~catalog /\ (plan = "done" => result = "done")
      BY <2>1, <2>3, <3>1 DEF JobInv, CatalogFollowsPlan
    <3>5. RowMoves
      BY <1>1, <2>1, <3>1, <3>2, <3>3, <3>4, PublicationRowMoves
    <3> QED
      BY <1>1, <2>1, <2>3, <3>2, <3>5, PublicationMoves DEF Publishing
  <2> QED
    BY <2>2, <2>3 DEF Begin
<1> QED
  BY <1>1, <1>2, StepPreserves

LEMMA ApplyPreserves ==
    ASSUME JobInv, NEW s \in Supervisors, Apply(s)
    PROVE  JobInv'
<1>1. SameRay
  BY DEF Apply, SameRay
<1>2. RowMoves /\ SupervisorMoves(s)
  <2>1. /\ supervisor[s].pc = "apply" /\ job' = job
        /\ job \in JobRows /\ (job.plan = "none" <=> Pending) /\ catalog \in BOOLEAN
    BY TypeParts DEF Apply, At, JobInv
  <2>2. catalog' \in {catalog, catalog \/ job.plan = "done"}
    BY DEF Apply
  <2>3. CatalogFollowsPlan' /\ catalog' \in BOOLEAN
    BY <2>1, <2>2 DEF JobInv, CatalogFollowsPlan
  <2>4. Quiet => RowRelies'
    <3>1. /\ Known' <=> Known
          /\ FenceHolds' <=> FenceHolds
          /\ Over => Over'
      BY <1>1, <2>1, FactsAreKept
    <3> QED
      BY <1>1, <2>1, <3>1 DEF JobInv, QuietInv, RowRelies, Pending, SameRay, rayVars
  <2>5. RowMoves
    BY <2>1, <2>3, <2>4 DEF RowMoves, Pending, JobInv, EvidenceInv
  <2>6. ASSUME NEW pc \in {"finish", "publish"}, Goes(s, pc) PROVE SupervisorMoves(s)
    BY <1>1, <2>1, <2>5, <2>6, PublicationMoves DEF Publishing, Pending
  <2> QED
    BY <2>5, <2>6 DEF Apply
<1> QED
  BY <1>1, <1>2, StepPreserves

LEMMA FinishPreserves ==
    ASSUME JobInv, NEW s \in Supervisors, Finish(s)
    PROVE  JobInv'
<1>1. SameRay
  BY DEF Finish, SameRay
<1>2. RowMoves /\ SupervisorMoves(s)
  <2>1. /\ supervisor[s].pc = "finish" /\ UNCHANGED catalog
        /\ job \in JobRows /\ (job.plan = "none" <=> Pending)
    BY TypeParts DEF Finish, At, JobInv
  <2>2. CASE UNCHANGED job /\ Goes(s, "publish")
    <3>1. RowMoves
      BY <1>1, <2>1, <2>2, SameRowMoves
    <3> QED
      BY <1>1, <2>1, <2>2, <3>1, PublicationMoves DEF Publishing, Pending
  <2>3. CASE /\ job.publication = "effects_started" /\ (job.plan = "done" => catalog)
             /\ job' = [job EXCEPT !.publication = "published", !.publicationOwner = Nobody]
             /\ Goes(s, "ended")
    <3>1. /\ job' \in JobRows /\ job'.submission = job.submission /\ job'.intent = job.intent
          /\ job'.publication = "published" /\ job'.plan = job.plan
      BY <2>1, <2>3 DEF JobRows
    <3>2. RowMoves
      BY <1>1, <2>1, <2>3, <3>1, PublicationRowMoves DEF Pending
    <3> QED
      BY <1>1, <2>1, <2>3, <3>1, <3>2, PublicationMoves DEF Publishing, Pending
  <2> QED
    BY <2>2, <2>3 DEF Finish
<1> QED
  BY <1>1, <1>2, StepPreserves

-----------------------------------------------------------------------------
(* Ray's steps, and the two others that no supervisor's lemma covers.      *)

\* Nobody but Start lets a supervisor leave "idle", hence Quiet only ends.
LEMMA QuietBefore ==
    ASSUME losses \in Nat, losses' \in {losses, losses + 1},
           \A t \in Supervisors : supervisor'[t].pc = "idle" <=> supervisor[t].pc = "idle",
           Quiet'
    PROVE  Quiet
BY DEF Quiet, Alone, At

LEMMA RequestCancelPreserves == ASSUME JobInv, RequestCancel PROVE JobInv'
<1>1. /\ job \in JobRows /\ Pending /\ "cancellation" \in Intents
      /\ job' = [job EXCEPT !.intent = @ \cup {"cancellation"}]
      /\ UNCHANGED <<catalog, rayVars, supervisor, losses>>
  BY TypeParts DEF RequestCancel, JobInv
<1>2. /\ job' \in JobRows /\ job'.submission = job.submission /\ job'.intent # {}
      /\ job'.publication = job.publication /\ job'.plan = job.plan
  BY <1>1 DEF JobRows
<1> USE DEF JobInv
<1>3. TypeOK'
  BY <1>1, <1>2, TypeParts, TypesNext DEF rayVars, Pending
<1>4. NobodySubmitted' /\ EvidenceInv' /\ CatalogFollowsPlan'
  BY <1>1, <1>2 DEF rayVars, NobodySubmitted, EvidenceInv, CatalogFollowsPlan, Pending, At,
     Reason
<1>5. QuietInv'
  <2>1. /\ Known' <=> Known
        /\ FenceHolds' <=> FenceHolds
        /\ HasEnded' <=> HasEnded
        /\ Over => Over'
    BY <1>1, <1>2, FactsAreKept DEF SameRay
  <2>2. Quiet' => Quiet
    BY <1>1 DEF Quiet, Alone, At
  <2> QED
    BY <1>1, <1>2, <2>1, <2>2 DEF rayVars, QuietInv, RowRelies, ReliesOn, At, Reason, Seen,
       Pending, Alone
<1> QED
  BY <1>3, <1>4, <1>5

LEMMA SendPreserves == ASSUME JobInv, NEW s \in Supervisors, Send(s) PROVE JobInv'
<1> USE DEF JobInv
<1>1. /\ supervisor[s].pc = "send" /\ job.submission # "queued"
      /\ supervisor[s].evidence = "none"
      /\ inFlight' = inFlight \cup {<<s, Sends(s)>>}
      /\ UNCHANGED <<job, catalog, remote, result, losses>>
  BY DEF Send, At, NobodySubmitted, EvidenceInv, Publishing
<1>2. Becomes(s, "await", Reason(s), "none", Seen(s), "none")
  BY <1>1, GoesSets DEF Send, Pcs
<1>3. TypeOK'
  <2>1. Sends(s) \in {"workload"} \cup Fences
    BY TypeParts DEF Sends, SupervisorRows, Reasons, Reason
  <2> QED
    BY <1>1, <1>2, <2>1, TypeParts, TypesNext DEF Becomes, Pending
<1>4. NobodySubmitted' /\ EvidenceInv' /\ CatalogFollowsPlan'
  BY <1>1, <1>2 DEF Becomes, NobodySubmitted, EvidenceInv, CatalogFollowsPlan, Pending, At,
     Reason, Publishing
<1>5. QuietInv'
  <2> SUFFICES ASSUME Quiet' PROVE RowRelies' /\ \A t \in Supervisors : ReliesOn(t)'
    BY DEF QuietInv
  <2>1. Quiet
    BY <1>1, <1>2 DEF Becomes, Quiet, Alone, At
  <2>2. CASE losses = 0
    <3>1. /\ Known' <=> Known
          /\ FenceHolds' <=> FenceHolds
          /\ HasEnded' <=> HasEnded
          /\ Over' <=> Over
      BY <1>1, <2>2 DEF Known, FenceHolds, HasEnded, Over, NeverStarts, Lost
    <3>2. Alone' => Alone
      BY <1>1, <1>2 DEF Becomes, Alone, At
    <3>3. RowRelies'
      BY <1>1, <2>1, <3>1 DEF QuietInv, RowRelies, Pending
    <3>4. ReliesOn(s)'
      BY <1>2 DEF Becomes, ReliesOn, At, Reason, Seen
    <3>5. ASSUME NEW t \in Supervisors \ {s} PROVE ReliesOn(t)'
      <4>1. supervisor'[t] = supervisor[t] /\ ReliesOn(t)
        BY <1>2, <2>1 DEF Becomes, QuietInv
      <4> QED
        BY <1>1, <3>1, <3>2, <4>1 DEF ReliesOn, At, Reason, Seen, Pending
    <3> QED
      BY <3>3, <3>4, <3>5
  <2>3. CASE losses # 0
    <3>1. Alone
      BY <2>1, <2>3 DEF Quiet
    <3>2. Pending /\ job.submission \in Claimed
      BY <1>1, <2>1, <3>1 DEF QuietInv, ReliesOn, At
    <3>3. RowRelies'
      BY <1>1, <3>2, TypeParts DEF RowRelies, Pending, Claimed, Observed, FenceKnown
    <3>4. ReliesOn(s)'
      BY <1>2 DEF Becomes, ReliesOn, At, Reason, Seen
    <3>5. ASSUME NEW t \in Supervisors \ {s} PROVE ReliesOn(t)'
      <4>1. supervisor'[t] = supervisor[t] /\ supervisor[t].pc = "idle"
        BY <1>1, <1>2, <3>1 DEF Becomes, Alone, At
      <4>2. supervisor[t].evidence = "none"
        BY <4>1 DEF EvidenceInv, Publishing
      <4> QED
        BY <4>1, <4>2 DEF ReliesOn, At, Reason, Seen
    <3> QED
      BY <3>3, <3>4, <3>5
  <2> QED
    BY <2>2, <2>3
<1> QED
  BY <1>3, <1>4, <1>5

LEMMA DeliverPreserves ==
    ASSUME JobInv, NEW s \in Supervisors, NEW kind \in {"workload"} \cup Fences, Deliver(s, kind)
    PROVE  JobInv'
<1> USE DEF JobInv
<1>1. /\ inFlight # {} /\ inFlight' = inFlight \ {<<s, kind>>} /\ ~Lost /\ ~NeverStarts
      /\ job.submission # "queued"
      /\ UNCHANGED <<job, catalog, result, losses>>
  BY DEF Deliver, NobodySubmitted, Lost, NeverStarts
<1>2. CASE remote # NoJob
  <2>1. UNCHANGED <<remote, supervisor>>
    BY <1>2 DEF Deliver
  <2>2. TypeOK'
    BY <1>1, <2>1, TypeParts, TypesNext DEF Pending
  <2>3. NobodySubmitted' /\ EvidenceInv' /\ CatalogFollowsPlan'
    BY <1>1, <2>1 DEF NobodySubmitted, EvidenceInv, CatalogFollowsPlan, Pending, At, Reason
  <2>4. QuietInv'
    <3>1. /\ Known' <=> Known
          /\ FenceHolds' <=> FenceHolds
          /\ HasEnded' <=> HasEnded
          /\ Over' <=> Over
      BY <1>1, <1>2, <2>1 DEF Known, FenceHolds, HasEnded, Over, NeverStarts, Lost
    <3> QED
      BY <1>1, <2>1, <3>1 DEF QuietInv, Quiet, Alone, RowRelies, ReliesOn, At, Reason, Seen,
         Pending
  <2> QED
    BY <2>2, <2>3, <2>4
<1>3. CASE remote = NoJob
  <2> DEFINE accepted == [job |-> kind, status |-> "running"]
  <2>1. /\ remote' = accepted /\ accepted \in RemoteRows
        /\ accepted.job = kind /\ accepted.status = "running"
    BY <1>3 DEF Deliver, RemoteRows
  <2> HIDE DEF accepted
  <2>2. /\ \A t \in Supervisors \ {s} : supervisor'[t] = supervisor[t]
        /\ supervisor' \in [Supervisors -> SupervisorRows]
        /\ \/ supervisor' = supervisor
           \/ /\ supervisor[s].pc = "await" /\ supervisor'[s].evidence = "none"
              /\ supervisor'[s].reason = Reason(s)
              /\ supervisor'[s].seen = accepted
              /\ \/ supervisor'[s].pc = "note"
                 \/ supervisor'[s].pc = "accept" /\ kind \in Fences
    <3>1. CASE supervisor' = supervisor
      BY <3>1, TypeParts
    <3>2. CASE /\ At(s, "await")
               /\ supervisor' = [supervisor EXCEPT
                        ![s].pc = IF kind = "workload" THEN "note" ELSE "accept",
                        ![s].seen = accepted]
      <4> DEFINE pc == IF kind = "workload" THEN "note" ELSE "accept"
                 new == [supervisor[s] EXCEPT !.pc = pc, !.seen = accepted]
      <4>1. supervisor[s] \in SupervisorRows /\ supervisor[s].evidence = "none"
        BY <3>2, TypeParts DEF EvidenceInv, At, Publishing
      <4>2. pc \in Pcs /\ (pc = "note" \/ (pc = "accept" /\ kind \in Fences))
        BY SMTT(30) DEF Pcs, Fences
      <4>3. supervisor' = [supervisor EXCEPT ![s] = new]
        BY <3>2, TypeParts
      <4> HIDE DEF pc
      <4>4. /\ new \in SupervisorRows /\ new.pc = pc /\ new.reason = Reason(s)
            /\ new.seen = accepted /\ new.evidence = "none"
        BY <2>1, <4>1, <4>2 DEF SupervisorRows, Reason
      <4> HIDE DEF new
      <4>5. Becomes(s, new.pc, new.reason, new.read, new.seen, new.evidence)
        BY <4>3, <4>4, RowSets
      <4> QED
        BY <3>2, <4>2, <4>4, <4>5 DEF Becomes, At
    <3> QED
      BY <1>3, <3>1, <3>2 DEF Deliver, accepted
  <2>3. TypeOK'
    BY <1>1, <2>1, <2>2, TypeParts, TypesNext DEF Pending
  <2>4. kind # "none"
    BY DEF Fences
  <2>5. NobodySubmitted' /\ EvidenceInv' /\ CatalogFollowsPlan'
    BY <1>1, <2>1, <2>2, <2>4 DEF NobodySubmitted, EvidenceInv, CatalogFollowsPlan, Pending,
       At, Reason, Publishing
  <2>6. QuietInv'
    <3> SUFFICES ASSUME Quiet' PROVE RowRelies' /\ \A t \in Supervisors : ReliesOn(t)'
      BY DEF QuietInv
    <3>1. Quiet /\ (Alone' => Alone)
      BY <1>1, <2>2 DEF Quiet, Alone, At
    <3>2. ~Known /\ ~FenceHolds /\ ~HasEnded /\ ~Over
      BY <1>1, <1>3 DEF Known, FenceHolds, HasEnded, Over, NoJob, Fences
    <3>3. RowRelies'
      BY <1>1, <3>1, <3>2 DEF QuietInv, RowRelies, Pending
    <3>4. ASSUME NEW t \in Supervisors, supervisor'[t] = supervisor[t] PROVE ReliesOn(t)'
      BY <1>1, <3>1, <3>2, <3>4 DEF QuietInv, ReliesOn, At, Reason, Seen, Pending
    <3>5. supervisor' # supervisor => ReliesOn(s)'
      BY <2>1, <2>2, <2>4 DEF ReliesOn, At, Reason, Seen, Known, FenceHolds, Live
    <3> QED
      BY <2>2, <3>3, <3>4, <3>5
  <2> QED
    BY <2>3, <2>5, <2>6
<1> QED
  BY <1>2, <1>3

\* Of a step of Ray's the invariant asks: nothing known becomes untrue.
LEMMA RayPreserves ==
    ASSUME JobInv, UNCHANGED <<job, catalog, supervisor>>,
           remote' \in RemoteRows, result' \in {"none", "done", "failed"},
           inFlight' \subseteq inFlight, losses' \in 0 .. MaxLosses, losses' \in {losses, losses + 1},
           remote'.job = "none" <=> remote'.status = "none",
           remote = NoJob => remote' = NoJob,
           result # "none" => result' = result,
           Over => result' = result,
           Known => Known', FenceHolds => FenceHolds', HasEnded => HasEnded', Over => Over'
    PROVE  JobInv'
<1> USE DEF JobInv
<1>1. TypeOK'
  BY TypeParts, TypesNext DEF Pending
<1>2. NobodySubmitted' /\ EvidenceInv' /\ CatalogFollowsPlan'
  BY DEF NobodySubmitted, EvidenceInv, CatalogFollowsPlan, Pending, At, Reason
<1>3. QuietInv'
  <2>1. losses' = 0 => losses = 0
    BY TypeParts
  <2>2. Quiet' => Quiet
    BY <2>1 DEF Quiet, Alone, At
  <2> QED
    BY <2>1, <2>2 DEF QuietInv, RowRelies, ReliesOn, At, Reason, Seen, Pending, Alone
<1> QED
  BY <1>1, <1>2, <1>3

LEMMA StopPreserves == ASSUME JobInv, NEW s \in Supervisors, Stop(s) PROVE JobInv'
<1> USE DEF JobInv
<1>1. supervisor[s].pc = "stop" /\ UNCHANGED <<job, catalog, result, inFlight, losses>>
  BY DEF Stop, At
<1>2. CASE UNCHANGED remote
  <2>1. SameRay
    BY <1>1, <1>2 DEF SameRay, rayVars
  <2>2. RowMoves
    BY <1>1, <2>1, SameRowMoves
  <2>3. Quiet => Known
    BY <1>1 DEF QuietInv, ReliesOn, At
  <2>4. SupervisorMoves(s)
    BY <1>1, <2>1, <2>2, <2>3, GoMoves DEF Stop, Pcs, Publishing
  <2> QED
    BY <2>1, <2>2, <2>4, StepPreserves
<1>3. CASE remote.status = "running" /\ remote' = [remote EXCEPT !.status = "stopping"]
  <2>1. /\ remote' \in RemoteRows /\ remote'.job = remote.job /\ remote'.status = "stopping"
        /\ remote.status = "running" /\ remote.job # "none"
    BY <1>3, TypeParts DEF RemoteRows, EvidenceInv
  <2>2. /\ ~Lost /\ ~Lost' /\ ~NeverStarts /\ ~HasEnded
    BY <2>1 DEF Lost, NeverStarts, NoJob, HasEnded, Live
  <2>3. /\ Known' /\ (FenceHolds => FenceHolds') /\ (Over => Over')
    BY <2>1, <2>2 DEF Known, FenceHolds, Over
  <2>4. Becomes(s, "refind", Reason(s), "none", Seen(s), "none")
    BY <1>1, GoesSets DEF Stop, Pcs, EvidenceInv, Publishing
  <2>5. TypeOK'
    BY <1>1, <2>1, <2>4, TypeParts, TypesNext DEF Becomes, Pending
  <2>6. NobodySubmitted' /\ EvidenceInv' /\ CatalogFollowsPlan'
    <3>1. job.submission # "queued"
      BY <2>1 DEF NobodySubmitted, NoJob
    <3> QED
      BY <1>1, <2>1, <2>4, <3>1 DEF Becomes, NobodySubmitted, EvidenceInv, CatalogFollowsPlan,
         Pending, At, Reason, Publishing
  <2>7. QuietInv'
    <3> SUFFICES ASSUME Quiet' PROVE RowRelies' /\ \A t \in Supervisors : ReliesOn(t)'
      BY DEF QuietInv
    <3>1. Quiet /\ (Alone' => Alone)
      BY <1>1, <2>4 DEF Becomes, Quiet, Alone, At
    <3>2. RowRelies'
      BY <1>1, <2>3, <3>1 DEF QuietInv, RowRelies, Pending
    <3>3. ReliesOn(s)'
      BY <2>3, <2>4 DEF Becomes, ReliesOn, At, Reason, Seen
    <3>4. ASSUME NEW t \in Supervisors \ {s} PROVE ReliesOn(t)'
      <4>1. supervisor'[t] = supervisor[t] /\ ReliesOn(t)
        BY <2>4, <3>1 DEF Becomes, QuietInv
      <4> QED
        BY <1>1, <2>2, <2>3, <3>1, <4>1 DEF ReliesOn, At, Reason, Seen, Pending
    <3> QED
      BY <3>2, <3>3, <3>4
  <2> QED
    BY <2>5, <2>6, <2>7
<1> QED
  BY <1>2, <1>3 DEF Stop

LEMMA RemoteWritesPreserves == ASSUME JobInv, RemoteWrites PROVE JobInv'
<1>1. /\ remote.job = "workload" /\ remote.status \in Live /\ result' \in {"done", "failed"}
      /\ result = "none"
      /\ UNCHANGED <<job, catalog, remote, inFlight, supervisor, losses>>
  BY DEF RemoteWrites
<1>2. ~Over
  BY <1>1 DEF Over, HasEnded, Lost, NeverStarts, NoJob, Fences
<1>3. /\ Known' <=> Known
      /\ FenceHolds' <=> FenceHolds
      /\ HasEnded' <=> HasEnded
  BY <1>1 DEF Known, FenceHolds, HasEnded, Lost
<1> QED
  BY <1>1, <1>2, <1>3, TypeParts, RayPreserves DEF JobInv, EvidenceInv

LEMMA RemoteEndsPreserves == ASSUME JobInv, RemoteEnds PROVE JobInv'
<1>1. PICK status \in {"succeeded", "failed", "stopped"} :
        /\ remote.status \in Live /\ remote' = [remote EXCEPT !.status = status]
        /\ UNCHANGED <<job, catalog, result, inFlight, supervisor, losses>>
  BY DEF RemoteEnds
<1>2. /\ remote' \in RemoteRows /\ remote'.job = remote.job /\ remote'.status = status
      /\ remote.job # "none"
  BY <1>1, TypeParts DEF JobInv, RemoteRows, EvidenceInv, Live
<1>3. HasEnded' /\ Known' /\ (FenceHolds => FenceHolds')
  BY <1>1, <1>2 DEF Known, FenceHolds, HasEnded, Live, Lost, NoJob
<1>4. Over'
  BY <1>3 DEF Over
<1>5. losses \in 0 .. MaxLosses /\ result \in {"none", "done", "failed"} /\ remote # NoJob
  BY <1>2, TypeParts DEF JobInv, NoJob
<1> QED
  BY <1>1, <1>2, <1>3, <1>4, <1>5, RayPreserves

LEMMA RemoteForgetsPreserves == ASSUME JobInv, RemoteForgets PROVE JobInv'
<1>1. /\ losses < MaxLosses /\ losses' = losses + 1 /\ remote' = NoJob /\ inFlight' = {}
      /\ UNCHANGED <<job, catalog, result, supervisor>>
      /\ losses \in 0 .. MaxLosses /\ result \in {"none", "done", "failed"}
  BY TypeParts DEF RemoteForgets, JobInv
<1>2. losses' \in 0 .. MaxLosses /\ losses' # 0
  BY <1>1, BoundAssumption
<1>3. Known' /\ FenceHolds' /\ HasEnded' /\ Over'
  BY <1>1, <1>2 DEF Known, FenceHolds, HasEnded, Over, Lost
<1>4. remote' \in RemoteRows /\ remote'.job = "none" /\ remote'.status = "none"
  BY <1>1, NoJobIsARow DEF NoJob
<1> QED
  BY <1>1, <1>2, <1>3, <1>4, RayPreserves

-----------------------------------------------------------------------------
LEMMA NextPreserves == ASSUME JobInv, Next PROVE JobInv'
<1>1. ASSUME NEW s \in Supervisors,
             Start(s) \/ SupervisorStep(s) \/ RequestQuarantine(s) \/ Interrupt(s)
      PROVE  JobInv'
  BY <1>1, StartPreserves, RequestQuarantinePreserves, InterruptPreserves, RefreshPreserves,
     FindPreserves, NotePreserves, ReplayPreserves, RereadPreserves, ClaimPreserves,
     ClaimFencePreserves, SendPreserves, RecheckPreserves, AcceptPreserves, PersistPreserves,
     StopPreserves, RefindPreserves, SettlePreserves, ClaimPublicationPreserves,
     BeginPreserves, ApplyPreserves, FinishPreserves
     DEF SupervisorStep
<1> QED
  BY <1>1, RequestCancelPreserves, DeliverPreserves, RemoteWritesPreserves,
     RemoteEndsPreserves, RemoteForgetsPreserves DEF Next

LEMMA StutterPreserves == ASSUME JobInv, UNCHANGED vars PROVE JobInv'
<1>1. /\ Known' <=> Known
      /\ FenceHolds' <=> FenceHolds
      /\ HasEnded' <=> HasEnded
      /\ Over' <=> Over
  BY DEF vars, rayVars, Known, FenceHolds, HasEnded, Over, NeverStarts, Lost
<1>2. TypeOK' /\ NobodySubmitted' /\ CatalogFollowsPlan'
  BY TypeParts, TypesNext DEF JobInv, vars, rayVars, NobodySubmitted, CatalogFollowsPlan,
     Pending
<1>3. EvidenceInv'
  BY DEF JobInv, vars, rayVars, EvidenceInv, Pending, At, Reason
<1>4. QuietInv'
  BY <1>1 DEF JobInv, vars, rayVars, QuietInv, Quiet, Alone, RowRelies, ReliesOn, At, Reason,
     Seen, Pending
<1> QED
  BY <1>2, <1>3, <1>4 DEF JobInv

LEMMA InitEstablishes == ASSUME Init PROVE JobInv
<1>1. /\ job \in JobRows /\ job.submission = "queued" /\ Pending /\ job.plan = "none"
      /\ catalog = FALSE /\ remote = NoJob /\ result = "none" /\ inFlight = {} /\ losses = 0
  BY DEF Init, JobRows, Submissions, Evidences, Pending
<1>2. /\ supervisor \in [Supervisors -> SupervisorRows]
      /\ \A s \in Supervisors : /\ supervisor[s].pc = "idle" /\ supervisor[s].reason = "run"
                                /\ supervisor[s].evidence = "none"
  <2> DEFINE new == [AtRest EXCEPT !.pc = "idle"]
  <2>1. supervisor = [s \in Supervisors |-> new]
    BY DEF Init
  <2> HIDE DEF AtRest
  <2>2. /\ new \in SupervisorRows /\ new.pc = "idle" /\ new.reason = "run"
        /\ new.evidence = "none"
    BY AtRestIsARow DEF SupervisorRows, Pcs
  <2> HIDE DEF new
  <2> QED
    BY <2>1, <2>2
<1>3. remote \in RemoteRows /\ remote.job = "none" /\ remote.status = "none"
  BY <1>1, NoJobIsARow DEF NoJob
<1>4. losses \in 0 .. MaxLosses
  BY <1>1, BoundAssumption
<1>5. TypeOK
  BY <1>1, <1>2, <1>3, <1>4, TypeParts
<1>6. NobodySubmitted /\ EvidenceInv /\ CatalogFollowsPlan
  BY <1>1, <1>2, <1>3 DEF NobodySubmitted, EvidenceInv, CatalogFollowsPlan, At, Reason,
     Publishing, Pending
<1>7. QuietInv
  BY <1>1, <1>2 DEF QuietInv, RowRelies, ReliesOn, At, Reason, Seen, Observed, FenceKnown
<1> QED
  BY <1>5, <1>6, <1>7 DEF JobInv

\* The inductive invariant holds in every reachable state.
THEOREM JobInvariant == Spec => []JobInv
<1>1. Init => JobInv
  BY InitEstablishes
<1>2. JobInv /\ [Next]_vars => JobInv'
  BY NextPreserves, StutterPreserves
<1> QED
  BY <1>1, <1>2, PTL DEF Spec

\* Every variable keeps its domain, and a plan is staged exactly when the
\* publication is no longer pending.
THEOREM JobTypeCorrect == Spec => []TypeOK
<1>1. JobInv => TypeOK
  BY DEF JobInv
<1> QED
  BY <1>1, JobInvariant, PTL

\* Where Ray forgets nothing, or a single supervisor is at work, no workload
\* is at its work once the terminal result of the run is frozen.
THEOREM FrozenRunsAreOver == Spec => []FrozenAfterExecutionUnlessReplayed
<1>1. JobInv => FrozenAfterExecutionUnlessReplayed
  <2> SUFFICES ASSUME JobInv, Quiet, ~Pending, Executes PROVE FALSE
    BY DEF FrozenAfterExecutionUnlessReplayed, FrozenAfterExecution, Quiet
  <2>1. Over
    BY DEF JobInv, QuietInv, RowRelies, Executes
  <2> QED
    BY <2>1 DEF Executes, WorkloadRuns, Over, HasEnded, Lost, NeverStarts, NoJob, Fences
<1> QED
  BY <1>1, JobInvariant, PTL

\* Once a fence is known to hold the submission ID, the workload does not, as
\* long as Ray remembers the fence.
THEOREM FencesExclude == Spec => []FenceExcludesWorkload
<1>1. JobInv => FenceExcludesWorkload
  <2> SUFFICES ASSUME JobInv, losses = 0, job.submission \in FenceKnown PROVE ~WorkloadRuns
    BY DEF FenceExcludesWorkload, FenceKnown
  <2>1. FenceHolds
    BY DEF JobInv, QuietInv, Quiet, RowRelies
  <2> QED
    BY <2>1 DEF FenceHolds, Lost, WorkloadRuns, Fences
<1> QED
  BY <1>1, JobInvariant, PTL

\* A success is published with its result, and a cancellation never buries
\* the result of a run that completed.
THEOREM PlansAreTrue == Spec => []PlanIsTrue
<1>1. JobInv => PlanIsTrue
  BY DEF JobInv, EvidenceInv, QuietInv, Quiet, RowRelies, PlanIsTrue
<1> QED
  BY <1>1, JobInvariant, PTL

\* The catalog shows the run's output exactly when its frozen plan says so,
\* and before the run's success is public.
THEOREM CatalogIsThePlans == Spec => []CatalogFollowsPlan
<1>1. JobInv => CatalogFollowsPlan
  BY DEF JobInv
<1> QED
  BY <1>1, JobInvariant, PTL

\* Once the terminal result is frozen, neither a second publisher, a late
\* observation nor a request to stop changes it, or submits the run again.
THEOREM FrozenPlansStay == Spec => PlanIsFrozen
<1>1. JobInv /\ [Next]_vars
         => [~Pending => /\ job'.plan = job.plan
                         /\ job'.publication # "pending"
                         /\ job'.submission = job.submission]_vars
  <2> SUFFICES ASSUME JobInv, Next, ~Pending
               PROVE  /\ job'.plan = job.plan
                      /\ job'.publication # "pending"
                      /\ job'.submission = job.submission
    OBVIOUS
  <2>0. job \in JobRows /\ job.publication # "pending"
    BY TypeParts DEF JobInv, Pending
  <2>1. CASE RequestCancel \/ RemoteWrites \/ RemoteEnds \/ RemoteForgets
    BY <2>0, <2>1 DEF RequestCancel, RemoteWrites, RemoteEnds, RemoteForgets
  <2>2. ASSUME NEW s \in Supervisors, NEW kind \in {"workload"} \cup Fences, Deliver(s, kind)
        PROVE  job' = job
    BY <2>2 DEF Deliver
  <2>3. ASSUME NEW s \in Supervisors,
               \/ Start(s) \/ RequestQuarantine(s) \/ Interrupt(s) \/ Refresh(s) \/ Find(s)
               \/ Replay(s) \/ Reread(s) \/ Send(s) \/ Recheck(s) \/ Stop(s) \/ Refind(s) \/ Apply(s)
        PROVE  job' = job
    BY <2>3 DEF Start, RequestQuarantine, Interrupt, Refresh, Find, Replay, Reread, Send, Recheck,
       Stop, Refind, Apply
  <2>4. ASSUME NEW s \in Supervisors,
               \/ Note(s) \/ Claim(s) \/ ClaimFence(s) \/ Accept(s) \/ Persist(s) \/ Settle(s)
        PROVE  job' = job
    <3>1. ~CanNote /\ ~CanClaim /\ \A reason : ~CanFence(reason) /\ ~ProvesMissing(reason)
      BY DEF CanNote, CanClaim, CanFence, ProvesMissing
    <3>2. \A owner : ~CanAccept(owner)
      BY DEF CanAccept
    <3>3. CASE Note(s) \/ Claim(s) \/ ClaimFence(s)
      BY <3>1, <3>3 DEF Note, Claim, ClaimFence
    <3>4. CASE Accept(s) \/ Persist(s)
      BY <3>1, <3>2, <3>4 DEF Accept, AcceptAs, Persist
    <3>5. CASE Settle(s)
      BY <3>5 DEF Settle
    <3> QED
      BY <2>4, <3>3, <3>4, <3>5
  <2>5. ASSUME NEW s \in Supervisors, ClaimPublication(s) \/ Begin(s) \/ Finish(s)
        PROVE  \/ job' = job
               \/ job' = [job EXCEPT !.publicationOwner = s]
               \/ job' = [job EXCEPT !.publication = "published", !.publicationOwner = Nobody]
    BY <2>5 DEF ClaimPublication, Begin, Finish
  <2> QED
    BY <2>0, <2>1, <2>2, <2>3, <2>4, <2>5 DEF Next, SupervisorStep, JobRows
<1> QED
  BY <1>1, JobInvariant, PTL DEF Spec, PlanIsFrozen

\* An attempt that nobody had claimed when it was asked to stop is never
\* submitted: no supervisor is past its claim, and none can claim it.
THEOREM StoppedAttemptsStayQueued == Spec => StopPreventsSubmission
<1>1. JobInv /\ [Next]_vars
         => [job.intent # {} /\ job.submission = "queued" =>
               job'.submission = "queued" /\ inFlight' = {} /\ remote' = NoJob]_vars
  <2> SUFFICES ASSUME JobInv, Next, job.intent # {}, job.submission = "queued"
               PROVE  job'.submission = "queued" /\ inFlight' = {} /\ remote' = NoJob
    OBVIOUS
  <2>0. /\ job \in JobRows /\ inFlight = {} /\ remote = NoJob
        /\ remote.job = "none" /\ remote.status = "none"
        /\ \A s \in Supervisors : supervisor[s].pc \notin {"send", "await", "note"}
    BY TypeParts DEF JobInv, NobodySubmitted, NoJob
  <2>1. CASE RequestCancel \/ RemoteWrites \/ RemoteEnds \/ RemoteForgets
    BY <2>0, <2>1 DEF RequestCancel, RemoteWrites, RemoteEnds, RemoteForgets, Live, JobRows,
       rayVars
  <2>2. ASSUME NEW s \in Supervisors, NEW kind \in {"workload"} \cup Fences, Deliver(s, kind)
        PROVE  FALSE
    BY <2>0, <2>2 DEF Deliver
  <2>3. ASSUME NEW s \in Supervisors,
               \/ Start(s) \/ RequestQuarantine(s) \/ Interrupt(s) \/ Refresh(s) \/ Find(s)
               \/ Replay(s) \/ Reread(s) \/ Recheck(s) \/ Stop(s) \/ Refind(s) \/ Apply(s)
        PROVE  job'.submission = "queued" /\ inFlight' = {} /\ remote' = NoJob
    BY <2>0, <2>3 DEF Start, RequestQuarantine, Interrupt, Refresh, Find, Replay, Reread, Recheck,
       Stop, Refind, Apply, rayVars, JobRows
  <2>4. ASSUME NEW s \in Supervisors, Send(s) \/ Note(s)
        PROVE  FALSE
    BY <2>0, <2>4 DEF Send, Note, At
  <2>5. ASSUME NEW s \in Supervisors,
               Claim(s) \/ ClaimFence(s) \/ Accept(s) \/ Persist(s) \/ Settle(s)
        PROVE  job' = job /\ inFlight' = {} /\ remote' = NoJob
    <3>1. ~CanClaim /\ \A reason : ~CanFence(reason)
      BY DEF CanClaim, CanFence
    <3>2. \A owner : ~CanAccept(owner)
      BY DEF CanAccept
    <3>3. CASE Claim(s) \/ ClaimFence(s)
      BY <2>0, <3>1, <3>3 DEF Claim, ClaimFence, rayVars
    <3>4. CASE Accept(s) \/ Persist(s)
      BY <2>0, <3>2, <3>4 DEF Accept, AcceptAs, Persist, rayVars
    <3>5. CASE Settle(s)
      BY <2>0, <3>5 DEF Settle, rayVars
    <3> QED
      BY <2>5, <3>3, <3>4, <3>5
  <2>6. ASSUME NEW s \in Supervisors, ClaimPublication(s) \/ Begin(s) \/ Finish(s)
        PROVE  job'.submission = "queued" /\ inFlight' = {} /\ remote' = NoJob
    <3>1. /\ UNCHANGED rayVars
          /\ \/ job' = job
             \/ job' = [job EXCEPT !.publicationOwner = s]
             \/ \E plan \in Evidences :
                   job' = [job EXCEPT !.publication = "effects_started", !.plan = plan]
             \/ job' = [job EXCEPT !.publication = "published", !.publicationOwner = Nobody]
      <4>1. supervisor[s].evidence \in Evidences
        BY TypeParts DEF JobInv, SupervisorRows
      <4> QED
        BY <2>6, <4>1 DEF ClaimPublication, Begin, Finish, Evidences
    <3> QED
      BY <2>0, <3>1 DEF rayVars, JobRows
  <2> QED
    BY <2>1, <2>2, <2>3, <2>4, <2>5, <2>6 DEF Next, SupervisorStep
<1> QED
  BY <1>1, JobInvariant, PTL DEF Spec, StopPreventsSubmission

=============================================================================
