------------------------- MODULE ExternalWait_proofs -------------------------
(***************************************************************************)
(* Theorems about ExternalWait, for any number of workers, polls, attempts *)
(* and faults.                                                             *)
(*                                                                         *)
(* A late worker is harmless because it is either of an earlier attempt,   *)
(* whose number is in everything it does, or not the owner (OwnerIsCurrent,*)
(* NothingAhead).  What an answer says of the job was true when it was     *)
(* given and stays true (VerdictsHold), and the phase tells how far the    *)
(* latest attempt can have got, late workers included (PhaseBounds).       *)
(***************************************************************************)
EXTENDS ExternalWait, TLAPS

OwnerIsCurrent ==
    \A w \in Workers : wait.owner = w /\ ~At(w, "idle") =>
        /\ worker[w].attempt = task.attempt
        /\ worker[w].pc \in {"call", "commit"} =>
              wait.phase \in {"submitting", "accepted", "running"} /\ wait.polls < MaxPolls

\* A worker that talks to the provider holds no lock.
LockIsAVisits ==
    \A w \in Workers : lock = w => worker[w].pc \notin {"call", "commit"}

NothingAhead ==
    /\ \A w \in Workers : worker[w].attempt <= task.attempt
    /\ \A a \in Attempts : a > task.attempt => jobs[a] = "none"
    /\ landed <= task.attempt

VerdictsHold ==
    \A w \in Workers :
        /\ worker[w].pc = "commit" =>
              LET j == jobs[worker[w].attempt]
                  v == worker[w].verdict
              IN  /\ v \in {"transient", "handle", "running", "succeeded", "failed", "cancelled"}
                  /\ v = "handle" => j # "none"
                  /\ v \in {"succeeded", "cancelled"} => j = v
        /\ worker[w].pc = "write" => worker[w].action = "publish"
        /\ worker[w].pc \in {"clean", "end"} /\ worker[w].verdict = "finish" => landed # 0

\* The phases in which nothing of the attempt can have been published.
CancelledPhases == {"cancelled_before_submit", "provider_cancelled", "cancelled_after_success"}
EndPhases == {"published", "provider_failed", "finalization_failed"} \cup CancelledPhases
Unpublished == {"unsubmitted", "submitting", "accepted", "running", "provider_succeeded",
                "downloading", "downloaded"} \cup CancelledPhases
Succeeded == {"provider_succeeded", "downloading", "downloaded", "cancelled_after_success"}

PhaseBounds ==
    /\ wait.phase \in {"unsubmitted", "cancelled_before_submit"} =>
          /\ jobs[task.attempt] = "none"
          /\ \A w \in Workers : ~At(w, "idle") => worker[w].attempt # task.attempt
    /\ wait.phase \in Succeeded => jobs[task.attempt] = "succeeded"
    /\ wait.phase = "provider_cancelled" => jobs[task.attempt] = "cancelled"
    /\ wait.phase \in Unpublished =>
          /\ landed # task.attempt
          /\ \A w \in Workers :
                worker[w].attempt = task.attempt => worker[w].action # "publish"
    /\ task.status = "cancelled" => wait.phase \in CancelledPhases
    /\ ~Terminal => wait.phase \notin EndPhases

\* The inductive invariant.
WaitInv ==
    /\ TypeOK
    /\ OwnerIsCurrent /\ LockIsAVisits /\ NothingAhead /\ VerdictsHold /\ PhaseBounds
    /\ HandleIsTheAttempts /\ DoneHasLanded


\* The domains that TypeOK gives the records.
Statuses == TerminalStatus \cup {"queued", "running"}
TaskRows == [status : Statuses, cancel : BOOLEAN, attempt : Attempts]
WaitRows == [phase : Phases, handle : 0 .. MaxAttempts, polls : 0 .. MaxPolls,
             owner : Workers \cup {Nobody}, pinned : BOOLEAN, overdue : BOOLEAN]
Stages == [dir : {"absent", "fresh", "pinned"}, file : BOOLEAN]
Steps == {"idle", "call", "commit", "lock", "pin", "download", "evidence", "write", "clean", "end"}
Verdicts == {"none", "transient", "invalid", "handle", "running", "succeeded", "failed",
             "cancelled", "cancel", "finish"}
WorkerRows == [pc : Steps, action : {"none", "download", "publish", "cancel_after_success"},
               attempt : Attempts, handle : 0 .. MaxAttempts, cancel : BOOLEAN,
               pinned : BOOLEAN, verdict : Verdicts]

LEMMA TypeParts ==
    TypeOK <=> /\ task \in TaskRows /\ wait \in WaitRows /\ listed \in BOOLEAN
               /\ jobs \in [Attempts -> {"none", "running", "succeeded", "cancelled"}]
               /\ stage \in Stages /\ lock \in Workers \cup {Nobody}
               /\ worker \in [Workers -> WorkerRows]
               /\ landed \in 0 .. MaxAttempts /\ faults \in 0 .. MaxFaults
               /\ Terminal => wait.owner = Nobody
               /\ lock # Nobody => ~At(lock, "idle")
BY DEF TypeOK, TaskRows, Statuses, WaitRows, Stages, WorkerRows, Steps, Verdicts

LEMMA TypesNext ==
    ASSUME task' \in TaskRows, wait' \in WaitRows, listed' \in BOOLEAN,
           jobs' \in [Attempts -> {"none", "running", "succeeded", "cancelled"}],
           stage' \in Stages, lock' \in Workers \cup {Nobody},
           worker' \in [Workers -> WorkerRows],
           landed' \in 0 .. MaxAttempts, faults' \in 0 .. MaxFaults,
           task'.status \in TerminalStatus => wait'.owner = Nobody,
           lock' # Nobody => worker'[lock'].pc # "idle"
    PROVE  TypeOK'
BY DEF TypeOK, TaskRows, Statuses, WaitRows, Stages, WorkerRows, Steps, Verdicts, Terminal, At

LEMMA GoesSets ==
    ASSUME TypeOK, NEW w \in Workers, NEW pc \in Steps, NEW v \in Verdicts, Goes(w, pc, v)
    PROVE  /\ worker' \in [Workers -> WorkerRows]
           /\ \A u \in Workers \ {w} : worker'[u] = worker[u]
           /\ worker'[w].pc = pc /\ worker'[w].verdict = v
           /\ worker'[w].attempt = worker[w].attempt
           /\ worker'[w].action = worker[w].action
<1>1. worker \in [Workers -> WorkerRows]
  BY TypeParts
<1> DEFINE new == [worker[w] EXCEPT !.pc = pc, !.verdict = v]
<1>2. /\ new \in WorkerRows
      /\ new.pc = pc /\ new.verdict = v
      /\ new.attempt = worker[w].attempt /\ new.action = worker[w].action
  BY <1>1 DEF WorkerRows
<1>3. worker' = [worker EXCEPT ![w] = new]
  BY <1>1 DEF Goes
<1> HIDE DEF new
<1> QED
  BY <1>1, <1>2, <1>3

LEMMA RestsSets ==
    ASSUME TypeOK, NEW w \in Workers, Rests(w)
    PROVE  /\ worker' \in [Workers -> WorkerRows]
           /\ \A u \in Workers \ {w} : worker'[u] = worker[u]
           /\ worker'[w] = AtRest
<1>1. worker \in [Workers -> WorkerRows]
  BY TypeParts
<1>2. AtRest \in WorkerRows
  BY BoundAssumption DEF AtRest, WorkerRows, Steps, Verdicts, Attempts
<1> QED
  BY <1>1, <1>2 DEF Rests

LEMMA SettlesSets ==
    ASSUME TypeOK, NEW s \in TerminalStatus, NEW p \in Phases,
           Settles(s, p) \/ SettlesUnstaged(s, p)
    PROVE  /\ task' \in TaskRows /\ wait' \in WaitRows
           /\ task'.status = s /\ task'.attempt = task.attempt /\ task'.cancel = task.cancel
           /\ wait'.phase = p /\ wait'.owner = Nobody /\ wait'.handle = wait.handle
<1>1. task \in TaskRows /\ wait \in WaitRows
  BY TypeParts
<1>2. task' = [task EXCEPT !.status = s]
  BY DEF Settles, SettlesUnstaged
<1>3. \/ wait' = [wait EXCEPT !.phase = p, !.owner = Nobody]
      \/ wait' = [wait EXCEPT !.phase = p, !.owner = Nobody, !.pinned = FALSE]
  BY DEF Settles, SettlesUnstaged
<1>4. /\ task' \in TaskRows
      /\ task'.status = s /\ task'.attempt = task.attempt /\ task'.cancel = task.cancel
  BY <1>1, <1>2 DEF TaskRows, Statuses
<1>5. /\ wait' \in WaitRows
      /\ wait'.phase = p /\ wait'.owner = Nobody /\ wait'.handle = wait.handle
  BY <1>1, <1>3 DEF WaitRows
<1> QED
  BY <1>4, <1>5

\* What the invariant sees of a step that adds nothing to what is known of
\* the job or the publication: how a worker, and how the rows may move.
WorkersMove ==
    \A u \in Workers :
      /\ lock' = u => lock = u \/ worker'[u].pc \notin {"call", "commit"}
      /\ \/ worker'[u] = worker[u]
         \/ worker'[u] = AtRest
         \/ /\ ~At(u, "idle")
            /\ worker'[u].attempt = worker[u].attempt
            /\ worker'[u].action = worker[u].action
            /\ worker'[u].pc \notin {"idle", "call", "commit"}
            /\ worker'[u].pc = "write" => worker[u].action = "publish"
            /\ worker'[u].pc \in {"clean", "end"} /\ worker'[u].verdict = "finish" => landed # 0

RowsMove ==
    /\ task'.attempt = task.attempt
    /\ \/ wait'.handle = wait.handle
       \/ wait'.handle = task.attempt /\ jobs[task.attempt] # "none"
    /\ \/ wait'.owner = Nobody
       \/ wait'.owner = wait.owner /\ wait'.polls = wait.polls
    /\ \/ wait'.phase = wait.phase /\ task'.status = task.status
       \/ /\ wait'.owner = Nobody
          /\ \/ /\ wait.phase \in {"submitting", "accepted", "running"}
                /\ wait'.phase \in {"accepted", "running"} /\ task'.status = task.status
             \/ /\ wait.phase \in {"submitting", "accepted", "running"}
                /\ wait'.phase = "provider_succeeded" /\ jobs[task.attempt] = "succeeded"
                /\ task'.status = task.status
             \/ /\ wait.phase = "downloading" /\ wait'.phase = "downloaded"
                /\ task'.status = task.status
             \/ /\ wait'.phase \in {"provider_failed", "finalization_failed"}
                /\ task'.status = "failed"
             \/ wait'.phase = "published" /\ task'.status = "done" /\ landed # 0
             \/ /\ wait.phase = "unsubmitted" /\ wait'.phase = "cancelled_before_submit"
                /\ task'.status = "cancelled"
             \/ /\ wait.phase \in Unpublished /\ jobs[task.attempt] = "cancelled"
                /\ wait'.phase = "provider_cancelled" /\ task'.status = "cancelled"
             \/ /\ wait.phase \in Unpublished /\ wait.phase \in Succeeded
                /\ wait'.phase = "cancelled_after_success" /\ task'.status = "cancelled"

LEMMA MovesPreserve ==
    ASSUME WaitInv, WorkersMove, RowsMove, UNCHANGED <<jobs, landed>>,
           TypeOK'
    PROVE  WaitInv'
<1> USE DEF WaitInv
<1>1. OwnerIsCurrent'
  BY NobodyAssumption DEF OwnerIsCurrent, WorkersMove, RowsMove, At, AtRest
<1>7. LockIsAVisits'
  BY DEF LockIsAVisits, WorkersMove, AtRest
<1>2. NothingAhead'
  <2>1. task.attempt \in Nat /\ 1 <= task.attempt
    BY BoundAssumption DEF TypeOK, Attempts
  <2>2. \A u \in Workers : worker'[u].attempt \in {worker[u].attempt, 1}
    BY DEF WorkersMove, AtRest
  <2> QED
    BY <2>1, <2>2 DEF NothingAhead, RowsMove
<1>3. VerdictsHold'
  BY DEF VerdictsHold, WorkersMove, AtRest
<1>4. PhaseBounds'
  <2>1. \A u \in Workers :
           /\ worker'[u].pc # "idle" => /\ worker[u].pc # "idle"
                                        /\ worker'[u].attempt = worker[u].attempt
           /\ worker'[u].action = "publish" => /\ worker[u].action = "publish"
                                               /\ worker'[u].attempt = worker[u].attempt
    BY DEF WorkersMove, AtRest, At
  <2> QED
    BY <2>1 DEF PhaseBounds, RowsMove, At, Succeeded, Unpublished, CancelledPhases,
                EndPhases, Terminal, TerminalStatus
<1>5. HandleIsTheAttempts'
  BY DEF HandleIsTheAttempts, RowsMove
<1>6. DoneHasLanded'
  BY DEF DoneHasLanded, RowsMove
<1> QED
  BY <1>1, <1>2, <1>3, <1>4, <1>5, <1>6, <1>7

LEMMA RequestCancelPreserves ==
    ASSUME WaitInv, RequestCancel
    PROVE  WaitInv'
<1> USE NobodyAssumption, BoundAssumption DEF WaitInv
<1>1. TypeOK'
  BY TypeParts, TypesNext DEF RequestCancel, TaskRows, WaitRows, Terminal,
     TerminalStatus, Statuses, At
<1>2. WorkersMove
  BY DEF RequestCancel, WorkersMove
<1>3. RowsMove
  BY DEF RequestCancel, RowsMove, TypeOK
<1> QED
  BY <1>1, <1>2, <1>3, MovesPreserve DEF RequestCancel

LEMMA DeadlinePassesPreserves ==
    ASSUME WaitInv, DeadlinePasses
    PROVE  WaitInv'
<1> USE NobodyAssumption, BoundAssumption DEF WaitInv
<1>1. TypeOK'
  BY TypeParts, TypesNext DEF DeadlinePasses, TaskRows, WaitRows, Terminal,
     TerminalStatus, Statuses, At
<1>2. WorkersMove
  BY DEF DeadlinePasses, WorkersMove
<1>3. RowsMove
  BY DEF DeadlinePasses, RowsMove, TypeOK
<1> QED
  BY <1>1, <1>2, <1>3, MovesPreserve DEF DeadlinePasses

LEMMA LeaseLapsesPreserves ==
    ASSUME WaitInv, LeaseLapses
    PROVE  WaitInv'
<1> USE NobodyAssumption, BoundAssumption DEF WaitInv
<1>1. TypeOK'
  BY TypeParts, TypesNext DEF LeaseLapses, TaskRows, WaitRows, Terminal,
     TerminalStatus, Statuses, At
<1>2. WorkersMove
  BY DEF LeaseLapses, WorkersMove
<1>3. RowsMove
  BY DEF LeaseLapses, RowsMove, TypeOK
<1> QED
  BY <1>1, <1>2, <1>3, MovesPreserve DEF LeaseLapses

LEMMA ListOverduePreserves ==
    ASSUME WaitInv, ListOverdue
    PROVE  WaitInv'
<1> USE NobodyAssumption, BoundAssumption DEF WaitInv
<1>1. TypeOK'
  BY TypeParts, TypesNext DEF ListOverdue, TaskRows, WaitRows, Terminal,
     TerminalStatus, Statuses, At
<1>2. WorkersMove
  BY DEF ListOverdue, WorkersMove
<1>3. RowsMove
  BY DEF ListOverdue, RowsMove
<1> QED
  BY <1>1, <1>2, <1>3, MovesPreserve DEF ListOverdue

LEMMA ClaimCancelsPreserves ==
    ASSUME WaitInv, NEW w \in Workers, ClaimCancels(w)
    PROVE  WaitInv'
<1> USE NobodyAssumption, BoundAssumption DEF WaitInv
<1>0. /\ task' \in TaskRows /\ wait' \in WaitRows /\ wait'.owner = Nobody
      /\ task'.status = "cancelled" /\ task'.attempt = task.attempt
      /\ wait'.phase = "cancelled_before_submit" /\ wait'.handle = wait.handle
  BY SettlesSets DEF ClaimCancels, TerminalStatus, Phases
<1>1. TypeOK'
  BY <1>0, TypeParts, TypesNext DEF ClaimCancels, At
<1>2. WorkersMove
  BY DEF ClaimCancels, WorkersMove
<1>3. RowsMove
  BY <1>0 DEF ClaimCancels, RowsMove, NeverSubmitted
<1> QED
  BY <1>1, <1>2, <1>3, MovesPreserve DEF ClaimCancels

LEMMA ClaimFailsPreserves ==
    ASSUME WaitInv, NEW w \in Workers, ClaimFails(w)
    PROVE  WaitInv'
<1> USE NobodyAssumption, BoundAssumption DEF WaitInv
<1>0. /\ task' \in TaskRows /\ wait' \in WaitRows /\ wait'.owner = Nobody
      /\ task'.status = "failed" /\ task'.attempt = task.attempt
      /\ wait'.phase = "provider_failed" /\ wait'.handle = wait.handle
  BY SettlesSets DEF ClaimFails, TerminalStatus, Phases
<1>1. TypeOK'
  BY <1>0, TypeParts, TypesNext DEF ClaimFails, At
<1>2. WorkersMove
  BY DEF ClaimFails, WorkersMove
<1>3. RowsMove
  BY <1>0 DEF ClaimFails, RowsMove
<1> QED
  BY <1>1, <1>2, <1>3, MovesPreserve DEF ClaimFails

LEMMA ExpirePreserves ==
    ASSUME WaitInv, Expire
    PROVE  WaitInv'
<1> USE NobodyAssumption, BoundAssumption DEF WaitInv
<1>0. /\ task' \in TaskRows /\ wait' \in WaitRows
      /\ task'.attempt = task.attempt /\ wait'.handle = wait.handle
      /\ \/ UNCHANGED <<task, wait>>
         \/ /\ wait'.owner = Nobody /\ wait'.phase = "provider_failed"
            /\ task'.status = "failed"
  <2>1. CASE UNCHANGED <<task, wait>>
    BY <2>1, TypeParts
  <2>2. CASE Settles("failed", "provider_failed")
    BY <2>2, SettlesSets DEF TerminalStatus, Phases
  <2> QED
    BY <2>1, <2>2 DEF Expire
<1>1. TypeOK'
  BY <1>0, TypeParts, TypesNext DEF Expire, At, Terminal
<1>2. WorkersMove
  BY DEF Expire, WorkersMove
<1>3. RowsMove
  BY <1>0 DEF RowsMove
<1> QED
  BY <1>1, <1>2, <1>3, MovesPreserve DEF Expire

LEMMA FindsBusyPreserves ==
    ASSUME WaitInv, NEW w \in Workers, FindsBusy(w)
    PROVE  WaitInv'
<1> USE NobodyAssumption, BoundAssumption DEF WaitInv
<1>0. /\ worker' \in [Workers -> WorkerRows]
      /\ \A u \in Workers \ {w} : worker'[u] = worker[u]
      /\ worker'[w].pc \in {"end"} /\ worker'[w].verdict = "transient"
      /\ worker'[w].attempt = worker[w].attempt
      /\ worker'[w].action = worker[w].action
  BY GoesSets, RestsSets DEF FindsBusy, Steps, Verdicts
<1>1. TypeOK'
  BY <1>0, TypeParts, TypesNext DEF FindsBusy, At, AtRest, Terminal
<1>2. WorkersMove
  BY <1>0 DEF FindsBusy, WorkersMove, At
<1>3. RowsMove
  BY DEF FindsBusy, RowsMove
<1> QED
  BY <1>1, <1>2, <1>3, MovesPreserve DEF FindsBusy

LEMMA DiscardPreserves ==
    ASSUME WaitInv, NEW w \in Workers, Discard(w)
    PROVE  WaitInv'
<1> USE NobodyAssumption, BoundAssumption DEF WaitInv
<1>0. /\ worker' \in [Workers -> WorkerRows]
      /\ \A u \in Workers \ {w} : worker'[u] = worker[u]
      /\ worker'[w].pc \in {"clean"} /\ worker'[w].verdict = "cancel"
      /\ worker'[w].attempt = worker[w].attempt
      /\ worker'[w].action = worker[w].action
  BY GoesSets, RestsSets DEF Discard, Steps, Verdicts
<1>1. TypeOK'
  BY <1>0, TypeParts, TypesNext DEF Discard, At, AtRest, Terminal
<1>2. WorkersMove
  BY <1>0 DEF Discard, WorkersMove, At
<1>3. RowsMove
  BY DEF Discard, RowsMove
<1> QED
  BY <1>1, <1>2, <1>3, MovesPreserve DEF Discard

LEMMA OpenStagePreserves ==
    ASSUME WaitInv, NEW w \in Workers, OpenStage(w)
    PROVE  WaitInv'
<1> USE NobodyAssumption, BoundAssumption DEF WaitInv
<1>0. /\ worker' \in [Workers -> WorkerRows]
      /\ \A u \in Workers \ {w} : worker'[u] = worker[u]
      /\ worker'[w].pc \in {"write", "end"} /\ worker'[w].verdict # "finish"
      /\ worker'[w].attempt = worker[w].attempt
      /\ worker'[w].action = worker[w].action
  BY GoesSets, RestsSets DEF OpenStage, Steps, Verdicts
<1>1. TypeOK'
  BY <1>0, TypeParts, TypesNext DEF OpenStage, At, AtRest, Terminal
<1>2. WorkersMove
  BY <1>0 DEF OpenStage, WorkersMove, At, Claim
<1>3. RowsMove
  BY DEF OpenStage, RowsMove
<1> QED
  BY <1>1, <1>2, <1>3, MovesPreserve DEF OpenStage

LEMMA WriteFailsPreserves ==
    ASSUME WaitInv, NEW w \in Workers, WriteFails(w)
    PROVE  WaitInv'
<1> USE NobodyAssumption, BoundAssumption DEF WaitInv
<1>0. /\ worker' \in [Workers -> WorkerRows]
      /\ \A u \in Workers \ {w} : worker'[u] = worker[u]
      /\ worker'[w].pc \in {"end"} /\ worker'[w].verdict = "transient"
      /\ worker'[w].attempt = worker[w].attempt
      /\ worker'[w].action = worker[w].action
  BY GoesSets, RestsSets DEF WriteFails, Steps, Verdicts
<1>1. TypeOK'
  BY <1>0, TypeParts, TypesNext DEF WriteFails, At, AtRest, Terminal
<1>2. WorkersMove
  BY <1>0 DEF WriteFails, WorkersMove, At
<1>3. RowsMove
  BY DEF WriteFails, RowsMove
<1> QED
  BY <1>1, <1>2, <1>3, MovesPreserve DEF WriteFails

LEMMA PreparePreserves ==
    ASSUME WaitInv, NEW w \in Workers, Prepare(w)
    PROVE  WaitInv'
<1> USE NobodyAssumption, BoundAssumption DEF WaitInv
<1>0. /\ worker' \in [Workers -> WorkerRows]
      /\ \A u \in Workers \ {w} : worker'[u] = worker[u]
      /\ \/ worker'[w] = AtRest /\ lock' = lock
         \/ /\ worker'[w].pc = "pin" /\ lock' = w
            /\ worker'[w].attempt = worker[w].attempt
            /\ worker'[w].action = worker[w].action
  BY GoesSets, RestsSets DEF Prepare, Steps, Verdicts, Unlocks
<1>1. TypeOK'
  <2>1. stage' \in {stage, PreparedDir(w)}
    BY DEF Prepare
  <2>2. PreparedDir(w) \in Stages
    BY TypeParts DEF PreparedDir, Stages
  <2> QED
    BY <1>0, <2>1, <2>2, TypeParts, TypesNext DEF Prepare, At, AtRest, Terminal
<1>2. WorkersMove
  BY <1>0 DEF Prepare, WorkersMove, At
<1>3. RowsMove
  BY DEF Prepare, RowsMove
<1> QED
  BY <1>1, <1>2, <1>3, MovesPreserve DEF Prepare

LEMMA PinPreserves ==
    ASSUME WaitInv, NEW w \in Workers, Pin(w)
    PROVE  WaitInv'
<1> USE NobodyAssumption, BoundAssumption DEF WaitInv
<1>0. /\ worker' \in [Workers -> WorkerRows]
      /\ \A u \in Workers \ {w} : worker'[u] = worker[u]
      /\ \/ worker'[w].pc = "download"
         \/ worker'[w].pc = "end" /\ worker'[w].verdict = "transient"
      /\ worker'[w].attempt = worker[w].attempt
      /\ worker'[w].action = worker[w].action
  <2>1. CASE Goes(w, "end", "transient")
    BY <2>1, GoesSets DEF Steps, Verdicts
  <2>2. CASE worker' = [worker EXCEPT ![w].pc = "download", ![w].pinned = TRUE]
    <3> DEFINE new == [worker[w] EXCEPT !.pc = "download", !.pinned = TRUE]
    <3>1. worker \in [Workers -> WorkerRows]
      BY TypeParts
    <3>2. /\ new \in WorkerRows /\ new.pc = "download"
          /\ new.attempt = worker[w].attempt /\ new.action = worker[w].action
      BY <3>1 DEF WorkerRows, Steps
    <3>3. worker' = [worker EXCEPT ![w] = new]
      BY <2>2, <3>1
    <3> HIDE DEF new
    <3> QED
      BY <3>1, <3>2, <3>3
  <2> QED
    BY <2>1, <2>2 DEF Pin
<1>4. /\ wait' \in WaitRows /\ stage' \in Stages
      /\ wait'.phase = wait.phase /\ wait'.owner = wait.owner /\ wait'.handle = wait.handle
      /\ wait'.polls = wait.polls
  <2>1. CASE UNCHANGED <<wait, stage>>
    BY <2>1, TypeParts
  <2>2. CASE /\ wait' = [wait EXCEPT !.pinned = TRUE]
             /\ stage' = [stage EXCEPT !.dir = "pinned"]
    BY <2>2, TypeParts DEF WaitRows, Stages
  <2> QED
    BY <2>1, <2>2 DEF Pin
<1>1. TypeOK'
  BY <1>0, <1>4, TypeParts, TypesNext DEF Pin, At, Terminal
<1>2. WorkersMove
  BY <1>0 DEF Pin, WorkersMove, At
<1>3. RowsMove
  BY <1>4 DEF Pin, RowsMove
<1> QED
  BY <1>1, <1>2, <1>3, MovesPreserve DEF Pin

LEMMA DownloadPreserves ==
    ASSUME WaitInv, NEW w \in Workers, Download(w)
    PROVE  WaitInv'
<1> USE NobodyAssumption, BoundAssumption DEF WaitInv
<1>0. /\ worker' \in [Workers -> WorkerRows]
      /\ \A u \in Workers \ {w} : worker'[u] = worker[u]
      /\ worker'[w].pc \in {"evidence", "clean", "end"} /\ worker'[w].verdict # "finish"
      /\ worker'[w].attempt = worker[w].attempt
      /\ worker'[w].action = worker[w].action
  BY GoesSets DEF Download, Steps, Verdicts
<1>1. TypeOK'
  <2>1. stage' \in Stages
    BY TypeParts DEF Download, Stages
  <2>2. faults' \in 0 .. MaxFaults
    BY TypeParts DEF Download
  <2> QED
    BY <1>0, <2>1, <2>2, TypeParts, TypesNext DEF Download, At, Terminal
<1>2. WorkersMove
  BY <1>0 DEF Download, WorkersMove, At
<1>3. RowsMove
  BY DEF Download, RowsMove
<1> QED
  BY <1>1, <1>2, <1>3, MovesPreserve DEF Download

LEMMA CommitDownloadPreserves ==
    ASSUME WaitInv, NEW w \in Workers, CommitDownload(w)
    PROVE  WaitInv'
<1> USE NobodyAssumption, BoundAssumption DEF WaitInv
<1>0. /\ worker' \in [Workers -> WorkerRows]
      /\ \A u \in Workers \ {w} : worker'[u] = worker[u]
      /\ \/ worker'[w] = AtRest /\ lock' = IF lock = w THEN Nobody ELSE lock
         \/ /\ worker'[w].pc = "clean" /\ worker'[w].verdict = "cancel" /\ lock' = lock
            /\ worker'[w].attempt = worker[w].attempt
            /\ worker'[w].action = worker[w].action
  BY GoesSets, RestsSets DEF CommitDownload, Steps, Verdicts, Unlocks
<1>4. /\ wait' \in WaitRows /\ wait'.handle = wait.handle
      /\ \/ wait' = wait
         \/ wait.phase = "downloading" /\ wait'.phase = "downloaded" /\ wait'.owner = Nobody
  <2>1. wait' = wait \/ /\ wait.phase = "downloading"
                        /\ wait' = [wait EXCEPT !.phase = "downloaded", !.owner = Nobody]
    BY DEF CommitDownload
  <2>2. wait \in WaitRows
    BY TypeParts
  <2> QED
    BY <2>1, <2>2 DEF WaitRows, Phases
<1>1. TypeOK'
  BY <1>0, <1>4, TypeParts, TypesNext DEF CommitDownload, At, AtRest, Terminal
<1>2. WorkersMove
  BY <1>0 DEF CommitDownload, WorkersMove, At
<1>3. RowsMove
  BY <1>4 DEF CommitDownload, RowsMove
<1> QED
  BY <1>1, <1>2, <1>3, MovesPreserve DEF CommitDownload

LEMMA CleanPreserves ==
    ASSUME WaitInv, NEW w \in Workers, Clean(w)
    PROVE  WaitInv'
<1> USE NobodyAssumption, BoundAssumption DEF WaitInv
<1>0. /\ worker' \in [Workers -> WorkerRows]
      /\ \A u \in Workers \ {w} : worker'[u] = worker[u]
      /\ \/ worker'[w] = AtRest /\ lock' = IF lock = w THEN Nobody ELSE lock
         \/ /\ worker'[w].pc = "end" /\ worker'[w].verdict = worker[w].verdict /\ lock' = lock
            /\ worker'[w].attempt = worker[w].attempt
            /\ worker'[w].action = worker[w].action
  <2>1. worker[w].verdict \in Verdicts
    BY TypeParts DEF WorkerRows
  <2> QED
    BY <2>1, GoesSets, RestsSets DEF Clean, Steps, Unlocks, Claim
<1>1. TypeOK'
  <2>1. stage' \in Stages
    BY TypeParts DEF Clean, Stages
  <2> QED
    BY <1>0, <2>1, TypeParts, TypesNext DEF Clean, At, AtRest, Terminal
<1>2. WorkersMove
  BY <1>0 DEF Clean, WorkersMove, At, VerdictsHold
<1>3. RowsMove
  BY DEF Clean, RowsMove
<1> QED
  BY <1>1, <1>2, <1>3, MovesPreserve DEF Clean

LEMMA CrashPreserves ==
    ASSUME WaitInv, NEW w \in Workers, Crash(w)
    PROVE  WaitInv'
<1> USE NobodyAssumption, BoundAssumption DEF WaitInv
<1>0. /\ worker' \in [Workers -> WorkerRows]
      /\ \A u \in Workers \ {w} : worker'[u] = worker[u]
      /\ worker'[w] = AtRest /\ lock' = IF lock = w THEN Nobody ELSE lock
  BY RestsSets DEF Crash, Unlocks
<1>1. TypeOK'
  BY <1>0, TypeParts, TypesNext DEF Crash, At, AtRest, Terminal
<1>2. WorkersMove
  BY <1>0 DEF WorkersMove
<1>3. RowsMove
  BY DEF Crash, RowsMove
<1> QED
  BY <1>1, <1>2, <1>3, MovesPreserve DEF Crash

LEMMA EndCancelsPreserves ==
    ASSUME WaitInv, NEW w \in Workers, EndCancels(w)
    PROVE  WaitInv'
<1> USE NobodyAssumption, BoundAssumption DEF WaitInv
<1>0. /\ worker' \in [Workers -> WorkerRows]
      /\ \A u \in Workers \ {w} : worker'[u] = worker[u]
      /\ worker'[w] = AtRest /\ lock' = IF lock = w THEN Nobody ELSE lock
  BY RestsSets DEF EndCancels, Unlocks
<1>4. /\ task' \in TaskRows /\ wait' \in WaitRows /\ stage' \in Stages
      /\ task'.attempt = task.attempt /\ wait'.handle = wait.handle
      /\ \/ /\ task' = task /\ wait'.phase = wait.phase
            /\ wait'.owner = Nobody \/ wait' = wait
         \/ /\ task'.status = "cancelled" /\ wait'.phase = "cancelled_after_success"
            /\ wait'.owner = Nobody
            /\ wait.owner = w /\ wait.phase \in {"provider_succeeded", "downloading", "downloaded"}
  <2>1. CASE task' = task /\ wait' \in {wait, [wait EXCEPT !.owner = Nobody]} /\ stage' = stage
    BY <2>1, TypeParts DEF WaitRows
  <2>2. CASE /\ SettlesUnstaged("cancelled", "cancelled_after_success") /\ stage' = StageRemoved
             /\ wait.owner = w /\ wait.phase \in {"provider_succeeded", "downloading", "downloaded"}
    <3>1. stage' \in Stages
      BY <2>2, TypeParts DEF StageRemoved, Stages
    <3> QED
      BY <2>2, <3>1, SettlesSets DEF TerminalStatus, Phases
  <2> QED
    BY <2>1, <2>2 DEF EndCancels, Owns, Cancellable, Claim
<1>1. TypeOK'
  BY <1>0, <1>4, TypeParts, TypesNext DEF EndCancels, At, AtRest, Terminal
<1>2. WorkersMove
  BY <1>0 DEF WorkersMove
<1>3. RowsMove
  BY <1>4 DEF EndCancels, RowsMove, At, VerdictsHold, Unpublished, Succeeded
<1> QED
  BY <1>1, <1>2, <1>3, MovesPreserve DEF EndCancels

LEMMA EndFinishesPreserves ==
    ASSUME WaitInv, NEW w \in Workers, EndFinishes(w)
    PROVE  WaitInv'
<1> USE NobodyAssumption, BoundAssumption DEF WaitInv
<1>0. /\ worker' \in [Workers -> WorkerRows]
      /\ \A u \in Workers \ {w} : worker'[u] = worker[u]
      /\ worker'[w] = AtRest /\ lock' = IF lock = w THEN Nobody ELSE lock
  BY RestsSets DEF EndFinishes, Unlocks
<1>4. /\ task' \in TaskRows /\ wait' \in WaitRows /\ stage' \in Stages
      /\ task'.attempt = task.attempt /\ wait'.handle = wait.handle
      /\ \/ /\ task' = task /\ wait'.phase = wait.phase
            /\ wait'.owner = Nobody \/ wait' = wait
         \/ /\ task'.status = "done" /\ wait'.phase = "published"
            /\ wait'.owner = Nobody
            /\ wait.owner = w /\ At(w, "end") /\ worker[w].verdict = "finish"
  <2>1. CASE task' = task /\ wait' \in {wait, [wait EXCEPT !.owner = Nobody]} /\ stage' = stage
    BY <2>1, TypeParts DEF WaitRows
  <2>2. CASE /\ SettlesUnstaged("done", "published") /\ stage' = StageRemoved
             /\ wait.owner = w /\ At(w, "end") /\ worker[w].verdict = "finish"
    <3>1. stage' \in Stages
      BY <2>2, TypeParts DEF StageRemoved, Stages
    <3> QED
      BY <2>2, <3>1, SettlesSets DEF TerminalStatus, Phases
  <2> QED
    BY <2>1, <2>2 DEF EndFinishes, Owns, Cancellable, Claim
<1>1. TypeOK'
  BY <1>0, <1>4, TypeParts, TypesNext DEF EndFinishes, At, AtRest, Terminal
<1>2. WorkersMove
  BY <1>0 DEF WorkersMove
<1>3. RowsMove
  BY <1>4 DEF EndFinishes, RowsMove, At, VerdictsHold, Unpublished, Succeeded
<1> QED
  BY <1>1, <1>2, <1>3, MovesPreserve DEF EndFinishes

LEMMA EndFailsPreserves ==
    ASSUME WaitInv, NEW w \in Workers, EndFails(w)
    PROVE  WaitInv'
<1> USE NobodyAssumption, BoundAssumption DEF WaitInv
<1>0. /\ worker' \in [Workers -> WorkerRows]
      /\ \A u \in Workers \ {w} : worker'[u] = worker[u]
      /\ worker'[w] = AtRest /\ lock' = IF lock = w THEN Nobody ELSE lock
  BY RestsSets DEF EndFails, Unlocks
<1>4. /\ task' \in TaskRows /\ wait' \in WaitRows /\ stage' \in Stages
      /\ task'.attempt = task.attempt /\ wait'.handle = wait.handle
      /\ \/ /\ task' = task /\ wait'.phase = wait.phase
            /\ wait'.owner = Nobody \/ wait' = wait
         \/ /\ task'.status = "failed" /\ wait'.phase = "finalization_failed"
            /\ wait'.owner = Nobody
            /\ wait.owner = w /\ At(w, "end")
  <2>1. CASE task' = task /\ wait' \in {wait, [wait EXCEPT !.owner = Nobody]} /\ stage' = stage
    BY <2>1, TypeParts DEF WaitRows
  <2>2. CASE /\ SettlesUnstaged("failed", "finalization_failed") /\ stage' = StageRemoved
             /\ wait.owner = w /\ At(w, "end")
    <3>1. stage' \in Stages
      BY <2>2, TypeParts DEF StageRemoved, Stages
    <3> QED
      BY <2>2, <3>1, SettlesSets DEF TerminalStatus, Phases
  <2> QED
    BY <2>1, <2>2 DEF EndFails, Owns, Cancellable, Claim
<1>1. TypeOK'
  BY <1>0, <1>4, TypeParts, TypesNext DEF EndFails, At, AtRest, Terminal
<1>2. WorkersMove
  BY <1>0 DEF WorkersMove
<1>3. RowsMove
  BY <1>4 DEF EndFails, RowsMove, At, VerdictsHold, Unpublished, Succeeded
<1> QED
  BY <1>1, <1>2, <1>3, MovesPreserve DEF EndFails

\* What a failed call leaves of the rows.
LEMMA CommitsFailureSets ==
    ASSUME TypeOK, CommitsFailure
    PROVE  /\ task' \in TaskRows /\ wait' \in WaitRows
           /\ task'.attempt = task.attempt /\ wait'.handle = wait.handle
           /\ wait'.owner = Nobody
           /\ \/ task' = task /\ wait'.phase = wait.phase
              \/ task'.status = "failed" /\ wait'.phase = "provider_failed"
<1>1. CASE Polls >= MaxPolls
  BY <1>1, SettlesSets DEF CommitsFailure, TerminalStatus, Phases
<1>2. CASE ~(Polls >= MaxPolls)
  <2>1. Polls \in 0 .. MaxPolls
    BY <1>2, BoundAssumption, TypeParts DEF Polls, WaitRows
  <2>2. task' = task /\ wait' = [wait EXCEPT !.owner = Nobody, !.polls = Polls]
    BY <1>2 DEF CommitsFailure
  <2> QED
    BY <2>1, <2>2, TypeParts DEF WaitRows
<1> QED
  BY <1>1, <1>2

LEMMA TimerFiresPreserves ==
    ASSUME WaitInv, NEW w \in Workers, TimerFires(w)
    PROVE  WaitInv'
<1> USE NobodyAssumption, BoundAssumption DEF WaitInv
<1>1. TypeOK'
  BY CommitsFailureSets, TypeParts, TypesNext DEF TimerFires, At, Terminal, Owns
<1>2. WorkersMove
  BY DEF TimerFires, WorkersMove
<1>3. RowsMove
  BY CommitsFailureSets DEF TimerFires, RowsMove
<1> QED
  BY <1>1, <1>2, <1>3, MovesPreserve DEF TimerFires

LEMMA CommitPreserves ==
    ASSUME WaitInv, NEW w \in Workers, Commit(w)
    PROVE  WaitInv'
<1> USE NobodyAssumption, BoundAssumption DEF WaitInv
<1>0. /\ worker' \in [Workers -> WorkerRows]
      /\ \A u \in Workers \ {w} : worker'[u] = worker[u]
      /\ worker'[w] = AtRest
  BY RestsSets DEF Commit
<1>4. task' \in TaskRows /\ wait' \in WaitRows /\ RowsMove
  <2>1. CASE UNCHANGED <<task, wait>>
    BY <2>1, TypeParts DEF RowsMove
  <2>2. CASE Owns(w) /\ Records(w, worker[w].verdict)
    <3>1. /\ worker[w].pc = "commit" /\ wait.owner = w
          /\ worker[w].attempt = task.attempt
          /\ wait.phase \in {"submitting", "accepted", "running"}
      BY <2>2 DEF Commit, At, Owns, OwnerIsCurrent
    <3>2. CASE worker[w].verdict = "transient"
      <4>1. CommitsFailure
        BY <2>2, <3>2 DEF Records
      <4> QED
        BY <4>1, CommitsFailureSets DEF RowsMove
    <3>3. CASE worker[w].verdict = "handle"
      <4>1. /\ task' = task /\ jobs[task.attempt] # "none"
            /\ wait' \in {[wait EXCEPT !.handle = task.attempt, !.phase = "accepted",
                                       !.owner = Nobody],
                          [wait EXCEPT !.owner = Nobody]}
        BY <2>2, <3>1, <3>3 DEF Records, Claim, VerdictsHold
      <4>2. task.attempt \in 0 .. MaxAttempts
        BY TypeParts DEF TaskRows, Attempts
      <4> QED
        BY <3>1, <4>1, <4>2, TypeParts DEF WaitRows, Phases, RowsMove
    <3>4. CASE worker[w].verdict \in {"running", "succeeded"}
      <4>1. /\ task' = task
            /\ worker[w].verdict = "succeeded" => jobs[task.attempt] = "succeeded"
            /\ wait' = [wait EXCEPT
                  !.phase = IF worker[w].verdict = "running" THEN "running"
                                                             ELSE "provider_succeeded",
                  !.owner = Nobody, !.polls = Polls]
        BY <2>2, <3>1, <3>4 DEF Records, VerdictsHold
      <4>2. Polls \in 0 .. MaxPolls
        BY <2>2, <3>1, TypeParts, BoundAssumption DEF Owns, OwnerIsCurrent, At, Polls, WaitRows
      <4> QED
        BY <3>1, <3>4, <4>1, <4>2, TypeParts DEF WaitRows, Phases, RowsMove
    <3>5. CASE worker[w].verdict = "failed"
      <4>1. Settles("failed", "provider_failed")
        BY <2>2, <3>5 DEF Records
      <4> QED
        BY <4>1, SettlesSets DEF TerminalStatus, Phases, RowsMove
    <3>6. CASE worker[w].verdict = "cancelled"
      <4>1. Settles("cancelled", "provider_cancelled") /\ jobs[task.attempt] = "cancelled"
        BY <2>2, <3>1, <3>6 DEF Records, VerdictsHold
      <4> QED
        BY <3>1, <4>1, SettlesSets DEF TerminalStatus, Phases, RowsMove, Unpublished
    <3> QED
      BY <3>1, <3>2, <3>3, <3>4, <3>5, <3>6 DEF VerdictsHold
  <2> QED
    BY <2>1, <2>2 DEF Commit, CommitFence, Claim
<1>1. TypeOK'
  <2>1. task'.status \in TerminalStatus => wait'.owner = Nobody
    BY <1>4, TypeParts DEF RowsMove, Terminal
  <2> QED
    BY <1>0, <1>4, <2>1, TypeParts, TypesNext DEF Commit, At, LockIsAVisits
<1>2. WorkersMove
  BY <1>0 DEF Commit, WorkersMove
<1>3. RowsMove
  BY <1>4
<1> QED
  BY <1>1, <1>2, <1>3, MovesPreserve DEF Commit

LEMMA ProviderEndsPreserves ==
    ASSUME WaitInv, ProviderEnds
    PROVE  WaitInv'
<1> USE NobodyAssumption, BoundAssumption DEF WaitInv
<1> DEFINE a == task.attempt
<1>0. /\ a \in Attempts /\ jobs[a] = "running"
      /\ jobs' = [jobs EXCEPT ![a] = "succeeded"]
      /\ UNCHANGED <<task, wait, listed, stage, lock, worker, landed, faults>>
  BY TypeParts DEF ProviderEnds, TaskRows
<1>1. TypeOK'
  BY <1>0 DEF TypeOK, Terminal, At
<1>20. LockIsAVisits'
  BY <1>0 DEF LockIsAVisits, At, TypeOK
<1>2. OwnerIsCurrent'
  BY <1>0 DEF OwnerIsCurrent, At
<1>3. NothingAhead'
  BY <1>0 DEF NothingAhead, TypeOK, Attempts
<1>4. VerdictsHold'
  BY <1>0 DEF VerdictsHold, TypeOK
<1>5. PhaseBounds'
  BY <1>0 DEF PhaseBounds, TypeOK, At, EndPhases, CancelledPhases,
     Unpublished, Succeeded, Terminal, TerminalStatus
<1>6. HandleIsTheAttempts' /\ DoneHasLanded'
  BY <1>0 DEF HandleIsTheAttempts, DoneHasLanded, TypeOK
<1> QED
  BY <1>20, <1>1, <1>2, <1>3, <1>4, <1>5, <1>6

LEMMA RetryPreserves ==
    ASSUME WaitInv, Retry
    PROVE  WaitInv'
<1> USE NobodyAssumption, BoundAssumption DEF WaitInv
<1>0. /\ task' = [status |-> "queued", cancel |-> FALSE, attempt |-> task.attempt + 1]
      /\ task'.attempt = task.attempt + 1 /\ task'.status = "queued" /\ task'.attempt \in Attempts
      /\ wait' = NewWait /\ stage' = NoStage
      /\ UNCHANGED <<listed, jobs, lock, worker, landed, faults>>
  BY TypeParts DEF Retry, TaskRows, Attempts
<1>4. task' \in TaskRows /\ wait' \in WaitRows /\ stage' \in Stages
  BY <1>0 DEF TaskRows, Statuses, NewWait, WaitRows, Phases, NoStage, Stages
<1>1. TypeOK'
  BY <1>0, <1>4, TypeParts, TypesNext DEF At, TerminalStatus
<1>20. LockIsAVisits'
  BY <1>0 DEF LockIsAVisits, At, TypeOK
<1>2. OwnerIsCurrent'
  BY <1>0 DEF OwnerIsCurrent, NewWait
<1>3. NothingAhead'
  BY <1>0 DEF NothingAhead, TypeOK, Attempts
<1>5. VerdictsHold'
  BY <1>0 DEF VerdictsHold
<1>6. PhaseBounds'
  <2>1. jobs[task'.attempt] = "none" /\ landed # task'.attempt
    BY <1>0 DEF NothingAhead, TypeOK, Attempts
  <2>2. \A w \in Workers : worker[w].attempt # task'.attempt
    BY <1>0 DEF NothingAhead, TypeOK, Attempts
  <2> QED
    BY <1>0, <2>1, <2>2 DEF PhaseBounds, NewWait, At, EndPhases, CancelledPhases,
       Unpublished, Succeeded, Terminal, TerminalStatus
<1>7. HandleIsTheAttempts' /\ DoneHasLanded'
  BY <1>0 DEF HandleIsTheAttempts, DoneHasLanded, NewWait
<1> QED
  BY <1>20, <1>1, <1>2, <1>3, <1>5, <1>6, <1>7

LEMMA WritePreserves ==
    ASSUME WaitInv, NEW w \in Workers, Write(w)
    PROVE  WaitInv'
<1> USE NobodyAssumption, BoundAssumption DEF WaitInv
<1>0. /\ worker' \in [Workers -> WorkerRows]
      /\ \A u \in Workers \ {w} : worker'[u] = worker[u]
      /\ worker'[w].pc = "clean" /\ worker'[w].attempt = worker[w].attempt
      /\ worker'[w].action = worker[w].action
      /\ worker'[w].verdict = "finish" => landed' # 0
  <2>1. worker[w].attempt # 0
    BY TypeParts DEF WorkerRows, Attempts
  <2> QED
    BY <2>1, GoesSets DEF Write, Claim, Steps, Verdicts
<1>4. /\ worker[w].pc = "write" /\ worker[w].action = "publish"
      /\ landed' \in {landed, worker[w].attempt}
      /\ UNCHANGED <<task, wait, listed, jobs, stage, lock, faults>>
  BY DEF Write, At, Claim, VerdictsHold
<1>5. /\ worker[w].attempt \in Attempts /\ worker[w].attempt # 0
      /\ landed # 0 => landed' # 0
  BY <1>4, TypeParts DEF WorkerRows, Attempts
<1>1. TypeOK'
  BY <1>0, <1>4, <1>5, TypeParts, TypesNext DEF At, Terminal, Attempts
<1>20. LockIsAVisits'
  BY <1>0, <1>4 DEF LockIsAVisits, At, TypeOK
<1>2. OwnerIsCurrent'
  BY <1>0, <1>4 DEF OwnerIsCurrent, At
<1>3. NothingAhead'
  BY <1>0, <1>4 DEF NothingAhead
<1>6. VerdictsHold'
  BY <1>0, <1>4, <1>5 DEF VerdictsHold
<1>7. PhaseBounds'
  BY <1>0, <1>4 DEF PhaseBounds, At, EndPhases, CancelledPhases,
     Unpublished, Succeeded, Terminal, TerminalStatus
<1>8. HandleIsTheAttempts' /\ DoneHasLanded'
  BY <1>4, <1>5 DEF HandleIsTheAttempts, DoneHasLanded
<1> QED
  BY <1>20, <1>1, <1>2, <1>3, <1>6, <1>7, <1>8

LEMMA RepliesAreVerdicts ==
    ASSUME NEW w \in Workers, NEW job \in {"none", "running", "succeeded", "cancelled"}
    PROVE  Replies(w, job) \subseteq Verdicts
BY DEF Replies, Verdicts

LEMMA CallPreserves ==
    ASSUME WaitInv, NEW w \in Workers, Call(w)
    PROVE  WaitInv'
<1> USE NobodyAssumption, BoundAssumption DEF WaitInv
<1> DEFINE a == worker[w].attempt
<1>0. /\ a \in Attempts /\ worker[w].pc = "call"
      /\ jobs[a] \in {"none", "running", "succeeded", "cancelled"}
  BY TypeParts DEF Call, At, WorkerRows
<1>4. PICK job \in {"none", "running", "succeeded", "cancelled"} :
        /\ jobs' = [jobs EXCEPT ![a] = job]
        /\ \/ job = jobs[a]
           \/ jobs[a] = "none" /\ job = "running"
           \/ jobs[a] = "running" /\ job = "cancelled"
        /\ \E reply \in Replies(w, job) : Goes(w, "commit", reply)
  BY <1>0 DEF Call, Claim
<1>8. /\ worker' \in [Workers -> WorkerRows]
      /\ \A u \in Workers \ {w} : worker'[u] = worker[u]
      /\ worker'[w].pc = "commit" /\ worker'[w].verdict \in Replies(w, job)
      /\ worker'[w].attempt = a /\ worker'[w].action = worker[w].action
  BY <1>4, GoesSets, RepliesAreVerdicts DEF Steps
<1>9. UNCHANGED <<task, wait, listed, stage, lock, landed, faults>>
  BY DEF Call
<1>1. TypeOK'
  BY <1>0, <1>4, <1>8, <1>9, TypeParts, TypesNext DEF At, Terminal
<1>20. LockIsAVisits'
  BY <1>0, <1>8, <1>9 DEF LockIsAVisits, At, TypeOK
<1>2. OwnerIsCurrent'
  BY <1>0, <1>4, <1>8, <1>9 DEF OwnerIsCurrent, At
<1>3. NothingAhead'
  <2>1. \A b \in Attempts : b > task.attempt => b # a
    BY <1>0, TypeParts DEF NothingAhead, TaskRows, Attempts
  <2> QED
    BY <1>0, <1>4, <1>8, <1>9, <2>1, TypeParts DEF NothingAhead, TaskRows
<1>5. VerdictsHold'
  BY <1>0, <1>4, <1>8, <1>9 DEF VerdictsHold, Replies, Claim, TypeOK
<1>6. PhaseBounds'
  BY <1>0, <1>4, <1>8, <1>9 DEF PhaseBounds, At, TypeOK, EndPhases, CancelledPhases,
     Unpublished, Succeeded, Terminal, TerminalStatus
<1>7. HandleIsTheAttempts' /\ DoneHasLanded'
  BY <1>0, <1>4, <1>9 DEF HandleIsTheAttempts, DoneHasLanded, TypeOK
<1> QED
  BY <1>20, <1>1, <1>2, <1>3, <1>5, <1>6, <1>7

LEMMA ClaimRunsPreserves ==
    ASSUME WaitInv, NEW w \in Workers, ClaimRuns(w)
    PROVE  WaitInv'
<1> USE NobodyAssumption, BoundAssumption DEF WaitInv
<1>0. /\ At(w, "idle") /\ ~Terminal /\ wait.owner = Nobody
      /\ task' = [task EXCEPT !.status = "running"]
      /\ wait' = [wait EXCEPT !.phase = ClaimedPhase, !.owner = w]
      /\ UNCHANGED <<listed, jobs, stage, lock, landed, faults>>
  BY DEF ClaimRuns, Unclaimed
<1>4. /\ task' \in TaskRows /\ task'.attempt = task.attempt /\ task'.status = "running"
      /\ task.attempt \in Attempts
  BY <1>0, TypeParts DEF TaskRows, Statuses
<1>5. /\ ClaimedPhase \in Phases
      /\ \/ wait.phase = "unsubmitted" /\ ClaimedPhase = "submitting"
         \/ wait.phase = "provider_succeeded" /\ ClaimedPhase = "downloading"
         \/ wait.phase = "downloaded" /\ ClaimedPhase = "publishing"
         \/ wait.phase # "unsubmitted" /\ ClaimedPhase = wait.phase
  BY TypeParts DEF ClaimedPhase, WaitRows, Phases
<1>6. /\ wait' \in WaitRows /\ wait'.phase = ClaimedPhase /\ wait'.owner = w
      /\ wait'.handle = wait.handle /\ wait'.polls = wait.polls
  BY <1>0, <1>5, TypeParts DEF WaitRows
<1>7. /\ ActionOf(ClaimedPhase) \in {"provider", "download", "publish", "cancel_after_success"}
      /\ ActionOf(ClaimedPhase) = "publish" => ClaimedPhase = "publishing"
      /\ ActionOf(ClaimedPhase) = "provider" =>
            /\ ClaimedPhase \in {"submitting", "accepted", "running"}
            /\ wait.polls < MaxPolls
  <2>1. wait.phase \in Phases \ EndPhases
    BY <1>0, TypeParts DEF PhaseBounds, WaitRows
  <2>2. ClaimedPhase \in {"submitting", "accepted", "running", "provider_succeeded",
                          "downloading", "downloaded", "publishing"}
    BY <1>5, <2>1 DEF Phases, EndPhases, CancelledPhases
  <2>3. /\ ClaimedPhase \in {"provider_succeeded", "downloaded"} => task.cancel /\ Cancellable
        /\ ClaimedPhase \in {"submitting", "accepted", "running"} => ~Finalizing
    BY <1>5, <2>1 DEF ClaimedPhase, Cancellable, Finalizing
  <2>4. ~Finalizing => wait.polls < MaxPolls
    BY TypeParts DEF ClaimRuns, Exhausted, WaitRows
  <2> QED
    BY <2>2, <2>3, <2>4 DEF ActionOf
<1>8. /\ worker' \in [Workers -> WorkerRows]
      /\ \A u \in Workers \ {w} : worker'[u] = worker[u]
      /\ worker'[w].attempt = task.attempt
      /\ worker'[w].pc = IF ActionOf(ClaimedPhase) = "provider" THEN "call" ELSE "lock"
      /\ worker'[w].action = "publish" => ClaimedPhase = "publishing"
  <2> DEFINE call == [AtRest EXCEPT !.pc = "call", !.attempt = task.attempt,
                                    !.handle = wait.handle, !.cancel = task.cancel]
             visit == [AtRest EXCEPT !.pc = "lock", !.attempt = task.attempt,
                                     !.action = ActionOf(ClaimedPhase), !.pinned = wait.pinned]
  <2>1. worker' = [worker EXCEPT ![w] =
                      IF ActionOf(ClaimedPhase) = "provider" THEN call ELSE visit]
    BY DEF ClaimRuns
  <2>2. /\ call \in WorkerRows /\ call.pc = "call" /\ call.attempt = task.attempt
        /\ call.action = "none"
    BY <1>4, TypeParts DEF WaitRows, TaskRows, WorkerRows, AtRest, Steps, Verdicts
  <2>3. ActionOf(ClaimedPhase) # "provider" =>
           /\ visit \in WorkerRows /\ visit.pc = "lock" /\ visit.attempt = task.attempt
           /\ visit.action = ActionOf(ClaimedPhase)
    <3>1. AtRest \in WorkerRows
      BY BoundAssumption DEF AtRest, WorkerRows, Steps, Verdicts, Attempts
    <3> HIDE DEF AtRest
    <3> QED
     BY <3>1, <1>4, <1>7, TypeParts DEF WaitRows, TaskRows, WorkerRows, AtRest, Steps, Verdicts
  <2> HIDE DEF call, visit
  <2> QED
    BY <1>7, <2>1, <2>2, <2>3, TypeParts
<1>1. TypeOK'
  BY <1>0, <1>4, <1>6, <1>8, TypeParts, TypesNext DEF At, TerminalStatus
<1>20. LockIsAVisits'
  BY <1>0, <1>8 DEF LockIsAVisits, At, TypeOK
<1>2. OwnerIsCurrent'
  BY <1>0, <1>4, <1>6, <1>7, <1>8 DEF OwnerIsCurrent, At
<1>3. NothingAhead'
  BY <1>0, <1>4, <1>8 DEF NothingAhead, Attempts
<1>9. VerdictsHold'
  BY <1>0, <1>8 DEF VerdictsHold
<1>10. PhaseBounds'
  BY <1>0, <1>4, <1>5, <1>6, <1>8 DEF PhaseBounds, At, Succeeded, Unpublished, CancelledPhases,
     EndPhases, Terminal, TerminalStatus
<1>11. HandleIsTheAttempts' /\ DoneHasLanded'
  BY <1>0, <1>4, <1>6 DEF HandleIsTheAttempts, DoneHasLanded
<1> QED
  BY <1>20, <1>1, <1>2, <1>3, <1>9, <1>10, <1>11

LEMMA NextPreserves == WaitInv /\ Next => WaitInv'
<1> SUFFICES ASSUME WaitInv, Next PROVE WaitInv'
  OBVIOUS
<1>1. CASE \/ RequestCancel \/ Retry \/ DeadlinePasses \/ LeaseLapses
            \/ ListOverdue \/ Expire \/ ProviderEnds
  BY <1>1, RequestCancelPreserves, RetryPreserves, DeadlinePassesPreserves,
     LeaseLapsesPreserves, ListOverduePreserves, ExpirePreserves, ProviderEndsPreserves
<1>2. ASSUME NEW w \in Workers, ClaimTask(w) \/ Work(w) \/ TimerFires(w) \/ Crash(w)
      PROVE  WaitInv'
  BY <1>2, ClaimCancelsPreserves, ClaimFailsPreserves, ClaimRunsPreserves,
     CallPreserves, CommitPreserves, FindsBusyPreserves, PreparePreserves, PinPreserves,
     DownloadPreserves, CommitDownloadPreserves, DiscardPreserves, OpenStagePreserves,
     WritePreserves, WriteFailsPreserves, CleanPreserves, EndCancelsPreserves,
     EndFinishesPreserves, EndFailsPreserves, TimerFiresPreserves, CrashPreserves
     DEF ClaimTask, Work
<1> QED
  BY <1>1, <1>2 DEF Next

LEMMA StutterPreserves == WaitInv /\ UNCHANGED vars => WaitInv'
<1> SUFFICES ASSUME WaitInv, UNCHANGED vars PROVE WaitInv'
  OBVIOUS
<1> USE DEF WaitInv, vars
<1>1. TypeOK'
  BY DEF TypeOK, Terminal, At
<1>2. OwnerIsCurrent' /\ LockIsAVisits' /\ NothingAhead'
  BY DEF OwnerIsCurrent, LockIsAVisits, NothingAhead, At
<1>3. VerdictsHold'
  BY DEF VerdictsHold
<1>4. PhaseBounds'
  BY DEF PhaseBounds, At, Terminal
<1>5. HandleIsTheAttempts' /\ DoneHasLanded'
  BY DEF HandleIsTheAttempts, DoneHasLanded
<1> QED
  BY <1>1, <1>2, <1>3, <1>4, <1>5

LEMMA InitEstablishes == Init => WaitInv
<1> SUFFICES ASSUME Init PROVE WaitInv
  OBVIOUS
<1> USE NobodyAssumption, BoundAssumption DEF Init, NewWait, NoStage
<1>0. /\ 1 \in Attempts
      /\ \A w \in Workers : worker[w].pc = "idle" /\ worker[w].attempt = 1
                            /\ worker[w].action = "none"
      /\ \A a \in Attempts : jobs[a] = "none"
  BY DEF Attempts, AtRest
<1>1. TypeOK
  <2>1. AtRest \in WorkerRows
    BY DEF AtRest, WorkerRows, Steps, Verdicts, Attempts
  <2>2. task \in TaskRows /\ wait \in WaitRows /\ stage \in Stages
    BY <1>0 DEF TaskRows, Statuses, WaitRows, Phases, Stages
  <2>3. /\ jobs \in [Attempts -> {"none", "running", "succeeded", "cancelled"}]
        /\ worker \in [Workers -> WorkerRows]
    BY <2>1
  <2> HIDE DEF Init
  <2>4. /\ lock = Nobody /\ listed = FALSE /\ landed = 0 /\ faults = 0
        /\ task.status = "queued"
    BY DEF Init
  <2>5. landed \in 0 .. MaxAttempts /\ faults \in 0 .. MaxFaults
    BY <2>4
  <2>6. ~Terminal
    BY <2>4 DEF Terminal, TerminalStatus
  <2> QED
    BY <2>2, <2>3, <2>4, <2>5, <2>6, TypeParts
<1>2. OwnerIsCurrent /\ LockIsAVisits /\ NothingAhead
  BY <1>0 DEF OwnerIsCurrent, LockIsAVisits, NothingAhead, Attempts
<1>3. VerdictsHold
  BY <1>0 DEF VerdictsHold
<1>4. PhaseBounds
  BY <1>0 DEF PhaseBounds, At, Succeeded, Unpublished, CancelledPhases, EndPhases
<1>5. HandleIsTheAttempts /\ DoneHasLanded
  BY DEF HandleIsTheAttempts, DoneHasLanded
<1> QED
  BY <1>1, <1>2, <1>3, <1>4, <1>5 DEF WaitInv

-----------------------------------------------------------------------------
\* The inductive invariant holds in every reachable state.
THEOREM WaitInvariant == Spec => []WaitInv
<1>1. WaitInv /\ [Next]_vars => WaitInv'
  BY NextPreserves, StutterPreserves
<1> QED
  BY <1>1, InitEstablishes, PTL DEF Spec

\* The state always has its types; a settled task has no owner, an attempt
\* stays within its polls and only a worker in its visit holds the file lock.
THEOREM WaitTypeCorrect == Spec => []TypeOK
<1>1. WaitInv => TypeOK
  BY DEF WaitInv
<1> QED
  BY <1>1, WaitInvariant, PTL

\* The handle on record is the job of the latest attempt, and the provider
\* knows it, whatever late workers of earlier attempts submit or commit.
THEOREM HandlesAreCurrent == Spec => []HandleIsTheAttempts
<1>1. WaitInv => HandleIsTheAttempts
  BY DEF WaitInv
<1> QED
  BY <1>1, WaitInvariant, PTL

\* A task is done only once its dataset has been published.
THEOREM DoneIsPublished == Spec => []DoneHasLanded
<1>1. WaitInv => DoneHasLanded
  BY DEF WaitInv
<1> QED
  BY <1>1, WaitInvariant, PTL

\* A cancelled attempt leaves no job running at the provider and publishes
\* nothing, whatever late workers of it still do.
THEOREM CancelledIsClean == Spec => []CancelledLeavesNothing
<1>1. WaitInv => CancelledLeavesNothing
  BY DEF WaitInv, PhaseBounds, CancelledLeavesNothing, CancelledPhases, Succeeded, Unpublished
<1> QED
  BY <1>1, WaitInvariant, PTL

\* A settled task changes only by a retry, which raises its attempt: neither
\* a late worker nor an expiry under way settles it twice.
THEOREM SettledIsFinal == Spec => TerminalIsFinal
<1>1. WaitInv /\ [Next]_vars
         => [Terminal => \/ task' = task /\ wait'.phase = wait.phase
                         \/ task'.attempt = task.attempt + 1]_vars
  <2> SUFFICES ASSUME WaitInv, Next, Terminal
               PROVE  \/ task' = task /\ wait'.phase = wait.phase
                      \/ task'.attempt = task.attempt + 1
    OBVIOUS
  <2> USE NobodyAssumption DEF WaitInv
  <2>0. wait.owner = Nobody
    BY DEF TypeOK
  <2>1. CASE \/ RequestCancel \/ DeadlinePasses \/ LeaseLapses
             \/ ListOverdue \/ Expire \/ ProviderEnds
    BY <2>0, <2>1 DEF RequestCancel, DeadlinePasses, LeaseLapses, ListOverdue, Expire, ProviderEnds
  <2>2. CASE Retry
    BY <2>2 DEF Retry
  <2>3. ASSUME NEW w \in Workers, ClaimTask(w) \/ TimerFires(w) \/ Crash(w)
        PROVE  task' = task /\ wait' = wait
    BY <2>3 DEF ClaimTask, ClaimCancels, ClaimFails, ClaimRuns, Unclaimed, TimerFires, Owns, Crash
  <2>4. ASSUME NEW w \in Workers, Work(w)
        PROVE  task' = task /\ wait' = wait
    <3>1. ~Owns(w)
      BY DEF Owns
    <3>2. CASE Call(w) \/ FindsBusy(w) \/ Prepare(w) \/ Download(w) \/ Discard(w) \/ OpenStage(w)
               \/ Write(w) \/ WriteFails(w) \/ Clean(w)
      BY <3>2 DEF Call, FindsBusy, Prepare, Download, Discard, OpenStage, Write, WriteFails, Clean
    <3>3. CASE \/ Commit(w) \/ Pin(w) \/ CommitDownload(w)
               \/ EndCancels(w) \/ EndFinishes(w) \/ EndFails(w)
      BY <3>1, <3>3 DEF Commit, CommitFence, Pin, CommitDownload, EndCancels, EndFinishes, EndFails
    <3> QED
      BY <2>4, <3>2, <3>3 DEF Work
  <2> QED
    BY <2>1, <2>2, <2>3, <2>4 DEF Next
<1> QED
  BY <1>1, WaitInvariant, PTL DEF Spec, TerminalIsFinal

=============================================================================
