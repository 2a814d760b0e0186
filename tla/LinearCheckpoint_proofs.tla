----------------------- MODULE LinearCheckpoint_proofs -----------------------
(***************************************************************************)
(* Theorems about LinearCheckpoint, for any number of attempts, retries    *)
(* and faults.                                                             *)
(*                                                                         *)
(* Most steps move one worker and leave the checkpoint and its artifacts   *)
(* alone (Quiet, StayPreserves); the others are taken one by one.  That    *)
(* readers keep the artifact rests on its lease, which only a reaper that  *)
(* excludes them clears (ReadersHold); that committed truth is whole on    *)
(* who may still write the file, and how far a writer got (WritersFollow). *)
(***************************************************************************)
EXTENDS LinearCheckpoint, TLAPS

RowRecords ==
    [state : {"none", "writing", "ready", "deleting"}, writer : BOOLEAN, owner : BOOLEAN]
WorkerRecords ==
    [pc : Steps, gen : Generations, outcome : {"none", "done", "failed", "cancelled", "failing"}]

\* Where a writer has yet to create its file.
Early == {"prefix", "create", "fence", "file"}

\* A binding is to a generation, and what is ready is bound and committed.
BindingsHold ==
    /\ checkpoint.phase \in {"reserved", "committed"} => checkpoint.gen \in Generations
    /\ \A g \in Generations :
          row[g].state = "ready" /\ checkpoint.phase # "gone" =>
              checkpoint.phase = "committed" /\ checkpoint.gen = g

ReadersHold ==
    \A n \in Generations :
        worker[n].pc \in Reading =>
            row[worker[n].gen].state = "ready" /\ n \in leases[worker[n].gen]

WritersFollow ==
    \A n \in Generations :
        /\ Candidate(n) /\ worker[n].pc \in {"write", "commit"} => checkpoint.bound
        /\ Candidate(n) /\ worker[n].pc = "commit" => data[n] = "whole"
        /\ checkpoint.phase = "committed" /\ checkpoint.gen = n => worker[n].pc \notin Early

\* What a worker is about to report.
Outcome(w) ==
    /\ w.pc = "finish" => w.outcome \in {"done", "failed", "cancelled"}
    /\ w.pc = "close" => w.outcome \in {"done", "cancelled", "failing"}
    /\ w.pc \in {"finish", "close"} /\ w.outcome = "done" => Landed
OutcomesHold == \A n \in Generations : Outcome(worker[n])

\* The inductive invariant.
CheckpointInv ==
    /\ TypeOK /\ AuthorityAgrees
    /\ BindingsHold /\ ReadersHold /\ WritersFollow /\ OutcomesHold

-----------------------------------------------------------------------------
(* Moves of one worker.                                                    *)

Moves(n, pc, g, outcome) ==
    /\ worker' \in [Generations -> WorkerRecords]
    /\ worker'[n] = [pc |-> pc, gen |-> g, outcome |-> outcome]
    /\ \A m \in Generations \ {n} : worker'[m] = worker[m]

LEMMA MovesRecord ==
    ASSUME TypeOK, NEW n \in Generations,
           NEW pc \in Steps, NEW g \in Generations,
           NEW outcome \in {"none", "done", "failed", "cancelled", "failing"},
           worker' = [worker EXCEPT ![n] = [pc |-> pc, gen |-> g, outcome |-> outcome]]
    PROVE  Moves(n, pc, g, outcome)
BY DEF TypeOK, Moves, WorkerRecords

LEMMA MovesGo ==
    ASSUME TypeOK, NEW n \in Generations, NEW pc \in Steps
    PROVE  /\ GoTo(n, pc) => Moves(n, pc, worker[n].gen, worker[n].outcome)
           /\ \A g \in Generations : GoWith(n, pc, g) => Moves(n, pc, g, worker[n].outcome)
           /\ \A o \in {"none", "done", "failed", "cancelled", "failing"} :
                 Settle(n, pc, o) => Moves(n, pc, worker[n].gen, o)
<1>1. worker \in [Generations -> WorkerRecords]
  BY DEF TypeOK, WorkerRecords
<1>2. worker[n] \in WorkerRecords
  BY <1>1
<1>3. ASSUME GoTo(n, pc) PROVE Moves(n, pc, worker[n].gen, worker[n].outcome)
  BY <1>1, <1>2, <1>3 DEF GoTo, Moves, WorkerRecords
<1>4. ASSUME NEW g \in Generations, GoWith(n, pc, g)
      PROVE  Moves(n, pc, g, worker[n].outcome)
  BY <1>1, <1>2, <1>4 DEF GoWith, Moves, WorkerRecords
<1>5. ASSUME NEW o \in {"none", "done", "failed", "cancelled", "failing"}, Settle(n, pc, o)
      PROVE  Moves(n, pc, worker[n].gen, o)
  BY <1>1, <1>2, <1>5 DEF Settle, Moves, WorkerRecords
<1> QED
  BY <1>3, <1>4, <1>5

\* No worker begins to read, to write or to commit, and what is to be
\* reported holds.
Quiet ==
    /\ worker' \in [Generations -> WorkerRecords]
    /\ \A n \in Generations :
          /\ worker'[n].pc \in Reading =>
                worker[n].pc \in Reading /\ worker'[n].gen = worker[n].gen
          /\ worker'[n].pc \in {"write", "commit"} => worker'[n].pc = worker[n].pc
          /\ worker'[n].pc \in Early => worker[n].pc \in Early
    /\ OutcomesHold'

LEMMA QuietRest ==
    ASSUME CheckpointInv, landed \subseteq landed', UNCHANGED worker
    PROVE  Quiet
BY DEF CheckpointInv, TypeOK, WorkerRecords, Quiet, OutcomesHold, Outcome, Landed

LEMMA QuietMove ==
    ASSUME CheckpointInv, landed \subseteq landed', NEW n \in Generations,
           NEW pc \in Steps, NEW g \in Generations, NEW outcome, Moves(n, pc, g, outcome),
           pc \notin {"write", "commit"},
           pc \in Reading => worker[n].pc \in Reading /\ g = worker[n].gen,
           pc \in Early => worker[n].pc \in Early,
           pc = "finish" => outcome \in {"done", "failed", "cancelled"},
           pc = "close" => outcome \in {"done", "cancelled", "failing"},
           pc \in {"finish", "close"} /\ outcome = "done" => Landed
    PROVE  Quiet
BY DEF CheckpointInv, Moves, Quiet, OutcomesHold, Outcome, Landed

-----------------------------------------------------------------------------
(* What steps do to the checkpoint and its artifacts.                      *)

LEMMA StayPreserves ==
    ASSUME CheckpointInv, Quiet, UNCHANGED <<checkpoint, row, leases, data>>,
           lockFile' \in [Generations -> {"none", "empty", "valid"}],
           unlocked' \in SUBSET Generations, faults' \in 0 .. MaxFaults
    PROVE  CheckpointInv'
<1> USE DEF CheckpointInv, Quiet
<1>1. TypeOK'
  BY DEF TypeOK, WorkerRecords
<1>2. AuthorityAgrees'
  BY DEF AuthorityAgrees, Candidate
<1>3. BindingsHold'
  BY DEF BindingsHold
<1>4. ReadersHold'
  BY DEF ReadersHold
<1>5. WritersFollow'
  BY DEF WritersFollow, Candidate
<1> QED
  BY <1>1, <1>2, <1>3, <1>4, <1>5

\* A row that is being deleted, and its bytes, go.
LEMMA DeletePreserves ==
    ASSUME CheckpointInv, Quiet, NEW g \in Generations, row[g].state = "deleting",
           row' = [row EXCEPT ![g] = NoRow], data' = [data EXCEPT ![g] = "none"],
           UNCHANGED <<checkpoint, leases>>,
           lockFile' \in [Generations -> {"none", "empty", "valid"}],
           unlocked' \in SUBSET Generations, faults' \in 0 .. MaxFaults
    PROVE  CheckpointInv'
<1> USE DEF CheckpointInv, Quiet
<1>1. TypeOK'
  BY DEF TypeOK, WorkerRecords, NoRow
<1>2. AuthorityAgrees'
  BY DEF AuthorityAgrees, Candidate, NoRow, TypeOK
<1>3. BindingsHold'
  BY DEF BindingsHold, NoRow, TypeOK
<1>4. ReadersHold'
  BY DEF ReadersHold, NoRow, TypeOK
<1>5. WritersFollow'
  BY DEF WritersFollow, Candidate, AuthorityAgrees, TypeOK
<1> QED
  BY <1>1, <1>2, <1>3, <1>4, <1>5

LEMMA DetachPreserves ==
    ASSUME CheckpointInv, Quiet, NEW g \in Generations, Candidate(g), Detach(g),
           UNCHANGED <<leases, data, lockFile, unlocked, faults>>
    PROVE  CheckpointInv'
<1> USE DEF CheckpointInv, Quiet, Detach, NoCandidate
<1>a. /\ checkpoint'.phase = "pending"
      /\ checkpoint' \in [phase : {"pending", "reserved", "committed", "gone"},
                          gen : 0 .. MaxAttempts, bound : BOOLEAN]
  BY AttemptsAssumption
<1>b. row \in [Generations -> RowRecords] /\ row[g].state = "writing" /\ row[g] \in RowRecords
  BY DEF TypeOK, RowRecords, AuthorityAgrees
<1>c. /\ row' \in [Generations -> RowRecords]
      /\ row'[g] = [state |-> "deleting", writer |-> FALSE, owner |-> row[g].owner]
      /\ \A h \in Generations \ {g} : row'[h] = row[h]
  BY <1>b DEF RowRecords
<1>0. /\ checkpoint'.phase = "pending" /\ row[g].state = "writing"
      /\ row' \in [Generations -> RowRecords]
      /\ row'[g] = [state |-> "deleting", writer |-> FALSE, owner |-> row[g].owner]
      /\ \A h \in Generations \ {g} : row'[h] = row[h]
  BY <1>a, <1>b, <1>c
<1>1. TypeOK'
  BY <1>0, <1>a DEF TypeOK, WorkerRecords, RowRecords
<1>2. AuthorityAgrees'
  BY <1>0 DEF AuthorityAgrees, Candidate
<1>3. BindingsHold'
  BY <1>0 DEF BindingsHold, Candidate
<1>4. ReadersHold'
  BY <1>0 DEF ReadersHold, TypeOK
<1>5. WritersFollow'
  BY <1>0 DEF WritersFollow, Candidate
<1> QED
  BY <1>1, <1>2, <1>3, <1>4, <1>5

LEMMA FaultIsCounted == ASSUME CheckpointInv, Fault PROVE faults' \in 0 .. MaxFaults
BY FaultsAssumption DEF Fault, CheckpointInv, TypeOK

LEMMA DeleteCanvasPreserves == ASSUME CheckpointInv, DeleteCanvas PROVE CheckpointInv'
<1> USE DEF CheckpointInv
<1>1. UNCHANGED <<ledgerVars, leases, data, lockFile, worker, unlocked, faults>>
  BY DEF DeleteCanvas, fileVars
<1>2. checkpoint' = [phase |-> "gone", gen |-> 0, bound |-> FALSE]
  BY DEF DeleteCanvas, NoCandidate
<1>3. row \in [Generations -> RowRecords]
  BY DEF TypeOK, RowRecords
<1>4. /\ row' \in [Generations -> RowRecords]
      /\ \A g \in Generations :
            /\ ~row'[g].writer /\ ~row'[g].owner
            /\ row'[g].state # row[g].state => row[g].state = "writing"
  <2>1. CASE checkpoint.phase = "committed"
    <3>1. row' = [row EXCEPT ![checkpoint.gen].owner = FALSE] /\ checkpoint.gen \in Generations
      BY <2>1 DEF DeleteCanvas, BindingsHold
    <3>2. row[checkpoint.gen] \in RowRecords
      BY <1>3, <3>1
    <3>3. /\ row' \in [Generations -> RowRecords]
          /\ row'[checkpoint.gen] = [state |-> row[checkpoint.gen].state,
                                     writer |-> row[checkpoint.gen].writer, owner |-> FALSE]
          /\ \A g \in Generations \ {checkpoint.gen} : row'[g] = row[g]
      BY <1>3, <3>1, <3>2 DEF RowRecords
    <3> QED
      BY <2>1, <3>1, <3>3 DEF AuthorityAgrees, Candidate
  <2>2. CASE checkpoint.phase = "reserved"
    <3>1. /\ row' = [row EXCEPT ![checkpoint.gen].state = "deleting",
                                ![checkpoint.gen].writer = FALSE]
          /\ checkpoint.gen \in Generations
      BY <2>2 DEF DeleteCanvas, BindingsHold
    <3>2. row[checkpoint.gen] \in RowRecords /\ row[checkpoint.gen].state = "writing"
      BY <1>3, <2>2, <3>1 DEF AuthorityAgrees, Candidate
    <3>3. /\ row' \in [Generations -> RowRecords]
          /\ row'[checkpoint.gen] = [state |-> "deleting", writer |-> FALSE,
                                     owner |-> row[checkpoint.gen].owner]
          /\ \A g \in Generations \ {checkpoint.gen} : row'[g] = row[g]
      BY <1>3, <3>1, <3>2 DEF RowRecords
    <3> QED
      BY <2>2, <3>1, <3>2, <3>3 DEF AuthorityAgrees, Candidate
  <2>3. CASE checkpoint.phase \notin {"committed", "reserved"}
    <3>1. row' = row
      BY <2>3 DEF DeleteCanvas
    <3> QED
      BY <1>3, <2>3, <3>1 DEF AuthorityAgrees, Candidate
  <2> QED
    BY <2>1, <2>2, <2>3
<1>5. TypeOK'
  BY <1>1, <1>2, <1>4, AttemptsAssumption DEF TypeOK, RowRecords
<1>6. AuthorityAgrees'
  BY <1>2, <1>4 DEF AuthorityAgrees, Candidate
<1>7. BindingsHold'
  BY <1>2 DEF BindingsHold
<1>8. ReadersHold'
  BY <1>1, <1>4 DEF ReadersHold, TypeOK
<1>9. WritersFollow'
  BY <1>2 DEF WritersFollow, Candidate
<1>10. OutcomesHold'
  BY <1>1 DEF OutcomesHold, Outcome, Landed, ledgerVars
<1> QED
  BY <1>5, <1>6, <1>7, <1>8, <1>9, <1>10

\* A reservation gives its attempt a row and the binding.
LEMMA ReservationPreserves ==
    ASSUME CheckpointInv, NEW n \in Generations, checkpoint.phase = "pending",
           checkpoint' = [phase |-> "reserved", gen |-> n, bound |-> FALSE],
           row' = [row EXCEPT ![n] = [state |-> "writing", writer |-> TRUE, owner |-> FALSE]],
           At(n, "reserve"),
           \/ Moves(n, "prefix", worker[n].gen, worker[n].outcome)
           \/ Moves(n, "failing", worker[n].gen, worker[n].outcome),
           UNCHANGED <<ledgerVars, leases, fileVars, unlocked>>, faults' \in 0 .. MaxFaults
    PROVE  CheckpointInv'
<1> USE DEF CheckpointInv, At
<1>1. UNCHANGED <<landed, leases, data, lockFile, unlocked>>
  BY DEF ledgerVars, fileVars
<1>2. /\ worker' \in [Generations -> WorkerRecords]
      /\ worker'[n].pc \in {"prefix", "failing"}
      /\ \A m \in Generations \ {n} : worker'[m] = worker[m]
  BY DEF Moves
<1>3. TypeOK'
  BY <1>1, <1>2 DEF TypeOK, WorkerRecords, Generations
<1>4. AuthorityAgrees'
  BY DEF AuthorityAgrees, Candidate, TypeOK
<1>5. BindingsHold'
  BY DEF BindingsHold, TypeOK
<1>6. ReadersHold'
  BY <1>1, <1>2 DEF ReadersHold, Reading, BindingsHold, TypeOK
<1>7. WritersFollow'
  BY <1>2 DEF WritersFollow, Candidate
<1>8. OutcomesHold'
  BY <1>1, <1>2 DEF OutcomesHold, Outcome, Landed
<1> QED
  BY <1>3, <1>4, <1>5, <1>6, <1>7, <1>8

\* The writer's file is created.
LEMMA FilePreserves ==
    ASSUME CheckpointInv, NEW n \in Generations, At(n, "file"),
           Moves(n, "bind", worker[n].gen, worker[n].outcome),
           data' = [data EXCEPT ![n] = "partial"],
           UNCHANGED <<ledgerVars, checkpoint, rowVars, lockFile, unlocked, faults>>
    PROVE  CheckpointInv'
<1> USE DEF CheckpointInv, At
<1>1. UNCHANGED <<landed, row, leases>>
  BY DEF ledgerVars, rowVars
<1>2. /\ worker' \in [Generations -> WorkerRecords] /\ worker'[n].pc = "bind"
      /\ \A m \in Generations \ {n} : worker'[m] = worker[m]
  BY DEF Moves
<1>3. checkpoint.phase = "committed" => checkpoint.gen # n
  BY DEF WritersFollow, Early
<1>4. TypeOK'
  BY <1>1, <1>2 DEF TypeOK, WorkerRecords
<1>5. AuthorityAgrees'
  BY <1>1, <1>3 DEF AuthorityAgrees, Candidate, TypeOK
<1>6. BindingsHold'
  BY <1>1 DEF BindingsHold
<1>7. ReadersHold'
  BY <1>1, <1>2 DEF ReadersHold, Reading
<1>8. WritersFollow'
  BY <1>2 DEF WritersFollow, Candidate, Early, TypeOK
<1>9. OutcomesHold'
  BY <1>1, <1>2 DEF OutcomesHold, Outcome, Landed
<1> QED
  BY <1>4, <1>5, <1>6, <1>7, <1>8, <1>9

\* The candidate's inode goes on record.
LEMMA BindingPreserves ==
    ASSUME CheckpointInv, NEW n \in Generations, Candidate(n),
           checkpoint' = [checkpoint EXCEPT !.bound = TRUE],
           \/ Moves(n, "write", worker[n].gen, worker[n].outcome)
           \/ Moves(n, "unsure", worker[n].gen, worker[n].outcome),
           UNCHANGED <<ledgerVars, rowVars, fileVars, unlocked>>, faults' \in 0 .. MaxFaults
    PROVE  CheckpointInv'
<1> USE DEF CheckpointInv
<1>1. UNCHANGED <<landed, row, leases, data, lockFile>>
  BY DEF ledgerVars, rowVars, fileVars
<1>2. /\ worker' \in [Generations -> WorkerRecords] /\ worker'[n].pc \in {"write", "unsure"}
      /\ \A m \in Generations \ {n} : worker'[m] = worker[m]
  BY DEF Moves
<1>3. /\ checkpoint'.phase = checkpoint.phase /\ checkpoint'.gen = checkpoint.gen
      /\ checkpoint'.bound
      /\ checkpoint' \in [phase : {"pending", "reserved", "committed", "gone"},
                          gen : 0 .. MaxAttempts, bound : BOOLEAN]
  BY DEF TypeOK
<1>4. TypeOK'
  BY <1>1, <1>2, <1>3 DEF TypeOK, WorkerRecords
<1>5. AuthorityAgrees'
  BY <1>1, <1>3 DEF AuthorityAgrees, Candidate
<1>6. BindingsHold'
  BY <1>1, <1>3 DEF BindingsHold
<1>7. ReadersHold'
  BY <1>1, <1>2 DEF ReadersHold, Reading
<1>8. WritersFollow'
  BY <1>1, <1>2, <1>3 DEF WritersFollow, Candidate, Early
<1>9. OutcomesHold'
  BY <1>1, <1>2 DEF OutcomesHold, Outcome, Landed
<1> QED
  BY <1>4, <1>5, <1>6, <1>7, <1>8, <1>9

\* All bytes are written and synced, to a file that is still there.
LEMMA WholePreserves ==
    ASSUME CheckpointInv, NEW n \in Generations, At(n, "write"),
           Moves(n, "commit", worker[n].gen, worker[n].outcome),
           data' = [data EXCEPT ![n] = "whole"],
           UNCHANGED <<ledgerVars, checkpoint, rowVars, lockFile, unlocked, faults>>
    PROVE  CheckpointInv'
<1> USE DEF CheckpointInv, At
<1>1. UNCHANGED <<landed, row, leases>>
  BY DEF ledgerVars, rowVars
<1>2. /\ worker' \in [Generations -> WorkerRecords] /\ worker'[n].pc = "commit"
      /\ \A m \in Generations \ {n} : worker'[m] = worker[m]
  BY DEF Moves
<1>3. TypeOK'
  BY <1>1, <1>2 DEF TypeOK, WorkerRecords
<1>4. AuthorityAgrees'
  BY <1>1 DEF AuthorityAgrees, Candidate, TypeOK
<1>5. BindingsHold'
  BY <1>1 DEF BindingsHold
<1>6. ReadersHold'
  BY <1>1, <1>2 DEF ReadersHold, Reading
<1>7. WritersFollow'
  BY <1>2 DEF WritersFollow, Candidate, Early, TypeOK
<1>8. OutcomesHold'
  BY <1>1, <1>2 DEF OutcomesHold, Outcome, Landed
<1> QED
  BY <1>3, <1>4, <1>5, <1>6, <1>7, <1>8

\* The candidate becomes committed truth.
LEMMA CommittedPreserves ==
    ASSUME CheckpointInv, NEW n \in Generations, Candidate(n), At(n, "commit"),
           checkpoint' = [checkpoint EXCEPT !.phase = "committed"],
           row' = [row EXCEPT ![n] = [state |-> "ready", writer |-> FALSE, owner |-> TRUE]],
           \/ Moves(n, "committed", worker[n].gen, worker[n].outcome)
           \/ Moves(n, "unsure", worker[n].gen, worker[n].outcome),
           UNCHANGED <<ledgerVars, leases, fileVars, unlocked>>, faults' \in 0 .. MaxFaults
    PROVE  CheckpointInv'
<1> USE DEF CheckpointInv, At
<1>1. UNCHANGED <<landed, leases, data, lockFile>>
  BY DEF ledgerVars, fileVars
<1>2. /\ worker' \in [Generations -> WorkerRecords] /\ worker'[n].pc \in {"committed", "unsure"}
      /\ \A m \in Generations \ {n} : worker'[m] = worker[m]
  BY DEF Moves
<1>3. /\ checkpoint.phase = "reserved" /\ checkpoint.gen = n /\ checkpoint.bound
      /\ data[n] = "whole"
      /\ checkpoint'.phase = "committed" /\ checkpoint'.gen = n /\ checkpoint'.bound
      /\ checkpoint' \in [phase : {"pending", "reserved", "committed", "gone"},
                          gen : 0 .. MaxAttempts, bound : BOOLEAN]
  BY DEF TypeOK, Candidate, WritersFollow
<1>4. TypeOK'
  BY <1>1, <1>2, <1>3 DEF TypeOK, WorkerRecords
<1>5. AuthorityAgrees'
  BY <1>1, <1>3 DEF AuthorityAgrees, Candidate, TypeOK
<1>6. BindingsHold'
  <2> SUFFICES ASSUME NEW g \in Generations, row'[g].state = "ready"
               PROVE  g = n
    BY <1>3 DEF BindingsHold
  <2>1. row[g].state # "ready"
    BY <1>3 DEF BindingsHold
  <2>2. g # n => row'[g] = row[g]
    BY DEF TypeOK
  <2> QED
    BY <2>1, <2>2, Zenon
<1>7. ReadersHold'
  BY <1>1, <1>2 DEF ReadersHold, Reading, TypeOK
<1>8. WritersFollow'
  BY <1>2, <1>3 DEF WritersFollow, Candidate, Early
<1>9. OutcomesHold'
  BY <1>1, <1>2 DEF OutcomesHold, Outcome, Landed
<1> QED
  BY <1>4, <1>5, <1>6, <1>7, <1>8, <1>9

\* The bytes of a worker that no longer writes go, unless truth is committed.
LEMMA RemovalPreserves ==
    ASSUME CheckpointInv, Quiet, NEW n \in Generations, worker'[n].pc \in {"abort", "failing"},
           checkpoint.phase # "committed",
           data' = [data EXCEPT ![n] = "none"], lockFile' = [lockFile EXCEPT ![n] = "none"],
           UNCHANGED <<checkpoint, rowVars, unlocked, faults>>
    PROVE  CheckpointInv'
<1> USE DEF CheckpointInv, Quiet
<1>1. UNCHANGED <<row, leases>>
  BY DEF rowVars
<1>2. TypeOK'
  BY <1>1 DEF TypeOK, WorkerRecords
<1>3. AuthorityAgrees'
  BY <1>1 DEF AuthorityAgrees, Candidate
<1>4. BindingsHold'
  BY <1>1 DEF BindingsHold
<1>5. ReadersHold'
  BY <1>1 DEF ReadersHold
<1>6. WritersFollow'
  BY DEF WritersFollow, Candidate, TypeOK
<1> QED
  BY <1>2, <1>3, <1>4, <1>5, <1>6

\* A reader takes its lease.
LEMMA AcquiredPreserves ==
    ASSUME CheckpointInv, NEW n \in Generations, row[worker[n].gen].state = "ready",
           leases' = [leases EXCEPT ![worker[n].gen] = @ \cup {n}],
           Moves(n, "copy", worker[n].gen, worker[n].outcome),
           UNCHANGED <<ledgerVars, checkpoint, row, fileVars, unlocked, faults>>
    PROVE  CheckpointInv'
<1> USE DEF CheckpointInv
<1>1. UNCHANGED <<landed, data, lockFile>>
  BY DEF ledgerVars, fileVars
<1>2. /\ worker' \in [Generations -> WorkerRecords]
      /\ worker'[n].pc = "copy" /\ worker'[n].gen = worker[n].gen
      /\ \A m \in Generations \ {n} : worker'[m] = worker[m]
  BY DEF Moves
<1>3. /\ worker[n].gen \in Generations
      /\ \A m \in Generations : worker[m].gen \in Generations
  BY DEF TypeOK
<1>4. /\ leases' \in [Generations -> SUBSET Generations]
      /\ n \in leases'[worker[n].gen]
      /\ \A g \in Generations : leases[g] \subseteq leases'[g]
  BY <1>3 DEF TypeOK
<1>5. TypeOK'
  BY <1>1, <1>2, <1>4 DEF TypeOK, WorkerRecords
<1>6. AuthorityAgrees'
  BY <1>1 DEF AuthorityAgrees, Candidate
<1>7. BindingsHold'
  BY <1>1 DEF BindingsHold
<1>8. ReadersHold'
  BY <1>2, <1>3, <1>4 DEF ReadersHold
<1>9. WritersFollow'
  BY <1>1, <1>2 DEF WritersFollow, Candidate, Early
<1>10. OutcomesHold'
  BY <1>1, <1>2 DEF OutcomesHold, Outcome, Landed
<1> QED
  BY <1>5, <1>6, <1>7, <1>8, <1>9, <1>10

LEMMA ClosePreserves == ASSUME CheckpointInv, NEW n \in Generations, Close(n) PROVE CheckpointInv'
<1> USE DEF CheckpointInv
<1>1. UNCHANGED <<landed, checkpoint, row, data, lockFile, unlocked, faults>> /\ At(n, "close")
  BY DEF Close, ledgerVars, fileVars
<1>2. /\ worker' \in [Generations -> WorkerRecords]
      /\ worker'[n] = IF worker[n].outcome = "failing"
                      THEN [pc |-> "failing", gen |-> n, outcome |-> "none"]
                      ELSE [pc |-> "finish", gen |-> n,
                            outcome |-> IF Landed THEN "done" ELSE "cancelled"]
      /\ \A m \in Generations \ {n} : worker'[m] = worker[m]
  <2>1. worker \in [Generations -> WorkerRecords] /\ worker[n] \in WorkerRecords
    BY DEF TypeOK, WorkerRecords
  <2>2. {"failing", "finish"} \subseteq Steps
    BY DEF Steps
  <2> QED
    BY <2>1, <2>2 DEF Close, WorkerRecords
<1>3. /\ leases' \in [Generations -> SUBSET Generations]
      /\ \A g \in Generations : leases[g] \ {n} \subseteq leases'[g]
  BY DEF Close, TypeOK
<1>4. TypeOK'
  BY <1>1, <1>2, <1>3 DEF TypeOK, WorkerRecords
<1>5. AuthorityAgrees'
  BY <1>1 DEF AuthorityAgrees, Candidate
<1>6. BindingsHold'
  BY <1>1 DEF BindingsHold
<1>7. ReadersHold'
  BY <1>1, <1>2, <1>3 DEF ReadersHold, Reading, TypeOK
<1>8. WritersFollow'
  BY <1>1, <1>2 DEF WritersFollow, Candidate, Early
<1>9. OutcomesHold'
  BY <1>1, <1>2 DEF OutcomesHold, Outcome, Landed, At
<1> QED
  BY <1>4, <1>5, <1>6, <1>7, <1>8, <1>9

\* Whoever excludes the holders of a generation excludes its readers.
LEMMA ReconcileDeadPreserves ==
    ASSUME CheckpointInv, NEW g \in Generations, ReconcileDead(g)
    PROVE  CheckpointInv'
<1> USE DEF CheckpointInv
<1>1. UNCHANGED <<landed, checkpoint, data, lockFile, worker, unlocked, faults>>
  BY DEF ReconcileDead, ledgerVars, fileVars
<1>2. /\ leases' \in [Generations -> SUBSET Generations]
      /\ \A h \in Generations \ {g} : leases'[h] = leases[h]
      /\ \A n \in Generations : worker[n].pc \in Reading => worker[n].gen # g
  BY DEF ReconcileDead, TypeOK, CanExclude, Holders
<1>3. /\ row' \in [Generations -> RowRecords]
      /\ \A h \in Generations : row'[h] = row[h]
  <2>1. row \in [Generations -> RowRecords] /\ row[g] \in RowRecords
    BY DEF TypeOK, RowRecords
  <2>2. ~row[g].writer
    BY DEF ReconcileDead, Bound, AuthorityAgrees, Candidate
  <2>3. row' = [row EXCEPT ![g].writer = FALSE]
    BY DEF ReconcileDead
  <2>4. /\ row' \in [Generations -> RowRecords]
        /\ row'[g] = [state |-> row[g].state, writer |-> FALSE, owner |-> row[g].owner]
        /\ \A h \in Generations \ {g} : row'[h] = row[h]
    BY <2>1, <2>3 DEF RowRecords
  <2>5. row[g].writer = FALSE
    BY <2>1, <2>2 DEF RowRecords
  <2>6. row[g] = [state |-> row[g].state, writer |-> row[g].writer, owner |-> row[g].owner]
    BY <2>1 DEF RowRecords
  <2> QED
    BY <2>4, <2>5, <2>6
<1>4. TypeOK'
  BY <1>1, <1>2, <1>3 DEF TypeOK, RowRecords
<1>5. AuthorityAgrees'
  BY <1>1, <1>3 DEF AuthorityAgrees, Candidate
<1>6. BindingsHold'
  BY <1>1, <1>3 DEF BindingsHold
<1>7. ReadersHold'
  BY <1>1, <1>2, <1>3 DEF ReadersHold, TypeOK
<1>8. WritersFollow'
  BY <1>1 DEF WritersFollow, Candidate
<1>9. OutcomesHold'
  BY <1>1 DEF OutcomesHold, Outcome, Landed
<1> QED
  BY <1>4, <1>5, <1>6, <1>7, <1>8, <1>9

\* Neither the candidate nor committed truth is claimed, nor what is leased.
LEMMA ClaimReclaimPreserves ==
    ASSUME CheckpointInv, NEW g \in Generations, ClaimReclaim(g)
    PROVE  CheckpointInv'
<1> USE DEF CheckpointInv
<1>1. /\ UNCHANGED <<landed, checkpoint, leases, data, lockFile, worker, unlocked, faults>>
      /\ ~Bound(g) /\ leases[g] = {} /\ ~row[g].writer /\ ~row[g].owner
  BY DEF ClaimReclaim, ledgerVars, fileVars
<1>2. row \in [Generations -> RowRecords] /\ row[g] \in RowRecords
  BY DEF TypeOK, RowRecords
<1>3. /\ row' \in [Generations -> RowRecords]
      /\ row'[g] = [state |-> "deleting", writer |-> row[g].writer, owner |-> row[g].owner]
      /\ \A h \in Generations \ {g} : row'[h] = row[h]
  BY <1>2 DEF ClaimReclaim, RowRecords
<1>4. TypeOK'
  BY <1>1, <1>3 DEF TypeOK, RowRecords
<1>5. AuthorityAgrees'
  BY <1>1, <1>3 DEF AuthorityAgrees, Candidate, Bound
<1>6. BindingsHold'
  BY <1>1, <1>3 DEF BindingsHold
<1>7. ReadersHold'
  BY <1>1, <1>3 DEF ReadersHold, TypeOK
<1>8. WritersFollow'
  BY <1>1 DEF WritersFollow, Candidate
<1>9. OutcomesHold'
  BY <1>1 DEF OutcomesHold, Outcome, Landed
<1> QED
  BY <1>4, <1>5, <1>6, <1>7, <1>8, <1>9

-----------------------------------------------------------------------------
(* The actions.                                                            *)

\* Where a worker may go without a say in the checkpoint.
Calm == {"recover", "discard", "discardUnlocked", "reserve", "abort", "committed", "open",
         "acquire", "failing", "ended", "bind", "refused", "unsure"}

LEMMA CalmSteps ==
    /\ Calm \cup Early \cup Reading \cup {"finish", "close", "write", "commit"} \subseteq Steps
    /\ Calm \cap (Early \cup Reading \cup {"finish", "close", "write", "commit"}) = {}
BY DEF Calm, Early, Steps, Reading, Writing

LEMMA CalmQuiet ==
    ASSUME CheckpointInv, landed \subseteq landed', NEW n \in Generations, NEW pc \in Calm,
           GoTo(n, pc) \/ \E g \in Generations : GoWith(n, pc, g)
    PROVE  Quiet
<1>1. /\ pc \in Steps /\ pc \notin Early \cup Reading \cup {"finish", "close", "write", "commit"}
      /\ worker[n].gen \in Generations
  BY CalmSteps DEF CheckpointInv, TypeOK
<1>2. \E g \in Generations : Moves(n, pc, g, worker[n].outcome)
  BY <1>1, MovesGo DEF CheckpointInv
<1> QED
  BY <1>1, <1>2, QuietMove

LEMMA SettleQuiet ==
    ASSUME CheckpointInv, landed \subseteq landed', NEW n \in Generations,
           NEW o \in {"done", "failed", "cancelled", "failing"},
           o = "done" => Landed,
           \/ Settle(n, "finish", o) /\ o # "failing"
           \/ Settle(n, "close", o) /\ o # "failed" /\ worker[n].pc \in Reading
    PROVE  Quiet
<1>1. {"finish", "close"} \subseteq Steps /\ worker[n].gen \in Generations
  BY CalmSteps DEF CheckpointInv, TypeOK
<1>2. CASE Settle(n, "finish", o) /\ o # "failing"
  <2>1. Moves(n, "finish", worker[n].gen, o)
    BY <1>1, <1>2, MovesGo DEF CheckpointInv
  <2>2. "finish" \notin Reading \cup Early
    BY DEF Reading, Early
  <2> QED
    BY <1>1, <1>2, <2>1, <2>2, QuietMove
<1>3. CASE Settle(n, "close", o) /\ o # "failed" /\ worker[n].pc \in Reading
  <2>1. Moves(n, "close", worker[n].gen, o)
    BY <1>1, <1>3, MovesGo DEF CheckpointInv
  <2>2. "close" \notin Early
    BY DEF Early
  <2> QED
    BY <1>1, <1>3, <2>1, <2>2, QuietMove
<1> QED
  BY <1>2, <1>3

LEMMA CalmPreserves ==
    ASSUME CheckpointInv, UNCHANGED <<ledgerVars, checkpoint, rowVars, data, unlocked>>,
           lockFile' \in [Generations -> {"none", "empty", "valid"}],
           faults' \in 0 .. MaxFaults,
           NEW n \in Generations, NEW pc \in Calm,
           GoTo(n, pc) \/ \E g \in Generations : GoWith(n, pc, g)
    PROVE  CheckpointInv'
<1>1. /\ UNCHANGED <<checkpoint, row, leases, data>> /\ landed \subseteq landed'
      /\ unlocked' \in SUBSET Generations
  BY DEF ledgerVars, rowVars, CheckpointInv, TypeOK
<1>2. Quiet
  BY <1>1, CalmQuiet
<1> QED
  BY <1>1, <1>2, StayPreserves

\* A step of nothing but one worker.
LEMMA SettlePreserves ==
    ASSUME CheckpointInv,
           UNCHANGED <<ledgerVars, checkpoint, rowVars, fileVars, unlocked, faults>>,
           NEW n \in Generations, NEW o \in {"done", "failed", "cancelled", "failing"},
           o = "done" => Landed,
           \/ Settle(n, "finish", o) /\ o # "failing"
           \/ Settle(n, "close", o) /\ o # "failed" /\ worker[n].pc \in Reading
    PROVE  CheckpointInv'
<1>1. /\ UNCHANGED <<checkpoint, row, leases, data>> /\ landed \subseteq landed'
      /\ unlocked' \in SUBSET Generations /\ faults' \in 0 .. MaxFaults
      /\ lockFile' \in [Generations -> {"none", "empty", "valid"}]
  BY DEF ledgerVars, rowVars, fileVars, CheckpointInv, TypeOK
<1>2. Quiet
  BY <1>1, SettleQuiet
<1> QED
  BY <1>1, <1>2, StayPreserves

LEMMA EarlyPreserves ==
    ASSUME CheckpointInv, UNCHANGED <<ledgerVars, checkpoint, rowVars, data, unlocked, faults>>,
           lockFile' \in [Generations -> {"none", "empty", "valid"}],
           NEW n \in Generations, worker[n].pc \in Early, NEW pc \in Early, GoTo(n, pc)
    PROVE  CheckpointInv'
<1>1. /\ UNCHANGED <<checkpoint, row, leases, data>> /\ landed \subseteq landed'
      /\ unlocked' \in SUBSET Generations /\ faults' \in 0 .. MaxFaults
  BY DEF ledgerVars, rowVars, fileVars, CheckpointInv, TypeOK
<1>2. pc \in Steps /\ worker[n].gen \in Generations
  BY CalmSteps DEF CheckpointInv, TypeOK
<1>3. Moves(n, pc, worker[n].gen, worker[n].outcome)
  BY <1>2, MovesGo DEF CheckpointInv
<1>4. pc \notin Reading /\ pc \notin {"write", "commit", "finish", "close"}
  BY DEF Reading, Early
<1>5. Quiet
  BY <1>1, <1>2, <1>3, <1>4, QuietMove
<1> QED
  BY <1>1, <1>5, StayPreserves

LEMMA RecoverPreserves ==
    ASSUME CheckpointInv, NEW n \in Generations, Recover(n)
    PROVE  CheckpointInv'
<1>1. /\ UNCHANGED <<ledgerVars, leases, data, lockFile, unlocked, faults>>
      /\ landed \subseteq landed'
  BY DEF Recover, ledgerVars, fileVars
<1>2. {"failing", "committed", "reserve", "discard"} \subseteq Calm
  BY DEF Calm
<1>3. CASE (\E pc \in {"committed", "failing", "reserve"} : GoTo(n, pc)) /\ UNCHANGED <<checkpoint, row>>
  <2>1. /\ UNCHANGED rowVars /\ lockFile' \in [Generations -> {"none", "empty", "valid"}]
        /\ faults' \in 0 .. MaxFaults
    BY <1>1, <1>3 DEF rowVars, CheckpointInv, TypeOK
  <2> QED
    BY <1>1, <1>2, <1>3, <2>1, CalmPreserves
<1>4. CASE /\ checkpoint.phase = "reserved" /\ Detach(checkpoint.gen)
           /\ GoWith(n, "discard", checkpoint.gen)
  <2>1. checkpoint.gen \in Generations /\ Candidate(checkpoint.gen)
    BY <1>4 DEF CheckpointInv, BindingsHold, Candidate
  <2>2. Quiet
    BY <1>1, <1>2, <1>4, <2>1, CalmQuiet
  <2> QED
    BY <1>1, <1>4, <2>1, <2>2, DetachPreserves
<1> QED
  BY <1>3, <1>4 DEF Recover

LEMMA DiscardedQuiet ==
    ASSUME CheckpointInv, landed \subseteq landed', NEW n \in Generations, Discarded(n)
    PROVE  Quiet
<1>1. {"finish", "reserve"} \subseteq Steps /\ TypeOK
  BY DEF Steps, CheckpointInv
<1>2. {"finish", "reserve"} \cap (Reading \cup Early \cup {"close", "write", "commit"}) = {}
  BY DEF Reading, Early
<1>3. CASE worker[n].gen = n
  <2>1. Moves(n, "finish", n, "cancelled")
    BY <1>1, <1>3, MovesRecord DEF Discarded
  <2> QED
    BY <1>1, <1>2, <2>1, QuietMove
<1>4. CASE worker[n].gen # n
  <2>1. Moves(n, "reserve", n, "none")
    BY <1>1, <1>4, MovesRecord DEF Discarded
  <2> QED
    BY <1>1, <1>2, <2>1, QuietMove
<1> QED
  BY <1>3, <1>4

\* The row and the bytes of g go together, with its lock file or without.
LEMMA DeletionPreserves ==
    ASSUME CheckpointInv, Quiet, NEW g \in Generations,
           \/ DeleteLocked(g) \/ DeleteUnlocked(g)
           \/ UNCHANGED <<row, fileVars>>,
           UNCHANGED <<checkpoint, leases, faults>>, unlocked' \in SUBSET Generations
    PROVE  CheckpointInv'
<1>1. /\ lockFile' \in [Generations -> {"none", "empty", "valid"}] /\ faults' \in 0 .. MaxFaults
  BY DEF DeleteLocked, DeleteUnlocked, fileVars, CheckpointInv, TypeOK
<1>2. CASE UNCHANGED <<row, data>>
  BY <1>1, <1>2, StayPreserves
<1>3. CASE /\ row[g].state = "deleting"
           /\ row' = [row EXCEPT ![g] = NoRow] /\ data' = [data EXCEPT ![g] = "none"]
  BY <1>1, <1>3, DeletePreserves
<1> QED
  BY <1>2, <1>3 DEF DeleteLocked, DeleteUnlocked, fileVars

LEMMA DiscardPreserves ==
    ASSUME CheckpointInv, NEW n \in Generations, Discard(n) \/ DiscardUnlocked(n)
    PROVE  CheckpointInv'
<1>1. /\ UNCHANGED <<checkpoint, leases, faults>> /\ landed \subseteq landed'
      /\ unlocked' \in SUBSET Generations /\ worker[n].gen \in Generations
      /\ "discardUnlocked" \in Calm
  BY DEF Discard, DiscardUnlocked, ledgerVars, CheckpointInv, TypeOK, Calm
<1>2. CASE Discard(n)
  <2>1. Discarded(n) \/ GoTo(n, "discardUnlocked")
    BY <1>2 DEF Discard
  <2>2. Quiet
    BY <1>1, <2>1, DiscardedQuiet, CalmQuiet
  <2>3. CASE DeleteLocked(worker[n].gen) \/ UNCHANGED <<row, fileVars>>
    BY <1>1, <2>2, <2>3, DeletionPreserves
  <2>4. CASE /\ UNCHANGED <<row, data>>
             /\ \E new \in {"none", lockFile[worker[n].gen]} :
                   lockFile' = [lockFile EXCEPT ![worker[n].gen] = new]
    <3>1. lockFile' \in [Generations -> {"none", "empty", "valid"}] /\ faults' \in 0 .. MaxFaults
      BY <1>1, <2>4 DEF CheckpointInv, TypeOK
    <3> QED
      BY <1>1, <2>2, <2>4, <3>1, StayPreserves
  <2> QED
    BY <1>2, <2>3, <2>4 DEF Discard
<1>3. CASE DiscardUnlocked(n)
  <2>1. Quiet
    BY <1>1, <1>3, DiscardedQuiet DEF DiscardUnlocked
  <2>2. DeleteUnlocked(worker[n].gen)
    BY <1>3 DEF DiscardUnlocked
  <2> QED
    BY <1>1, <2>1, <2>2, DeletionPreserves
<1> QED
  BY <1>2, <1>3

LEMMA ReservePreserves ==
    ASSUME CheckpointInv, NEW n \in Generations, Reserve(n) \/ RunPrefix(n)
    PROVE  CheckpointInv'
<1>1. /\ UNCHANGED <<ledgerVars, leases, fileVars, data, unlocked>>
      /\ lockFile' \in [Generations -> {"none", "empty", "valid"}]
      /\ faults' \in 0 .. MaxFaults
  BY FaultIsCounted DEF Reserve, RunPrefix, rowVars, fileVars, CheckpointInv, TypeOK
<1>2. {"failing", "abort"} \subseteq Calm /\ {"prefix", "create"} \subseteq Early
  BY DEF Calm, Early
<1>3. CASE (GoTo(n, "failing") \/ GoTo(n, "abort")) /\ UNCHANGED <<checkpoint, row>>
  <2>1. UNCHANGED rowVars
    BY <1>1, <1>3 DEF rowVars
  <2> QED
    BY <1>1, <1>2, <1>3, <2>1, CalmPreserves
<1>4. CASE RunPrefix(n) /\ GoTo(n, "create")
  <2>1. UNCHANGED <<checkpoint, rowVars, faults>> /\ worker[n].pc \in Early
    BY <1>4, <1>2 DEF RunPrefix, At
  <2> QED
    BY <1>1, <1>2, <1>4, <2>1, EarlyPreserves
<1>5. CASE /\ Reserve(n) /\ checkpoint.phase = "pending"
           /\ checkpoint' = [phase |-> "reserved", gen |-> n, bound |-> FALSE]
           /\ row' = [row EXCEPT ![n] = [state |-> "writing", writer |-> TRUE, owner |-> FALSE]]
           /\ GoTo(n, "prefix") \/ GoTo(n, "failing")
  <2>1. \/ Moves(n, "prefix", worker[n].gen, worker[n].outcome)
        \/ Moves(n, "failing", worker[n].gen, worker[n].outcome)
    BY <1>2, <1>5, CalmSteps, MovesGo DEF CheckpointInv
  <2>2. At(n, "reserve")
    BY <1>5 DEF Reserve
  <2> QED
    BY <1>1, <1>5, <2>1, <2>2, ReservationPreserves
<1>6. CASE Reserve(n) /\ Settle(n, "finish", "cancelled") /\ UNCHANGED <<checkpoint, row, faults>>
  <2>1. UNCHANGED <<ledgerVars, checkpoint, rowVars, fileVars, unlocked, faults>>
    BY <1>1, <1>6 DEF rowVars
  <2> QED
    BY <1>6, <2>1, SettlePreserves
<1> QED
  BY <1>3, <1>4, <1>5, <1>6 DEF Reserve, RunPrefix, rowVars

LEMMA CreatePreserves ==
    ASSUME CheckpointInv, NEW n \in Generations,
           CreateLock(n) \/ FenceLock(n) \/ CreateFile(n)
    PROVE  CheckpointInv'
<1>1. /\ UNCHANGED <<ledgerVars, checkpoint, rowVars, unlocked, faults>>
      /\ lockFile' \in [Generations -> {"none", "empty", "valid"}]
      /\ faults' \in 0 .. MaxFaults /\ worker[n].pc \in Early
  BY DEF CreateLock, FenceLock, CreateFile, CheckpointInv, TypeOK, At, Early
<1>2. "failing" \in Calm /\ {"fence", "file"} \subseteq Early /\ "bind" \in Steps
  BY DEF Calm, Early, Steps, Writing
<1>3. CASE UNCHANGED data /\ (GoTo(n, "fence") \/ GoTo(n, "file"))
  BY <1>1, <1>2, <1>3, EarlyPreserves
<1>4. CASE UNCHANGED data /\ GoTo(n, "failing")
  BY <1>1, <1>2, <1>4, CalmPreserves
<1>5. CASE /\ CreateFile(n) /\ GoTo(n, "bind") /\ data' = [data EXCEPT ![n] = "partial"]
           /\ UNCHANGED lockFile
  <2>1. Moves(n, "bind", worker[n].gen, worker[n].outcome) /\ At(n, "file")
    BY <1>2, <1>5, MovesGo DEF CreateFile, CheckpointInv
  <2> QED
    BY <1>1, <1>5, <2>1, FilePreserves
<1> QED
  BY <1>3, <1>4, <1>5 DEF CreateLock, FenceLock, CreateFile

LEMMA BindPreserves ==
    ASSUME CheckpointInv, NEW n \in Generations, Bind(n)
    PROVE  CheckpointInv'
<1>1. /\ UNCHANGED <<ledgerVars, rowVars, fileVars, data, unlocked>>
      /\ lockFile' \in [Generations -> {"none", "empty", "valid"}]
      /\ faults' \in 0 .. MaxFaults
  BY FaultIsCounted DEF Bind, CheckpointInv, TypeOK, fileVars
<1>2. "refused" \in Calm /\ {"write", "unsure"} \subseteq Steps
  BY DEF Calm, Steps, Writing
<1>3. CASE GoTo(n, "refused") /\ UNCHANGED checkpoint
  BY <1>1, <1>2, <1>3, CalmPreserves
<1>4. CASE /\ Candidate(n) /\ checkpoint' = [checkpoint EXCEPT !.bound = TRUE]
           /\ GoTo(n, "write") \/ GoTo(n, "unsure")
  <2>1. \/ Moves(n, "write", worker[n].gen, worker[n].outcome)
        \/ Moves(n, "unsure", worker[n].gen, worker[n].outcome)
    BY <1>2, <1>4, MovesGo DEF CheckpointInv
  <2> QED
    BY <1>1, <1>4, <2>1, BindingPreserves
<1> QED
  BY <1>3, <1>4 DEF Bind

LEMMA WriteAndProvePreserves ==
    ASSUME CheckpointInv, NEW n \in Generations, WriteAndProve(n)
    PROVE  CheckpointInv'
<1>1. /\ UNCHANGED <<ledgerVars, checkpoint, rowVars, lockFile, unlocked, faults>>
      /\ lockFile' \in [Generations -> {"none", "empty", "valid"}]
      /\ faults' \in 0 .. MaxFaults /\ At(n, "write")
  BY DEF WriteAndProve, CheckpointInv, TypeOK
<1>2. {"refused", "unsure"} \subseteq Calm /\ "commit" \in Steps
  BY DEF Calm, Steps, Writing
<1>3. CASE (GoTo(n, "unsure") \/ GoTo(n, "refused")) /\ UNCHANGED data
  BY <1>1, <1>2, <1>3, CalmPreserves
<1>4. CASE data' = [data EXCEPT ![n] = "whole"] /\ GoTo(n, "commit")
  <2>1. Moves(n, "commit", worker[n].gen, worker[n].outcome)
    BY <1>2, <1>4, MovesGo DEF CheckpointInv
  <2> QED
    BY <1>1, <1>4, <2>1, WholePreserves
<1> QED
  BY <1>3, <1>4 DEF WriteAndProve

LEMMA CommitPreserves ==
    ASSUME CheckpointInv, NEW n \in Generations, Commit(n)
    PROVE  CheckpointInv'
<1>1. /\ UNCHANGED <<ledgerVars, leases, fileVars, data, unlocked>> /\ At(n, "commit")
      /\ lockFile' \in [Generations -> {"none", "empty", "valid"}]
      /\ faults' \in 0 .. MaxFaults
  BY FaultIsCounted DEF Commit, CheckpointInv, TypeOK, fileVars
<1>2. "refused" \in Calm /\ {"committed", "unsure"} \subseteq Steps
  BY DEF Calm, Steps, Writing
<1>3. CASE GoTo(n, "refused") /\ UNCHANGED <<checkpoint, row>>
  <2>1. UNCHANGED rowVars
    BY <1>1, <1>3 DEF rowVars
  <2> QED
    BY <1>1, <1>2, <1>3, <2>1, CalmPreserves
<1>4. CASE /\ CommitAdmitted(n)
           /\ checkpoint' = [checkpoint EXCEPT !.phase = "committed"]
           /\ row' = [row EXCEPT ![n] = [state |-> "ready", writer |-> FALSE, owner |-> TRUE]]
           /\ GoTo(n, "committed") \/ GoTo(n, "unsure")
  <2>1. \/ Moves(n, "committed", worker[n].gen, worker[n].outcome)
        \/ Moves(n, "unsure", worker[n].gen, worker[n].outcome)
    BY <1>2, <1>4, MovesGo DEF CheckpointInv
  <2>2. Candidate(n)
    BY <1>4 DEF CommitAdmitted
  <2> QED
    BY <1>1, <1>4, <2>1, <2>2, CommittedPreserves
<1> QED
  BY <1>3, <1>4 DEF Commit

LEMMA ReconcilePreserves ==
    ASSUME CheckpointInv, NEW n \in Generations, Reconcile(n)
    PROVE  CheckpointInv'
<1>1. /\ UNCHANGED <<ledgerVars, checkpoint, rowVars, unlocked>> /\ landed \subseteq landed'
      /\ faults' \in 0 .. MaxFaults
  BY FaultIsCounted DEF Reconcile, ledgerVars, CheckpointInv, TypeOK
<1>2. PICK pc \in {"abort", "failing"} : GoTo(n, pc)
  BY DEF Reconcile, AfterFailure
<1>3. pc \in Calm /\ pc \in Steps
  BY CalmSteps DEF Calm
<1>4. CASE UNCHANGED fileVars
  <2>1. UNCHANGED data /\ lockFile' \in [Generations -> {"none", "empty", "valid"}]
    BY <1>4 DEF fileVars, CheckpointInv, TypeOK
  <2> QED
    BY <1>1, <1>2, <1>3, <2>1, CalmPreserves
<1>5. CASE /\ checkpoint.phase # "committed" /\ UNCHANGED faults
           /\ data' = [data EXCEPT ![n] = "none"]
           /\ lockFile' = [lockFile EXCEPT ![n] = "none"]
  <2>1. Quiet
    BY <1>1, <1>2, <1>3, CalmQuiet
  <2>2. Moves(n, pc, worker[n].gen, worker[n].outcome)
    BY <1>2, <1>3, MovesGo DEF CheckpointInv
  <2>3. worker'[n].pc \in {"abort", "failing"}
    BY <2>2 DEF Moves
  <2> QED
    BY <1>1, <1>5, <2>1, <2>3, RemovalPreserves
<1> QED
  BY <1>4, <1>5 DEF Reconcile

LEMMA AbortPreserves ==
    ASSUME CheckpointInv, NEW n \in Generations, Abort(n)
    PROVE  CheckpointInv'
<1>1. UNCHANGED <<ledgerVars, leases, fileVars, unlocked, faults>> /\ landed \subseteq landed'
  BY DEF Abort, ledgerVars
<1>2. CASE Candidate(n) /\ Detach(n) /\ GoTo(n, "discard")
  <2>1. "discard" \in Calm
    BY DEF Calm
  <2>2. Quiet
    BY <1>1, <1>2, <2>1, CalmQuiet
  <2> QED
    BY <1>1, <1>2, <2>2, DetachPreserves DEF fileVars
<1>3. CASE Settle(n, "finish", "cancelled") /\ UNCHANGED <<checkpoint, row>>
  <2>1. UNCHANGED rowVars
    BY <1>1, <1>3 DEF rowVars
  <2> QED
    BY <1>1, <1>3, <2>1, SettlePreserves
<1> QED
  BY <1>2, <1>3 DEF Abort

LEMMA OpenPreserves ==
    ASSUME CheckpointInv, NEW n \in Generations, Proceed(n) \/ OpenLock(n)
    PROVE  CheckpointInv'
<1>1. /\ UNCHANGED <<ledgerVars, checkpoint, rowVars, fileVars, data, unlocked, faults>>
      /\ lockFile' \in [Generations -> {"none", "empty", "valid"}]
      /\ faults' \in 0 .. MaxFaults
  BY DEF Proceed, OpenLock, CheckpointInv, TypeOK, fileVars
<1>2. {"open", "acquire", "failing"} \subseteq Calm
  BY DEF Calm
<1>3. CASE GoTo(n, "open") \/ GoTo(n, "failing")
  BY <1>1, <1>2, <1>3, CalmPreserves
<1>4. CASE checkpoint.phase = "committed" /\ GoWith(n, "acquire", checkpoint.gen)
  <2>1. checkpoint.gen \in Generations
    BY <1>4 DEF CheckpointInv, BindingsHold
  <2> QED
    BY <1>1, <1>2, <1>4, <2>1, CalmPreserves
<1>5. CASE Settle(n, "finish", "cancelled") \/ (Landed /\ Settle(n, "finish", "done"))
  BY <1>1, <1>5, SettlePreserves
<1> QED
  BY <1>3, <1>4, <1>5 DEF Proceed, OpenLock

LEMMA AcquireReadPreserves ==
    ASSUME CheckpointInv, NEW n \in Generations, AcquireRead(n)
    PROVE  CheckpointInv'
<1>1. /\ UNCHANGED <<ledgerVars, checkpoint, row, fileVars, data, unlocked, faults>>
      /\ lockFile' \in [Generations -> {"none", "empty", "valid"}]
      /\ faults' \in 0 .. MaxFaults
  BY DEF AcquireRead, CheckpointInv, TypeOK, fileVars
<1>2. "failing" \in Calm /\ "copy" \in Steps
  BY DEF Calm, Steps, Reading
<1>3. CASE GoTo(n, "failing") /\ UNCHANGED leases
  <2>1. UNCHANGED rowVars
    BY <1>1, <1>3 DEF rowVars
  <2> QED
    BY <1>1, <1>2, <1>3, <2>1, CalmPreserves
<1>4. CASE /\ row[worker[n].gen].state = "ready" /\ GoTo(n, "copy")
           /\ leases' = [leases EXCEPT ![worker[n].gen] = @ \cup {n}]
  <2>1. Moves(n, "copy", worker[n].gen, worker[n].outcome)
    BY <1>2, <1>4, MovesGo DEF CheckpointInv
  <2> QED
    BY <1>1, <1>4, <2>1, AcquiredPreserves
<1> QED
  BY <1>3, <1>4 DEF AcquireRead

\* A step of a reader that goes on reading.
LEMMA CopyPreserves ==
    ASSUME CheckpointInv, NEW n \in Generations, Copy(n)
    PROVE  CheckpointInv'
<1>1. /\ UNCHANGED <<ledgerVars, checkpoint, rowVars, fileVars, unlocked, faults>>
      /\ worker[n].pc \in Reading
  BY DEF Copy, At, Reading
<1>2. CASE GoTo(n, "land")
  <2>1. /\ "land" \in Steps /\ "land" \in Reading /\ "land" \notin Early
        /\ worker[n].gen \in Generations
    BY DEF Steps, Reading, Early, CheckpointInv, TypeOK
  <2>2. Moves(n, "land", worker[n].gen, worker[n].outcome)
    BY <1>2, <2>1, MovesGo DEF CheckpointInv
  <2>3. /\ UNCHANGED <<checkpoint, row, leases, data>> /\ landed \subseteq landed'
        /\ unlocked' \in SUBSET Generations /\ faults' \in 0 .. MaxFaults
        /\ lockFile' \in [Generations -> {"none", "empty", "valid"}]
    BY <1>1 DEF ledgerVars, rowVars, fileVars, CheckpointInv, TypeOK
  <2>4. Quiet
    BY <1>1, <2>1, <2>2, <2>3, QuietMove
  <2> QED
    BY <2>3, <2>4, StayPreserves
<1>3. CASE \/ Landed /\ Settle(n, "close", "done")
           \/ Settle(n, "close", "cancelled") \/ Settle(n, "close", "failing")
  BY <1>1, <1>3, SettlePreserves
<1> QED
  BY <1>2, <1>3 DEF Copy

LEMMA LandPreserves ==
    ASSUME CheckpointInv, NEW n \in Generations, Land(n)
    PROVE  CheckpointInv'
<1>1. /\ UNCHANGED <<checkpoint, row, leases, data>> /\ worker[n].pc \in Reading
      /\ unlocked' \in SUBSET Generations /\ faults' \in 0 .. MaxFaults
      /\ lockFile' \in [Generations -> {"none", "empty", "valid"}]
  BY DEF Land, At, Reading, rowVars, fileVars, CheckpointInv, TypeOK
<1>2. CASE Landed /\ Settle(n, "close", "done") /\ UNCHANGED ledgerVars
  BY <1>1, <1>2, SettlePreserves DEF Land
<1>3. CASE Settle(n, "close", "failing") /\ UNCHANGED ledgerVars
  BY <1>1, <1>3, SettlePreserves DEF Land
<1>4. CASE Ledger!Land(Task, n, n) /\ Settle(n, "close", "done")
  <2>1. landed' = landed \cup {Task}
    BY <1>4 DEF Ledger!Land
  <2>2. /\ {"close"} \subseteq Steps /\ worker[n].gen \in Generations
        /\ "close" \notin Early
    BY DEF Steps, Reading, Early, CheckpointInv, TypeOK
  <2>3. Moves(n, "close", worker[n].gen, "done")
    BY <1>4, <2>2, MovesGo DEF CheckpointInv
  <2>4. Quiet
    <3>1. \A m \in Generations : Outcome(worker[m])
      BY DEF CheckpointInv, OutcomesHold
    <3> QED
      BY <1>1, <2>1, <2>2, <2>3, <3>1 DEF Moves, Quiet, OutcomesHold, Outcome, Landed
  <2> QED
    BY <1>1, <2>4, StayPreserves
<1> QED
  BY <1>2, <1>3, <1>4 DEF Land

LEMMA FailPreserves ==
    ASSUME CheckpointInv, NEW n \in Generations, Fail(n)
    PROVE  CheckpointInv'
<1>1. /\ UNCHANGED <<checkpoint, row, leases, data>> /\ landed \subseteq landed'
      /\ unlocked' \in SUBSET Generations /\ faults' \in 0 .. MaxFaults
      /\ lockFile' \in [Generations -> {"none", "empty", "valid"}]
  BY DEF Fail, ledgerVars, rowVars, fileVars, CheckpointInv, TypeOK
<1>2. PICK o \in {"done", "failed", "cancelled"} :
         /\ o = "done" => Landed
         /\ worker' = [worker EXCEPT ![n] = [pc |-> "finish", gen |-> n, outcome |-> o]]
  BY DEF Fail
<1>3. "finish" \in Steps /\ "finish" \notin Reading \cup Early
  BY DEF Steps, Reading, Early
<1>4. Moves(n, "finish", n, o)
  BY <1>2, <1>3, MovesRecord DEF CheckpointInv
<1>5. Quiet
  BY <1>1, <1>2, <1>3, <1>4, QuietMove
<1> QED
  BY <1>1, <1>5, StayPreserves

\* No transaction of the ledger takes a receipt away.
LEMMA ReceiptsStay ==
    ASSUME NEW n \in Generations,
           \/ UNCHANGED ledgerVars \/ Ledger!Submit(Task) \/ Ledger!RequestCancel(Task)
           \/ \E id \in RetryIds : Ledger!Retry(Task, id)
           \/ Ledger!LeaseExpires(Task, n)
           \/ Ledger!ClaimReconciles(Task) \/ Ledger!ClaimExhausts(Task)
           \/ Ledger!ClaimCancels(Task) \/ Ledger!ClaimRuns(Task, n)
           \/ \E outcome, error : Ledger!Finish(Task, n, n, outcome, error)
    PROVE  landed \subseteq landed'
BY DEF ledgerVars, Ledger!Submit, Ledger!RequestCancel, Ledger!Retry, Ledger!ReopenTask,
   Ledger!LeaseExpires, Ledger!ClaimReconciles, Ledger!ClaimExhausts, Ledger!ClaimCancels,
   Ledger!ClaimRuns, Ledger!SettleInClaim, Ledger!Finish

LEMMA FinishPreserves ==
    ASSUME CheckpointInv, NEW n \in Generations, Finish(n) \/ Crash(n) \/ Dispatch(n)
    PROVE  CheckpointInv'
<1>1. /\ UNCHANGED <<checkpoint, row, leases, data>>
      /\ unlocked' \in SUBSET Generations /\ faults' \in 0 .. MaxFaults
      /\ lockFile' \in [Generations -> {"none", "empty", "valid"}]
  BY FaultIsCounted DEF Finish, Crash, Dispatch, rowVars, fileVars, CheckpointInv, TypeOK
<1>2. landed \subseteq landed'
  BY ReceiptsStay DEF Finish, Crash, Dispatch
<1>3. /\ {"recover", "ended"} \subseteq Calm
      /\ GoWith(n, "ended", n) \/ GoTo(n, "recover")
  BY DEF Calm, Finish, Crash, Dispatch
<1>4. Quiet
  BY <1>2, <1>3, CalmQuiet
<1> QED
  BY <1>1, <1>4, StayPreserves

LEMMA ReapPreserves ==
    ASSUME CheckpointInv, NEW g \in Generations, Reap(g)
    PROVE  CheckpointInv'
<1>1. CASE ReconcileDead(g)
  BY <1>1, ReconcileDeadPreserves
<1>2. CASE ClaimReclaim(g)
  BY <1>2, ClaimReclaimPreserves
<1>3. ASSUME UNCHANGED <<ledgerVars, worker>> PROVE Quiet
  BY <1>3, QuietRest DEF ledgerVars
<1>4. CASE ReapLocked(g)
  <2>1. /\ UNCHANGED <<ledgerVars, worker, checkpoint, leases>>
        /\ unlocked' \in SUBSET Generations /\ faults' \in 0 .. MaxFaults
        /\ lockFile' \in [Generations -> {"none", "empty", "valid"}]
    BY <1>4, FaultIsCounted DEF ReapLocked, DeleteLocked, CheckpointInv, TypeOK
  <2>2. /\ row[g].state = "deleting"
        /\ row' = [row EXCEPT ![g] = NoRow] /\ data' = [data EXCEPT ![g] = "none"]
    BY <1>4 DEF ReapLocked, DeleteLocked
  <2> QED
    BY <1>3, <2>1, <2>2, DeletePreserves
<1>5. CASE MissLock(g) \/ SweepLock(g)
  <2>1. /\ UNCHANGED <<ledgerVars, worker, checkpoint, row, leases, data>>
        /\ unlocked' \in SUBSET Generations /\ faults' \in 0 .. MaxFaults
        /\ lockFile' \in [Generations -> {"none", "empty", "valid"}]
    BY <1>5 DEF MissLock, SweepLock, rowVars, fileVars, CheckpointInv, TypeOK
  <2> QED
    BY <1>3, <2>1, StayPreserves
<1>6. CASE ReapUnlocked(g)
  <2>1. /\ UNCHANGED <<ledgerVars, worker, checkpoint, leases, faults>>
        /\ unlocked' \in SUBSET Generations /\ DeleteUnlocked(g)
    BY <1>6 DEF ReapUnlocked, CheckpointInv, TypeOK
  <2> QED
    BY <1>3, <2>1, DeletionPreserves
<1> QED
  BY <1>1, <1>2, <1>4, <1>5, <1>6 DEF Reap

LEMMA ClientPreserves ==
    ASSUME CheckpointInv, NEW n \in Generations,
           \/ Submit \/ RequestCancel \/ DispatchSettles
           \/ \E id \in RetryIds : Retry(id)
           \/ LeaseExpires(n)
    PROVE  CheckpointInv'
<1>1. UNCHANGED <<checkpoint, rowVars, fileVars, worker, unlocked, faults>>
  BY DEF Submit, RequestCancel, DispatchSettles, Retry, LeaseExpires
<1>2. landed \subseteq landed'
  BY ReceiptsStay DEF Submit, RequestCancel, DispatchSettles, Retry, LeaseExpires
<1>3. Quiet
  BY <1>1, <1>2, QuietRest
<1>4. /\ UNCHANGED <<checkpoint, row, leases, data>>
      /\ unlocked' \in SUBSET Generations /\ faults' \in 0 .. MaxFaults
      /\ lockFile' \in [Generations -> {"none", "empty", "valid"}]
  BY <1>1 DEF rowVars, fileVars, CheckpointInv, TypeOK
<1> QED
  BY <1>3, <1>4, StayPreserves

LEMMA InitHolds == Init => CheckpointInv
<1> SUFFICES ASSUME Init PROVE CheckpointInv
  OBVIOUS
<1>1. TypeOK
  BY AttemptsAssumption, FaultsAssumption DEF Init, TypeOK, NoCandidate, NoRow, Steps
<1>2. AuthorityAgrees /\ BindingsHold
  BY DEF Init, AuthorityAgrees, BindingsHold, Candidate, NoCandidate, NoRow
<1>3. ReadersHold /\ WritersFollow /\ OutcomesHold
  BY DEF Init, ReadersHold, WritersFollow, OutcomesHold, Outcome, Reading, Early
<1> QED
  BY <1>1, <1>2, <1>3 DEF CheckpointInv

LEMMA WorkerStepPreserves ==
    ASSUME CheckpointInv, NEW n \in Generations, WorkerStep(n)
    PROVE  CheckpointInv'
BY RecoverPreserves, DiscardPreserves, ReservePreserves, CreatePreserves, BindPreserves,
   WriteAndProvePreserves, CommitPreserves, ReconcilePreserves, AbortPreserves, OpenPreserves,
   AcquireReadPreserves, CopyPreserves, LandPreserves, ClosePreserves, FailPreserves,
   FinishPreserves DEF WorkerStep

LEMMA NextPreserves == CheckpointInv /\ [Next]_vars => CheckpointInv'
<1> SUFFICES ASSUME CheckpointInv, [Next]_vars PROVE CheckpointInv'
  OBVIOUS
<1>1. 1 \in Generations
  BY AttemptsAssumption DEF Generations
<1>2. CASE Submit \/ RequestCancel \/ DispatchSettles \/ \E id \in RetryIds : Retry(id)
  BY <1>1, <1>2, ClientPreserves
<1>3. CASE DeleteCanvas
  BY <1>3, DeleteCanvasPreserves
<1>4. ASSUME NEW n \in Generations,
             LeaseExpires(n) \/ Dispatch(n) \/ Crash(n) \/ WorkerStep(n) \/ Reap(n)
      PROVE  CheckpointInv'
  BY <1>4, ClientPreserves, FinishPreserves, WorkerStepPreserves, ReapPreserves
<1>5. CASE UNCHANGED vars
  <2>1. /\ UNCHANGED <<checkpoint, row, leases, data, worker>> /\ landed \subseteq landed'
        /\ unlocked' \in SUBSET Generations /\ faults' \in 0 .. MaxFaults
        /\ lockFile' \in [Generations -> {"none", "empty", "valid"}]
    BY <1>5 DEF vars, ledgerVars, rowVars, fileVars, CheckpointInv, TypeOK
  <2> QED
    BY <2>1, QuietRest, StayPreserves
<1> QED
  BY <1>2, <1>3, <1>4, <1>5 DEF Next

-----------------------------------------------------------------------------
(* The ledger's transactions, as the task's workers call them.             *)

LEMMA LedgerSame ==
    /\ UNCHANGED ledgerVars => UNCHANGED Ledger!vars
    /\ Ledger!AttemptNumbers = Generations
    /\ Ledger!Terminal = {"done", "failed", "cancelled"}
    /\ {"none", "other"} \subseteq Ledger!Errors
BY DEF ledgerVars, Ledger!vars, Ledger!taskVars, Ledger!AttemptNumbers, Generations,
   Ledger!Terminal, Ledger!Errors

LEMMA WorkerUsesLedger ==
    ASSUME CheckpointInv, NEW n \in Generations, WorkerStep(n) \/ Dispatch(n)
    PROVE  [Ledger!Next]_(Ledger!vars)
<1>1. CASE Finish(n)
  <2>1. CASE UNCHANGED ledgerVars
    BY <2>1, LedgerSame
  <2>2. CASE Ledger!Finish(Task, n, n, worker[n].outcome,
                           IF worker[n].outcome = "failed" THEN "other" ELSE "none")
    <3>1. /\ worker[n].outcome \in Ledger!Terminal
          /\ worker[n].outcome = "done" => Task \in landed
      BY <1>1, LedgerSame DEF Finish, At, CheckpointInv, OutcomesHold, Outcome, Landed
    <3>2. Ledger!OwnerStep(Task, n, n)
      BY <2>2, <3>1, LedgerSame DEF Ledger!OwnerStep
    <3> QED
      BY <3>2, LedgerSame DEF Ledger!Next
  <2> QED
    BY <1>1, <2>1, <2>2 DEF Finish
<1>2. CASE Land(n)
  <2>1. Ledger!Land(Task, n, n) \/ UNCHANGED ledgerVars
    BY <1>2 DEF Land
  <2> QED
    BY <2>1, LedgerSame DEF Ledger!OwnerStep, Ledger!Next
<1>3. CASE Dispatch(n)
  BY <1>3 DEF Dispatch, Ledger!Claim, Ledger!Next
<1>4. CASE WorkerStep(n) /\ ~Finish(n) /\ ~Land(n)
  <2>1. UNCHANGED ledgerVars
    BY <1>4 DEF WorkerStep, Recover, Discard, DiscardUnlocked, Reserve, RunPrefix, CreateLock,
       FenceLock, CreateFile, Bind, WriteAndProve, Commit, Reconcile, Abort, Proceed, OpenLock,
       AcquireRead, Copy, Close, Fail
  <2> QED
    BY <2>1, LedgerSame
<1> QED
  BY <1>1, <1>2, <1>3, <1>4

LEMMA NextUsesLedger == CheckpointInv /\ [Next]_vars => [Ledger!Next]_(Ledger!vars)
<1> SUFFICES ASSUME CheckpointInv, [Next]_vars PROVE [Ledger!Next]_(Ledger!vars)
  OBVIOUS
<1>1. 1 \in Generations
  BY AttemptsAssumption DEF Generations
<1>2. CASE Submit \/ RequestCancel \/ \E id \in RetryIds : Retry(id)
  BY <1>2 DEF Submit, RequestCancel, Retry, Ledger!Next
<1>3. CASE DispatchSettles
  BY <1>1, <1>3 DEF DispatchSettles, Ledger!Claim, Ledger!Next
<1>4. ASSUME NEW n \in Generations, LeaseExpires(n) PROVE Ledger!Next
  BY <1>4, LedgerSame DEF LeaseExpires, Ledger!Next
<1>5. ASSUME NEW n \in Generations, Crash(n) \/ Reap(n) PROVE UNCHANGED ledgerVars
  BY <1>5 DEF Crash, Reap, ReconcileDead, ClaimReclaim, ReapLocked, MissLock, ReapUnlocked,
     SweepLock
<1>6. CASE DeleteCanvas \/ UNCHANGED vars
  BY <1>6, LedgerSame DEF DeleteCanvas, vars
<1> QED
  BY <1>2, <1>3, <1>4, <1>5, <1>6, WorkerUsesLedger, LedgerSame DEF Next

\* A committed checkpoint is left alone by every step but the deletion of
\* its canvas.
LEMMA CommittedStays ==
    ASSUME CheckpointInv, [Next]_vars, checkpoint.phase = "committed"
    PROVE  checkpoint' = checkpoint \/ checkpoint'.phase = "gone"
<1>1. CASE DeleteCanvas
  BY <1>1 DEF DeleteCanvas, NoCandidate
<1>2. ASSUME NEW n \in Generations, Bind(n) \/ Commit(n) \/ Abort(n) PROVE UNCHANGED checkpoint
  BY <1>2 DEF Bind, Commit, CommitAdmitted, Abort, Candidate
<1>3. ASSUME NEW n \in Generations, WorkerStep(n) PROVE UNCHANGED checkpoint
  BY <1>2, <1>3 DEF WorkerStep, Recover, Discard, DiscardUnlocked, Reserve, RunPrefix,
     CreateLock, FenceLock, CreateFile, WriteAndProve, Reconcile, Proceed, OpenLock,
     AcquireRead, Copy, Land, Close, Fail, Finish
<1>4. ASSUME NEW n \in Generations, LeaseExpires(n) \/ Dispatch(n) \/ Crash(n) \/ Reap(n)
      PROVE  UNCHANGED checkpoint
  BY <1>4 DEF LeaseExpires, Dispatch, Crash, Reap, ReconcileDead, ClaimReclaim, ReapLocked,
     MissLock, ReapUnlocked, SweepLock
<1>5. CASE \/ Submit \/ RequestCancel \/ DispatchSettles
           \/ \E id \in RetryIds : Retry(id)
           \/ UNCHANGED vars
  BY <1>5 DEF Submit, RequestCancel, DispatchSettles, Retry, vars
<1> QED
  BY <1>1, <1>3, <1>4, <1>5 DEF Next

-----------------------------------------------------------------------------
(* The theorems.                                                           *)

\* The inductive invariant holds of every interleaving of attempts, clients,
\* reapers and faults.
THEOREM CheckpointInvariant == Spec => []CheckpointInv
BY InitHolds, NextPreserves, PTL DEF Spec

\* Every variable of the checkpoint holds values of its domain.
THEOREM CheckpointTypeCorrect == Spec => []TypeOK
<1>1. CheckpointInv => TypeOK
  BY DEF CheckpointInv
<1> QED
  BY <1>1, CheckpointInvariant, PTL

\* The checkpoint's row, the artifact rows and the bytes agree, so that the
\* transactions of the checkpoint never refuse their own records.
THEOREM AuthorityIsConsistent == Spec => []AuthorityAgrees
<1>1. CheckpointInv => AuthorityAgrees
  BY DEF CheckpointInv
<1> QED
  BY <1>1, CheckpointInvariant, PTL

\* A reader of the checkpoint keeps its artifact, whatever reapers, late
\* writers and the deletion of the canvas do.
THEOREM ReadersKeepCheckpoint == Spec => []ReaderKeepsCheckpoint
<1>1. CheckpointInv => ReaderKeepsCheckpoint
  BY DEF CheckpointInv, TypeOK, AuthorityAgrees, BindingsHold, ReadersHold,
     ReaderKeepsCheckpoint
<1> QED
  BY <1>1, CheckpointInvariant, PTL

\* No attempt, however late, replaces, aborts or retires committed truth.
THEOREM CommittedTruthIsFinal == Spec => EvidenceIsFinal
<1>1. CheckpointInv /\ [Next]_vars =>
         [checkpoint.phase = "committed" =>
             checkpoint' = checkpoint \/ checkpoint'.phase = "gone"]_vars
  BY CommittedStays
<1> QED
  BY <1>1, CheckpointInvariant, PTL DEF Spec, EvidenceIsFinal

\* The workers of a checkpoint task take only steps that the task ledger
\* allows: what is proved of DurableTask holds of these tasks too.
THEOREM CheckpointUsesLedger == Spec => Ledger!Spec
<1>1. Init => Ledger!Init
  BY DEF Init
<1> QED
  BY <1>1, NextUsesLedger, CheckpointInvariant, PTL DEF Spec, Ledger!Spec

-----------------------------------------------------------------------------
(* What is proved of the ledger, for checkpoint tasks.                     *)

Proved == INSTANCE DurableTask_proofs WITH
    Tasks <- {Task}, Owners <- Generations, FencedTasks <- {}, StaleFinal <- {},
    Unreadable <- {Task}

LEMMA SameParts ==
    /\ \A t, n, o : Ledger!Owns(t, n, o) <=> Proved!Owns(t, n, o)
    /\ \A t, n, o : Ledger!HoldsPublicationFence(t, n, o) <=> Proved!HoldsPublicationFence(t, n, o)
    /\ Ledger!Terminal = Proved!Terminal /\ Ledger!Errors = Proved!Errors
BY DEF Ledger!Owns, Proved!Owns, Ledger!HoldsPublicationFence, Proved!HoldsPublicationFence,
   Ledger!Terminal, Proved!Terminal, Ledger!Errors, Proved!Errors

LEMMA SameClientSteps ==
    ASSUME NEW t \in {Task}
    PROVE  /\ Ledger!Submit(t) => Proved!Submit(t)
           /\ Ledger!RequestCancel(t) => Proved!RequestCancel(t)
           /\ \A id \in RetryIds : Ledger!Retry(t, id) => Proved!Retry(t, id)
           /\ \A n : Ledger!LeaseExpires(t, n) => Proved!LeaseExpires(t, n)
<1>1. Ledger!Submit(t) => Proved!Submit(t)
  BY DEF Ledger!Submit, Proved!Submit, Ledger!QueuedAttempt, Proved!QueuedAttempt
<1>2. Ledger!RequestCancel(t) => Proved!RequestCancel(t)
  BY DEF Ledger!RequestCancel, Proved!RequestCancel, Ledger!Open, Proved!Open
<1>3. \A id \in RetryIds : Ledger!Retry(t, id) => Proved!Retry(t, id)
  BY DEF Ledger!Retry, Proved!Retry, Ledger!ReopenTask, Proved!ReopenTask, Ledger!QueuedAttempt,
     Proved!QueuedAttempt, Ledger!AttemptNumbers, Proved!AttemptNumbers
<1>4. \A n : Ledger!LeaseExpires(t, n) => Proved!LeaseExpires(t, n)
  BY DEF Ledger!LeaseExpires, Proved!LeaseExpires, Ledger!taskVars, Proved!taskVars
<1> QED
  BY <1>1, <1>2, <1>3, <1>4

LEMMA SameClaims ==
    ASSUME NEW t \in {Task}
    PROVE  /\ Ledger!ClaimReconciles(t) => Proved!ClaimReconciles(t)
           /\ Ledger!ClaimExhausts(t) => Proved!ClaimExhausts(t)
           /\ Ledger!ClaimCancels(t) => Proved!ClaimCancels(t)
           /\ \A o : Ledger!ClaimRuns(t, o) => Proved!ClaimRuns(t, o)
<1> USE DEF Ledger!Claimable, Proved!Claimable, Ledger!Exhausted, Proved!Exhausted,
            Ledger!Orphaned, Proved!Orphaned, Ledger!ClaimNumber, Proved!ClaimNumber,
            Ledger!ClaimCounters, Proved!ClaimCounters, Ledger!FencedRows, Proved!FencedRows,
            Ledger!QueuedAttempt, Proved!QueuedAttempt, Ledger!AttemptNumbers,
            Proved!AttemptNumbers, Ledger!Open, Proved!Open, Ledger!FindsNoReceipt,
            Proved!FindsNoReceipt
<1>1. \A n, outcome, rowStatus, error :
         Ledger!SettleInClaim(t, n, outcome, rowStatus, error) =>
            Proved!SettleInClaim(t, n, outcome, rowStatus, error)
  BY DEF Ledger!SettleInClaim, Proved!SettleInClaim, Ledger!Emit, Proved!Emit
<1>2. Ledger!ClaimReconciles(t) => Proved!ClaimReconciles(t)
  BY <1>1 DEF Ledger!ClaimReconciles, Proved!ClaimReconciles
<1>3. Ledger!ClaimExhausts(t) => Proved!ClaimExhausts(t)
  BY <1>1 DEF Ledger!ClaimExhausts, Proved!ClaimExhausts
<1>4. Ledger!ClaimCancels(t) => Proved!ClaimCancels(t)
  BY <1>1 DEF Ledger!ClaimCancels, Proved!ClaimCancels
<1>5. \A o : Ledger!ClaimRuns(t, o) => Proved!ClaimRuns(t, o)
  BY DEF Ledger!ClaimRuns, Proved!ClaimRuns
<1> QED
  BY <1>2, <1>3, <1>4, <1>5

LEMMA SameFinish ==
    ASSUME NEW t \in {Task}, NEW n, NEW o, NEW outcome, NEW error,
           Ledger!Finish(t, n, o, outcome, error)
    PROVE  Proved!Finish(t, n, o, outcome, error)
BY DEF Ledger!Finish, Proved!Finish, Ledger!Owns, Proved!Owns, Ledger!Terminal, Proved!Terminal,
   Ledger!Emit, Proved!Emit

LEMMA SameInit == Ledger!Init => Proved!Init
BY DEF Ledger!Init, Proved!Init, Ledger!AttemptNumbers, Proved!AttemptNumbers,
   Ledger!NoAttempt, Proved!NoAttempt

LEMMA SameSteps == [Ledger!Next]_(Ledger!vars) => [Proved!Next]_(Proved!vars)
<1> SUFFICES ASSUME [Ledger!Next]_(Ledger!vars) PROVE [Proved!Next]_(Proved!vars)
  OBVIOUS
<1> USE DEF Ledger!AttemptNumbers, Proved!AttemptNumbers
<1>1. CASE UNCHANGED Ledger!vars
  BY <1>1 DEF Ledger!vars, Proved!vars, Ledger!taskVars, Proved!taskVars
<1>2. ASSUME NEW t \in {Task},
             \/ Ledger!Submit(t) \/ Ledger!RequestCancel(t)
             \/ \E id \in RetryIds : Ledger!Retry(t, id)
             \/ \E n \in 1 .. MaxAttempts : Ledger!LeaseExpires(t, n)
      PROVE  Proved!Next
  BY <1>2, SameClientSteps DEF Proved!Next
<1>3. ASSUME NEW t \in {Task}, NEW o \in Generations, Ledger!Claim(t, o)
      PROVE  Proved!Next
  BY <1>3, SameClaims DEF Ledger!Claim, Proved!Claim, Proved!Next
<1>4. ASSUME NEW t \in {Task}, NEW n \in 1 .. MaxAttempts, NEW o \in Generations,
             Ledger!OwnerStep(t, n, o)
      PROVE  Proved!Next
  <2>1. Ledger!Land(t, n, o) => Proved!Land(t, n, o)
    BY SameParts DEF Ledger!Land, Proved!Land, Ledger!taskVars, Proved!taskVars
  <2>2. \A outcome : Ledger!FinishReplay(t, n, outcome) => Proved!FinishReplay(t, n, outcome)
    BY SameParts DEF Ledger!FinishReplay, Proved!FinishReplay, Ledger!Emit, Proved!Emit,
       Ledger!taskVars, Proved!taskVars
  <2>3. Proved!OwnerStep(t, n, o)
    BY <1>4, <2>1, <2>2, SameFinish, SameParts DEF Ledger!OwnerStep, Proved!OwnerStep
  <2> QED
    BY <2>3 DEF Proved!Next
<1> QED
  BY <1>1, <1>2, <1>3, <1>4 DEF Ledger!Next

LEMMA ProvedAssumptions ==
    /\ MaxAttempts \in Nat \ {0} /\ {} \subseteq {Task}
    /\ NoOwner \notin Generations /\ NoRetry \notin RetryIds
BY AttemptsAssumption, NullsAssumption

LEMMA CheckpointImplementsLedger == Spec => Proved!Spec
<1>1. Init => Proved!Init
  BY SameInit DEF Init
<1>2. CheckpointInv /\ [Next]_vars => [Proved!Next]_(Proved!vars)
  BY NextUsesLedger, SameSteps
<1> QED
  BY <1>1, <1>2, CheckpointInvariant, PTL DEF Spec, Proved!Spec

\* Through two mappings: a checkpoint task, whatever generations it computes,
\* reuses, aborts or loses, settles once per round with one notification, and
\* is done only with a landed result.
THEOREM CheckpointKeepsPromise == Spec => Ledger!KeepsPromise
<1>1. Proved!Spec => Proved!KeepsPromise
  BY ProvedAssumptions, Proved!LedgerKeepsPromise
<1> USE DEF Proved!Open, Ledger!Open, Proved!Promise!Rounds, Ledger!Promise!Rounds
<1>2. Proved!Promise!Init => Ledger!Promise!Init
  BY DEF Proved!Promise!Init, Ledger!Promise!Init
<1>3. Proved!Promise!Next => Ledger!Promise!Next
  <2>1. \A t : Proved!Promise!Open(t) => Ledger!Promise!Open(t)
    BY DEF Proved!Promise!Open, Ledger!Promise!Open
  <2>2. \A t : Proved!Promise!Reopen(t) => Ledger!Promise!Reopen(t)
    BY DEF Proved!Promise!Reopen, Ledger!Promise!Reopen
  <2>3. \A t : Proved!Promise!Write(t) => Ledger!Promise!Write(t)
    BY DEF Proved!Promise!Write, Ledger!Promise!Write
  <2>4. \A t, r, how : Proved!Promise!Settle(t, r, how) => Ledger!Promise!Settle(t, r, how)
    BY DEF Proved!Promise!Settle, Ledger!Promise!Settle
  <2> QED
    BY <2>1, <2>2, <2>3, <2>4 DEF Proved!Promise!Next, Ledger!Promise!Next,
       Proved!Promise!Settled, Ledger!Promise!Settled
<1>4. UNCHANGED Proved!Promise!vars => UNCHANGED Ledger!Promise!vars
  BY DEF Proved!Promise!vars, Ledger!Promise!vars
<1>5. [Proved!Promise!Next]_(Proved!Promise!vars) => [Ledger!Promise!Next]_(Ledger!Promise!vars)
  BY <1>3, <1>4
<1> QED
  BY <1>1, <1>2, <1>5, CheckpointImplementsLedger, PTL DEF Proved!KeepsPromise, Ledger!KeepsPromise,
     Proved!Promise!Spec, Ledger!Promise!Spec

LEMMA SameVars == UNCHANGED Proved!vars => UNCHANGED Ledger!vars
BY DEF Proved!vars, Ledger!vars, Proved!taskVars, Ledger!taskVars

\* A checkpoint task that settled keeps its outcome, however late a superseded
\* attempt commits or fails, until its owner retries it.
THEOREM AttemptsLeaveOutcomes == Spec => Ledger!OutcomeIsFinal
<1> DEFINE Final(Terminal) ==
             \A t \in {Task} :
                taskStatus[t] \in Terminal /\ taskStatus'[t] # taskStatus[t] =>
                    /\ taskStatus[t] # "done"
                    /\ taskStatus'[t] = "queued"
                    /\ lastAttempt'[t] = lastAttempt[t] + 1
<1>1. Proved!Spec => Proved!OutcomeIsFinal
  BY ProvedAssumptions, Proved!OutcomesAreFinal
<1>2. [Final(Proved!Terminal)]_(Proved!vars) => [Final(Ledger!Terminal)]_(Ledger!vars)
  BY SameParts, SameVars
<1> QED
  BY <1>1, <1>2, CheckpointImplementsLedger, PTL DEF Proved!OutcomeIsFinal, Ledger!OutcomeIsFinal

\* A superseded attempt, which may still write the file of its generation,
\* changes neither its row nor its notification.
THEOREM SupersededAttemptsAreSilent == Spec => Ledger!SupersededAttemptIsFrozen
<1> DEFINE Frozen(Numbers, Terminal) ==
             \A t \in {Task}, n \in Numbers :
                attempts[t][n].status \in {"fenced"} \cup Terminal =>
                    /\ attempts'[t][n] = attempts[t][n]
                    /\ inbox'[t][n] = inbox[t][n]
<1>1. Proved!Spec => Proved!SupersededAttemptIsFrozen
  BY ProvedAssumptions, Proved!SupersededOwnersAreSilent
<1>2. [Frozen(Proved!AttemptNumbers, Proved!Terminal)]_(Proved!vars)
         => [Frozen(Ledger!AttemptNumbers, Ledger!Terminal)]_(Ledger!vars)
  BY SameParts, SameVars DEF Proved!AttemptNumbers, Ledger!AttemptNumbers
<1> QED
  BY <1>1, <1>2, CheckpointImplementsLedger, PTL
     DEF Proved!SupersededAttemptIsFrozen, Ledger!SupersededAttemptIsFrozen

\* A cancellation stands until the task settles, and no attempt starts to
\* recover or recompute the checkpoint under it.
THEOREM AttemptsKeepCancellation == Spec => Ledger!CancelSticks
<1> DEFINE Sticks(Numbers, Open) ==
             \A t \in {Task} :
                cancelRequested[t] /\ taskStatus[t] \in Open =>
                    /\ taskStatus'[t] \in Open => cancelRequested'[t]
                    /\ \A n \in Numbers :
                          attempts'[t][n].status = "running" =>
                              attempts[t][n].status = "running"
<1>1. Proved!Spec => Proved!CancelSticks
  BY ProvedAssumptions, Proved!CancelIsNeverLost
<1>2. [Sticks(Proved!AttemptNumbers, Proved!Open)]_(Proved!vars)
         => [Sticks(Ledger!AttemptNumbers, Ledger!Open)]_(Ledger!vars)
  BY SameVars DEF Proved!AttemptNumbers, Ledger!AttemptNumbers, Proved!Open, Ledger!Open
<1> QED
  BY <1>1, <1>2, CheckpointImplementsLedger, PTL DEF Proved!CancelSticks, Ledger!CancelSticks
=============================================================================
