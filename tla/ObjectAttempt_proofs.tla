------------------------ MODULE ObjectAttempt_proofs ------------------------
(***************************************************************************)
(* Theorems about ObjectAttempt, for any runs, readers, reapers and        *)
(* faults.                                                                 *)
(*                                                                         *)
(* A reaper at work on an attempt may have lost its claim long ago.  What  *)
(* makes it harmless is not the claim but that the attempt never leaves    *)
(* the states of a deletion again, that its data and manifest only         *)
(* dwindle, and that no reader whose lease has not lapsed is left on it    *)
(* (CleanerInv).                                                           *)
(***************************************************************************)
EXTENDS ObjectAttempt, TLAPS

RowSet ==
    [state : RowStates, publishing : BOOLEAN, known : SUBSET Members,
     observed : BOOLEAN, complete : BOOLEAN, gone : SUBSET Members,
     holder : Cleaners \cup {None}, live : BOOLEAN, failures : 0 .. MaxDeletes]
PinSet == [attempt : Runs \cup {None}, live : BOOLEAN]
RunPcs ==
    {"idle", "write", "manifest", "prepare", "own", "publish", "cache", "readback",
     "attest", "yield", "keep", "close", "abandon", "observe", "done"}
ReaderSet ==
    [pc : {"idle", "reading", "dead"}, attempt : Runs \cup {None},
     lease : {"none", "live", "past"}, lapsed : BOOLEAN]
CleanerSet ==
    [pc : {"idle", "list", "check", "erase", "acknowledge", "verify"},
     attempt : Runs \cup {None}, seen : SUBSET Members, member : Members]

Domains ==
    /\ row \in [Runs -> RowSet]
    /\ objects \in [Runs -> SUBSET Members]
    /\ flying \subseteq Runs
    /\ cache \in Runs \cup {None}
    /\ kept \in [Runs -> Runs \cup {None}]
    /\ pin \in [Runs -> PinSet]
    /\ run \in [Runs -> RunPcs]
    /\ reader \in [Readers -> ReaderSet]
    /\ cleaner \in [Cleaners -> CleanerSet]
    /\ faults \in 0 .. MaxFaults

\* The states in which objects are missing for good.
Doomed == {"deleting", "verifying", "pending", "deleted", "quarantined"}

\* What an attempt's row says of its objects.
AttemptInv(a) ==
    /\ State(a) = "none" => objects[a] = {} /\ a \notin flying
    /\ State(a) \in {"committed", "published", "superseded"} => Whole \subseteq objects[a]
    /\ row[a].complete =>
          /\ State(a) \notin {"none", "writing"}
          /\ objects[a] \cap Whole \subseteq row[a].known \ row[a].gone
    /\ ~row[a].complete =>
          row[a].gone = {} /\ State(a) \in {"none", "writing", "abandoned", "quarantined"}
    /\ "manifest" \in objects[a] => "shard" \in objects[a]
    /\ State(a) = "deleted" => objects[a] = {} /\ a \notin flying
    /\ State(a) # "quarantined" => row[a].failures < MaxDeletes

\* How far a run has come with its attempt, and when it holds references.
RunInv(r) ==
    /\ At(r, "idle") => State(r) = "none"
    /\ run[r] \in {"write", "manifest", "prepare"} => State(r) = "writing"
    /\ At(r, "manifest") => "shard" \in objects[r]
    /\ At(r, "prepare") => Whole \subseteq objects[r]
    /\ run[r] \in {"own", "publish", "cache"} => State(r) \notin {"none", "writing"}
    /\ pin[r].attempt # None => run[r] \in {"attest", "yield", "keep", "close", "done"}
    /\ kept[r] # None => run[r] \in {"cache", "close", "done"}

\* A reader that relies on its attempt.
Relies(q, a) ==
    reader[q].pc = "reading" /\ ~reader[q].lapsed /\ reader[q].attempt = a

ReaderInv(q) ==
    \A a \in Runs :
        Relies(q, a) =>
            /\ Whole \subseteq objects[a]
            /\ State(a) \in {"published", "superseded", "quarantined"}
            /\ State(a) # "quarantined" => reader[q].lease = "live"

\* A reader at work has an attempt.
ReadsOne(q) == reader[q].pc = "reading" => reader[q].attempt \in Runs

CleanerInv(c) ==
    ~Doing(c, "idle") =>
        /\ Attempt(c) \in Runs
        /\ State(Attempt(c)) \in Doomed
        /\ row[Attempt(c)].complete
        /\ Doing(c, "verify") => Attempt(c) \notin flying
        /\ cleaner[c].pc \in {"check", "erase", "acknowledge"} =>
              objects[Attempt(c)] \cap Whole \subseteq cleaner[c].seen
        /\ Doing(c, "erase") /\ "manifest" \in objects[Attempt(c)] =>
              cleaner[c].member = "manifest"
        /\ Doing(c, "acknowledge") =>
              cleaner[c].member \notin Whole \/ cleaner[c].member \notin objects[Attempt(c)]
        /\ \A q \in Readers : ~Relies(q, Attempt(c))

\* Nothing but what is published has references.
RefInv == \A a \in Runs : Referenced(a) <=> State(a) = "published"

\* The inductive invariant.
AttemptsInv ==
    /\ Domains /\ RefInv
    /\ \A a \in Runs : AttemptInv(a)
    /\ \A r \in Runs : RunInv(r)
    /\ \A q \in Readers : ReaderInv(q) /\ ReadsOne(q)
    /\ \A c \in Cleaners : CleanerInv(c)

-----------------------------------------------------------------------------
(* What leaves each part of the invariant alone.                           *)

\* The transition of an attempt's row keeps its inventory, and its state
\* moves, if at all, as references come and go or as it is given up.
Shifts(a) ==
    /\ row'[a].known = row[a].known /\ row'[a].complete = row[a].complete
    /\ row'[a].gone = row[a].gone /\ row'[a].failures = row[a].failures
    /\ \/ row'[a].state = row[a].state
       \/ row[a].state = "committed" /\ row'[a].state = "published"
       \/ row[a].state = "published" /\ row'[a].state = "superseded"
       \/ row[a].state \in {"writing", "committed"} /\ row'[a].state = "abandoned"
       \/ row[a].state \notin {"none", "published", "deleted"} /\ row'[a].state = "quarantined"

LEMMA AttemptShifts ==
    ASSUME NEW a \in Runs, AttemptInv(a), Shifts(a), objects'[a] = objects[a],
           a \in flying' => a \in flying
    PROVE  AttemptInv(a)'
BY DEF AttemptInv, Shifts, State

LEMMA RunStays ==
    ASSUME NEW r \in Runs, RunInv(r), run'[r] = run[r],
           State(r) \in {"none", "writing"} \/ State(r)' \in {"none", "writing"}
               => State(r)' = State(r),
           run[r] \in {"manifest", "prepare"} =>
               objects[r] \cap Whole \subseteq objects'[r],
           pin'[r].attempt \in {pin[r].attempt, None}, kept'[r] \in {kept[r], None}
    PROVE  RunInv(r)'
BY DEF RunInv, At, Whole

LEMMA ReaderStays ==
    ASSUME NEW q \in Readers, ReaderInv(q), ReadsOne(q), reader'[q] = reader[q],
           \A a \in Runs : Relies(q, a) =>
               /\ Shifts(a) /\ objects[a] \cap Whole \subseteq objects'[a]
               /\ row'[a].state = "quarantined" => State(a) = "quarantined"
    PROVE  ReaderInv(q)' /\ ReadsOne(q)'
<1>1. ReadsOne(q)'
  BY DEF ReadsOne
<1>2. ReaderInv(q)'
  BY DEF ReaderInv, Relies, Shifts, State, Whole
<1> QED
  BY <1>1, <1>2

LEMMA CleanerStays ==
    ASSUME NEW c \in Cleaners, CleanerInv(c), cleaner'[c] = cleaner[c],
           \A a \in Runs : State(a) \in Doomed =>
               /\ State(a)' \in Doomed
               /\ row[a].complete => row'[a].complete
               /\ objects'[a] \cap Whole \subseteq objects[a]
               /\ a \in flying' => a \in flying,
           \A q \in Readers, a \in Runs :
               State(a) \in Doomed /\ Relies(q, a)' => Relies(q, a)
    PROVE  CleanerInv(c)'
BY DEF CleanerInv, Doing, Attempt, Whole

\* Rows, attempts and cleaners are safe where objects only stay.
LEMMA QuietStep ==
    ASSUME AttemptsInv, Domains', UNCHANGED <<objects, cleaner>>, flying' \subseteq flying,
           \A a \in Runs : Shifts(a),
           \A q \in Readers, a \in Runs :
               Relies(q, a)' /\ State(a) \in Doomed => Relies(q, a)
    PROVE  /\ \A a \in Runs : AttemptInv(a)'
           /\ \A c \in Cleaners : CleanerInv(c)'
<1>1. \A a \in Runs : AttemptInv(a)'
  BY AttemptShifts DEF AttemptsInv
<1>2. ASSUME NEW c \in Cleaners PROVE CleanerInv(c)'
  <2>1. ASSUME NEW a \in Runs, State(a) \in Doomed
        PROVE  /\ State(a)' \in Doomed
               /\ row[a].complete => row'[a].complete
               /\ objects'[a] \cap Whole \subseteq objects[a]
               /\ a \in flying' => a \in flying
    BY <2>1 DEF Shifts, State, Doomed
  <2> QED
    BY <2>1, CleanerStays DEF AttemptsInv
<1> QED
  BY <1>1, <1>2

\* The attempt b lost a reference and got none; nothing else changed hands.
LEMMA DroppedRefs ==
    ASSUME Domains, NEW rows \in [Runs -> RowSet], NEW b, row' = Dropped(rows, b),
           \A a \in Runs \ {b} : Referenced(a)' <=> rows[a].state = "published",
           b \in Runs /\ Referenced(b)' => rows[b].state = "published"
    PROVE  /\ row' \in [Runs -> RowSet]
           /\ \A a \in Runs : Referenced(a)' <=> row'[a].state = "published"
           /\ \A a \in Runs :
                 \/ row'[a] = rows[a]
                 \/ /\ rows[a].state = "published" /\ row'[a].state = "superseded"
                    /\ row'[a].known = rows[a].known /\ row'[a].complete = rows[a].complete
                    /\ row'[a].gone = rows[a].gone /\ row'[a].failures = rows[a].failures
<1> DEFINE Old(a) == [rows[a] EXCEPT !.state = "superseded", !.holder = None, !.live = FALSE]
<1>1. ASSUME NEW a \in Runs
      PROVE  /\ Old(a) \in RowSet /\ Old(a).state = "superseded"
             /\ Old(a).known = rows[a].known /\ Old(a).complete = rows[a].complete
             /\ Old(a).gone = rows[a].gone /\ Old(a).failures = rows[a].failures
  <2>1. PICK w \in RowSet : w = rows[a]
    OBVIOUS
  <2>2. PICK new : new = [w EXCEPT !.state = "superseded", !.holder = None, !.live = FALSE]
    OBVIOUS
  <2>3. new \in RowSet /\ new.state = "superseded" /\ new.known = w.known
        /\ new.complete = w.complete /\ new.gone = w.gone /\ new.failures = w.failures
    BY <2>2 DEF RowSet, RowStates
  <2> QED
    BY <2>1, <2>2, <2>3
<1>2. row' = [a \in Runs |->
          IF a = b /\ rows[a].state = "published" /\ ~Referenced(a)' THEN Old(a) ELSE rows[a]]
  BY DEF Dropped
<1> HIDE DEF Old
<1> QED
  BY <1>1, <1>2
\* A step that at most hands references over.
LEMMA ReferenceStep ==
    ASSUME AttemptsInv, Domains', RefInv', UNCHANGED <<objects, cleaner, reader>>,
           flying' \subseteq flying,
           \A a \in Runs :
               Shifts(a) /\ (row'[a].state = "quarantined" => State(a) = "quarantined"),
           \A r \in Runs : RunInv(r)'
    PROVE  AttemptsInv'
<1>1. \A q \in Readers, a \in Runs : Relies(q, a)' <=> Relies(q, a)
  BY DEF Relies
<1>2. /\ \A a \in Runs : AttemptInv(a)'
      /\ \A c \in Cleaners : CleanerInv(c)'
  BY <1>1, QuietStep
<1>3. \A q \in Readers : ReaderInv(q)' /\ ReadsOne(q)'
  BY ReaderStays DEF AttemptsInv
<1> QED
  BY <1>2, <1>3 DEF AttemptsInv

LEMMA SameShifts == \A a \in Runs : row'[a] = row[a] => Shifts(a)
BY DEF Shifts

\* A step of the run r that changes no row.
LEMMA RunGoes ==
    ASSUME AttemptsInv, NEW r \in Runs, NEW pc \in RunPcs, GoTo(r, pc)
    PROVE  /\ run' \in [Runs -> RunPcs] /\ run'[r] = pc
           /\ \A s \in Runs \ {r} : run'[s] = run[s]
BY DEF GoTo, AttemptsInv, Domains

LEMMA OthersRun ==
    ASSUME AttemptsInv, NEW r \in Runs, RunInv(r)', UNCHANGED objects,
           \A s \in Runs \ {r} :
               /\ Shifts(s) /\ run'[s] = run[s]
               /\ pin'[s].attempt \in {pin[s].attempt, None} /\ kept'[s] \in {kept[s], None}
               /\ State(s) \in {"none", "writing"} => State(s)' = State(s)
    PROVE  \A s \in Runs : RunInv(s)'
<1>1. ASSUME NEW s \in Runs \ {r} PROVE RunInv(s)'
  <2>1. State(s)' \in {"none", "writing"} => State(s)' = State(s)
    BY DEF Shifts, State
  <2> QED
    BY <1>1, <2>1, RunStays DEF AttemptsInv
<1> QED
  BY <1>1

\* A pin on what the cache names adds no attempt to those referred to.
LEMMA PinTaken ==
    ASSUME AttemptsInv, NEW r \in Runs, Acquire(r), pin[r].attempt = None,
           UNCHANGED <<row, cache, kept>>
    PROVE  /\ pin' \in [Runs -> PinSet] /\ pin'[r].attempt # None
           /\ \A s \in Runs \ {r} : pin'[s] = pin[s]
           /\ RefInv'
<1>1. /\ cache \in Runs /\ pin' = [pin EXCEPT ![r] = [attempt |-> cache, live |-> TRUE]]
      /\ cache # None
  BY DEF Acquire, AttemptsInv, Domains
<1>2. /\ pin' \in [Runs -> PinSet] /\ pin'[r].attempt = cache
      /\ \A s \in Runs \ {r} : pin'[s] = pin[s]
  BY <1>1 DEF AttemptsInv, Domains, PinSet
<1>3. \A a \in Runs : Referenced(a)' <=> Referenced(a)
  BY <1>1, <1>2, NoneAssumption DEF Referenced
<1> QED
  BY <1>1, <1>2, <1>3 DEF AttemptsInv, RefInv, State

LEMMA HitPreserves ==
    ASSUME AttemptsInv, NEW r \in Runs, Hit(r)
    PROVE  AttemptsInv'
<1>1. /\ run[r] = "idle" /\ pin[r].attempt = None /\ kept[r] = None
      /\ UNCHANGED <<row, objects, flying, cache, kept, reader, cleaner, faults>>
  BY DEF Hit, At, AttemptsInv, RunInv
<1>2. /\ pin' \in [Runs -> PinSet] /\ pin'[r].attempt # None
      /\ \A s \in Runs \ {r} : pin'[s] = pin[s]
      /\ RefInv'
  BY <1>1, PinTaken DEF Hit
<1>3. PICK pc \in {"keep", "attest"} : GoTo(r, pc)
  BY DEF Hit
<1>4. /\ run' \in [Runs -> RunPcs] /\ run'[r] = pc
      /\ \A s \in Runs \ {r} : run'[s] = run[s]
  BY <1>3, RunGoes DEF RunPcs
<1>5. Domains'
  BY <1>1, <1>2, <1>4 DEF AttemptsInv, Domains
<1>6. RunInv(r)'
  BY <1>1, <1>4 DEF RunInv, At
<1>7. \A s \in Runs : RunInv(s)'
  BY <1>1, <1>2, <1>4, <1>6, SameShifts, OthersRun DEF State
<1> QED
  BY <1>1, <1>2, <1>5, <1>7, SameShifts, ReferenceStep DEF State

LEMMA ReadBackPreserves ==
    ASSUME AttemptsInv, NEW r \in Runs, ReadBack(r)
    PROVE  AttemptsInv'
<1>1. /\ run[r] = "readback" /\ pin[r].attempt = None /\ kept[r] = None
      /\ UNCHANGED <<row, objects, flying, cache, kept, reader, cleaner>>
      /\ faults' \in 0 .. MaxFaults
  BY BoundsAssumption DEF ReadBack, At, AttemptsInv, RunInv, Domains, Fault
<1>2. /\ pin' \in [Runs -> PinSet] /\ (pin'[r].attempt # None => At(r, "attest")')
      /\ \A s \in Runs \ {r} : pin'[s] = pin[s]
      /\ RefInv'
  <2>1. CASE Acquire(r) /\ GoTo(r, "attest")
    <3>1. At(r, "attest")'
      BY <2>1, RunGoes DEF At, RunPcs
    <3> QED
      BY <1>1, <2>1, <3>1, PinTaken
  <2>2. CASE UNCHANGED pin
    BY <1>1, <2>2 DEF AttemptsInv, Domains, RefInv, Referenced, State
  <2> QED
    BY <2>1, <2>2 DEF ReadBack
<1>3. PICK pc \in {"attest", "abandon"} : GoTo(r, pc)
  BY DEF ReadBack
<1>4. /\ run' \in [Runs -> RunPcs] /\ run'[r] = pc
      /\ \A s \in Runs \ {r} : run'[s] = run[s]
  BY <1>3, RunGoes DEF RunPcs
<1>5. Domains'
  BY <1>1, <1>2, <1>4 DEF AttemptsInv, Domains
<1>6. RunInv(r)'
  BY <1>1, <1>2, <1>4 DEF RunInv, At
<1>7. \A s \in Runs : RunInv(s)'
  BY <1>1, <1>2, <1>4, <1>6, SameShifts, OthersRun DEF State
<1> QED
  BY <1>1, <1>2, <1>5, <1>7, SameShifts, ReferenceStep DEF State
LEMMA DropStep ==
    ASSUME AttemptsInv, NEW b, row' = Dropped(row, b),
           \A a \in Runs \ {b} : Referenced(a)' <=> Referenced(a),
           b \in Runs /\ Referenced(b)' => Referenced(b)
    PROVE  /\ row' \in [Runs -> RowSet] /\ RefInv'
           /\ \A a \in Runs :
                 /\ Shifts(a)
                 /\ row'[a].state = "quarantined" => State(a) = "quarantined"
                 /\ State(a) \in {"none", "writing"} => State(a)' = State(a)
<1>1. /\ row \in [Runs -> RowSet] /\ Domains
      /\ \A a \in Runs : Referenced(a) <=> row[a].state = "published"
  BY DEF AttemptsInv, Domains, RefInv, State
<1>2. /\ row' \in [Runs -> RowSet]
      /\ \A a \in Runs : Referenced(a)' <=> row'[a].state = "published"
      /\ \A a \in Runs :
            \/ row'[a] = row[a]
            \/ /\ row[a].state = "published" /\ row'[a].state = "superseded"
               /\ row'[a].known = row[a].known /\ row'[a].complete = row[a].complete
               /\ row'[a].gone = row[a].gone /\ row'[a].failures = row[a].failures
  BY <1>1, DroppedRefs
<1> QED
  BY <1>2 DEF RefInv, State, Shifts

LEMMA UnpinStep ==
    ASSUME AttemptsInv, NEW r \in Runs, Unpin(r), UNCHANGED <<cache, kept>>
    PROVE  /\ pin' \in [Runs -> PinSet] /\ pin'[r].attempt = None
           /\ \A s \in Runs \ {r} : pin'[s] = pin[s]
           /\ row' \in [Runs -> RowSet] /\ RefInv'
           /\ \A a \in Runs :
                 /\ Shifts(a)
                 /\ row'[a].state = "quarantined" => State(a) = "quarantined"
                 /\ State(a) \in {"none", "writing"} => State(a)' = State(a)
<1>1. /\ pin' \in [Runs -> PinSet] /\ pin'[r].attempt = None
      /\ \A s \in Runs \ {r} : pin'[s] = pin[s]
  BY DEF Unpin, NoPin, AttemptsInv, Domains, PinSet
<1>2. PICK b : b = pin[r].attempt
  OBVIOUS
<1>3. \A a \in Runs \ {b} : Referenced(a)' <=> Referenced(a)
  BY <1>1, <1>2, NoneAssumption DEF Referenced
<1>4. b \in Runs /\ Referenced(b)' => Referenced(b)
  BY <1>2 DEF Referenced
<1>5. row' = Dropped(row, b)
  BY <1>2 DEF Unpin
<1> QED
  BY <1>1, <1>3, <1>4, <1>5, DropStep
LEMMA ClosePreserves ==
    ASSUME AttemptsInv, NEW r \in Runs, Close(r)
    PROVE  AttemptsInv'
<1>1. /\ run[r] = "close"
      /\ UNCHANGED <<objects, flying, cache, kept, reader, cleaner>>
      /\ faults' \in 0 .. MaxFaults
  BY BoundsAssumption DEF Close, At, AttemptsInv, Domains, Fault
<1>2. /\ pin' \in [Runs -> PinSet]
      /\ \A s \in Runs \ {r} : pin'[s] = pin[s]
      /\ row' \in [Runs -> RowSet] /\ RefInv'
      /\ \A a \in Runs :
            /\ Shifts(a)
            /\ row'[a].state = "quarantined" => State(a) = "quarantined"
            /\ State(a) \in {"none", "writing"} => State(a)' = State(a)
  <2>1. CASE Unpin(r)
    BY <1>1, <2>1, UnpinStep
  <2>2. CASE UNCHANGED <<pin, row>>
    BY <1>1, <2>2, SameShifts DEF AttemptsInv, Domains, RefInv, Referenced, State
  <2> QED
    BY <2>1, <2>2 DEF Close
<1>3. /\ run' \in [Runs -> RunPcs] /\ run'[r] = "done"
      /\ \A s \in Runs \ {r} : run'[s] = run[s]
  BY RunGoes DEF Close, RunPcs
<1>4. Domains'
  BY <1>1, <1>2, <1>3 DEF AttemptsInv, Domains
<1>5. RunInv(r)'
  BY <1>1, <1>3 DEF RunInv, At
<1>6. \A s \in Runs : RunInv(s)'
  BY <1>1, <1>2, <1>3, <1>5, OthersRun
<1> QED
  BY <1>1, <1>2, <1>4, <1>6, ReferenceStep

LEMMA AttestPreserves ==
    ASSUME AttemptsInv, NEW r \in Runs, Attest(r)
    PROVE  AttemptsInv'
<1>1. /\ run[r] = "attest"
      /\ UNCHANGED <<objects, flying, cache, kept, reader, cleaner, faults>>
  BY DEF Attest, At
<1>2. PICK pc \in {"close", "yield", "idle", "abandon"} :
         /\ GoTo(r, pc)
         /\ \/ pc \in {"close", "yield"} /\ UNCHANGED <<row, pin>>
            \/ Unpin(r) /\ (pc = "idle" => State(r) = "none")
  BY DEF Attest
<1>3. /\ pin' \in [Runs -> PinSet]
      /\ pc \in {"idle", "abandon"} => pin'[r].attempt = None
      /\ \A s \in Runs \ {r} : pin'[s] = pin[s]
      /\ row' \in [Runs -> RowSet] /\ RefInv'
      /\ \A a \in Runs :
            /\ Shifts(a)
            /\ row'[a].state = "quarantined" => State(a) = "quarantined"
            /\ State(a) \in {"none", "writing"} => State(a)' = State(a)
  <2>1. CASE Unpin(r)
    BY <1>1, <2>1, UnpinStep
  <2>2. CASE pc \in {"close", "yield"} /\ UNCHANGED <<pin, row>>
    BY <1>1, <2>2, SameShifts DEF AttemptsInv, Domains, RefInv, Referenced, State
  <2> QED
    BY <1>2, <2>1, <2>2
<1>4. /\ run' \in [Runs -> RunPcs] /\ run'[r] = pc
      /\ \A s \in Runs \ {r} : run'[s] = run[s]
  BY <1>2, RunGoes DEF RunPcs
<1>5. Domains'
  BY <1>1, <1>3, <1>4 DEF AttemptsInv, Domains
<1>6. kept[r] = None
  BY <1>1 DEF AttemptsInv, RunInv
<1>7. pc = "idle" => State(r)' = "none"
  BY <1>2, <1>3
<1>8. RunInv(r)'
  BY <1>1, <1>2, <1>3, <1>4, <1>6, <1>7 DEF RunInv, At
<1>9. \A s \in Runs : RunInv(s)'
  BY <1>1, <1>3, <1>4, <1>8, OthersRun
<1> QED
  BY <1>1, <1>3, <1>5, <1>9, ReferenceStep
LEMMA KeepPinnedPreserves ==
    ASSUME AttemptsInv, NEW r \in Runs, KeepPinned(r)
    PROVE  AttemptsInv'
<1>1. /\ run[r] = "keep" /\ kept[r] = None
      /\ UNCHANGED <<row, objects, flying, cache, pin, reader, cleaner, faults>>
  BY DEF KeepPinned, At, AttemptsInv, RunInv
<1>2. /\ kept' \in [Runs -> Runs \cup {None}]
      /\ \A s \in Runs \ {r} : kept'[s] = kept[s]
      /\ \A a \in Runs : Referenced(a)' <=> Referenced(a)
  <2>1. CASE UNCHANGED kept
    BY <1>1, <2>1 DEF AttemptsInv, Domains, Referenced
  <2>2. CASE pin[r].attempt # None /\ kept' = [kept EXCEPT ![r] = pin[r].attempt]
    <3>1. pin[r].attempt \in Runs
      BY <2>2 DEF AttemptsInv, Domains, PinSet
    <3> QED
      BY <1>1, <2>2, <3>1, NoneAssumption DEF AttemptsInv, Domains, Referenced
  <2> QED
    BY <2>1, <2>2 DEF KeepPinned
<1>3. /\ run' \in [Runs -> RunPcs] /\ run'[r] = "close"
      /\ \A s \in Runs \ {r} : run'[s] = run[s]
  BY RunGoes DEF KeepPinned, RunPcs
<1>4. Domains' /\ RefInv'
  BY <1>1, <1>2, <1>3 DEF AttemptsInv, Domains, RefInv, State
<1>5. RunInv(r)'
  BY <1>1, <1>3 DEF RunInv, At
<1>6. \A s \in Runs : RunInv(s)'
  BY <1>1, <1>2, <1>3, <1>5, SameShifts, OthersRun DEF State
<1> QED
  BY <1>1, <1>4, <1>6, SameShifts, ReferenceStep DEF State

LEMMA PublishedRow ==
    ASSUME AttemptsInv, NEW r \in Runs, NEW rows, rows = Published(r)
    PROVE  /\ rows \in [Runs -> RowSet] /\ rows[r].state = "published"
           /\ rows[r].known = row[r].known /\ rows[r].complete = row[r].complete
           /\ rows[r].gone = row[r].gone /\ rows[r].failures = row[r].failures
           /\ \A s \in Runs \ {r} : rows[s] = row[s]
<1> DEFINE New == [row[r] EXCEPT !.state = "published", !.publishing = FALSE]
<1>0. row[r] \in RowSet
  BY DEF AttemptsInv, Domains
<1>1. /\ New \in RowSet /\ New.state = "published"
      /\ New.known = row[r].known /\ New.complete = row[r].complete
      /\ New.gone = row[r].gone /\ New.failures = row[r].failures
  BY <1>0 DEF RowSet, RowStates
<1>2. rows = [row EXCEPT ![r] = New]
  BY DEF Published
<1> HIDE DEF New
<1> QED
  BY <1>1, <1>2 DEF AttemptsInv, Domains

LEMMA OwnPreserves ==
    ASSUME AttemptsInv, NEW r \in Runs, Own(r)
    PROVE  AttemptsInv'
<1>1. /\ run[r] = "own" /\ kept[r] = None /\ pin[r].attempt = None
      /\ UNCHANGED <<objects, flying, cache, pin, reader, cleaner>>
      /\ faults' \in 0 .. MaxFaults
  BY BoundsAssumption DEF Own, At, AttemptsInv, RunInv, Domains, Fault
<1>2. CASE /\ State(r) = "committed" /\ kept' = [kept EXCEPT ![r] = r]
           /\ row' = Published(r) /\ GoTo(r, "cache")
  <2>1. /\ row' \in [Runs -> RowSet] /\ row'[r].state = "published"
        /\ row'[r].known = row[r].known /\ row'[r].complete = row[r].complete
        /\ row'[r].gone = row[r].gone /\ row'[r].failures = row[r].failures
        /\ \A s \in Runs \ {r} : row'[s] = row[s]
    BY <1>2, PublishedRow
  <2>2. /\ kept' \in [Runs -> Runs \cup {None}] /\ kept'[r] = r
        /\ \A s \in Runs \ {r} : kept'[s] = kept[s]
    BY <1>2 DEF AttemptsInv, Domains
  <2>3. /\ run' \in [Runs -> RunPcs] /\ run'[r] = "cache"
        /\ \A s \in Runs \ {r} : run'[s] = run[s]
    BY <1>2, RunGoes DEF RunPcs
  <2>4. Domains'
    BY <1>1, <2>1, <2>2, <2>3 DEF AttemptsInv, Domains
  <2>5. Referenced(r)' /\ \A a \in Runs \ {r} : Referenced(a)' <=> Referenced(a)
    BY <1>1, <2>2, NoneAssumption DEF Referenced
  <2>6. RefInv'
    BY <2>1, <2>5 DEF AttemptsInv, RefInv, State
  <2>7. \A a \in Runs :
           /\ Shifts(a) /\ (row'[a].state = "quarantined" => State(a) = "quarantined")
           /\ State(a) \in {"none", "writing"} => State(a)' = State(a)
    BY <1>2, <2>1 DEF Shifts, State
  <2>8. RunInv(r)'
    BY <1>1, <2>1, <2>3 DEF RunInv, At, State
  <2>9. \A s \in Runs : RunInv(s)'
    BY <1>1, <2>2, <2>3, <2>7, <2>8, OthersRun
  <2> QED
    BY <1>1, <2>4, <2>6, <2>7, <2>9, ReferenceStep
<1>3. CASE UNCHANGED <<row, kept>> /\ GoTo(r, "abandon")
  <2>1. /\ run' \in [Runs -> RunPcs] /\ run'[r] = "abandon"
        /\ \A s \in Runs \ {r} : run'[s] = run[s]
    BY <1>3, RunGoes DEF RunPcs
  <2>2. Domains' /\ RefInv'
    BY <1>1, <1>3, <2>1 DEF AttemptsInv, Domains, RefInv, Referenced, State
  <2>3. RunInv(r)'
    BY <1>1, <1>3, <2>1 DEF RunInv, At
  <2>4. \A s \in Runs : RunInv(s)'
    BY <1>1, <1>3, <2>1, <2>3, SameShifts, OthersRun DEF State
  <2> QED
    BY <1>1, <1>3, <2>2, <2>4, SameShifts, ReferenceStep DEF State
<1> QED
  BY <1>2, <1>3 DEF Own
\* Setting an attempt aside takes its readers' leases, and harms nobody.
LEMMA QuarantineStep ==
    ASSUME AttemptsInv, NEW a \in Runs, Quarantine(a), State(a) # "none",
           UNCHANGED <<objects, cache, kept, pin>>
    PROVE  /\ row' \in [Runs -> RowSet] /\ reader' \in [Readers -> ReaderSet] /\ RefInv'
           /\ \A b \in Runs : Shifts(b)
           /\ \A b \in Runs \ {a} : row'[b] = row[b]
           /\ \A q \in Readers : ReaderInv(q)' /\ ReadsOne(q)'
           /\ \A q \in Readers, b \in Runs : Relies(q, b)' => Relies(q, b)
<1>1. CASE UNCHANGED <<row, reader>>
  <2>1. \A q \in Readers, b \in Runs : Relies(q, b)' <=> Relies(q, b)
    BY <1>1 DEF Relies
  <2>2. \A q \in Readers : ReaderInv(q)' /\ ReadsOne(q)'
    BY <1>1, <2>1 DEF AttemptsInv, ReaderInv, ReadsOne, State
  <2>3. RefInv' /\ row' \in [Runs -> RowSet] /\ reader' \in [Readers -> ReaderSet]
    BY <1>1 DEF AttemptsInv, Domains, RefInv, Referenced, State
  <2> QED
    BY <1>1, <2>1, <2>2, <2>3, SameShifts
<1>2. CASE /\ State(a) # "deleted" /\ ~Referenced(a)
           /\ row' = [row EXCEPT ![a].state = "quarantined", ![a].publishing = FALSE,
                                 ![a].holder = None, ![a].live = FALSE]
           /\ reader' = [q \in Readers |->
                 IF reader[q].attempt = a THEN Released(q) ELSE reader[q]]
  <2> DEFINE New == [row[a] EXCEPT !.state = "quarantined", !.publishing = FALSE,
                                   !.holder = None, !.live = FALSE]
  <2>0. row[a] \in RowSet
    BY DEF AttemptsInv, Domains
  <2>1. /\ New \in RowSet /\ New.state = "quarantined"
        /\ New.known = row[a].known /\ New.complete = row[a].complete
        /\ New.gone = row[a].gone /\ New.failures = row[a].failures
    BY <2>0 DEF RowSet, RowStates
  <2>2. row' = [row EXCEPT ![a] = New]
    BY <1>2
  <2> HIDE DEF New
  <2>3. /\ row' \in [Runs -> RowSet] /\ row'[a] = New
        /\ \A b \in Runs \ {a} : row'[b] = row[b]
    BY <2>1, <2>2 DEF AttemptsInv, Domains
  <2>4. State(a) # "published"
    BY <1>2 DEF AttemptsInv, RefInv
  <2>5. \A b \in Runs : Shifts(b)
    BY <1>2, <2>1, <2>3, <2>4 DEF Shifts, State
  <2>6. \A b \in Runs : Referenced(b)' <=> Referenced(b)
    BY DEF Referenced
  <2>7. RefInv'
    BY <1>2, <2>1, <2>3, <2>4, <2>6 DEF AttemptsInv, RefInv, State
  <2>8. ASSUME NEW q \in Readers
        PROVE  /\ reader'[q] \in ReaderSet
               /\ reader'[q].pc = "reading" =>
                     /\ reader[q].pc = "reading" /\ reader'[q].lapsed = reader[q].lapsed
                     /\ reader'[q].attempt = reader[q].attempt
                     /\ reader[q].attempt # a => reader'[q].lease = reader[q].lease
    <3>1. reader[q] \in ReaderSet
      BY DEF AttemptsInv, Domains
    <3>2. CASE reader[q].attempt = a /\ reader[q].pc = "reading"
      <4>1. reader'[q] = [reader[q] EXCEPT !.lease = "none"]
        BY <1>2, <3>2 DEF Released
      <4> QED
        BY <3>1, <3>2, <4>1 DEF ReaderSet
    <3>3. CASE reader[q].attempt = a /\ reader[q].pc # "reading"
      <4>1. reader'[q] = NotReading
        BY <1>2, <3>3 DEF Released
      <4> QED
        BY <4>1 DEF ReaderSet, NotReading
    <3>4. CASE reader[q].attempt # a
      BY <1>2, <3>1, <3>4
    <3> QED
      BY <3>2, <3>3, <3>4
  <2>9. \A q \in Readers, b \in Runs : Relies(q, b)' => Relies(q, b)
    BY <2>8 DEF Relies
  <2>10. ASSUME NEW q \in Readers PROVE ReaderInv(q)' /\ ReadsOne(q)'
    <3>1. ReadsOne(q)'
      BY <2>8 DEF AttemptsInv, ReadsOne
    <3>2. ASSUME NEW b \in Runs, Relies(q, b)'
          PROVE  /\ Whole \subseteq objects'[b]
                 /\ row'[b].state \in {"published", "superseded", "quarantined"}
                 /\ row'[b].state # "quarantined" => reader'[q].lease = "live"
      <4>1. Relies(q, b)
        BY <2>9, <3>2
      <4>2. CASE b = a
        BY <2>1, <2>3, <4>1, <4>2 DEF AttemptsInv, ReaderInv
      <4>3. CASE b # a
        BY <2>3, <2>8, <3>2, <4>1, <4>3 DEF AttemptsInv, ReaderInv, State, Relies
      <4> QED
        BY <4>2, <4>3
    <3> QED
      BY <3>1, <3>2 DEF ReaderInv, State
  <2> QED
    BY <1>2, <2>3, <2>5, <2>7, <2>8, <2>9, <2>10
<1> QED
  BY <1>1, <1>2 DEF Quarantine
LEMMA PutCachePreserves ==
    ASSUME AttemptsInv, NEW r \in Runs, PutCache(r)
    PROVE  AttemptsInv'
<1>1. /\ run[r] \in {"publish", "cache"} /\ pin[r].attempt = None
      /\ run[r] = "publish" => kept[r] = None
      /\ State(r) \notin {"none", "writing"}
      /\ UNCHANGED <<objects, flying, kept, pin, cleaner>>
      /\ faults' \in 0 .. MaxFaults
  BY BoundsAssumption DEF PutCache, At, AttemptsInv, RunInv, Domains, Fault
<1>2. PICK pc \in {"readback", "done"} :
         GoTo(r, pc) /\ (pc = "readback" => run[r] = "publish")
  BY DEF PutCache, At
<1>3. /\ run' \in [Runs -> RunPcs] /\ run'[r] = pc
      /\ \A s \in Runs \ {r} : run'[s] = run[s]
  BY <1>2, RunGoes DEF RunPcs
<1>4. RunInv(r)'
  BY <1>1, <1>2, <1>3 DEF RunInv, At
<1>5. CASE /\ Attested(r) /\ cache' = r /\ UNCHANGED reader
           /\ row' = IF cache \in {r, None} THEN Published(r) ELSE Dropped(Published(r), cache)
  <2>1. PICK rows : rows = Published(r)
    OBVIOUS
  <2>2. /\ rows \in [Runs -> RowSet] /\ rows[r].state = "published"
        /\ rows[r].known = row[r].known /\ rows[r].complete = row[r].complete
        /\ rows[r].gone = row[r].gone /\ rows[r].failures = row[r].failures
        /\ \A s \in Runs \ {r} : rows[s] = row[s]
    BY <2>1, PublishedRow
  <2>3. PICK b : b = cache
    OBVIOUS
  <2>4. Referenced(r)' /\ \A a \in Runs \ {r, b} : Referenced(a)' <=> Referenced(a)
    BY <1>1, <1>5, <2>3 DEF Referenced
  <2>5. \A a \in Runs : Referenced(a)' => Referenced(a) \/ a = r
    BY <1>1, <1>5 DEF Referenced
  <2>6. \A a \in Runs : Referenced(a) <=> row[a].state = "published"
    BY DEF AttemptsInv, RefInv, State
  <2>7. /\ row' \in [Runs -> RowSet]
        /\ \A a \in Runs : Referenced(a)' <=> row'[a].state = "published"
        /\ \A a \in Runs :
              \/ row'[a] = rows[a]
              \/ /\ rows[a].state = "published" /\ row'[a].state = "superseded"
                 /\ row'[a].known = rows[a].known /\ row'[a].complete = rows[a].complete
                 /\ row'[a].gone = rows[a].gone /\ row'[a].failures = rows[a].failures
    <3>1. CASE cache \in {r, None}
      <4>1. row' = rows
        BY <1>5, <2>1, <3>1
      <4>2. \A a \in Runs \ {r} : Referenced(a)' <=> Referenced(a)
        BY <2>3, <2>4, <3>1, NoneAssumption
      <4> QED
        BY <2>2, <2>4, <2>6, <4>1, <4>2
    <3>2. CASE cache \notin {r, None}
      <4>1. row' = Dropped(rows, b)
        BY <1>5, <2>1, <2>3, <3>2
      <4>2. \A a \in Runs \ {b} : Referenced(a)' <=> rows[a].state = "published"
        BY <2>2, <2>4, <2>6
      <4>3. b \in Runs /\ Referenced(b)' => rows[b].state = "published"
        BY <2>2, <2>5, <2>6
      <4> QED
        BY <2>2, <4>1, <4>2, <4>3, DroppedRefs DEF AttemptsInv
    <3> QED
      BY <3>1, <3>2
  <2>8. row[r].state \in {"committed", "published"}
    BY <1>5 DEF Attested, State
  <2>9. \A a \in Runs :
           /\ Shifts(a)
           /\ row'[a].state = "quarantined" => State(a) = "quarantined"
           /\ a # r /\ State(a) \in {"none", "writing"} => State(a)' = State(a)
    <3>1. row'[r] = rows[r]
      BY <2>4, <2>7
    <3> QED
      BY <2>2, <2>7, <2>8, <3>1 DEF Shifts, State
  <2>10. Domains' /\ RefInv'
    BY <1>1, <1>3, <1>5, <2>7 DEF AttemptsInv, Domains, RefInv, State
  <2>11. \A s \in Runs : RunInv(s)'
    BY <1>1, <1>3, <1>4, <2>9, OthersRun
  <2> QED
    BY <1>1, <1>5, <2>9, <2>10, <2>11, ReferenceStep
<1>6. CASE Quarantine(r) /\ UNCHANGED cache
  <2>1. /\ row' \in [Runs -> RowSet] /\ reader' \in [Readers -> ReaderSet] /\ RefInv'
        /\ \A b \in Runs : Shifts(b)
        /\ \A b \in Runs \ {r} : row'[b] = row[b]
        /\ \A q \in Readers : ReaderInv(q)' /\ ReadsOne(q)'
        /\ \A q \in Readers, b \in Runs : Relies(q, b)' => Relies(q, b)
    BY <1>1, <1>6, QuarantineStep
  <2>2. Domains'
    BY <1>1, <1>3, <1>6, <2>1 DEF AttemptsInv, Domains
  <2>3. \A s \in Runs : RunInv(s)'
    BY <1>1, <1>3, <1>4, <2>1, OthersRun DEF State
  <2>4. /\ \A a \in Runs : AttemptInv(a)'
        /\ \A c \in Cleaners : CleanerInv(c)'
    BY <1>1, <2>1, <2>2, QuietStep
  <2> QED
    BY <2>1, <2>2, <2>3, <2>4 DEF AttemptsInv
<1>7. CASE UNCHANGED <<row, cache, reader>>
  <2>1. Domains' /\ RefInv'
    BY <1>1, <1>3, <1>7 DEF AttemptsInv, Domains, RefInv, Referenced, State
  <2>2. \A s \in Runs : RunInv(s)'
    BY <1>1, <1>3, <1>4, <1>7, SameShifts, OthersRun DEF State
  <2> QED
    BY <1>1, <1>7, <2>1, <2>2, SameShifts, ReferenceStep DEF State
<1> QED
  BY <1>5, <1>6, <1>7 DEF PutCache

LEMMA ForgetPreserves ==
    ASSUME AttemptsInv, NEW r \in Runs, Forget(r)
    PROVE  AttemptsInv'
<1>1. /\ kept' \in [Runs -> Runs \cup {None}] /\ kept'[r] = None
      /\ \A s \in Runs \ {r} : kept'[s] = kept[s]
      /\ UNCHANGED <<objects, flying, cache, pin, run, reader, cleaner, faults>>
  BY DEF Forget, AttemptsInv, Domains
<1>2. PICK b : b = kept[r]
  OBVIOUS
<1>3. row' = Dropped(row, b)
  BY <1>2 DEF Forget
<1>4. /\ \A a \in Runs \ {b} : Referenced(a)' <=> Referenced(a)
      /\ b \in Runs /\ Referenced(b)' => Referenced(b)
  BY <1>1, <1>2, NoneAssumption DEF Referenced
<1>5. /\ row' \in [Runs -> RowSet] /\ RefInv'
      /\ \A a \in Runs :
            /\ Shifts(a)
            /\ row'[a].state = "quarantined" => State(a) = "quarantined"
            /\ State(a) \in {"none", "writing"} => State(a)' = State(a)
  BY <1>3, <1>4, DropStep
<1>6. Domains'
  BY <1>1, <1>5 DEF AttemptsInv, Domains
<1>7. \A s \in Runs : RunInv(s)'
  <2>1. \A s \in Runs : State(s)' \in {"none", "writing"} => State(s)' = State(s)
    BY <1>5 DEF Shifts, State
  <2> QED
    BY <1>1, <1>5, <2>1, RunStays DEF AttemptsInv
<1> QED
  BY <1>1, <1>5, <1>6, <1>7, ReferenceStep

LEMMA EvictPreserves ==
    ASSUME AttemptsInv, Evict
    PROVE  AttemptsInv'
<1>1. cache' = None /\ UNCHANGED <<objects, flying, kept, pin, run, reader, cleaner, faults>>
  BY DEF Evict
<1>2. PICK b : b = cache
  OBVIOUS
<1>3. row' = Dropped(row, b)
  BY <1>2 DEF Evict
<1>4. /\ \A a \in Runs \ {b} : Referenced(a)' <=> Referenced(a)
      /\ b \in Runs /\ Referenced(b)' => Referenced(b)
  BY <1>1, <1>2, NoneAssumption DEF Referenced
<1>5. /\ row' \in [Runs -> RowSet] /\ RefInv'
      /\ \A a \in Runs :
            /\ Shifts(a)
            /\ row'[a].state = "quarantined" => State(a) = "quarantined"
            /\ State(a) \in {"none", "writing"} => State(a)' = State(a)
  BY <1>3, <1>4, DropStep
<1>6. Domains'
  BY <1>1, <1>5 DEF AttemptsInv, Domains
<1>7. \A s \in Runs : RunInv(s)'
  <2>1. \A s \in Runs : State(s)' \in {"none", "writing"} => State(s)' = State(s)
    BY <1>5 DEF Shifts, State
  <2> QED
    BY <1>1, <1>5, <2>1, RunStays DEF AttemptsInv
<1> QED
  BY <1>1, <1>5, <1>6, <1>7, ReferenceStep
\* Leases that are past go, with the references of pins.
LEMMA ExpirePreserves ==
    ASSUME AttemptsInv, NEW a \in Runs, Expire(a)
    PROVE  AttemptsInv'
<1>1. UNCHANGED <<objects, flying, cache, kept, run, cleaner, faults>>
  BY DEF Expire
<1>2. /\ pin' \in [Runs -> PinSet]
      /\ \A r \in Runs : pin'[r].attempt \in {pin[r].attempt, None}
      /\ \A r \in Runs : pin'[r] = pin[r] \/ pin[r] = [attempt |-> a, live |-> FALSE]
  BY DEF Expire, NoPin, AttemptsInv, Domains, PinSet
<1>3. /\ \A b \in Runs \ {a} : Referenced(b)' <=> Referenced(b)
      /\ Referenced(a)' => Referenced(a)
  <2>1. \A r \in Runs, b \in Runs : pin'[r].attempt = b => pin[r].attempt = b
    BY <1>2, NoneAssumption
  <2>2. \A r \in Runs, b \in Runs \ {a} : pin[r].attempt = b => pin'[r].attempt = b
    BY <1>2
  <2> QED
    BY <1>1, <2>1, <2>2 DEF Referenced
<1>4. /\ row' \in [Runs -> RowSet] /\ RefInv'
      /\ \A b \in Runs :
            /\ Shifts(b)
            /\ row'[b].state = "quarantined" => State(b) = "quarantined"
            /\ State(b) \in {"none", "writing"} => State(b)' = State(b)
  <2>1. CASE \E r \in Runs : pin[r] = [attempt |-> a, live |-> FALSE]
    <3>1. row' = Dropped(row, a)
      BY <2>1 DEF Expire
    <3> QED
      BY <1>3, <3>1, DropStep
  <2>2. CASE ~\E r \in Runs : pin[r] = [attempt |-> a, live |-> FALSE]
    <3>1. row' = row
      BY <2>2 DEF Expire
    <3>2. \A b \in Runs : Referenced(b)' <=> Referenced(b)
      BY <1>1, <1>2, <2>2 DEF Referenced
    <3> QED
      BY <3>1, <3>2, SameShifts DEF AttemptsInv, Domains, RefInv, State
  <2> QED
    BY <2>1, <2>2
<1>5. reader' = [q \in Readers |->
          IF reader[q].attempt = a /\ reader[q].lease = "past" THEN Released(q) ELSE reader[q]]
  BY DEF Expire
<1>6. ASSUME NEW q \in Readers
      PROVE  /\ reader'[q] \in ReaderSet
             /\ reader'[q].pc = "reading" =>
                   /\ reader[q].pc = "reading" /\ reader'[q].lapsed = reader[q].lapsed
                   /\ reader'[q].attempt = reader[q].attempt
                   /\ reader[q].lease = "live" => reader'[q].lease = "live"
  <2>1. reader[q] \in ReaderSet
    BY DEF AttemptsInv, Domains
  <2>2. CASE reader'[q] = reader[q]
    BY <2>1, <2>2
  <2>3. CASE reader[q].lease = "past" /\ reader'[q] = Released(q)
    <3>1. CASE reader[q].pc = "reading"
      <4>1. reader'[q] = [reader[q] EXCEPT !.lease = "none"]
        BY <2>3, <3>1 DEF Released
      <4> QED
        BY <2>1, <2>3, <3>1, <4>1 DEF ReaderSet
    <3>2. CASE reader[q].pc # "reading"
      <4>1. reader'[q] = NotReading
        BY <2>3, <3>2 DEF Released
      <4> QED
        BY <4>1 DEF ReaderSet, NotReading
    <3> QED
      BY <3>1, <3>2
  <2> QED
    BY <1>5, <2>2, <2>3
<1>7. \A q \in Readers, b \in Runs : Relies(q, b)' => Relies(q, b)
  BY <1>6 DEF Relies
<1>8. ASSUME NEW q \in Readers PROVE ReaderInv(q)' /\ ReadsOne(q)'
  <2>1. ReadsOne(q)'
    BY <1>6 DEF AttemptsInv, ReadsOne
  <2>2. ASSUME NEW b \in Runs, Relies(q, b)'
        PROVE  /\ Whole \subseteq objects'[b]
               /\ row'[b].state \in {"published", "superseded", "quarantined"}
               /\ row'[b].state # "quarantined" => reader'[q].lease = "live"
    <3>1. Relies(q, b)
      BY <1>7, <2>2
    <3>2. /\ Whole \subseteq objects[b]
          /\ State(b) \in {"published", "superseded", "quarantined"}
          /\ State(b) # "quarantined" => reader[q].lease = "live"
      BY <3>1 DEF AttemptsInv, ReaderInv
    <3>3. reader'[q].pc = "reading"
      BY <2>2 DEF Relies
    <3> QED
      BY <1>1, <1>4, <1>6, <3>2, <3>3 DEF Shifts, State
  <2> QED
    BY <2>1, <2>2 DEF ReaderInv, State
<1>9. Domains'
  BY <1>1, <1>2, <1>4, <1>5, <1>6 DEF AttemptsInv, Domains
<1>10. /\ \A b \in Runs : AttemptInv(b)'
       /\ \A c \in Cleaners : CleanerInv(c)'
  BY <1>1, <1>4, <1>7, <1>9, QuietStep
<1>11. \A s \in Runs : RunInv(s)'
  <2>1. \A s \in Runs : State(s)' \in {"none", "writing"} => State(s)' = State(s)
    BY <1>4 DEF Shifts, State
  <2> QED
    BY <1>1, <1>2, <1>4, <2>1, RunStays DEF AttemptsInv
<1> QED
  BY <1>4, <1>8, <1>9, <1>10, <1>11 DEF AttemptsInv

-----------------------------------------------------------------------------
(* The steps of a run with its own attempt.                                *)

\* A step that rewrites the row of an attempt on which nobody relies.
LEMMA OneRowStep ==
    ASSUME AttemptsInv, Domains', NEW a \in Runs, UNCHANGED <<objects, flying, reader, cleaner>>,
           \A b \in Runs \ {a} : row'[b] = row[b],
           AttemptInv(a)', State(a) \notin Doomed, \A q \in Readers : ~Relies(q, a),
           RefInv', \A r \in Runs : RunInv(r)'
    PROVE  AttemptsInv'
<1>1. \A b \in Runs : AttemptInv(b)'
  BY AttemptShifts, SameShifts DEF AttemptsInv
<1>2. \A q \in Readers : ReaderInv(q)' /\ ReadsOne(q)'
  BY ReaderStays, SameShifts DEF AttemptsInv, State
<1>3. \A c \in Cleaners : CleanerInv(c)'
  BY CleanerStays DEF AttemptsInv, Relies, State
<1> QED
  BY <1>1, <1>2, <1>3 DEF AttemptsInv

\* A step on the objects of an attempt, or on the requests for them.
LEMMA ObjectStep ==
    ASSUME AttemptsInv, Domains', NEW a \in Runs, UNCHANGED <<row, cache, kept, pin, reader, cleaner>>,
           \A b \in Runs \ {a} : objects'[b] = objects[b],
           flying' \subseteq flying \cup {a}, AttemptInv(a)',
           objects[a] \cap Whole \subseteq objects'[a],
           State(a) \in Doomed =>
               objects'[a] \cap Whole \subseteq objects[a] /\ (a \in flying' => a \in flying),
           \A r \in Runs : RunInv(r)'
    PROVE  AttemptsInv'
<1>1. \A b \in Runs : AttemptInv(b)'
  BY AttemptShifts, SameShifts DEF AttemptsInv
<1>2. \A q \in Readers : ReaderInv(q)' /\ ReadsOne(q)'
  BY ReaderStays, SameShifts DEF AttemptsInv, State
<1>3. \A c \in Cleaners : CleanerInv(c)'
  BY CleanerStays DEF AttemptsInv, Relies, State
<1>4. RefInv'
  BY DEF AttemptsInv, RefInv, Referenced, State
<1> QED
  BY <1>1, <1>2, <1>3, <1>4 DEF AttemptsInv

LEMMA AllocatePreserves ==
    ASSUME AttemptsInv, NEW r \in Runs, Allocate(r)
    PROVE  AttemptsInv'
<1>1. /\ run[r] = "idle" /\ State(r) = "none" /\ kept[r] = None /\ pin[r].attempt = None
      /\ UNCHANGED <<objects, flying, cache, kept, pin, reader, cleaner, faults>>
  BY DEF Allocate, At, AttemptsInv, RunInv
<1> DEFINE New == [NoRow EXCEPT !.state = "writing", !.publishing = TRUE]
<1>2. /\ New \in RowSet /\ New.state = "writing" /\ New.gone = {} /\ New.complete = FALSE
      /\ New.failures = 0
  <2>1. /\ NoRow \in RowSet /\ NoRow.gone = {} /\ NoRow.complete = FALSE
        /\ NoRow.failures = 0
    BY BoundsAssumption DEF NoRow, RowSet, RowStates
  <2> QED
    BY <2>1 DEF RowSet, RowStates
<1>3. row' = [row EXCEPT ![r] = New]
  BY DEF Allocate
<1> HIDE DEF New
<1>4. /\ row' \in [Runs -> RowSet] /\ row'[r] = New
      /\ \A s \in Runs \ {r} : row'[s] = row[s]
  BY <1>2, <1>3 DEF AttemptsInv, Domains
<1>5. /\ run' \in [Runs -> RunPcs] /\ run'[r] = "write"
      /\ \A s \in Runs \ {r} : run'[s] = run[s]
  BY RunGoes DEF Allocate, RunPcs
<1>6. Domains'
  BY <1>1, <1>4, <1>5 DEF AttemptsInv, Domains
<1>7. RefInv'
  BY <1>1, <1>2, <1>4 DEF AttemptsInv, RefInv, Referenced, State
<1>8. AttemptInv(r)'
  BY <1>1, <1>2, <1>4, BoundsAssumption DEF AttemptsInv, AttemptInv, State
<1>9. RunInv(r)'
  BY <1>1, <1>2, <1>4, <1>5 DEF RunInv, At, State
<1>10. \A s \in Runs : RunInv(s)'
  BY <1>1, <1>4, <1>5, <1>9, SameShifts, OthersRun DEF State
<1>11. State(r) \notin Doomed /\ \A q \in Readers : ~Relies(q, r)
  BY <1>1 DEF AttemptsInv, ReaderInv, Doomed
<1> QED
  BY <1>1, <1>4, <1>6, <1>7, <1>8, <1>10, <1>11, OneRowStep

LEMMA WriteShardPreserves ==
    ASSUME AttemptsInv, NEW r \in Runs, WriteShard(r)
    PROVE  AttemptsInv'
<1>1. /\ run[r] = "write" /\ State(r) = "writing" /\ kept[r] = None /\ pin[r].attempt = None
      /\ UNCHANGED <<row, cache, kept, pin, reader, cleaner>>
      /\ flying' \subseteq flying \cup {r} /\ faults' \in 0 .. MaxFaults
  BY BoundsAssumption DEF WriteShard, At, AttemptsInv, RunInv, Domains, Fault
<1>2. /\ objects' \in [Runs -> SUBSET Members]
      /\ objects'[r] = objects[r] \cup {"shard"}
      /\ \A s \in Runs \ {r} : objects'[s] = objects[s]
  BY DEF WriteShard, AttemptsInv, Domains, Members
<1>3. /\ run' \in [Runs -> RunPcs] /\ run'[r] = "manifest"
      /\ \A s \in Runs \ {r} : run'[s] = run[s]
  BY RunGoes DEF WriteShard, RunPcs
<1>4. Domains'
  BY <1>1, <1>2, <1>3 DEF AttemptsInv, Domains
<1>5. AttemptInv(r)'
  BY <1>1, <1>2 DEF AttemptsInv, AttemptInv, State
<1>6. ASSUME NEW s \in Runs PROVE RunInv(s)'
  <2>1. CASE s = r
    BY <1>1, <1>2, <1>3, <2>1 DEF RunInv, At, State
  <2>2. CASE s # r
    BY <1>1, <1>2, <1>3, <2>2, RunStays DEF AttemptsInv, State
  <2> QED
    BY <2>1, <2>2
<1> QED
  BY <1>1, <1>2, <1>4, <1>5, <1>6, ObjectStep DEF Doomed

LEMMA WriteManifestPreserves ==
    ASSUME AttemptsInv, NEW r \in Runs, WriteManifest(r)
    PROVE  AttemptsInv'
<1>1. /\ run[r] = "manifest" /\ State(r) = "writing" /\ "shard" \in objects[r]
      /\ kept[r] = None /\ pin[r].attempt = None
      /\ UNCHANGED <<row, flying, cache, kept, pin, reader, cleaner, faults>>
  BY DEF WriteManifest, At, AttemptsInv, RunInv
<1>2. /\ objects' \in [Runs -> SUBSET Members]
      /\ objects'[r] = objects[r] \cup {"manifest"}
      /\ \A s \in Runs \ {r} : objects'[s] = objects[s]
  BY DEF WriteManifest, AttemptsInv, Domains, Members
<1>3. /\ run' \in [Runs -> RunPcs] /\ run'[r] = "prepare"
      /\ \A s \in Runs \ {r} : run'[s] = run[s]
  BY RunGoes DEF WriteManifest, RunPcs
<1>4. Domains'
  BY <1>1, <1>2, <1>3 DEF AttemptsInv, Domains
<1>5. AttemptInv(r)'
  BY <1>1, <1>2 DEF AttemptsInv, AttemptInv, State
<1>6. ASSUME NEW s \in Runs PROVE RunInv(s)'
  <2>1. CASE s = r
    BY <1>1, <1>2, <1>3, <2>1 DEF RunInv, At, State, Whole
  <2>2. CASE s # r
    BY <1>1, <1>2, <1>3, <2>2, RunStays DEF AttemptsInv, State
  <2> QED
    BY <2>1, <2>2
<1> QED
  BY <1>1, <1>2, <1>4, <1>5, <1>6, ObjectStep DEF Doomed

LEMMA GiveUpPreserves ==
    ASSUME AttemptsInv, NEW r \in Runs, GiveUp(r)
    PROVE  AttemptsInv'
<1>1. /\ State(r) = "writing" /\ kept[r] = None /\ pin[r].attempt = None
      /\ UNCHANGED <<row, objects, cache, kept, pin, reader, cleaner>>
      /\ flying' \subseteq flying \cup {r} /\ faults' \in 0 .. MaxFaults
  BY BoundsAssumption DEF GiveUp, AttemptsInv, RunInv, Domains, Fault
<1>2. /\ run' \in [Runs -> RunPcs] /\ run'[r] = "abandon"
      /\ \A s \in Runs \ {r} : run'[s] = run[s]
  BY RunGoes DEF GiveUp, RunPcs
<1>3. Domains'
  BY <1>1, <1>2 DEF AttemptsInv, Domains
<1>4. AttemptInv(r)'
  BY <1>1 DEF AttemptsInv, AttemptInv, State
<1>5. ASSUME NEW s \in Runs PROVE RunInv(s)'
  <2>1. CASE s = r
    BY <1>1, <1>2, <2>1 DEF RunInv, At, State
  <2>2. CASE s # r
    BY <1>1, <1>2, <2>2, RunStays DEF AttemptsInv, State
  <2> QED
    BY <2>1, <2>2
<1> QED
  BY <1>1, <1>3, <1>4, <1>5, ObjectStep DEF Doomed

LEMMA LateWriteEndsPreserves ==
    ASSUME AttemptsInv, NEW a \in Runs, LateWriteEnds(a)
    PROVE  AttemptsInv'
<1>1. /\ a \in flying /\ State(a) \notin {"none", "deleted"}
      /\ UNCHANGED <<row, cache, kept, pin, run, reader, cleaner, faults>>
      /\ flying' \subseteq flying
  BY DEF LateWriteEnds, AttemptsInv, AttemptInv
<1>2. /\ objects' \in [Runs -> SUBSET Members]
      /\ objects'[a] \cap Whole = objects[a] \cap Whole
      /\ \A b \in Runs \ {a} : objects'[b] = objects[b]
  BY DEF LateWriteEnds, AttemptsInv, Domains, Members, Whole
<1>3. Domains'
  BY <1>1, <1>2 DEF AttemptsInv, Domains
<1>4. AttemptInv(a)'
  BY <1>1, <1>2 DEF AttemptsInv, AttemptInv, State, Whole
<1>5. \A s \in Runs : RunInv(s)'
  BY <1>1, <1>2, RunStays DEF AttemptsInv, State
<1> QED
  BY <1>1, <1>2, <1>3, <1>4, <1>5, ObjectStep
\* The inventory is recorded, or the attempt is set aside.
LEMMA PreparePreserves ==
    ASSUME AttemptsInv, NEW r \in Runs, Prepare(r)
    PROVE  AttemptsInv'
<1>1. /\ run[r] = "prepare" /\ State(r) = "writing" /\ Whole \subseteq objects[r]
      /\ kept[r] = None /\ pin[r].attempt = None
      /\ UNCHANGED <<objects, flying, cache, kept, pin, cleaner>>
      /\ faults' \in 0 .. MaxFaults
  BY BoundsAssumption DEF Prepare, At, AttemptsInv, RunInv, Domains, Fault
<1>2. CASE /\ row' = [row EXCEPT ![r].state = "committed", ![r].known = objects[r],
                                 ![r].observed = TRUE, ![r].complete = TRUE]
           /\ GoTo(r, IF r \in FullRuns THEN "own" ELSE "publish")
           /\ UNCHANGED reader
  <2> DEFINE New == [row[r] EXCEPT !.state = "committed", !.known = objects[r],
                                   !.observed = TRUE, !.complete = TRUE]
  <2>0. row[r] \in RowSet /\ objects[r] \in SUBSET Members
    BY DEF AttemptsInv, Domains
  <2>1. /\ New \in RowSet /\ New.state = "committed" /\ New.known = objects[r] /\ New.complete
        /\ New.gone = row[r].gone /\ New.failures = row[r].failures
    BY <2>0 DEF RowSet, RowStates
  <2>2. row' = [row EXCEPT ![r] = New]
    BY <1>2
  <2> HIDE DEF New
  <2>3. /\ row' \in [Runs -> RowSet] /\ row'[r] = New
        /\ \A s \in Runs \ {r} : row'[s] = row[s]
    BY <2>1, <2>2 DEF AttemptsInv, Domains
  <2>4. PICK pc \in {"own", "publish"} : GoTo(r, pc)
    BY <1>2
  <2>5. /\ run' \in [Runs -> RunPcs] /\ run'[r] = pc
        /\ \A s \in Runs \ {r} : run'[s] = run[s]
    BY <2>4, RunGoes DEF RunPcs
  <2>6. Domains'
    BY <1>1, <1>2, <2>3, <2>5 DEF AttemptsInv, Domains
  <2>7. RefInv'
    BY <1>1, <2>1, <2>3 DEF AttemptsInv, RefInv, Referenced, State
  <2>8. AttemptInv(r)'
    BY <1>1, <2>1, <2>3 DEF AttemptsInv, AttemptInv, State
  <2>9. RunInv(r)'
    BY <1>1, <2>1, <2>3, <2>5 DEF RunInv, At, State
  <2>10. \A s \in Runs : RunInv(s)'
    BY <1>1, <2>3, <2>5, <2>9, SameShifts, OthersRun DEF State
  <2>11. State(r) \notin Doomed /\ \A q \in Readers : ~Relies(q, r)
    BY <1>1 DEF AttemptsInv, ReaderInv, Doomed
  <2> QED
    BY <1>1, <1>2, <2>3, <2>6, <2>7, <2>8, <2>10, <2>11, OneRowStep
<1>3. CASE Quarantine(r) /\ GoTo(r, "abandon")
  <2>1. /\ row' \in [Runs -> RowSet] /\ reader' \in [Readers -> ReaderSet] /\ RefInv'
        /\ \A b \in Runs : Shifts(b)
        /\ \A b \in Runs \ {r} : row'[b] = row[b]
        /\ \A q \in Readers : ReaderInv(q)' /\ ReadsOne(q)'
        /\ \A q \in Readers, b \in Runs : Relies(q, b)' => Relies(q, b)
    BY <1>1, <1>3, QuarantineStep
  <2>2. /\ run' \in [Runs -> RunPcs] /\ run'[r] = "abandon"
        /\ \A s \in Runs \ {r} : run'[s] = run[s]
    BY <1>3, RunGoes DEF RunPcs
  <2>3. Domains'
    BY <1>1, <2>1, <2>2 DEF AttemptsInv, Domains
  <2>4. RunInv(r)'
    BY <1>1, <2>2 DEF RunInv, At
  <2>5. \A s \in Runs : RunInv(s)'
    BY <1>1, <2>1, <2>2, <2>4, OthersRun DEF State
  <2>6. /\ \A a \in Runs : AttemptInv(a)'
        /\ \A c \in Cleaners : CleanerInv(c)'
    BY <1>1, <2>1, <2>3, QuietStep
  <2> QED
    BY <2>1, <2>3, <2>5, <2>6 DEF AttemptsInv
<1> QED
  BY <1>2, <1>3 DEF Prepare

\* The run abandons its own attempt, unless somebody refers to it.
LEMMA AbandonedRow ==
    ASSUME AttemptsInv, NEW r \in Runs, row' = Abandoned(r), UNCHANGED <<cache, kept, pin>>
    PROVE  /\ row' \in [Runs -> RowSet] /\ RefInv'
           /\ \A s \in Runs \ {r} : row'[s] = row[s]
           /\ \A a \in Runs :
                 Shifts(a) /\ (row'[a].state = "quarantined" => State(a) = "quarantined")
<1> DEFINE New == [row[r] EXCEPT !.state = "abandoned", !.publishing = FALSE]
<1>0. row[r] \in RowSet
  BY DEF AttemptsInv, Domains
<1>1. /\ New \in RowSet /\ New.state = "abandoned"
      /\ New.known = row[r].known /\ New.complete = row[r].complete
      /\ New.gone = row[r].gone /\ New.failures = row[r].failures
  BY <1>0 DEF RowSet, RowStates
<1>2. \/ State(r) \in {"writing", "committed"} /\ row' = [row EXCEPT ![r] = New]
      \/ row' = row
  BY DEF Abandoned
<1> HIDE DEF New
<1>3. \A a \in Runs : Referenced(a)' <=> Referenced(a)
  BY DEF Referenced
<1>4. CASE State(r) \in {"writing", "committed"} /\ row' = [row EXCEPT ![r] = New]
  <2>1. /\ row' \in [Runs -> RowSet] /\ row'[r] = New
        /\ \A s \in Runs \ {r} : row'[s] = row[s]
    BY <1>1, <1>4 DEF AttemptsInv, Domains
  <2> QED
    BY <1>1, <1>3, <1>4, <2>1 DEF AttemptsInv, RefInv, State, Shifts
<1>5. CASE row' = row
  BY <1>3, <1>5, SameShifts DEF AttemptsInv, Domains, RefInv, State
<1> QED
  BY <1>2, <1>4, <1>5

LEMMA YieldPreserves ==
    ASSUME AttemptsInv, NEW r \in Runs, Yield(r) \/ Abandon(r)
    PROVE  AttemptsInv'
<1>1. /\ run[r] \in {"yield", "abandon"} /\ kept[r] = None
      /\ run[r] = "abandon" => pin[r].attempt = None
      /\ UNCHANGED <<objects, flying, cache, kept, pin, reader, cleaner, faults>>
      /\ row' = Abandoned(r)
  BY DEF Yield, Abandon, At, AttemptsInv, RunInv
<1>2. PICK pc \in {"close", "observe", "done"} :
         GoTo(r, pc) /\ (pc = "observe" => run[r] = "abandon")
  BY DEF Yield, Abandon, At
<1>3. /\ run' \in [Runs -> RunPcs] /\ run'[r] = pc
      /\ \A s \in Runs \ {r} : run'[s] = run[s]
  BY <1>2, RunGoes DEF RunPcs
<1>4. /\ row' \in [Runs -> RowSet] /\ RefInv'
      /\ \A s \in Runs \ {r} : row'[s] = row[s]
      /\ \A a \in Runs :
            Shifts(a) /\ (row'[a].state = "quarantined" => State(a) = "quarantined")
  BY <1>1, AbandonedRow
<1>5. Domains'
  BY <1>1, <1>3, <1>4 DEF AttemptsInv, Domains
<1>6. RunInv(r)'
  BY <1>1, <1>2, <1>3 DEF RunInv, At
<1>7. \A s \in Runs : RunInv(s)'
  BY <1>1, <1>3, <1>4, <1>6, OthersRun DEF State
<1> QED
  BY <1>1, <1>4, <1>5, <1>7, ReferenceStep

\* What an inventory of an abandoned attempt leaves behind.
LEMMA ObservedRow ==
    ASSUME AttemptsInv, NEW a \in Runs, row' = Observed(a, objects[a]),
           UNCHANGED <<objects, flying, cache, kept, pin>>
    PROVE  /\ row' \in [Runs -> RowSet] /\ RefInv' /\ AttemptInv(a)'
           /\ \A b \in Runs \ {a} : row'[b] = row[b]
           /\ row'[a] # row[a] => State(a) = "abandoned"
           /\ State(a)' \in {State(a), "quarantined"}
<1> DEFINE First == [row[a] EXCEPT !.known = objects[a], !.observed = TRUE]
           Second == [row[a] EXCEPT !.complete = TRUE]
           Other == [row[a] EXCEPT !.state = "quarantined"]
<1>1. /\ First \in RowSet /\ First.state = row[a].state /\ First.complete = row[a].complete
      /\ First.gone = row[a].gone /\ First.failures = row[a].failures
      /\ Second \in RowSet /\ Second.state = row[a].state /\ Second.complete
      /\ Second.known = row[a].known
      /\ Second.gone = row[a].gone /\ Second.failures = row[a].failures
      /\ Other \in RowSet /\ Other.state = "quarantined" /\ Other.complete = row[a].complete
      /\ Other.gone = row[a].gone
  <2>1. row[a] \in RowSet /\ objects[a] \in SUBSET Members
    BY DEF AttemptsInv, Domains
  <2>2. /\ First \in RowSet /\ First.state = row[a].state /\ First.complete = row[a].complete
        /\ First.gone = row[a].gone /\ First.failures = row[a].failures
    BY <2>1 DEF RowSet
  <2>3. /\ Second \in RowSet /\ Second.state = row[a].state /\ Second.complete
        /\ Second.known = row[a].known
        /\ Second.gone = row[a].gone /\ Second.failures = row[a].failures
    BY <2>1 DEF RowSet
  <2>4. /\ Other \in RowSet /\ Other.state = "quarantined" /\ Other.complete = row[a].complete
        /\ Other.gone = row[a].gone
    BY <2>1 DEF RowSet, RowStates
  <2> QED
    BY <2>2, <2>3, <2>4
<1>2. \/ row' = row
      \/ /\ State(a) = "abandoned" /\ ~row[a].complete
         /\ \/ row' = [row EXCEPT ![a] = First]
            \/ row' = [row EXCEPT ![a] = Second] /\ objects[a] = row[a].known
            \/ row' = [row EXCEPT ![a] = Other]
  BY DEF Observed
<1> HIDE DEF First, Second, Other
<1>3. \A b \in Runs : Referenced(b)' <=> Referenced(b)
  BY DEF Referenced
<1>4. CASE row' = row
  BY <1>3, <1>4 DEF AttemptsInv, Domains, AttemptInv, RefInv, State
<1>5. ASSUME State(a) = "abandoned", ~row[a].complete, NEW New,
             New \in {First, Other} \/ (New = Second /\ objects[a] = row[a].known),
             row' = [row EXCEPT ![a] = New]
      PROVE  /\ row' \in [Runs -> RowSet] /\ RefInv' /\ AttemptInv(a)'
             /\ \A b \in Runs \ {a} : row'[b] = row[b]
             /\ State(a)' \in {State(a), "quarantined"}
  <2>1. /\ row' \in [Runs -> RowSet] /\ row'[a] = New
        /\ \A b \in Runs \ {a} : row'[b] = row[b]
    BY <1>1, <1>5 DEF AttemptsInv, Domains
  <2>2. New.state \in {"abandoned", "quarantined"}
    BY <1>1, <1>5 DEF State
  <2>3. RefInv' /\ State(a)' \in {State(a), "quarantined"}
    BY <1>3, <1>5, <2>1, <2>2 DEF AttemptsInv, RefInv, State
  <2>4. AttemptInv(a)
    BY DEF AttemptsInv
  <2>5. AttemptInv(a)'
    <3>1. CASE New = First
      BY <1>1, <1>5, <2>1, <2>4, <3>1 DEF AttemptInv, State
    <3>2. CASE New = Second /\ objects[a] = row[a].known
      BY <1>1, <1>5, <2>1, <2>4, <3>2 DEF AttemptInv, State
    <3>3. CASE New = Other
      BY <1>1, <1>5, <2>1, <2>4, <3>3 DEF AttemptInv, State
    <3> QED
      BY <1>5, <3>1, <3>2, <3>3
  <2> QED
    BY <2>1, <2>3, <2>5
<1>6. CASE /\ State(a) = "abandoned" /\ ~row[a].complete
           /\ row' = [row EXCEPT ![a] = First]
  <2>1. PICK New : New = First
    OBVIOUS
  <2> QED
    BY <1>5, <1>6, <2>1
<1>7. CASE /\ State(a) = "abandoned" /\ ~row[a].complete
           /\ row' = [row EXCEPT ![a] = Second] /\ objects[a] = row[a].known
  <2>1. PICK New : New = Second
    OBVIOUS
  <2> QED
    BY <1>5, <1>7, <2>1
<1>8. CASE /\ State(a) = "abandoned" /\ ~row[a].complete
           /\ row' = [row EXCEPT ![a] = Other]
  <2>1. PICK New : New = Other
    OBVIOUS
  <2> QED
    BY <1>5, <1>8, <2>1
<1> QED
  BY <1>2, <1>4, <1>6, <1>7, <1>8

LEMMA ObserveOwnPreserves ==
    ASSUME AttemptsInv, NEW r \in Runs, ObserveOwn(r)
    PROVE  AttemptsInv'
<1>1. /\ run[r] = "observe" /\ kept[r] = None /\ pin[r].attempt = None
      /\ UNCHANGED <<objects, flying, cache, kept, pin, reader, cleaner, faults>>
      /\ row' = Observed(r, objects[r])
  BY DEF ObserveOwn, At, AttemptsInv, RunInv
<1>2. /\ row' \in [Runs -> RowSet] /\ RefInv' /\ AttemptInv(r)'
      /\ \A b \in Runs \ {r} : row'[b] = row[b]
      /\ row'[r] # row[r] => State(r) = "abandoned"
      /\ State(r)' \in {State(r), "quarantined"}
  BY <1>1, ObservedRow
<1>3. /\ run' \in [Runs -> RunPcs] /\ run'[r] = "done"
      /\ \A s \in Runs \ {r} : run'[s] = run[s]
  BY RunGoes DEF ObserveOwn, RunPcs
<1>4. Domains'
  BY <1>1, <1>2, <1>3 DEF AttemptsInv, Domains
<1>5. RunInv(r)'
  BY <1>1, <1>3 DEF RunInv, At
<1>6. \A s \in Runs : RunInv(s)'
  BY <1>1, <1>2, <1>3, <1>5, SameShifts, OthersRun DEF State
<1>7. CASE row'[r] = row[r]
  BY <1>1, <1>2, <1>4, <1>6, <1>7, SameShifts, ReferenceStep DEF State
<1>8. CASE State(r) = "abandoned"
  <2>1. State(r) \notin Doomed /\ \A q \in Readers : ~Relies(q, r)
    BY <1>8 DEF AttemptsInv, ReaderInv, Doomed
  <2> QED
    BY <1>1, <1>2, <1>4, <1>6, <2>1, OneRowStep
<1> QED
  BY <1>2, <1>7, <1>8

LEMMA ObservePreserves ==
    ASSUME AttemptsInv, NEW a \in Runs, Observe(a)
    PROVE  AttemptsInv'
<1>1. /\ UNCHANGED <<objects, flying, cache, kept, pin, run, reader, cleaner, faults>>
      /\ row' = Observed(a, objects[a]) /\ State(a) = "abandoned"
  BY DEF Observe
<1>2. /\ row' \in [Runs -> RowSet] /\ RefInv' /\ AttemptInv(a)'
      /\ \A b \in Runs \ {a} : row'[b] = row[b]
      /\ State(a)' \in {State(a), "quarantined"}
  BY <1>1, ObservedRow
<1>3. Domains'
  BY <1>1, <1>2 DEF AttemptsInv, Domains
<1>4. \A s \in Runs : RunInv(s)'
  BY <1>1, <1>2, RunStays DEF AttemptsInv, State
<1>5. State(a) \notin Doomed /\ \A q \in Readers : ~Relies(q, a)
  BY <1>1 DEF AttemptsInv, ReaderInv, Doomed
<1> QED
  BY <1>1, <1>2, <1>3, <1>4, <1>5, OneRowStep

LEMMA RunCrashesPreserves ==
    ASSUME AttemptsInv, NEW r \in Runs, RunCrashes(r)
    PROVE  AttemptsInv'
<1>1. /\ UNCHANGED <<row, objects, flying, cache, kept, pin, reader, cleaner>>
      /\ faults' \in 0 .. MaxFaults
  BY BoundsAssumption DEF RunCrashes, Fault, AttemptsInv, Domains
<1>2. /\ run' \in [Runs -> RunPcs] /\ run'[r] = "done"
      /\ \A s \in Runs \ {r} : run'[s] = run[s]
  BY RunGoes DEF RunCrashes, RunPcs
<1>3. Domains' /\ RefInv'
  BY <1>1, <1>2 DEF AttemptsInv, Domains, RefInv, Referenced, State
<1>4. RunInv(r)'
  BY <1>2 DEF RunInv, At
<1>5. \A s \in Runs : RunInv(s)'
  BY <1>1, <1>2, <1>4, SameShifts, OthersRun DEF State
<1> QED
  BY <1>1, <1>3, <1>5, SameShifts, ReferenceStep DEF State
-----------------------------------------------------------------------------
(* Time and readers.                                                       *)

\* A step that keeps what is referred to and how far the runs are.
LEMMA LapseStep ==
    ASSUME AttemptsInv, UNCHANGED <<objects, flying, cache, kept, run, reader, cleaner>>,
           row' \in [Runs -> RowSet], pin' \in [Runs -> PinSet], faults' \in 0 .. MaxFaults,
           \A a \in Runs : Shifts(a) /\ row'[a].state = State(a),
           \A r \in Runs : pin'[r].attempt = pin[r].attempt
    PROVE  AttemptsInv'
<1>1. Domains'
  BY DEF AttemptsInv, Domains
<1>2. RefInv'
  BY DEF AttemptsInv, RefInv, Referenced, State
<1>3. \A r \in Runs : RunInv(r)'
  BY RunStays DEF AttemptsInv, State
<1> QED
  BY <1>1, <1>2, <1>3, ReferenceStep

LEMMA PublishLapsesPreserves ==
    ASSUME AttemptsInv, NEW a \in Runs, PublishLapses(a)
    PROVE  AttemptsInv'
<1>1. /\ UNCHANGED <<objects, flying, cache, kept, pin, run, reader, cleaner>>
      /\ faults' \in 0 .. MaxFaults
      /\ row' = [row EXCEPT ![a] = [row[a] EXCEPT !.publishing = FALSE]]
  BY BoundsAssumption DEF PublishLapses, Fault, AttemptsInv, Domains
<1>2. row[a] \in RowSet
  BY DEF AttemptsInv, Domains
<1>3. PICK new : new = [row[a] EXCEPT !.publishing = FALSE]
  OBVIOUS
<1>4. /\ new \in RowSet /\ new.state = row[a].state /\ new.known = row[a].known
      /\ new.complete = row[a].complete /\ new.gone = row[a].gone
      /\ new.failures = row[a].failures
  BY <1>2, <1>3 DEF RowSet
<1>5. /\ row' \in [Runs -> RowSet] /\ row'[a] = new
      /\ \A b \in Runs \ {a} : row'[b] = row[b]
  BY <1>1, <1>3, <1>4 DEF AttemptsInv, Domains
<1>6. \A b \in Runs : Shifts(b) /\ row'[b].state = State(b)
  BY <1>4, <1>5 DEF Shifts, State
<1> QED
  BY <1>1, <1>5, <1>6, LapseStep DEF AttemptsInv, Domains

LEMMA ClaimLapsesPreserves ==
    ASSUME AttemptsInv, NEW a \in Runs, ClaimLapses(a)
    PROVE  AttemptsInv'
<1>1. /\ UNCHANGED <<objects, flying, cache, kept, pin, run, reader, cleaner>>
      /\ faults' \in 0 .. MaxFaults
      /\ row' = [row EXCEPT ![a] = [row[a] EXCEPT !.live = FALSE]]
  BY BoundsAssumption DEF ClaimLapses, Fault, AttemptsInv, Domains
<1>2. row[a] \in RowSet
  BY DEF AttemptsInv, Domains
<1>3. PICK new : new = [row[a] EXCEPT !.live = FALSE]
  OBVIOUS
<1>4. /\ new \in RowSet /\ new.state = row[a].state /\ new.known = row[a].known
      /\ new.complete = row[a].complete /\ new.gone = row[a].gone
      /\ new.failures = row[a].failures
  BY <1>2, <1>3 DEF RowSet
<1>5. /\ row' \in [Runs -> RowSet] /\ row'[a] = new
      /\ \A b \in Runs \ {a} : row'[b] = row[b]
  BY <1>1, <1>3, <1>4 DEF AttemptsInv, Domains
<1>6. \A b \in Runs : Shifts(b) /\ row'[b].state = State(b)
  BY <1>4, <1>5 DEF Shifts, State
<1> QED
  BY <1>1, <1>5, <1>6, LapseStep DEF AttemptsInv, Domains

LEMMA PinMoves ==
    ASSUME AttemptsInv, NEW r \in Runs, PinLapses(r) \/ RenewPin(r)
    PROVE  AttemptsInv'
<1>1. /\ UNCHANGED <<row, objects, flying, cache, kept, run, reader, cleaner>>
      /\ faults' \in 0 .. MaxFaults
  BY BoundsAssumption DEF PinLapses, RenewPin, Fault, AttemptsInv, Domains
<1>2. PICK live \in BOOLEAN : pin' = [pin EXCEPT ![r].live = live]
  BY DEF PinLapses, RenewPin
<1>3. pin' \in [Runs -> PinSet] /\ \A s \in Runs : pin'[s].attempt = pin[s].attempt
  BY <1>2 DEF AttemptsInv, Domains, PinSet
<1>4. \A a \in Runs : Shifts(a) /\ row'[a].state = State(a)
  BY <1>1, SameShifts DEF State
<1> QED
  BY <1>1, <1>3, <1>4, LapseStep DEF AttemptsInv, Domains

\* A step of one reader.
LEMMA ReaderStep ==
    ASSUME AttemptsInv, UNCHANGED <<row, objects, flying, cache, kept, pin, run, cleaner>>,
           NEW q \in Readers, NEW new \in ReaderSet, reader' = [reader EXCEPT ![q] = new],
           faults' \in 0 .. MaxFaults, ReaderInv(q)', ReadsOne(q)',
           \A a \in Runs : State(a) \in Doomed /\ Relies(q, a)' => Relies(q, a)
    PROVE  AttemptsInv'
<1>1. /\ reader' \in [Readers -> ReaderSet] /\ reader'[q] = new
      /\ \A p \in Readers \ {q} : reader'[p] = reader[p]
  BY DEF AttemptsInv, Domains
<1>2. Domains'
  BY <1>1 DEF AttemptsInv, Domains
<1>3. RefInv'
  BY DEF AttemptsInv, RefInv, Referenced, State
<1>4. \A r \in Runs : RunInv(r)'
  BY RunStays DEF AttemptsInv, State
<1>5. \A p \in Readers, a \in Runs : Relies(p, a)' /\ State(a) \in Doomed => Relies(p, a)
  BY <1>1 DEF Relies
<1>6. /\ \A a \in Runs : AttemptInv(a)'
      /\ \A c \in Cleaners : CleanerInv(c)'
  BY <1>2, <1>5, SameShifts, QuietStep
<1>7. \A p \in Readers \ {q} : ReaderInv(p)' /\ ReadsOne(p)'
  BY <1>1, SameShifts, ReaderStays DEF AttemptsInv, State
<1> QED
  BY <1>2, <1>3, <1>4, <1>6, <1>7 DEF AttemptsInv

\* Only a published attempt is opened.
LEMMA OpenPreserves ==
    ASSUME AttemptsInv, NEW q \in Readers, NEW a \in Runs, Open(q, a)
    PROVE  AttemptsInv'
<1> DEFINE new == [pc |-> "reading", attempt |-> a, lease |-> "live", lapsed |-> FALSE]
<1>1. /\ UNCHANGED <<row, objects, flying, cache, kept, pin, run, cleaner>>
      /\ faults' \in 0 .. MaxFaults /\ State(a) = "published"
      /\ reader' = [reader EXCEPT ![q] = new] /\ new \in ReaderSet
  BY DEF Open, AttemptsInv, Domains, ReaderSet
<1>2. reader'[q] = new
  BY <1>1 DEF AttemptsInv, Domains
<1>3. Whole \subseteq objects[a]
  BY <1>1 DEF AttemptsInv, AttemptInv
<1>4. \A b \in Runs : Relies(q, b)' => b = a
  BY <1>2 DEF Relies
<1>5. ReaderInv(q)' /\ ReadsOne(q)'
  BY <1>1, <1>2, <1>3, <1>4 DEF ReaderInv, ReadsOne, State
<1>6. \A b \in Runs : State(b) \in Doomed /\ Relies(q, b)' => Relies(q, b)
  BY <1>1, <1>4 DEF Doomed
<1> HIDE DEF new
<1> QED
  BY <1>1, <1>5, <1>6, ReaderStep

LEMMA ReaderMoves ==
    ASSUME AttemptsInv, NEW q \in Readers,
           Renew(q) \/ ReadLapses(q) \/ CloseRead(q) \/ ReaderCrashes(q)
    PROVE  AttemptsInv'
<1>1. /\ UNCHANGED <<row, objects, flying, cache, kept, pin, run, cleaner>>
      /\ faults' \in 0 .. MaxFaults
  BY BoundsAssumption
     DEF Renew, ReadLapses, CloseRead, ReaderCrashes, Fault, AttemptsInv, Domains
<1>2. reader[q] \in ReaderSet
  BY DEF AttemptsInv, Domains
<1>3. PICK new \in ReaderSet :
         /\ reader' = [reader EXCEPT ![q] = new]
         /\ new.pc = "reading" =>
               /\ reader[q].pc = "reading" /\ new.attempt = reader[q].attempt
               /\ new.lapsed \/ (new.lapsed = reader[q].lapsed /\ new.lease = "live")
  <2>1. CASE Renew(q)
    <3>1. PICK new : new = [reader[q] EXCEPT !.lease = "live"]
      OBVIOUS
    <3>2. reader' = [reader EXCEPT ![q] = new]
      BY <2>1, <3>1 DEF Renew
    <3>3. /\ new \in ReaderSet /\ new.pc = reader[q].pc /\ new.attempt = reader[q].attempt
          /\ new.lapsed = reader[q].lapsed /\ new.lease = "live"
      BY <1>2, <3>1 DEF ReaderSet
    <3> QED
      BY <2>1, <3>2, <3>3 DEF Renew
  <2>2. CASE ReadLapses(q)
    <3>1. PICK new : new = [reader[q] EXCEPT !.lease = "past", !.lapsed = TRUE]
      OBVIOUS
    <3>2. reader' = [reader EXCEPT ![q] = new]
      BY <2>2, <3>1 DEF ReadLapses
    <3>3. /\ new \in ReaderSet /\ new.pc = reader[q].pc /\ new.attempt = reader[q].attempt
          /\ new.lapsed = TRUE
      BY <1>2, <3>1 DEF ReaderSet
    <3> QED
      BY <2>2, <3>2, <3>3 DEF ReadLapses
  <2>3. CASE reader' = [reader EXCEPT ![q] = NotReading]
    <3>1. NotReading \in ReaderSet /\ NotReading.pc # "reading"
      BY DEF NotReading, ReaderSet
    <3> QED
      BY <2>3, <3>1
  <2>4. CASE ReaderCrashes(q) /\ reader[q].lease # "none"
    <3>1. PICK new : new = [reader[q] EXCEPT !.pc = "dead"]
      OBVIOUS
    <3>2. reader' = [reader EXCEPT ![q] = new]
      BY <2>4, <3>1 DEF ReaderCrashes
    <3>3. new \in ReaderSet /\ new.pc = "dead"
      BY <1>2, <3>1 DEF ReaderSet
    <3> QED
      BY <2>4, <3>2, <3>3
  <2> QED
    BY <2>1, <2>2, <2>3, <2>4 DEF CloseRead, ReaderCrashes
<1>4. reader'[q] = new
  BY <1>3 DEF AttemptsInv, Domains
<1>5. \A a \in Runs : Relies(q, a)' => Relies(q, a) /\ reader'[q].lease = "live"
  BY <1>3, <1>4 DEF Relies
<1>6. ReaderInv(q)' /\ ReadsOne(q)'
  BY <1>1, <1>3, <1>4, <1>5 DEF AttemptsInv, ReaderInv, ReadsOne, State
<1> QED
  BY <1>1, <1>3, <1>5, <1>6, ReaderStep

-----------------------------------------------------------------------------
(* Reapers.                                                                *)

LEMMA AbandonOrphanPreserves ==
    ASSUME AttemptsInv, NEW a \in Runs, AbandonOrphan(a)
    PROVE  AttemptsInv'
<1>1. /\ State(a) = "committed"
      /\ UNCHANGED <<objects, flying, cache, kept, pin, run, reader, cleaner, faults>>
      /\ row' = [row EXCEPT ![a].state = "abandoned"]
  BY DEF AbandonOrphan
<1>2. /\ row' \in [Runs -> RowSet]
      /\ row'[a].state = "abandoned" /\ Shifts(a)
      /\ \A b \in Runs \ {a} : row'[b] = row[b]
  <2> DEFINE New == [row[a] EXCEPT !.state = "abandoned"]
  <2>1. row[a] \in RowSet /\ row \in [Runs -> RowSet]
    BY DEF AttemptsInv, Domains
  <2>2. /\ New \in RowSet /\ New.state = "abandoned"
        /\ New.known = row[a].known /\ New.complete = row[a].complete
        /\ New.gone = row[a].gone /\ New.failures = row[a].failures
    BY <2>1 DEF RowSet, RowStates
  <2>3. row' = [row EXCEPT ![a] = New]
    BY <1>1
  <2> HIDE DEF New
  <2>4. /\ row' \in [Runs -> RowSet] /\ row'[a] = New
        /\ \A b \in Runs \ {a} : row'[b] = row[b]
    BY <2>1, <2>2, <2>3
  <2> QED
    BY <1>1, <2>2, <2>4 DEF Shifts, State
<1>3. \A b \in Runs : Shifts(b) /\ (row'[b].state = "quarantined" => State(b) = "quarantined")
  BY <1>2, SameShifts DEF State
<1>4. Domains'
  BY <1>1, <1>2 DEF AttemptsInv, Domains
<1>5. RefInv'
  BY <1>1, <1>2 DEF AttemptsInv, RefInv, Referenced, State
<1>6. \A r \in Runs : RunInv(r)'
  BY <1>1, <1>2, RunStays DEF AttemptsInv, State
<1> QED
  BY <1>1, <1>3, <1>4, <1>5, <1>6, ReferenceStep

\* A step of the reaper c on the attempt a, of which nobody needs an object.
LEMMA CleanerStepOn ==
    ASSUME AttemptsInv, NEW a \in Runs, NEW c \in Cleaners, NEW new \in CleanerSet,
           UNCHANGED <<flying, cache, kept, pin, run, reader>>, faults' \in 0 .. MaxFaults,
           row' \in [Runs -> RowSet], objects' \in [Runs -> SUBSET Members],
           \A b \in Runs \ {a} : row'[b] = row[b] /\ objects'[b] = objects[b],
           cleaner' = [cleaner EXCEPT ![c] = new],
           State(a) \notin {"none", "writing", "published"}, State(a)' \in Doomed,
           row[a].complete => row'[a].complete, objects'[a] \subseteq objects[a],
           \A q \in Readers : ~Relies(q, a),
           AttemptInv(a)', CleanerInv(c)'
    PROVE  AttemptsInv'
<1>1. /\ cleaner' \in [Cleaners -> CleanerSet] /\ cleaner'[c] = new
      /\ \A d \in Cleaners \ {c} : cleaner'[d] = cleaner[d]
  BY DEF AttemptsInv, Domains
<1>2. Domains'
  BY <1>1 DEF AttemptsInv, Domains
<1>3. \A b \in Runs \ {a} : Shifts(b)
  BY SameShifts
<1>4. \A b \in Runs : AttemptInv(b)'
  BY <1>3, AttemptShifts DEF AttemptsInv
<1>5. RefInv'
  BY DEF AttemptsInv, RefInv, Referenced, State, Doomed
<1>6. \A r \in Runs : RunInv(r)'
  <2>1. ASSUME NEW r \in Runs
        PROVE  /\ State(r) \in {"none", "writing"} \/ State(r)' \in {"none", "writing"}
                     => State(r)' = State(r)
               /\ run[r] \in {"manifest", "prepare"} =>
                     objects[r] \cap Whole \subseteq objects'[r]
    BY DEF AttemptsInv, RunInv, State, Doomed
  <2> QED
    BY <2>1, RunStays DEF AttemptsInv
<1>7. \A q \in Readers : ReaderInv(q)' /\ ReadsOne(q)'
  BY <1>3, ReaderStays DEF AttemptsInv, State
<1>8. \A d \in Cleaners \ {c} : CleanerInv(d)'
  <2>1. \A b \in Runs : State(b) \in Doomed =>
           /\ State(b)' \in Doomed
           /\ row[b].complete => row'[b].complete
           /\ objects'[b] \cap Whole \subseteq objects[b]
           /\ b \in flying' => b \in flying
    BY DEF State
  <2>2. \A q \in Readers, b \in Runs : Relies(q, b)' => Relies(q, b)
    BY DEF Relies
  <2> QED
    BY <1>1, <2>1, <2>2, CleanerStays DEF AttemptsInv
<1> QED
  BY <1>2, <1>4, <1>5, <1>6, <1>7, <1>8 DEF AttemptsInv
LEMMA RestingIsIdle == Resting \in CleanerSet /\ Resting.pc = "idle"
BY DEF Resting, CleanerSet, Members

LEMMA CleanerTurns ==
    ASSUME AttemptsInv, NEW c \in Cleaners, NEW new \in CleanerSet,
           cleaner' = [cleaner EXCEPT ![c] = new]
    PROVE  /\ cleaner'[c] = new
           /\ \A d \in Cleaners \ {c} : cleaner'[d] = cleaner[d]
           /\ new.pc = "idle" => CleanerInv(c)'
BY DEF AttemptsInv, Domains, CleanerInv, Doing

\* What a reaper at work knows of its attempt.
LEMMA AtWork ==
    ASSUME AttemptsInv, NEW c \in Cleaners, NEW a, a = Attempt(c), ~Doing(c, "idle")
    PROVE  /\ a \in Runs /\ State(a) \in Doomed /\ row[a].complete
           /\ State(a) \notin {"none", "writing", "published"}
           /\ \A q \in Readers : ~Relies(q, a)
           /\ cleaner[c] \in CleanerSet /\ row[a] \in RowSet
           /\ objects[a] \in SUBSET Members /\ AttemptInv(a)
BY DEF AttemptsInv, CleanerInv, Domains, Doomed

LEMMA CleanerQuarantines ==
    ASSUME AttemptsInv, NEW c \in Cleaners, NEW a, a = Attempt(c), ~Doing(c, "idle"),
           Quarantine(a), Rest(c), UNCHANGED <<objects, flying, cache, kept, pin, run, faults>>
    PROVE  AttemptsInv'
<1>1. a \in Runs /\ State(a) # "none" /\ State(a) \in Doomed
  BY AtWork DEF Doomed
<1>2. /\ row' \in [Runs -> RowSet] /\ reader' \in [Readers -> ReaderSet] /\ RefInv'
      /\ \A b \in Runs : Shifts(b)
      /\ \A b \in Runs \ {a} : row'[b] = row[b]
      /\ \A q \in Readers : ReaderInv(q)' /\ ReadsOne(q)'
      /\ \A q \in Readers, b \in Runs : Relies(q, b)' => Relies(q, b)
  BY <1>1, QuarantineStep
<1>3. PICK new \in CleanerSet : new.pc = "idle" /\ cleaner' = [cleaner EXCEPT ![c] = new]
  BY RestingIsIdle DEF Rest
<1>4. /\ \A d \in Cleaners \ {c} : cleaner'[d] = cleaner[d]
      /\ CleanerInv(c)' /\ cleaner' \in [Cleaners -> CleanerSet]
  BY <1>3, CleanerTurns DEF AttemptsInv, Domains
<1>5. Domains'
  BY <1>2, <1>4 DEF AttemptsInv, Domains
<1>6. \A b \in Runs : AttemptInv(b)'
  BY <1>2, AttemptShifts DEF AttemptsInv
<1>7. \A r \in Runs : RunInv(r)'
  <2>1. \A r \in Runs :
           State(r) \in {"none", "writing"} \/ State(r)' \in {"none", "writing"}
               => State(r)' = State(r)
    BY <1>1, <1>2 DEF Shifts, State, Doomed
  <2> QED
    BY <2>1, RunStays DEF AttemptsInv
<1>8. \A d \in Cleaners \ {c} : CleanerInv(d)'
  <2>1. \A b \in Runs : State(b) \in Doomed =>
           /\ State(b)' \in Doomed
           /\ row[b].complete => row'[b].complete
    BY <1>2 DEF Shifts, State, Doomed
  <2> QED
    BY <1>2, <1>4, <2>1, CleanerStays DEF AttemptsInv
<1> QED
  BY <1>2, <1>4, <1>5, <1>6, <1>7, <1>8 DEF AttemptsInv

\* A reaper that goes on to nothing.
LEMMA RestStep ==
    ASSUME AttemptsInv, NEW c \in Cleaners, ~Doing(c, "idle"), Rest(c),
           UNCHANGED <<row, objects, flying, cache, kept, pin, run, reader>>,
           faults' \in 0 .. MaxFaults
    PROVE  AttemptsInv'
<1>1. PICK a : a = Attempt(c)
  OBVIOUS
<1>2. /\ a \in Runs /\ State(a) \in Doomed /\ row[a].complete
      /\ State(a) \notin {"none", "writing", "published"}
      /\ \A q \in Readers : ~Relies(q, a)
  BY <1>1, AtWork
<1>3. PICK new \in CleanerSet : new.pc = "idle" /\ cleaner' = [cleaner EXCEPT ![c] = new]
  BY RestingIsIdle DEF Rest
<1>4. CleanerInv(c)'
  BY <1>3, CleanerTurns
<1>5. AttemptInv(a)' /\ State(a)' \in Doomed
  BY <1>2 DEF AttemptsInv, AttemptInv, State
<1>6. row' \in [Runs -> RowSet] /\ objects' \in [Runs -> SUBSET Members]
  BY DEF AttemptsInv, Domains
<1> QED
  BY <1>2, <1>3, <1>4, <1>5, <1>6, CleanerStepOn

LEMMA ClaimPreserves ==
    ASSUME AttemptsInv, NEW c \in Cleaners, NEW a \in Runs, Pick(c, a)
    PROVE  AttemptsInv'
<1>1. PICK pc \in {"list", "verify"} :
         /\ UNCHANGED <<objects, flying, cache, kept, pin, run, reader, faults>>
         /\ Unowned(a) /\ Visit(c, a, pc) /\ (pc = "verify" => a \notin flying)
         /\ \/ /\ Reclaimable(a)
               /\ row' = [row EXCEPT ![a].state = "deleting", ![a].holder = c, ![a].live = TRUE]
            \/ /\ State(a) = "verifying"
               /\ row' = [row EXCEPT ![a].holder = c, ![a].live = TRUE]
  BY DEF Pick, ClaimDelete, ClaimVerify
<1>2. /\ State(a) \in {"superseded", "abandoned", "pending", "deleting", "verifying"}
      /\ row[a].complete
  BY <1>1 DEF Reclaimable, AttemptsInv, AttemptInv
<1>3. ASSUME NEW q \in Readers, Relies(q, a) PROVE FALSE
  <2>1. reader[q].attempt = a /\ reader[q].lease = "live"
    BY <1>2, <1>3 DEF AttemptsInv, ReaderInv, Relies
  <2> QED
    BY <1>1, <2>1 DEF Unowned, Leased
<1>4. row[a] \in RowSet
  BY DEF AttemptsInv, Domains
<1>5. /\ row' \in [Runs -> RowSet] /\ \A b \in Runs \ {a} : row'[b] = row[b]
      /\ row'[a].state \in {"deleting", "verifying"}
      /\ row'[a].known = row[a].known /\ row'[a].complete = row[a].complete
      /\ row'[a].gone = row[a].gone /\ row'[a].failures = row[a].failures
  <2>1. CASE row' = [row EXCEPT ![a].state = "deleting", ![a].holder = c, ![a].live = TRUE]
    BY <1>4, <2>1 DEF AttemptsInv, Domains, RowSet, RowStates
  <2>2. CASE /\ State(a) = "verifying"
             /\ row' = [row EXCEPT ![a].holder = c, ![a].live = TRUE]
    BY <1>4, <2>2 DEF AttemptsInv, Domains, RowSet, RowStates, State
  <2> QED
    BY <1>1, <2>1, <2>2
<1>6. AttemptInv(a)'
  BY <1>1, <1>2, <1>5 DEF AttemptsInv, AttemptInv, State
<1>7. PICK new \in CleanerSet :
         /\ cleaner' = [cleaner EXCEPT ![c] = new] /\ new.pc = pc /\ new.attempt = a
  <2>1. PICK new : new = [Resting EXCEPT !.attempt = a, !.pc = pc]
    OBVIOUS
  <2>2. new \in CleanerSet /\ new.pc = pc /\ new.attempt = a
    BY <2>1, RestingIsIdle DEF CleanerSet, Resting
  <2> QED
    BY <1>1, <2>1, <2>2 DEF Visit
<1>8. cleaner'[c] = new
  BY <1>7, CleanerTurns
<1>9. CleanerInv(c)'
  <2>1. \A q \in Readers : ~Relies(q, a)'
    BY <1>1, <1>3 DEF Relies
  <2>2. Attempt(c)' = a /\ cleaner'[c].pc \in {"list", "verify"}
    BY <1>7, <1>8 DEF Attempt
  <2>3. row'[a].state \in Doomed /\ row'[a].complete
    BY <1>2, <1>5 DEF Doomed
  <2>4. cleaner'[c].pc = "verify" => a \notin flying'
    BY <1>1, <1>7, <1>8
  <2> QED
    BY <2>1, <2>2, <2>3, <2>4 DEF CleanerInv, Doing, State
<1>10. faults' \in 0 .. MaxFaults /\ objects' \in [Runs -> SUBSET Members]
  BY <1>1 DEF AttemptsInv, Domains
<1>11. State(a)' \in Doomed /\ State(a) \notin {"none", "writing", "published"}
  BY <1>2, <1>5 DEF State, Doomed
<1> QED
  BY <1>1, <1>2, <1>3, <1>5, <1>6, <1>7, <1>9, <1>10, <1>11, CleanerStepOn
LEMMA CleanerWorks ==
    ASSUME AttemptsInv, NEW c \in Cleaners, NEW a \in Runs, NEW new \in CleanerSet,
           cleaner' = [cleaner EXCEPT ![c] = new], new.attempt = a,
           row'[a].state \in Doomed, row'[a].complete,
           UNCHANGED reader, \A q \in Readers : ~Relies(q, a),
           new.pc \in {"check", "erase", "acknowledge"},
           objects'[a] \cap Whole \subseteq new.seen,
           new.pc = "erase" /\ "manifest" \in objects'[a] => new.member = "manifest",
           new.pc = "acknowledge" => new.member \notin Whole \/ new.member \notin objects'[a]
    PROVE  CleanerInv(c)'
<1>1. cleaner'[c] = new /\ Attempt(c)' = a
  BY CleanerTurns DEF Attempt
<1>2. \A q \in Readers : ~Relies(q, a)'
  BY DEF Relies
<1> QED
  BY <1>1, <1>2 DEF CleanerInv, Doing, State

LEMMA ListPreserves ==
    ASSUME AttemptsInv, NEW c \in Cleaners, List(c)
    PROVE  AttemptsInv'
<1>1. ~Doing(c, "idle") /\ UNCHANGED <<objects, flying, cache, kept, pin, run, faults>>
  BY DEF List, Doing
<1>2. PICK a : a = Attempt(c)
  OBVIOUS
<1>3. /\ a \in Runs /\ State(a) \in Doomed /\ row[a].complete
      /\ State(a) \notin {"none", "writing", "published"}
      /\ \A q \in Readers : ~Relies(q, a)
      /\ cleaner[c] \in CleanerSet /\ objects[a] \in SUBSET Members /\ AttemptInv(a)
  BY <1>1, <1>2, AtWork
<1>4. CASE /\ cleaner' = [cleaner EXCEPT ![c].pc = "check", ![c].seen = objects[Attempt(c)]]
           /\ UNCHANGED <<row, reader>>
  <2>1. PICK new : new = [cleaner[c] EXCEPT !.pc = "check", !.seen = objects[a]]
    OBVIOUS
  <2>2. /\ new \in CleanerSet /\ new.pc = "check" /\ new.seen = objects[a]
        /\ new.attempt = a /\ cleaner' = [cleaner EXCEPT ![c] = new]
    BY <1>2, <1>3, <1>4, <2>1 DEF CleanerSet, Attempt
  <2>3. CleanerInv(c)'
    BY <1>1, <1>3, <1>4, <2>2, CleanerWorks DEF State
  <2>4. AttemptInv(a)' /\ State(a)' \in Doomed
    BY <1>1, <1>3, <1>4 DEF AttemptInv, State
  <2>5. /\ row' \in [Runs -> RowSet] /\ objects' \in [Runs -> SUBSET Members]
        /\ faults' \in 0 .. MaxFaults
    BY <1>1, <1>4 DEF AttemptsInv, Domains
  <2> QED
    BY <1>1, <1>3, <1>4, <2>2, <2>3, <2>4, <2>5, CleanerStepOn
<1>5. CASE Quarantine(Attempt(c)) /\ Rest(c)
  <2>1. Quarantine(a)
    BY <1>2, <1>5 DEF Quarantine
  <2> QED
    BY <1>1, <1>2, <1>5, <2>1, CleanerQuarantines
<1> QED
  BY <1>4, <1>5 DEF List

\* Whatever is left of the attempt's data and manifest is in what remains to
\* delete, and was seen.
LEMMA CheckPreserves ==
    ASSUME AttemptsInv, NEW c \in Cleaners, Check(c)
    PROVE  AttemptsInv'
<1>1. /\ ~Doing(c, "idle")
      /\ UNCHANGED <<row, objects, flying, cache, kept, pin, run, reader, faults>>
  BY DEF Check, Doing
<1>2. PICK a : a = Attempt(c)
  OBVIOUS
<1>3. /\ a \in Runs /\ State(a) \in Doomed /\ row[a].complete
      /\ State(a) \notin {"none", "writing", "published"}
      /\ \A q \in Readers : ~Relies(q, a)
      /\ row[a] \in RowSet /\ cleaner[c] \in CleanerSet /\ objects[a] \in SUBSET Members /\ AttemptInv(a)
  BY <1>1, <1>2, AtWork
<1>4. PICK m \in NextMember(a) :
         cleaner' = [cleaner EXCEPT ![c].member = m,
                        ![c].pc = IF m \in cleaner[c].seen THEN "erase" ELSE "acknowledge"]
  BY <1>2 DEF Check
<1>5. /\ objects[a] \cap Whole \subseteq cleaner[c].seen
      /\ objects[a] \cap Whole \subseteq Remaining(a)
  BY <1>2, <1>3 DEF Check, Doing, AttemptsInv, CleanerInv, AttemptInv, Remaining
<1>6. m \in Members /\ ("manifest" \in objects[a] => m = "manifest")
  <2>1. row[a].known \in SUBSET Members
    BY <1>3 DEF RowSet
  <2> QED
    BY <1>4, <1>5, <2>1 DEF NextMember, Remaining, Whole, Members
<1>7. PICK new : new = [cleaner[c] EXCEPT !.member = m,
                          !.pc = IF m \in cleaner[c].seen THEN "erase" ELSE "acknowledge"]
  OBVIOUS
<1>8. /\ new \in CleanerSet /\ new.member = m /\ new.seen = cleaner[c].seen
      /\ new.attempt = a /\ cleaner' = [cleaner EXCEPT ![c] = new]
      /\ new.pc \in {"erase", "acknowledge"}
      /\ new.pc = "acknowledge" => m \notin cleaner[c].seen
  BY <1>2, <1>3, <1>4, <1>6, <1>7 DEF CleanerSet, Attempt
<1>9. CleanerInv(c)'
  BY <1>1, <1>3, <1>5, <1>6, <1>8, CleanerWorks DEF State
<1>10. AttemptInv(a)' /\ State(a)' \in Doomed
  BY <1>1, <1>3 DEF AttemptInv, State
<1>11. /\ row' \in [Runs -> RowSet] /\ objects' \in [Runs -> SUBSET Members]
       /\ faults' \in 0 .. MaxFaults
  BY <1>1 DEF AttemptsInv, Domains
<1> QED
  BY <1>1, <1>3, <1>8, <1>9, <1>10, <1>11, CleanerStepOn

\* The manifest goes before the data, and the claim may be lost.
LEMMA ErasePreserves ==
    ASSUME AttemptsInv, NEW c \in Cleaners, Erase(c)
    PROVE  AttemptsInv'
<1>1. /\ ~Doing(c, "idle") /\ Doing(c, "erase")
      /\ UNCHANGED <<row, flying, cache, kept, pin, run, reader, faults>>
  BY DEF Erase, Doing
<1>2. PICK a : a = Attempt(c)
  OBVIOUS
<1>3. /\ a \in Runs /\ State(a) \in Doomed /\ row[a].complete
      /\ State(a) \notin {"none", "writing", "published"}
      /\ \A q \in Readers : ~Relies(q, a)
      /\ cleaner[c] \in CleanerSet /\ objects[a] \in SUBSET Members /\ AttemptInv(a)
  BY <1>1, <1>2, AtWork
<1>4. PICK m : m = cleaner[c].member
  OBVIOUS
<1>5. /\ objects[a] \cap Whole \subseteq cleaner[c].seen
      /\ "manifest" \in objects[a] => m = "manifest"
  BY <1>1, <1>2, <1>4 DEF Doing, AttemptsInv, CleanerInv
<1>6. /\ objects' \in [Runs -> SUBSET Members] /\ objects'[a] = objects[a] \ {m}
      /\ \A b \in Runs \ {a} : objects'[b] = objects[b]
  BY <1>2, <1>3, <1>4 DEF Erase, AttemptsInv, Domains
<1>7. PICK new : new = [cleaner[c] EXCEPT !.pc = "acknowledge"]
  OBVIOUS
<1>8. /\ new \in CleanerSet /\ new.member = m /\ new.seen = cleaner[c].seen
      /\ new.attempt = a /\ cleaner' = [cleaner EXCEPT ![c] = new]
      /\ new.pc = "acknowledge"
  BY <1>2, <1>3, <1>4, <1>7 DEF CleanerSet, Attempt, Erase, Move
<1>9. CleanerInv(c)'
  BY <1>1, <1>3, <1>5, <1>6, <1>8, CleanerWorks DEF State
<1>10. AttemptInv(a)' /\ State(a)' \in Doomed
  <2>1. row'[a] = row[a] /\ (a \in flying' <=> a \in flying)
    BY <1>1
  <2>2. "manifest" \notin objects'[a]
    BY <1>5, <1>6
  <2>3. State(a) \notin {"none", "committed", "published", "superseded"}
    BY <1>3 DEF Doomed
  <2> QED
    BY <1>3, <1>6, <2>1, <2>2, <2>3 DEF AttemptInv, State
<1>11. row' \in [Runs -> RowSet] /\ faults' \in 0 .. MaxFaults
  BY <1>1 DEF AttemptsInv, Domains
<1> QED
  BY <1>1, <1>3, <1>6, <1>8, <1>9, <1>10, <1>11, CleanerStepOn

LEMMA AcknowledgePreserves ==
    ASSUME AttemptsInv, NEW c \in Cleaners, Acknowledge(c)
    PROVE  AttemptsInv'
<1>1. /\ ~Doing(c, "idle") /\ Doing(c, "acknowledge")
      /\ UNCHANGED <<objects, flying, cache, kept, pin, run, reader, faults>>
  BY DEF Acknowledge, Doing
<1>2. PICK a : a = Attempt(c)
  OBVIOUS
<1>3. /\ a \in Runs /\ State(a) \in Doomed /\ row[a].complete
      /\ State(a) \notin {"none", "writing", "published"}
      /\ \A q \in Readers : ~Relies(q, a)
      /\ cleaner[c] \in CleanerSet /\ row[a] \in RowSet
      /\ objects[a] \in SUBSET Members /\ AttemptInv(a)
  BY <1>1, <1>2, AtWork
<1>4. PICK m : m = cleaner[c].member
  OBVIOUS
<1>5. /\ objects[a] \cap Whole \subseteq cleaner[c].seen
      /\ m \notin Whole \/ m \notin objects[a]
  BY <1>1, <1>2, <1>4 DEF Doing, AttemptsInv, CleanerInv
<1>6. /\ row' \in [Runs -> RowSet] /\ row'[a].gone = row[a].gone \cup {m}
      /\ row'[a].known = row[a].known /\ row'[a].complete = row[a].complete
      /\ row'[a].failures = row[a].failures /\ row'[a].state = row[a].state
      /\ \A b \in Runs \ {a} : row'[b] = row[b]
  <2>1. m \in Members
    BY <1>3, <1>4 DEF CleanerSet
  <2>2. row' = [row EXCEPT ![a].gone = @ \cup {m}]
    BY <1>2, <1>4 DEF Acknowledge
  <2> QED
    BY <1>3, <2>1, <2>2 DEF AttemptsInv, Domains, RowSet
<1>7. PICK new : new = [cleaner[c] EXCEPT !.pc = "check", !.member = "shard"]
  OBVIOUS
<1>8. /\ new \in CleanerSet /\ new.seen = cleaner[c].seen
      /\ new.attempt = a /\ cleaner' = [cleaner EXCEPT ![c] = new]
      /\ new.pc = "check"
  <2>1. PICK w \in CleanerSet : w = cleaner[c] /\ w.attempt = a
    BY <1>2, <1>3 DEF Attempt
  <2>2. new = [w EXCEPT !.pc = "check", !.member = "shard"]
    BY <1>7, <2>1
  <2>3. new \in CleanerSet /\ new.seen = w.seen /\ new.attempt = a /\ new.pc = "check"
    BY <2>1, <2>2 DEF CleanerSet, Members
  <2>4. cleaner' = [cleaner EXCEPT ![c] = new]
    BY <1>7 DEF Acknowledge
  <2> QED
    BY <2>1, <2>3, <2>4
<1>9. CleanerInv(c)'
  BY <1>1, <1>3, <1>5, <1>6, <1>8, CleanerWorks DEF State
<1>10. AttemptInv(a)' /\ State(a)' \in Doomed
  BY <1>1, <1>3, <1>5, <1>6 DEF AttemptInv, State
<1>11. faults' \in 0 .. MaxFaults /\ objects' \in [Runs -> SUBSET Members]
  BY <1>1 DEF AttemptsInv, Domains
<1> QED
  BY <1>1, <1>3, <1>6, <1>8, <1>9, <1>10, <1>11, CleanerStepOn

\* The ends of a deletion.
LEMMA EndPreserves ==
    ASSUME AttemptsInv, NEW c \in Cleaners, ~Doing(c, "idle"), NEW a, a = Attempt(c), Rest(c),
           UNCHANGED <<objects, flying, cache, kept, pin, run, reader>>,
           faults' \in 0 .. MaxFaults,
           NEW new \in RowSet, row' = [row EXCEPT ![a] = new], new.state \in Doomed,
           new.known = row[a].known, new.complete = row[a].complete, new.gone = row[a].gone,
           new.state = "deleted" => objects[a] = {} /\ a \notin flying,
           new.state # "quarantined" => new.failures < MaxDeletes
    PROVE  AttemptsInv'
<1>1. /\ a \in Runs /\ State(a) \in Doomed /\ row[a].complete
      /\ State(a) \notin {"none", "writing", "published"}
      /\ \A q \in Readers : ~Relies(q, a)
      /\ row[a] \in RowSet /\ AttemptInv(a)
  BY AtWork
<1>2. /\ row' \in [Runs -> RowSet] /\ row'[a] = new
      /\ \A b \in Runs \ {a} : row'[b] = row[b]
  BY <1>1 DEF AttemptsInv, Domains
<1>3. PICK turn \in CleanerSet : turn.pc = "idle" /\ cleaner' = [cleaner EXCEPT ![c] = turn]
  BY RestingIsIdle DEF Rest
<1>4. CleanerInv(c)'
  BY <1>3, CleanerTurns
<1>5. AttemptInv(a)' /\ State(a)' \in Doomed
  BY <1>1, <1>2 DEF AttemptInv, State, Doomed
<1>6. objects' \in [Runs -> SUBSET Members]
  BY DEF AttemptsInv, Domains
<1> QED
  BY <1>1, <1>2, <1>3, <1>4, <1>5, <1>6, CleanerStepOn

LEMMA BeginVerificationPreserves ==
    ASSUME AttemptsInv, NEW c \in Cleaners, BeginVerification(c)
    PROVE  AttemptsInv'
<1>1. ~Doing(c, "idle") /\ UNCHANGED <<objects, flying, cache, kept, pin, run, faults>>
  BY DEF BeginVerification, Doing
<1>2. PICK a : a = Attempt(c)
  OBVIOUS
<1>3. row[a] \in RowSet /\ AttemptInv(a)
  BY <1>1, <1>2, AtWork
<1>4. CASE /\ row' = [row EXCEPT ![a].state = "verifying", ![a].holder = None, ![a].live = FALSE]
           /\ Rest(c) /\ UNCHANGED reader
  <2>1. PICK new : new = [row[a] EXCEPT !.state = "verifying", !.holder = None, !.live = FALSE]
    OBVIOUS
  <2>2. /\ new \in RowSet /\ new.state = "verifying" /\ new.failures = row[a].failures
        /\ new.known = row[a].known /\ new.complete = row[a].complete /\ new.gone = row[a].gone
    BY <1>3, <2>1 DEF RowSet, RowStates
  <2>3. row' = [row EXCEPT ![a] = new]
    BY <1>4, <2>1
  <2>4. row[a].failures < MaxDeletes
    BY <1>2, <1>3 DEF BeginVerification, HoldsLive, Holds, AttemptInv
  <2>5. faults' \in 0 .. MaxFaults
    BY <1>1 DEF AttemptsInv, Domains
  <2> QED
    BY <1>1, <1>2, <1>4, <2>2, <2>3, <2>4, <2>5, EndPreserves DEF Doomed
<1>5. CASE Quarantine(a) /\ Rest(c)
  BY <1>1, <1>2, <1>5, CleanerQuarantines
<1>6. Quarantine(Attempt(c)) => Quarantine(a)
  BY <1>2 DEF Quarantine
<1> QED
  BY <1>2, <1>4, <1>5, <1>6 DEF BeginVerification

\* The quiet period is over: what is empty stays empty.
LEMMA VerifyPreserves ==
    ASSUME AttemptsInv, NEW c \in Cleaners, Verify(c)
    PROVE  AttemptsInv'
<1>1. ~Doing(c, "idle") /\ UNCHANGED <<objects, flying, cache, kept, pin, run, faults>>
  BY DEF Verify, Doing
<1>2. PICK a : a = Attempt(c)
  OBVIOUS
<1>3. row[a] \in RowSet /\ AttemptInv(a)
  BY <1>1, <1>2, AtWork
<1>4. CASE /\ objects[a] = {}
           /\ row' = [row EXCEPT ![a].state = "deleted", ![a].holder = None, ![a].live = FALSE]
           /\ Rest(c) /\ UNCHANGED reader
  <2>1. PICK new : new = [row[a] EXCEPT !.state = "deleted", !.holder = None, !.live = FALSE]
    OBVIOUS
  <2>2. /\ new \in RowSet /\ new.state = "deleted" /\ new.failures = row[a].failures
        /\ new.known = row[a].known /\ new.complete = row[a].complete /\ new.gone = row[a].gone
    BY <1>3, <2>1 DEF RowSet, RowStates
  <2>3. row' = [row EXCEPT ![a] = new]
    BY <1>4, <2>1
  <2>4. row[a].failures < MaxDeletes
    BY <1>2, <1>3 DEF Verify, HoldsLive, Holds, AttemptInv
  <2>5. a \notin flying
    BY <1>1, <1>2 DEF Verify, Doing, AttemptsInv, CleanerInv
  <2>6. faults' \in 0 .. MaxFaults
    BY <1>1 DEF AttemptsInv, Domains
  <2> QED
    BY <1>1, <1>2, <1>4, <2>2, <2>3, <2>4, <2>5, <2>6, EndPreserves DEF Doomed
<1>5. CASE Quarantine(a) /\ Rest(c)
  BY <1>1, <1>2, <1>5, CleanerQuarantines
<1>6. Quarantine(Attempt(c)) => Quarantine(a)
  BY <1>2 DEF Quarantine
<1> QED
  BY <1>2, <1>4, <1>5, <1>6 DEF Verify

LEMMA FailDeletePreserves ==
    ASSUME AttemptsInv, NEW c \in Cleaners, FailDelete(c)
    PROVE  AttemptsInv'
<1>1. /\ ~Doing(c, "idle") /\ Rest(c)
      /\ UNCHANGED <<objects, flying, cache, kept, pin, run, reader>>
      /\ faults' \in 0 .. MaxFaults
  BY BoundsAssumption DEF FailDelete, Fault, AttemptsInv, Domains
<1>2. PICK a : a = Attempt(c)
  OBVIOUS
<1>3. row[a] \in RowSet /\ AttemptInv(a)
  BY <1>1, <1>2, AtWork
<1>4. CASE ~Holds(c)
  BY <1>1, <1>4, RestStep DEF FailDelete
<1>5. CASE Holds(c)
  <2>1. PICK state : state = IF row[a].failures + 1 >= MaxDeletes THEN "quarantined" ELSE "pending"
    OBVIOUS
  <2>2. PICK new : new = [row[a] EXCEPT !.failures = @ + 1, !.state = state,
                                        !.holder = None, !.live = FALSE]
    OBVIOUS
  <2>3. row[a].failures < MaxDeletes /\ row[a].failures \in 0 .. MaxDeletes
    BY <1>2, <1>3, <1>5 DEF Holds, AttemptInv, RowSet
  <2>4. row[a].failures + 1 \in 0 .. MaxDeletes
    BY <2>3, BoundsAssumption
  <2>5. state \in {"quarantined", "pending"}
    BY <2>1
  <2>6. /\ new \in RowSet /\ new.state = state /\ new.failures = row[a].failures + 1
        /\ new.known = row[a].known /\ new.complete = row[a].complete /\ new.gone = row[a].gone
    BY <1>3, <2>2, <2>4, <2>5 DEF RowSet, RowStates
  <2>7. state # "quarantined" => new.failures < MaxDeletes
    BY <2>1, <2>3, <2>4, <2>6, BoundsAssumption
  <2>8. row' = [row EXCEPT ![a] = new]
    BY <1>2, <1>5, <2>1, <2>2 DEF FailDelete
  <2> QED
    BY <1>1, <1>2, <2>5, <2>6, <2>7, <2>8, EndPreserves DEF Doomed
<1> QED
  BY <1>4, <1>5

LEMMA LeavePreserves ==
    ASSUME AttemptsInv, NEW c \in Cleaners, Leave(c) \/ CleanerCrashes(c)
    PROVE  AttemptsInv'
<1>1. /\ ~Doing(c, "idle") /\ Rest(c)
      /\ UNCHANGED <<row, objects, flying, cache, kept, pin, run, reader>>
      /\ faults' \in 0 .. MaxFaults
  BY BoundsAssumption DEF Leave, CleanerCrashes, Doing, Fault, AttemptsInv, Domains
<1> QED
  BY <1>1, RestStep

-----------------------------------------------------------------------------
(* The invariant.                                                          *)

LEMMA InitEstablishes == Init => AttemptsInv
<1> SUFFICES ASSUME Init PROVE AttemptsInv
  OBVIOUS
<1>1. /\ NoRow \in RowSet /\ NoRow.state = "none" /\ ~NoRow.complete /\ NoRow.gone = {}
      /\ NoRow.failures = 0
  BY BoundsAssumption DEF NoRow, RowSet, RowStates
<1>2. NoPin \in PinSet /\ NoPin.attempt = None
  BY DEF NoPin, PinSet
<1>3. NotReading \in ReaderSet /\ NotReading.pc = "idle"
  BY DEF NotReading, ReaderSet
<1>4. Domains
  BY <1>1, <1>2, <1>3, RestingIsIdle, BoundsAssumption DEF Init, Domains, RunPcs
<1>5. RefInv
  BY <1>1, <1>2, NoneAssumption DEF Init, RefInv, Referenced, State
<1>6. \A a \in Runs : AttemptInv(a)
  BY <1>1, BoundsAssumption DEF Init, AttemptInv, State
<1>7. \A r \in Runs : RunInv(r)
  BY <1>1, <1>2 DEF Init, RunInv, At, State
<1>8. \A q \in Readers : ReaderInv(q) /\ ReadsOne(q)
  BY <1>3 DEF Init, ReaderInv, ReadsOne, Relies
<1>9. \A c \in Cleaners : CleanerInv(c)
  BY RestingIsIdle DEF Init, CleanerInv, Doing
<1> QED
  BY <1>4, <1>5, <1>6, <1>7, <1>8, <1>9 DEF AttemptsInv

LEMMA NextPreserves ==
    ASSUME AttemptsInv, [Next]_vars
    PROVE  AttemptsInv'
<1>1. CASE Evict
  BY <1>1, EvictPreserves
<1>2. CASE \E r \in Runs : RunStep(r)
  <2>1. PICK r \in Runs : RunStep(r)
    BY <1>2
  <2> QED
    BY <2>1, WriteShardPreserves, WriteManifestPreserves, PreparePreserves, PutCachePreserves,
       ReadBackPreserves, AttestPreserves, YieldPreserves, ObserveOwnPreserves, OwnPreserves,
       KeepPinnedPreserves, ClosePreserves DEF RunStep
<1>3. CASE \E r \in Runs :
             \/ Hit(r) \/ Allocate(r) \/ GiveUp(r) \/ RunCrashes(r) \/ Forget(r)
             \/ PinLapses(r) \/ RenewPin(r)
  BY <1>3, HitPreserves, AllocatePreserves, GiveUpPreserves, RunCrashesPreserves,
     ForgetPreserves, PinMoves
<1>4. CASE \E a \in Runs :
             \/ LateWriteEnds(a) \/ PublishLapses(a) \/ ClaimLapses(a) \/ Expire(a)
             \/ AbandonOrphan(a) \/ Observe(a)
  BY <1>4, LateWriteEndsPreserves, PublishLapsesPreserves, ClaimLapsesPreserves,
     ExpirePreserves, AbandonOrphanPreserves, ObservePreserves
<1>5. CASE \E a \in Runs : (\E q \in Readers : Open(q, a)) \/ (\E c \in Cleaners : Pick(c, a))
  BY <1>5, OpenPreserves, ClaimPreserves
<1>6. CASE \E q \in Readers : Renew(q) \/ ReadLapses(q) \/ CloseRead(q) \/ ReaderCrashes(q)
  BY <1>6, ReaderMoves
<1>7. CASE \E c \in Cleaners : CleanerStep(c) \/ CleanerCrashes(c)
  BY <1>7, ListPreserves, CheckPreserves, ErasePreserves, AcknowledgePreserves,
     BeginVerificationPreserves, VerifyPreserves, FailDeletePreserves, LeavePreserves
  DEF CleanerStep
<1>8. CASE UNCHANGED vars
  <2>1. UNCHANGED <<row, objects, flying, cache, kept, pin, run, reader, cleaner, faults>>
    BY <1>8 DEF vars
  <2>2. Domains' /\ RefInv'
    BY <2>1 DEF AttemptsInv, Domains, RefInv, Referenced, State
  <2>3. \A r \in Runs : RunInv(r)'
    BY <2>1, RunStays DEF AttemptsInv, State
  <2> QED
    BY <2>1, <2>2, <2>3, SameShifts, ReferenceStep DEF State
<1> QED
  BY <1>1, <1>2, <1>3, <1>4, <1>5, <1>6, <1>7, <1>8 DEF Next

-----------------------------------------------------------------------------
(* What no step may do to a generation.                                    *)

\* The changes of an attempt's state that happen; besides, all but what is
\* SetAside may be quarantined.
Order ==
    {<<"none", "writing">>, <<"writing", "committed">>, <<"committed", "published">>,
     <<"published", "superseded">>, <<"superseded", "deleting">>,
     <<"writing", "abandoned">>, <<"committed", "abandoned">>, <<"abandoned", "deleting">>,
     <<"deleting", "verifying">>, <<"verifying", "deleted">>,
     <<"deleting", "pending">>, <<"verifying", "pending">>, <<"pending", "deleting">>}
SetAside == {"none", "published", "deleted", "quarantined"}

Goes(old, new) == <<old, new>> \in Order \/ (old \notin SetAside /\ new = "quarantined")

Moves(a) == State(a)' = State(a) \/ Goes(State(a), State(a)')

\* All steps but the claims take a holder away, if they touch it, and they do
\* when they end what it holds.
Turns(a) ==
    \/ State(a)' = State(a) /\ row'[a].holder \in {row[a].holder, None}
    \/ /\ Goes(State(a), State(a)')
       /\ \/ row'[a].holder = None
          \/ row'[a].holder = row[a].holder /\ State(a) \notin {"deleting", "verifying"}

\* A reaper that still holds its claim finds the attempt where the claim put
\* it, or where it took it itself.
HolderKnows(c) ==
    ~Doing(c, "idle") /\ row[Attempt(c)].holder = c =>
        State(Attempt(c)) = IF Doing(c, "verify") THEN "verifying" ELSE "deleting"

\* A generation lives once: what was superseded, abandoned or quarantined is
\* not published again, what is published is whole at that moment, nothing
\* writes its data and manifest but its own run before the commit, and no
\* object goes before its deletion was claimed.
Forward(a) ==
    /\ Moves(a)
    /\ State(a)' # State(a) /\ State(a)' = "published" => Whole \subseteq objects[a]
    /\ objects[a] \subseteq objects'[a] \/ State(a) \in Doomed
    /\ objects'[a] \cap Whole \subseteq objects[a] \/ State(a) = "writing"

LEMMA TurnsMove == \A a \in Runs : Turns(a) => Moves(a)
BY DEF Turns, Moves

\* A step that leaves the objects alone is judged by the states alone.
LEMMA MovesForward ==
    ASSUME AttemptsInv, UNCHANGED objects, NEW a \in Runs, Moves(a)
    PROVE  Forward(a)
<1>1. State(a)' # State(a) /\ State(a)' = "published" => State(a) = "committed"
  BY DEF Moves, Goes, Order
<1>2. State(a) = "committed" => Whole \subseteq objects[a]
  BY DEF AttemptsInv, AttemptInv
<1> QED
  BY <1>1, <1>2 DEF Forward

\* One row changes, with or without its state.
LEMMA OneTurns ==
    ASSUME AttemptsInv, NEW r \in Runs, NEW new, row' = [row EXCEPT ![r] = new],
           \/ new.state = State(r) /\ new.holder \in {row[r].holder, None}
           \/ /\ Goes(State(r), new.state)
              /\ \/ new.holder = None
                 \/ new.holder = row[r].holder /\ State(r) \notin {"deleting", "verifying"},
           NEW a \in Runs
    PROVE  Turns(a)
<1>1. row'[r] = new /\ (a # r => row'[a] = row[a])
  BY DEF AttemptsInv, Domains
<1>2. CASE a = r
  <2>1. State(a)' = new.state /\ row'[a].holder = new.holder
    BY <1>1, <1>2 DEF State
  <2> QED
    BY <1>2, <2>1 DEF Turns
<1>3. CASE a # r
  BY <1>1, <1>3 DEF Turns, State
<1> QED
  BY <1>2, <1>3

LEMMA SameTurns == ASSUME UNCHANGED row, NEW a \in Runs PROVE Turns(a)
BY DEF Turns, State

LEMMA DroppedTurns ==
    ASSUME NEW rows \in [Runs -> RowSet], NEW b, row' = Dropped(rows, b), NEW a \in Runs
    PROVE  \/ row'[a] = rows[a]
           \/ /\ a = b /\ rows[a].state = "published"
              /\ row'[a].state = "superseded" /\ row'[a].holder = None
<1> DEFINE Old(e) == [rows[e] EXCEPT !.state = "superseded", !.holder = None, !.live = FALSE]
<1>1. Old(a).state = "superseded" /\ Old(a).holder = None
  <2>1. PICK w \in RowSet : w = rows[a]
    OBVIOUS
  <2>2. PICK new : new = [w EXCEPT !.state = "superseded", !.holder = None, !.live = FALSE]
    OBVIOUS
  <2>3. new.state = "superseded" /\ new.holder = None
    BY <2>2 DEF RowSet
  <2> QED
    BY <2>1, <2>2, <2>3
<1>2. row' = [e \in Runs |->
          IF e = b /\ rows[e].state = "published" /\ ~Referenced(e)' THEN Old(e) ELSE rows[e]]
  BY DEF Dropped
<1> HIDE DEF Old
<1> QED
  BY <1>1, <1>2

LEMMA DropTurns ==
    ASSUME AttemptsInv, NEW b, row' = Dropped(row, b), NEW a \in Runs
    PROVE  Turns(a)
<1>1. \/ row'[a] = row[a]
      \/ /\ row[a].state = "published"
         /\ row'[a].state = "superseded" /\ row'[a].holder = None
  BY DroppedTurns DEF AttemptsInv, Domains
<1> QED
  BY <1>1 DEF Turns, Goes, Order, State

LEMMA QuarantineTurns ==
    ASSUME AttemptsInv, NEW r \in Runs, Quarantine(r), State(r) # "none", NEW a \in Runs
    PROVE  Turns(a)
<1>1. CASE UNCHANGED row
  BY <1>1, SameTurns
<1>2. CASE /\ State(r) # "deleted" /\ ~Referenced(r)
           /\ row' = [row EXCEPT ![r].state = "quarantined", ![r].publishing = FALSE,
                                 ![r].holder = None, ![r].live = FALSE]
  <2>1. PICK new : new = [row[r] EXCEPT !.state = "quarantined", !.publishing = FALSE,
                                        !.holder = None, !.live = FALSE]
    OBVIOUS
  <2>2. row[r] \in RowSet /\ State(r) # "published"
    BY <1>2 DEF AttemptsInv, Domains, RefInv
  <2>3. new.state = "quarantined" /\ new.holder = None
    BY <2>1, <2>2 DEF RowSet
  <2>4. row' = [row EXCEPT ![r] = new]
    BY <1>2, <2>1
  <2>5. new.state = State(r) \/ Goes(State(r), new.state)
    BY <1>2, <2>2, <2>3 DEF Goes, SetAside
  <2> QED
    BY <2>3, <2>4, <2>5, OneTurns
<1> QED
  BY <1>1, <1>2 DEF Quarantine

LEMMA ObservedTurns ==
    ASSUME AttemptsInv, NEW r \in Runs, row' = Observed(r, objects[r]), NEW a \in Runs
    PROVE  Turns(a)
<1>0. row[r] \in RowSet
  BY DEF AttemptsInv, Domains
<1>1. PICK first : first = [row[r] EXCEPT !.known = objects[r], !.observed = TRUE]
  OBVIOUS
<1>2. PICK second : second = [row[r] EXCEPT !.complete = TRUE]
  OBVIOUS
<1>3. PICK other : other = [row[r] EXCEPT !.state = "quarantined"]
  OBVIOUS
<1>4. /\ first.state = State(r) /\ first.holder = row[r].holder
      /\ second.state = State(r) /\ second.holder = row[r].holder
      /\ other.state = "quarantined" /\ other.holder = row[r].holder
  BY <1>0, <1>1, <1>2, <1>3 DEF RowSet, State
<1>5. \/ UNCHANGED row
      \/ row' = [row EXCEPT ![r] = first] \/ row' = [row EXCEPT ![r] = second]
      \/ State(r) = "abandoned" /\ row' = [row EXCEPT ![r] = other]
  BY <1>1, <1>2, <1>3 DEF Observed
<1>6. CASE row' = [row EXCEPT ![r] = first] \/ row' = [row EXCEPT ![r] = second]
  BY <1>4, <1>6, OneTurns
<1>7. CASE State(r) = "abandoned" /\ row' = [row EXCEPT ![r] = other]
  BY <1>4, <1>7, OneTurns DEF Goes, SetAside
<1> QED
  BY <1>5, <1>6, <1>7, SameTurns

LEMMA AbandonedTurns ==
    ASSUME AttemptsInv, NEW r \in Runs, row' = Abandoned(r), NEW a \in Runs
    PROVE  Turns(a)
<1>1. PICK new : new = [row[r] EXCEPT !.state = "abandoned", !.publishing = FALSE]
  OBVIOUS
<1>2. row[r] \in RowSet
  BY DEF AttemptsInv, Domains
<1>3. new.state = "abandoned" /\ new.holder = row[r].holder
  BY <1>1, <1>2 DEF RowSet
<1>4. \/ UNCHANGED row
      \/ State(r) \in {"writing", "committed"} /\ row' = [row EXCEPT ![r] = new]
  BY <1>1 DEF Abandoned
<1> QED
  BY <1>3, <1>4, OneTurns, SameTurns DEF Goes, Order

LEMMA PublishedTurns ==
    ASSUME AttemptsInv, NEW r \in Runs, NEW rows, rows = Published(r)
    PROVE  rows[r].state = "published" /\ rows[r].holder = row[r].holder
<1>1. PICK new : new = [row[r] EXCEPT !.state = "published", !.publishing = FALSE]
  OBVIOUS
<1>2. row[r] \in RowSet
  BY DEF AttemptsInv, Domains
<1>3. new.state = "published" /\ new.holder = row[r].holder
  BY <1>1, <1>2 DEF RowSet
<1>4. rows[r] = new
  BY <1>1 DEF Published, AttemptsInv, Domains
<1> QED
  BY <1>3, <1>4

\* The actions on a run's own row, and those that hand references over.
LEMMA RunStepTurns ==
    ASSUME AttemptsInv, NEW r \in Runs, NEW a \in Runs,
           \/ Allocate(r) \/ Prepare(r) \/ Attest(r) \/ Close(r)
           \/ Yield(r) \/ Abandon(r) \/ ObserveOwn(r) \/ Own(r) \/ Forget(r)
    PROVE  Turns(a)
<1>0. row \in [Runs -> RowSet] /\ row[r] \in RowSet
  BY DEF AttemptsInv, Domains
<1>1. CASE Allocate(r)
  <2>1. PICK new : new = [NoRow EXCEPT !.state = "writing", !.publishing = TRUE]
    OBVIOUS
  <2>2. new.state = "writing" /\ new.holder = None
    BY <2>1 DEF NoRow
  <2>3. row' = [row EXCEPT ![r] = new] /\ State(r) = "none"
    BY <1>1, <2>1 DEF Allocate, AttemptsInv, RunInv
  <2> QED
    BY <2>2, <2>3, OneTurns DEF Goes, Order
<1>2. CASE Prepare(r)
  <2>1. State(r) = "writing" /\ UNCHANGED <<objects, cache, kept, pin>>
    BY <1>2 DEF Prepare, AttemptsInv, RunInv, At
  <2>2. CASE Quarantine(r)
    BY <2>1, <2>2, QuarantineTurns
  <2>3. CASE row' = [row EXCEPT ![r].state = "committed", ![r].known = objects[r],
                                ![r].observed = TRUE, ![r].complete = TRUE]
    <3>1. PICK new : new = [row[r] EXCEPT !.state = "committed", !.known = objects[r],
                                          !.observed = TRUE, !.complete = TRUE]
      OBVIOUS
    <3>2. new.state = "committed" /\ new.holder = row[r].holder
      BY <1>0, <3>1 DEF RowSet
    <3>3. row' = [row EXCEPT ![r] = new]
      BY <2>3, <3>1
    <3> QED
      BY <2>1, <3>2, <3>3, OneTurns DEF Goes, Order
  <2> QED
    BY <1>2, <2>2, <2>3 DEF Prepare
<1>3. CASE Attest(r) \/ Close(r)
  <2>1. PICK b : b = pin[r].attempt
    OBVIOUS
  <2>2. row' = Dropped(row, b) \/ UNCHANGED row
    BY <1>3, <2>1 DEF Attest, Close, Unpin
  <2> QED
    BY <2>2, DropTurns, SameTurns
<1>4. CASE Yield(r) \/ Abandon(r)
  <2>1. row' = Abandoned(r) /\ UNCHANGED <<cache, kept, pin>>
    BY <1>4 DEF Yield, Abandon
  <2> QED
    BY <2>1, AbandonedTurns
<1>5. CASE ObserveOwn(r)
  <2>1. row' = Observed(r, objects[r]) /\ UNCHANGED <<objects, flying, cache, kept, pin>>
    BY <1>5 DEF ObserveOwn
  <2> QED
    BY <2>1, ObservedTurns
<1>6. CASE Own(r)
  <2>1. \/ State(r) = "committed" /\ row' = Published(r)
        \/ UNCHANGED row
    BY <1>6 DEF Own
  <2>2. CASE State(r) = "committed" /\ row' = Published(r)
    <3>1. /\ row'[r].state = "published" /\ row'[r].holder = row[r].holder
          /\ \A s \in Runs \ {r} : row'[s] = row[s]
      BY <2>2, PublishedRow, PublishedTurns
    <3> QED
      BY <2>2, <3>1 DEF Turns, Goes, Order, State
  <2> QED
    BY <2>1, <2>2, SameTurns
<1>7. CASE Forget(r)
  <2>1. PICK b : b = kept[r]
    OBVIOUS
  <2>2. row' = Dropped(row, b)
    BY <1>7, <2>1 DEF Forget
  <2> QED
    BY <1>0, <2>2, DropTurns
<1> QED
  BY <1>1, <1>2, <1>3, <1>4, <1>5, <1>6, <1>7

LEMMA PutCacheTurns ==
    ASSUME AttemptsInv, NEW r \in Runs, NEW a \in Runs, PutCache(r)
    PROVE  Turns(a)
<1>1. /\ State(r) \notin {"none", "writing"} /\ UNCHANGED <<objects, kept, pin>>
      /\ \/ /\ Attested(r)
            /\ row' = IF cache \in {r, None} THEN Published(r) ELSE Dropped(Published(r), cache)
         \/ Quarantine(r) /\ UNCHANGED cache
         \/ UNCHANGED row
  BY DEF PutCache, AttemptsInv, RunInv
<1>2. CASE Quarantine(r) /\ UNCHANGED cache
  BY <1>1, <1>2, QuarantineTurns
<1>3. CASE UNCHANGED row
  BY <1>3, SameTurns
<1>4. CASE /\ Attested(r)
           /\ row' = IF cache \in {r, None} THEN Published(r) ELSE Dropped(Published(r), cache)
  <2>1. PICK rows : rows = Published(r)
    OBVIOUS
  <2>2. /\ rows \in [Runs -> RowSet]
        /\ rows[r].state = "published" /\ rows[r].holder = row[r].holder
        /\ \A s \in Runs \ {r} : rows[s] = row[s]
    BY <2>1, PublishedRow, PublishedTurns
  <2>3. row[r].state \in {"committed", "published"}
    BY <1>4 DEF Attested, State
  <2>4. PICK b : b = cache
    OBVIOUS
  <2>5. CASE row' = rows
    BY <2>2, <2>3, <2>5 DEF Turns, Goes, Order, State
  <2>6. CASE b # r /\ row' = Dropped(rows, b)
    <3>1. \/ row'[a] = rows[a]
          \/ /\ a # r /\ rows[a].state = "published"
             /\ row'[a].state = "superseded" /\ row'[a].holder = None
      BY <2>2, <2>6, DroppedTurns
    <3>2. CASE row'[a] = rows[a]
      BY <2>2, <2>3, <3>2 DEF Turns, Goes, Order, State
    <3>3. CASE /\ a # r /\ rows[a].state = "published"
               /\ row'[a].state = "superseded" /\ row'[a].holder = None
      BY <2>2, <3>3 DEF Turns, Goes, Order, State
    <3> QED
      BY <3>1, <3>2, <3>3
  <2> QED
    BY <1>4, <2>1, <2>4, <2>5, <2>6
<1> QED
  BY <1>1, <1>2, <1>3, <1>4

\* Time, and the reaper's steps that need no claim.
LEMMA TimeTurns ==
    ASSUME AttemptsInv, NEW r \in Runs, NEW a \in Runs,
           \/ PublishLapses(r) \/ ClaimLapses(r) \/ Expire(r) \/ AbandonOrphan(r) \/ Observe(r)
    PROVE  Turns(a)
<1>0. row \in [Runs -> RowSet] /\ row[r] \in RowSet
  BY DEF AttemptsInv, Domains
<1>1. CASE PublishLapses(r)
  <2>1. PICK new : new = [row[r] EXCEPT !.publishing = FALSE]
    OBVIOUS
  <2>2. /\ new.state = State(r) /\ new.holder = row[r].holder
        /\ row' = [row EXCEPT ![r] = new]
    BY <1>0, <1>1, <2>1 DEF PublishLapses, RowSet, State
  <2> QED
    BY <2>2, OneTurns
<1>2. CASE ClaimLapses(r)
  <2>1. PICK new : new = [row[r] EXCEPT !.live = FALSE]
    OBVIOUS
  <2>2. /\ new.state = State(r) /\ new.holder = row[r].holder
        /\ row' = [row EXCEPT ![r] = new]
    BY <1>0, <1>2, <2>1 DEF ClaimLapses, RowSet, State
  <2> QED
    BY <2>2, OneTurns
<1>3. CASE Expire(r)
  <2>1. row' = Dropped(row, r) \/ UNCHANGED row
    BY <1>3 DEF Expire
  <2>2. CASE row' = Dropped(row, r)
    BY <1>0, <2>2, DropTurns
  <2> QED
    BY <2>1, <2>2, SameTurns
<1>4. CASE AbandonOrphan(r)
  <2>1. PICK new : new = [row[r] EXCEPT !.state = "abandoned"]
    OBVIOUS
  <2>2. new.state = "abandoned" /\ new.holder = row[r].holder
    BY <1>0, <2>1 DEF RowSet
  <2>3. State(r) = "committed" /\ row' = [row EXCEPT ![r] = new]
    BY <1>4, <2>1 DEF AbandonOrphan
  <2> QED
    BY <2>2, <2>3, OneTurns DEF Goes, Order
<1>5. CASE Observe(r)
  <2>1. row' = Observed(r, objects[r]) /\ UNCHANGED <<objects, flying, cache, kept, pin>>
    BY <1>5 DEF Observe
  <2> QED
    BY <2>1, ObservedTurns
<1> QED
  BY <1>1, <1>2, <1>3, <1>4, <1>5

\* A reaper at work.
LEMMA ReaperTurns ==
    ASSUME AttemptsInv, NEW c \in Cleaners, HolderKnows(c), NEW a \in Runs,
           \/ List(c) \/ Acknowledge(c) \/ BeginVerification(c) \/ Verify(c) \/ FailDelete(c)
    PROVE  Turns(a)
<1>1. ~Doing(c, "idle") /\ UNCHANGED <<objects, cache, kept, pin>>
  BY DEF List, Acknowledge, BeginVerification, Verify, FailDelete, Doing
<1>2. PICK b : b = Attempt(c)
  OBVIOUS
<1>3. b \in Runs /\ State(b) # "none" /\ row[b] \in RowSet
  BY <1>1, <1>2, AtWork
<1>4. CASE Quarantine(b)
  BY <1>1, <1>3, <1>4, QuarantineTurns
<1>5. CASE UNCHANGED row
  BY <1>5, SameTurns
<1>6. CASE row' = [row EXCEPT ![b].gone = @ \cup {cleaner[c].member}]
  <2>1. PICK new : new = [row[b] EXCEPT !.gone = @ \cup {cleaner[c].member}]
    OBVIOUS
  <2>2. /\ new.state = State(b) /\ new.holder = row[b].holder
        /\ row' = [row EXCEPT ![b] = new]
    BY <1>3, <1>6, <2>1 DEF RowSet, State
  <2> QED
    BY <1>3, <2>2, OneTurns
<1>7. ASSUME NEW s, <<State(b), s>> \in Order,
             row' = [row EXCEPT ![b].state = s, ![b].holder = None, ![b].live = FALSE]
      PROVE  Turns(a)
  <2>1. PICK new : new = [row[b] EXCEPT !.state = s, !.holder = None, !.live = FALSE]
    OBVIOUS
  <2>2. new.state = s /\ new.holder = None
    BY <1>3, <2>1 DEF RowSet
  <2>3. row' = [row EXCEPT ![b] = new]
    BY <1>7, <2>1
  <2> QED
    BY <1>3, <1>7, <2>2, <2>3, OneTurns DEF Goes
<1>8. CASE FailDelete(c) /\ Holds(c)
  <2>1. PICK state : state = IF row[b].failures + 1 >= MaxDeletes THEN "quarantined" ELSE "pending"
    OBVIOUS
  <2>2. PICK new : new = [row[b] EXCEPT !.failures = @ + 1, !.state = state,
                                        !.holder = None, !.live = FALSE]
    OBVIOUS
  <2>3. new.state = state /\ state \in {"quarantined", "pending"} /\ new.holder = None
    BY <1>3, <2>1, <2>2 DEF RowSet
  <2>4. row' = [row EXCEPT ![b] = new]
    BY <1>2, <1>8, <2>1, <2>2 DEF FailDelete
  <2>5. State(b) \in {"deleting", "verifying"}
    BY <1>2, <1>8 DEF Holds
  <2> QED
    BY <1>3, <2>3, <2>4, <2>5, OneTurns DEF Goes, Order, SetAside
<1>9. CASE List(c) \/ Acknowledge(c)
  BY <1>2, <1>4, <1>5, <1>6, <1>9 DEF List, Acknowledge
<1>10. CASE BeginVerification(c)
  <2>1. State(b) = "deleting"
    BY <1>2, <1>10 DEF BeginVerification, HoldsLive, Holds, HolderKnows, Doing
  <2>2. \/ row' = [row EXCEPT ![b].state = "verifying", ![b].holder = None, ![b].live = FALSE]
        \/ Quarantine(b)
    BY <1>2, <1>10 DEF BeginVerification
  <2>3. <<State(b), "verifying">> \in Order
    BY <2>1 DEF Order
  <2> QED
    BY <1>4, <1>7, <2>2, <2>3
<1>11. CASE Verify(c)
  <2>1. State(b) = "verifying"
    BY <1>2, <1>11 DEF Verify, HoldsLive, Holds, HolderKnows, Doing
  <2>2. \/ row' = [row EXCEPT ![b].state = "deleted", ![b].holder = None, ![b].live = FALSE]
        \/ Quarantine(b)
    BY <1>2, <1>11 DEF Verify
  <2>3. <<State(b), "deleted">> \in Order
    BY <2>1 DEF Order
  <2> QED
    BY <1>4, <1>7, <2>2, <2>3
<1>12. CASE FailDelete(c) /\ ~Holds(c)
  BY <1>5, <1>12 DEF FailDelete
<1> QED
  BY <1>8, <1>9, <1>10, <1>11, <1>12

\* A reaper that takes an attempt knows what it took.
LEMMA PickTurns ==
    ASSUME AttemptsInv, NEW c \in Cleaners, NEW r \in Runs, Pick(c, r)
    PROVE  /\ \A a \in Runs : Moves(a)
           /\ \A a \in Runs \ {r} : row'[a] = row[a]
           /\ row'[r].holder = c
           /\ \A d \in Cleaners \ {c} : cleaner'[d] = cleaner[d]
           /\ HolderKnows(c)'
<1>0. row[r] \in RowSet /\ row \in [Runs -> RowSet] /\ cleaner \in [Cleaners -> CleanerSet]
  BY DEF AttemptsInv, Domains
<1>1. PICK pc, new :
         /\ row' = [row EXCEPT ![r] = new] /\ new.holder = c /\ Visit(c, r, pc)
         /\ \/ /\ pc = "list" /\ new.state = "deleting"
               /\ State(r) \in {"superseded", "abandoned", "pending", "deleting"}
            \/ pc = "verify" /\ new.state = "verifying" /\ State(r) = "verifying"
  <2>1. CASE ClaimDelete(c, r)
    <3>1. PICK new : new = [row[r] EXCEPT !.state = "deleting", !.holder = c, !.live = TRUE]
      OBVIOUS
    <3>2. new.state = "deleting" /\ new.holder = c
      BY <1>0, <3>1 DEF RowSet
    <3>3. /\ State(r) \in {"superseded", "abandoned", "pending", "deleting"}
          /\ row' = [row EXCEPT ![r] = new] /\ Visit(c, r, "list")
      BY <2>1, <3>1 DEF ClaimDelete, Reclaimable
    <3> QED
      BY <3>2, <3>3
  <2>2. CASE ClaimVerify(c, r)
    <3>1. PICK new : new = [row[r] EXCEPT !.holder = c, !.live = TRUE]
      OBVIOUS
    <3>2. new.state = State(r) /\ new.holder = c
      BY <1>0, <3>1 DEF RowSet, State
    <3>3. State(r) = "verifying" /\ row' = [row EXCEPT ![r] = new] /\ Visit(c, r, "verify")
      BY <2>2, <3>1 DEF ClaimVerify
    <3> QED
      BY <3>2, <3>3
  <2> QED
    BY <2>1, <2>2 DEF Pick
<1>2. row'[r] = new /\ \A a \in Runs \ {r} : row'[a] = row[a]
  BY <1>0, <1>1
<1>3. PICK turn :
         /\ cleaner' = [cleaner EXCEPT ![c] = turn]
         /\ turn.pc = pc /\ turn.attempt = r
  <2>1. PICK turn : turn = [Resting EXCEPT !.attempt = r, !.pc = pc]
    OBVIOUS
  <2>2. turn.pc = pc /\ turn.attempt = r
    BY <2>1 DEF Resting
  <2> QED
    BY <1>1, <2>1, <2>2 DEF Visit
<1>4. cleaner'[c] = turn /\ \A d \in Cleaners \ {c} : cleaner'[d] = cleaner[d]
  BY <1>0, <1>3
<1>5. HolderKnows(c)'
  <2>1. Attempt(c)' = r /\ cleaner'[c].pc = pc
    BY <1>3, <1>4 DEF Attempt
  <2> QED
    BY <1>1, <1>2, <2>1 DEF HolderKnows, Doing, State
<1>6. Moves(r)
  BY <1>1, <1>2 DEF Moves, Goes, Order, State
<1>7. ASSUME NEW a \in Runs \ {r} PROVE Moves(a)
  BY <1>2 DEF Moves, State
<1> QED
  BY <1>1, <1>2, <1>4, <1>5, <1>6, <1>7

\* All other steps leave what holders know.
LEMMA HolderStays ==
    ASSUME AttemptsInv, NEW c \in Cleaners, HolderKnows(c), \A a \in Runs : Turns(a),
           \/ cleaner'[c] = cleaner[c]
           \/ cleaner'[c].pc = "idle"
           \/ /\ cleaner'[c].attempt = cleaner[c].attempt
              /\ cleaner[c].pc \notin {"idle", "verify"} /\ cleaner'[c].pc # "verify"
    PROVE  HolderKnows(c)'
<1> SUFFICES ASSUME cleaner'[c].pc # "idle", row'[Attempt(c)'].holder = c
             PROVE  State(Attempt(c))' =
                        IF cleaner'[c].pc = "verify" THEN "verifying" ELSE "deleting"
  BY DEF HolderKnows, Doing
<1>1. /\ Attempt(c)' = Attempt(c) /\ ~Doing(c, "idle")
      /\ Doing(c, "verify") <=> cleaner'[c].pc = "verify"
  BY DEF Attempt, Doing
<1>2. PICK a \in Runs : a = Attempt(c)
  BY <1>1, AtWork
<1>3. c # None
  BY NoneAssumption
<1>4. row[a].holder = c
  BY <1>1, <1>2, <1>3 DEF Turns
<1>5. State(a) = IF Doing(c, "verify") THEN "verifying" ELSE "deleting"
  BY <1>1, <1>2, <1>4 DEF HolderKnows
<1>6. State(a)' = State(a)
  BY <1>1, <1>2, <1>3, <1>5 DEF Turns
<1>7. State(Attempt(c))' = State(a)'
  BY <1>1, <1>2 DEF State
<1> QED
  BY <1>1, <1>5, <1>6, <1>7

\* What a step that leaves the objects alone, and is no claim, does.
LEMMA StillForward ==
    ASSUME AttemptsInv, \A c \in Cleaners : HolderKnows(c), \A a \in Runs : Turns(a),
           UNCHANGED objects,
           \A c \in Cleaners :
               \/ cleaner'[c] = cleaner[c]
               \/ cleaner'[c].pc = "idle"
               \/ /\ cleaner'[c].attempt = cleaner[c].attempt
                  /\ cleaner[c].pc \notin {"idle", "verify"} /\ cleaner'[c].pc # "verify"
    PROVE  /\ \A a \in Runs : Forward(a)
           /\ \A c \in Cleaners : HolderKnows(c)'
<1>1. \A a \in Runs : Forward(a)
  BY TurnsMove, MovesForward
<1>2. \A c \in Cleaners : HolderKnows(c)'
  BY HolderStays
<1> QED
  BY <1>1, <1>2

\* The actions of the runs and of time on the objects: writes, late ones too.
LEMMA WriteForward ==
    ASSUME AttemptsInv, \A c \in Cleaners : HolderKnows(c), NEW r \in Runs,
           WriteShard(r) \/ WriteManifest(r) \/ LateWriteEnds(r)
    PROVE  /\ \A a \in Runs : Forward(a)
           /\ \A c \in Cleaners : HolderKnows(c)'
<1>1. UNCHANGED <<row, cleaner>>
  BY DEF WriteShard, WriteManifest, LateWriteEnds
<1>2. PICK new \in SUBSET Members :
         /\ objects' = [objects EXCEPT ![r] = new]
         /\ objects[r] \subseteq new
         /\ State(r) = "writing" \/ new \cap Whole \subseteq objects[r]
  <2>0. objects[r] \in SUBSET Members /\ objects = [objects EXCEPT ![r] = objects[r]]
    BY DEF AttemptsInv, Domains
  <2>1. CASE WriteShard(r) \/ WriteManifest(r)
    <3>1. State(r) = "writing"
      BY <2>1 DEF WriteShard, WriteManifest, At, AttemptsInv, RunInv
    <3>2. PICK m \in Members : objects' = [objects EXCEPT ![r] = objects[r] \cup {m}]
      BY <2>1 DEF WriteShard, WriteManifest, Members
    <3>3. PICK new : new = objects[r] \cup {m}
      OBVIOUS
    <3>4. new \in SUBSET Members /\ objects[r] \subseteq new
      BY <2>0, <3>2, <3>3
    <3> QED
      BY <3>1, <3>2, <3>3, <3>4
  <2>2. CASE LateWriteEnds(r)
    <3>1. objects' = objects \/ objects' = [objects EXCEPT ![r] = objects[r] \cup {"late"}]
      BY <2>2 DEF LateWriteEnds
    <3>2. (objects[r] \cup {"late"}) \cap Whole \subseteq objects[r]
      BY DEF Whole
    <3>3. objects[r] \cup {"late"} \in SUBSET Members
      BY <2>0 DEF Members
    <3> QED
      BY <2>0, <3>1, <3>2, <3>3
  <2> QED
    BY <2>1, <2>2
<1>3. ASSUME NEW a \in Runs PROVE Forward(a)
  <2>1. objects'[r] = new /\ (a # r => objects'[a] = objects[a])
    BY <1>2 DEF AttemptsInv, Domains
  <2>2. Moves(a) /\ State(a)' = State(a)
    BY <1>1 DEF Moves, State
  <2> QED
    BY <1>2, <2>1, <2>2 DEF Forward
<1>4. \A c \in Cleaners : HolderKnows(c)'
  BY <1>1, HolderStays, SameTurns
<1> QED
  BY <1>3, <1>4

\* A reaper's steps, from its claim to its rest.
LEMMA CleanerForward ==
    ASSUME AttemptsInv, \A c \in Cleaners : HolderKnows(c), NEW c \in Cleaners,
           CleanerStep(c) \/ CleanerCrashes(c)
    PROVE  /\ \A a \in Runs : Forward(a)
           /\ \A d \in Cleaners : HolderKnows(d)'
<1>0. cleaner \in [Cleaners -> CleanerSet] /\ cleaner[c] \in CleanerSet
  BY DEF AttemptsInv, Domains
<1>1. \A d \in Cleaners \ {c} : cleaner'[d] = cleaner[d]
  BY <1>0 DEF CleanerStep, CleanerCrashes, List, Check, Erase, Acknowledge, BeginVerification,
     Verify, FailDelete, Leave, Rest, Move
<1>2. ASSUME Rest(c) PROVE cleaner'[c].pc = "idle"
  BY <1>0, <1>2, RestingIsIdle DEF Rest
<1>3. ASSUME NEW new, cleaner' = [cleaner EXCEPT ![c] = new], new.attempt = cleaner[c].attempt,
             cleaner[c].pc \notin {"idle", "verify"}, new.pc # "verify"
      PROVE  /\ cleaner'[c].attempt = cleaner[c].attempt
             /\ cleaner[c].pc \notin {"idle", "verify"} /\ cleaner'[c].pc # "verify"
  BY <1>0, <1>3
<1>4. \/ cleaner'[c].pc = "idle"
      \/ /\ cleaner'[c].attempt = cleaner[c].attempt
         /\ cleaner[c].pc \notin {"idle", "verify"} /\ cleaner'[c].pc # "verify"
  <2>1. CASE Rest(c)
    BY <1>2, <2>1
  <2>2. CASE List(c) /\ ~Rest(c)
    <3>1. PICK new : new = [cleaner[c] EXCEPT !.pc = "check", !.seen = objects[Attempt(c)]]
      OBVIOUS
    <3>2. new.attempt = cleaner[c].attempt /\ new.pc = "check"
      BY <1>0, <3>1 DEF CleanerSet
    <3>3. cleaner[c].pc = "list" /\ cleaner' = [cleaner EXCEPT ![c] = new]
      BY <2>2, <3>1 DEF List, Doing
    <3> QED
      BY <1>3, <3>2, <3>3
  <2>3. CASE Check(c)
    <3>1. PICK m \in NextMember(Attempt(c)) :
             cleaner' = [cleaner EXCEPT ![c].member = m,
                           ![c].pc = IF m \in cleaner[c].seen THEN "erase" ELSE "acknowledge"]
      BY <2>3 DEF Check
    <3>2. PICK pc : pc = IF m \in cleaner[c].seen THEN "erase" ELSE "acknowledge"
      OBVIOUS
    <3>3. PICK new : new = [cleaner[c] EXCEPT !.member = m, !.pc = pc]
      OBVIOUS
    <3>4. new.attempt = cleaner[c].attempt /\ new.pc # "verify"
      BY <1>0, <3>2, <3>3 DEF CleanerSet
    <3>5. cleaner[c].pc = "check" /\ cleaner' = [cleaner EXCEPT ![c] = new]
      BY <2>3, <3>1, <3>2, <3>3 DEF Check, Doing
    <3> QED
      BY <1>3, <3>4, <3>5
  <2>4. CASE Erase(c)
    <3>1. PICK new : new = [cleaner[c] EXCEPT !.pc = "acknowledge"]
      OBVIOUS
    <3>2. new.attempt = cleaner[c].attempt /\ new.pc = "acknowledge"
      BY <1>0, <3>1 DEF CleanerSet
    <3>3. cleaner[c].pc = "erase" /\ cleaner' = [cleaner EXCEPT ![c] = new]
      BY <2>4, <3>1 DEF Erase, Move, Doing
    <3> QED
      BY <1>3, <3>2, <3>3
  <2>5. CASE Acknowledge(c)
    <3>1. PICK new : new = [cleaner[c] EXCEPT !.pc = "check", !.member = "shard"]
      OBVIOUS
    <3>2. new.attempt = cleaner[c].attempt /\ new.pc = "check"
      BY <1>0, <3>1 DEF CleanerSet
    <3>3. cleaner[c].pc = "acknowledge" /\ cleaner' = [cleaner EXCEPT ![c] = new]
      BY <2>5, <3>1 DEF Acknowledge, Doing
    <3> QED
      BY <1>3, <3>2, <3>3
  <2>6. CASE BeginVerification(c) \/ Verify(c) \/ FailDelete(c) \/ Leave(c) \/ CleanerCrashes(c)
    <3>1. Rest(c)
      BY <2>6 DEF BeginVerification, Verify, FailDelete, Leave, CleanerCrashes
    <3> QED
      BY <2>1, <3>1
  <2> QED
    BY <2>1, <2>2, <2>3, <2>4, <2>5, <2>6 DEF CleanerStep
<1>5. \A a \in Runs : Turns(a)
  <2>1. CASE \/ List(c) \/ Acknowledge(c) \/ BeginVerification(c) \/ Verify(c) \/ FailDelete(c)
    BY <2>1, ReaperTurns
  <2>2. CASE Check(c) \/ Erase(c) \/ Leave(c) \/ CleanerCrashes(c)
    <3>1. UNCHANGED row
      BY <2>2 DEF Check, Erase, Leave, CleanerCrashes
    <3> QED
      BY <3>1, SameTurns
  <2> QED
    BY <2>1, <2>2 DEF CleanerStep
<1>6. CASE UNCHANGED objects
  BY <1>1, <1>4, <1>5, <1>6, StillForward
<1>7. CASE Erase(c)
  <2>1. PICK b : b = Attempt(c)
    OBVIOUS
  <2>2. b \in Runs /\ State(b) \in Doomed
    BY <1>7, <2>1, AtWork DEF Erase, Doing
  <2>3. objects' = [objects EXCEPT ![b] = @ \ {cleaner[c].member}] /\ UNCHANGED row
    BY <1>7, <2>1 DEF Erase
  <2>4. ASSUME NEW a \in Runs PROVE Forward(a)
    <3>1. objects'[a] \subseteq objects[a] /\ (a # b => objects'[a] = objects[a])
      BY <2>2, <2>3 DEF AttemptsInv, Domains
    <3>2. Moves(a) /\ State(a)' = State(a)
      BY <2>3 DEF Moves, State
    <3> QED
      BY <2>2, <3>1, <3>2 DEF Forward
  <2>5. \A d \in Cleaners : HolderKnows(d)'
    BY <1>1, <1>4, <1>5, HolderStays
  <2> QED
    BY <2>4, <2>5
<1>8. UNCHANGED objects \/ Erase(c)
  BY DEF CleanerStep, CleanerCrashes, List, Check, Acknowledge, BeginVerification, Verify,
     FailDelete, Leave
<1> QED
  BY <1>6, <1>7, <1>8

LEMMA ClaimForward ==
    ASSUME AttemptsInv, \A c \in Cleaners : HolderKnows(c),
           NEW c \in Cleaners, NEW r \in Runs, Pick(c, r)
    PROVE  /\ \A a \in Runs : Forward(a)
           /\ \A d \in Cleaners : HolderKnows(d)'
<1>1. UNCHANGED objects
  BY DEF Pick, ClaimDelete, ClaimVerify
<1>2. \A a \in Runs : Forward(a)
  BY <1>1, PickTurns, MovesForward
<1>3. ASSUME NEW d \in Cleaners \ {c} PROVE HolderKnows(d)'
  <2>1. cleaner'[d] = cleaner[d] /\ row'[r].holder = c /\ \A a \in Runs \ {r} : row'[a] = row[a]
    BY PickTurns
  <2>2. ~Doing(d, "idle") => Attempt(d) \in Runs
    BY AtWork
  <2> QED
    BY <2>1, <2>2 DEF HolderKnows, Doing, Attempt, State
<1> QED
  BY <1>2, <1>3, PickTurns

LEMMA NextForward ==
    ASSUME AttemptsInv, \A c \in Cleaners : HolderKnows(c), [Next]_vars
    PROVE  /\ \A a \in Runs : Forward(a)
           /\ \A c \in Cleaners : HolderKnows(c)'
<1>1. ASSUME UNCHANGED <<objects, cleaner>>, \A a \in Runs : Turns(a)
      PROVE  /\ \A a \in Runs : Forward(a)
             /\ \A c \in Cleaners : HolderKnows(c)'
  BY <1>1, StillForward
<1>2. ASSUME UNCHANGED <<row, objects, cleaner>>
      PROVE  /\ \A a \in Runs : Forward(a)
             /\ \A c \in Cleaners : HolderKnows(c)'
  BY <1>1, <1>2, SameTurns
<1>3. CASE Evict
  <2>1. PICK b : b = cache
    OBVIOUS
  <2>2. row' = Dropped(row, b) /\ UNCHANGED <<objects, cleaner>>
    BY <1>3, <2>1 DEF Evict
  <2> QED
    BY <1>1, <2>2, DropTurns
<1>4. ASSUME NEW r \in Runs,
             \/ Allocate(r) \/ Prepare(r) \/ Attest(r) \/ Close(r)
             \/ Yield(r) \/ Abandon(r) \/ ObserveOwn(r) \/ Own(r) \/ Forget(r)
      PROVE  /\ \A a \in Runs : Forward(a)
             /\ \A c \in Cleaners : HolderKnows(c)'
  <2>1. UNCHANGED <<objects, cleaner>>
    BY <1>4 DEF Allocate, Prepare, Attest, Close, Yield, Abandon, ObserveOwn, Own, Forget
  <2> QED
    BY <1>1, <1>4, <2>1, RunStepTurns
<1>5. ASSUME NEW r \in Runs, PutCache(r)
      PROVE  /\ \A a \in Runs : Forward(a)
             /\ \A c \in Cleaners : HolderKnows(c)'
  <2>1. UNCHANGED <<objects, cleaner>>
    BY <1>5 DEF PutCache
  <2> QED
    BY <1>1, <1>5, <2>1, PutCacheTurns
<1>6. ASSUME NEW r \in Runs,
             \/ Hit(r) \/ GiveUp(r) \/ ReadBack(r) \/ KeepPinned(r) \/ RunCrashes(r)
             \/ PinLapses(r) \/ RenewPin(r)
      PROVE  /\ \A a \in Runs : Forward(a)
             /\ \A c \in Cleaners : HolderKnows(c)'
  <2>1. UNCHANGED <<row, objects, cleaner>>
    BY <1>6 DEF Hit, GiveUp, ReadBack, KeepPinned, RunCrashes, PinLapses, RenewPin
  <2> QED
    BY <1>2, <2>1
<1>7. ASSUME NEW r \in Runs,
             \/ PublishLapses(r) \/ ClaimLapses(r) \/ Expire(r) \/ AbandonOrphan(r) \/ Observe(r)
      PROVE  /\ \A a \in Runs : Forward(a)
             /\ \A c \in Cleaners : HolderKnows(c)'
  <2>1. UNCHANGED <<objects, cleaner>>
    BY <1>7 DEF PublishLapses, ClaimLapses, Expire, AbandonOrphan, Observe
  <2> QED
    BY <1>1, <1>7, <2>1, TimeTurns
<1>8. ASSUME NEW q \in Readers,
             \/ \E a \in Runs : Open(q, a)
             \/ Renew(q) \/ ReadLapses(q) \/ CloseRead(q) \/ ReaderCrashes(q)
      PROVE  /\ \A a \in Runs : Forward(a)
             /\ \A c \in Cleaners : HolderKnows(c)'
  <2>1. UNCHANGED <<row, objects, cleaner>>
    BY <1>8 DEF Open, Renew, ReadLapses, CloseRead, ReaderCrashes
  <2> QED
    BY <1>2, <2>1
<1>9. CASE UNCHANGED vars
  <2>1. UNCHANGED <<row, objects, cleaner>>
    BY <1>9 DEF vars
  <2> QED
    BY <1>2, <2>1
<1>10. CASE \E r \in Runs :
              \/ Hit(r) \/ Allocate(r) \/ GiveUp(r) \/ RunStep(r) \/ RunCrashes(r) \/ Forget(r)
              \/ PinLapses(r) \/ RenewPin(r)
  BY <1>4, <1>5, <1>6, <1>10, WriteForward DEF RunStep
<1>11. CASE \E a \in Runs :
              \/ LateWriteEnds(a) \/ PublishLapses(a) \/ ClaimLapses(a) \/ Expire(a)
              \/ AbandonOrphan(a) \/ Observe(a)
              \/ \E q \in Readers : Open(q, a)
              \/ \E c \in Cleaners : Pick(c, a)
  BY <1>7, <1>8, <1>11, WriteForward, ClaimForward
<1>12. CASE \E q \in Readers : Renew(q) \/ ReadLapses(q) \/ CloseRead(q) \/ ReaderCrashes(q)
  BY <1>8, <1>12
<1>13. CASE \E c \in Cleaners : CleanerStep(c) \/ CleanerCrashes(c)
  BY <1>13, CleanerForward
<1> QED
  BY <1>3, <1>9, <1>10, <1>11, <1>12, <1>13 DEF Next

\* The inductive invariant holds throughout.
THEOREM AttemptInvariant == Spec => []AttemptsInv
BY InitEstablishes, NextPreserves, PTL DEF Spec

\* TypeOK: no transaction leaves a domain, and no attempt fails more deletions
\* than it may.
THEOREM AttemptTypeCorrect == Spec => []TypeOK
<1>1. AttemptsInv => TypeOK
  BY DEF AttemptsInv, Domains, TypeOK, RowSet, PinSet, RunPcs, ReaderSet, CleanerSet
<1> QED
  BY <1>1, AttemptInvariant, PTL

\* OwnedIsServed: what the cache, a run's state or a pin refers to is published
\* and whole, whatever runs, reapers, crashes and expiries interleave.
THEOREM OwnersAreServed == Spec => []OwnedIsServed
<1>1. AttemptsInv => OwnedIsServed
  BY DEF AttemptsInv, RefInv, AttemptInv, OwnedIsServed
<1> QED
  BY <1>1, AttemptInvariant, PTL

\* ReaderKeepsObjects: no reaper takes an object from a reader whose lease has
\* not lapsed.
THEOREM ReadersKeepObjects == Spec => []ReaderKeepsObjects
<1>1. AttemptsInv => ReaderKeepsObjects
  BY DEF AttemptsInv, ReaderInv, ReadsOne, Relies, ReaderKeepsObjects
<1> QED
  BY <1>1, AttemptInvariant, PTL

\* MarkerMeansWhole: a manifest vouches for its data through every deletion,
\* by reapers that lost their claims as well.
THEOREM MarkersMeanWhole == Spec => []MarkerMeansWhole
<1>1. AttemptsInv => MarkerMeansWhole
  BY DEF AttemptsInv, AttemptInv, MarkerMeansWhole
<1> QED
  BY <1>1, AttemptInvariant, PTL

\* DeletedIsEmpty: nothing appears under an attempt recorded as deleted.
THEOREM DeletedStaysEmpty == Spec => []DeletedIsEmpty
<1>1. AttemptsInv => DeletedIsEmpty
  BY DEF AttemptsInv, AttemptInv, DeletedIsEmpty
<1> QED
  BY <1>1, AttemptInvariant, PTL

\* No step of any process brings a generation back or takes an object before
\* its deletion was claimed: Forward, for every attempt.
THEOREM GenerationsGoForward == Spec => [][\A a \in Runs : Forward(a)]_vars
<1> DEFINE Knowing == \A c \in Cleaners : HolderKnows(c)
<1>1. Init => Knowing
  BY RestingIsIdle DEF Init, HolderKnows, Doing
<1>2. AttemptsInv /\ Knowing /\ [Next]_vars => Knowing' /\ \A a \in Runs : Forward(a)
  BY NextForward
<1> HIDE DEF Knowing
<1> QED
  BY AttemptInvariant, <1>1, <1>2, PTL DEF Spec

\* A reaper that still holds its claim finds the attempt in the state of that
\* claim: no other reaper can have taken it through its deletion meanwhile.
THEOREM HoldersKnow == Spec => [](\A c \in Cleaners : HolderKnows(c))
<1> DEFINE Knowing == \A c \in Cleaners : HolderKnows(c)
<1>1. Init => Knowing
  BY RestingIsIdle DEF Init, HolderKnows, Doing
<1>2. AttemptsInv /\ Knowing /\ [Next]_vars => Knowing'
  BY NextForward
<1>3. Spec => []Knowing
  <2> HIDE DEF Knowing
  <2> QED
    BY AttemptInvariant, <1>1, <1>2, PTL DEF Spec
<1> QED
  BY <1>3

=============================================================================
