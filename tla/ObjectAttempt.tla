---------------------------- MODULE ObjectAttempt ----------------------------
(***************************************************************************)
(* Immutable result generations in an object store: the registry of        *)
(* hub/metadb.py, the runs that write, publish, pin and own generations    *)
(* (run_controller.py, plugins/runner.py), the readers that lease them and *)
(* the reapers that delete them (handoff.reap_attempts).                   *)
(*                                                                         *)
(* A run writes at most one attempt, so attempts are named by their runs.  *)
(* All runs have the same cache key.  Every registry transaction locks the *)
(* attempt's row first, so each is one action; requests to the store lie   *)
(* between them.  Time is abstracted: a lease is live or past, and a quiet *)
(* or retention period may be over whenever somebody looks.                *)
(***************************************************************************)
EXTENDS Integers, FiniteSets

CONSTANTS
    Runs,
    FullRuns,     \* runs whose own state owns the result; the others are regions
    Readers,      \* readers of a source, each under one read lease
    Cleaners,     \* object-attempt reapers, of any hub
    None,
    MaxDeletes,   \* failed deletions of an attempt before it is quarantined
    MaxFaults     \* bound: crashes, failed or late requests, leases that lapse in use

ASSUME RunsAssumption == FullRuns \subseteq Runs
ASSUME NoneAssumption == None \notin Runs \cup Cleaners
ASSUME BoundsAssumption == MaxDeletes \in Nat \ {0} /\ MaxFaults \in Nat

VARIABLES
    row,       \* the registry's row of each attempt
    objects,   \* what the store holds of it
    flying,    \* attempts with a write on its way that its sender gave up
    cache,     \* the attempt that the result cache names and refers to
    kept,      \* the attempt that each run's state refers to
    pin,       \* each run's pin on a cached attempt: a reference and a lease
    run, reader, cleaner,  \* control states
    faults

vars == <<row, objects, flying, cache, kept, pin, run, reader, cleaner, faults>>

\* What one attempt consists of: its data, the manifest written last, and a
\* write that arrived late.
Members == {"shard", "manifest", "late"}
Whole == {"shard", "manifest"}

\* "known" is the recorded inventory, or the first observation of it while
\* "complete" is false; "gone" are the members whose deletion is recorded.
NoRow ==
    [state |-> "none", publishing |-> FALSE, known |-> {}, observed |-> FALSE,
     complete |-> FALSE, gone |-> {}, holder |-> None, live |-> FALSE, failures |-> 0]
NoPin == [attempt |-> None, live |-> FALSE]
NotReading == [pc |-> "idle", attempt |-> None, lease |-> "none", lapsed |-> FALSE]
Resting == [pc |-> "idle", attempt |-> None, seen |-> {}, member |-> "shard"]

Init ==
    /\ row = [a \in Runs |-> NoRow]
    /\ objects = [a \in Runs |-> {}]
    /\ flying = {}
    /\ cache = None
    /\ kept = [r \in Runs |-> None]
    /\ pin = [r \in Runs |-> NoPin]
    /\ run = [r \in Runs |-> "idle"]
    /\ reader = [q \in Readers |-> NotReading]
    /\ cleaner = [c \in Cleaners |-> Resting]
    /\ faults = 0

-----------------------------------------------------------------------------
(* References and leases.                                                  *)

State(a) == row[a].state

Referenced(a) ==
    \/ cache = a
    \/ \E r \in Runs : kept[r] = a \/ pin[r].attempt = a

Leased(a) ==
    \/ row[a].publishing
    \/ row[a].holder # None /\ row[a].live
    \/ \E r \in Runs : pin[r] = [attempt |-> a, live |-> TRUE]
    \/ \E q \in Readers : reader[q].attempt = a /\ reader[q].lease = "live"

\* Mutant: an attempt that nobody refers to counts as unowned.
UnownedIfUnreferenced(a) == ~Referenced(a)

Unowned(a) == ~Referenced(a) /\ ~Leased(a)

Fault ==
    /\ faults < MaxFaults
    /\ faults' = faults + 1

\* Mutant: whoever drops a reference supersedes the attempt.
DroppedWhoeverRefers(rows, a) ==
    [b \in Runs |->
        IF b = a /\ rows[b].state = "published"
        THEN [rows[b] EXCEPT !.state = "superseded", !.holder = None, !.live = FALSE]
        ELSE rows[b]]

\* The attempt has lost a reference, as the next state tells.
Dropped(rows, a) ==
    [b \in Runs |->
        IF b = a /\ rows[b].state = "published" /\ ~Referenced(b)'
        THEN [rows[b] EXCEPT !.state = "superseded", !.holder = None, !.live = FALSE]
        ELSE rows[b]]

Published(a) == [row EXCEPT ![a].state = "published", ![a].publishing = FALSE]

\* What is left of a reader's lease once its row is deleted.
Released(q) ==
    IF reader[q].pc = "reading" THEN [reader[q] EXCEPT !.lease = "none"] ELSE NotReading

\* An attempt is set aside with all its leases, unless somebody refers to it.
Quarantine(a) ==
    IF State(a) = "deleted" \/ Referenced(a)
    THEN UNCHANGED <<row, reader>>
    ELSE /\ row' = [row EXCEPT ![a].state = "quarantined", ![a].publishing = FALSE,
                               ![a].holder = None, ![a].live = FALSE]
         /\ reader' = [q \in Readers |->
               IF reader[q].attempt = a THEN Released(q) ELSE reader[q]]

-----------------------------------------------------------------------------
(* Runs.                                                                   *)

At(r, pc) == run[r] = pc
GoTo(r, pc) == run' = [run EXCEPT ![r] = pc]

\* Reads the cache's row and pins what it names.
Acquire(r) ==
    /\ cache # None
    /\ State(cache) = "published"
    /\ pin' = [pin EXCEPT ![r] = [attempt |-> cache, live |-> TRUE]]

Hit(r) ==
    /\ At(r, "idle")
    /\ Acquire(r)
    /\ GoTo(r, IF r \in FullRuns THEN "keep" ELSE "attest")
    /\ UNCHANGED <<row, objects, flying, cache, kept, reader, cleaner, faults>>

\* The cache had nothing for the run when it looked.
Allocate(r) ==
    /\ At(r, "idle")
    /\ row' = [row EXCEPT ![r] = [NoRow EXCEPT !.state = "writing", !.publishing = TRUE]]
    /\ GoTo(r, "write")
    /\ UNCHANGED <<objects, flying, cache, kept, pin, reader, cleaner, faults>>

\* A request that is repeated may leave its first copy on its way.
WriteShard(r) ==
    /\ At(r, "write")
    /\ objects' = [objects EXCEPT ![r] = @ \cup {"shard"}]
    /\ GoTo(r, "manifest")
    /\ \/ UNCHANGED <<flying, faults>>
       \/ flying' = flying \cup {r} /\ Fault
    /\ UNCHANGED <<row, cache, kept, pin, reader, cleaner>>

WriteManifest(r) ==
    /\ At(r, "manifest")
    /\ objects' = [objects EXCEPT ![r] = @ \cup {"manifest"}]
    /\ GoTo(r, "prepare")
    /\ UNCHANGED <<row, flying, cache, kept, pin, reader, cleaner, faults>>

\* The write fails, or the run is cancelled; a request to the store may
\* still be on its way.
GiveUp(r) ==
    /\ run[r] \in {"write", "manifest"}
    /\ GoTo(r, "abandon")
    /\ \/ UNCHANGED <<flying, faults>>
       \/ flying' = flying \cup {r} /\ Fault
    /\ UNCHANGED <<row, objects, cache, kept, pin, reader, cleaner>>

\* The exact inventory is proved against the manifest and recorded;
\* whatever fails on the way quarantines the attempt.
Prepare(r) ==
    /\ At(r, "prepare")
    /\ \/ /\ row' = [row EXCEPT ![r].state = "committed", ![r].known = objects[r],
                                ![r].observed = TRUE, ![r].complete = TRUE]
          /\ GoTo(r, IF r \in FullRuns THEN "own" ELSE "publish")
          /\ UNCHANGED <<reader, faults>>
       \/ /\ Fault
          /\ Quarantine(r)
          /\ GoTo(r, "abandon")
    /\ UNCHANGED <<objects, flying, cache, kept, pin, cleaner>>

\* prepare_attempt_commit once more, as put_result's caller does.
Attested(a) ==
    /\ State(a) \in {"committed", "published"}
    /\ objects[a] = row[a].known

\* put_result: the cache's row, its reference, the promotion and the fate
\* of the attempt it replaces, in one transaction.
PutCache(r) ==
    /\ run[r] \in {"publish", "cache"}
    /\ UNCHANGED <<objects, flying, kept, pin, cleaner>>
    /\ \/ /\ Attested(r)
          /\ cache' = r
          /\ row' = IF cache \in {r, None} THEN Published(r) ELSE Dropped(Published(r), cache)
          /\ UNCHANGED <<reader, faults>>
       \/ ~Attested(r) /\ Quarantine(r) /\ UNCHANGED <<cache, faults>>
       \/ Attested(r) /\ Fault /\ UNCHANGED <<row, cache, reader>>
    /\ GoTo(r, IF At(r, "publish") THEN "readback" ELSE "done")

\* Whatever the transaction answered, the run consumes what the cache names
\* now.
ReadBack(r) ==
    /\ At(r, "readback")
    /\ \/ Acquire(r) /\ GoTo(r, "attest") /\ UNCHANGED faults
       \/ cache = None /\ GoTo(r, "abandon") /\ UNCHANGED <<pin, faults>>
       \/ Fault /\ GoTo(r, "abandon") /\ UNCHANGED pin
    /\ UNCHANGED <<row, objects, flying, cache, kept, reader, cleaner>>

\* The reference and the lease go in one transaction.
Unpin(r) ==
    /\ pin' = [pin EXCEPT ![r] = NoPin]
    /\ row' = Dropped(row, pin[r].attempt)

Usable(r) == pin[r].attempt # None /\ Attested(pin[r].attempt)

\* The pinned attempt is proved against its inventory before it is used.
Attest(r) ==
    /\ At(r, "attest")
    /\ UNCHANGED <<objects, flying, cache, kept, reader, cleaner, faults>>
    /\ \/ /\ Usable(r)
          /\ GoTo(r, IF pin[r].attempt = r \/ State(r) = "none" THEN "close" ELSE "yield")
          /\ UNCHANGED <<row, pin>>
       \/ /\ ~Usable(r)
          /\ Unpin(r)
          /\ GoTo(r, IF State(r) = "none" THEN "idle" ELSE "abandon")

\* abandon_committed_object_attempt, then mark_object_attempt_terminal.
Abandoned(a) ==
    IF State(a) = "writing" \/ (State(a) = "committed" /\ ~Referenced(a))
    THEN [row EXCEPT ![a].state = "abandoned", ![a].publishing = FALSE]
    ELSE row

\* Another run's equivalent attempt won: the run's own is not needed.
Yield(r) ==
    /\ At(r, "yield")
    /\ row' = Abandoned(r)
    /\ GoTo(r, "close")
    /\ UNCHANGED <<objects, flying, cache, kept, pin, reader, cleaner, faults>>

Abandon(r) ==
    /\ At(r, "abandon")
    /\ row' = Abandoned(r)
    /\ GoTo(r, IF State(r) = "writing" THEN "observe" ELSE "done")
    /\ UNCHANGED <<objects, flying, cache, kept, pin, reader, cleaner, faults>>

\* An inventory of an abandoned attempt: the first is noted, an equal one
\* completes it, any other quarantines the attempt.
Observed(a, seen) ==
    IF State(a) # "abandoned" \/ row[a].complete THEN row
    ELSE IF ~row[a].observed THEN [row EXCEPT ![a].known = seen, ![a].observed = TRUE]
    ELSE IF seen = row[a].known THEN [row EXCEPT ![a].complete = TRUE]
    ELSE [row EXCEPT ![a].state = "quarantined"]

ObserveOwn(r) ==
    /\ At(r, "observe")
    /\ row' = Observed(r, objects[r])
    /\ GoTo(r, "done")
    /\ UNCHANGED <<objects, flying, cache, kept, pin, reader, cleaner, faults>>

\* The terminal run state becomes the owner of the run's own attempt, which
\* it publishes, or of the attempt the run pinned.
Own(r) ==
    /\ At(r, "own")
    /\ \/ /\ State(r) = "committed"
          /\ kept' = [kept EXCEPT ![r] = r]
          /\ row' = Published(r)
          /\ GoTo(r, "cache") /\ UNCHANGED faults
       \/ State(r) # "committed" /\ GoTo(r, "abandon") /\ UNCHANGED <<row, kept, faults>>
       \/ Fault /\ GoTo(r, "abandon") /\ UNCHANGED <<row, kept>>
    /\ UNCHANGED <<objects, flying, cache, pin, reader, cleaner>>

KeepPinned(r) ==
    /\ At(r, "keep")
    /\ GoTo(r, "close")
    /\ \/ /\ pin[r].attempt # None
          /\ State(pin[r].attempt) = "published"
          /\ kept' = [kept EXCEPT ![r] = pin[r].attempt]
       \/ UNCHANGED kept
    /\ UNCHANGED <<row, objects, flying, cache, pin, reader, cleaner, faults>>

Close(r) ==
    /\ At(r, "close")
    /\ GoTo(r, "done")
    /\ UNCHANGED <<objects, flying, cache, kept, reader, cleaner>>
    /\ \/ Unpin(r) /\ UNCHANGED faults
       \/ Fault /\ UNCHANGED <<pin, row>>

RunCrashes(r) ==
    /\ run[r] \notin {"idle", "done"}
    /\ Fault
    /\ GoTo(r, "done")
    /\ UNCHANGED <<row, objects, flying, cache, kept, pin, reader, cleaner>>

\* Retention deletes the run's state.
Forget(r) ==
    /\ kept[r] # None
    /\ kept' = [kept EXCEPT ![r] = None]
    /\ UNCHANGED <<cache, pin>>
    /\ row' = Dropped(row, kept[r])
    /\ UNCHANGED <<objects, flying, run, reader, cleaner, faults>>

\* The cache is full of younger entries.
Evict ==
    /\ cache # None
    /\ cache' = None
    /\ UNCHANGED <<kept, pin>>
    /\ row' = Dropped(row, cache)
    /\ UNCHANGED <<objects, flying, run, reader, cleaner, faults>>

\* The request that its sender gave up arrives, or is lost.
LateWriteEnds(a) ==
    /\ a \in flying
    /\ flying' = flying \ {a}
    /\ objects' \in {objects, [objects EXCEPT ![a] = @ \cup {"late"}]}
    /\ UNCHANGED <<row, cache, kept, pin, run, reader, cleaner, faults>>

-----------------------------------------------------------------------------
(* Time.                                                                   *)

PublishLapses(a) ==
    /\ row[a].publishing
    /\ IF At(a, "done") THEN UNCHANGED faults ELSE Fault
    /\ row' = [row EXCEPT ![a].publishing = FALSE]
    /\ UNCHANGED <<objects, flying, cache, kept, pin, run, reader, cleaner>>

\* A working holder that lets its lease lapse is a fault.
PinLapses(r) ==
    /\ pin[r].live
    /\ IF At(r, "done") THEN UNCHANGED faults ELSE Fault
    /\ pin' = [pin EXCEPT ![r].live = FALSE]
    /\ UNCHANGED <<row, objects, flying, cache, kept, run, reader, cleaner>>

\* The thread of the guard renews the pin, as long as it has not expired.
RenewPin(r) ==
    /\ run[r] \in {"attest", "yield", "keep", "close"}
    /\ pin[r].attempt # None
    /\ pin' = [pin EXCEPT ![r].live = TRUE]
    /\ UNCHANGED <<row, objects, flying, cache, kept, run, reader, cleaner, faults>>

ReadLapses(q) ==
    /\ reader[q].lease = "live"
    /\ IF reader[q].pc = "dead" THEN UNCHANGED faults ELSE Fault
    /\ reader' = [reader EXCEPT ![q].lease = "past", ![q].lapsed = TRUE]
    /\ UNCHANGED <<row, objects, flying, cache, kept, pin, run, cleaner>>

ClaimLapses(a) ==
    /\ row[a].holder # None
    /\ row[a].live
    /\ row' = [row EXCEPT ![a].live = FALSE]
    /\ IF cleaner[row[a].holder].attempt = a THEN Fault ELSE UNCHANGED faults
    /\ UNCHANGED <<objects, flying, cache, kept, pin, run, reader, cleaner>>

\* _expire_object_attempt_leases, for one attempt.
Expire(a) ==
    /\ \/ \E r \in Runs : pin[r] = [attempt |-> a, live |-> FALSE]
       \/ \E q \in Readers : reader[q].attempt = a /\ reader[q].lease = "past"
    /\ pin' = [r \in Runs |-> IF pin[r] = [attempt |-> a, live |-> FALSE] THEN NoPin ELSE pin[r]]
    /\ reader' = [q \in Readers |->
          IF reader[q].attempt = a /\ reader[q].lease = "past"
          THEN Released(q)
          ELSE reader[q]]
    /\ UNCHANGED <<cache, kept>>
    /\ row' = IF \E r \in Runs : pin[r] = [attempt |-> a, live |-> FALSE]
              THEN Dropped(row, a) ELSE row
    /\ UNCHANGED <<objects, flying, run, cleaner, faults>>

-----------------------------------------------------------------------------
(* Readers.                                                                *)

Open(q, a) ==
    /\ reader[q].pc = "idle"
    /\ State(a) = "published"
    /\ reader' = [reader EXCEPT ![q] =
          [pc |-> "reading", attempt |-> a, lease |-> "live", lapsed |-> FALSE]]
    /\ UNCHANGED <<row, objects, flying, cache, kept, pin, run, cleaner, faults>>

\* A renewal asks for the lease's row only: it revives a lease that is past.
Renew(q) ==
    /\ reader[q].pc = "reading"
    /\ reader[q].lease = "past"
    /\ reader' = [reader EXCEPT ![q].lease = "live"]
    /\ UNCHANGED <<row, objects, flying, cache, kept, pin, run, cleaner, faults>>

CloseRead(q) ==
    /\ reader[q].pc = "reading"
    /\ reader' = [reader EXCEPT ![q] = NotReading]
    /\ UNCHANGED <<row, objects, flying, cache, kept, pin, run, cleaner, faults>>

ReaderCrashes(q) ==
    /\ reader[q].pc = "reading"
    /\ Fault
    /\ reader' = [reader EXCEPT ![q] =
          IF @.lease = "none" THEN NotReading ELSE [@ EXCEPT !.pc = "dead"]]
    /\ UNCHANGED <<row, objects, flying, cache, kept, pin, run, cleaner>>

-----------------------------------------------------------------------------
(* Reapers.                                                                *)

Doing(c, pc) == cleaner[c].pc = pc
Attempt(c) == cleaner[c].attempt
Move(c, pc) == cleaner' = [cleaner EXCEPT ![c].pc = pc]
Rest(c) == cleaner' = [cleaner EXCEPT ![c] = Resting]
Visit(c, a, pc) ==
    cleaner' = [cleaner EXCEPT ![c] = [Resting EXCEPT !.attempt = a, !.pc = pc]]

\* A committed attempt that its publisher left behind.
AbandonOrphan(a) ==
    /\ State(a) = "committed"
    /\ Unowned(a)
    /\ row' = [row EXCEPT ![a].state = "abandoned"]
    /\ UNCHANGED <<objects, flying, cache, kept, pin, run, reader, cleaner, faults>>

\* A reaper takes the inventory of an attempt whose writer has stopped.
Observe(a) ==
    /\ State(a) = "abandoned"
    /\ ~row[a].complete
    /\ Unowned(a)
    /\ row' = Observed(a, objects[a])
    /\ UNCHANGED <<objects, flying, cache, kept, pin, run, reader, cleaner, faults>>

\* Mutant: a deletion is left to the reaper that began it.
ReclaimableIfIdle(a) ==
    \/ State(a) \in {"superseded", "abandoned"} /\ row[a].complete
    \/ State(a) = "pending"

Reclaimable(a) ==
    \/ State(a) \in {"superseded", "abandoned"} /\ row[a].complete
    \/ State(a) \in {"pending", "deleting"}

\* The lease of another claim on it is past, by Unowned.
ClaimDelete(c, a) ==
    /\ Doing(c, "idle")
    /\ Reclaimable(a)
    /\ Unowned(a)
    /\ row' = [row EXCEPT ![a].state = "deleting", ![a].holder = c, ![a].live = TRUE]
    /\ Visit(c, a, "list")
    /\ UNCHANGED <<objects, flying, cache, kept, pin, run, reader, faults>>

\* Mutant: the empty attempt is verified without a quiet period.
ClaimVerifyAtOnce(c, a) ==
    /\ Doing(c, "idle")
    /\ State(a) = "verifying"
    /\ Unowned(a)
    /\ row' = [row EXCEPT ![a].holder = c, ![a].live = TRUE]
    /\ Visit(c, a, "verify")
    /\ UNCHANGED <<objects, flying, cache, kept, pin, run, reader, faults>>

\* No write to the attempt outlasts the quiet period.
ClaimVerify(c, a) ==
    /\ Doing(c, "idle")
    /\ State(a) = "verifying"
    /\ Unowned(a)
    /\ a \notin flying
    /\ row' = [row EXCEPT ![a].holder = c, ![a].live = TRUE]
    /\ Visit(c, a, "verify")
    /\ UNCHANGED <<objects, flying, cache, kept, pin, run, reader, faults>>

Holds(c) ==
    /\ State(Attempt(c)) \in {"deleting", "verifying"}
    /\ row[Attempt(c)].holder = c
HoldsLive(c) == Holds(c) /\ row[Attempt(c)].live
Remaining(a) == row[a].known \ row[a].gone

\* The store is compared with the recorded inventory before anything is
\* deleted.
List(c) ==
    /\ Doing(c, "list")
    /\ HoldsLive(c)
    /\ \/ /\ objects[Attempt(c)] \subseteq Remaining(Attempt(c))
          /\ cleaner' = [cleaner EXCEPT ![c].pc = "check", ![c].seen = objects[Attempt(c)]]
          /\ UNCHANGED <<row, reader>>
       \/ /\ ~(objects[Attempt(c)] \subseteq Remaining(Attempt(c)))
          /\ Quarantine(Attempt(c))
          /\ Rest(c)
    /\ UNCHANGED <<objects, flying, cache, kept, pin, run, faults>>

\* Mutant: the members go in any order.
AnyMember(a) == Remaining(a)

\* The manifest is the first member to go.
NextMember(a) ==
    IF "manifest" \in Remaining(a) THEN {"manifest"} ELSE Remaining(a)

Check(c) ==
    /\ Doing(c, "check")
    /\ HoldsLive(c)
    /\ \E m \in NextMember(Attempt(c)) :
          cleaner' = [cleaner EXCEPT ![c].member = m,
                        ![c].pc = IF m \in cleaner[c].seen THEN "erase" ELSE "acknowledge"]
    /\ UNCHANGED <<row, objects, flying, cache, kept, pin, run, reader, faults>>

Erase(c) ==
    /\ Doing(c, "erase")
    /\ objects' = [objects EXCEPT ![Attempt(c)] = @ \ {cleaner[c].member}]
    /\ Move(c, "acknowledge")
    /\ UNCHANGED <<row, flying, cache, kept, pin, run, reader, faults>>

\* The claim was valid after the deletion; its lease may be past by now.
Acknowledge(c) ==
    /\ Doing(c, "acknowledge")
    /\ State(Attempt(c)) = "deleting"
    /\ Holds(c)
    /\ row' = [row EXCEPT ![Attempt(c)].gone = @ \cup {cleaner[c].member}]
    /\ cleaner' = [cleaner EXCEPT ![c].pc = "check", ![c].member = "shard"]
    /\ UNCHANGED <<objects, flying, cache, kept, pin, run, reader, faults>>

BeginVerification(c) ==
    /\ Doing(c, "check")
    /\ HoldsLive(c)
    /\ Remaining(Attempt(c)) = {}
    /\ \/ /\ objects[Attempt(c)] = {}
          /\ row' = [row EXCEPT ![Attempt(c)].state = "verifying",
                                ![Attempt(c)].holder = None, ![Attempt(c)].live = FALSE]
          /\ Rest(c)
          /\ UNCHANGED reader
       \/ /\ objects[Attempt(c)] # {}
          /\ Quarantine(Attempt(c))
          /\ Rest(c)
    /\ UNCHANGED <<objects, flying, cache, kept, pin, run, faults>>

Verify(c) ==
    /\ Doing(c, "verify")
    /\ HoldsLive(c)
    /\ \/ /\ objects[Attempt(c)] = {}
          /\ row' = [row EXCEPT ![Attempt(c)].state = "deleted",
                                ![Attempt(c)].holder = None, ![Attempt(c)].live = FALSE]
          /\ Rest(c)
          /\ UNCHANGED reader
       \/ /\ objects[Attempt(c)] # {}
          /\ Quarantine(Attempt(c))
          /\ Rest(c)
    /\ UNCHANGED <<objects, flying, cache, kept, pin, run, faults>>

\* fail_object_attempt_delete, after a failed request or a lost claim.
FailDelete(c) ==
    /\ ~Doing(c, "idle")
    /\ IF cleaner[c].pc \in {"check", "acknowledge"} /\ ~HoldsLive(c)
       THEN UNCHANGED faults ELSE Fault
    /\ row' = IF ~Holds(c) THEN row
              ELSE [row EXCEPT ![Attempt(c)].failures = @ + 1,
                        ![Attempt(c)].state =
                            IF row[Attempt(c)].failures + 1 >= MaxDeletes
                            THEN "quarantined" ELSE "pending",
                        ![Attempt(c)].holder = None, ![Attempt(c)].live = FALSE]
    /\ Rest(c)
    /\ UNCHANGED <<objects, flying, cache, kept, pin, run, reader>>

\* The claim was lost before the work began.
Leave(c) ==
    /\ cleaner[c].pc \in {"list", "verify"}
    /\ ~HoldsLive(c)
    /\ Rest(c)
    /\ UNCHANGED <<row, objects, flying, cache, kept, pin, run, reader, faults>>

CleanerCrashes(c) ==
    /\ ~Doing(c, "idle")
    /\ Fault
    /\ Rest(c)
    /\ UNCHANGED <<row, objects, flying, cache, kept, pin, run, reader>>

-----------------------------------------------------------------------------

RunStep(r) ==
    \/ WriteShard(r) \/ WriteManifest(r) \/ Prepare(r) \/ PutCache(r)
    \/ ReadBack(r) \/ Attest(r) \/ Yield(r) \/ Abandon(r) \/ ObserveOwn(r)
    \/ Own(r) \/ KeepPinned(r) \/ Close(r)

CleanerStep(c) ==
    \/ List(c) \/ Check(c) \/ Erase(c) \/ Acknowledge(c) \/ BeginVerification(c)
    \/ Verify(c) \/ FailDelete(c) \/ Leave(c)

Pick(c, a) == ClaimDelete(c, a) \/ ClaimVerify(c, a)

Next ==
    \/ Evict
    \/ \E r \in Runs :
          \/ Hit(r) \/ Allocate(r) \/ GiveUp(r) \/ RunStep(r) \/ RunCrashes(r) \/ Forget(r)
          \/ PinLapses(r) \/ RenewPin(r)
    \/ \E a \in Runs :
          \/ LateWriteEnds(a) \/ PublishLapses(a) \/ ClaimLapses(a) \/ Expire(a)
          \/ AbandonOrphan(a) \/ Observe(a)
          \/ \E q \in Readers : Open(q, a)
          \/ \E c \in Cleaners : Pick(c, a)
    \/ \E q \in Readers : Renew(q) \/ ReadLapses(q) \/ CloseRead(q) \/ ReaderCrashes(q)
    \/ \E c \in Cleaners : CleanerStep(c) \/ CleanerCrashes(c)

Spec == Init /\ [][Next]_vars

\* Threads and stores answer, time passes, and every reaper loop comes round
\* again: to an attempt that other reapers keep claiming, too.
Fairness ==
    /\ \A r \in Runs :
          /\ WF_vars(RunStep(r))
          /\ WF_vars(PinLapses(r) /\ UNCHANGED faults)
    /\ \A q \in Readers :
          /\ WF_vars(CloseRead(q))
          /\ WF_vars(ReadLapses(q) /\ UNCHANGED faults)
    /\ \A c \in Cleaners : WF_vars(CleanerStep(c))
    /\ \A a \in Runs :
          /\ WF_vars(LateWriteEnds(a))
          /\ WF_vars(PublishLapses(a) /\ UNCHANGED faults)
          /\ WF_vars(ClaimLapses(a) /\ UNCHANGED faults)
          /\ WF_vars(Expire(a))
          /\ WF_vars(AbandonOrphan(a))
          /\ WF_vars(Observe(a))
          /\ SF_vars(\E c \in Cleaners : Pick(c, a))

FairSpec == Spec /\ Fairness

-----------------------------------------------------------------------------

(* Properties.                                                             *)

RowStates ==
    {"none", "writing", "committed", "published", "superseded", "abandoned",
     "pending", "deleting", "verifying", "deleted", "quarantined"}

\* Every variable holds values of its domain; an attempt that failed to be
\* deleted MaxDeletes times is no longer tried.
TypeOK ==
    /\ row \in [Runs ->
          [state : RowStates, publishing : BOOLEAN, known : SUBSET Members,
           observed : BOOLEAN, complete : BOOLEAN, gone : SUBSET Members,
           holder : Cleaners \cup {None}, live : BOOLEAN, failures : 0 .. MaxDeletes]]
    /\ objects \in [Runs -> SUBSET Members]
    /\ flying \subseteq Runs
    /\ cache \in Runs \cup {None}
    /\ kept \in [Runs -> Runs \cup {None}]
    /\ pin \in [Runs -> [attempt : Runs \cup {None}, live : BOOLEAN]]
    /\ run \in [Runs ->
          {"idle", "write", "manifest", "prepare", "own", "publish", "cache", "readback",
           "attest", "yield", "keep", "close", "abandon", "observe", "done"}]
    /\ reader \in [Readers ->
          [pc : {"idle", "reading", "dead"}, attempt : Runs \cup {None},
           lease : {"none", "live", "past"}, lapsed : BOOLEAN]]
    /\ cleaner \in [Cleaners ->
          [pc : {"idle", "list", "check", "erase", "acknowledge", "verify"},
           attempt : Runs \cup {None}, seen : SUBSET Members, member : Members]]
    /\ faults \in 0 .. MaxFaults

\* Whatever the cache, a run's state or a pin refers to is published and has
\* all its objects, and nothing else is published: the reference rows and the
\* states of attempts, which many transactions of metadb.py change one by
\* one, never come apart.
OwnedIsServed ==
    \A a \in Runs :
        /\ Referenced(a) <=> State(a) = "published"
        /\ Referenced(a) => Whole \subseteq objects[a]

\* A reader whose lease has not lapsed while it reads finds every object,
\* though the attempt was superseded and reapers are after it.
ReaderKeepsObjects ==
    \A q \in Readers :
        reader[q].pc = "reading" /\ ~reader[q].lapsed => Whole \subseteq objects[reader[q].attempt]

\* A manifest in the store vouches for its data, in an attempt half written or
\* half deleted as well (handoff.reap_attempts deletes the marker first).
MarkerMeansWhole ==
    \A a \in Runs : "manifest" \in objects[a] => "shard" \in objects[a]

\* An attempt recorded as deleted has left nothing in the store, and no write
\* that its sender gave up can bring something back.
DeletedIsEmpty ==
    \A a \in Runs : State(a) = "deleted" => objects[a] = {} /\ a \notin flying

\* An attempt that nobody will publish any more is deleted or set aside for a
\* person to look at, whoever crashed.
AttemptSettles ==
    \A a \in Runs :
        State(a) \notin {"none", "writing", "published", "deleted", "quarantined"}
        ~> State(a) \in {"published", "deleted", "quarantined"}
=============================================================================
