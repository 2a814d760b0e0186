-------------------------- MODULE LocalResult_proofs --------------------------
(***************************************************************************)
(* Theorems about LocalResult, for any results, readers, owners, cleaners  *)
(* and processes, and any number of crashes and lost responses.            *)
(*                                                                         *)
(* That nothing referenced is deleted rests on the lock: whoever holds it  *)
(* exclusively excludes every sharer (LockExcludes), a writer, a child and *)
(* a guard share it for as long as they rely on it (SharersHold), and a    *)
(* cleaner declares them dead only while it has the lock (Reconcilers).    *)
(***************************************************************************)
EXTENDS LocalResult, TLAPS

LockExcludes == \A r \in Results : exclusive[r] # Nobody => shared[r] = {}

\* Where a writer and a guard hold the lock.
Fenced == {"fenced", "begun", "running", "committed", "published", "aborting"}
Guarded == {"sharing", "reading", "closing"}

SharersHold ==
    /\ \A r \in Results :
          /\ writer[r] \in Fenced => Writer \in shared[r]
          /\ child[r] = "running" => Child \in shared[r]
    /\ \A x \in Readers :
          /\ reader[x] # "idle" => readerOf[x] \in Results
          /\ reader[x] \in Guarded => x \in shared[readerOf[x]]

Reconcilers == \A c \in Cleaners : cleaner[c] = "reconcile" => exclusive[target[c]] = c

\* How far the writer got tells what there can be of the result.
WriterFollows ==
    \A r \in Results :
        /\ writer[r] \in {"idle", "created", "fenced"} =>
              row[r] = NoRow /\ refs[r] = {} /\ ~file[r] /\ child[r] = "none"
        /\ writer[r] = "begun" => State(r) = "writing" /\ HasWriter(r) /\ child[r] = "none"
        /\ writer[r] \in {"committed", "published"} => child[r] # "running"
        /\ State(r) = "ready" => file[r]

\* What a durable owner refers to is ready and has its bytes.
OwnedHasBytes ==
    \A r \in Results : refs[r] \cap Durable # {} => State(r) = "ready" /\ file[r]

\* The inductive invariant.
ResultInv ==
    /\ TypeOK
    /\ LockExcludes /\ SharersHold /\ Reconcilers /\ WriterFollows
    /\ OwnedHasBytes /\ ReaderKeepsFile /\ LiveChildKeepsRow /\ NoOrphanBytes

\* The states of a row, a writer, a reader and a deleter, as TypeOK gives them.
RowStates == {"none", "writing", "ready", "deleting"}
WriterStates == {"idle", "created", "fenced", "begun", "running", "committed",
                 "published", "aborting", "ended"}
ReaderStates == {"idle", "opened", "sharing", "reading", "closing", "closed"}
CleanerStates == {"idle", "suspect", "reconcile", "delete", "unlink", "unlock", "sweep"}

-----------------------------------------------------------------------------
(* What the helpers of the actions set.                                    *)

\* SetRow(r, s, w) sets the row of r and leaves every other row alone.
LEMMA SetRowSets ==
    ASSUME TypeOK, NEW r \in Results, NEW s \in RowStates, NEW w \in BOOLEAN,
           SetRow(r, s, w)
    PROVE  /\ row' \in [Results -> [state : RowStates, writing : BOOLEAN]]
           /\ State(r)' = s
           /\ HasWriter(r)' <=> w
           /\ \A q \in Results \ {r} : row'[q] = row[q]
<1>1. [state |-> s, writing |-> w] \in [state : RowStates, writing : BOOLEAN]
  BY DEF RowStates
<1>2. row \in [Results -> [state : RowStates, writing : BOOLEAN]]
  BY DEF TypeOK, RowStates
<1>3. row' = [row EXCEPT ![r] = [state |-> s, writing |-> w]]
  BY DEF SetRow
<1>4. row' \in [Results -> [state : RowStates, writing : BOOLEAN]]
  BY <1>1, <1>2, <1>3
<1>5. row'[r] = [state |-> s, writing |-> w]
  BY <1>2, <1>3
<1>6. \A q \in Results \ {r} : row'[q] = row[q]
  BY <1>2, <1>3
<1> QED
  BY <1>4, <1>5, <1>6 DEF State, HasWriter

\* A reader is neither a durable owner nor a writer nor a child.
LEMMA ReadersDiffer ==
    ASSUME NEW x \in Readers
    PROVE  x \notin Durable /\ x \notin {Writer, Child}
BY DistinctAssumption DEF Durable, Sharers

\* AddRef(r, y) and DropRefs(r, Y) change the references to r and no other.
LEMMA AddRefSets ==
    ASSUME TypeOK, NEW r \in Results, NEW y \in Durable \cup Readers, AddRef(r, y)
    PROVE  /\ refs' \in [Results -> SUBSET (Durable \cup Readers)]
           /\ refs'[r] = refs[r] \cup {y}
           /\ \A q \in Results \ {r} : refs'[q] = refs[q]
<1>1. refs \in [Results -> SUBSET (Durable \cup Readers)]
  BY DEF TypeOK
<1>2. refs' = [refs EXCEPT ![r] = refs[r] \cup {y}]
  BY DEF AddRef
<1>3. refs[r] \cup {y} \in SUBSET (Durable \cup Readers)
  BY <1>1
<1> QED
  BY <1>1, <1>2, <1>3

LEMMA DropRefsSets ==
    ASSUME TypeOK, NEW r \in Results, NEW Y, DropRefs(r, Y)
    PROVE  /\ refs' \in [Results -> SUBSET (Durable \cup Readers)]
           /\ refs'[r] = refs[r] \ Y
           /\ \A q \in Results \ {r} : refs'[q] = refs[q]
<1>1. refs \in [Results -> SUBSET (Durable \cup Readers)]
  BY DEF TypeOK
<1>2. refs' = [refs EXCEPT ![r] = refs[r] \ Y]
  BY DEF DropRefs
<1>3. refs[r] \ Y \in SUBSET (Durable \cup Readers)
  BY <1>1
<1> QED
  BY <1>1, <1>2, <1>3

\* Unshare(r, y) takes y, and nobody else, from the sharers of one lock.
LEMMA UnshareSets ==
    ASSUME TypeOK, NEW r \in Results, NEW y, Unshare(r, y)
    PROVE  /\ shared' \in [Results -> SUBSET Sharers]
           /\ shared'[r] = shared[r] \ {y}
           /\ \A q \in Results \ {r} : shared'[q] = shared[q]
<1>1. shared \in [Results -> SUBSET Sharers]
  BY DEF TypeOK
<1>2. shared' = [shared EXCEPT ![r] = shared[r] \ {y}]
  BY DEF Unshare
<1>3. shared[r] \ {y} \in SUBSET Sharers
  BY <1>1
<1> QED
  BY <1>1, <1>2, <1>3

\* ReaderGoes(x, pc) moves one reader.
LEMMA ReaderGoesSets ==
    ASSUME TypeOK, NEW x \in Readers, NEW pc \in ReaderStates, ReaderGoes(x, pc)
    PROVE  /\ reader' \in [Readers -> ReaderStates]
           /\ reader'[x] = pc
           /\ \A y \in Readers \ {x} : reader'[y] = reader[y]
<1>1. reader \in [Readers -> ReaderStates]
  BY DEF TypeOK, ReaderStates
<1>2. reader' = [reader EXCEPT ![x] = pc]
  BY DEF ReaderGoes
<1> QED
  BY <1>1, <1>2

\* CleanerRests(d) forgets the target of d only.
LEMMA RestsOK ==
    ASSUME TypeOK, NEW d \in Deleters, CleanerRests(d)
    PROVE  /\ cleaner' \in [Deleters -> CleanerStates]
           /\ target' \in [Deleters -> Results \cup {Nobody}]
           /\ \A e \in Deleters : cleaner'[e] = "idle" <=> target'[e] = Nobody
           /\ \A e \in Deleters \ {d} : cleaner'[e] = cleaner[e] /\ target'[e] = target[e]
           /\ cleaner'[d] = "idle"
<1>1. cleaner' = [cleaner EXCEPT ![d] = "idle"] /\ target' = [target EXCEPT ![d] = Nobody]
  BY DEF CleanerRests, CleanerGoes
<1>2. cleaner' \in [Deleters -> CleanerStates]
  BY <1>1 DEF TypeOK, CleanerStates
<1>3. target' \in [Deleters -> Results \cup {Nobody}]
  BY <1>1 DEF TypeOK
<1>4. /\ cleaner'[d] = "idle"
      /\ target'[d] = Nobody
      /\ \A e \in Deleters \ {d} : cleaner'[e] = cleaner[e] /\ target'[e] = target[e]
  BY <1>1 DEF TypeOK
<1> QED
  BY <1>2, <1>3, <1>4 DEF TypeOK

\* Unexclude(d, r) releases at most one lock, and only a lock of d's.
LEMMA UnexcludeOK ==
    ASSUME TypeOK, LockExcludes, NEW d \in Deleters, NEW r \in Results, Unexclude(d, r)
    PROVE  /\ exclusive' \in [Results -> Deleters \cup {Nobody}]
           /\ \A q \in Results : exclusive'[q] # Nobody => exclusive'[q] = exclusive[q]
           /\ \A q \in Results : exclusive[q] # d => exclusive'[q] = exclusive[q]
BY DEF Unexclude, TypeOK

-----------------------------------------------------------------------------
(* Every step keeps the invariant.                                         *)

LEMMA BeginPreserves ==
    ASSUME ResultInv, NEW r \in Results, Begin(r)
    PROVE  ResultInv'
<1> USE DistinctAssumption, FaultAssumption DEF ResultInv
<1>a. /\ writer[r] = "fenced"
      /\ writer' \in {[writer EXCEPT ![r] = "begun"], [writer EXCEPT ![r] = "aborting"]}
      /\ UNCHANGED <<refs, file, lockFile, shared, exclusive, child, reader, readerOf,
                     cleaner, target>>
  BY DEF Begin, WriterGoes, lockVars, readerVars, cleanerVars
<1>b. /\ row' \in [Results -> [state : RowStates, writing : BOOLEAN]]
      /\ \A q \in Results \ {r} : row'[q] = row[q]
      /\ \/ State(r)' = "writing" /\ HasWriter(r)'
         \/ row'[r] = row[r] /\ writer'[r] = "aborting"
  <2>1. CASE SetRow(r, "writing", TRUE)
    BY <2>1, SetRowSets DEF RowStates
  <2>2. CASE UNCHANGED row /\ WriterGoes(r, "aborting")
    BY <2>2 DEF TypeOK, WriterGoes, RowStates
  <2> QED
    BY <2>1, <2>2 DEF Begin
<1>c. faults' \in 0 .. MaxFaults
  <2>1. faults' = faults \/ Fault
    BY DEF Begin
  <2> QED
    BY <2>1 DEF Fault, TypeOK
<1>1. TypeOK'
  <2>1. writer' \in [Results -> WriterStates]
    BY <1>a DEF TypeOK, WriterStates
  <2> QED
    BY <1>a, <1>b, <1>c, <2>1 DEF TypeOK, RowStates, WriterStates
<1>2. LockExcludes'
  BY <1>a DEF LockExcludes
<1>3. SharersHold'
  BY <1>a DEF SharersHold, Fenced, Guarded, TypeOK
<1>4. Reconcilers'
  BY <1>a DEF Reconcilers
<1>5. WriterFollows'
  BY <1>a, <1>b DEF WriterFollows, State, HasWriter, TypeOK
<1>6. OwnedHasBytes'
  BY <1>a, <1>b DEF OwnedHasBytes, WriterFollows, State, NoRow
<1>7. ReaderKeepsFile'
  BY <1>a, <1>b DEF ReaderKeepsFile, WriterFollows, State, NoRow, SharersHold, TypeOK,
                    Guarded
<1>8. LiveChildKeepsRow'
  BY <1>a, <1>b DEF LiveChildKeepsRow, WriterFollows, State, HasWriter
<1>9. NoOrphanBytes'
  BY <1>a, <1>b DEF NoOrphanBytes, State
<1> QED
  BY <1>1, <1>2, <1>3, <1>4, <1>5, <1>6, <1>7, <1>8, <1>9

LEMMA CommitPreserves ==
    ASSUME ResultInv, NEW r \in Results, Commit(r)
    PROVE  ResultInv'
<1> USE DistinctAssumption, FaultAssumption DEF ResultInv
<1>a. /\ writer[r] = "running" /\ child[r] # "running"
      /\ writer' \in {[writer EXCEPT ![r] = "committed"], [writer EXCEPT ![r] = "aborting"]}
      /\ UNCHANGED <<refs, file, lockFile, shared, exclusive, child, reader, readerOf,
                     cleaner, target>>
  BY DEF Commit, WriterGoes, lockVars, readerVars, cleanerVars
<1>b. /\ row' \in [Results -> [state : RowStates, writing : BOOLEAN]]
      /\ \A q \in Results \ {r} : row'[q] = row[q]
      /\ \/ State(r)' = "ready" /\ HasWriter(r)' /\ State(r) = "writing" /\ file[r]
         \/ row'[r] = row[r]
  <2>1. CASE CanCommit(r) /\ SetRow(r, "ready", TRUE)
    BY <2>1, SetRowSets DEF RowStates, CanCommit
  <2>2. CASE UNCHANGED row
    BY <2>2 DEF TypeOK, RowStates
  <2> QED
    BY <2>1, <2>2 DEF Commit
<1>c. faults' \in 0 .. MaxFaults
  <2>1. faults' = faults \/ Fault
    BY DEF Commit
  <2> QED
    BY <2>1 DEF Fault, TypeOK
<1>1. TypeOK'
  <2>1. writer' \in [Results -> WriterStates]
    <3>1. writer \in [Results -> WriterStates]
      BY DEF TypeOK, WriterStates
    <3>2. "committed" \in WriterStates /\ "aborting" \in WriterStates
      BY DEF WriterStates
    <3> QED
      BY <1>a, <3>1, <3>2
  <2> QED
    BY <1>a, <1>b, <1>c, <2>1 DEF TypeOK, RowStates, WriterStates
<1>2. LockExcludes'
  BY <1>a DEF LockExcludes
<1>3. SharersHold'
  BY <1>a DEF SharersHold, Fenced, Guarded, TypeOK
<1>4. Reconcilers'
  BY <1>a DEF Reconcilers
<1>5. WriterFollows'
  BY <1>a, <1>b DEF WriterFollows, State, HasWriter, TypeOK
<1>6. OwnedHasBytes'
  <2> SUFFICES ASSUME NEW q \in Results, refs[q] \cap Durable # {}
               PROVE  State(q)' = "ready" /\ file[q]
    BY <1>a DEF OwnedHasBytes
  <2>1. State(q) = "ready" /\ file[q]
    BY DEF OwnedHasBytes
  <2>2. State(q)' = State(q)
    BY <1>b, <2>1 DEF State
  <2> QED
    BY <2>1, <2>2
<1>7. ReaderKeepsFile'
  <2> SUFFICES ASSUME NEW x \in Readers, reader[x] = "reading"
               PROVE  /\ x \in refs[readerOf[x]]
                      /\ row'[readerOf[x]].state = "ready"
                      /\ file[readerOf[x]]
    BY <1>a DEF ReaderKeepsFile, State
  <2>1. PICK q \in Results : q = readerOf[x]
    BY DEF SharersHold
  <2>2. x \in refs[q] /\ row[q].state = "ready" /\ file[q]
    BY <2>1 DEF ReaderKeepsFile, State
  <2>3. x \in refs[q] /\ row'[q].state = "ready"
    BY <1>b, <2>2 DEF State
  <2> QED
    BY <2>1, <2>2, <2>3
<1>8. LiveChildKeepsRow'
  BY <1>a, <1>b DEF LiveChildKeepsRow, State, HasWriter
<1>9. NoOrphanBytes'
  BY <1>a, <1>b DEF NoOrphanBytes, State
<1> QED
  BY <1>1, <1>2, <1>3, <1>4, <1>5, <1>6, <1>7, <1>8, <1>9

LEMMA PublishPreserves ==
    ASSUME ResultInv, NEW r \in Results, Publish(r)
    PROVE  ResultInv'
<1> USE DistinctAssumption, FaultAssumption DEF ResultInv
<1>a. /\ writer[r] = "committed"
      /\ writer' \in {[writer EXCEPT ![r] = "published"], [writer EXCEPT ![r] = "aborting"]}
      /\ UNCHANGED <<file, lockFile, shared, exclusive, child, reader, readerOf,
                     cleaner, target, faults>>
  BY DEF Publish, WriterGoes, lockVars, readerVars, cleanerVars
<1>b. /\ row' \in [Results -> [state : RowStates, writing : BOOLEAN]]
      /\ refs' \in [Results -> SUBSET (Durable \cup Readers)]
      /\ \A q \in Results \ {r} : row'[q] = row[q] /\ refs'[q] = refs[q]
      /\ \/ State(r) = "ready" /\ State(r)' = "ready" /\ refs'[r] = refs[r] \cup {RunState}
         \/ row'[r] = row[r] /\ refs'[r] = refs[r]
  <2>1. CASE State(r) = "ready" /\ SetRow(r, "ready", FALSE) /\ AddRef(r, RunState)
    <3>1. refs \in [Results -> SUBSET (Durable \cup Readers)] /\ RunState \in Durable
      BY DEF TypeOK, Durable
    <3>2. refs' = [refs EXCEPT ![r] = @ \cup {RunState}]
      BY <2>1 DEF AddRef
    <3>3. /\ refs' \in [Results -> SUBSET (Durable \cup Readers)]
          /\ refs'[r] = refs[r] \cup {RunState}
          /\ \A q \in Results \ {r} : refs'[q] = refs[q]
      BY <3>1, <3>2
    <3> QED
      BY <2>1, <3>3, SetRowSets DEF RowStates
  <2>2. CASE UNCHANGED <<row, refs>>
    BY <2>2 DEF TypeOK, RowStates
  <2> QED
    BY <2>1, <2>2 DEF Publish, rowVars
<1>1. TypeOK'
  <2>1. writer' \in [Results -> WriterStates]
    <3>1. writer \in [Results -> WriterStates]
      BY DEF TypeOK, WriterStates
    <3>2. "published" \in WriterStates /\ "aborting" \in WriterStates
      BY DEF WriterStates
    <3> QED
      BY <1>a, <3>1, <3>2
  <2> QED
    BY <1>a, <1>b, <2>1 DEF TypeOK, RowStates, WriterStates
<1>2. LockExcludes'
  BY <1>a DEF LockExcludes
<1>3. SharersHold'
  BY <1>a DEF SharersHold, Fenced, Guarded, TypeOK
<1>4. Reconcilers'
  BY <1>a DEF Reconcilers
<1>5. WriterFollows'
  BY <1>a, <1>b DEF WriterFollows, State, HasWriter, TypeOK
<1>6. OwnedHasBytes'
  BY <1>a, <1>b DEF OwnedHasBytes, WriterFollows, State
<1>7. ReaderKeepsFile'
  <2> SUFFICES ASSUME NEW x \in Readers, reader[x] = "reading"
               PROVE  /\ x \in refs'[readerOf[x]]
                      /\ row'[readerOf[x]].state = "ready"
                      /\ file[readerOf[x]]
    BY <1>a DEF ReaderKeepsFile, State
  <2>1. PICK q \in Results : q = readerOf[x]
    BY DEF SharersHold
  <2>2. x \in refs[q] /\ row[q].state = "ready" /\ file[q]
    BY <2>1 DEF ReaderKeepsFile, State
  <2>3. x \in refs'[q] /\ row'[q].state = "ready"
    BY <1>b, <2>2 DEF State
  <2> QED
    BY <2>1, <2>2, <2>3
<1>8. LiveChildKeepsRow'
  BY <1>a, <1>b DEF LiveChildKeepsRow, State, HasWriter
<1>9. NoOrphanBytes'
  BY <1>a, <1>b DEF NoOrphanBytes, State
<1> QED
  BY <1>1, <1>2, <1>3, <1>4, <1>5, <1>6, <1>7, <1>8, <1>9

LEMMA AbortPreserves ==
    ASSUME ResultInv, NEW r \in Results, Abort(r)
    PROVE  ResultInv'
<1> USE DistinctAssumption, FaultAssumption DEF ResultInv
<1>a. /\ writer[r] = "aborting" /\ child[r] # "running"
      /\ UNCHANGED <<refs, file, lockFile, exclusive, child, reader, readerOf>>
  BY DEF Abort, readerVars
<1>b. /\ row' \in [Results -> [state : RowStates, writing : BOOLEAN]]
      /\ \A q \in Results \ {r} : row'[q] = row[q]
      /\ \/ /\ State(r)' = "deleting" /\ HasWriter(r)
            /\ State(r) = "deleting" \/ refs[r] = {}
         \/ row'[r] = row[r]
  <2>1. CASE Abandons(r) /\ SetRow(r, "deleting", TRUE)
    BY <2>1, SetRowSets DEF RowStates, Abandons
  <2>2. CASE UNCHANGED row
    BY <2>2 DEF TypeOK, RowStates
  <2> QED
    BY <2>1, <2>2 DEF Abort
<1>c. faults' \in 0 .. MaxFaults
  <2>1. faults' = faults \/ Fault
    BY DEF Abort
  <2> QED
    BY <2>1 DEF Fault, TypeOK
<1>d. \/ /\ writer' = [writer EXCEPT ![r] = "ended"]
         /\ shared' = [shared EXCEPT ![r] = @ \ {Writer}]
      \/ UNCHANGED <<writer, shared>>
  BY DEF Abort, WriterGoes, Unshare
<1>e. \/ /\ cleaner' = [cleaner EXCEPT ![r] = "delete"]
         /\ target' = [target EXCEPT ![r] = r]
      \/ UNCHANGED <<cleaner, target>>
  BY DEF Abort, cleanerVars
<1>f. r \in Deleters /\ r # Nobody /\ r \notin Cleaners
  BY DEF Deleters
<1>1. TypeOK'
  <2>1. writer' \in [Results -> WriterStates]
    BY <1>d DEF TypeOK, WriterStates
  <2>2. shared' \in [Results -> SUBSET Sharers]
    <3>1. shared \in [Results -> SUBSET Sharers]
      BY DEF TypeOK
    <3>2. shared[r] \ {Writer} \in SUBSET Sharers
      BY <3>1
    <3> QED
      BY <1>d, <3>1, <3>2
  <2>3. /\ cleaner' \in [Deleters -> CleanerStates]
        /\ target' \in [Deleters -> Results \cup {Nobody}]
        /\ \A d \in Deleters : cleaner'[d] = "idle" <=> target'[d] = Nobody
    <3>1. CASE /\ cleaner' = [cleaner EXCEPT ![r] = "delete"]
               /\ target' = [target EXCEPT ![r] = r]
      <4>1. cleaner' \in [Deleters -> CleanerStates]
        BY <1>f, <3>1 DEF TypeOK, CleanerStates
      <4>2. target' \in [Deleters -> Results \cup {Nobody}]
        BY <1>f, <3>1 DEF TypeOK
      <4>3. \A d \in Deleters : cleaner'[d] = "idle" <=> target'[d] = Nobody
        BY <1>f, <3>1 DEF TypeOK
      <4> QED
        BY <4>1, <4>2, <4>3
    <3>2. CASE UNCHANGED <<cleaner, target>>
      BY <3>2 DEF TypeOK, CleanerStates
    <3> QED
      BY <1>e, <3>1, <3>2
  <2> QED
    BY <1>a, <1>b, <1>c, <2>1, <2>2, <2>3 DEF TypeOK, RowStates, WriterStates,
                                              CleanerStates
<1>2. LockExcludes'
  <2>1. CASE shared' = [shared EXCEPT ![r] = @ \ {Writer}]
    <3>1. shared'[r] = shared[r] \ {Writer} /\ \A q \in Results \ {r} : shared'[q] = shared[q]
      BY <2>1 DEF TypeOK
    <3> QED
      BY <1>a, <3>1 DEF LockExcludes
  <2>2. CASE UNCHANGED shared
    BY <1>a, <2>2 DEF LockExcludes
  <2> QED
    BY <1>d, <2>1, <2>2
<1>3. SharersHold'
  <2>1. /\ \A q \in Results : \A x \in Readers \cup {Child} :
              x \in shared[q] => x \in shared'[q]
        /\ \A q \in Results : writer'[q] \in Fenced =>
              writer'[q] = writer[q] /\ shared'[q] = shared[q]
    BY <1>d DEF TypeOK, Fenced
  <2> QED
    BY <1>a, <2>1 DEF SharersHold, Guarded
<1>4. Reconcilers'
  BY <1>a, <1>e, <1>f DEF Reconcilers, TypeOK, Deleters
<1>5. WriterFollows'
  <2>1. \A q \in Results : writer'[q] \in {writer[q], "ended"}
    BY <1>d DEF TypeOK
  <2> QED
    BY <1>a, <1>b, <2>1 DEF WriterFollows, State, HasWriter
<1>6. OwnedHasBytes'
  BY <1>a, <1>b DEF OwnedHasBytes, State
<1>7. ReaderKeepsFile'
  <2> SUFFICES ASSUME NEW x \in Readers, reader[x] = "reading"
               PROVE  /\ x \in refs[readerOf[x]]
                      /\ row'[readerOf[x]].state = "ready"
                      /\ file[readerOf[x]]
    BY <1>a DEF ReaderKeepsFile, State
  <2>1. PICK q \in Results : q = readerOf[x]
    BY DEF SharersHold
  <2>2. x \in refs[q] /\ row[q].state = "ready" /\ file[q]
    BY <2>1 DEF ReaderKeepsFile, State
  <2>3. x \in refs[q] /\ row'[q].state = "ready"
    BY <1>b, <2>2 DEF State
  <2> QED
    BY <2>1, <2>2, <2>3
<1>8. LiveChildKeepsRow'
  BY <1>a, <1>b DEF LiveChildKeepsRow, State, HasWriter
<1>9. NoOrphanBytes'
  BY <1>a, <1>b DEF NoOrphanBytes, State
<1> QED
  BY <1>1, <1>2, <1>3, <1>4, <1>5, <1>6, <1>7, <1>8, <1>9

LEMMA ReconcileDeadPreserves ==
    ASSUME ResultInv, NEW c \in Cleaners, ReconcileDead(c)
    PROVE  ResultInv'
<1> USE DistinctAssumption, FaultAssumption DEF ResultInv
<1>r. target[c] \in Results
  BY DEF ReconcileDead, TypeOK, Deleters
<1>p. PICK r \in Results : r = target[c]
  BY <1>r
<1>a. /\ cleaner[c] = "reconcile"
      /\ Unexclude(c, r) /\ CleanerRests(c)
      /\ UNCHANGED <<file, lockFile, shared, writer, child, reader, readerOf, faults>>
  BY <1>p DEF ReconcileDead, writerVars, readerVars
<1>b. c \in Deleters /\ exclusive[r] = c /\ shared[r] = {}
  <2>1. c \in Deleters
    BY DEF Deleters
  <2> QED
    BY <1>p, <1>a, <2>1 DEF Reconcilers, LockExcludes
<1>c. /\ writer[r] \notin Fenced /\ child[r] # "running"
      /\ \A x \in Readers : reader[x] \in Guarded => readerOf[x] # r
  BY <1>b DEF SharersHold
<1>d. /\ row' \in [Results -> [state : RowStates, writing : BOOLEAN]]
      /\ refs' \in [Results -> SUBSET (Durable \cup Readers)]
      /\ \A q \in Results \ {r} : row'[q] = row[q] /\ refs'[q] = refs[q]
      /\ State(r)' = State(r) /\ refs'[r] \subseteq refs[r]
      /\ \/ row'[r] = row[r] /\ refs'[r] = refs[r]
         \/ State(r) \in {"writing", "ready"}
  <2>1. CASE /\ State(r) \in {"writing", "ready"}
             /\ SetRow(r, State(r), FALSE) /\ DropRefs(r, Readers)
    <3>1. /\ refs' \in [Results -> SUBSET (Durable \cup Readers)]
          /\ refs'[r] \subseteq refs[r]
          /\ \A q \in Results \ {r} : refs'[q] = refs[q]
      BY <1>b, <2>1 DEF DropRefs, TypeOK
    <3>2. State(r) \in RowStates
      BY <2>1 DEF RowStates
    <3> QED
      BY <1>b, <2>1, <3>1, <3>2, SetRowSets
  <2>2. CASE UNCHANGED <<row, refs>>
    BY <2>2 DEF TypeOK, RowStates, State
  <2> QED
    BY <1>p, <2>1, <2>2 DEF ReconcileDead, rowVars
<1>e. /\ exclusive' \in [Results -> Deleters \cup {Nobody}]
      /\ \A q \in Results : exclusive'[q] # Nobody => exclusive'[q] = exclusive[q]
      /\ \A q \in Results : exclusive[q] # c => exclusive'[q] = exclusive[q]
  BY <1>a, <1>b, UnexcludeOK
<1>f. /\ cleaner' \in [Deleters -> CleanerStates]
      /\ target' \in [Deleters -> Results \cup {Nobody}]
      /\ \A e \in Deleters : cleaner'[e] = "idle" <=> target'[e] = Nobody
      /\ \A e \in Deleters \ {c} : cleaner'[e] = cleaner[e] /\ target'[e] = target[e]
      /\ cleaner'[c] = "idle"
  BY <1>a, <1>b, RestsOK
<1>1. TypeOK'
  BY <1>a, <1>d, <1>e, <1>f DEF TypeOK, RowStates, CleanerStates
<1>2. LockExcludes'
  BY <1>a, <1>e DEF LockExcludes
<1>3. SharersHold'
  BY <1>a DEF SharersHold
<1>4. Reconcilers'
  BY <1>e, <1>f DEF Reconcilers, TypeOK, Deleters
<1>5. WriterFollows'
  BY <1>a, <1>b, <1>c, <1>d DEF WriterFollows, State, HasWriter, Fenced, NoRow
<1>6. OwnedHasBytes'
  BY <1>a, <1>b, <1>d DEF OwnedHasBytes, State
<1>7. ReaderKeepsFile'
  BY <1>a, <1>b, <1>c, <1>d DEF ReaderKeepsFile, State, SharersHold, TypeOK, Guarded
<1>8. LiveChildKeepsRow'
  BY <1>a, <1>b, <1>c, <1>d DEF LiveChildKeepsRow, State, HasWriter
<1>9. NoOrphanBytes'
  BY <1>a, <1>b, <1>d DEF NoOrphanBytes, State
<1> QED
  BY <1>1, <1>2, <1>3, <1>4, <1>5, <1>6, <1>7, <1>8, <1>9

LEMMA ClaimReclaimPreserves ==
    ASSUME ResultInv, NEW c \in Cleaners, NEW r \in Results, ClaimReclaim(c, r)
    PROVE  ResultInv'
<1> USE DistinctAssumption, FaultAssumption DEF ResultInv
<1>a. /\ cleaner[c] = "idle" /\ Reclaimable(r)
      /\ cleaner' = [cleaner EXCEPT ![c] = "delete"]
      /\ target' = [target EXCEPT ![c] = r]
      /\ UNCHANGED <<refs, file, lockFile, shared, exclusive, writer, child, reader,
                     readerOf, faults>>
  BY DEF ClaimReclaim, CleanerGoes, lockVars, writerVars, readerVars
<1>b. c \in Deleters /\ r # Nobody
  BY DEF Deleters
<1>c. /\ row' \in [Results -> [state : RowStates, writing : BOOLEAN]]
      /\ \A q \in Results \ {r} : row'[q] = row[q]
      /\ State(r)' = "deleting"
  <2>1. SetRow(r, "deleting", State(r) = "deleting" /\ HasWriter(r))
    BY DEF ClaimReclaim, SetRow
  <2>2. (State(r) = "deleting" /\ HasWriter(r)) \in BOOLEAN
    OBVIOUS
  <2> QED
    BY <2>1, <2>2, SetRowSets DEF RowStates
<1>1. TypeOK'
  <2>1. cleaner' \in [Deleters -> CleanerStates]
    BY <1>a, <1>b DEF TypeOK, CleanerStates
  <2>2. target' \in [Deleters -> Results \cup {Nobody}]
    BY <1>a, <1>b DEF TypeOK
  <2>3. \A d \in Deleters : cleaner'[d] = "idle" <=> target'[d] = Nobody
    BY <1>a, <1>b DEF TypeOK
  <2> QED
    BY <1>a, <1>c, <2>1, <2>2, <2>3 DEF TypeOK, RowStates, CleanerStates
<1>2. LockExcludes'
  BY <1>a DEF LockExcludes
<1>3. SharersHold'
  BY <1>a DEF SharersHold
<1>4. Reconcilers'
  BY <1>a, <1>b DEF Reconcilers, TypeOK, Deleters
<1>r. \/ State(r) = "deleting"
      \/ State(r) \in {"writing", "ready"} /\ ~HasWriter(r) /\ refs[r] = {}
  BY <1>a DEF Reclaimable
<1>5. WriterFollows'
  BY <1>a, <1>c, <1>r DEF WriterFollows, State, HasWriter, NoRow
<1>6. OwnedHasBytes'
  BY <1>a, <1>c, <1>r DEF OwnedHasBytes, State
<1>7. ReaderKeepsFile'
  <2>1. ASSUME NEW x \in Readers, reader[x] = "reading"
        PROVE  readerOf[x] \in Results \ {r}
    BY <1>r, <2>1 DEF ReaderKeepsFile, SharersHold
  <2> QED
    BY <1>a, <1>c, <2>1 DEF ReaderKeepsFile, State
<1>8. LiveChildKeepsRow'
  BY <1>a, <1>c, <1>r DEF LiveChildKeepsRow, State, HasWriter
<1>9. NoOrphanBytes'
  BY <1>a, <1>c, <1>r DEF NoOrphanBytes, State
<1> QED
  BY <1>1, <1>2, <1>3, <1>4, <1>5, <1>6, <1>7, <1>8, <1>9

LEMMA DeleteRowPreserves ==
    ASSUME ResultInv, NEW d \in Deleters, DeleteRow(d)
    PROVE  ResultInv'
<1> USE DistinctAssumption, FaultAssumption DEF ResultInv
<1>r. target[d] \in Results
  BY DEF DeleteRow, TypeOK, Deleters
<1>p. PICK r \in Results : r = target[d]
  BY <1>r
<1>a. /\ cleaner[d] = "unlink"
      /\ UNCHANGED <<refs, lockFile, shared, writer, child, reader, readerOf>>
  BY DEF DeleteRow, writerVars, readerVars
<1>c. /\ row' \in [Results -> [state : RowStates, writing : BOOLEAN]]
      /\ file' \in [Results -> BOOLEAN]
      /\ \A q \in Results \ {r} : row'[q] = row[q] /\ file'[q] = file[q]
      /\ \/ row'[r] = row[r] /\ file'[r] = file[r]
         \/ /\ State(r) = "deleting" /\ refs[r] = {}
            /\ ~file'[r] /\ State(r)' \in {"none", "deleting"}
  <2>1. CASE State(r) = "deleting" /\ refs[r] = {} /\ file' = [file EXCEPT ![r] = FALSE]
    <3>1. /\ file' \in [Results -> BOOLEAN] /\ ~file'[r]
          /\ \A q \in Results \ {r} : file'[q] = file[q]
      BY <2>1 DEF TypeOK
    <3>2. CASE row' = [row EXCEPT ![r] = NoRow]
      <4>1. SetRow(r, "none", FALSE)
        BY <3>2 DEF SetRow, NoRow
      <4>2. "none" \in RowStates /\ FALSE \in BOOLEAN
        BY DEF RowStates
      <4> QED
        BY <2>1, <3>1, <4>1, <4>2, SetRowSets
    <3>3. CASE UNCHANGED row
      BY <2>1, <3>1, <3>3 DEF TypeOK, RowStates, State
    <3>4. row' = [row EXCEPT ![r] = NoRow] \/ UNCHANGED row
      BY <1>p, <2>1 DEF DeleteRow
    <3> QED
      BY <3>2, <3>3, <3>4
  <2>2. CASE UNCHANGED <<row, file>>
    BY <2>2 DEF TypeOK, RowStates
  <2> QED
    BY <1>p, <2>1, <2>2 DEF DeleteRow
<1>d. \/ Unexclude(d, r) /\ CleanerRests(d)
      \/ CleanerGoes(d, "unlock") /\ UNCHANGED <<target, exclusive>>
  BY <1>p DEF DeleteRow
<1>e. /\ exclusive' \in [Results -> Deleters \cup {Nobody}]
      /\ \A q \in Results : exclusive'[q] # Nobody => exclusive'[q] = exclusive[q]
      /\ \A q \in Results : exclusive[q] # d => exclusive'[q] = exclusive[q]
  BY <1>d, UnexcludeOK DEF TypeOK
<1>f. /\ cleaner' \in [Deleters -> CleanerStates]
      /\ target' \in [Deleters -> Results \cup {Nobody}]
      /\ \A e \in Deleters : cleaner'[e] = "idle" <=> target'[e] = Nobody
      /\ \A e \in Deleters \ {d} : cleaner'[e] = cleaner[e] /\ target'[e] = target[e]
      /\ cleaner'[d] # "reconcile"
  <2>1. CASE CleanerRests(d)
    BY <2>1, RestsOK
  <2>2. CASE CleanerGoes(d, "unlock") /\ UNCHANGED target
    <3>1. cleaner' = [cleaner EXCEPT ![d] = "unlock"] /\ target' = target
      BY <2>2 DEF CleanerGoes
    <3>2. cleaner' \in [Deleters -> CleanerStates]
      BY <3>1 DEF TypeOK, CleanerStates
    <3> QED
      BY <1>a, <3>1, <3>2 DEF TypeOK
  <2> QED
    BY <1>d, <2>1, <2>2
<1>g. faults' \in 0 .. MaxFaults
  <2>1. faults' = faults \/ Fault
    BY DEF DeleteRow
  <2> QED
    BY <2>1 DEF Fault, TypeOK
<1>1. TypeOK'
  BY <1>a, <1>c, <1>e, <1>f, <1>g DEF TypeOK, RowStates, CleanerStates
<1>2. LockExcludes'
  BY <1>a, <1>e DEF LockExcludes
<1>3. SharersHold'
  BY <1>a DEF SharersHold
<1>4. Reconcilers'
  BY <1>e, <1>f DEF Reconcilers, TypeOK, Deleters
<1>5. WriterFollows'
  BY <1>a, <1>c DEF WriterFollows, State, HasWriter, NoRow
<1>6. OwnedHasBytes'
  BY <1>a, <1>c DEF OwnedHasBytes, State
<1>7. ReaderKeepsFile'
  BY <1>a, <1>c DEF ReaderKeepsFile, State, SharersHold, TypeOK, Guarded
<1>8. LiveChildKeepsRow'
  BY <1>a, <1>c DEF LiveChildKeepsRow, State, HasWriter
<1>9. NoOrphanBytes'
  BY <1>a, <1>c DEF NoOrphanBytes, State
<1> QED
  BY <1>1, <1>2, <1>3, <1>4, <1>5, <1>6, <1>7, <1>8, <1>9

LEMMA CreateLockPreserves ==
    ASSUME ResultInv, NEW r \in Results, CreateLock(r)
    PROVE  ResultInv'
<1> USE DistinctAssumption, FaultAssumption DEF ResultInv, CreateLock, CleanerGoes,
                                                ReaderGoes, WriterGoes, cleanerVars,
                                                readerVars, rowVars
<1>1. TypeOK'
  BY DEF TypeOK, Durable, Sharers, Deleters, NoRow
<1>2. LockExcludes'
  BY DEF LockExcludes, TypeOK
<1>3. SharersHold'
  BY DEF SharersHold, Fenced, Guarded, TypeOK
<1>4. Reconcilers'
  BY DEF Reconcilers, Deleters, TypeOK
<1>5. WriterFollows'
  BY DEF WriterFollows, State, HasWriter, NoRow, TypeOK
<1>6. OwnedHasBytes'
  BY DEF OwnedHasBytes, State, Durable, TypeOK
<1>7. ReaderKeepsFile'
  BY DEF ReaderKeepsFile, State, TypeOK
<1>8. LiveChildKeepsRow'
  BY DEF LiveChildKeepsRow, State, HasWriter, TypeOK
<1>9. NoOrphanBytes'
  BY DEF NoOrphanBytes, State, TypeOK
<1> QED
  BY <1>1, <1>2, <1>3, <1>4, <1>5, <1>6, <1>7, <1>8, <1>9

LEMMA FenceLockPreserves ==
    ASSUME ResultInv, NEW r \in Results, FenceLock(r)
    PROVE  ResultInv'
<1> USE DistinctAssumption, FaultAssumption DEF ResultInv, FenceLock, CanExclude,
                                                CanShare, CleanerGoes, ReaderGoes,
                                                Share, Unshare, WriterGoes, cleanerVars,
                                                readerVars, rowVars
<1>1. TypeOK'
  <2>1. lockFile' \in [Results -> {"absent", "empty", "valid"}]
    BY DEF TypeOK, Durable, Sharers, Deleters, NoRow
  <2>2. shared' \in [Results -> SUBSET Sharers]
    BY DEF TypeOK, Durable, Sharers, Deleters, NoRow
  <2>3. writer' \in [Results -> {"idle", "created", "fenced", "begun", "running",
                            "committed", "published", "aborting", "ended"}]
    <3>1. \/ writer' = [writer EXCEPT ![r] = "fenced"]
          \/ writer' = [writer EXCEPT ![r] = "ended"]
      OBVIOUS
    <3> QED
      BY <3>1 DEF TypeOK
  <2> QED
    BY <2>1, <2>2, <2>3 DEF TypeOK
<1>2. LockExcludes'
  BY DEF LockExcludes, TypeOK
<1>3. SharersHold'
  <2>1. /\ \A q \in Results : shared[q] \subseteq shared'[q]
        /\ \A q \in Results : writer'[q] = writer[q] \/ writer'[q] \notin Fenced
                                                    \/ Writer \in shared'[q]
    BY DEF TypeOK, Fenced, Sharers
  <2> QED
    BY <2>1 DEF SharersHold, Guarded
<1>4. Reconcilers'
  BY DEF Reconcilers, Deleters, TypeOK
<1>5. WriterFollows'
  BY DEF WriterFollows, State, HasWriter, NoRow, TypeOK
<1>6. OwnedHasBytes'
  BY DEF OwnedHasBytes, State, Durable, TypeOK
<1>7. ReaderKeepsFile'
  BY DEF ReaderKeepsFile, State, TypeOK
<1>8. LiveChildKeepsRow'
  BY DEF LiveChildKeepsRow, State, HasWriter, TypeOK
<1>9. NoOrphanBytes'
  BY DEF NoOrphanBytes, State, TypeOK
<1> QED
  BY <1>1, <1>2, <1>3, <1>4, <1>5, <1>6, <1>7, <1>8, <1>9

LEMMA StartChildPreserves ==
    ASSUME ResultInv, NEW r \in Results, StartChild(r)
    PROVE  ResultInv'
<1> USE DistinctAssumption, FaultAssumption DEF ResultInv, StartChild, CleanerGoes,
                                                ReaderGoes, Share, Unshare, WriterGoes,
                                                cleanerVars, readerVars, rowVars
<1>1. TypeOK'
  <2>1. shared' \in [Results -> SUBSET Sharers]
    <3>1. Child \in Sharers
      BY DEF Sharers
    <3> QED
      BY <3>1 DEF TypeOK
  <2>2. writer' \in [Results -> {"idle", "created", "fenced", "begun", "running",
                            "committed", "published", "aborting", "ended"}]
    BY DEF TypeOK, Durable, Sharers, Deleters, NoRow
  <2>3. child' \in [Results -> {"none", "running", "wrote", "failed"}]
    BY DEF TypeOK, Durable, Sharers, Deleters, NoRow
  <2> QED
    BY <2>1, <2>2, <2>3 DEF TypeOK
<1>2. LockExcludes'
  BY DEF LockExcludes, TypeOK, SharersHold, Fenced, Guarded
<1>3. SharersHold'
  BY DEF SharersHold, Fenced, Guarded, TypeOK
<1>4. Reconcilers'
  BY DEF Reconcilers, Deleters, TypeOK
<1>5. WriterFollows'
  BY DEF WriterFollows, State, HasWriter, NoRow, TypeOK
<1>6. OwnedHasBytes'
  BY DEF OwnedHasBytes, State, Durable, TypeOK
<1>7. ReaderKeepsFile'
  BY DEF ReaderKeepsFile, State, TypeOK
<1>8. LiveChildKeepsRow'
  BY DEF LiveChildKeepsRow, State, HasWriter, TypeOK, WriterFollows, NoRow
<1>9. NoOrphanBytes'
  BY DEF NoOrphanBytes, State, TypeOK
<1> QED
  BY <1>1, <1>2, <1>3, <1>4, <1>5, <1>6, <1>7, <1>8, <1>9

LEMMA ChildWritesPreserves ==
    ASSUME ResultInv, NEW r \in Results, ChildWrites(r)
    PROVE  ResultInv'
<1> USE DistinctAssumption, FaultAssumption DEF ResultInv, ChildWrites, cleanerVars,
                                                lockVars, readerVars, rowVars,
                                                writerVars
<1>1. TypeOK'
  BY DEF TypeOK, Durable, Sharers, Deleters, NoRow
<1>2. LockExcludes'
  BY DEF LockExcludes, TypeOK
<1>3. SharersHold'
  BY DEF SharersHold, Fenced, Guarded, TypeOK
<1>4. Reconcilers'
  BY DEF Reconcilers, Deleters, TypeOK
<1>5. WriterFollows'
  BY DEF WriterFollows, State, HasWriter, NoRow, TypeOK
<1>6. OwnedHasBytes'
  BY DEF OwnedHasBytes, State, Durable, TypeOK
<1>7. ReaderKeepsFile'
  BY DEF ReaderKeepsFile, State, TypeOK
<1>8. LiveChildKeepsRow'
  BY DEF LiveChildKeepsRow, State, HasWriter, TypeOK
<1>9. NoOrphanBytes'
  BY DEF NoOrphanBytes, State, TypeOK, LiveChildKeepsRow
<1> QED
  BY <1>1, <1>2, <1>3, <1>4, <1>5, <1>6, <1>7, <1>8, <1>9

LEMMA ChildExitsPreserves ==
    ASSUME ResultInv, NEW r \in Results, ChildExits(r)
    PROVE  ResultInv'
<1> USE DistinctAssumption, FaultAssumption DEF ResultInv, ChildExits, Unshare,
                                                cleanerVars, readerVars, rowVars
<1>1. TypeOK'
  <2>1. shared' \in [Results -> SUBSET Sharers]
    BY DEF TypeOK, Durable, Sharers, Deleters, NoRow
  <2>2. child' \in [Results -> {"none", "running", "wrote", "failed"}]
    BY DEF TypeOK, Durable, Sharers, Deleters, NoRow
  <2> QED
    BY <2>1, <2>2 DEF TypeOK
<1>2. LockExcludes'
  BY DEF LockExcludes, TypeOK
<1>3. SharersHold'
  BY DEF SharersHold, Fenced, Guarded, TypeOK
<1>4. Reconcilers'
  BY DEF Reconcilers, Deleters, TypeOK
<1>5. WriterFollows'
  BY DEF WriterFollows, State, HasWriter, NoRow, TypeOK
<1>6. OwnedHasBytes'
  BY DEF OwnedHasBytes, State, Durable, TypeOK
<1>7. ReaderKeepsFile'
  BY DEF ReaderKeepsFile, State, TypeOK
<1>8. LiveChildKeepsRow'
  BY DEF LiveChildKeepsRow, State, HasWriter, TypeOK
<1>9. NoOrphanBytes'
  BY DEF NoOrphanBytes, State, TypeOK
<1> QED
  BY <1>1, <1>2, <1>3, <1>4, <1>5, <1>6, <1>7, <1>8, <1>9

LEMMA ReleasePreserves ==
    ASSUME ResultInv, NEW r \in Results, Release(r)
    PROVE  ResultInv'
<1> USE DistinctAssumption, FaultAssumption DEF ResultInv, Release, CleanerGoes,
                                                HasWriter, ReaderGoes, State, Unshare,
                                                WriterGoes, cleanerVars, readerVars,
                                                rowVars
<1>1. TypeOK'
  BY DEF TypeOK, Durable, Sharers, Deleters, NoRow
<1>2. LockExcludes'
  BY DEF LockExcludes, TypeOK
<1>3. SharersHold'
  BY DEF SharersHold, Fenced, Guarded, TypeOK
<1>4. Reconcilers'
  BY DEF Reconcilers, Deleters, TypeOK
<1>5. WriterFollows'
  BY DEF WriterFollows, NoRow, TypeOK
<1>6. OwnedHasBytes'
  BY DEF OwnedHasBytes, Durable, TypeOK
<1>7. ReaderKeepsFile'
  BY DEF ReaderKeepsFile, TypeOK
<1>8. LiveChildKeepsRow'
  BY DEF LiveChildKeepsRow, TypeOK
<1>9. NoOrphanBytes'
  BY DEF NoOrphanBytes, TypeOK
<1> QED
  BY <1>1, <1>2, <1>3, <1>4, <1>5, <1>6, <1>7, <1>8, <1>9

LEMMA OwnPreserves ==
    ASSUME ResultInv, NEW o \in Durable, NEW r \in Results, Own(o, r)
    PROVE  ResultInv'
<1> USE DistinctAssumption, FaultAssumption DEF ResultInv, Own, AddRef, DropRefs,
                                                HasWriter, State, cleanerVars, lockVars,
                                                readerVars, writerVars
<1>1. TypeOK'
  BY DEF TypeOK, Durable, Sharers, Deleters, NoRow
<1>2. LockExcludes'
  BY DEF LockExcludes, TypeOK
<1>3. SharersHold'
  BY DEF SharersHold, Fenced, Guarded, TypeOK
<1>4. Reconcilers'
  BY DEF Reconcilers, Deleters, TypeOK
<1>5. WriterFollows'
  BY DEF WriterFollows, NoRow, TypeOK
<1>6. OwnedHasBytes'
  BY DEF OwnedHasBytes, Durable, TypeOK, WriterFollows, NoRow
<1>7. ReaderKeepsFile'
  BY DEF ReaderKeepsFile, TypeOK
<1>8. LiveChildKeepsRow'
  BY DEF LiveChildKeepsRow, TypeOK
<1>9. NoOrphanBytes'
  BY DEF NoOrphanBytes, TypeOK
<1> QED
  BY <1>1, <1>2, <1>3, <1>4, <1>5, <1>6, <1>7, <1>8, <1>9

LEMMA DisownPreserves ==
    ASSUME ResultInv, NEW o \in Durable, NEW r \in Results, Disown(o, r)
    PROVE  ResultInv'
<1> USE DistinctAssumption, FaultAssumption DEF ResultInv, Disown, DropRefs,
                                                cleanerVars, lockVars, readerVars,
                                                writerVars
<1>1. TypeOK'
  BY DEF TypeOK, Durable, Sharers, Deleters, NoRow
<1>2. LockExcludes'
  BY DEF LockExcludes, TypeOK
<1>3. SharersHold'
  BY DEF SharersHold, Fenced, Guarded, TypeOK
<1>4. Reconcilers'
  BY DEF Reconcilers, Deleters, TypeOK
<1>5. WriterFollows'
  BY DEF WriterFollows, State, HasWriter, NoRow, TypeOK
<1>6. OwnedHasBytes'
  BY DEF OwnedHasBytes, State, Durable, TypeOK
<1>7. ReaderKeepsFile'
  BY DEF ReaderKeepsFile, State, TypeOK, Durable, Sharers
<1>8. LiveChildKeepsRow'
  BY DEF LiveChildKeepsRow, State, HasWriter, TypeOK
<1>9. NoOrphanBytes'
  BY DEF NoOrphanBytes, State, TypeOK
<1> QED
  BY <1>1, <1>2, <1>3, <1>4, <1>5, <1>6, <1>7, <1>8, <1>9

LEMMA OpenLockPreserves ==
    ASSUME ResultInv, NEW x \in Readers, NEW r \in Results, OpenLock(x, r)
    PROVE  ResultInv'
<1> USE DistinctAssumption, FaultAssumption DEF ResultInv, OpenLock, CleanerGoes,
                                                ReaderGoes, cleanerVars, lockVars,
                                                rowVars, writerVars
<1>1. TypeOK'
  BY DEF TypeOK, Durable, Sharers, Deleters, NoRow
<1>2. LockExcludes'
  BY DEF LockExcludes, TypeOK
<1>3. SharersHold'
  BY DEF SharersHold, Fenced, Guarded, TypeOK
<1>4. Reconcilers'
  BY DEF Reconcilers, Deleters, TypeOK
<1>5. WriterFollows'
  BY DEF WriterFollows, State, HasWriter, NoRow, TypeOK
<1>6. OwnedHasBytes'
  BY DEF OwnedHasBytes, State, Durable, TypeOK
<1>7. ReaderKeepsFile'
  BY DEF ReaderKeepsFile, State, TypeOK
<1>8. LiveChildKeepsRow'
  BY DEF LiveChildKeepsRow, State, HasWriter, TypeOK
<1>9. NoOrphanBytes'
  BY DEF NoOrphanBytes, State, TypeOK
<1> QED
  BY <1>1, <1>2, <1>3, <1>4, <1>5, <1>6, <1>7, <1>8, <1>9

LEMMA ShareLockPreserves ==
    ASSUME ResultInv, NEW x \in Readers, ShareLock(x)
    PROVE  ResultInv'
<1> USE DistinctAssumption, FaultAssumption DEF ResultInv
<1> DEFINE q == readerOf[x]
<1>0. TypeOK /\ {"sharing", "closed"} \subseteq ReaderStates
  BY DEF ReaderStates
<1>a. /\ reader[x] = "opened"
      /\ UNCHANGED <<row, refs, file, lockFile, exclusive, writer, child, readerOf,
                     cleaner, target, faults>>
  BY DEF ShareLock, rowVars, writerVars, cleanerVars
<1>b. q \in Results /\ x \in Sharers
  BY <1>a DEF SharersHold, Sharers
<1>c. \/ CanShare(q) /\ Share(q, x) /\ ReaderGoes(x, "sharing")
      \/ ReaderGoes(x, "closed") /\ UNCHANGED shared
  BY DEF ShareLock
<1> HIDE DEF q
<1>d. /\ shared' \in [Results -> SUBSET Sharers]
      /\ \A p \in Results : shared[p] \subseteq shared'[p]
      /\ \A p \in Results : exclusive[p] # Nobody => shared'[p] = shared[p]
  <2>1. CASE CanShare(q) /\ Share(q, x)
    <3>1. shared \in [Results -> SUBSET Sharers]
      BY DEF TypeOK
    <3>2. shared' = [shared EXCEPT ![q] = shared[q] \cup {x}] /\ exclusive[q] = Nobody
      BY <2>1 DEF Share, CanShare
    <3>3. shared[q] \cup {x} \in SUBSET Sharers
      BY <1>b, <3>1
    <3> QED
      BY <1>b, <3>1, <3>2, <3>3
  <2>2. CASE UNCHANGED shared
    BY <2>2 DEF TypeOK
  <2> QED
    BY <1>c, <2>1, <2>2
<1>e. /\ reader' \in [Readers -> ReaderStates]
      /\ \A y \in Readers \ {x} : reader'[y] = reader[y]
      /\ \/ reader'[x] = "sharing" /\ x \in shared'[q]
         \/ reader'[x] = "closed"
  <2>1. CASE Share(q, x) /\ ReaderGoes(x, "sharing")
    <3>1. x \in shared'[q]
      BY <1>b, <2>1 DEF Share, TypeOK
    <3> QED
      BY <1>0, <2>1, <3>1, ReaderGoesSets
  <2>2. CASE ReaderGoes(x, "closed")
    BY <1>0, <2>2, ReaderGoesSets
  <2> QED
    BY <1>c, <2>1, <2>2
<1>1. TypeOK'
  BY <1>a, <1>d, <1>e DEF TypeOK, ReaderStates
<1>2. LockExcludes'
  BY <1>a, <1>d DEF LockExcludes
<1>3. SharersHold'
  <2>1. ASSUME NEW y \in Readers
        PROVE  /\ reader'[y] # "idle" => readerOf[y] \in Results
               /\ reader'[y] \in Guarded => y \in shared'[readerOf[y]]
    <3>1. CASE y = x
      BY <1>b, <1>e, <3>1 DEF Guarded, q
    <3>2. CASE y # x
      BY <1>d, <1>e, <3>2 DEF SharersHold, Guarded
    <3> QED
      BY <3>1, <3>2
  <2> QED
    BY <1>a, <1>d, <2>1 DEF SharersHold
<1>4. Reconcilers'
  BY <1>a DEF Reconcilers
<1>5. WriterFollows'
  BY <1>a DEF WriterFollows, State, HasWriter
<1>6. OwnedHasBytes'
  BY <1>a DEF OwnedHasBytes, State
<1>7. ReaderKeepsFile'
  BY <1>a, <1>e DEF ReaderKeepsFile, State
<1>8. LiveChildKeepsRow'
  BY <1>a DEF LiveChildKeepsRow, State, HasWriter
<1>9. NoOrphanBytes'
  BY <1>a DEF NoOrphanBytes, State
<1> QED
  BY <1>1, <1>2, <1>3, <1>4, <1>5, <1>6, <1>7, <1>8, <1>9

LEMMA AcquireReadPreserves ==
    ASSUME ResultInv, NEW x \in Readers, AcquireRead(x)
    PROVE  ResultInv'
<1> USE DistinctAssumption, FaultAssumption DEF ResultInv
<1> DEFINE q == readerOf[x]
<1>0. TypeOK /\ {"sharing", "reading", "closing", "closed"} \subseteq ReaderStates
  BY DEF ReaderStates
<1>a. /\ reader[x] = "sharing"
      /\ UNCHANGED <<row, file, lockFile, shared, exclusive, writer, child, readerOf,
                     cleaner, target>>
  BY DEF AcquireRead, lockVars, writerVars, cleanerVars
<1>b. q \in Results /\ x \notin Durable
  <2>1. x \notin Durable
    BY ReadersDiffer
  <2>2. q \in Results
    BY <1>a DEF SharersHold
  <2> QED
    BY <2>1, <2>2
<1>c. \/ CanRead(q) /\ AddRef(q, x) /\ ReaderGoes(x, "reading") /\ UNCHANGED faults
      \/ CanRead(q) /\ AddRef(q, x) /\ ReaderGoes(x, "closing") /\ Fault
      \/ ReaderGoes(x, "closing") /\ UNCHANGED <<refs, faults>>
  BY DEF AcquireRead
<1> HIDE DEF q
<1>d. /\ refs' \in [Results -> SUBSET (Durable \cup Readers)]
      /\ \/ refs' = refs
         \/ /\ State(q) = "ready"
            /\ refs'[q] = refs[q] \cup {x}
            /\ \A p \in Results \ {q} : refs'[p] = refs[p]
  <2>1. CASE CanRead(q) /\ AddRef(q, x)
    BY <1>b, <2>1, AddRefSets DEF CanRead
  <2>2. CASE UNCHANGED refs
    BY <2>2 DEF TypeOK
  <2> QED
    BY <1>c, <2>1, <2>2
<1>e. /\ reader' \in [Readers -> ReaderStates]
      /\ \A y \in Readers \ {x} : reader'[y] = reader[y]
      /\ \/ reader'[x] = "reading" /\ State(q) = "ready" /\ x \in refs'[q]
         \/ reader'[x] = "closing"
  <2>1. CASE CanRead(q) /\ AddRef(q, x) /\ ReaderGoes(x, "reading")
    <3>1. x \in refs'[q]
      BY <1>b, <2>1, AddRefSets
    <3> QED
      BY <2>1, <3>1, <1>0, ReaderGoesSets DEF CanRead
  <2>2. CASE ReaderGoes(x, "closing")
    BY <2>2, <1>0, ReaderGoesSets
  <2> QED
    BY <1>c, <2>1, <2>2
<1>f. faults' \in 0 .. MaxFaults
  <2>1. faults' = faults \/ Fault
    BY <1>c
  <2> QED
    BY <2>1 DEF Fault, TypeOK
<1>g. \A p \in Results : refs'[p] \cap Durable = refs[p] \cap Durable
  BY <1>b, <1>d
<1>1. TypeOK'
  BY <1>a, <1>d, <1>e, <1>f DEF TypeOK, ReaderStates
<1>2. LockExcludes'
  BY <1>a DEF LockExcludes
<1>3. SharersHold'
  <2>1. reader[x] \in Guarded
    BY <1>a DEF Guarded
  <2> QED
    BY <1>a, <1>e, <2>1 DEF SharersHold
<1>4. Reconcilers'
  BY <1>a DEF Reconcilers
<1>5. WriterFollows'
  BY <1>a, <1>d DEF WriterFollows, State, HasWriter, NoRow
<1>6. OwnedHasBytes'
  BY <1>a, <1>g DEF OwnedHasBytes, State
<1>7. ReaderKeepsFile'
  <2>1. \A p \in Results : refs[p] \subseteq refs'[p]
    BY <1>d
  <2>2. \A y \in Readers : reader[y] = "reading" => readerOf[y] \in Results
    BY DEF SharersHold
  <2> QED
    BY <1>a, <1>b, <1>e, <2>1, <2>2 DEF ReaderKeepsFile, WriterFollows, State, q
<1>8. LiveChildKeepsRow'
  BY <1>a DEF LiveChildKeepsRow, State, HasWriter
<1>9. NoOrphanBytes'
  BY <1>a DEF NoOrphanBytes, State
<1> QED
  BY <1>1, <1>2, <1>3, <1>4, <1>5, <1>6, <1>7, <1>8, <1>9

LEMMA StopReadingPreserves ==
    ASSUME ResultInv, NEW x \in Readers, StopReading(x)
    PROVE  ResultInv'
<1> USE DistinctAssumption, FaultAssumption DEF ResultInv, StopReading, CleanerGoes,
                                                ReaderGoes, cleanerVars, lockVars,
                                                rowVars, writerVars
<1>1. TypeOK'
  BY DEF TypeOK, Durable, Sharers, Deleters, NoRow
<1>2. LockExcludes'
  BY DEF LockExcludes, TypeOK
<1>3. SharersHold'
  BY DEF SharersHold, Fenced, Guarded, TypeOK
<1>4. Reconcilers'
  BY DEF Reconcilers, Deleters, TypeOK
<1>5. WriterFollows'
  BY DEF WriterFollows, State, HasWriter, NoRow, TypeOK
<1>6. OwnedHasBytes'
  BY DEF OwnedHasBytes, State, Durable, TypeOK
<1>7. ReaderKeepsFile'
  BY DEF ReaderKeepsFile, State, TypeOK
<1>8. LiveChildKeepsRow'
  BY DEF LiveChildKeepsRow, State, HasWriter, TypeOK
<1>9. NoOrphanBytes'
  BY DEF NoOrphanBytes, State, TypeOK
<1> QED
  BY <1>1, <1>2, <1>3, <1>4, <1>5, <1>6, <1>7, <1>8, <1>9

LEMMA CloseReadPreserves ==
    ASSUME ResultInv, NEW x \in Readers, CloseRead(x)
    PROVE  ResultInv'
<1> USE DistinctAssumption, FaultAssumption DEF ResultInv
<1> DEFINE q == readerOf[x]
<1>0. TypeOK /\ {"sharing", "reading", "closing", "closed"} \subseteq ReaderStates
  BY DEF ReaderStates
<1>a. /\ reader[x] = "closing"
      /\ UNCHANGED <<row, file, lockFile, exclusive, writer, child, readerOf, cleaner,
                     target>>
  BY DEF CloseRead, writerVars, cleanerVars
<1>b. q \in Results /\ x \notin Durable /\ x \notin {Writer, Child}
  <2>1. x \notin Durable /\ x \notin {Writer, Child}
    BY ReadersDiffer
  <2>2. q \in Results
    BY <1>a DEF SharersHold
  <2> QED
    BY <2>1, <2>2
<1>c. /\ DropRefs(q, {x})
      /\ \/ Unshare(q, x) /\ ReaderGoes(x, "closed") /\ UNCHANGED faults
         \/ Fault /\ UNCHANGED <<shared, reader>>
  BY DEF CloseRead
<1> HIDE DEF q
<1>d. /\ refs' \in [Results -> SUBSET (Durable \cup Readers)]
      /\ refs'[q] = refs[q] \ {x}
      /\ \A p \in Results \ {q} : refs'[p] = refs[p]
  BY <1>b, <1>c, DropRefsSets
<1>e. /\ shared' \in [Results -> SUBSET Sharers]
      /\ \A p \in Results : shared'[p] \subseteq shared[p]
      /\ \A p \in Results : \A y \in shared[p] : y # x => y \in shared'[p]
  <2>1. CASE Unshare(q, x)
    BY <1>b, <2>1, UnshareSets
  <2>2. CASE UNCHANGED shared
    BY <2>2 DEF TypeOK
  <2> QED
    BY <1>c, <2>1, <2>2
<1>f. /\ reader' \in [Readers -> ReaderStates]
      /\ \A y \in Readers \ {x} : reader'[y] = reader[y]
      /\ \/ reader'[x] = "closed"
         \/ reader'[x] = "closing" /\ shared' = shared
  <2>1. CASE ReaderGoes(x, "closed")
    BY <1>0, <2>1, ReaderGoesSets
  <2>2. CASE UNCHANGED <<shared, reader>>
    BY <1>a, <2>2 DEF TypeOK, ReaderStates
  <2> QED
    BY <1>c, <2>1, <2>2
<1>g. faults' \in 0 .. MaxFaults
  <2>1. faults' = faults \/ Fault
    BY <1>c
  <2> QED
    BY <2>1 DEF Fault, TypeOK
<1>h. \A p \in Results : refs'[p] \subseteq refs[p] /\ refs[p] \ {x} \subseteq refs'[p]
  BY <1>d
<1>1. TypeOK'
  BY <1>a, <1>d, <1>e, <1>f, <1>g DEF TypeOK, ReaderStates
<1>2. LockExcludes'
  <2>1. \A p \in Results : shared[p] = {} => shared'[p] = {}
    BY <1>e
  <2> QED
    BY <1>a, <2>1 DEF LockExcludes
<1>3. SharersHold'
  <2>1. ASSUME NEW p \in Results
        PROVE  /\ writer[p] \in Fenced => Writer \in shared'[p]
               /\ child[p] = "running" => Child \in shared'[p]
    BY <1>b, <1>e DEF SharersHold
  <2>2. ASSUME NEW y \in Readers, y # x
        PROVE  /\ reader'[y] # "idle" => readerOf[y] \in Results
               /\ reader'[y] \in Guarded => y \in shared'[readerOf[y]]
    BY <1>e, <1>f, <2>2 DEF SharersHold, Guarded
  <2>3. /\ reader'[x] # "idle" => readerOf[x] \in Results
        /\ reader'[x] \in Guarded => x \in shared'[readerOf[x]]
    BY <1>a, <1>b, <1>f DEF SharersHold, Guarded, q
  <2> QED
    BY <1>a, <2>1, <2>2, <2>3 DEF SharersHold
<1>4. Reconcilers'
  BY <1>a DEF Reconcilers
<1>5. WriterFollows'
  <2>1. \A p \in Results : refs[p] = {} => refs'[p] = {}
    BY <1>h
  <2> QED
    BY <1>a, <2>1 DEF WriterFollows, State, HasWriter
<1>6. OwnedHasBytes'
  BY <1>a, <1>h DEF OwnedHasBytes, State
<1>7. ReaderKeepsFile'
  BY <1>a, <1>b, <1>f, <1>h DEF ReaderKeepsFile, SharersHold, State
<1>8. LiveChildKeepsRow'
  BY <1>a DEF LiveChildKeepsRow, State, HasWriter
<1>9. NoOrphanBytes'
  BY <1>a DEF NoOrphanBytes, State
<1> QED
  BY <1>1, <1>2, <1>3, <1>4, <1>5, <1>6, <1>7, <1>8, <1>9

LEMMA PickSuspectPreserves ==
    ASSUME ResultInv, NEW c \in Cleaners, NEW r \in Results, PickSuspect(c, r)
    PROVE  ResultInv'
<1> USE DistinctAssumption, FaultAssumption DEF ResultInv, PickSuspect, CleanerGoes,
                                                HasWriter, State, lockVars, readerVars,
                                                rowVars, writerVars
<1>1. TypeOK'
  BY DEF TypeOK, Durable, Sharers, Deleters, NoRow
<1>2. LockExcludes'
  BY DEF LockExcludes, TypeOK
<1>3. SharersHold'
  BY DEF SharersHold, Fenced, Guarded, TypeOK
<1>4. Reconcilers'
  BY DEF Reconcilers, Deleters, TypeOK
<1>5. WriterFollows'
  BY DEF WriterFollows, NoRow, TypeOK
<1>6. OwnedHasBytes'
  BY DEF OwnedHasBytes, Durable, TypeOK
<1>7. ReaderKeepsFile'
  BY DEF ReaderKeepsFile, TypeOK
<1>8. LiveChildKeepsRow'
  BY DEF LiveChildKeepsRow, TypeOK
<1>9. NoOrphanBytes'
  BY DEF NoOrphanBytes, TypeOK
<1> QED
  BY <1>1, <1>2, <1>3, <1>4, <1>5, <1>6, <1>7, <1>8, <1>9

LEMMA ExcludeSuspectPreserves ==
    ASSUME ResultInv, NEW c \in Cleaners, ExcludeSuspect(c)
    PROVE  ResultInv'
<1> USE DistinctAssumption, FaultAssumption DEF ResultInv, ExcludeSuspect, CanExclude,
                                                CleanerGoes, CleanerRests, Share,
                                                Unshare, readerVars, rowVars, writerVars
<1>1. TypeOK'
  <2>1. exclusive' \in [Results -> Deleters \cup {Nobody}]
    BY DEF TypeOK, Durable, Sharers, Deleters, NoRow
  <2>2. /\ cleaner' \in [Deleters -> CleanerStates]
        /\ target' \in [Deleters -> Results \cup {Nobody}]
        /\ \A e \in Deleters : cleaner'[e] = "idle" <=> target'[e] = Nobody
    <3>1. c \in Deleters
      BY DEF Deleters
    <3>2. CASE CleanerRests(c)
      BY <3>1, <3>2, RestsOK DEF ResultInv
    <3>3. CASE CleanerGoes(c, "reconcile") /\ UNCHANGED target
      <4>1. cleaner' = [cleaner EXCEPT ![c] = "reconcile"] /\ target' = target
        BY <3>3 DEF CleanerGoes
      <4>2. cleaner' \in [Deleters -> CleanerStates]
        BY <3>1, <4>1 DEF TypeOK, CleanerStates
      <4> QED
        BY <3>1, <4>1, <4>2 DEF TypeOK
    <3> QED
      BY <3>2, <3>3
  <2> QED
    BY <2>1, <2>2 DEF TypeOK, CleanerStates
<1>2. LockExcludes'
  BY DEF LockExcludes, TypeOK
<1>3. SharersHold'
  BY DEF SharersHold, Fenced, Guarded, TypeOK
<1>4. Reconcilers'
  BY DEF Reconcilers, Deleters, TypeOK
<1>5. WriterFollows'
  BY DEF WriterFollows, State, HasWriter, NoRow, TypeOK
<1>6. OwnedHasBytes'
  BY DEF OwnedHasBytes, State, Durable, TypeOK
<1>7. ReaderKeepsFile'
  BY DEF ReaderKeepsFile, State, TypeOK
<1>8. LiveChildKeepsRow'
  BY DEF LiveChildKeepsRow, State, HasWriter, TypeOK
<1>9. NoOrphanBytes'
  BY DEF NoOrphanBytes, State, TypeOK
<1> QED
  BY <1>1, <1>2, <1>3, <1>4, <1>5, <1>6, <1>7, <1>8, <1>9

LEMMA LockForDeletePreserves ==
    ASSUME ResultInv, NEW d \in Deleters, LockForDelete(d)
    PROVE  ResultInv'
<1> USE DistinctAssumption, FaultAssumption DEF ResultInv, LockForDelete, CanExclude,
                                                CleanerGoes, CleanerRests, Share,
                                                Unshare, readerVars, rowVars, writerVars
<1>1. TypeOK'
  <2>1. exclusive' \in [Results -> Deleters \cup {Nobody}]
    BY DEF TypeOK, Durable, Sharers, Deleters, NoRow
  <2>2. /\ cleaner' \in [Deleters -> CleanerStates]
        /\ target' \in [Deleters -> Results \cup {Nobody}]
        /\ \A e \in Deleters : cleaner'[e] = "idle" <=> target'[e] = Nobody
    <3>1. d \in Deleters
      BY DEF Deleters
    <3>2. CASE CleanerRests(d)
      BY <3>1, <3>2, RestsOK DEF ResultInv
    <3>3. CASE CleanerGoes(d, "unlink") /\ UNCHANGED target
      <4>1. cleaner' = [cleaner EXCEPT ![d] = "unlink"] /\ target' = target
        BY <3>3 DEF CleanerGoes
      <4>2. cleaner' \in [Deleters -> CleanerStates]
        BY <3>1, <4>1 DEF TypeOK, CleanerStates
      <4> QED
        BY <3>1, <4>1, <4>2 DEF TypeOK
    <3> QED
      BY <3>2, <3>3
  <2> QED
    BY <2>1, <2>2 DEF TypeOK, CleanerStates
<1>2. LockExcludes'
  BY DEF LockExcludes, TypeOK
<1>3. SharersHold'
  BY DEF SharersHold, Fenced, Guarded, TypeOK
<1>4. Reconcilers'
  BY DEF Reconcilers, Deleters, TypeOK
<1>5. WriterFollows'
  BY DEF WriterFollows, State, HasWriter, NoRow, TypeOK
<1>6. OwnedHasBytes'
  BY DEF OwnedHasBytes, State, Durable, TypeOK
<1>7. ReaderKeepsFile'
  BY DEF ReaderKeepsFile, State, TypeOK
<1>8. LiveChildKeepsRow'
  BY DEF LiveChildKeepsRow, State, HasWriter, TypeOK
<1>9. NoOrphanBytes'
  BY DEF NoOrphanBytes, State, TypeOK
<1> QED
  BY <1>1, <1>2, <1>3, <1>4, <1>5, <1>6, <1>7, <1>8, <1>9

LEMMA UnlinkLockPreserves ==
    ASSUME ResultInv, NEW d \in Deleters, UnlinkLock(d)
    PROVE  ResultInv'
<1> USE DistinctAssumption, FaultAssumption DEF ResultInv, UnlinkLock, CleanerGoes,
                                                CleanerRests, Unexclude, readerVars,
                                                rowVars, writerVars
<1>1. TypeOK'
  BY DEF TypeOK, Durable, Sharers, Deleters, NoRow
<1>2. LockExcludes'
  BY DEF LockExcludes, TypeOK
<1>3. SharersHold'
  BY DEF SharersHold, Fenced, Guarded, TypeOK
<1>4. Reconcilers'
  BY DEF Reconcilers, Deleters, TypeOK
<1>5. WriterFollows'
  BY DEF WriterFollows, State, HasWriter, NoRow, TypeOK
<1>6. OwnedHasBytes'
  BY DEF OwnedHasBytes, State, Durable, TypeOK
<1>7. ReaderKeepsFile'
  BY DEF ReaderKeepsFile, State, TypeOK
<1>8. LiveChildKeepsRow'
  BY DEF LiveChildKeepsRow, State, HasWriter, TypeOK
<1>9. NoOrphanBytes'
  BY DEF NoOrphanBytes, State, TypeOK
<1> QED
  BY <1>1, <1>2, <1>3, <1>4, <1>5, <1>6, <1>7, <1>8, <1>9

LEMMA ExcludeForSweepPreserves ==
    ASSUME ResultInv, NEW c \in Cleaners, NEW r \in Results, ExcludeForSweep(c, r)
    PROVE  ResultInv'
<1> USE DistinctAssumption, FaultAssumption DEF ResultInv, ExcludeForSweep, CanExclude,
                                                CleanerGoes, Share, Unshare, readerVars,
                                                rowVars, writerVars
<1>1. TypeOK'
  BY DEF TypeOK, Durable, Sharers, Deleters, NoRow
<1>2. LockExcludes'
  BY DEF LockExcludes, TypeOK
<1>3. SharersHold'
  BY DEF SharersHold, Fenced, Guarded, TypeOK
<1>4. Reconcilers'
  BY DEF Reconcilers, Deleters, TypeOK
<1>5. WriterFollows'
  BY DEF WriterFollows, State, HasWriter, NoRow, TypeOK
<1>6. OwnedHasBytes'
  BY DEF OwnedHasBytes, State, Durable, TypeOK
<1>7. ReaderKeepsFile'
  BY DEF ReaderKeepsFile, State, TypeOK
<1>8. LiveChildKeepsRow'
  BY DEF LiveChildKeepsRow, State, HasWriter, TypeOK
<1>9. NoOrphanBytes'
  BY DEF NoOrphanBytes, State, TypeOK
<1> QED
  BY <1>1, <1>2, <1>3, <1>4, <1>5, <1>6, <1>7, <1>8, <1>9

LEMMA SweepLockPreserves ==
    ASSUME ResultInv, NEW c \in Cleaners, SweepLock(c)
    PROVE  ResultInv'
<1> USE DistinctAssumption, FaultAssumption DEF ResultInv, SweepLock, CleanerGoes,
                                                CleanerRests, HasWriter, IsOrphanLock,
                                                State, Unexclude, readerVars, rowVars,
                                                writerVars
<1>1. TypeOK'
  BY DEF TypeOK, Durable, Sharers, Deleters, NoRow
<1>2. LockExcludes'
  BY DEF LockExcludes, TypeOK
<1>3. SharersHold'
  BY DEF SharersHold, Fenced, Guarded, TypeOK
<1>4. Reconcilers'
  BY DEF Reconcilers, Deleters, TypeOK
<1>5. WriterFollows'
  BY DEF WriterFollows, NoRow, TypeOK
<1>6. OwnedHasBytes'
  BY DEF OwnedHasBytes, Durable, TypeOK
<1>7. ReaderKeepsFile'
  BY DEF ReaderKeepsFile, TypeOK
<1>8. LiveChildKeepsRow'
  BY DEF LiveChildKeepsRow, TypeOK
<1>9. NoOrphanBytes'
  BY DEF NoOrphanBytes, TypeOK
<1> QED
  BY <1>1, <1>2, <1>3, <1>4, <1>5, <1>6, <1>7, <1>8, <1>9

LEMMA CrashPreserves ==
    ASSUME ResultInv, NEW p \in Processes, Crash(p)
    PROVE  ResultInv'
<1> USE DistinctAssumption, FaultAssumption DEF ResultInv, Crash, Fault, rowVars
<1>1. TypeOK'
  BY DEF TypeOK, Durable, Sharers, Deleters, NoRow
<1>2. LockExcludes'
  BY DEF LockExcludes, TypeOK
<1>3. SharersHold'
  BY DEF SharersHold, Fenced, Guarded, TypeOK
<1>4. Reconcilers'
  BY DEF Reconcilers, Deleters, TypeOK
<1>5. WriterFollows'
  BY DEF WriterFollows, State, HasWriter, NoRow, TypeOK
<1>6. OwnedHasBytes'
  BY DEF OwnedHasBytes, State, Durable, TypeOK
<1>7. ReaderKeepsFile'
  BY DEF ReaderKeepsFile, State, TypeOK
<1>8. LiveChildKeepsRow'
  BY DEF LiveChildKeepsRow, State, HasWriter, TypeOK
<1>9. NoOrphanBytes'
  BY DEF NoOrphanBytes, State, TypeOK
<1> QED
  BY <1>1, <1>2, <1>3, <1>4, <1>5, <1>6, <1>7, <1>8, <1>9

LEMMA StutterPreserves == ASSUME ResultInv, UNCHANGED vars PROVE ResultInv'
BY DEF ResultInv, vars, rowVars, lockVars, writerVars, readerVars, cleanerVars, TypeOK,
       LockExcludes, SharersHold, Reconcilers, WriterFollows, OwnedHasBytes,
       ReaderKeepsFile, LiveChildKeepsRow, NoOrphanBytes, State, HasWriter

LEMMA InitEstablishes == Init => ResultInv
<1> SUFFICES ASSUME Init PROVE ResultInv
  OBVIOUS
<1> USE DistinctAssumption, FaultAssumption DEF Init, NoRow
<1>1. TypeOK
  BY DEF TypeOK
<1>2. LockExcludes /\ SharersHold /\ WriterFollows
  BY DEF LockExcludes, SharersHold, WriterFollows, Fenced, Guarded, State, HasWriter
<1>3. Reconcilers
  BY DEF Reconcilers, Deleters
<1>4. OwnedHasBytes /\ ReaderKeepsFile /\ LiveChildKeepsRow /\ NoOrphanBytes
  BY DEF OwnedHasBytes, ReaderKeepsFile, LiveChildKeepsRow, NoOrphanBytes, State
<1> QED
  BY <1>1, <1>2, <1>3, <1>4 DEF ResultInv

LEMMA NextPreserves == ASSUME ResultInv, [Next]_vars PROVE ResultInv'
<1>1. ASSUME NEW r \in Results, WriterStep(r) \/ ChildWrites(r) \/ ChildExits(r)
      PROVE  ResultInv'
  BY <1>1, CreateLockPreserves, FenceLockPreserves, BeginPreserves, StartChildPreserves,
     CommitPreserves, PublishPreserves, ReleasePreserves, AbortPreserves,
     ChildWritesPreserves, ChildExitsPreserves DEF WriterStep
<1>2. ASSUME NEW r \in Results, NEW o \in Durable,
             \/ o \in Owners /\ Own(o, r)
             \/ Disown(o, r)
      PROVE  ResultInv'
  BY <1>2, OwnPreserves, DisownPreserves
<1>3. ASSUME NEW x \in Readers, ReaderStep(x) \/ \E r \in Results : OpenLock(x, r)
      PROVE  ResultInv'
  BY <1>3, ShareLockPreserves, AcquireReadPreserves, StopReadingPreserves,
     CloseReadPreserves, OpenLockPreserves DEF ReaderStep
<1>4. ASSUME NEW d \in Deleters, DeleterStep(d) PROVE ResultInv'
  BY <1>4, LockForDeletePreserves, DeleteRowPreserves, UnlinkLockPreserves DEF
        DeleterStep
<1>5. ASSUME NEW c \in Cleaners, CleanerStep(c) PROVE ResultInv'
  BY <1>5, ExcludeSuspectPreserves, ReconcileDeadPreserves, SweepLockPreserves DEF
        CleanerStep
<1>6. ASSUME NEW c \in Cleaners, NEW r \in Results,
             PickSuspect(c, r) \/ ClaimReclaim(c, r) \/ ExcludeForSweep(c, r)
      PROVE  ResultInv'
  BY <1>6, PickSuspectPreserves, ClaimReclaimPreserves, ExcludeForSweepPreserves
<1>7. ASSUME NEW p \in Processes, Crash(p) PROVE ResultInv'
  BY <1>7, CrashPreserves
<1> QED
  BY <1>1, <1>2, <1>3, <1>4, <1>5, <1>6, <1>7, StutterPreserves DEF Next, Durable

-----------------------------------------------------------------------------
(* What no step may do to a result.                                        *)

\* The changes of a row's state that happen, and the writers whose row is
\* still to come.
Order == {<<"none", "writing">>, <<"writing", "ready">>, <<"writing", "deleting">>,
          <<"ready", "deleting">>, <<"deleting", "none">>}
Unborn == {"idle", "created", "fenced"}

\* A result lives once: its row goes forward only, from nothing it comes only
\* by the begin of its own writer, which is past for good when it is past;
\* bytes are unlinked only when the row says so and nobody refers to it, and
\* what gains a reference is ready before and after the step.
Forward(r) ==
    /\ State(r)' # State(r) => <<State(r), State(r)'>> \in Order
    /\ State(r) = "none" /\ State(r)' = "writing" => writer[r] \in Unborn
    /\ writer[r] \notin Unborn => writer'[r] \notin Unborn
    /\ file[r] /\ ~file'[r] => State(r) = "deleting" /\ refs[r] = {}
    /\ ~(refs'[r] \subseteq refs[r]) => State(r) = "ready" /\ State(r)' = "ready"

\* A row that is gone is gone with its writer pair.
NoneIsNoRow == \A r \in Results : State(r) = "none" => row[r] = NoRow

\* WriterGoes(q, pc) moves one writer; past its begin it does not come back.
LEMMA WriterGoesForward ==
    ASSUME TypeOK, NEW q \in Results, NEW pc \in WriterStates, WriterGoes(q, pc),
           writer[q] \notin Unborn => pc \notin Unborn,
           NEW r \in Results, writer[r] \notin Unborn
    PROVE  writer'[r] \notin Unborn
<1>1. writer \in [Results -> WriterStates]
  BY DEF TypeOK, WriterStates
<1>2. writer' = [writer EXCEPT ![q] = pc]
  BY DEF WriterGoes
<1>3. CASE r = q
  BY <1>1, <1>2, <1>3
<1>4. CASE r # q
  BY <1>1, <1>2, <1>4
<1> QED
  BY <1>3, <1>4

\* A step that leaves the rows and the bytes alone.
LEMMA QuietForward ==
    ASSUME NEW r \in Results, UNCHANGED <<row, refs, file>>,
           writer[r] \notin Unborn => writer'[r] \notin Unborn
    PROVE  Forward(r)
<1>1. State(r)' = State(r) /\ refs'[r] = refs[r] /\ file'[r] = file[r]
  BY DEF State
<1> QED
  BY <1>1 DEF Forward

\* A step of the writer of q.
LEMMA WriterStepForward ==
    ASSUME ResultInv, NoneIsNoRow, NEW q \in Results, WriterStep(q), NEW r \in Results
    PROVE  Forward(r)
<1> USE DEF ResultInv, Unborn
<1>1. TypeOK
  OBVIOUS
<1>2. CASE CreateLock(q) \/ FenceLock(q) \/ StartChild(q) \/ Release(q)
  <2>1. UNCHANGED <<row, refs, file>>
    BY <1>2 DEF CreateLock, FenceLock, StartChild, Release, rowVars
  <2>2. PICK pc \in WriterStates : WriterGoes(q, pc) /\ (writer[q] \notin Unborn => pc \notin Unborn)
    BY <1>2 DEF CreateLock, FenceLock, StartChild, Release, WriterStates
  <2>3. writer[r] \notin Unborn => writer'[r] \notin Unborn
    BY <1>1, <2>2, WriterGoesForward
  <2> QED
    BY <2>1, <2>3, QuietForward
<1>3. CASE Begin(q)
  <2>1. PICK pc \in {"begun", "aborting"} : WriterGoes(q, pc)
    BY <1>3 DEF Begin
  <2>2. writer[r] \notin Unborn => writer'[r] \notin Unborn
    BY <1>1, <2>1, WriterGoesForward DEF WriterStates
  <2>3. writer[q] \in Unborn /\ State(q) = "none" /\ UNCHANGED <<refs, file>>
    BY <1>3 DEF Begin, WriterFollows, NoRow, State
  <2>4. CASE SetRow(q, "writing", TRUE)
    <3>1. State(q)' = "writing" /\ \A p \in Results \ {q} : State(p)' = State(p)
      BY <1>1, <2>4, SetRowSets DEF RowStates, State
    <3>2. CASE r = q
      BY <2>2, <2>3, <3>1, <3>2 DEF Forward, Order
    <3>3. CASE r # q
      BY <2>2, <2>3, <3>1, <3>3 DEF Forward
    <3> QED
      BY <3>2, <3>3
  <2>5. CASE UNCHANGED row
    BY <2>2, <2>3, <2>5, QuietForward
  <2> QED
    BY <1>3, <2>4, <2>5 DEF Begin
<1>4. CASE Commit(q)
  <2>1. PICK pc \in {"committed", "aborting"} : WriterGoes(q, pc)
    BY <1>4 DEF Commit
  <2>2. writer[r] \notin Unborn => writer'[r] \notin Unborn
    BY <1>1, <2>1, WriterGoesForward DEF WriterStates
  <2>3. UNCHANGED <<refs, file>>
    BY <1>4 DEF Commit
  <2>4. CASE State(q) = "writing" /\ SetRow(q, "ready", TRUE)
    <3>1. State(q)' = "ready" /\ \A p \in Results \ {q} : State(p)' = State(p)
      BY <1>1, <2>4, SetRowSets DEF RowStates, State
    <3>2. CASE r = q
      BY <2>2, <2>3, <2>4, <3>1, <3>2 DEF Forward, Order
    <3>3. CASE r # q
      BY <2>2, <2>3, <3>1, <3>3 DEF Forward
    <3> QED
      BY <3>2, <3>3
  <2>5. CASE UNCHANGED row
    BY <2>2, <2>3, <2>5, QuietForward
  <2> QED
    BY <1>4, <2>4, <2>5 DEF Commit, CanCommit
<1>5. CASE Publish(q)
  <2>1. PICK pc \in {"published", "aborting"} : WriterGoes(q, pc)
    BY <1>5 DEF Publish
  <2>2. writer[r] \notin Unborn => writer'[r] \notin Unborn
    BY <1>1, <2>1, WriterGoesForward DEF WriterStates
  <2>3. UNCHANGED file
    BY <1>5 DEF Publish
  <2>4. CASE State(q) = "ready" /\ SetRow(q, "ready", FALSE) /\ AddRef(q, RunState)
    <3>1. State(q)' = State(q) /\ \A p \in Results \ {q} : State(p)' = State(p)
      BY <1>1, <2>4, SetRowSets DEF RowStates, State
    <3>2. \A p \in Results \ {q} : refs'[p] = refs[p]
      BY <1>1, <2>4, AddRefSets DEF Durable
    <3>3. CASE r = q
      BY <2>2, <2>3, <2>4, <3>1, <3>3 DEF Forward
    <3>4. CASE r # q
      BY <2>2, <2>3, <3>1, <3>2, <3>4 DEF Forward
    <3> QED
      BY <3>3, <3>4
  <2>5. CASE UNCHANGED rowVars
    BY <2>2, <2>3, <2>5, QuietForward DEF rowVars
  <2> QED
    BY <1>5, <2>4, <2>5 DEF Publish
<1>6. CASE Abort(q)
  <2>1. writer[r] \notin Unborn => writer'[r] \notin Unborn
    <3>1. CASE WriterGoes(q, "ended")
      BY <1>1, <3>1, WriterGoesForward DEF WriterStates
    <3>2. CASE UNCHANGED writer
      BY <3>2
    <3> QED
      BY <1>6, <3>1, <3>2 DEF Abort
  <2>2. UNCHANGED <<refs, file>>
    BY <1>6 DEF Abort
  <2>3. CASE Abandons(q) /\ SetRow(q, "deleting", TRUE)
    <3>1. State(q)' = "deleting" /\ \A p \in Results \ {q} : State(p)' = State(p)
      BY <1>1, <2>3, SetRowSets DEF RowStates, State
    <3>2. State(q) # "none"
      BY <2>3 DEF Abandons, HasWriter, NoRow, NoneIsNoRow
    <3>3. State(q) \in RowStates
      BY <1>1 DEF TypeOK, RowStates, State
    <3>4. CASE r = q
      BY <2>1, <2>2, <3>1, <3>2, <3>3, <3>4 DEF Forward, Order, RowStates
    <3>5. CASE r # q
      BY <2>1, <2>2, <3>1, <3>5 DEF Forward
    <3> QED
      BY <3>4, <3>5
  <2>4. CASE UNCHANGED row
    BY <2>1, <2>2, <2>4, QuietForward
  <2> QED
    BY <1>6, <2>3, <2>4 DEF Abort
<1> QED
  BY <1>2, <1>3, <1>4, <1>5, <1>6 DEF WriterStep

\* A step of a reader, of a durable owner or of a child.
LEMMA UserStepForward ==
    ASSUME ResultInv, NEW r \in Results, NEW q \in Results,
           \/ ChildWrites(q)
           \/ ChildExits(q)
           \/ \E o \in Owners : Own(o, q)
           \/ \E o \in Durable : Disown(o, q)
           \/ \E x \in Readers : OpenLock(x, q) \/ ReaderStep(x)
    PROVE  Forward(r)
<1>1. TypeOK
  BY DEF ResultInv
<1>2. CASE ChildWrites(q)
  <2>1. UNCHANGED <<row, refs, writer>> /\ file' = [file EXCEPT ![q] = TRUE]
    BY <1>2 DEF ChildWrites, rowVars, writerVars
  <2>2. file[r] => file'[r]
    BY <1>1, <2>1 DEF TypeOK
  <2> QED
    BY <2>1, <2>2 DEF Forward, State
<1>3. CASE ChildExits(q) \/ \E x \in Readers : OpenLock(x, q)
  <2>1. UNCHANGED <<row, refs, file, writer>>
    BY <1>3 DEF ChildExits, OpenLock, rowVars, writerVars
  <2> QED
    BY <2>1, QuietForward
<1>4. CASE \E o \in Owners : Own(o, q)
  <2>1. PICK o \in Owners : Own(o, q)
    BY <1>4
  <2>2. State(q) = "ready" /\ AddRef(q, o) /\ UNCHANGED <<row, file, writer>>
    BY <2>1 DEF Own, writerVars
  <2>3. \A p \in Results \ {q} : refs'[p] = refs[p]
    BY <1>1, <2>2, AddRefSets DEF Durable
  <2> QED
    BY <2>2, <2>3 DEF Forward, State
<1>5. CASE \E o \in Durable : Disown(o, q)
  <2>1. PICK o \in Durable : Disown(o, q)
    BY <1>5
  <2>2. DropRefs(q, {o}) /\ UNCHANGED <<row, file, writer>>
    BY <2>1 DEF Disown, writerVars
  <2>3. refs'[r] \subseteq refs[r]
    BY <1>1, <2>2, DropRefsSets
  <2> QED
    BY <2>2, <2>3 DEF Forward, State
<1>6. ASSUME NEW x \in Readers, ShareLock(x) \/ StopReading(x) PROVE Forward(r)
  <2>1. UNCHANGED <<row, refs, file, writer>>
    BY <1>6 DEF ShareLock, StopReading, rowVars, writerVars
  <2> QED
    BY <2>1, QuietForward
<1>7. ASSUME NEW x \in Readers, AcquireRead(x) \/ CloseRead(x) PROVE Forward(r)
  <2> DEFINE p == readerOf[x]
  <2>1. p \in Results
    BY <1>7 DEF ResultInv, SharersHold, AcquireRead, CloseRead
  <2>2. UNCHANGED <<row, file, writer>>
    BY <1>7 DEF AcquireRead, CloseRead, writerVars
  <2>3. \/ State(p) = "ready" /\ AddRef(p, x)
        \/ UNCHANGED refs
        \/ DropRefs(p, {x})
    BY <1>7 DEF AcquireRead, CloseRead, CanRead
  <2> HIDE DEF p
  <2>4. CASE State(p) = "ready" /\ AddRef(p, x)
    <3>1. \A t \in Results \ {p} : refs'[t] = refs[t]
      BY <1>1, <2>1, <2>4, AddRefSets
    <3> QED
      BY <2>2, <2>4, <3>1 DEF Forward, State
  <2>5. CASE UNCHANGED refs
    BY <2>2, <2>5, QuietForward
  <2>6. CASE DropRefs(p, {x})
    <3>1. refs'[r] \subseteq refs[r]
      BY <1>1, <2>1, <2>6, DropRefsSets
    <3> QED
      BY <2>2, <3>1 DEF Forward, State
  <2> QED
    BY <2>3, <2>4, <2>5, <2>6
<1> QED
  BY <1>2, <1>3, <1>4, <1>5, <1>6, <1>7 DEF ReaderStep

\* A step that works on the target of a deleter.
LEMMA DeleterStepForward ==
    ASSUME ResultInv, NEW r \in Results, NEW d \in Deleters, DeleterStep(d)
    PROVE  Forward(r)
<1>1. TypeOK
  BY DEF ResultInv
<1>2. CASE LockForDelete(d) \/ UnlinkLock(d)
  <2>1. UNCHANGED <<row, refs, file, writer>>
    BY <1>2 DEF LockForDelete, UnlinkLock, rowVars, writerVars
  <2> QED
    BY <2>1, QuietForward
<1>3. CASE DeleteRow(d)
  <2>1. PICK p \in Results : p = target[d]
    BY <1>1, <1>3 DEF DeleteRow, TypeOK
  <2>2. UNCHANGED <<refs, writer>>
    BY <1>3 DEF DeleteRow, writerVars
  <2>3. \/ /\ State(p) = "deleting" /\ refs[p] = {}
           /\ file' = [file EXCEPT ![p] = FALSE]
           /\ row' = [row EXCEPT ![p] = NoRow] \/ UNCHANGED row
        \/ UNCHANGED <<row, file>>
    BY <1>3, <2>1 DEF DeleteRow
  <2>4. CASE UNCHANGED <<row, file>>
    BY <2>2, <2>4, QuietForward
  <2>5. CASE /\ State(p) = "deleting" /\ refs[p] = {}
             /\ file' = [file EXCEPT ![p] = FALSE]
             /\ row' = [row EXCEPT ![p] = NoRow] \/ UNCHANGED row
    <3>1. r # p => row'[r] = row[r] /\ file'[r] = file[r]
      BY <1>1, <2>1, <2>5 DEF TypeOK
    <3>2. State(p)' \in {"none", "deleting"}
      <4>1. CASE row' = [row EXCEPT ![p] = NoRow]
        BY <1>1, <2>1, <4>1 DEF TypeOK, NoRow, State
      <4>2. CASE UNCHANGED row
        BY <2>5, <4>2 DEF State
      <4> QED
        BY <2>5, <4>1, <4>2
    <3>3. CASE r = p
      BY <2>2, <2>5, <3>2, <3>3 DEF Forward, Order
    <3>4. CASE r # p
      BY <2>2, <3>1, <3>4 DEF Forward, State
    <3> QED
      BY <3>3, <3>4
  <2> QED
    BY <2>3, <2>4, <2>5
<1> QED
  BY <1>2, <1>3 DEF DeleterStep

\* A step of a cleaner.
LEMMA CleanerStepForward ==
    ASSUME ResultInv, NEW r \in Results, NEW c \in Cleaners,
           \/ CleanerStep(c)
           \/ \E q \in Results :
                 PickSuspect(c, q) \/ ClaimReclaim(c, q) \/ ExcludeForSweep(c, q)
    PROVE  Forward(r)
<1>1. TypeOK
  BY DEF ResultInv
<1>2. CASE \/ ExcludeSuspect(c) \/ SweepLock(c)
           \/ \E q \in Results : PickSuspect(c, q) \/ ExcludeForSweep(c, q)
  <2>1. UNCHANGED <<row, refs, file, writer>>
    BY <1>2 DEF ExcludeSuspect, SweepLock, PickSuspect, ExcludeForSweep, rowVars, writerVars
  <2> QED
    BY <2>1, QuietForward
<1>3. CASE ReconcileDead(c)
  <2>1. PICK p \in Results : p = target[c]
    BY <1>1, <1>3 DEF ReconcileDead, TypeOK, Deleters
  <2>2. UNCHANGED <<file, writer>>
    BY <1>3 DEF ReconcileDead, writerVars
  <2>3. \/ /\ State(p) \in {"writing", "ready"}
           /\ SetRow(p, State(p), FALSE) /\ DropRefs(p, Readers)
        \/ UNCHANGED rowVars
    BY <1>3, <2>1 DEF ReconcileDead
  <2>4. CASE UNCHANGED rowVars
    BY <2>2, <2>4, QuietForward DEF rowVars
  <2>5. CASE /\ State(p) \in {"writing", "ready"}
             /\ SetRow(p, State(p), FALSE) /\ DropRefs(p, Readers)
    <3>1. State(p)' = State(p) /\ \A t \in Results \ {p} : row'[t] = row[t]
      BY <1>1, <2>1, <2>5, SetRowSets DEF RowStates
    <3>2. State(r)' = State(r)
      BY <3>1 DEF State
    <3>3. refs'[r] \subseteq refs[r]
      BY <1>1, <2>1, <2>5, DropRefsSets
    <3> QED
      BY <2>2, <3>2, <3>3 DEF Forward
  <2> QED
    BY <2>3, <2>4, <2>5
<1>4. ASSUME NEW q \in Results, ClaimReclaim(c, q) PROVE Forward(r)
  <2> DEFINE w == State(q) = "deleting" /\ HasWriter(q)
  <2>1. SetRow(q, "deleting", w) /\ UNCHANGED <<refs, file, writer>>
    BY <1>4 DEF ClaimReclaim, SetRow, writerVars
  <2>2. w \in BOOLEAN
    BY DEF w
  <2>3. State(q) \in {"writing", "ready", "deleting"}
    BY <1>4 DEF ClaimReclaim, Reclaimable
  <2> HIDE DEF w
  <2>4. State(q)' = "deleting" /\ \A t \in Results \ {q} : row'[t] = row[t]
    BY <1>1, <2>1, <2>2, SetRowSets DEF RowStates
  <2>5. CASE r = q
    BY <2>1, <2>3, <2>4, <2>5 DEF Forward, Order
  <2>6. CASE r # q
    BY <2>1, <2>4, <2>6 DEF Forward, State
  <2> QED
    BY <2>5, <2>6
<1> QED
  BY <1>2, <1>3, <1>4 DEF CleanerStep

\* A crash moves writers to their end only.
LEMMA CrashForward ==
    ASSUME NEW r \in Results, NEW p \in Processes, Crash(p)
    PROVE  Forward(r)
<1>1. UNCHANGED <<row, refs, file>>
  BY DEF Crash, rowVars
<1>2. writer'[r] \in {"ended", writer[r]}
  BY DEF Crash
<1> QED
  BY <1>1, <1>2, QuietForward DEF Unborn

LEMMA NextForward ==
    ASSUME ResultInv, NoneIsNoRow, [Next]_vars, NEW r \in Results
    PROVE  Forward(r)
<1>1. ASSUME NEW q \in Results, WriterStep(q) \/ ChildWrites(q) \/ ChildExits(q)
      PROVE  Forward(r)
  BY <1>1, WriterStepForward, UserStepForward
<1>2. ASSUME NEW q \in Results, NEW o \in Durable, (o \in Owners /\ Own(o, q)) \/ Disown(o, q)
      PROVE  Forward(r)
  BY <1>2, UserStepForward
<1>3. ASSUME NEW x \in Readers, ReaderStep(x) \/ \E q \in Results : OpenLock(x, q)
      PROVE  Forward(r)
  BY <1>3, UserStepForward
<1>4. ASSUME NEW d \in Deleters, DeleterStep(d) PROVE Forward(r)
  BY <1>4, DeleterStepForward
<1>5. ASSUME NEW c \in Cleaners,
             \/ CleanerStep(c)
             \/ \E q \in Results :
                   PickSuspect(c, q) \/ ClaimReclaim(c, q) \/ ExcludeForSweep(c, q)
      PROVE  Forward(r)
  BY <1>5, CleanerStepForward
<1>6. ASSUME NEW p \in Processes, Crash(p) PROVE Forward(r)
  BY <1>6, CrashForward
<1>7. CASE UNCHANGED vars
  <2>1. UNCHANGED <<row, refs, file, writer>>
    BY <1>7 DEF vars, rowVars, writerVars
  <2> QED
    BY <2>1, QuietForward
<1> QED
  BY <1>1, <1>2, <1>3, <1>4, <1>5, <1>6, <1>7 DEF Next, Durable

\* How one step may change the state of a row: as Forward says, or by a step
\* that removes the whole row.
LEMMA RowSetOrGone ==
    ASSUME ResultInv, [Next]_vars
    PROVE  \/ UNCHANGED row
           \/ \E q \in Results, s \in RowStates \ {"none"}, w \in BOOLEAN : SetRow(q, s, w)
           \/ \E q \in Results : row' = [row EXCEPT ![q] = NoRow]
<1> USE DEF RowStates
<1>1. ASSUME NEW q \in Results, WriterStep(q) \/ ChildWrites(q) \/ ChildExits(q)
      PROVE  \/ UNCHANGED row
             \/ \E s \in RowStates \ {"none"}, w \in BOOLEAN : SetRow(q, s, w)
  BY <1>1 DEF WriterStep, CreateLock, FenceLock, Begin, StartChild, Commit, Publish, Release,
     Abort, ChildWrites, ChildExits, rowVars
<1>2. ASSUME NEW q \in Results, NEW o, Own(o, q) \/ Disown(o, q) PROVE UNCHANGED row
  BY <1>2 DEF Own, Disown
<1>3. ASSUME NEW x \in Readers, ReaderStep(x) \/ \E q \in Results : OpenLock(x, q)
      PROVE  UNCHANGED row
  BY <1>3 DEF ReaderStep, ShareLock, AcquireRead, StopReading, CloseRead, OpenLock, rowVars
<1>4. ASSUME NEW d \in Deleters, DeleterStep(d)
      PROVE  UNCHANGED row \/ \E q \in Results : row' = [row EXCEPT ![q] = NoRow]
  <2>1. target[d] \in Results \/ UNCHANGED row
    BY <1>4 DEF ResultInv, TypeOK, DeleterStep, LockForDelete, DeleteRow, UnlinkLock, rowVars
  <2>2. UNCHANGED row \/ row' = [row EXCEPT ![target[d]] = NoRow]
    BY <1>4 DEF DeleterStep, LockForDelete, DeleteRow, UnlinkLock, rowVars
  <2> QED
    BY <2>1, <2>2
<1>5. ASSUME NEW c \in Cleaners, CleanerStep(c)
      PROVE  \/ UNCHANGED row
             \/ \E q \in Results, s \in RowStates \ {"none"}, w \in BOOLEAN : SetRow(q, s, w)
  <2>1. CASE ExcludeSuspect(c) \/ SweepLock(c)
    BY <2>1 DEF ExcludeSuspect, SweepLock, rowVars
  <2>2. CASE ReconcileDead(c)
    <3>1. target[c] \in Results
      BY <2>2 DEF ResultInv, TypeOK, ReconcileDead, Deleters
    <3>2. \/ State(target[c]) \in {"writing", "ready"} /\ SetRow(target[c], State(target[c]), FALSE)
          \/ UNCHANGED row
      BY <2>2 DEF ReconcileDead, rowVars
    <3> QED
      BY <3>1, <3>2
  <2> QED
    BY <1>5, <2>1, <2>2 DEF CleanerStep
<1>6. ASSUME NEW c \in Cleaners, NEW q \in Results,
             PickSuspect(c, q) \/ ClaimReclaim(c, q) \/ ExcludeForSweep(c, q)
      PROVE  \/ UNCHANGED row
             \/ \E s \in RowStates \ {"none"}, w \in BOOLEAN : SetRow(q, s, w)
  <2>1. CASE PickSuspect(c, q) \/ ExcludeForSweep(c, q)
    BY <2>1 DEF PickSuspect, ExcludeForSweep, rowVars
  <2>2. CASE ClaimReclaim(c, q)
    <3> DEFINE w == State(q) = "deleting" /\ HasWriter(q)
    <3>1. SetRow(q, "deleting", w) /\ w \in BOOLEAN
      BY <2>2 DEF ClaimReclaim, SetRow
    <3> QED
      BY <3>1
  <2> QED
    BY <1>6, <2>1, <2>2
<1>7. ASSUME NEW p \in Processes, Crash(p) PROVE UNCHANGED row
  BY <1>7 DEF Crash, rowVars
<1>8. CASE UNCHANGED vars
  BY <1>8 DEF vars, rowVars
<1> QED
  BY <1>1, <1>2, <1>3, <1>4, <1>5, <1>6, <1>7, <1>8 DEF Next

LEMMA NoneIsNoRowPreserved ==
    ASSUME ResultInv, NoneIsNoRow, [Next]_vars
    PROVE  NoneIsNoRow'
<1>1. TypeOK
  BY DEF ResultInv
<1>2. ASSUME NEW q \in Results, NEW s \in RowStates \ {"none"}, NEW w \in BOOLEAN,
             SetRow(q, s, w)
      PROVE  NoneIsNoRow'
  <2>1. s \in RowStates
    OBVIOUS
  <2>2. State(q)' = s /\ \A p \in Results \ {q} : row'[p] = row[p]
    BY <1>1, <1>2, <2>1, SetRowSets
  <2> QED
    BY <2>2 DEF NoneIsNoRow, State, NoRow
<1>3. ASSUME NEW q \in Results, row' = [row EXCEPT ![q] = NoRow]
      PROVE  NoneIsNoRow'
  BY <1>1, <1>3 DEF NoneIsNoRow, State, NoRow, TypeOK
<1>4. CASE UNCHANGED row
  BY <1>4 DEF NoneIsNoRow, State, NoRow
<1> QED
  BY <1>2, <1>3, <1>4, RowSetOrGone

-----------------------------------------------------------------------------
(* What is ready has a lock file.                                          *)

\* What is ready can be locked by name.
ReadyIsLockable == \A r \in Results : State(r) = "ready" => lockFile[r] # "absent"

\* Whoever is about to unlink a lock file that it has locked has seen the row
\* go.
Unlockers ==
    \A d \in Deleters :
        cleaner[d] = "unlock" /\ exclusive[target[d]] = d => State(target[d]) = "none"

\* How the state of a row may change: by the begin of its fenced writer, by
\* its commit, which finds the lock's name, or towards its end.
RowMoves(r) ==
    \/ writer[r] = "fenced" /\ State(r)' = "writing"
    \/ CanCommit(r) /\ UNCHANGED lockFile
    \/ State(r)' \in {"deleting", "none"}

\* Setting the row of q to a state moves the row of r only if it is q's.
LEMMA SetRowMoves ==
    ASSUME TypeOK, NEW q \in Results, NEW s \in RowStates, NEW w \in BOOLEAN,
           SetRow(q, s, w), NEW r \in Results, State(r)' # State(r)
    PROVE  r = q /\ State(r)' = s
<1>1. State(q)' = s /\ \A p \in Results \ {q} : row'[p] = row[p]
  BY SetRowSets
<1>2. r = q
  BY <1>1 DEF State
<1> QED
  BY <1>1, <1>2

LEMMA WriterMovesRow ==
    ASSUME TypeOK, NEW q \in Results, WriterStep(q), NEW r \in Results,
           State(r)' # State(r)
    PROVE  RowMoves(r)
<1>1. ~UNCHANGED row
  BY DEF State
<1>2. CASE Begin(q)
  <2>1. SetRow(q, "writing", TRUE) /\ writer[q] = "fenced"
    BY <1>1, <1>2 DEF Begin
  <2>2. r = q /\ State(r)' = "writing"
    BY <2>1, SetRowMoves DEF RowStates
  <2> QED
    BY <2>1, <2>2 DEF RowMoves
<1>3. CASE Commit(q)
  <2>1. SetRow(q, "ready", TRUE) /\ CanCommit(q) /\ UNCHANGED lockFile
    BY <1>1, <1>3 DEF Commit, lockVars
  <2>2. r = q
    BY <2>1, SetRowMoves DEF RowStates
  <2> QED
    BY <2>1, <2>2 DEF RowMoves
<1>4. CASE Publish(q)
  <2>1. SetRow(q, "ready", FALSE) /\ State(q) = "ready"
    BY <1>1, <1>4 DEF Publish, rowVars
  <2>2. r = q /\ State(r)' = "ready"
    BY <2>1, SetRowMoves DEF RowStates
  <2> QED
    BY <2>1, <2>2
<1>5. CASE Abort(q)
  <2>1. SetRow(q, "deleting", TRUE)
    BY <1>1, <1>5 DEF Abort
  <2>2. State(r)' = "deleting"
    BY <2>1, SetRowMoves DEF RowStates
  <2> QED
    BY <2>2 DEF RowMoves
<1>6. CASE CreateLock(q) \/ FenceLock(q) \/ StartChild(q) \/ Release(q)
  BY <1>1, <1>6 DEF CreateLock, FenceLock, StartChild, Release, rowVars
<1> QED
  BY <1>2, <1>3, <1>4, <1>5, <1>6 DEF WriterStep

LEMMA CleanerMovesRow ==
    ASSUME TypeOK, NEW c \in Cleaners,
           \/ CleanerStep(c)
           \/ \E q \in Results :
                 PickSuspect(c, q) \/ ClaimReclaim(c, q) \/ ExcludeForSweep(c, q),
           NEW r \in Results, State(r)' # State(r)
    PROVE  RowMoves(r)
<1>1. ~UNCHANGED row
  BY DEF State
<1>2. CASE ReconcileDead(c)
  <2>1. PICK p \in Results : p = target[c]
    BY <1>2 DEF ReconcileDead, TypeOK, Deleters
  <2>2. State(p) \in {"writing", "ready"} /\ SetRow(p, State(p), FALSE)
    BY <1>1, <1>2, <2>1 DEF ReconcileDead, rowVars
  <2>3. r = p /\ State(r)' = State(p)
    BY <2>2, SetRowMoves DEF RowStates
  <2> QED
    BY <2>3
<1>3. ASSUME NEW q \in Results, ClaimReclaim(c, q) PROVE RowMoves(r)
  <2> DEFINE w == State(q) = "deleting" /\ HasWriter(q)
  <2>1. SetRow(q, "deleting", w) /\ w \in BOOLEAN
    BY <1>3 DEF ClaimReclaim, SetRow
  <2> HIDE DEF w
  <2>2. State(r)' = "deleting"
    BY <2>1, SetRowMoves DEF RowStates
  <2> QED
    BY <2>2 DEF RowMoves
<1>4. CASE \/ ExcludeSuspect(c) \/ SweepLock(c)
           \/ \E q \in Results : PickSuspect(c, q) \/ ExcludeForSweep(c, q)
  BY <1>1, <1>4 DEF ExcludeSuspect, SweepLock, PickSuspect, ExcludeForSweep, rowVars
<1> QED
  BY <1>2, <1>3, <1>4 DEF CleanerStep

LEMMA NextMovesRow ==
    ASSUME ResultInv, [Next]_vars, NEW r \in Results, State(r)' # State(r)
    PROVE  RowMoves(r)
<1>1. TypeOK
  BY DEF ResultInv
<1>2. ~UNCHANGED row
  BY DEF State
<1>3. ASSUME NEW q \in Results, WriterStep(q) PROVE RowMoves(r)
  BY <1>1, <1>3, WriterMovesRow
<1>4. ASSUME NEW q \in Results, ChildWrites(q) \/ ChildExits(q) PROVE FALSE
  BY <1>2, <1>4 DEF ChildWrites, ChildExits, rowVars
<1>5. ASSUME NEW q \in Results, NEW o, Own(o, q) \/ Disown(o, q) PROVE FALSE
  BY <1>2, <1>5 DEF Own, Disown
<1>6. ASSUME NEW x \in Readers, ReaderStep(x) \/ \E q \in Results : OpenLock(x, q)
      PROVE  FALSE
  BY <1>2, <1>6 DEF ReaderStep, ShareLock, AcquireRead, StopReading, CloseRead, OpenLock,
     rowVars
<1>7. ASSUME NEW d \in Deleters, DeleterStep(d) PROVE RowMoves(r)
  <2>1. row' = [row EXCEPT ![target[d]] = NoRow]
    BY <1>2, <1>7 DEF DeleterStep, LockForDelete, DeleteRow, UnlinkLock, rowVars
  <2>2. row'[r] = NoRow
    BY <1>1, <2>1 DEF TypeOK, State
  <2> QED
    BY <2>2 DEF RowMoves, State, NoRow
<1>8. ASSUME NEW c \in Cleaners,
             \/ CleanerStep(c)
             \/ \E q \in Results :
                   PickSuspect(c, q) \/ ClaimReclaim(c, q) \/ ExcludeForSweep(c, q)
      PROVE  RowMoves(r)
  BY <1>1, <1>8, CleanerMovesRow
<1>9. ASSUME NEW p \in Processes, Crash(p) PROVE FALSE
  BY <1>2, <1>9 DEF Crash, rowVars
<1>10. CASE UNCHANGED vars
  BY <1>2, <1>10 DEF vars, rowVars
<1> QED
  BY <1>3, <1>4, <1>5, <1>6, <1>7, <1>8, <1>9, <1>10 DEF Next

\* A lock file is unlinked only when its row is gone, or never was there.
LEMMA LockNameStays ==
    ASSUME ResultInv, Unlockers, [Next]_vars, NEW r \in Results,
           lockFile[r] # "absent", lockFile'[r] = "absent"
    PROVE  State(r) = "none"
<1>1. TypeOK
  BY DEF ResultInv
<1>2. ~UNCHANGED lockFile
  OBVIOUS
<1>3. ASSUME NEW q \in Results, WriterStep(q) PROVE FALSE
  <2>1. CASE CreateLock(q) \/ FenceLock(q)
    BY <1>1, <1>2, <2>1 DEF CreateLock, FenceLock, TypeOK
  <2>2. CASE Begin(q) \/ StartChild(q) \/ Commit(q) \/ Publish(q) \/ Release(q) \/ Abort(q)
    BY <1>2, <2>2 DEF Begin, StartChild, Commit, Publish, Release, Abort, lockVars
  <2> QED
    BY <1>3, <2>1, <2>2 DEF WriterStep
<1>4. ASSUME NEW q \in Results, ChildWrites(q) \/ ChildExits(q) PROVE FALSE
  BY <1>2, <1>4 DEF ChildWrites, ChildExits, lockVars
<1>5. ASSUME NEW q \in Results, NEW o, Own(o, q) \/ Disown(o, q) PROVE FALSE
  BY <1>2, <1>5 DEF Own, Disown, lockVars
<1>6. ASSUME NEW x \in Readers, ReaderStep(x) \/ \E q \in Results : OpenLock(x, q)
      PROVE  FALSE
  BY <1>2, <1>6 DEF ReaderStep, ShareLock, AcquireRead, StopReading, CloseRead, OpenLock,
     lockVars
<1>7. ASSUME NEW d \in Deleters, DeleterStep(d) PROVE State(r) = "none"
  <2>1. UnlinkLock(d)
    BY <1>2, <1>7 DEF DeleterStep, LockForDelete, DeleteRow
  <2>2. /\ exclusive[target[d]] = d
        /\ lockFile' = [lockFile EXCEPT ![target[d]] = "absent"]
    BY <1>2, <2>1 DEF UnlinkLock
  <2>3. r = target[d]
    BY <1>1, <2>2 DEF TypeOK
  <2> QED
    BY <2>1, <2>2, <2>3 DEF Unlockers, UnlinkLock
<1>8. ASSUME NEW c \in Cleaners,
             \/ CleanerStep(c)
             \/ \E q \in Results :
                   PickSuspect(c, q) \/ ClaimReclaim(c, q) \/ ExcludeForSweep(c, q)
      PROVE  State(r) = "none"
  <2>1. SweepLock(c)
    BY <1>2, <1>8 DEF CleanerStep, ExcludeSuspect, ReconcileDead, PickSuspect, ClaimReclaim,
       ExcludeForSweep, lockVars
  <2>2. /\ IsOrphanLock(target[c])
        /\ lockFile' = [lockFile EXCEPT ![target[c]] = "absent"]
    BY <1>2, <2>1 DEF SweepLock
  <2>3. r = target[c]
    BY <1>1, <2>2 DEF TypeOK
  <2> QED
    BY <2>2, <2>3 DEF IsOrphanLock
<1>9. ASSUME NEW p \in Processes, Crash(p) PROVE FALSE
  BY <1>2, <1>9 DEF Crash
<1>10. CASE UNCHANGED vars
  BY <1>2, <1>10 DEF vars, lockVars
<1> QED
  BY <1>3, <1>4, <1>5, <1>6, <1>7, <1>8, <1>9, <1>10 DEF Next

\* Whoever is about to unlink a lock that it holds was so before the step, or
\* its row is gone with the step.
LEMMA NewUnlocker ==
    ASSUME ResultInv, [Next]_vars, NEW d \in Deleters,
           cleaner'[d] = "unlock", exclusive'[target'[d]] = d
    PROVE  \/ /\ cleaner[d] = "unlock" /\ target'[d] = target[d]
              /\ exclusive[target[d]] = d
           \/ row'[target'[d]].state = "none"
<1> DEFINE Was == cleaner[d] = "unlock" /\ target'[d] = target[d] /\ exclusive[target[d]] = d
<1>1. TypeOK /\ LockExcludes
  BY DEF ResultInv
<1>2. CASE UNCHANGED <<cleaner, target, exclusive>>
  BY <1>2
<1>3. ASSUME NEW q \in Results, WriterStep(q) PROVE Was
  <2>1. UNCHANGED exclusive
    BY <1>3 DEF WriterStep, CreateLock, FenceLock, Begin, StartChild, Commit, Publish, Release,
       Abort, lockVars
  <2>2. \/ UNCHANGED cleanerVars
        \/ /\ cleaner' = [cleaner EXCEPT ![q] = "delete"]
           /\ target' = [target EXCEPT ![q] = q]
    BY <1>3 DEF WriterStep, CreateLock, FenceLock, Begin, StartChild, Commit, Publish, Release,
       Abort
  <2> QED
    BY <1>1, <2>1, <2>2 DEF cleanerVars, TypeOK
<1>4. ASSUME NEW q \in Results, ChildWrites(q) \/ ChildExits(q) PROVE Was
  BY <1>4 DEF ChildWrites, ChildExits, lockVars, cleanerVars
<1>5. ASSUME NEW q \in Results, NEW o, Own(o, q) \/ Disown(o, q) PROVE Was
  BY <1>5 DEF Own, Disown, lockVars, cleanerVars
<1>6. ASSUME NEW x \in Readers, ReaderStep(x) \/ \E q \in Results : OpenLock(x, q)
      PROVE  Was
  BY <1>6 DEF ReaderStep, ShareLock, AcquireRead, StopReading, CloseRead, OpenLock,
     lockVars, cleanerVars
<1>7. ASSUME NEW e \in Deleters, DeleterStep(e)
      PROVE  Was \/ row'[target'[d]].state = "none"
  <2>0. cleaner[e] # "idle"
    BY <1>7 DEF DeleterStep, LockForDelete, DeleteRow, UnlinkLock
  <2>1. PICK p \in Results : p = target[e]
    BY <1>1, <2>0 DEF TypeOK
  <2>2. CASE LockForDelete(e)
    <3>1. \/ CleanerRests(e) /\ UNCHANGED exclusive
          \/ /\ CleanerGoes(e, "unlink") /\ UNCHANGED target
             /\ UNCHANGED exclusive \/ exclusive' = [exclusive EXCEPT ![p] = e]
      BY <2>1, <2>2 DEF LockForDelete
    <3>2. CASE CleanerRests(e) /\ UNCHANGED exclusive
      BY <1>1, <3>2, RestsOK
    <3>3. CASE /\ CleanerGoes(e, "unlink") /\ UNCHANGED target
               /\ UNCHANGED exclusive \/ exclusive' = [exclusive EXCEPT ![p] = e]
      BY <1>1, <3>3 DEF CleanerGoes, TypeOK
    <3> QED
      BY <3>1, <3>2, <3>3
  <2>3. CASE DeleteRow(e)
    <3>1. \/ CleanerRests(e) /\ Unexclude(e, p)
          \/ /\ CleanerGoes(e, "unlock") /\ UNCHANGED <<target, exclusive>>
             /\ (row' = [row EXCEPT ![p] = NoRow] \/ (State(p) = "none" /\ UNCHANGED row))
      BY <2>1, <2>3 DEF DeleteRow
    <3>2. CASE CleanerRests(e) /\ Unexclude(e, p)
      <4>1. d # e /\ cleaner'[d] = cleaner[d] /\ target'[d] = target[d]
        BY <1>1, <3>2, RestsOK
      <4>2. target[d] \in Results
        BY <1>1, <4>1 DEF TypeOK
      <4>3. exclusive'[target[d]] # Nobody
        BY <4>1, DistinctAssumption
      <4>4. exclusive[target[d]] = d
        BY <1>1, <2>1, <3>2, <4>1, <4>2, <4>3, UnexcludeOK
      <4> QED
        BY <4>1, <4>4
    <3>3. CASE /\ CleanerGoes(e, "unlock") /\ UNCHANGED <<target, exclusive>>
               /\ (row' = [row EXCEPT ![p] = NoRow] \/ (State(p) = "none" /\ UNCHANGED row))
      <4>1. State(p)' = "none"
        BY <1>1, <3>3 DEF TypeOK, State, NoRow
      <4>2. CASE d = e
        BY <2>1, <3>3, <4>1, <4>2 DEF State
      <4>3. CASE d # e
        BY <1>1, <3>3, <4>3 DEF CleanerGoes, TypeOK
      <4> QED
        BY <4>2, <4>3
    <3> QED
      BY <3>1, <3>2, <3>3
  <2>4. CASE UnlinkLock(e)
    <3>1. CleanerRests(e) /\ Unexclude(e, p)
      BY <2>1, <2>4 DEF UnlinkLock
    <3>2. d # e /\ cleaner'[d] = cleaner[d] /\ target'[d] = target[d]
      BY <1>1, <3>1, RestsOK
    <3>3. target[d] \in Results
      BY <1>1, <3>2 DEF TypeOK
    <3>4. exclusive'[target[d]] # Nobody
      BY <3>2, DistinctAssumption
    <3>5. exclusive[target[d]] = d
      BY <1>1, <2>1, <3>1, <3>2, <3>3, <3>4, UnexcludeOK
    <3> QED
      BY <3>2, <3>5
  <2> QED
    BY <1>7, <2>2, <2>3, <2>4 DEF DeleterStep
<1>8. ASSUME NEW c \in Cleaners, NEW q \in Results, Unexclude(c, q), CleanerRests(c)
      PROVE  Was
  <2>1. c \in Deleters
    BY DEF Deleters
  <2>2. d # c /\ cleaner'[d] = cleaner[d] /\ target'[d] = target[d]
    BY <1>1, <1>8, <2>1, RestsOK
  <2>3. target[d] \in Results /\ exclusive'[target[d]] # Nobody
    BY <1>1, <2>2, DistinctAssumption DEF TypeOK
  <2>4. exclusive[target[d]] = d
    BY <1>1, <1>8, <2>1, <2>2, <2>3, UnexcludeOK
  <2> QED
    BY <2>2, <2>4
<1>9. ASSUME NEW c \in Cleaners, CleanerStep(c) PROVE Was
  <2>0. c \in Deleters /\ cleaner[c] # "idle"
    BY <1>9 DEF CleanerStep, ExcludeSuspect, ReconcileDead, SweepLock, Deleters
  <2>1. PICK p \in Results : p = target[c]
    BY <1>1, <2>0 DEF TypeOK
  <2>2. CASE ReconcileDead(c) \/ SweepLock(c)
    BY <1>8, <2>1, <2>2 DEF ReconcileDead, SweepLock
  <2>3. CASE ExcludeSuspect(c)
    <3>1. c \in Deleters
      BY DEF Deleters
    <3>2. \/ CleanerRests(c) /\ UNCHANGED exclusive
          \/ /\ CleanerGoes(c, "reconcile") /\ UNCHANGED target
             /\ exclusive' = [exclusive EXCEPT ![p] = c]
      BY <2>1, <2>3 DEF ExcludeSuspect
    <3>3. CASE CleanerRests(c) /\ UNCHANGED exclusive
      BY <1>1, <3>1, <3>3, RestsOK
    <3>4. CASE /\ CleanerGoes(c, "reconcile") /\ UNCHANGED target
               /\ exclusive' = [exclusive EXCEPT ![p] = c]
      BY <1>1, <3>1, <3>4 DEF CleanerGoes, TypeOK
    <3> QED
      BY <3>2, <3>3, <3>4
  <2> QED
    BY <1>9, <2>2, <2>3 DEF CleanerStep
<1>10. ASSUME NEW c \in Cleaners, NEW q \in Results,
              PickSuspect(c, q) \/ ClaimReclaim(c, q) \/ ExcludeForSweep(c, q)
       PROVE  Was
  <2>1. c \in Deleters
    BY DEF Deleters
  <2>2. /\ \E pc \in {"suspect", "delete", "sweep"} : cleaner' = [cleaner EXCEPT ![c] = pc]
        /\ target' = [target EXCEPT ![c] = q]
        /\ UNCHANGED exclusive \/ exclusive' = [exclusive EXCEPT ![q] = c]
    BY <1>10 DEF PickSuspect, ClaimReclaim, ExcludeForSweep, CleanerGoes, lockVars
  <2>3. d # c /\ cleaner'[d] = cleaner[d] /\ target'[d] = target[d]
    BY <1>1, <2>1, <2>2 DEF TypeOK
  <2> QED
    BY <1>1, <2>2, <2>3 DEF TypeOK
<1>11. ASSUME NEW p \in Processes, Crash(p) PROVE Was
  <2>1. cleaner'[d] = cleaner[d] /\ target'[d] = target[d]
    BY <1>11 DEF Crash
  <2>2. target[d] \in Results
    BY <1>1, <2>1 DEF TypeOK
  <2>3. exclusive'[target[d]] \in {exclusive[target[d]], Nobody}
    BY <1>11, <2>2 DEF Crash
  <2> QED
    BY <2>1, <2>3, DistinctAssumption
<1>12. CASE UNCHANGED vars
  BY <1>2, <1>12 DEF vars, cleanerVars, lockVars
<1> QED
  BY <1>3, <1>4, <1>5, <1>6, <1>7, <1>9, <1>10, <1>11, <1>12 DEF Next

\* A row that is gone stays gone while somebody is about to unlink its lock:
\* the begin of a row needs the lock.
LEMMA UnlockersPreserved ==
    ASSUME ResultInv, NoneIsNoRow, Unlockers, [Next]_vars
    PROVE  Unlockers'
<1> SUFFICES ASSUME NEW d \in Deleters, cleaner'[d] = "unlock", exclusive'[target'[d]] = d
             PROVE  row'[target'[d]].state = "none"
  BY DEF Unlockers, State
<1>1. CASE cleaner[d] = "unlock" /\ target'[d] = target[d] /\ exclusive[target[d]] = d
  <2>1. PICK p \in Results : p = target[d]
    BY <1>1 DEF ResultInv, TypeOK
  <2>2. State(p) = "none"
    BY <1>1, <2>1 DEF Unlockers
  <2>3. shared[p] = {}
    BY <1>1, <2>1, DistinctAssumption DEF ResultInv, LockExcludes
  <2>4. writer[p] # "fenced"
    BY <2>3 DEF ResultInv, SharersHold, Fenced
  <2>5. Forward(p)
    BY NextForward
  <2>6. State(p)' # "none" => RowMoves(p) /\ <<State(p), State(p)'>> \in Order
    BY <2>2, <2>5, NextMovesRow DEF Forward
  <2>7. State(p)' = "none"
    BY <2>2, <2>4, <2>6 DEF RowMoves, CanCommit, Order
  <2> QED
    BY <1>1, <2>1, <2>7 DEF State
<1> QED
  BY <1>1, NewUnlocker

LEMMA LockablePreserved ==
    ASSUME ResultInv, Unlockers, ReadyIsLockable, [Next]_vars
    PROVE  ReadyIsLockable'
<1> SUFFICES ASSUME NEW r \in Results, State(r)' = "ready", lockFile'[r] = "absent"
             PROVE  FALSE
  BY DEF ReadyIsLockable, State
<1>1. CASE State(r) = "ready"
  BY <1>1, LockNameStays DEF ReadyIsLockable
<1>2. CASE State(r) # "ready"
  <2>1. CanCommit(r) /\ UNCHANGED lockFile
    BY <1>2, NextMovesRow DEF RowMoves
  <2> QED
    BY <2>1 DEF CanCommit
<1> QED
  BY <1>1, <1>2

-----------------------------------------------------------------------------
(* Theorems about every behaviour.                                         *)

\* ResultInv holds at every moment: it is what the lock protocol, the
\* registry's transactions and the order of unlinking keep between them.
THEOREM ResultInvariant == Spec => []ResultInv
<1>1. ResultInv /\ [Next]_vars => ResultInv'
  BY NextPreserves
<1> QED
  BY InitEstablishes, <1>1, PTL DEF Spec

\* Every variable keeps its domain.
THEOREM ResultTypeCorrect == Spec => []TypeOK
<1>1. ResultInv => TypeOK
  BY DEF ResultInv
<1> QED
  BY ResultInvariant, <1>1, PTL

\* An admitted read guard has its lease and the file until it closes.
THEOREM GuardsKeepFiles == Spec => []ReaderKeepsFile
<1>1. ResultInv => ReaderKeepsFile
  BY DEF ResultInv
<1> QED
  BY ResultInvariant, <1>1, PTL

\* A child process that may still write has its row reserved, even after the
\* process that started it died.
THEOREM ChildrenKeepRows == Spec => []LiveChildKeepsRow
<1>1. ResultInv => LiveChildKeepsRow
  BY DEF ResultInv
<1> QED
  BY ResultInvariant, <1>1, PTL

\* No bytes are left without a row, so retention finds them all.
THEOREM BytesHaveRows == Spec => []NoOrphanBytes
<1>1. ResultInv => NoOrphanBytes
  BY DEF ResultInv
<1> QED
  BY ResultInvariant, <1>1, PTL

\* No step of any process takes a result back: Forward, for every result.
THEOREM ResultsGoForward == Spec => [][\A r \in Results : Forward(r)]_vars
<1>1. Init => NoneIsNoRow
  BY DEF Init, NoneIsNoRow, State, NoRow
<1>2. ResultInv /\ NoneIsNoRow /\ [Next]_vars => NoneIsNoRow'
  BY NoneIsNoRowPreserved
<1>3. ResultInv /\ NoneIsNoRow /\ [Next]_vars => \A r \in Results : Forward(r)
  BY NextForward
<1> QED
  BY ResultInvariant, <1>1, <1>2, <1>3, PTL DEF Spec

\* What is ready has a lock file, whoever deletes, sweeps or commits: a commit
\* looks for the name, and names are unlinked only once their row is gone.
THEOREM ReadyResultsHaveLocks == Spec => []ReadyIsLockable
<1>1. Init => NoneIsNoRow /\ Unlockers /\ ReadyIsLockable
  BY DEF Init, NoneIsNoRow, Unlockers, ReadyIsLockable, State, NoRow
<1>2. ResultInv /\ NoneIsNoRow /\ [Next]_vars => NoneIsNoRow'
  BY NoneIsNoRowPreserved
<1>3. ResultInv /\ NoneIsNoRow /\ Unlockers /\ [Next]_vars => Unlockers'
  BY UnlockersPreserved
<1>4. ResultInv /\ Unlockers /\ ReadyIsLockable /\ [Next]_vars => ReadyIsLockable'
  BY LockablePreserved
<1> QED
  BY ResultInvariant, <1>1, <1>2, <1>3, <1>4, PTL DEF Spec

\* Whatever a durable owner refers to is ready and has its bytes and its lock
\* file, whoever crashes, aborts, sweeps, reconciles or reclaims meanwhile.
THEOREM OwnersKeepResults == Spec => []OwnedResultExists
<1>1. ResultInv /\ ReadyIsLockable => OwnedResultExists
  BY DEF ResultInv, OwnedHasBytes, ReadyIsLockable, OwnedResultExists
<1> QED
  BY ResultInvariant, ReadyResultsHaveLocks, <1>1, PTL

=============================================================================
