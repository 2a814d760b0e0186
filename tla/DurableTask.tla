----------------------------- MODULE DurableTask -----------------------------
(***************************************************************************)
(* The durable task ledger of kernel/hub/metadb.py: one row per task, one  *)
(* row per attempt, one inbox row per settled attempt.  Every action is    *)
(* one SQL transaction of that file, taken by any hub process; the row     *)
(* lock on the task makes the transaction atomic.                          *)
(*                                                                         *)
(* Who calls the transactions, and with which outcome, is left open here:  *)
(* any worker may call any of them at any time with any token.  Module     *)
(* DurableWrite closes the model with the workers of the code.             *)
(*                                                                         *)
(* Data kept: statuses, owner tokens, lease liveness, the cancel flag, the *)
(* retry identity and the two error codes a transaction reads back.        *)
(* Database time is abstracted to "is this lease still ahead of now", and  *)
(* LeaseExpires is the passage of time; a heartbeat or a progress report   *)
(* of a live owner leaves all of this as it is.                            *)
(*                                                                         *)
(* An operator whose comment begins with "Mutant" is a plausible bug in    *)
(* the operator after it.  Nothing here uses it: the properties that it    *)
(* would break are named in PROJECT.json.                                  *)
(***************************************************************************)
EXTENDS Integers, FiniteSets

CONSTANTS
    Tasks,          \* task identities (one per accepted submission)
    Owners,         \* worker tokens
    RetryIds,       \* client-chosen retry request identities
    MaxAttempts,    \* DurableTask.max_attempts
    FencedTasks,    \* tasks whose publication holds the task fence
    StaleFinal,     \* tasks whose stale-head failure refuses a retry
    Unreadable,     \* tasks of which a read of the receipt may fail
    NoOwner,        \* the NULL owner token
    NoRetry         \* the NULL retry request id

ASSUME MaxAttemptsAssumption == MaxAttempts \in Nat \ {0}
ASSUME KindsAssumption == FencedTasks \subseteq Tasks /\ StaleFinal \subseteq Tasks
ASSUME NullsAssumption == NoOwner \notin Owners /\ NoRetry \notin RetryIds

VARIABLES
    taskStatus,       \* DurableTask.status, or "absent" before submission
    cancelRequested,  \* DurableTask.cancel_requested
    retryCount,       \* DurableTask.retry_count
    taskError,        \* DurableTask.error, as far as a transaction reads it
    lastAttempt,      \* the highest attempt_number among the task's rows
    attempts,         \* DurableTaskAttempt rows by task and attempt_number
    inbox,            \* DurableTaskInboxItem outcome by task and attempt
    landed            \* tasks whose write receipt is in the revision ledger

taskVars == <<taskStatus, cancelRequested, retryCount, taskError, lastAttempt>>
vars == <<taskVars, attempts, inbox, landed>>

Terminal == {"done", "failed", "cancelled"}
Open == {"queued", "running"}
Errors == {"none", "stale_expected_head", "other"}
AttemptNumbers == 1 .. MaxAttempts

NoAttempt ==
    [status |-> "none", owner |-> NoOwner, lease |-> "null", retryId |-> NoRetry]

QueuedAttempt(id) ==
    [status |-> "queued", owner |-> NoOwner, lease |-> "null", retryId |-> id]

AttemptRows ==
    [status : {"none", "queued", "running", "fenced"} \cup Terminal,
     owner : Owners \cup {NoOwner},
     lease : {"null", "live", "past"},
     retryId : RetryIds \cup {NoRetry}]

Init ==
    /\ taskStatus = [t \in Tasks |-> "absent"]
    /\ cancelRequested = [t \in Tasks |-> FALSE]
    /\ retryCount = [t \in Tasks |-> 0]
    /\ taskError = [t \in Tasks |-> "none"]
    /\ lastAttempt = [t \in Tasks |-> 0]
    /\ attempts = [t \in Tasks |-> [n \in AttemptNumbers |-> NoAttempt]]
    /\ inbox = [t \in Tasks |-> [n \in AttemptNumbers |-> "none"]]
    /\ landed = {}

-----------------------------------------------------------------------------
(* Parts of transactions.                                                  *)

\* Mutant: the token alone proves ownership.
OwnsByTokenOnly(t, n, o) == attempts[t][n].owner = o

\* The owner token, the running status and the unexpired lease that every
\* owner-side transaction demands of its attempt row.
Owns(t, n, o) ==
    /\ attempts[t][n].status = "running"
    /\ attempts[t][n].owner = o
    /\ attempts[t][n].lease = "live"

\* Mutant: a cancellation is not announced.
EmitButCancelled(t, n, outcome) ==
    inbox' = [inbox EXCEPT ![t][n] = IF outcome = "cancelled" THEN @ ELSE outcome]

\* Emission into the inbox: idempotent for the same outcome; a different
\* outcome for the attempt raises, which rolls the whole transaction back.
Emit(t, n, outcome) ==
    /\ inbox[t][n] \in {"none", outcome}
    /\ inbox' = [inbox EXCEPT ![t][n] = outcome]

\* durable_task_attempt_should_stop, as a worker polls it.
ShouldStop(t, n, o) ==
    \/ taskStatus[t] \in Terminal
    \/ cancelRequested[t]
    \/ ~Owns(t, n, o)

\* The fence a merge publication re-checks and holds to its commit.
HoldsPublicationFence(t, n, o) ==
    /\ taskStatus[t] = "running"
    /\ ~cancelRequested[t]
    /\ n = retryCount[t] + 1
    /\ Owns(t, n, o)

-----------------------------------------------------------------------------
(* Transactions.                                                           *)

\* Task and first attempt are inserted together; a replay of the submission
\* finds the task and changes nothing.
Submit(t) ==
    /\ taskStatus[t] = "absent"
    /\ taskStatus' = [taskStatus EXCEPT ![t] = "queued"]
    /\ lastAttempt' = [lastAttempt EXCEPT ![t] = 1]
    /\ attempts' = [attempts EXCEPT ![t][1] = QueuedAttempt(NoRetry)]
    /\ UNCHANGED <<cancelRequested, retryCount, taskError, inbox, landed>>

\* Mutant: only a queued task is picked up, an orphan is left alone.
ClaimableIfQueued(t) ==
    taskStatus[t] \in Open /\ attempts[t][lastAttempt[t]].status = "queued"

\* A claim finds no live owner: the last attempt is queued, or its running
\* owner has outlived its lease.
Claimable(t) ==
    /\ taskStatus[t] \in Open
    /\ ~(/\ attempts[t][lastAttempt[t]].status = "running"
         /\ attempts[t][lastAttempt[t]].lease = "live")

\* The last attempt is running without a live lease, so the claim fences it.
Orphaned(t) == attempts[t][lastAttempt[t]].status = "running"
Exhausted(t) == Orphaned(t) /\ lastAttempt[t] >= MaxAttempts

\* The attempt row a claim works on, once the orphan is fenced.
ClaimNumber(t) ==
    IF Orphaned(t) /\ ~Exhausted(t) THEN lastAttempt[t] + 1 ELSE lastAttempt[t]

\* Mutant: the successor is queued, the orphan stays as it is.
UnfencedRows(t) ==
    [k \in AttemptNumbers |->
        IF k = ClaimNumber(t) /\ Orphaned(t) /\ ~Exhausted(t)
        THEN QueuedAttempt(NoRetry)
        ELSE attempts[t][k]]

\* The attempt rows of t after an orphan is fenced and, unless attempts are
\* exhausted, a successor is queued; at says what becomes of row k.
FencedRows(t) ==
    [k \in AttemptNumbers |->
        IF Orphaned(t) /\ k = lastAttempt[t]
        THEN [attempts[t][k] EXCEPT !.status = "fenced"]
        ELSE IF k = ClaimNumber(t) /\ Orphaned(t) THEN QueuedAttempt(NoRetry)
        ELSE attempts[t][k]]

\* The task-row counters a claim writes when it replaces an orphan.
ClaimCounters(t) ==
    /\ lastAttempt' = [lastAttempt EXCEPT ![t] = ClaimNumber(t)]
    /\ retryCount' = [retryCount EXCEPT ![t] =
                        IF Orphaned(t) /\ ~Exhausted(t) THEN lastAttempt[t] ELSE @]

\* The claim settles the task on row n of the fenced rows.
SettleInClaim(t, n, outcome, rowStatus, error) ==
    /\ taskStatus' = [taskStatus EXCEPT ![t] = outcome]
    /\ taskError' = [taskError EXCEPT ![t] = error]
    /\ attempts' = [attempts EXCEPT ![t] =
                      [FencedRows(t) EXCEPT ![n].status = rowStatus]]
    /\ Emit(t, n, outcome)
    /\ UNCHANGED <<cancelRequested, landed>>

\* Mutant: a cancelled or exhausted task is taken for done unseen.
ClaimReconcilesUnseen(t) ==
    /\ Claimable(t)
    /\ Exhausted(t) \/ cancelRequested[t]
    /\ ClaimCounters(t)
    /\ SettleInClaim(t, ClaimNumber(t), "done", "done", "none")

\* Out of attempts, or cancelled, but the receipt is already in the ledger.
ClaimReconciles(t) ==
    /\ Claimable(t)
    /\ Exhausted(t) \/ cancelRequested[t]
    /\ t \in landed
    /\ ClaimCounters(t)
    /\ SettleInClaim(t, ClaimNumber(t), "done", "done", "none")

\* A claim that cannot read the receipt goes on as if there were none.
FindsNoReceipt(t) == t \notin landed \/ t \in Unreadable

\* Out of attempts with no receipt: the task fails, its last attempt stays
\* fenced.
ClaimExhausts(t) ==
    /\ Claimable(t)
    /\ Exhausted(t)
    /\ FindsNoReceipt(t)
    /\ ClaimCounters(t)
    /\ SettleInClaim(t, ClaimNumber(t), "failed", "fenced", "other")

\* Mutant: a cancel is honoured without looking for a receipt.
ClaimCancelsUnseen(t) ==
    /\ Claimable(t)
    /\ ~Exhausted(t)
    /\ cancelRequested[t]
    /\ ClaimCounters(t)
    /\ SettleInClaim(t, ClaimNumber(t), "cancelled", "cancelled", taskError[t])

\* A requested cancel is honoured by the claim.
ClaimCancels(t) ==
    /\ Claimable(t)
    /\ ~Exhausted(t)
    /\ cancelRequested[t]
    /\ FindsNoReceipt(t)
    /\ ClaimCounters(t)
    /\ SettleInClaim(t, ClaimNumber(t), "cancelled", "cancelled", taskError[t])

\* Mutant: the claim of an orphan overlooks the cancel flag.
ClaimRunsCancelled(t, o) ==
    /\ Claimable(t)
    /\ ~Exhausted(t)
    /\ Orphaned(t) \/ ~cancelRequested[t]
    /\ ClaimCounters(t)
    /\ taskStatus' = [taskStatus EXCEPT ![t] = "running"]
    /\ taskError' = [taskError EXCEPT ![t] = "none"]
    /\ attempts' = [attempts EXCEPT ![t] =
                      [FencedRows(t) EXCEPT ![ClaimNumber(t)].status = "running",
                                            ![ClaimNumber(t)].owner = o,
                                            ![ClaimNumber(t)].lease = "live"]]
    /\ UNCHANGED <<cancelRequested, inbox, landed>>

\* The claim gives the attempt and a fresh lease to owner o.
ClaimRuns(t, o) ==
    /\ Claimable(t)
    /\ ~Exhausted(t)
    /\ ~cancelRequested[t]
    /\ ClaimCounters(t)
    /\ taskStatus' = [taskStatus EXCEPT ![t] = "running"]
    /\ taskError' = [taskError EXCEPT ![t] = "none"]
    /\ attempts' = [attempts EXCEPT ![t] =
                      [FencedRows(t) EXCEPT ![ClaimNumber(t)].status = "running",
                                            ![ClaimNumber(t)].owner = o,
                                            ![ClaimNumber(t)].lease = "live"]]
    /\ UNCHANGED <<cancelRequested, inbox, landed>>

\* Database time passes the lease of a running attempt.
LeaseExpires(t, n) ==
    /\ attempts[t][n].status = "running"
    /\ attempts[t][n].lease = "live"
    /\ attempts' = [attempts EXCEPT ![t][n].lease = "past"]
    /\ UNCHANGED <<taskVars, inbox, landed>>

\* A live owner settles its attempt and the task with it.  The receipt
\* ledger is not consulted here.
Finish(t, n, o, outcome, error) ==
    /\ taskStatus[t] \notin Terminal
    /\ Owns(t, n, o)
    /\ taskStatus' = [taskStatus EXCEPT ![t] = outcome]
    /\ taskError' = [taskError EXCEPT ![t] = error]
    /\ attempts' = [attempts EXCEPT ![t][n].status = outcome,
                                    ![t][n].lease = "past"]
    /\ Emit(t, n, outcome)
    /\ UNCHANGED <<cancelRequested, retryCount, lastAttempt, landed>>

\* A finish that finds the task settled the same way (and with the same
\* document) reconciles the inbox item of its own attempt.
FinishReplay(t, n, outcome) ==
    /\ taskStatus[t] = outcome
    /\ outcome \in Terminal
    /\ attempts[t][n].status = outcome
    /\ Emit(t, n, outcome)
    /\ UNCHANGED <<taskVars, attempts, landed>>

RequestCancel(t) ==
    /\ taskStatus[t] \in Open
    /\ cancelRequested' = [cancelRequested EXCEPT ![t] = TRUE]
    /\ UNCHANGED <<taskStatus, retryCount, taskError, lastAttempt,
                   attempts, inbox, landed>>

\* The row writes of a retry: the next attempt is queued under the retry's
\* identity and the task starts over.
ReopenTask(t, id) ==
    /\ taskStatus' = [taskStatus EXCEPT ![t] = "queued"]
    /\ cancelRequested' = [cancelRequested EXCEPT ![t] = FALSE]
    /\ retryCount' = [retryCount EXCEPT ![t] = lastAttempt[t]]
    /\ taskError' = [taskError EXCEPT ![t] = "none"]
    /\ lastAttempt' = [lastAttempt EXCEPT ![t] = @ + 1]
    /\ attempts' = [attempts EXCEPT ![t][lastAttempt[t] + 1] = QueuedAttempt(id)]
    /\ UNCHANGED <<inbox, landed>>

\* A retry opens the next attempt of a failed or cancelled task, once per
\* request identity; a replay of the identity changes nothing.
Retry(t, id) ==
    /\ \A n \in AttemptNumbers : attempts[t][n].retryId # id
    /\ taskStatus[t] \in {"failed", "cancelled"}
    /\ ~(t \in StaleFinal /\ taskError[t] = "stale_expected_head")
    /\ lastAttempt[t] < MaxAttempts
    /\ ReopenTask(t, id)

\* The catalog transaction that puts the task's receipt in the ledger, in
\* the name of some attempt that was once claimed by o.  It is a
\* transaction of its own: only a fenced task's publication looks at the
\* task rows.
Land(t, n, o) ==
    /\ t \notin landed
    /\ attempts[t][n].owner = o
    /\ t \in FencedTasks => HoldsPublicationFence(t, n, o)
    /\ landed' = landed \cup {t}
    /\ UNCHANGED <<taskVars, attempts, inbox>>

-----------------------------------------------------------------------------

Claim(t, o) ==
    \/ ClaimReconciles(t)
    \/ ClaimExhausts(t)
    \/ ClaimCancels(t)
    \/ ClaimRuns(t, o)

\* A worker reports "done" only with a receipt in its hand.
OwnerStep(t, n, o) ==
    \/ \E outcome \in Terminal, error \in Errors :
          /\ outcome = "done" => t \in landed /\ error = "none"
          /\ Finish(t, n, o, outcome, error)
    \/ \E outcome \in Terminal : FinishReplay(t, n, outcome)
    \/ Land(t, n, o)

Next ==
    \E t \in Tasks :
        \/ Submit(t)
        \/ RequestCancel(t)
        \/ \E id \in RetryIds : Retry(t, id)
        \/ \E o \in Owners : Claim(t, o)
        \/ \E n \in AttemptNumbers : LeaseExpires(t, n)
        \/ \E n \in AttemptNumbers, o \in Owners : OwnerStep(t, n, o)

Spec == Init /\ [][Next]_vars
-----------------------------------------------------------------------------
(* Properties.                                                             *)

\* Every variable holds values of its column's domain.
TypeOK ==
    /\ taskStatus \in [Tasks -> {"absent"} \cup Open \cup Terminal]
    /\ cancelRequested \in [Tasks -> BOOLEAN]
    /\ retryCount \in [Tasks -> 0 .. MaxAttempts]
    /\ taskError \in [Tasks -> Errors]
    /\ lastAttempt \in [Tasks -> 0 .. MaxAttempts]
    /\ attempts \in [Tasks -> [AttemptNumbers -> AttemptRows]]
    /\ inbox \in [Tasks -> [AttemptNumbers -> {"none"} \cup Terminal]]
    /\ landed \subseteq Tasks

\* The rows of a task are numbered without gaps from 1, nothing is left
\* behind past the last one, and whoever settled an attempt announced it.
RowsOf(t) ==
    /\ taskStatus[t] = "absent" <=> lastAttempt[t] = 0
    /\ \A n \in AttemptNumbers :
          /\ n > lastAttempt[t] => attempts[t][n] = NoAttempt /\ inbox[t][n] = "none"
          /\ n <= lastAttempt[t] => attempts[t][n].status # "none"
          /\ attempts[t][n].status \in Terminal => inbox[t][n] = attempts[t][n].status

RowsInOrder == \A t \in Tasks : RowsOf(t)

\* Two workers never own one task at once, whatever interleaving of claims,
\* expiries and retries led here: an attempt that is queued or running is
\* the last one and its task is open.
OneOpenAttempt ==
    \A t \in Tasks, n \in AttemptNumbers :
        attempts[t][n].status \in Open =>
            n = lastAttempt[t] /\ taskStatus[t] \in Open

\* The converse: an open task always has an open attempt for a claim to
\* pick up, so no path strands a task that the recovery scan cannot see.
OpenTaskIsClaimable ==
    \A t \in Tasks :
        taskStatus[t] \in Open => attempts[t][lastAttempt[t]].status \in Open

\* retry_count + 1 numbers the last attempt, which the publication fence
\* relies on to recognise a superseded owner.
RetryCountNumbersLastAttempt ==
    \A t \in Tasks :
        taskStatus[t] # "absent" => lastAttempt[t] = retryCount[t] + 1

\* The inbox tells the truth about each attempt: an item agrees with its
\* attempt's own terminal status, except that running out of attempts is
\* announced as a failure of the last, fenced, attempt.
InboxAgreesWithAttempt ==
    \A t \in Tasks, n \in AttemptNumbers :
        inbox[t][n] # "none" =>
            \/ attempts[t][n].status = inbox[t][n]
            \/ /\ attempts[t][n].status = "fenced"
               /\ inbox[t][n] = "failed"
               /\ n = MaxAttempts

\* The inbox is complete: a settled task announced its outcome on its last
\* attempt, and an open task has announced nothing on it yet, so no settling
\* transaction can be rolled back by a conflicting item.
InboxAnnouncesOutcome ==
    \A t \in Tasks :
        taskStatus[t] # "absent" =>
            inbox[t][lastAttempt[t]] =
                IF taskStatus[t] \in Terminal THEN taskStatus[t] ELSE "none"

\* A client that replays one retry request never opens two attempts.
RetryIdOpensOneAttempt ==
    \A t \in Tasks : \A m, n \in AttemptNumbers :
        /\ attempts[t][m].retryId = attempts[t][n].retryId
        /\ attempts[t][m].retryId # NoRetry
        => m = n

\* An outcome is final but for a retry: "done" is never left, and failure
\* or cancellation is left only for the queue, by one new attempt.
OutcomeIsFinal ==
    [][\A t \in Tasks :
          taskStatus[t] \in Terminal /\ taskStatus'[t] # taskStatus[t] =>
              /\ taskStatus[t] # "done"
              /\ taskStatus'[t] = "queued"
              /\ lastAttempt'[t] = lastAttempt[t] + 1]_vars

\* A superseded owner cannot speak again: once an attempt is fenced or
\* settled its row never changes, and no later inbox item is minted for it.
SupersededAttemptIsFrozen ==
    [][\A t \in Tasks, n \in AttemptNumbers :
          attempts[t][n].status \in {"fenced"} \cup Terminal =>
              /\ attempts'[t][n] = attempts[t][n]
              /\ inbox'[t][n] = inbox[t][n]]_vars

\* A cancel request is never lost: it stays until the task settles, and no
\* new owner starts work while it stands.
CancelSticks ==
    [][\A t \in Tasks :
          cancelRequested[t] /\ taskStatus[t] \in Open =>
              /\ taskStatus'[t] \in Open => cancelRequested'[t]
              /\ \A n \in AttemptNumbers :
                    attempts'[t][n].status = "running" =>
                        attempts[t][n].status = "running"]_vars

\* Items are minted only by the transaction that settles the task, one for
\* each settlement.
OneItemPerSettlement ==
    [][\A t \in Tasks :
          IF taskStatus[t] \notin Terminal /\ taskStatus'[t] \in Terminal
          THEN \E n \in AttemptNumbers :
                  inbox'[t] = [inbox[t] EXCEPT ![n] = taskStatus'[t]]
                  /\ inbox[t][n] = "none"
          ELSE inbox'[t] = inbox[t]]_vars

-----------------------------------------------------------------------------
(* What the ledger promises: the attempts and their owners are hidden, the *)
(* inbox is the record of notifications.                                   *)

Promise == INSTANCE TaskOutcome WITH
    MaxRounds <- MaxAttempts,
    outcome <- [t \in Tasks |->
                  IF taskStatus[t] \in Open THEN "open" ELSE taskStatus[t]],
    notes <- inbox,
    written <- landed

\* The fenced attempts of a task, whoever calls them and in whatever order,
\* behave as one submission that settles once per round with one
\* notification, and is done only with a landed write.
KeepsPromise == Promise!Spec
=============================================================================
