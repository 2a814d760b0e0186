-------------------------- MODULE DurableTask_proofs --------------------------
(***************************************************************************)
(* Theorems about DurableTask, for any tasks, owners, retry identities and *)
(* attempt limit.                                                          *)
(***************************************************************************)
EXTENDS DurableTask, TLAPS

\* The invariants, for one task.  No transaction touches the rows
\* of two tasks, so each is proved for the task it touches and framed for
\* the others.
TaskInv(t) ==
    /\ RowsOf(t)
    /\ \A n \in AttemptNumbers :
          attempts[t][n].status \in Open =>
              n = lastAttempt[t] /\ taskStatus[t] \in Open
    /\ taskStatus[t] \in Open => attempts[t][lastAttempt[t]].status \in Open
    /\ taskStatus[t] = "absent" => retryCount[t] = 0
    /\ taskStatus[t] # "absent" => lastAttempt[t] = retryCount[t] + 1
    /\ \A n \in AttemptNumbers :
          inbox[t][n] # "none" =>
              \/ attempts[t][n].status = inbox[t][n]
              \/ /\ attempts[t][n].status = "fenced"
                 /\ inbox[t][n] = "failed"
                 /\ n = MaxAttempts
    /\ taskStatus[t] # "absent" =>
          inbox[t][lastAttempt[t]] =
              IF taskStatus[t] \in Terminal THEN taskStatus[t] ELSE "none"
    /\ \A m, n \in AttemptNumbers :
          /\ attempts[t][m].retryId = attempts[t][n].retryId
          /\ attempts[t][m].retryId # NoRetry
          => m = n

\* The inductive invariant.
LedgerInv == TypeOK /\ \A t \in Tasks : TaskInv(t)

\* It is the conjunction of the ledger's invariants.
LEMMA LedgerInvImplies ==
    ASSUME LedgerInv
    PROVE /\ TypeOK
          /\ RowsInOrder
          /\ OneOpenAttempt
          /\ OpenTaskIsClaimable
          /\ RetryCountNumbersLastAttempt
          /\ InboxAgreesWithAttempt
          /\ InboxAnnouncesOutcome
          /\ RetryIdOpensOneAttempt
BY DEF LedgerInv, TaskInv, RowsInOrder, OneOpenAttempt, OpenTaskIsClaimable,
       RetryCountNumbersLastAttempt, InboxAgreesWithAttempt,
       InboxAnnouncesOutcome, RetryIdOpensOneAttempt

\* A transaction that leaves the rows of u alone preserves its invariant.
LEMMA Frame ==
    ASSUME NEW u \in Tasks, TaskInv(u),
           taskStatus'[u] = taskStatus[u],
           retryCount'[u] = retryCount[u],
           lastAttempt'[u] = lastAttempt[u],
           attempts'[u] = attempts[u],
           inbox'[u] = inbox[u]
    PROVE TaskInv(u)'
BY DEF TaskInv, RowsOf

LEMMA InitLedger == Init => LedgerInv
<1> SUFFICES ASSUME Init PROVE LedgerInv
    OBVIOUS
<1> USE MaxAttemptsAssumption, NullsAssumption
<1>1. TypeOK
    BY DEF Init, TypeOK, AttemptRows, NoAttempt, Errors, Open, Terminal, AttemptNumbers
<1>2. ASSUME NEW t \in Tasks PROVE TaskInv(t)
    BY DEF Init, TaskInv, RowsOf, NoAttempt, Open, Terminal, AttemptNumbers
<1> QED BY <1>1, <1>2 DEF LedgerInv

\* What a claim finds and what it makes of the rows before it decides.
LEMMA ClaimShape ==
    ASSUME LedgerInv, NEW t \in Tasks, Claimable(t)
    PROVE /\ lastAttempt[t] \in AttemptNumbers
          /\ ClaimNumber(t) \in AttemptNumbers
          /\ ClaimNumber(t) \in {lastAttempt[t], lastAttempt[t] + 1}
          /\ FencedRows(t) \in [AttemptNumbers -> AttemptRows]
          /\ \A k \in AttemptNumbers :
                k # lastAttempt[t] /\ k # ClaimNumber(t) =>
                    FencedRows(t)[k] = attempts[t][k]
          /\ ~Orphaned(t) => /\ ClaimNumber(t) = lastAttempt[t]
                             /\ FencedRows(t) = attempts[t]
                             /\ attempts[t][lastAttempt[t]].status = "queued"
          /\ Orphaned(t) /\ ~Exhausted(t) =>
                /\ ClaimNumber(t) = lastAttempt[t] + 1
                /\ FencedRows(t)[lastAttempt[t]] =
                      [attempts[t][lastAttempt[t]] EXCEPT !.status = "fenced"]
                /\ FencedRows(t)[ClaimNumber(t)] = QueuedAttempt(NoRetry)
          /\ Exhausted(t) =>
                /\ lastAttempt[t] = MaxAttempts
                /\ ClaimNumber(t) = lastAttempt[t]
                /\ FencedRows(t)[lastAttempt[t]] =
                      [attempts[t][lastAttempt[t]] EXCEPT !.status = "fenced"]
<1> USE MaxAttemptsAssumption DEF AttemptNumbers
<1>1. lastAttempt[t] \in AttemptNumbers
    BY DEF LedgerInv, TypeOK, TaskInv, RowsOf, Claimable, Open
<1>2. attempts[t] \in [AttemptNumbers -> AttemptRows]
    BY DEF LedgerInv, TypeOK
<1>3. ClaimNumber(t) \in AttemptNumbers
    BY <1>1 DEF ClaimNumber, Orphaned, Exhausted
<1>4. FencedRows(t) \in [AttemptNumbers -> AttemptRows]
    BY <1>2 DEF FencedRows, QueuedAttempt, AttemptRows
<1>5. ~Orphaned(t) => attempts[t][lastAttempt[t]].status = "queued"
    BY <1>1 DEF LedgerInv, TaskInv, Claimable, Orphaned, Open
<1>6. ~Orphaned(t) => FencedRows(t) = attempts[t]
    BY <1>2 DEF FencedRows
<1>7. ClaimNumber(t) = IF Orphaned(t) /\ ~Exhausted(t) THEN lastAttempt[t] + 1 ELSE lastAttempt[t]
    BY DEF ClaimNumber
<1>8. \A k \in AttemptNumbers :
        k # lastAttempt[t] /\ k # ClaimNumber(t) => FencedRows(t)[k] = attempts[t][k]
    BY DEF FencedRows
<1>9. Orphaned(t) => /\ FencedRows(t)[lastAttempt[t]] =
                            [attempts[t][lastAttempt[t]] EXCEPT !.status = "fenced"]
                     /\ ClaimNumber(t) # lastAttempt[t] =>
                            FencedRows(t)[ClaimNumber(t)] = QueuedAttempt(NoRetry)
    BY <1>1, <1>3 DEF FencedRows
<1>10. Exhausted(t) => Orphaned(t) /\ lastAttempt[t] = MaxAttempts
    BY <1>1 DEF Exhausted
<1>11. lastAttempt[t] + 1 # lastAttempt[t]
    BY <1>1
<1> QED
    BY <1>1, <1>3, <1>4, <1>5, <1>6, <1>7, <1>8, <1>9, <1>10, <1>11

-----------------------------------------------------------------------------
(* Each transaction preserves the invariant.                               *)

LEMMA SubmitPreserves ==
    ASSUME LedgerInv, NEW t \in Tasks, Submit(t)
    PROVE LedgerInv'
<1> USE MaxAttemptsAssumption, NullsAssumption DEF AttemptNumbers
<1>1. TypeOK'
    BY DEF LedgerInv, TypeOK, Submit, AttemptRows, QueuedAttempt, Open
<1>2. lastAttempt[t] = 0 /\ retryCount[t] \in 0 .. MaxAttempts
    BY DEF LedgerInv, TypeOK, TaskInv, RowsOf, Submit
<1>3. TaskInv(t)'
  <2>1. /\ taskStatus'[t] = "queued"
        /\ lastAttempt'[t] = 1
        /\ attempts'[t] = [attempts[t] EXCEPT ![1] = QueuedAttempt(NoRetry)]
        /\ UNCHANGED <<retryCount, inbox>>
      BY DEF LedgerInv, TypeOK, Submit
  <2>2. \A n \in AttemptNumbers : attempts[t][n] = NoAttempt /\ inbox[t][n] = "none"
      BY <1>2 DEF LedgerInv, TaskInv, RowsOf
  <2>3. taskStatus[t] = "absent" /\ retryCount[t] = 0
      BY DEF LedgerInv, TaskInv, Submit
  <2>4. /\ attempts'[t][1] = QueuedAttempt(NoRetry)
        /\ \A n \in AttemptNumbers : n # 1 => attempts'[t][n] = NoAttempt
        /\ \A n \in AttemptNumbers : inbox'[t][n] = "none"
      BY <2>1, <2>2 DEF LedgerInv, TypeOK
  <2> QED
      BY <2>1, <2>3, <2>4
      DEF TaskInv, RowsOf, Open, Terminal, NoAttempt, QueuedAttempt
<1>4. ASSUME NEW u \in Tasks, u # t PROVE TaskInv(u)'
    BY <1>4, Frame DEF LedgerInv, TypeOK, Submit
<1> QED BY <1>1, <1>3, <1>4 DEF LedgerInv

LEMMA ClaimSettles ==
    ASSUME LedgerInv, NEW t \in Tasks, Claimable(t), ClaimCounters(t),
           NEW outcome \in Terminal, NEW rowStatus, NEW error \in Errors,
           SettleInClaim(t, ClaimNumber(t), outcome, rowStatus, error),
           \/ rowStatus = outcome
           \/ Exhausted(t) /\ rowStatus = "fenced" /\ outcome = "failed"
    PROVE LedgerInv'
<1> DEFINE m == ClaimNumber(t)
           last == lastAttempt[t]
<1> USE MaxAttemptsAssumption, NullsAssumption DEF AttemptNumbers
<1>1. /\ taskStatus' = [taskStatus EXCEPT ![t] = outcome]
      /\ taskError' = [taskError EXCEPT ![t] = error]
      /\ attempts' = [attempts EXCEPT ![t] = [FencedRows(t) EXCEPT ![m].status = rowStatus]]
      /\ inbox[t][m] \in {"none", outcome}
      /\ inbox' = [inbox EXCEPT ![t][m] = outcome]
      /\ lastAttempt' = [lastAttempt EXCEPT ![t] = m]
      /\ UNCHANGED <<cancelRequested, landed>>
    BY DEF SettleInClaim, Emit, ClaimCounters
<1>2. /\ m \in AttemptNumbers
      /\ last \in AttemptNumbers
      /\ FencedRows(t) \in [AttemptNumbers -> AttemptRows]
    BY ClaimShape
<1>3. retryCount' = [retryCount EXCEPT ![t] = IF Orphaned(t) /\ ~Exhausted(t) THEN last ELSE @]
    BY DEF ClaimCounters
<1>4. TypeOK'
  <2>1. rowStatus \in {"fenced"} \cup Terminal
      OBVIOUS
  <2>2. [FencedRows(t) EXCEPT ![m].status = rowStatus] \in [AttemptNumbers -> AttemptRows]
      BY <1>2, <2>1 DEF AttemptRows
  <2> QED
      BY <1>1, <1>2, <1>3, <2>2 DEF LedgerInv, TypeOK, Terminal
<1>5. TaskInv(t)'
  <2>1. /\ taskStatus'[t] = outcome
        /\ lastAttempt'[t] = m
        /\ attempts'[t] = [FencedRows(t) EXCEPT ![m].status = rowStatus]
        /\ inbox'[t] = [inbox[t] EXCEPT ![m] = outcome]
    BY <1>1, <1>2 DEF LedgerInv, TypeOK
  <2>2. /\ attempts'[t][m].status = rowStatus
        /\ attempts'[t][m].retryId = FencedRows(t)[m].retryId
        /\ \A k \in AttemptNumbers : k # m => attempts'[t][k] = FencedRows(t)[k]
        /\ inbox'[t][m] = outcome
        /\ \A k \in AttemptNumbers : k # m => inbox'[t][k] = inbox[t][k]
    BY <1>2, <2>1 DEF LedgerInv, TypeOK, AttemptRows
  <2>3. retryCount'[t] = m - 1
    <3>0. retryCount[t] \in 0 .. MaxAttempts /\ last = retryCount[t] + 1
      BY DEF LedgerInv, TypeOK, TaskInv, Claimable, Open
    <3>1. retryCount[t] = last - 1
      BY <3>0
    <3>2. retryCount'[t] = IF Orphaned(t) /\ ~Exhausted(t) THEN last ELSE retryCount[t]
      BY <1>3 DEF LedgerInv, TypeOK
    <3>3. m = IF Orphaned(t) /\ ~Exhausted(t) THEN last + 1 ELSE last
      BY DEF ClaimNumber
    <3> QED
      BY <1>2, <3>1, <3>2, <3>3
  <2>7. /\ RowsOf(t)
        /\ inbox[t][last] = "none"
        /\ taskStatus[t] \in Open
        /\ \A n \in AttemptNumbers : attempts[t][n].status \in Open => n = last
        /\ \A k, n \in AttemptNumbers :
              /\ attempts[t][k].retryId = attempts[t][n].retryId
              /\ attempts[t][k].retryId # NoRetry
              => k = n
      BY DEF LedgerInv, TaskInv, Claimable, Open, Terminal
  <2>8. \A n \in AttemptNumbers :
          inbox[t][n] # "none" =>
              \/ attempts[t][n].status = inbox[t][n]
              \/ /\ attempts[t][n].status = "fenced"
                 /\ inbox[t][n] = "failed"
                 /\ n = MaxAttempts
      BY DEF LedgerInv, TaskInv
  <2>4. CASE ~Orphaned(t)
    <3>1. /\ m = last
          /\ FencedRows(t) = attempts[t]
          /\ rowStatus = outcome
      BY <2>4, ClaimShape DEF Exhausted
    <3>2. RowsOf(t)'
      BY <1>2, <2>1, <2>2, <2>7, <3>1 DEF RowsOf, Open, Terminal
    <3>3. \A n \in AttemptNumbers : attempts'[t][n].status \in Open => FALSE
      BY <1>2, <2>2, <2>7, <3>1 DEF Open, Terminal
    <3>4. \A n \in AttemptNumbers :
            inbox'[t][n] # "none" =>
              \/ attempts'[t][n].status = inbox'[t][n]
              \/ /\ attempts'[t][n].status = "fenced"
                 /\ inbox'[t][n] = "failed"
                 /\ n = MaxAttempts
      BY <1>2, <2>2, <2>7, <2>8, <3>1
    <3>5. \A n \in AttemptNumbers : attempts'[t][n].retryId = attempts[t][n].retryId
      BY <1>2, <2>2, <3>1
    <3>6. \A k, n \in AttemptNumbers :
              /\ attempts'[t][k].retryId = attempts'[t][n].retryId
              /\ attempts'[t][k].retryId # NoRetry
              => k = n
      BY <2>7, <3>5
    <3>7. lastAttempt'[t] = retryCount'[t] + 1
      BY <1>2, <2>1, <2>3
    <3>8. inbox'[t][lastAttempt'[t]] = outcome
      BY <2>1, <2>2
    <3> QED
      BY <2>1, <3>2, <3>3, <3>4, <3>6, <3>7, <3>8 DEF TaskInv, Open, Terminal
  <2>5. CASE Orphaned(t) /\ ~Exhausted(t)
    <3>1. /\ m = last + 1
          /\ FencedRows(t)[last] = [attempts[t][last] EXCEPT !.status = "fenced"]
          /\ FencedRows(t)[m] = QueuedAttempt(NoRetry)
          /\ \A k \in AttemptNumbers :
                k # last /\ k # m => FencedRows(t)[k] = attempts[t][k]
          /\ rowStatus = outcome
      BY <2>5, ClaimShape
    <3>2. /\ attempts'[t][last].status = "fenced"
          /\ attempts'[t][last].retryId = attempts[t][last].retryId
          /\ attempts'[t][m].retryId = NoRetry
          /\ \A k \in AttemptNumbers :
                k # last /\ k # m => attempts'[t][k] = attempts[t][k]
      <4>1. attempts[t][last] \in AttemptRows /\ m # last
        BY <1>2, <3>1 DEF LedgerInv, TypeOK
      <4> QED
        BY <1>2, <2>2, <3>1, <4>1 DEF AttemptRows, QueuedAttempt
    <3>3. /\ attempts'[t][m].status = outcome
          /\ attempts[t][last].status = "running"
          /\ \A k \in AttemptNumbers : k > last => inbox[t][k] = "none"
          /\ m > last
      BY <1>2, <2>2, <2>5, <2>7, <3>1 DEF RowsOf, Orphaned
    <3>4. RowsOf(t)'
      <4>1. lastAttempt'[t] = m /\ m # 0 /\ taskStatus'[t] # "absent"
        BY <1>2, <2>1, <3>1 DEF Terminal
      <4>2. ASSUME NEW n \in AttemptNumbers, n # last, n # m
            PROVE  /\ n > m => attempts'[t][n] = NoAttempt /\ inbox'[t][n] = "none"
                   /\ n <= m => attempts'[t][n].status # "none"
                   /\ attempts'[t][n].status \in Terminal => inbox'[t][n] = attempts'[t][n].status
        BY <1>2, <2>2, <2>7, <3>1, <3>2, <4>2 DEF RowsOf
      <4>3. /\ attempts'[t][last].status = "fenced" /\ last < m
            /\ attempts'[t][m].status = outcome /\ inbox'[t][m] = outcome
        BY <1>2, <2>2, <3>2, <3>3
      <4> QED
        BY <1>2, <4>1, <4>2, <4>3 DEF RowsOf, Terminal
    <3>5. \A n \in AttemptNumbers : attempts'[t][n].status \notin Open
      BY <1>2, <2>7, <3>2, <3>3 DEF Open, Terminal
    <3>6. \A n \in AttemptNumbers :
            inbox'[t][n] # "none" =>
              \/ attempts'[t][n].status = inbox'[t][n]
              \/ /\ attempts'[t][n].status = "fenced"
                 /\ inbox'[t][n] = "failed"
                 /\ n = MaxAttempts
      BY <1>2, <2>2, <2>7, <2>8, <3>2, <3>3
    <3>7. \A k, n \in AttemptNumbers :
              /\ attempts'[t][k].retryId = attempts'[t][n].retryId
              /\ attempts'[t][k].retryId # NoRetry
              => k = n
      BY <1>2, <2>7, <3>2, <3>3
    <3> QED
      BY <1>2, <2>1, <2>2, <2>3, <3>3, <3>4, <3>5, <3>6, <3>7
      DEF TaskInv, Open, Terminal
  <2>6. CASE Exhausted(t)
    <3>1. /\ m = last
          /\ last = MaxAttempts
          /\ FencedRows(t)[last] = [attempts[t][last] EXCEPT !.status = "fenced"]
          /\ \A k \in AttemptNumbers : k # last => FencedRows(t)[k] = attempts[t][k]
      BY <2>6, ClaimShape
    <3>2. /\ attempts'[t][last].retryId = attempts[t][last].retryId
          /\ \A k \in AttemptNumbers : k # last => attempts'[t][k] = attempts[t][k]
      BY <1>2, <2>2, <3>1 DEF LedgerInv, TypeOK, AttemptRows
    <3> QED
      BY <1>2, <2>1, <2>2, <2>3, <2>7, <2>8, <3>1, <3>2
      DEF TaskInv, RowsOf, Open, Terminal
  <2> QED
    BY <2>4, <2>5, <2>6 DEF Exhausted
<1>6. ASSUME NEW u \in Tasks, u # t PROVE TaskInv(u)'
    BY <1>1, <1>3, <1>6, Frame DEF LedgerInv, TypeOK
<1> QED BY <1>4, <1>5, <1>6 DEF LedgerInv

LEMMA ClaimRunsPreserves ==
    ASSUME LedgerInv, NEW t \in Tasks, NEW o \in Owners, ClaimRuns(t, o)
    PROVE LedgerInv'
<1> DEFINE m == ClaimNumber(t)
           last == lastAttempt[t]
           row == [FencedRows(t)[m] EXCEPT !.status = "running", !.owner = o,
                                           !.lease = "live"]
<1> USE MaxAttemptsAssumption, NullsAssumption DEF AttemptNumbers
<1>1. /\ Claimable(t)
      /\ ~Exhausted(t)
      /\ taskStatus' = [taskStatus EXCEPT ![t] = "running"]
      /\ taskError' = [taskError EXCEPT ![t] = "none"]
      /\ lastAttempt' = [lastAttempt EXCEPT ![t] = m]
      /\ retryCount' = [retryCount EXCEPT ![t] = IF Orphaned(t) THEN last ELSE @]
      /\ UNCHANGED <<cancelRequested, inbox, landed>>
    BY DEF ClaimRuns, ClaimCounters
<1>2. /\ m \in AttemptNumbers
      /\ last \in AttemptNumbers
      /\ FencedRows(t) \in [AttemptNumbers -> AttemptRows]
    BY <1>1, ClaimShape
<1>3. attempts' = [attempts EXCEPT ![t] = [FencedRows(t) EXCEPT ![m] = row]]
  <2>1. FencedRows(t)[m] \in AttemptRows
    BY <1>2
  <2> QED
    BY <1>2, <2>1 DEF ClaimRuns, AttemptRows
<1>4. row \in AttemptRows /\ row.status = "running" /\ row.retryId = FencedRows(t)[m].retryId
    BY <1>2 DEF AttemptRows
<1>5. TypeOK'
    BY <1>1, <1>2, <1>3, <1>4 DEF LedgerInv, TypeOK, Open, Errors
<1>6. TaskInv(t)'
  <2>1. /\ taskStatus'[t] = "running"
        /\ lastAttempt'[t] = m
        /\ attempts'[t] = [FencedRows(t) EXCEPT ![m] = row]
        /\ inbox'[t] = inbox[t]
        /\ retryCount'[t] = IF Orphaned(t) THEN last ELSE retryCount[t]
    BY <1>1, <1>2, <1>3 DEF LedgerInv, TypeOK
  <2>2. /\ attempts'[t][m].status = "running"
        /\ attempts'[t][m].retryId = FencedRows(t)[m].retryId
        /\ \A k \in AttemptNumbers : k # m => attempts'[t][k] = FencedRows(t)[k]
    BY <1>2, <1>4, <2>1
  <2>3. /\ RowsOf(t)
        /\ inbox[t][last] = "none"
        /\ taskStatus[t] \in Open
        /\ last = retryCount[t] + 1
        /\ \A n \in AttemptNumbers : attempts[t][n].status \in Open => n = last
        /\ \A k, n \in AttemptNumbers :
              /\ attempts[t][k].retryId = attempts[t][n].retryId
              /\ attempts[t][k].retryId # NoRetry
              => k = n
    BY <1>1 DEF LedgerInv, TaskInv, Claimable, Open, Terminal
  <2>4. \A n \in AttemptNumbers :
          inbox[t][n] # "none" =>
              \/ attempts[t][n].status = inbox[t][n]
              \/ /\ attempts[t][n].status = "fenced"
                 /\ inbox[t][n] = "failed"
                 /\ n = MaxAttempts
    BY DEF LedgerInv, TaskInv
  <2>5. CASE ~Orphaned(t)
    <3>1. /\ m = last
          /\ FencedRows(t) = attempts[t]
      BY <1>1, <2>5, ClaimShape
    <3>2. m = retryCount'[t] + 1
      BY <2>1, <2>3, <2>5, <3>1
    <3>3. RowsOf(t)'
      BY <1>2, <2>1, <2>2, <2>3, <3>1 DEF RowsOf, Open, Terminal
    <3>4. \A n \in AttemptNumbers : attempts'[t][n].status \in Open => n = m
      BY <1>2, <2>2, <2>3, <3>1 DEF Open, Terminal
    <3>5. \A n \in AttemptNumbers :
            inbox'[t][n] # "none" =>
              \/ attempts'[t][n].status = inbox'[t][n]
              \/ /\ attempts'[t][n].status = "fenced"
                 /\ inbox'[t][n] = "failed"
                 /\ n = MaxAttempts
      BY <1>2, <2>1, <2>2, <2>3, <2>4, <3>1
    <3>6. \A n \in AttemptNumbers : attempts'[t][n].retryId = attempts[t][n].retryId
      BY <1>2, <2>2, <3>1
    <3>7. \A k, n \in AttemptNumbers :
              /\ attempts'[t][k].retryId = attempts'[t][n].retryId
              /\ attempts'[t][k].retryId # NoRetry
              => k = n
      BY <2>3, <3>6
    <3> QED
      BY <1>2, <2>1, <2>2, <2>3, <3>1, <3>2, <3>3, <3>4, <3>5, <3>7 DEF TaskInv, Open, Terminal
  <2>6. CASE Orphaned(t)
    <3>1. /\ m = last + 1
          /\ FencedRows(t)[last] = [attempts[t][last] EXCEPT !.status = "fenced"]
          /\ FencedRows(t)[m] = QueuedAttempt(NoRetry)
          /\ \A k \in AttemptNumbers :
                k # last /\ k # m => FencedRows(t)[k] = attempts[t][k]
      BY <1>1, <2>6, ClaimShape
    <3>2. /\ attempts'[t][last].status = "fenced"
          /\ attempts'[t][last].retryId = attempts[t][last].retryId
          /\ attempts'[t][m].retryId = NoRetry
          /\ \A k \in AttemptNumbers :
                k # last /\ k # m => attempts'[t][k] = attempts[t][k]
      <4>1. attempts[t][last] \in AttemptRows /\ m # last
        BY <1>2, <3>1 DEF LedgerInv, TypeOK
      <4> QED
        BY <1>2, <2>2, <3>1, <4>1 DEF AttemptRows, QueuedAttempt
    <3>3. /\ attempts[t][last].status = "running"
          /\ \A k \in AttemptNumbers : k > last => inbox[t][k] = "none"
          /\ m > last
          /\ m = retryCount'[t] + 1
      BY <1>2, <2>1, <2>3, <2>6, <3>1 DEF RowsOf, Orphaned
    <3>4. RowsOf(t)'
      BY <1>2, <2>1, <2>2, <2>3, <3>1, <3>2, <3>3 DEF RowsOf, Open, Terminal
    <3>5. \A n \in AttemptNumbers : attempts'[t][n].status \in Open => n = m
      BY <1>2, <2>3, <3>2, <3>3 DEF Open, Terminal
    <3>6. \A n \in AttemptNumbers :
            inbox'[t][n] # "none" =>
              \/ attempts'[t][n].status = inbox'[t][n]
              \/ /\ attempts'[t][n].status = "fenced"
                 /\ inbox'[t][n] = "failed"
                 /\ n = MaxAttempts
      BY <1>2, <2>1, <2>2, <2>3, <2>4, <3>2, <3>3
    <3>7. \A k, n \in AttemptNumbers :
              /\ attempts'[t][k].retryId = attempts'[t][n].retryId
              /\ attempts'[t][k].retryId # NoRetry
              => k = n
      BY <1>2, <2>3, <3>2, <3>3
    <3> QED
      BY <1>2, <2>1, <2>2, <3>3, <3>4, <3>5, <3>6, <3>7
      DEF TaskInv, Open, Terminal
  <2> QED
    BY <2>5, <2>6
<1>7. ASSUME NEW u \in Tasks, u # t PROVE TaskInv(u)'
    BY <1>1, <1>3, <1>7, Frame DEF LedgerInv, TypeOK
<1> QED BY <1>5, <1>6, <1>7 DEF LedgerInv

LEMMA LeaseExpiresPreserves ==
    ASSUME LedgerInv, NEW t \in Tasks, NEW n \in AttemptNumbers, LeaseExpires(t, n)
    PROVE LedgerInv'
<1>1. TypeOK'
  <2>1. attempts[t][n] \in AttemptRows
    BY DEF LedgerInv, TypeOK
  <2>2. [attempts[t][n] EXCEPT !.lease = "past"] \in AttemptRows
    BY <2>1 DEF AttemptRows
  <2>3. attempts' \in [Tasks -> [AttemptNumbers -> AttemptRows]]
    BY <2>2 DEF LedgerInv, TypeOK, LeaseExpires
  <2> QED
    BY <2>3 DEF LedgerInv, TypeOK, LeaseExpires, taskVars
<1>2. /\ UNCHANGED <<taskStatus, retryCount, lastAttempt, inbox>>
      /\ \A u \in Tasks, k \in AttemptNumbers :
            /\ attempts'[u][k].status = attempts[u][k].status
            /\ attempts'[u][k].retryId = attempts[u][k].retryId
            /\ attempts'[u][k] = attempts[u][k] \/ attempts[u][k].status = "running"
    BY DEF LedgerInv, TypeOK, LeaseExpires, taskVars, AttemptRows
<1>3. ASSUME NEW u \in Tasks PROVE TaskInv(u)'
  <2>1. TaskInv(u)
    BY DEF LedgerInv
  <2>2. lastAttempt[u] \in 0 .. MaxAttempts
    BY DEF LedgerInv, TypeOK
  <2>3. RowsOf(u)'
    BY <1>2, <2>1 DEF TaskInv, RowsOf, NoAttempt
  <2> QED
    BY <1>2, <2>1, <2>2, <2>3, MaxAttemptsAssumption
    DEF TaskInv, RowsOf, AttemptNumbers, Open
<1> QED BY <1>1, <1>3 DEF LedgerInv

LEMMA FinishPreserves ==
    ASSUME LedgerInv, NEW t \in Tasks, NEW n \in AttemptNumbers, NEW o \in Owners,
           NEW outcome \in Terminal, NEW error \in Errors,
           Finish(t, n, o, outcome, error)
    PROVE LedgerInv'
<1> USE MaxAttemptsAssumption DEF AttemptNumbers
<1>1. TypeOK'
  <2>1. attempts[t][n] \in AttemptRows
    BY DEF LedgerInv, TypeOK
  <2>2. [attempts[t][n] EXCEPT !.status = outcome, !.lease = "past"] \in AttemptRows
    BY <2>1 DEF AttemptRows
  <2>3. attempts' = [attempts EXCEPT ![t][n] =
                       [attempts[t][n] EXCEPT !.status = outcome, !.lease = "past"]]
    BY <2>1 DEF LedgerInv, TypeOK, Finish, AttemptRows
  <2>4. attempts' \in [Tasks -> [AttemptNumbers -> AttemptRows]]
    BY <2>2, <2>3 DEF LedgerInv, TypeOK
  <2> QED
    BY <2>4 DEF LedgerInv, TypeOK, Finish, Emit
<1>2. TaskInv(t)'
  <2>1. /\ n = lastAttempt[t]
        /\ taskStatus[t] \in Open
    BY DEF LedgerInv, TaskInv, Finish, Owns, Open
  <2>2. /\ taskStatus'[t] = outcome
        /\ lastAttempt'[t] = n
        /\ retryCount'[t] = retryCount[t]
        /\ attempts'[t][n].status = outcome
        /\ attempts'[t][n].retryId = attempts[t][n].retryId
        /\ \A k \in AttemptNumbers : k # n => attempts'[t][k] = attempts[t][k]
        /\ inbox'[t][n] = outcome
        /\ \A k \in AttemptNumbers : k # n => inbox'[t][k] = inbox[t][k]
    BY <2>1 DEF LedgerInv, TypeOK, Finish, Emit, AttemptRows
  <2> QED
    BY <2>1, <2>2 DEF LedgerInv, TaskInv, RowsOf, Open, Terminal
<1>3. ASSUME NEW u \in Tasks, u # t PROVE TaskInv(u)'
    BY <1>3, Frame DEF LedgerInv, TypeOK, Finish, Emit
<1> QED BY <1>1, <1>2, <1>3 DEF LedgerInv

\* Replaying a finish mints nothing: the item is already there.
LEMMA FinishReplayStutters ==
    ASSUME LedgerInv, NEW t \in Tasks, NEW n \in AttemptNumbers,
           NEW outcome \in Terminal, FinishReplay(t, n, outcome)
    PROVE UNCHANGED vars
<1>1. inbox[t][n] = outcome
    BY DEF LedgerInv, TaskInv, RowsOf, FinishReplay
<1> QED
    BY <1>1 DEF LedgerInv, TypeOK, FinishReplay, Emit, vars

LEMMA RequestCancelPreserves ==
    ASSUME LedgerInv, NEW t \in Tasks, RequestCancel(t)
    PROVE LedgerInv'
<1>1. TypeOK'
    BY DEF LedgerInv, TypeOK, RequestCancel
<1>2. ASSUME NEW u \in Tasks PROVE TaskInv(u)'
    BY Frame DEF LedgerInv, RequestCancel
<1> QED BY <1>1, <1>2 DEF LedgerInv

LEMMA RetryPreserves ==
    ASSUME LedgerInv, NEW t \in Tasks, NEW id \in RetryIds, Retry(t, id)
    PROVE LedgerInv'
<1> DEFINE m == lastAttempt[t] + 1
<1> USE MaxAttemptsAssumption, NullsAssumption DEF AttemptNumbers
<1>1. /\ lastAttempt[t] \in AttemptNumbers
      /\ m \in AttemptNumbers
      /\ retryCount[t] \in 0 .. MaxAttempts
      /\ taskStatus[t] \in {"failed", "cancelled"}
    BY DEF LedgerInv, TypeOK, TaskInv, RowsOf, Retry, ReopenTask
<1>2. TypeOK'
    BY <1>1 DEF LedgerInv, TypeOK, Retry, ReopenTask, AttemptRows, QueuedAttempt, Open, Errors
<1>3. TaskInv(t)'
  <2>1. /\ taskStatus'[t] = "queued"
        /\ lastAttempt'[t] = m
        /\ retryCount'[t] = lastAttempt[t]
        /\ attempts'[t][m] = QueuedAttempt(id)
        /\ \A k \in AttemptNumbers : k # m => attempts'[t][k] = attempts[t][k]
        /\ inbox'[t] = inbox[t]
    BY <1>1 DEF LedgerInv, TypeOK, Retry, ReopenTask
  <2>2. /\ RowsOf(t)
        /\ \A k \in AttemptNumbers : attempts[t][k].status \notin Open
        /\ \A k \in AttemptNumbers : attempts[t][k].retryId # id
        /\ \A k, n \in AttemptNumbers :
              /\ attempts[t][k].retryId = attempts[t][n].retryId
              /\ attempts[t][k].retryId # NoRetry
              => k = n
    BY <1>1 DEF LedgerInv, TaskInv, Retry, ReopenTask, Open
  <2>3. \A n \in AttemptNumbers :
          inbox[t][n] # "none" =>
              \/ attempts[t][n].status = inbox[t][n]
              \/ /\ attempts[t][n].status = "fenced"
                 /\ inbox[t][n] = "failed"
                 /\ n = MaxAttempts
    BY DEF LedgerInv, TaskInv
  <2>4. inbox[t][m] = "none"
    BY <1>1, <2>2 DEF RowsOf
  <2>5. RowsOf(t)'
    BY <1>1, <2>1, <2>2, <2>4 DEF RowsOf, QueuedAttempt, Terminal
  <2>6. \A k \in AttemptNumbers : attempts'[t][k].status \in Open => k = m
    BY <1>1, <2>1, <2>2 DEF QueuedAttempt
  <2>7. \A n \in AttemptNumbers :
            inbox'[t][n] # "none" =>
              \/ attempts'[t][n].status = inbox'[t][n]
              \/ /\ attempts'[t][n].status = "fenced"
                 /\ inbox'[t][n] = "failed"
                 /\ n = MaxAttempts
    BY <1>1, <2>1, <2>3, <2>4
  <2>8. \A k, n \in AttemptNumbers :
              /\ attempts'[t][k].retryId = attempts'[t][n].retryId
              /\ attempts'[t][k].retryId # NoRetry
              => k = n
    BY <1>1, <2>1, <2>2 DEF QueuedAttempt
  <2> QED
    BY <1>1, <2>1, <2>4, <2>5, <2>6, <2>7, <2>8
    DEF TaskInv, QueuedAttempt, Open, Terminal
<1>4. ASSUME NEW u \in Tasks, u # t PROVE TaskInv(u)'
    BY <1>4, Frame DEF LedgerInv, TypeOK, Retry, ReopenTask
<1> QED BY <1>2, <1>3, <1>4 DEF LedgerInv

LEMMA LandPreserves ==
    ASSUME LedgerInv, NEW t \in Tasks, NEW n \in AttemptNumbers, NEW o \in Owners,
           Land(t, n, o)
    PROVE LedgerInv'
<1>1. TypeOK'
    BY DEF LedgerInv, TypeOK, Land, taskVars
<1>2. ASSUME NEW u \in Tasks PROVE TaskInv(u)'
    BY Frame DEF LedgerInv, Land, taskVars
<1> QED BY <1>1, <1>2 DEF LedgerInv

LEMMA ClaimPreserves ==
    ASSUME LedgerInv, NEW t \in Tasks, NEW o \in Owners, Claim(t, o)
    PROVE LedgerInv'
<1> USE DEF Terminal
<1>1. CASE ClaimReconciles(t)
    BY <1>1, ClaimSettles DEF ClaimReconciles, Errors
<1>2. CASE ClaimExhausts(t)
    BY <1>2, ClaimSettles DEF ClaimExhausts, Errors
<1>3. CASE ClaimCancels(t)
    BY <1>3, ClaimSettles DEF ClaimCancels, LedgerInv, TypeOK
<1>4. CASE ClaimRuns(t, o)
    BY <1>4, ClaimRunsPreserves
<1> QED BY <1>1, <1>2, <1>3, <1>4 DEF Claim

LEMMA NextPreserves ==
    ASSUME LedgerInv, [Next]_vars
    PROVE LedgerInv'
<1>1. ASSUME UNCHANGED vars PROVE LedgerInv'
  <2>1. TypeOK'
    BY <1>1 DEF LedgerInv, TypeOK, vars, taskVars
  <2>2. \A u \in Tasks : TaskInv(u)'
    BY <1>1, Frame DEF LedgerInv, vars, taskVars
  <2> QED BY <2>1, <2>2 DEF LedgerInv
<1>2. ASSUME NEW t \in Tasks, Submit(t) PROVE LedgerInv'
    BY <1>2, SubmitPreserves
<1>3. ASSUME NEW t \in Tasks, RequestCancel(t) PROVE LedgerInv'
    BY <1>3, RequestCancelPreserves
<1>4. ASSUME NEW t \in Tasks, NEW id \in RetryIds, Retry(t, id) PROVE LedgerInv'
    BY <1>4, RetryPreserves
<1>5. ASSUME NEW t \in Tasks, NEW o \in Owners, Claim(t, o) PROVE LedgerInv'
    BY <1>5, ClaimPreserves
<1>6. ASSUME NEW t \in Tasks, NEW n \in AttemptNumbers, LeaseExpires(t, n)
      PROVE LedgerInv'
    BY <1>6, LeaseExpiresPreserves
<1>7. ASSUME NEW t \in Tasks, NEW n \in AttemptNumbers, NEW o \in Owners,
             OwnerStep(t, n, o)
      PROVE LedgerInv'
    BY <1>1, <1>7, FinishPreserves, FinishReplayStutters, LandPreserves DEF OwnerStep
<1> QED
    BY <1>1, <1>2, <1>3, <1>4, <1>5, <1>6, <1>7 DEF Next

-----------------------------------------------------------------------------
(* Invariants.                                                             *)

\* The ledger invariant holds in every behaviour of the transactions,
\* whoever calls them.
THEOREM LedgerInvariant == Spec => []LedgerInv
<1>1. LedgerInv /\ [Next]_vars => LedgerInv'
    BY NextPreserves
<1> QED BY InitLedger, <1>1, PTL DEF Spec

\* Every column keeps its domain.
THEOREM TypeCorrect == Spec => []TypeOK
<1>1. LedgerInv => TypeOK
    BY LedgerInvImplies
<1> QED BY LedgerInvariant, <1>1, PTL

\* A task never has two open attempts, and never an open one once it
\* settled: a claim, an expiry and a retry cannot be interleaved into two
\* owners.
THEOREM SingleOwner == Spec => []OneOpenAttempt
<1>1. LedgerInv => OneOpenAttempt
    BY LedgerInvImplies
<1> QED BY LedgerInvariant, <1>1, PTL

\* No open task is stranded without an attempt that a claim can pick up.
THEOREM NoStrandedTask == Spec => []OpenTaskIsClaimable
<1>1. LedgerInv => OpenTaskIsClaimable
    BY LedgerInvImplies
<1> QED BY LedgerInvariant, <1>1, PTL

\* The inbox always announces exactly how a task settled, so a settling
\* transaction is never rolled back by an item already there.
THEOREM InboxIsTrue == Spec => [](InboxAnnouncesOutcome /\ InboxAgreesWithAttempt)
<1>1. LedgerInv => InboxAnnouncesOutcome /\ InboxAgreesWithAttempt
    BY LedgerInvImplies
<1> QED BY LedgerInvariant, <1>1, PTL

\* retry_count + 1 numbers the last attempt, as the publication fence needs.
THEOREM FenceNumbering == Spec => []RetryCountNumbersLastAttempt
<1>1. LedgerInv => RetryCountNumbersLastAttempt
    BY LedgerInvImplies
<1> QED BY LedgerInvariant, <1>1, PTL

\* Attempt rows are numbered without gaps, and a settled row is announced.
THEOREM RowsStayInOrder == Spec => []RowsInOrder
<1>1. LedgerInv => RowsInOrder
    BY LedgerInvImplies
<1> QED BY LedgerInvariant, <1>1, PTL

\* One retry request identity opens at most one attempt, however often it
\* is replayed and whatever happened to the attempt since.
THEOREM RetryIsIdempotent == Spec => []RetryIdOpensOneAttempt
<1>1. LedgerInv => RetryIdOpensOneAttempt
    BY LedgerInvImplies
<1> QED BY LedgerInvariant, <1>1, PTL

-----------------------------------------------------------------------------
(* What a step may do.                                                     *)

\* Settled or fenced attempts, seen from a claim: the claim writes only the
\* last row, which is open, and the row after it.
LEMMA ClaimSparesClosedRows ==
    ASSUME LedgerInv, NEW t \in Tasks, NEW o \in Owners, Claim(t, o)
    PROVE /\ taskStatus[t] \in Open
          /\ \A u \in Tasks : u # t => /\ attempts'[u] = attempts[u]
                                       /\ inbox'[u] = inbox[u]
                                       /\ taskStatus'[u] = taskStatus[u]
                                       /\ lastAttempt'[u] = lastAttempt[u]
          /\ \A n \in AttemptNumbers :
                attempts[t][n].status \in {"fenced"} \cup Terminal =>
                    attempts'[t][n] = attempts[t][n] /\ inbox'[t][n] = inbox[t][n]
          /\ UNCHANGED <<cancelRequested, landed>>
          /\ \/ /\ taskStatus'[t] = "running"
                /\ UNCHANGED inbox
                /\ ~cancelRequested[t]
             \/ /\ taskStatus'[t] \in Terminal
                /\ taskStatus'[t] = "done" => t \in landed
                /\ inbox[t][ClaimNumber(t)] = "none"
                /\ inbox' = [inbox EXCEPT ![t][ClaimNumber(t)] = taskStatus'[t]]
                /\ \A n \in AttemptNumbers : attempts'[t][n].status # "running"
<1> DEFINE m == ClaimNumber(t)
           last == lastAttempt[t]
<1> USE MaxAttemptsAssumption DEF AttemptNumbers
<1>1. Claimable(t)
    BY DEF Claim, ClaimReconciles, ClaimExhausts, ClaimCancels, ClaimRuns
<1>2. /\ m \in AttemptNumbers
      /\ last \in AttemptNumbers
      /\ taskStatus[t] \in Open
      /\ attempts[t][last].status \in Open
      /\ \A n \in AttemptNumbers : attempts[t][n].status \in Open => n = last
      /\ \A n \in AttemptNumbers :
            n > last => attempts[t][n] = NoAttempt /\ inbox[t][n] = "none"
      /\ inbox[t][last] = "none"
  <2>1. m \in AttemptNumbers /\ last \in AttemptNumbers
    BY <1>1, ClaimShape
  <2> QED
    BY <1>1, <2>1 DEF LedgerInv, TaskInv, RowsOf, Claimable, Open, Terminal
<1>0. /\ m \in {last, last + 1}
      /\ FencedRows(t) \in [AttemptNumbers -> AttemptRows]
      /\ \A k \in AttemptNumbers : k # last /\ k # m => FencedRows(t)[k] = attempts[t][k]
  <2>1. m \in {last, last + 1}
    BY DEF ClaimNumber
  <2>2. FencedRows(t) \in [AttemptNumbers -> AttemptRows]
    BY <1>1, ClaimShape
  <2>3. \A k \in AttemptNumbers : k # last /\ k # m => FencedRows(t)[k] = attempts[t][k]
    BY <1>1, ClaimShape
  <2> QED BY <2>1, <2>2, <2>3
<1>3. inbox[t][m] = "none"
    BY <1>0, <1>2
<1>4. \A n \in AttemptNumbers :
          attempts[t][n].status \in {"fenced"} \cup Terminal =>
              n # m /\ FencedRows(t)[n] = attempts[t][n]
  <2>1. attempts[t][m].status \in {"none"} \cup Open
    BY <1>0, <1>2 DEF NoAttempt
  <2> QED
    BY <1>0, <1>2, <2>1 DEF Open, Terminal
<1>5. \A n \in AttemptNumbers : n # m => FencedRows(t)[n].status # "running"
  <2>1. CASE ~Orphaned(t)
    <3>1. m = last
      BY <1>1, <2>1, ClaimShape
    <3> QED BY <1>0, <1>2, <3>1 DEF Open
  <2>2. CASE Orphaned(t)
    <3>1. FencedRows(t)[last] = [attempts[t][last] EXCEPT !.status = "fenced"]
      BY <1>1, <2>2, ClaimShape
    <3>2. attempts[t][last] \in AttemptRows
      BY <1>2 DEF LedgerInv, TypeOK
    <3>3. FencedRows(t)[last].status = "fenced"
      BY <3>1, <3>2 DEF AttemptRows
    <3> QED BY <1>0, <1>2, <3>3 DEF Open
  <2> QED BY <2>1, <2>2
<1>6. ASSUME NEW outcome \in Terminal, NEW rowStatus \in {"fenced"} \cup Terminal, NEW error,
             ClaimCounters(t), SettleInClaim(t, m, outcome, rowStatus, error)
      PROVE /\ \A u \in Tasks : u # t => /\ attempts'[u] = attempts[u]
                                         /\ inbox'[u] = inbox[u]
                                         /\ taskStatus'[u] = taskStatus[u]
                                         /\ lastAttempt'[u] = lastAttempt[u]
            /\ \A n \in AttemptNumbers :
                  n # m => /\ attempts'[t][n] = FencedRows(t)[n]
                           /\ inbox'[t][n] = inbox[t][n]
            /\ attempts'[t][m].status = rowStatus
            /\ taskStatus'[t] = outcome
            /\ inbox' = [inbox EXCEPT ![t][m] = outcome]
            /\ UNCHANGED <<cancelRequested, landed>>
    BY <1>0, <1>2, <1>6
    DEF LedgerInv, TypeOK, SettleInClaim, Emit, ClaimCounters, AttemptRows
<1>7. ASSUME \/ ClaimReconciles(t) \/ ClaimExhausts(t) \/ ClaimCancels(t)
      PROVE /\ \A u \in Tasks : u # t => /\ attempts'[u] = attempts[u]
                                         /\ inbox'[u] = inbox[u]
                                         /\ taskStatus'[u] = taskStatus[u]
                                         /\ lastAttempt'[u] = lastAttempt[u]
            /\ \A n \in AttemptNumbers :
                  n # m => /\ attempts'[t][n] = FencedRows(t)[n]
                           /\ inbox'[t][n] = inbox[t][n]
            /\ attempts'[t][m].status # "running"
            /\ taskStatus'[t] \in Terminal
            /\ taskStatus'[t] = "done" => t \in landed
            /\ inbox' = [inbox EXCEPT ![t][m] = taskStatus'[t]]
            /\ UNCHANGED <<cancelRequested, landed>>
  <2>1. CASE ClaimReconciles(t)
    BY <1>6, <2>1 DEF ClaimReconciles, Terminal
  <2>2. CASE ClaimExhausts(t)
    BY <1>6, <2>2 DEF ClaimExhausts, Terminal
  <2>3. CASE ClaimCancels(t)
    BY <1>6, <2>3 DEF ClaimCancels, Terminal
  <2> QED BY <1>7, <2>1, <2>2, <2>3
<1>8. CASE ClaimRuns(t, o)
  <2>1. /\ UNCHANGED <<cancelRequested, landed, inbox>>
        /\ ~cancelRequested[t]
        /\ taskStatus' = [taskStatus EXCEPT ![t] = "running"]
        /\ lastAttempt' = [lastAttempt EXCEPT ![t] = m]
    BY <1>8 DEF ClaimRuns, ClaimCounters
  <2>2. /\ \A u \in Tasks : u # t => attempts'[u] = attempts[u]
        /\ \A n \in AttemptNumbers : n # m => attempts'[t][n] = FencedRows(t)[n]
    <3> DEFINE rows == [FencedRows(t) EXCEPT ![m].status = "running", ![m].owner = o,
                                             ![m].lease = "live"]
    <3>1. attempts' = [attempts EXCEPT ![t] = rows]
      BY <1>8 DEF ClaimRuns
    <3>2. \A n \in AttemptNumbers : n # m => rows[n] = FencedRows(t)[n]
      BY <1>0
    <3>3. attempts \in [Tasks -> [AttemptNumbers -> AttemptRows]]
      BY DEF LedgerInv, TypeOK
    <3> HIDE DEF rows
    <3> QED
      BY <3>1, <3>2, <3>3
  <2>3. /\ \A u \in Tasks : u # t => /\ inbox'[u] = inbox[u]
                                       /\ taskStatus'[u] = taskStatus[u]
                                       /\ lastAttempt'[u] = lastAttempt[u]
        /\ taskStatus'[t] = "running" /\ lastAttempt'[t] = m
    BY <2>1 DEF LedgerInv, TypeOK
  <2>4. \A n \in AttemptNumbers :
            attempts[t][n].status \in {"fenced"} \cup Terminal =>
                attempts'[t][n] = attempts[t][n] /\ inbox'[t][n] = inbox[t][n]
    BY <1>4, <2>1, <2>2
  <2> QED BY <1>2, <2>1, <2>2, <2>3, <2>4
<1>9. CASE ClaimReconciles(t) \/ ClaimExhausts(t) \/ ClaimCancels(t)
    BY <1>2, <1>3, <1>4, <1>5, <1>7, <1>9
<1> QED BY <1>8, <1>9 DEF Claim

\* A row that was claimed keeps its owner, and an owner that lost it does
\* not get it back.
LEMMA ClaimedRowsStay ==
    ASSUME LedgerInv, [Next]_vars, NEW t \in Tasks, NEW n \in AttemptNumbers,
           attempts[t][n].status \notin {"none", "queued"}
    PROVE  /\ attempts'[t][n].status \notin {"none", "queued"}
           /\ attempts'[t][n].owner = attempts[t][n].owner
           /\ \A o \in Owners : Owns(t, n, o)' => Owns(t, n, o)
<1> USE MaxAttemptsAssumption DEF AttemptNumbers
<1>1. CASE attempts'[t] = attempts[t]
  BY <1>1 DEF Owns
<1>2. /\ attempts \in [Tasks -> [AttemptNumbers -> AttemptRows]]
      /\ lastAttempt[t] \in 0 .. MaxAttempts
      /\ attempts[t][n] # NoAttempt /\ n <= lastAttempt[t]
  BY DEF LedgerInv, TypeOK, TaskInv, RowsOf, NoAttempt
<1>3. ASSUME NEW u \in Tasks, Submit(u) \/ RequestCancel(u) \/ \E id \in RetryIds : Retry(u, id)
      PROVE  attempts'[t][n] = attempts[t][n]
  <2>1. CASE RequestCancel(u)
    BY <2>1 DEF RequestCancel
  <2>2. CASE u # t
    BY <1>2, <1>3, <2>2 DEF Submit, RequestCancel, Retry, ReopenTask
  <2>3. CASE u = t /\ Submit(u)
    BY <1>2, <2>3 DEF Submit, LedgerInv, TaskInv, RowsOf
  <2>4. CASE u = t /\ \E id \in RetryIds : Retry(u, id)
    BY <1>2, <2>4 DEF Retry, ReopenTask
  <2> QED
    BY <1>3, <2>1, <2>2, <2>3, <2>4
<1>4. ASSUME NEW u \in Tasks, NEW k \in AttemptNumbers, LeaseExpires(u, k)
      PROVE  /\ attempts'[t][n].status = attempts[t][n].status
             /\ attempts'[t][n].owner = attempts[t][n].owner
             /\ attempts'[t][n].lease = "live" => attempts[t][n].lease = "live"
  BY <1>2, <1>4 DEF LeaseExpires, AttemptRows
<1>5. ASSUME NEW u \in Tasks, NEW k \in AttemptNumbers, NEW o \in Owners, OwnerStep(u, k, o)
      PROVE  /\ attempts'[t][n].status \in {attempts[t][n].status} \cup Terminal
             /\ attempts'[t][n].owner = attempts[t][n].owner
             /\ attempts'[t][n].lease = "live" => attempts[t][n].lease = "live"
  <2>1. ASSUME NEW outcome \in Terminal, NEW error, Finish(u, k, o, outcome, error)
        PROVE  /\ attempts'[t][n].status \in {attempts[t][n].status} \cup Terminal
               /\ attempts'[t][n].owner = attempts[t][n].owner
               /\ attempts'[t][n].lease = "live" => attempts[t][n].lease = "live"
    BY <1>2, <2>1 DEF Finish, AttemptRows
  <2>2. CASE Land(u, k, o) \/ \E outcome \in Terminal : FinishReplay(u, k, outcome)
    BY <2>2 DEF Land, FinishReplay
  <2> QED
    BY <1>5, <2>1, <2>2 DEF OwnerStep
<1>6. ASSUME NEW u \in Tasks, NEW o \in Owners, Claim(u, o), attempts'[t] # attempts[t]
      PROVE  /\ attempts'[t][n].owner = attempts[t][n].owner
             /\ \/ attempts'[t][n] = attempts[t][n]
                \/ attempts'[t][n].status \in {"fenced"} \cup Terminal
  <2> DEFINE m == ClaimNumber(t)
             last == lastAttempt[t]
  <2>1. u = t
    BY <1>6, ClaimSparesClosedRows
  <2>2. Claimable(t)
    BY <1>6, <2>1 DEF Claim, ClaimReconciles, ClaimExhausts, ClaimCancels, ClaimRuns
  <2>3. CASE n # m
    <3>1. attempts'[t][n] = FencedRows(t)[n]
      <4>1. FencedRows(t) \in [AttemptNumbers -> AttemptRows]
        BY <2>2, ClaimShape
      <4> QED
        BY <1>2, <1>6, <2>1, <2>3, <4>1 DEF Claim, ClaimReconciles, ClaimExhausts, ClaimCancels,
           ClaimRuns, SettleInClaim
    <3>2. CASE n # last
      BY <2>2, <2>3, <3>1, <3>2, ClaimShape
    <3>3. CASE n = last
      <4>1. FencedRows(t)[n] = [attempts[t][n] EXCEPT !.status = "fenced"]
        BY <2>2, <2>3, <3>3, ClaimShape
      <4> QED
        BY <1>2, <3>1, <4>1 DEF AttemptRows
    <3> QED
      BY <3>2, <3>3
  <2>4. CASE n = m
    <3>1. n = last /\ Exhausted(t)
          /\ FencedRows(t)[n] = [attempts[t][n] EXCEPT !.status = "fenced"]
          /\ FencedRows(t) \in [AttemptNumbers -> AttemptRows]
      <4>1. n = last
        <5>1. m \in {last, last + 1}
          BY DEF ClaimNumber
        <5> QED
          BY <1>2, <2>4, <5>1
      <4>2. Exhausted(t)
        <5>1. Orphaned(t)
          BY <2>2, <4>1, ClaimShape
        <5> QED
          BY <1>2, <2>4, <4>1, <5>1 DEF ClaimNumber
      <4> QED
        BY <2>2, <4>1, <4>2, ClaimShape
    <3>2. ~ClaimRuns(t, o)
      BY <3>1 DEF ClaimRuns
    <3>3. PICK rowStatus \in {"fenced"} \cup Terminal :
             attempts' = [attempts EXCEPT ![t] = [FencedRows(t) EXCEPT ![n].status = rowStatus]]
      BY <1>6, <2>1, <2>4, <3>2 DEF Claim, ClaimReconciles, ClaimExhausts, ClaimCancels,
         SettleInClaim, Terminal
    <3>4. attempts'[t][n] = [FencedRows(t)[n] EXCEPT !.status = rowStatus]
      BY <1>2, <3>1, <3>3
    <3> QED
      BY <1>2, <3>1, <3>4 DEF AttemptRows
  <2> QED
    BY <2>3, <2>4
<1>7. CASE UNCHANGED vars
  BY <1>1, <1>7 DEF vars
<1>8. CASE Next
  BY <1>1, <1>3, <1>4, <1>5, <1>6, <1>8 DEF Next, Owns, Terminal
<1> QED
  BY <1>7, <1>8

\* A claim that gives up on a task saw no receipt of it: none is there, or a
\* read of it may fail.
LEMMA ClaimsGiveUpUnlanded ==
    ASSUME LedgerInv, NEW u \in Tasks, NEW o \in Owners, Claim(u, o), NEW t \in Tasks,
           taskStatus'[t] \in {"failed", "cancelled"}
    PROVE  taskStatus'[t] = taskStatus[t] \/ t \notin landed \/ t \in Unreadable
BY DEF Claim, ClaimReconciles, ClaimExhausts, ClaimCancels, ClaimRuns, SettleInClaim, FindsNoReceipt,
   LedgerInv, TypeOK

\* What a worker gets of its claim.
LEMMA ClaimGivesRow ==
    ASSUME LedgerInv, NEW t \in Tasks, NEW o \in Owners, ClaimRuns(t, o)
    PROVE  /\ lastAttempt'[t] \in AttemptNumbers
           /\ attempts'[t][lastAttempt'[t]].status = "running"
           /\ attempts'[t][lastAttempt'[t]].owner = o
<1>1. /\ ClaimNumber(t) \in AttemptNumbers
      /\ FencedRows(t) \in [AttemptNumbers -> AttemptRows]
  BY ClaimShape DEF ClaimRuns
<1>2. lastAttempt'[t] = ClaimNumber(t)
  BY DEF ClaimRuns, ClaimCounters, LedgerInv, TypeOK
<1> QED
  BY <1>1, <1>2 DEF ClaimRuns, AttemptRows, LedgerInv, TypeOK

\* A task is only done with its receipt in the ledger.
LEMMA DoneNeedsReceipt ==
    ASSUME LedgerInv, [Next]_vars, NEW t \in Tasks, taskStatus'[t] = "done"
    PROVE  taskStatus[t] = "done" \/ t \in landed
<1>1. ASSUME NEW u \in Tasks, Submit(u) \/ RequestCancel(u) \/ \E id \in RetryIds : Retry(u, id)
      PROVE  taskStatus[t] = "done"
  BY <1>1 DEF Submit, RequestCancel, Retry, ReopenTask, LedgerInv, TypeOK
<1>2. ASSUME NEW u \in Tasks, NEW k \in AttemptNumbers, LeaseExpires(u, k)
      PROVE  taskStatus[t] = "done"
  BY <1>2 DEF LeaseExpires, taskVars
<1>3. ASSUME NEW u \in Tasks, NEW k \in AttemptNumbers, NEW o \in Owners, OwnerStep(u, k, o)
      PROVE  taskStatus[t] = "done" \/ t \in landed
  BY <1>3 DEF OwnerStep, Land, FinishReplay, Finish, LedgerInv, TypeOK, taskVars
<1>4. ASSUME NEW u \in Tasks, NEW o \in Owners, Claim(u, o)
      PROVE  taskStatus[t] = "done" \/ t \in landed
  BY <1>4, ClaimSparesClosedRows
<1> QED
  BY <1>1, <1>2, <1>3, <1>4 DEF Next, vars, taskVars

\* OutcomeIsFinal holds at every step.
THEOREM OutcomesAreFinal == Spec => OutcomeIsFinal
<1> DEFINE Final ==
        \A t \in Tasks :
          taskStatus[t] \in Terminal /\ taskStatus'[t] # taskStatus[t] =>
              /\ taskStatus[t] # "done"
              /\ taskStatus'[t] = "queued"
              /\ lastAttempt'[t] = lastAttempt[t] + 1
<1>1. ASSUME LedgerInv, Next PROVE Final
  <2> USE DEF LedgerInv, TypeOK, Open, Terminal
  <2>1. ASSUME NEW t \in Tasks, NEW o \in Owners, Claim(t, o) PROVE Final
    BY <1>1, <2>1, ClaimSparesClosedRows
  <2>2. ASSUME NEW t \in Tasks, NEW id \in RetryIds, Retry(t, id) PROVE Final
    BY <1>1, <2>2 DEF Retry, ReopenTask
  <2>3. ASSUME NEW t \in Tasks, Submit(t) \/ RequestCancel(t) PROVE Final
    BY <1>1, <2>3 DEF Submit, RequestCancel
  <2>4. ASSUME NEW t \in Tasks, NEW n \in AttemptNumbers, LeaseExpires(t, n) PROVE Final
    BY <1>1, <2>4 DEF LeaseExpires, taskVars
  <2>5. ASSUME NEW t \in Tasks, NEW n \in AttemptNumbers, NEW o \in Owners,
               OwnerStep(t, n, o)
        PROVE Final
    BY <1>1, <2>5 DEF OwnerStep, Finish, FinishReplay, Land, taskVars
  <2> QED BY <1>1, <2>1, <2>2, <2>3, <2>4, <2>5 DEF Next
<1>2. LedgerInv /\ [Next]_vars => [Final]_vars
    BY <1>1
<1> QED BY <1>2, LedgerInvariant, PTL DEF Spec, OutcomeIsFinal

\* SupersededAttemptIsFrozen holds at every step: an owner that lost its
\* attempt can change neither the attempt nor what was announced for it.
THEOREM SupersededOwnersAreSilent == Spec => SupersededAttemptIsFrozen
<1> DEFINE Frozen ==
        \A t \in Tasks, n \in AttemptNumbers :
          attempts[t][n].status \in {"fenced"} \cup Terminal =>
              /\ attempts'[t][n] = attempts[t][n]
              /\ inbox'[t][n] = inbox[t][n]
<1>1. ASSUME LedgerInv, Next PROVE Frozen
  <2> USE DEF LedgerInv, TypeOK, Terminal
  <2>1. ASSUME NEW t \in Tasks, NEW o \in Owners, Claim(t, o) PROVE Frozen
    BY <1>1, <2>1, ClaimSparesClosedRows
  <2>2. ASSUME NEW t \in Tasks, NEW id \in RetryIds, Retry(t, id) PROVE Frozen
    <3>1. attempts[t][lastAttempt[t] + 1] = NoAttempt
      BY <1>1, <2>2, MaxAttemptsAssumption DEF TaskInv, RowsOf, Retry, ReopenTask, AttemptNumbers
    <3> QED BY <1>1, <2>2, <3>1 DEF Retry, ReopenTask, NoAttempt
  <2>3. ASSUME NEW t \in Tasks, Submit(t) PROVE Frozen
    <3>1. attempts[t][1] = NoAttempt
      BY <1>1, <2>3, MaxAttemptsAssumption DEF TaskInv, RowsOf, Submit, AttemptNumbers
    <3> QED BY <1>1, <2>3, <3>1 DEF Submit, NoAttempt
  <2>4. ASSUME NEW t \in Tasks, RequestCancel(t) PROVE Frozen
    BY <1>1, <2>4 DEF RequestCancel
  <2>5. ASSUME NEW t \in Tasks, NEW n \in AttemptNumbers, LeaseExpires(t, n) PROVE Frozen
    BY <1>1, <2>5 DEF LeaseExpires, taskVars
  <2>6. ASSUME NEW t \in Tasks, NEW n \in AttemptNumbers, NEW o \in Owners,
               OwnerStep(t, n, o)
        PROVE Frozen
    <3>1. CASE \E outcome \in Terminal, error \in Errors : Finish(t, n, o, outcome, error)
      BY <1>1, <3>1 DEF Finish, Owns, Emit
    <3>2. CASE \E outcome \in Terminal : FinishReplay(t, n, outcome)
      BY <1>1, <3>2, FinishReplayStutters DEF vars
    <3>3. CASE Land(t, n, o)
      BY <1>1, <3>3 DEF Land, taskVars
    <3> QED BY <2>6, <3>1, <3>2, <3>3 DEF OwnerStep
  <2> QED BY <1>1, <2>1, <2>2, <2>3, <2>4, <2>5, <2>6 DEF Next
<1>2. LedgerInv /\ [Next]_vars => [Frozen]_vars
    BY <1>1
<1> QED BY <1>2, LedgerInvariant, PTL DEF Spec, SupersededAttemptIsFrozen

\* CancelSticks holds at every step.
THEOREM CancelIsNeverLost == Spec => CancelSticks
<1> DEFINE Sticks ==
        \A t \in Tasks :
          cancelRequested[t] /\ taskStatus[t] \in Open =>
              /\ taskStatus'[t] \in Open => cancelRequested'[t]
              /\ \A n \in AttemptNumbers :
                    attempts'[t][n].status = "running" =>
                        attempts[t][n].status = "running"
<1>1. ASSUME LedgerInv, Next PROVE Sticks
  <2> USE DEF LedgerInv, TypeOK, Terminal, Open
  <2>1. ASSUME NEW t \in Tasks, NEW o \in Owners, Claim(t, o) PROVE Sticks
    BY <1>1, <2>1, ClaimSparesClosedRows
  <2>2. ASSUME NEW t \in Tasks, NEW id \in RetryIds, Retry(t, id) PROVE Sticks
    BY <1>1, <2>2 DEF Retry, ReopenTask
  <2>3. ASSUME NEW t \in Tasks, Submit(t) PROVE Sticks
    BY <1>1, <2>3 DEF Submit
  <2>4. ASSUME NEW t \in Tasks, RequestCancel(t) PROVE Sticks
    BY <1>1, <2>4 DEF RequestCancel
  <2>5. ASSUME NEW t \in Tasks, NEW n \in AttemptNumbers, LeaseExpires(t, n) PROVE Sticks
    BY <1>1, <2>5 DEF LeaseExpires, taskVars
  <2>6. ASSUME NEW t \in Tasks, NEW n \in AttemptNumbers, NEW o \in Owners,
               OwnerStep(t, n, o)
        PROVE Sticks
    <3>1. CASE \E outcome \in Terminal, error \in Errors : Finish(t, n, o, outcome, error)
      BY <1>1, <3>1 DEF Finish, Owns, Emit
    <3>2. CASE \E outcome \in Terminal : FinishReplay(t, n, outcome)
      BY <1>1, <3>2, FinishReplayStutters DEF vars, taskVars
    <3>3. CASE Land(t, n, o)
      BY <1>1, <3>3 DEF Land, taskVars
    <3> QED BY <2>6, <3>1, <3>2, <3>3 DEF OwnerStep
  <2> QED BY <1>1, <2>1, <2>2, <2>3, <2>4, <2>5, <2>6 DEF Next
<1>2. LedgerInv /\ [Next]_vars => [Sticks]_vars
    BY <1>1
<1> QED BY <1>2, LedgerInvariant, PTL DEF Spec, CancelSticks

\* A claim settles a row with nothing announced on it or after it ...
LEMMA ClaimFrontier ==
    ASSUME LedgerInv, NEW t \in Tasks, NEW o \in Owners, Claim(t, o),
           inbox[t][ClaimNumber(t)] = "none"
    PROVE /\ ClaimNumber(t) \in AttemptNumbers
          /\ \A later \in AttemptNumbers :
                later >= ClaimNumber(t) => inbox[t][later] = "none"
<1>1. Claimable(t)
    BY DEF Claim, ClaimReconciles, ClaimExhausts, ClaimCancels, ClaimRuns
<1>2. /\ ClaimNumber(t) \in AttemptNumbers
      /\ lastAttempt[t] \in AttemptNumbers
    BY <1>1, ClaimShape
<1>3. ClaimNumber(t) >= lastAttempt[t]
    BY <1>2 DEF ClaimNumber, AttemptNumbers
<1>4. \A later \in AttemptNumbers : later > lastAttempt[t] => inbox[t][later] = "none"
    BY DEF LedgerInv, TaskInv, RowsOf
<1> QED BY <1>2, <1>3, <1>4 DEF AttemptNumbers

\* ... and so does a live owner of an open task.
LEMMA OwnerFrontier ==
    ASSUME LedgerInv, NEW t \in Tasks, NEW n \in AttemptNumbers, NEW o \in Owners,
           Owns(t, n, o)
    PROVE /\ taskStatus[t] \in Open
          /\ \A later \in AttemptNumbers : later >= n => inbox[t][later] = "none"
<1>1. n = lastAttempt[t] /\ taskStatus[t] \in Open
    BY DEF LedgerInv, TaskInv, Owns, Open
<1>2. inbox[t][n] = "none"
    BY <1>1 DEF LedgerInv, TaskInv, Open, Terminal
<1>3. \A later \in AttemptNumbers : later > n => inbox[t][later] = "none"
    BY <1>1 DEF LedgerInv, TaskInv, RowsOf
<1> QED BY <1>1, <1>2, <1>3, MaxAttemptsAssumption DEF AttemptNumbers

\* OneItemPerSettlement holds at every step: the inbox changes exactly when
\* a task settles, by one new item.
THEOREM SettlementIsAnnouncedOnce == Spec => OneItemPerSettlement
<1> DEFINE Counted ==
        \A t \in Tasks :
          IF taskStatus[t] \notin Terminal /\ taskStatus'[t] \in Terminal
          THEN \E n \in AttemptNumbers :
                  inbox'[t] = [inbox[t] EXCEPT ![n] = taskStatus'[t]]
                  /\ inbox[t][n] = "none"
          ELSE inbox'[t] = inbox[t]
<1>1. ASSUME LedgerInv, Next PROVE Counted
  <2>0. ASSUME NEW t \in Tasks, NEW n \in AttemptNumbers,
               NEW outcome \in Terminal, FinishReplay(t, n, outcome)
        PROVE UNCHANGED vars
    BY <1>1, <2>0, FinishReplayStutters
  <2> USE DEF LedgerInv, TypeOK, Open, Terminal
  <2>1. ASSUME NEW t \in Tasks, NEW o \in Owners, Claim(t, o) PROVE Counted
    <3>1. ClaimNumber(t) \in AttemptNumbers
      <4>1. Claimable(t)
        BY <2>1 DEF Claim, ClaimReconciles, ClaimExhausts, ClaimCancels, ClaimRuns
      <4> QED BY <1>1, <4>1, ClaimShape
    <3>2. /\ taskStatus[t] \in Open
          /\ \A u \in Tasks : u # t => /\ inbox'[u] = inbox[u]
                                       /\ taskStatus'[u] = taskStatus[u]
          /\ \/ taskStatus'[t] = "running" /\ UNCHANGED inbox
             \/ /\ taskStatus'[t] \in Terminal
                /\ inbox[t][ClaimNumber(t)] = "none"
                /\ inbox' = [inbox EXCEPT ![t][ClaimNumber(t)] = taskStatus'[t]]
      BY <1>1, <2>1, ClaimSparesClosedRows
    <3>3. ASSUME NEW u \in Tasks, u # t
          PROVE inbox'[u] = inbox[u] /\ taskStatus'[u] = taskStatus[u]
      BY <3>2, <3>3
    <3>4. CASE taskStatus'[t] = "running" /\ UNCHANGED inbox
      BY <3>3, <3>4
    <3>5. CASE /\ taskStatus'[t] \in Terminal
               /\ inbox[t][ClaimNumber(t)] = "none"
               /\ inbox' = [inbox EXCEPT ![t][ClaimNumber(t)] = taskStatus'[t]]
      <4>1. inbox'[t] = [inbox[t] EXCEPT ![ClaimNumber(t)] = taskStatus'[t]]
        BY <1>1, <3>5
      <4> QED BY <3>1, <3>2, <3>3, <3>5, <4>1
    <3> QED BY <3>2, <3>4, <3>5
  <2>2. ASSUME NEW t \in Tasks, NEW id \in RetryIds, Retry(t, id) PROVE Counted
    BY <1>1, <2>2 DEF Retry, ReopenTask
  <2>3. ASSUME NEW t \in Tasks, Submit(t) \/ RequestCancel(t) PROVE Counted
    BY <1>1, <2>3 DEF Submit, RequestCancel
  <2>4. ASSUME NEW t \in Tasks, NEW n \in AttemptNumbers, LeaseExpires(t, n)
        PROVE Counted
    BY <1>1, <2>4 DEF LeaseExpires, taskVars
  <2>5. ASSUME NEW t \in Tasks, NEW n \in AttemptNumbers, NEW o \in Owners,
               OwnerStep(t, n, o)
        PROVE Counted
    <3>1. ASSUME NEW outcome \in Terminal, NEW error \in Errors,
                 Finish(t, n, o, outcome, error)
          PROVE Counted
      <4>1. n >= n
        BY MaxAttemptsAssumption DEF AttemptNumbers
      <4>2. Owns(t, n, o)
        BY <3>1 DEF Finish
      <4>3. inbox[t][n] = "none"
        BY <1>1, <4>1, <4>2, OwnerFrontier
      <4> QED BY <1>1, <3>1, <4>3 DEF Finish, Emit
    <3>2. ASSUME NEW outcome \in Terminal, FinishReplay(t, n, outcome) PROVE Counted
      <4>1. UNCHANGED vars
        BY <2>0, <3>2
      <4> QED BY <4>1 DEF vars, taskVars
    <3>3. ASSUME Land(t, n, o) PROVE Counted
      BY <3>3 DEF Land, taskVars
    <3> HIDE DEF Counted
    <3> QED BY <2>5, <3>1, <3>2, <3>3 DEF OwnerStep
  <2> QED BY <1>1, <2>1, <2>2, <2>3, <2>4, <2>5 DEF Next
<1>2. LedgerInv /\ [Next]_vars => [Counted]_vars
    BY <1>1
<1> QED BY <1>2, LedgerInvariant, PTL DEF Spec, OneItemPerSettlement

\* The ledger implements its promise: under the mapping that hides the
\* attempts, every transaction is a step of TaskOutcome or a stutter.
THEOREM LedgerKeepsPromise == Spec => KeepsPromise
<1> DEFINE shown == [t \in Tasks |->
                       IF taskStatus[t] \in Open THEN "open" ELSE taskStatus[t]]
<1> USE MaxAttemptsAssumption, NullsAssumption
<1>1. Init => Promise!Init
    BY DEF Init, Promise!Init, Promise!Rounds, AttemptNumbers, Open
<1>2. ASSUME LedgerInv, Next PROVE Promise!Next \/ UNCHANGED Promise!vars
  <2> USE DEF LedgerInv, TypeOK, Terminal, Open, AttemptNumbers, Promise!Rounds,
              Promise!Settled
  <2>1. ASSUME NEW t \in Tasks, NEW o \in Owners, Claim(t, o)
        PROVE Promise!Next \/ UNCHANGED Promise!vars
    <3>1. /\ taskStatus[t] \in Open
          /\ \A u \in Tasks : u # t => taskStatus'[u] = taskStatus[u]
          /\ taskStatus' \in [Tasks -> {"absent"} \cup Open \cup Terminal]
          /\ UNCHANGED landed
      BY <1>2, <2>1, ClaimSparesClosedRows, ClaimPreserves
    <3>2. CASE taskStatus'[t] = "running" /\ UNCHANGED inbox
      <4>1. shown' = shown
        BY <3>1, <3>2
      <4> QED BY <3>1, <3>2, <4>1 DEF Promise!vars
    <3>3. CASE /\ taskStatus'[t] \in Terminal
               /\ taskStatus'[t] = "done" => t \in landed
               /\ inbox[t][ClaimNumber(t)] = "none"
               /\ inbox' = [inbox EXCEPT ![t][ClaimNumber(t)] = taskStatus'[t]]
      <4>1. /\ ClaimNumber(t) \in AttemptNumbers
            /\ \A later \in AttemptNumbers :
                  later >= ClaimNumber(t) => inbox[t][later] = "none"
        BY <1>2, <2>1, <3>3, ClaimFrontier
      <4>2. PICK how \in Terminal : how = taskStatus'[t]
        BY <3>3
      <4>3. shown' = [shown EXCEPT ![t] = taskStatus'[t]] /\ shown[t] = "open"
        BY <3>1, <3>3
      <4>4. Promise!Settle(t, ClaimNumber(t), how)
        BY <3>1, <3>3, <4>1, <4>2, <4>3 DEF Promise!Settle
      <4> QED BY <4>1, <4>4 DEF Promise!Next
    <3> QED BY <1>2, <2>1, <3>2, <3>3, ClaimSparesClosedRows
  <2>2. ASSUME NEW t \in Tasks, NEW id \in RetryIds, Retry(t, id)
        PROVE Promise!Next \/ UNCHANGED Promise!vars
    <3>1. inbox[t][MaxAttempts] = "none"
      BY <1>2, <2>2 DEF TaskInv, RowsOf, Retry, ReopenTask
    <3>2. shown' = [shown EXCEPT ![t] = "open"] /\ shown[t] \in {"failed", "cancelled"}
      BY <1>2, <2>2 DEF Retry, ReopenTask
    <3>3. Promise!Reopen(t)
      BY <2>2, <3>1, <3>2 DEF Retry, ReopenTask, Promise!Reopen
    <3> QED BY <3>3 DEF Promise!Next
  <2>3. ASSUME NEW t \in Tasks, Submit(t) PROVE Promise!Next \/ UNCHANGED Promise!vars
    <3>1. shown' = [shown EXCEPT ![t] = "open"] /\ shown[t] = "absent"
      BY <1>2, <2>3 DEF Submit
    <3>2. Promise!Open(t)
      BY <2>3, <3>1 DEF Submit, Promise!Open
    <3> QED BY <3>2 DEF Promise!Next
  <2>4. ASSUME NEW t \in Tasks, RequestCancel(t)
        PROVE Promise!Next \/ UNCHANGED Promise!vars
    BY <1>2, <2>4 DEF RequestCancel, Promise!vars
  <2>5. ASSUME NEW t \in Tasks, NEW n \in AttemptNumbers, LeaseExpires(t, n)
        PROVE Promise!Next \/ UNCHANGED Promise!vars
    BY <1>2, <2>5 DEF LeaseExpires, taskVars, Promise!vars
  <2>6. ASSUME NEW t \in Tasks, NEW n \in AttemptNumbers, NEW o \in Owners,
               OwnerStep(t, n, o)
        PROVE Promise!Next \/ UNCHANGED Promise!vars
    <3>1. ASSUME NEW outcome \in Terminal, NEW error \in Errors,
                 outcome = "done" => t \in landed,
                 Finish(t, n, o, outcome, error)
          PROVE Promise!Next
      <4>1. Owns(t, n, o)
        BY <3>1 DEF Finish
      <4>2. /\ taskStatus[t] \in Open
            /\ \A later \in AttemptNumbers : later >= n => inbox[t][later] = "none"
        BY <1>2, <4>1, OwnerFrontier
      <4>3. shown' = [shown EXCEPT ![t] = outcome] /\ shown[t] = "open"
        BY <1>2, <3>1, <4>2 DEF Finish
      <4>4. Promise!Settle(t, n, outcome)
        BY <3>1, <4>2, <4>3 DEF Promise!Settle, Finish, Emit
      <4> QED BY <4>4 DEF Promise!Next
    <3>2. ASSUME NEW outcome \in Terminal, FinishReplay(t, n, outcome)
          PROVE UNCHANGED Promise!vars
      BY <1>2, <3>2, FinishReplayStutters DEF vars, taskVars, Promise!vars
    <3>3. CASE Land(t, n, o)
      <4>1. lastAttempt[t] # 0
        BY <1>2, <3>3 DEF Land, TaskInv, RowsOf, NoAttempt
      <4>2. shown' = shown /\ shown[t] # "absent"
        BY <1>2, <3>3, <4>1 DEF Land, taskVars, TaskInv, RowsOf
      <4>3. Promise!Write(t)
        BY <3>3, <4>2 DEF Land, Promise!Write
      <4> QED BY <4>3 DEF Promise!Next
    <3> QED BY <2>6, <3>1, <3>2, <3>3 DEF OwnerStep
  <2> QED BY <1>2, <2>1, <2>2, <2>3, <2>4, <2>5, <2>6 DEF Next
<1>3. LedgerInv /\ [Next]_vars => [Promise!Next]_(Promise!vars)
    BY <1>2 DEF vars, taskVars, Promise!vars
<1> QED BY <1>1, <1>3, LedgerInvariant, PTL DEF Spec, KeepsPromise, Promise!Spec
=============================================================================
