-------------------------- MODULE WorkLedgerProofs --------------------------
(***************************************************************************)
(* Machine-checked proofs about WorkLedger, for every set of items,        *)
(* targets and workers and every value of the limits: its types, the       *)
(* budget of attempts, and the fence that leases, attempts and lease       *)
(* tokens make.                                                            *)
(***************************************************************************)
EXTENDS WorkLedger, TLAPS

(* Facts about the operators that compute a row. *)

\* A status never projects outside the request statuses, whatever it is.
LEMMA ProjectionType ==
  ASSUME NEW s PROVE Projection(s) \in RequestStatus
  BY DEF Projection, RequestStatus

\* Projecting keeps every request status well typed.
LEMMA ProjectedType ==
  ASSUME request \in [Items -> RequestStatus], NEW S, NEW rows
  PROVE  Projected(S, rows) \in [Items -> RequestStatus]
  BY ProjectionType DEF Projected

\* A finished attempt moves its item to a settled status, or back to RETRY_WAIT
\* while attempts are left.
LEMMA NextStatusRange ==
  ASSUME NEW row \in WorkRow, NEW outcome \in Outcomes
  PROVE  /\ NextStatus(row, outcome) \in Settled \cup {"RETRY_WAIT"}
         /\ NextStatus(row, outcome) = "RETRY_WAIT" => row.attempts < MaxAttempts
  BY LedgerAssumption DEF NextStatus, NoRetryLeft, Outcomes, Settled, WorkRow

\* A reaped item is dead lettered, or waits again while attempts are left.
LEMMA ReapedStatusRange ==
  ASSUME NEW row \in WorkRow
  PROVE  /\ ReapedStatus(row) \in {"RETRY_WAIT", "DEAD_LETTERED"}
         /\ ReapedStatus(row) = "RETRY_WAIT" => row.attempts < MaxAttempts
  BY LedgerAssumption DEF ReapedStatus, WorkRow

-----------------------------------------------------------------------------
(* Types and the attempt budget *)

\* The two are inductive only together: a claim stays in the type of attempt_count
\* because a waiting item has an attempt left.
Budgeted == TypeOK /\ ClaimableHasBudget

\* Changing the status of an attempt row keeps it well typed.
LEMMA AttemptRowStatusType ==
  ASSUME NEW a \in AttemptRow, NEW s \in OpenAttempt \cup ClosedAttempt
  PROVE  [a EXCEPT !.status = s] \in AttemptRow
  BY DEF AttemptRow

\* Changing the status of one attempt keeps the attempts well typed.
LEMMA AttemptStatusType ==
  ASSUME attempt \in [Items -> [1..MaxAttempts -> AttemptRow]],
         NEW i \in Items, NEW n \in 1..MaxAttempts, NEW s \in OpenAttempt \cup ClosedAttempt
  PROVE  [attempt EXCEPT ![i][n].status = s] \in [Items -> [1..MaxAttempts -> AttemptRow]]
  BY AttemptRowStatusType

\* The single-column updates the actions make keep a row well typed.
LEMMA RowStatusType ==
  ASSUME NEW row \in WorkRow, NEW s \in Active \cup Settled
  PROVE  /\ [row EXCEPT !.status = s] \in WorkRow
         /\ [row EXCEPT !.status = s, !.wait = 0] \in WorkRow
  <1>1. [row EXCEPT !.status = s] \in WorkRow
    BY DEF WorkRow
  <1>2. 0 \in 0..MaxWait
    BY LedgerAssumption
  <1>3. ASSUME NEW x \in WorkRow PROVE [x EXCEPT !.wait = 0] \in WorkRow
    BY <1>2 DEF WorkRow
  <1>4. [row EXCEPT !.status = s, !.wait = 0] = [[row EXCEPT !.status = s] EXCEPT !.wait = 0]
    BY DEF WorkRow
  <1>5. QED
    BY <1>1, <1>3, <1>4

LEMMA RowLeaseType ==
  ASSUME NEW row \in WorkRow
  PROVE  /\ [row EXCEPT !.lease = LeaseLength] \in WorkRow
         /\ [row EXCEPT !.cancel = TRUE] \in WorkRow
         /\ [row EXCEPT !.lease = Before(@), !.wait = Before(@)] \in WorkRow
  <1>1. [row EXCEPT !.lease = LeaseLength] \in WorkRow
    BY LedgerAssumption DEF WorkRow
  <1>2. [row EXCEPT !.cancel = TRUE] \in WorkRow
    BY DEF WorkRow
  <1>3. Before(row.lease) \in 0..LeaseLength /\ Before(row.wait) \in 0..MaxWait
    BY LedgerAssumption DEF Before, WorkRow
  <1>4. [row EXCEPT !.lease = Before(@), !.wait = Before(@)] \in WorkRow
    BY <1>3 DEF WorkRow
  <1>5. QED
    BY <1>1, <1>2, <1>4

LEMMA InitBudgeted == Init => Budgeted
  <1> SUFFICES ASSUME Init PROVE Budgeted
    OBVIOUS
  <1>1. AbsentRow \in WorkRow /\ AbsentRow.status = "ABSENT"
    BY LedgerAssumption DEF AbsentRow, Row, WorkRow
  <1>2. work \in [Items -> WorkRow]
    BY <1>1 DEF Init
  <1>3. attempt \in [Items -> [1..MaxAttempts -> AttemptRow]]
    BY DEF Init, AttemptRow
  <1>4. letters \subseteq Items /\ executable \subseteq Targets
    BY DEF Init
  <1>5. request \in [Items -> RequestStatus]
    BY DEF Init, RequestStatus
  <1>6. ClaimableHasBudget
    BY <1>1 DEF Init, ClaimableHasBudget, Waiting
  <1>7. serving \in [Items -> [1..MaxAttempts -> {"IDLE", "OPEN", "DONE"}]]
    BY DEF Init
  <1>8. QED
    BY <1>2, <1>3, <1>4, <1>5, <1>6, <1>7 DEF Budgeted, TypeOK

LEMMA InsertBudgeted ==
  ASSUME Budgeted, NEW i \in Items, NEW t \in Targets, NEW r \in Items \cup {None},
         NEW d \in 0..MaxWait, Insert(i, t, r, d),
         request' \in [Items -> RequestStatus]
  PROVE  Budgeted'
  <1>1. Row(t, r, d) \in WorkRow /\ Row(t, r, d).attempts < MaxAttempts
    BY LedgerAssumption DEF Row, WorkRow, Active, Waiting
  <1>2. work' \in [Items -> WorkRow]
    BY <1>1 DEF Insert, Budgeted, TypeOK
  <1>3. ClaimableHasBudget'
    BY <1>1 DEF Insert, Budgeted, TypeOK, ClaimableHasBudget
  <1>4. QED
    BY <1>2, <1>3 DEF Insert, Budgeted, TypeOK

LEMMA ClaimBudgeted ==
  ASSUME Budgeted, NEW w \in Workers, NEW S \in SUBSET Items, Claim(w, S)
  PROVE  Budgeted'
  <1> DEFINE barred == {i \in Due(w) : ~Permitted(work[i].target)}
  <1>1. \A i \in S : work[i].status \in Waiting /\ work[i].attempts < MaxAttempts
    BY DEF Claim, Due, Budgeted, ClaimableHasBudget
  <1>2. ASSUME NEW i \in S PROVE LeasedTo(w, work[i]) \in WorkRow
    BY <1>1, LedgerAssumption DEF Budgeted, TypeOK, LeasedTo, WorkRow, Held, Active
  <1>3. work' \in [Items -> WorkRow]
    <2>1. ASSUME NEW i \in Items PROVE [work[i] EXCEPT !.status = "POLICY_BLOCKED"] \in WorkRow
      BY RowStatusType DEF Budgeted, TypeOK, Settled
    <2>2. QED
      BY <1>2, <2>1 DEF Claim, Budgeted, TypeOK
  <1>4. attempt' \in [Items -> [1..MaxAttempts -> AttemptRow]]
    BY <1>1 DEF Claim, Budgeted, TypeOK, AttemptRow, OpenAttempt
  <1>5. request' \in [Items -> RequestStatus]
    BY ProjectedType DEF Claim, Budgeted, TypeOK
  <1>6. ClaimableHasBudget'
    BY DEF Claim, Budgeted, TypeOK, ClaimableHasBudget, LeasedTo, Waiting, WorkRow
  <1>7. QED
    BY <1>3, <1>4, <1>5, <1>6 DEF Claim, Budgeted, TypeOK

LEMMA StartBudgeted ==
  ASSUME Budgeted, NEW w \in Workers, NEW i \in Items, NEW n \in Attempts, Start(w, i, n)
  PROVE  Budgeted'
  <1>1. work' \in [Items -> WorkRow]
    <2>1. [work[i] EXCEPT !.status = "RUNNING"] \in WorkRow
      BY RowStatusType DEF Budgeted, TypeOK, Active, Held
    <2>2. QED
      BY <2>1 DEF Start, Budgeted, TypeOK
  <1>2. attempt' \in [Items -> [1..MaxAttempts -> AttemptRow]]
    BY AttemptStatusType DEF Start, Budgeted, TypeOK, OpenAttempt, Attempts
  <1>3. ClaimableHasBudget'
    BY DEF Start, Budgeted, TypeOK, ClaimableHasBudget, Waiting
  <1>4. QED
    BY <1>1, <1>2, <1>3 DEF Start, Budgeted, TypeOK

LEMMA HeartbeatBudgeted ==
  ASSUME Budgeted, NEW w \in Workers, NEW i \in Items, NEW n \in Attempts, Heartbeat(w, i, n)
  PROVE  Budgeted'
  <1>1. [work[i] EXCEPT !.lease = LeaseLength] \in WorkRow
    BY RowLeaseType DEF Budgeted, TypeOK
  <1>2. work' \in [Items -> WorkRow]
    BY <1>1 DEF Heartbeat, Budgeted, TypeOK
  <1>3. ClaimableHasBudget'
    BY DEF Heartbeat, Budgeted, TypeOK, ClaimableHasBudget, WorkRow
  <1>4. QED
    BY <1>2, <1>3 DEF Heartbeat, Budgeted, TypeOK

LEMMA ReleasedType ==
  ASSUME NEW row \in WorkRow, NEW s \in Active \cup Settled, NEW d \in 0..MaxWait
  PROVE  Released(row, s, d) \in WorkRow
  BY LedgerAssumption DEF Released, WorkRow

LEMMA FinishBudgeted ==
  ASSUME Budgeted, NEW w \in Workers, NEW i \in Items, NEW n \in Attempts,
         NEW o \in Outcomes, NEW d \in 0..MaxWait, Finish(w, i, n, o, d)
  PROVE  Budgeted'
  <1> DEFINE next == NextStatus(work[i], o)
  <1>1. work[i] \in WorkRow
    BY DEF Budgeted, TypeOK
  <1>2. /\ next \in Settled \cup {"RETRY_WAIT"}
        /\ next = "RETRY_WAIT" => work[i].attempts < MaxAttempts
    BY <1>1, NextStatusRange
  <1>3. Released(work[i], next, d) \in WorkRow
    BY <1>1, <1>2, ReleasedType DEF Active, Waiting
  <1>4. work' \in [Items -> WorkRow] /\ work' = [work EXCEPT ![i] = Released(work[i], next, d)]
    BY <1>3 DEF Finish, Budgeted, TypeOK
  <1>5. AttemptStatus(next, o) \in ClosedAttempt
    BY DEF AttemptStatus, ClosedAttempt
  <1>6. attempt' \in [Items -> [1..MaxAttempts -> AttemptRow]]
    BY <1>5, AttemptStatusType DEF Finish, Budgeted, TypeOK, Attempts
  <1>7. request' \in [Items -> RequestStatus]
    BY ProjectedType DEF Finish, Budgeted, TypeOK
  <1>8. ClaimableHasBudget'
    <2> SUFFICES ASSUME NEW j \in Items, work'[j].status \in Waiting
                 PROVE  work'[j].attempts < MaxAttempts
      BY DEF ClaimableHasBudget
    <2>1. CASE j = i
      BY <2>1, <1>2, <1>4 DEF Released, Budgeted, TypeOK, Settled, Waiting
    <2>2. CASE j # i
      BY <2>2, <1>4 DEF Budgeted, TypeOK, ClaimableHasBudget
    <2>3. QED
      BY <2>1, <2>2
  <1>9. serving' \in [Items -> [1..MaxAttempts -> {"IDLE", "OPEN", "DONE"}]]
    BY DEF Finish, Budgeted, TypeOK, Attempts
  <1>10. letters' \subseteq Items /\ executable' \subseteq Targets
    BY DEF Finish, LettersAfter, Budgeted, TypeOK
  <1>11. QED
    BY <1>4, <1>6, <1>7, <1>8, <1>9, <1>10 DEF Budgeted, TypeOK

LEMMA ReapBudgeted ==
  ASSUME Budgeted, NEW S \in SUBSET Items, Reap(S)
  PROVE  Budgeted'
  <1>1. ASSUME NEW i \in S
        PROVE  /\ Released(work[i], ReapedStatus(work[i]), 0) \in WorkRow
               /\ ReapedStatus(work[i]) = "RETRY_WAIT" => work[i].attempts < MaxAttempts
               /\ ReapedStatus(work[i]) \in {"RETRY_WAIT", "DEAD_LETTERED"}
    BY ReapedStatusRange, ReleasedType, LedgerAssumption
    DEF Budgeted, TypeOK, Active, Waiting, Settled
  <1>2. work' \in [Items -> WorkRow]
    BY <1>1 DEF Reap, Budgeted, TypeOK
  <1>3. attempt' \in [Items -> [1..MaxAttempts -> AttemptRow]]
    <2>1. ASSUME NEW i \in Items, NEW n \in 1..MaxAttempts
          PROVE  [attempt[i][n] EXCEPT !.status = "ABANDONED"] \in AttemptRow
      BY AttemptRowStatusType DEF Budgeted, TypeOK, ClosedAttempt
    <2>2. QED
      BY <2>1 DEF Reap, Budgeted, TypeOK
  <1>4. request' \in [Items -> RequestStatus]
    BY ProjectedType DEF Reap, Budgeted, TypeOK
  <1>5. letters' \subseteq Items
    BY DEF Reap, LettersAfter, Budgeted, TypeOK
  <1>6. ClaimableHasBudget'
    BY <1>1 DEF Reap, Budgeted, TypeOK, ClaimableHasBudget, Released, Waiting
  <1>7. QED
    BY <1>2, <1>3, <1>4, <1>5, <1>6 DEF Reap, Budgeted, TypeOK

LEMMA CancelBudgeted ==
  ASSUME Budgeted, NEW i \in Items, Cancel(i)
  PROVE  Budgeted'
  <1>1. work' \in [Items -> WorkRow]
    <2>1. /\ [work[i] EXCEPT !.status = "CANCELLED", !.wait = 0] \in WorkRow
          /\ [work[i] EXCEPT !.cancel = TRUE] \in WorkRow
      BY RowStatusType, RowLeaseType DEF Budgeted, TypeOK, Settled
    <2>2. QED
      BY <2>1 DEF Cancel, Budgeted, TypeOK
  <1>2. ClaimableHasBudget'
    BY DEF Cancel, Budgeted, TypeOK, ClaimableHasBudget, Waiting, WorkRow
  <1>3. QED
    BY <1>1, <1>2 DEF Cancel, Budgeted, TypeOK

LEMMA TickBudgeted ==
  ASSUME Budgeted, Tick
  PROVE  Budgeted'
  <1>1. work' \in [Items -> WorkRow]
    <2>1. ASSUME NEW i \in Items
          PROVE  [work[i] EXCEPT !.lease = Before(@), !.wait = Before(@)] \in WorkRow
      BY RowLeaseType DEF Budgeted, TypeOK
    <2>2. QED
      BY <2>1 DEF Tick, Budgeted, TypeOK
  <1>2. ClaimableHasBudget'
    BY DEF Tick, Budgeted, TypeOK, ClaimableHasBudget, WorkRow
  <1>3. QED
    BY <1>1, <1>2 DEF Tick, Budgeted, TypeOK

\* A handler writes its request and moves itself on.
LEMMA HandlerBudgeted ==
  ASSUME Budgeted, NEW i \in Items, NEW n \in Attempts,
         TakeRequest(i, n) \/ \E status \in RequestStatus : CloseRequest(i, n, status)
  PROVE  Budgeted'
  <1>1. \A r, s : s \in RequestStatus => [request EXCEPT ![r] = s] \in [Items -> RequestStatus]
    BY DEF Budgeted, TypeOK
  <1>2. request' \in [Items -> RequestStatus]
    <2>1. CASE TakeRequest(i, n)
      BY <1>1, <2>1 DEF TakeRequest, RequestStatus
    <2>2. ASSUME NEW status \in RequestStatus, CloseRequest(i, n, status)
          PROVE  request' \in [Items -> RequestStatus]
      <3>1. request \in [Items -> RequestStatus]
        BY DEF Budgeted, TypeOK
      <3>2. QED
        BY <1>1, <2>2, <3>1 DEF CloseRequest
    <2>3. QED
      BY <2>1, <2>2
  <1>3. serving' \in [Items -> [1..MaxAttempts -> {"IDLE", "OPEN", "DONE"}]]
    <2>1. PICK s \in {"OPEN", "DONE"} : serving' = [serving EXCEPT ![i][n] = s]
      BY DEF TakeRequest, CloseRequest
    <2>2. serving \in [Items -> [1..MaxAttempts -> {"IDLE", "OPEN", "DONE"}]] /\ n \in 1..MaxAttempts
      BY DEF Budgeted, TypeOK, Attempts
    <2>3. QED
      BY <2>1, <2>2
  <1>4. UNCHANGED <<work, attempt, letters, executable>>
    BY DEF TakeRequest, CloseRequest
  <1>5. QED
    BY <1>2, <1>3, <1>4 DEF Budgeted, TypeOK, ClaimableHasBudget

LEMMA NextBudgeted == Budgeted /\ [Next]_vars => Budgeted'
  <1> SUFFICES ASSUME Budgeted, [Next]_vars PROVE Budgeted'
    OBVIOUS
  <1>1. ASSUME NEW i \in Items, NEW t \in Targets, NEW d \in 0..MaxWait, EnqueueRequest(i, t, d)
        PROVE  Budgeted'
    <2>1. request' \in [Items -> RequestStatus]
      BY <1>1 DEF EnqueueRequest, Budgeted, TypeOK, RequestStatus
    <2>2. QED
      BY <1>1, <2>1, InsertBudgeted DEF EnqueueRequest
  <1>2. ASSUME NEW i \in Items, NEW t \in Targets, NEW d \in 0..MaxWait, EnqueueDirect(i, t, d)
        PROVE  Budgeted'
    BY <1>2, InsertBudgeted DEF EnqueueDirect, Budgeted, TypeOK
  <1>3. ASSUME NEW w \in Workers, NEW S \in SUBSET Items, Claim(w, S) PROVE Budgeted'
    BY <1>3, ClaimBudgeted
  <1>4. ASSUME NEW w \in Workers, NEW i \in Items, NEW n \in Attempts,
               Start(w, i, n) \/ Heartbeat(w, i, n)
        PROVE  Budgeted'
    BY <1>4, StartBudgeted, HeartbeatBudgeted
  <1>5. ASSUME NEW w \in Workers, NEW i \in Items, NEW n \in Attempts, NEW o \in Outcomes,
               NEW d \in 0..MaxWait, Finish(w, i, n, o, d)
        PROVE  Budgeted'
    BY <1>5, FinishBudgeted
  <1>6. ASSUME NEW S \in SUBSET Items, Reap(S) PROVE Budgeted'
    BY <1>6, ReapBudgeted
  <1>7. ASSUME NEW i \in Items, Cancel(i) PROVE Budgeted'
    BY <1>7, CancelBudgeted
  <1>8. ASSUME NEW i \in Items, NEW j \in Items, Requeue(i, j) PROVE Budgeted'
    <2> DEFINE t == work[i].target
               r == work[i].req
    <2>1. work[i] \in WorkRow /\ r \in Items \cup {None}
      BY DEF Budgeted, TypeOK, WorkRow
    <2>2. request' \in [Items -> RequestStatus]
      BY <1>8 DEF Requeue, Budgeted, TypeOK, RequestStatus
    <2>3. Row(t, r, 0) \in WorkRow /\ Row(t, r, 0).attempts < MaxAttempts
      BY <2>1, LedgerAssumption DEF Row, WorkRow, Active, Waiting
    <2>4. work' = [work EXCEPT ![j] = Row(t, r, 0)]
      BY <1>8 DEF Requeue, Insert
    <2>5. work' \in [Items -> WorkRow]
      BY <2>3, <2>4 DEF Budgeted, TypeOK
    <2>6. ClaimableHasBudget'
      BY <2>3, <2>4 DEF Budgeted, TypeOK, ClaimableHasBudget
    <2>7. QED
      BY <1>8, <2>2, <2>5, <2>6 DEF Requeue, Insert, Budgeted, TypeOK
  <1>9. ASSUME NEW t \in Targets, SetPolicy(t) PROVE Budgeted'
    BY <1>9 DEF SetPolicy, Budgeted, TypeOK, ClaimableHasBudget
  <1>10. CASE Tick
    BY <1>10, TickBudgeted
  <1>11. CASE UNCHANGED vars
    BY <1>11 DEF vars, Budgeted, TypeOK, ClaimableHasBudget
  <1>12. ASSUME NEW i \in Items, NEW n \in Attempts,
                TakeRequest(i, n) \/ \E status \in RequestStatus : CloseRequest(i, n, status)
         PROVE  Budgeted'
    BY <1>12, HandlerBudgeted
  <1>13. QED
    BY <1>1, <1>2, <1>3, <1>4, <1>5, <1>6, <1>7, <1>8, <1>9, <1>10, <1>11, <1>12 DEF Next

\* Every reachable state of the ledger is well typed: in particular no transaction
\* ever violates the column checks on attempt_count and the lease columns.
THEOREM TypeCorrect == Spec => []TypeOK
  <1>1. Spec => []Budgeted
    BY InitBudgeted, NextBudgeted, PTL DEF Spec
  <1>2. Budgeted => TypeOK
    BY DEF Budgeted
  <1>3. QED
    BY <1>1, <1>2, PTL

\* An item a worker can claim always has an attempt left.
THEOREM BudgetSafe == Spec => []ClaimableHasBudget
  <1>1. Spec => []Budgeted
    BY InitBudgeted, NextBudgeted, PTL DEF Spec
  <1>2. Budgeted => ClaimableHasBudget
    BY DEF Budgeted
  <1>3. QED
    BY <1>1, <1>2, PTL

-----------------------------------------------------------------------------
(* The fence: leases and attempts agree, closed history is never rewritten  *)
(* and tokens are used once.                                               *)

\* What AttemptsMatchLease says of one item, with its row and its attempts.  Two facts
\* make it inductive and history final: a row that is not there was never claimed, and
\* a settled one does not wait for anything.
Matches(row, atts) ==
  /\ row.status = "ABSENT" => row.attempts = 0
  /\ row.status \in Settled => row.wait = 0
  /\ IF row.status \in Held
     THEN /\ row.token = row.attempts /\ row.token > 0
          /\ atts[row.token] = [status |-> row.status, worker |-> row.owner]
          /\ row.owner \in Workers
     ELSE row.token = 0 /\ row.owner = None /\ row.lease = 0
  /\ \A n \in Attempts :
       /\ n > row.attempts => atts[n].status = "NONE"
       /\ n <= row.attempts /\ n # row.token => atts[n].status \in ClosedAttempt

\* What a step may do to an item's row and attempts without touching history: what is
\* settled or closed stays, attempt_count does not fall, a new token is a new number.
Forward(row, atts, row2, atts2) ==
  /\ row.status \in Settled => row2 = row
  /\ \A n \in Attempts : atts[n].status \in ClosedAttempt => atts2[n] = atts[n]
  /\ row2.attempts >= row.attempts
  /\ row2.token \notin {0, row.token} => row2.token > row.attempts

Fenced == Budgeted /\ \A i \in Items : Matches(work[i], attempt[i])

LEMMA FencedMatches == Fenced => AttemptsMatchLease
  BY DEF Fenced, Matches, AttemptsMatchLease

\* The rows of a well-typed ledger.
LEMMA RowTypes ==
  ASSUME Budgeted, NEW i \in Items
  PROVE  work[i] \in WorkRow /\ attempt[i] \in [Attempts -> AttemptRow]
  BY DEF Budgeted, TypeOK, Attempts

\* A row that is not held by a lease, as an insert makes it, matches no attempts.
LEMMA FreshMatches ==
  ASSUME NEW row, NEW atts, row.status \notin Held, row.token = 0, row.owner = None,
         row.lease = 0, row.attempts = 0, row.status \notin Settled, \A n \in Attempts : atts[n].status = "NONE"
  PROVE  Matches(row, atts)
  BY LedgerAssumption DEF Matches, Attempts

\* claim_work_items: the new attempt is numbered past all others.
LEMMA LeasedToMatches ==
  ASSUME NEW row \in WorkRow, NEW atts \in [Attempts -> AttemptRow], NEW w \in Workers,
         Matches(row, atts), row.status \in Waiting, row.attempts < MaxAttempts,
         NEW atts2,
         atts2 = [atts EXCEPT ![row.attempts + 1] = [status |-> "LEASED", worker |-> w]]
  PROVE  Matches(LeasedTo(w, row), atts2) /\ Forward(row, atts, LeasedTo(w, row), atts2)
  <1> DEFINE k == row.attempts + 1
  <1>1. row.attempts \in Nat /\ k \in Attempts /\ row.token = 0
    BY LedgerAssumption DEF Attempts, WorkRow, Matches, Held, Waiting
  <1>2. /\ atts2[k] = [status |-> "LEASED", worker |-> w]
        /\ \A n \in Attempts \ {k} : atts2[n] = atts[n]
    BY <1>1
  <1>3. atts[k].status = "NONE"
    BY <1>1 DEF Matches
  <1>4. Matches(LeasedTo(w, row), atts2)
    BY <1>1, <1>2 DEF Matches, LeasedTo, Held, Attempts
  <1>5. Forward(row, atts, LeasedTo(w, row), atts2)
    BY <1>1, <1>2, <1>3 DEF Forward, LeasedTo, ClosedAttempt, Settled, Waiting
  <1>6. QED
    BY <1>4, <1>5

\* atts2 are the attempts after the one the lease of row names was closed as c.
Closes(row, atts, c, atts2) ==
  \A n \in Attempts :
    atts2[n] = IF n = row.token THEN [atts[n] EXCEPT !.status = c] ELSE atts[n]

\* Closing the attempt of a lease and giving the lease up go together.
LEMMA ReleasedMatches ==
  ASSUME NEW row \in WorkRow, NEW atts \in [Attempts -> AttemptRow],
         Matches(row, atts), row.status \in Held,
         NEW s \in Settled \cup {"RETRY_WAIT"}, NEW c \in ClosedAttempt, NEW d,
         s \in Settled => d = 0, NEW atts2, Closes(row, atts, c, atts2)
  PROVE  /\ Matches(Released(row, s, d), atts2)
         /\ Forward(row, atts, Released(row, s, d), atts2)
  <1>1. row.token \in Attempts /\ row.attempts = row.token /\ row.attempts \in Nat
    BY LedgerAssumption DEF Matches, WorkRow, Attempts
  <1>2. atts[row.token].status \in OpenAttempt
    BY <1>1 DEF Matches, Held, OpenAttempt
  <1>3. atts2[row.token].status = c
    BY <1>1 DEF AttemptRow, Closes
  <1>4. \A n \in Attempts \ {row.token} : atts2[n] = atts[n]
    BY DEF Closes
  <1>5. \A n \in Attempts : /\ n > row.attempts => atts2[n].status = "NONE"
                            /\ n <= row.attempts => atts2[n].status \in ClosedAttempt
    BY <1>1, <1>3, <1>4 DEF Matches
  <1>6. Matches(Released(row, s, d), atts2)
    BY <1>5 DEF Matches, Released, Held, Settled
  <1>7. Forward(row, atts, Released(row, s, d), atts2)
    BY <1>1, <1>2, <1>4 DEF Forward, Released, Held, Settled, OpenAttempt, ClosedAttempt
  <1>8. QED
    BY <1>6, <1>7

\* What every step does to every item.
Moves(i) ==
  /\ Matches(work'[i], attempt'[i])
  /\ Forward(work[i], attempt[i], work'[i], attempt'[i])

LEMMA StillMoves ==
  ASSUME Fenced, NEW i \in Items, work'[i] = work[i], attempt'[i] = attempt[i]
  PROVE  Moves(i)
  <1>1. work[i].attempts \in Nat
    BY RowTypes, LedgerAssumption DEF Fenced, WorkRow
  <1>2. QED
    BY <1>1 DEF Fenced, Moves, Forward

LEMMA InsertMoves ==
  ASSUME Fenced, NEW j \in Items, NEW t, NEW r, NEW d, Insert(j, t, r, d)
  PROVE  \A i \in Items : Moves(i)
  <1> SUFFICES ASSUME NEW i \in Items PROVE Moves(i)
    OBVIOUS
  <1>1. CASE i # j
    BY <1>1, StillMoves DEF Insert, Fenced, Budgeted, TypeOK
  <1>2. CASE i = j
    <2>1. work'[i] = Row(t, r, d) /\ attempt'[i] = attempt[i]
      BY <1>2 DEF Insert, Fenced, Budgeted, TypeOK
    <2>2. /\ work[i].status = "ABSENT" /\ work[i].attempts = 0 /\ work[i].token = 0
          /\ \A n \in Attempts : attempt[i][n].status = "NONE"
      <3>1. work[i].status = "ABSENT" /\ Matches(work[i], attempt[i])
        BY <1>2 DEF Insert, Fenced
      <3>2. work[i].attempts = 0 /\ work[i].token = 0
        BY <3>1 DEF Matches, Held
      <3>3. \A n \in Attempts : n > 0
        BY LedgerAssumption DEF Attempts
      <3>4. \A n \in Attempts : attempt[i][n].status = "NONE"
        BY <3>1, <3>2, <3>3 DEF Matches
      <3>5. QED
        BY <3>1, <3>2, <3>4
    <2>3. Matches(work'[i], attempt'[i])
      BY <2>1, <2>2, FreshMatches DEF Row, Held, Settled
    <2>4. Forward(work[i], attempt[i], work'[i], attempt'[i])
      BY <2>1, <2>2 DEF Forward, Row, Settled
    <2>5. QED
      BY <2>3, <2>4 DEF Moves
  <1>3. QED
    BY <1>1, <1>2

LEMMA ClaimMoves ==
  ASSUME Fenced, NEW w \in Workers, NEW S \in SUBSET Items, Claim(w, S)
  PROVE  \A i \in Items : Moves(i)
  <1> DEFINE barred == {i \in Due(w) : ~Permitted(work[i].target)}
  <1> SUFFICES ASSUME NEW i \in Items PROVE Moves(i)
    OBVIOUS
  <1>1. work[i] \in WorkRow /\ attempt[i] \in [Attempts -> AttemptRow] /\ Matches(work[i], attempt[i])
    BY RowTypes DEF Fenced
  <1>2. CASE i \in S
    <2>1. work[i].status \in Waiting /\ work[i].attempts < MaxAttempts
      BY <1>2 DEF Claim, Due, Fenced, Budgeted, ClaimableHasBudget
    <2>2. /\ work'[i] = LeasedTo(w, work[i])
          /\ attempt'[i] = [attempt[i] EXCEPT ![work[i].attempts + 1] =
                              [status |-> "LEASED", worker |-> w]]
      BY <1>2 DEF Claim
    <2>3. QED
      BY <1>1, <2>1, <2>2, LeasedToMatches DEF Moves
  <1>3. CASE i \in barred
    <2>1. work'[i] = [work[i] EXCEPT !.status = "POLICY_BLOCKED"] /\ attempt'[i] = attempt[i]
      BY <1>3 DEF Claim
    <2>2. work[i].status \in Waiting /\ work[i].wait = 0 /\ work[i].attempts \in Nat
      BY <1>1, <1>3, LedgerAssumption DEF Due, WorkRow
    <2>3. Matches(work'[i], attempt'[i])
      BY <1>1, <2>1, <2>2 DEF Matches, WorkRow, Waiting, Held
    <2>4. Forward(work[i], attempt[i], work'[i], attempt'[i])
      BY <1>1, <2>1, <2>2 DEF Forward, WorkRow, Waiting, Settled
    <2>5. QED
      BY <2>3, <2>4 DEF Moves
  <1>4. CASE i \notin S /\ i \notin barred
    BY <1>4, StillMoves DEF Claim
  <1>5. QED
    BY <1>2, <1>3, <1>4

LEMMA StartMoves ==
  ASSUME Fenced, NEW w \in Workers, NEW j \in Items, NEW n \in Attempts, Start(w, j, n)
  PROVE  \A i \in Items : Moves(i)
  <1> SUFFICES ASSUME NEW i \in Items PROVE Moves(i)
    OBVIOUS
  <1>1. work[i] \in WorkRow /\ attempt[i] \in [Attempts -> AttemptRow] /\ Matches(work[i], attempt[i])
    BY RowTypes DEF Fenced
  <1>2. CASE i # j
    BY <1>2, StillMoves DEF Start, Fenced, Budgeted, TypeOK
  <1>3. CASE i = j
    <2>1. /\ work'[i] = [work[i] EXCEPT !.status = "RUNNING"]
          /\ attempt'[i] = [attempt[i] EXCEPT ![n].status = "RUNNING"]
          /\ work[i].status = "LEASED" /\ work[i].token = n
      BY <1>3 DEF Start, HoldsLease, Fenced, Budgeted, TypeOK, Attempts
    <2>2. /\ attempt[i][n] = [status |-> "LEASED", worker |-> work[i].owner]
          /\ work[i].attempts = n /\ n > 0 /\ work[i].owner \in Workers
      BY <1>1, <2>1 DEF Matches, Held
    <2>3. /\ attempt'[i][n] = [status |-> "RUNNING", worker |-> work[i].owner]
          /\ \A m \in Attempts \ {n} : attempt'[i][m] = attempt[i][m]
      BY <1>1, <2>1, <2>2
    <2>4. /\ work'[i].status = "RUNNING" /\ work'[i].token = n /\ work'[i].attempts = n
          /\ work'[i].owner = work[i].owner
      BY <1>1, <2>1, <2>2 DEF WorkRow
    <2>5. Matches(work'[i], attempt'[i])
      BY <1>1, <2>1, <2>2, <2>3, <2>4 DEF Matches, Held, Settled, Attempts
    <2>6. Forward(work[i], attempt[i], work'[i], attempt'[i])
      BY <1>1, <2>1, <2>2, <2>3, <2>4 DEF Forward, Settled, ClosedAttempt, Attempts
    <2>7. QED
      BY <2>5, <2>6 DEF Moves
  <1>4. QED
    BY <1>2, <1>3

LEMMA HeartbeatMoves ==
  ASSUME Fenced, NEW w \in Workers, NEW j \in Items, NEW n \in Attempts, Heartbeat(w, j, n)
  PROVE  \A i \in Items : Moves(i)
  <1> SUFFICES ASSUME NEW i \in Items PROVE Moves(i)
    OBVIOUS
  <1>1. work[i] \in WorkRow /\ Matches(work[i], attempt[i])
    BY RowTypes DEF Fenced
  <1>2. CASE i # j
    BY <1>2, StillMoves DEF Heartbeat, Fenced, Budgeted, TypeOK
  <1>3. CASE i = j
    <2>1. /\ work'[i] = [work[i] EXCEPT !.lease = LeaseLength]
          /\ attempt'[i] = attempt[i] /\ work[i].status = "RUNNING"
      BY <1>3 DEF Heartbeat, Fenced, Budgeted, TypeOK
    <2>2. /\ work'[i].status = "RUNNING" /\ work'[i].token = work[i].token
          /\ work'[i].attempts = work[i].attempts /\ work'[i].owner = work[i].owner
          /\ work[i].attempts \in Nat
      BY <1>1, <2>1, LedgerAssumption DEF WorkRow
    <2>3. Matches(work'[i], attempt'[i])
      BY <1>1, <2>1, <2>2 DEF Matches, Held
    <2>4. Forward(work[i], attempt[i], work'[i], attempt'[i])
      BY <2>1, <2>2 DEF Forward, Settled
    <2>5. QED
      BY <2>3, <2>4 DEF Moves
  <1>4. QED
    BY <1>2, <1>3

LEMMA FinishMoves ==
  ASSUME Fenced, NEW w \in Workers, NEW j \in Items, NEW n \in Attempts,
         NEW o \in Outcomes, NEW d \in 0..MaxWait, Finish(w, j, n, o, d)
  PROVE  \A i \in Items : Moves(i)
  <1> DEFINE next == NextStatus(work[j], o)
  <1> SUFFICES ASSUME NEW i \in Items PROVE Moves(i)
    OBVIOUS
  <1>1. work[i] \in WorkRow /\ attempt[i] \in [Attempts -> AttemptRow] /\ Matches(work[i], attempt[i])
    BY RowTypes DEF Fenced
  <1>2. CASE i # j
    BY <1>2, StillMoves DEF Finish, Fenced, Budgeted, TypeOK
  <1>3. CASE i = j
    <2>1. /\ work'[i] = Released(work[i], next, d)
          /\ attempt'[i] = [attempt[i] EXCEPT ![n].status = AttemptStatus(next, o)]
          /\ work[i].status \in Held /\ work[i].token = n
      BY <1>3 DEF Finish, HoldsLease, Fenced, Budgeted, TypeOK, Attempts
    <2>2. next \in Settled \cup {"RETRY_WAIT"} /\ AttemptStatus(next, o) \in ClosedAttempt
      BY <1>1, <1>3, NextStatusRange DEF AttemptStatus, ClosedAttempt
    <2>3. Closes(work[i], attempt[i], AttemptStatus(next, o), attempt'[i])
      BY <1>1, <2>1 DEF Closes
    <2>4. next \in Settled => d = 0
      BY DEF Finish, Settled
    <2>5. /\ Matches(Released(work[i], next, d), attempt'[i])
          /\ Forward(work[i], attempt[i], Released(work[i], next, d), attempt'[i])
      <3> HIDE DEF next
      <3> QED
        BY <1>1, <2>1, <2>2, <2>3, <2>4, ReleasedMatches
    <2>6. QED
      BY <2>1, <2>5 DEF Moves
  <1>4. QED
    BY <1>2, <1>3

LEMMA ReapMoves ==
  ASSUME Fenced, NEW S \in SUBSET Items, Reap(S)
  PROVE  \A i \in Items : Moves(i)
  <1> SUFFICES ASSUME NEW i \in Items PROVE Moves(i)
    OBVIOUS
  <1>1. work[i] \in WorkRow /\ attempt[i] \in [Attempts -> AttemptRow] /\ Matches(work[i], attempt[i])
    BY RowTypes DEF Fenced
  <1>2. CASE i \notin S
    <2>1. work'[i] = work[i]
      BY <1>2 DEF Reap
    <2>2. attempt'[i] = attempt[i]
      BY <1>1, <1>2 DEF Reap, Attempts
    <2>3. QED
      BY <2>1, <2>2, StillMoves
  <1>3. CASE i \in S
    <2>1. /\ work'[i] = Released(work[i], ReapedStatus(work[i]), 0)
          /\ work[i].status \in Held
      BY <1>3 DEF Reap, Expired
    <2>2. ReapedStatus(work[i]) \in Settled \cup {"RETRY_WAIT"} /\ "ABANDONED" \in ClosedAttempt
      BY <1>1, ReapedStatusRange DEF Settled, ClosedAttempt
    <2>3. attempt[i][work[i].token].status \in OpenAttempt
      BY <1>1, <2>1 DEF Matches, Held, OpenAttempt
    <2>4. Closes(work[i], attempt[i], "ABANDONED", attempt'[i])
      BY <1>3, <2>3 DEF Reap, Attempts, Closes
    <2>5. QED
      BY <1>1, <2>1, <2>2, <2>4, ReleasedMatches DEF Moves
  <1>4. QED
    BY <1>2, <1>3

LEMMA CancelMoves ==
  ASSUME Fenced, NEW j \in Items, Cancel(j)
  PROVE  \A i \in Items : Moves(i)
  <1> SUFFICES ASSUME NEW i \in Items PROVE Moves(i)
    OBVIOUS
  <1>1. work[i] \in WorkRow /\ Matches(work[i], attempt[i])
    BY RowTypes DEF Fenced
  <1>2. CASE i # j
    BY <1>2, StillMoves DEF Cancel, Fenced, Budgeted, TypeOK
  <1>3. CASE i = j
    <2>1. /\ work[i].status \in Active /\ attempt'[i] = attempt[i]
          /\ work'[i] = IF work[i].status \in Waiting
                        THEN [work[i] EXCEPT !.status = "CANCELLED", !.wait = 0]
                        ELSE [work[i] EXCEPT !.cancel = TRUE]
      BY <1>3 DEF Cancel, IsActive, Fenced, Budgeted, TypeOK
    <2>2. /\ work'[i].token = work[i].token /\ work'[i].attempts = work[i].attempts
          /\ work'[i].owner = work[i].owner /\ work'[i].lease = work[i].lease
          /\ work'[i].status = IF work[i].status \in Waiting THEN "CANCELLED" ELSE work[i].status
          /\ work[i].attempts \in Nat
      BY <1>1, <2>1, LedgerAssumption DEF WorkRow
    <2>3. Matches(work'[i], attempt'[i])
      BY <1>1, <2>1, <2>2 DEF Matches, Held, Waiting, Active
    <2>4. Forward(work[i], attempt[i], work'[i], attempt'[i])
      BY <2>1, <2>2 DEF Forward, Settled, Active, Waiting, Held
    <2>5. QED
      BY <2>3, <2>4 DEF Moves
  <1>4. QED
    BY <1>2, <1>3

LEMMA TickMoves ==
  ASSUME Fenced, Tick
  PROVE  \A i \in Items : Moves(i)
  <1> SUFFICES ASSUME NEW i \in Items PROVE Moves(i)
    OBVIOUS
  <1>1. work[i] \in WorkRow /\ Matches(work[i], attempt[i])
    BY RowTypes DEF Fenced
  <1>2. /\ work'[i] = [work[i] EXCEPT !.lease = Before(@), !.wait = Before(@)]
        /\ attempt'[i] = attempt[i]
    BY DEF Tick
  <1>3. /\ work'[i].token = work[i].token /\ work'[i].attempts = work[i].attempts
        /\ work'[i].owner = work[i].owner /\ work'[i].status = work[i].status
        /\ work'[i].lease = Before(work[i].lease)
        /\ work[i].attempts \in Nat
    BY <1>1, <1>2, LedgerAssumption DEF WorkRow
  <1>4. Matches(work'[i], attempt'[i])
    BY <1>1, <1>2, <1>3 DEF Matches, Held, Before
  <1>5. Forward(work[i], attempt[i], work'[i], attempt'[i])
    <2>1. CASE work[i].status \in Settled
      <3>1. work[i].wait = 0 /\ work[i].lease = 0
        BY <1>1, <2>1 DEF Matches, Settled, Held
      <3>2. Before(work[i].lease) = work[i].lease /\ Before(work[i].wait) = work[i].wait
        BY <3>1 DEF Before
      <3>3. \A x, y : x = work[i].lease /\ y = work[i].wait =>
              [work[i] EXCEPT !.lease = x, !.wait = y] = work[i]
        BY <1>1 DEF WorkRow
      <3>4. work'[i] = work[i]
        BY <1>2, <3>2, <3>3
      <3>5. QED
        BY <1>2, <1>3, <3>4 DEF Forward
    <2>2. CASE work[i].status \notin Settled
      BY <1>2, <1>3, <2>2 DEF Forward
    <2>3. QED
      BY <2>1, <2>2
  <1>6. QED
    BY <1>4, <1>5 DEF Moves

\* Every step moves every item forward, between states in which leases and attempts agree.
LEMMA NextFenced == Fenced /\ [Next]_vars => Fenced' /\ \A i \in Items : Moves(i)
  <1> SUFFICES ASSUME Fenced, [Next]_vars PROVE \A i \in Items : Moves(i)
    BY NextBudgeted DEF Fenced, Moves
  <1>1. ASSUME NEW i \in Items, NEW t \in Targets, NEW d \in 0..MaxWait,
               EnqueueRequest(i, t, d) \/ EnqueueDirect(i, t, d)
        PROVE  \A j \in Items : Moves(j)
    BY <1>1, InsertMoves DEF EnqueueRequest, EnqueueDirect
  <1>2. ASSUME NEW w \in Workers, NEW S \in SUBSET Items, Claim(w, S)
        PROVE  \A j \in Items : Moves(j)
    BY <1>2, ClaimMoves
  <1>3. ASSUME NEW w \in Workers, NEW i \in Items, NEW n \in Attempts,
               Start(w, i, n) \/ Heartbeat(w, i, n)
        PROVE  \A j \in Items : Moves(j)
    BY <1>3, StartMoves, HeartbeatMoves
  <1>4. ASSUME NEW w \in Workers, NEW i \in Items, NEW n \in Attempts, NEW o \in Outcomes,
               NEW d \in 0..MaxWait, Finish(w, i, n, o, d)
        PROVE  \A j \in Items : Moves(j)
    BY <1>4, FinishMoves
  <1>5. ASSUME NEW S \in SUBSET Items, Reap(S) PROVE \A j \in Items : Moves(j)
    BY <1>5, ReapMoves
  <1>6. ASSUME NEW i \in Items, Cancel(i) PROVE \A j \in Items : Moves(j)
    BY <1>6, CancelMoves
  <1>7. ASSUME NEW i \in Items, NEW j \in Items, Requeue(i, j) PROVE \A k \in Items : Moves(k)
    BY <1>7, InsertMoves DEF Requeue
  <1>8. ASSUME NEW t \in Targets, SetPolicy(t) PROVE \A j \in Items : Moves(j)
    BY <1>8, StillMoves DEF SetPolicy
  <1>9. CASE Tick
    BY <1>9, TickMoves
  <1>10. CASE UNCHANGED vars
    BY <1>10, StillMoves DEF vars
  <1>11. ASSUME NEW i \in Items, NEW n \in Attempts,
                TakeRequest(i, n) \/ \E status \in RequestStatus : CloseRequest(i, n, status)
         PROVE  \A j \in Items : Moves(j)
    BY <1>11, StillMoves DEF TakeRequest, CloseRequest
  <1>12. QED
    BY <1>1, <1>2, <1>3, <1>4, <1>5, <1>6, <1>7, <1>8, <1>9, <1>10, <1>11 DEF Next

LEMMA InitFenced == Init => Fenced
  <1> SUFFICES ASSUME Init PROVE Fenced
    OBVIOUS
  <1>1. ASSUME NEW i \in Items PROVE Matches(work[i], attempt[i])
    <2>1. /\ work[i] = AbsentRow
          /\ \A n \in Attempts : attempt[i][n].status = "NONE"
      BY <1>1 DEF Init, Attempts
    <2>2. QED
      BY <2>1, FreshMatches DEF AbsentRow, Held, Settled
  <1>2. QED
    BY <1>1, InitBudgeted DEF Fenced

LEMMA FencedAlways == Spec => []Fenced
  BY InitFenced, NextFenced, PTL DEF Spec

\* The lease columns of an item and its attempts agree in every reachable state: an item
\* is leased to exactly the holder of its newest attempt, and all older ones are closed.
THEOREM LeaseSafe == Spec => []AttemptsMatchLease
  BY FencedAlways, FencedMatches, PTL

\* No step of any worker, reaper or operator, in any order and with any token, changes
\* a settled item or a closed attempt.
THEOREM HistorySafe == Spec => HistoryIsFinal
  <1>1. ASSUME Fenced, [Next]_vars
        PROVE  [\A i \in Items :
                  /\ work[i].status \in Settled => work'[i] = work[i]
                  /\ \A n \in Attempts :
                       attempt[i][n].status \in ClosedAttempt => attempt'[i][n] = attempt[i][n]]_vars
    BY <1>1, NextFenced DEF Moves, Forward
  <1>2. QED
    BY <1>1, FencedAlways, PTL DEF Spec, HistoryIsFinal

\* A lease that is granted carries a token no earlier lease of the item had.
THEOREM TokensSafe == Spec => TokensOnlyGrow
  <1>1. ASSUME Fenced, [Next]_vars
        PROVE  [\A i \in Items :
                  /\ work'[i].attempts >= work[i].attempts
                  /\ work'[i].token \notin {0, work[i].token}
                       => work'[i].token > work[i].attempts]_vars
    BY <1>1, NextFenced DEF Moves, Forward
  <1>2. QED
    BY <1>1, FencedAlways, PTL DEF Spec, TokensOnlyGrow
=============================================================================
