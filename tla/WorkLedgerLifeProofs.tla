----------------------- MODULE WorkLedgerLifeProofs -----------------------
(***************************************************************************)
(* The work ledger implements ExclusiveWork, keeps exclusive targets       *)
(* exclusive, its dead letters exact and its requests with their work.     *)
(***************************************************************************)
EXTENDS WorkLedgerProofs

\* The four ways a step moves the row of an item that is there already.
HandedOut(row, row2) ==
  /\ row.status \in Waiting /\ row2.status \in Held
  /\ row.attempts < MaxAttempts /\ row2.attempts = row.attempts + 1
HandedBack(row, row2) ==
  /\ row.status \in Held /\ row2.status \in Waiting
  /\ row.attempts < MaxAttempts /\ row2.attempts = row.attempts
DoneWith(row, row2) ==
  /\ row.status \in Active /\ row2.status \in Settled
  /\ row2.attempts = row.attempts
StaysIn(row, row2) ==
  /\ PhaseOf(row2.status) = PhaseOf(row.status)
  /\ row2.attempts = row.attempts

Advances(row, row2) ==
  /\ row2.target = row.target
  /\ HandedOut(row, row2) \/ HandedBack(row, row2) \/ DoneWith(row, row2) \/ StaysIn(row, row2)

AllAdvance == \A i \in Items : Advances(work[i], work'[i])

\* An item that exists has a target.
Aimed == \A i \in Items : work[i].status # "ABSENT" => work[i].target \in Targets

Inserts == \E i \in Items, t \in Targets, r \in Items \cup {None}, d \in 0..MaxWait :
             Insert(i, t, r, d)

LEMMA PhaseFacts ==
  ASSUME NEW s \in {"ABSENT"} \cup Active \cup Settled
  PROVE  /\ PhaseOf(s) = "absent" <=> s = "ABSENT"
         /\ PhaseOf(s) = "queued" <=> s \in Waiting
         /\ PhaseOf(s) = "held" <=> s \in Held
         /\ PhaseOf(s) = "settled" <=> s \in Settled
  BY DEF PhaseOf, Active, Waiting, Held, Settled

LEMMA SameAdvances ==
  ASSUME NEW row, NEW row2, row2.status = row.status, row2.target = row.target,
         row2.attempts = row.attempts
  PROVE  Advances(row, row2)
  BY DEF Advances, StaysIn

LEMMA ClaimAdvances ==
  ASSUME Budgeted, NEW w \in Workers, NEW S \in SUBSET Items, Claim(w, S)
  PROVE  AllAdvance
  <1> DEFINE barred == {i \in Due(w) : ~Permitted(work[i].target)}
  <1> SUFFICES ASSUME NEW i \in Items PROVE Advances(work[i], work'[i])
    BY DEF AllAdvance
  <1>1. CASE i \in S
    <2>1. work'[i] = LeasedTo(w, work[i]) /\ work[i].status \in Waiting
      BY <1>1 DEF Claim, Due
    <2>2. work[i].attempts < MaxAttempts
      BY <2>1 DEF Budgeted, ClaimableHasBudget
    <2>3. HandedOut(work[i], work'[i]) /\ work'[i].target = work[i].target
      BY <2>1, <2>2 DEF HandedOut, LeasedTo, Held
    <2>4. QED
      BY <2>3 DEF Advances
  <1>2. CASE i \in barred
    <2>1. work'[i] = [work[i] EXCEPT !.status = "POLICY_BLOCKED"] /\ work[i].status \in Waiting
      BY <1>2 DEF Claim, Due
    <2>2. DoneWith(work[i], work'[i]) /\ work'[i].target = work[i].target
      BY <2>1, RowTypes DEF DoneWith, Active, Settled, WorkRow
    <2>3. QED
      BY <2>2 DEF Advances
  <1>3. CASE i \notin S /\ i \notin barred
    BY <1>3, SameAdvances DEF Claim
  <1>4. QED
    BY <1>1, <1>2, <1>3

LEMMA FinishAdvances ==
  ASSUME Budgeted, NEW w \in Workers, NEW j \in Items, NEW n \in Attempts,
         NEW o \in Outcomes, NEW d \in 0..MaxWait, Finish(w, j, n, o, d)
  PROVE  AllAdvance
  <1> SUFFICES ASSUME NEW i \in Items PROVE Advances(work[i], work'[i])
    BY DEF AllAdvance
  <1>1. CASE i # j
    BY <1>1, SameAdvances DEF Finish, Budgeted, TypeOK
  <1>2. CASE i = j
    <2>1. /\ work'[i] = Released(work[i], NextStatus(work[i], o), d)
          /\ work[i].status \in Held
      BY <1>2 DEF Finish, Budgeted, TypeOK
    <2>2. /\ NextStatus(work[i], o) \in Settled \cup {"RETRY_WAIT"}
          /\ NextStatus(work[i], o) = "RETRY_WAIT" => work[i].attempts < MaxAttempts
      BY RowTypes, NextStatusRange
    <2>3. HandedBack(work[i], work'[i]) \/ DoneWith(work[i], work'[i])
      BY <2>1, <2>2 DEF HandedBack, DoneWith, Released, Waiting, Active
    <2>4. QED
      BY <2>1, <2>3 DEF Advances, Released
  <1>3. QED
    BY <1>1, <1>2

LEMMA ReapAdvances ==
  ASSUME Budgeted, NEW S \in SUBSET Items, Reap(S)
  PROVE  AllAdvance
  <1> SUFFICES ASSUME NEW i \in Items PROVE Advances(work[i], work'[i])
    BY DEF AllAdvance
  <1>1. CASE i \notin S
    BY <1>1, SameAdvances DEF Reap
  <1>2. CASE i \in S
    <2>1. /\ work'[i] = Released(work[i], ReapedStatus(work[i]), 0)
          /\ work[i].status \in Held
      BY <1>2 DEF Reap, Expired
    <2>2. /\ ReapedStatus(work[i]) \in {"RETRY_WAIT", "DEAD_LETTERED"}
          /\ ReapedStatus(work[i]) = "RETRY_WAIT" => work[i].attempts < MaxAttempts
      BY RowTypes, ReapedStatusRange
    <2>3. HandedBack(work[i], work'[i]) \/ DoneWith(work[i], work'[i])
      BY <2>1, <2>2 DEF HandedBack, DoneWith, Released, Waiting, Active, Settled
    <2>4. QED
      BY <2>1, <2>3 DEF Advances, Released
  <1>3. QED
    BY <1>1, <1>2

LEMMA CancelAdvances ==
  ASSUME Budgeted, NEW j \in Items, Cancel(j)
  PROVE  AllAdvance
  <1> SUFFICES ASSUME NEW i \in Items PROVE Advances(work[i], work'[i])
    BY DEF AllAdvance
  <1>1. CASE i # j
    BY <1>1, SameAdvances DEF Cancel, Budgeted, TypeOK
  <1>2. CASE i = j
    <2>1. /\ work[i].status \in Active /\ work[i] \in WorkRow
          /\ work'[i] = IF work[i].status \in Waiting
                        THEN [work[i] EXCEPT !.status = "CANCELLED", !.wait = 0]
                        ELSE [work[i] EXCEPT !.cancel = TRUE]
      BY <1>2, RowTypes DEF Cancel, IsActive, Budgeted, TypeOK
    <2>2. /\ work'[i].target = work[i].target /\ work'[i].attempts = work[i].attempts
          /\ work'[i].status = IF work[i].status \in Waiting THEN "CANCELLED" ELSE work[i].status
      BY <2>1 DEF WorkRow
    <2>3. DoneWith(work[i], work'[i]) \/ StaysIn(work[i], work'[i])
      BY <2>1, <2>2 DEF DoneWith, StaysIn, Settled
    <2>4. QED
      BY <2>2, <2>3 DEF Advances
  <1>3. QED
    BY <1>1, <1>2

LEMMA StartAdvances ==
  ASSUME Budgeted, NEW w \in Workers, NEW j \in Items, NEW n \in Attempts,
         Start(w, j, n) \/ Heartbeat(w, j, n)
  PROVE  AllAdvance
  <1> SUFFICES ASSUME NEW i \in Items PROVE Advances(work[i], work'[i])
    BY DEF AllAdvance
  <1>1. work[i] \in WorkRow
    BY RowTypes
  <1>2. CASE i # j
    BY <1>2, SameAdvances DEF Start, Heartbeat, Budgeted, TypeOK
  <1>3. CASE i = j /\ Start(w, j, n)
    <2>1. work'[i] = [work[i] EXCEPT !.status = "RUNNING"] /\ work[i].status = "LEASED"
      BY <1>3 DEF Start, Budgeted, TypeOK
    <2>2. /\ work'[i].target = work[i].target /\ work'[i].attempts = work[i].attempts
          /\ work'[i].status = "RUNNING"
      BY <1>1, <2>1 DEF WorkRow
    <2>3. QED
      <3>1. PhaseOf("RUNNING") = PhaseOf("LEASED")
        BY PhaseFacts DEF Active, Waiting, Held
      <3>2. QED
        BY <2>1, <2>2, <3>1 DEF Advances, StaysIn
  <1>4. CASE i = j /\ Heartbeat(w, j, n)
    <2>1. work'[i] = [work[i] EXCEPT !.lease = LeaseLength]
      BY <1>4 DEF Heartbeat, Budgeted, TypeOK
    <2>2. QED
      BY <1>1, <2>1, SameAdvances DEF WorkRow
  <1>5. QED
    BY <1>2, <1>3, <1>4

LEMMA TickAdvances ==
  ASSUME Budgeted, Tick
  PROVE  AllAdvance
  <1> SUFFICES ASSUME NEW i \in Items PROVE Advances(work[i], work'[i])
    BY DEF AllAdvance
  <1>1. work'[i] = [work[i] EXCEPT !.lease = Before(@), !.wait = Before(@)]
    BY DEF Tick
  <1>2. work[i] \in WorkRow
    BY RowTypes
  <1>3. /\ work'[i].status = work[i].status /\ work'[i].target = work[i].target
        /\ work'[i].attempts = work[i].attempts
    BY <1>1, <1>2 DEF WorkRow
  <1>4. QED
    BY <1>3, SameAdvances

\* A step inserts one item or advances those there are.
LEMMA NextAdvances ==
  ASSUME Budgeted, Aimed, [Next]_vars
  PROVE  Inserts \/ AllAdvance
  <1>1. ASSUME NEW i \in Items, NEW t \in Targets, NEW d \in 0..MaxWait,
               EnqueueRequest(i, t, d) \/ EnqueueDirect(i, t, d)
        PROVE  Inserts
    BY <1>1 DEF EnqueueRequest, EnqueueDirect, Inserts
  <1>2. ASSUME NEW w \in Workers, NEW S \in SUBSET Items, Claim(w, S) PROVE AllAdvance
    BY <1>2, ClaimAdvances
  <1>3. ASSUME NEW w \in Workers, NEW i \in Items, NEW n \in Attempts,
               Start(w, i, n) \/ Heartbeat(w, i, n)
        PROVE  AllAdvance
    BY <1>3, StartAdvances
  <1>4. ASSUME NEW w \in Workers, NEW i \in Items, NEW n \in Attempts, NEW o \in Outcomes,
               NEW d \in 0..MaxWait, Finish(w, i, n, o, d)
        PROVE  AllAdvance
    BY <1>4, FinishAdvances
  <1>5. ASSUME NEW S \in SUBSET Items, Reap(S) PROVE AllAdvance
    BY <1>5, ReapAdvances
  <1>6. ASSUME NEW i \in Items, Cancel(i) PROVE AllAdvance
    BY <1>6, CancelAdvances
  <1>7. ASSUME NEW i \in Items, NEW j \in Items, Requeue(i, j) PROVE Inserts
    <2>1. work[i].target \in Targets /\ work[i].req \in Items \cup {None} /\ 0 \in 0..MaxWait
      BY <1>7, RowTypes, LedgerAssumption DEF Requeue, Aimed, WorkRow
    <2>2. Insert(j, work[i].target, work[i].req, 0)
      BY <1>7 DEF Requeue
    <2>3. QED
      BY <2>1, <2>2 DEF Inserts
  <1>8. ASSUME NEW t \in Targets, SetPolicy(t) PROVE AllAdvance
    BY <1>8, SameAdvances DEF SetPolicy, AllAdvance
  <1>9. CASE Tick
    BY <1>9, TickAdvances
  <1>10. CASE UNCHANGED vars
    BY <1>10, SameAdvances DEF vars, AllAdvance
  <1>11. ASSUME NEW i \in Items, NEW n \in Attempts,
                TakeRequest(i, n) \/ \E status \in RequestStatus : CloseRequest(i, n, status)
         PROVE  AllAdvance
    BY <1>11, SameAdvances DEF TakeRequest, CloseRequest, AllAdvance
  <1>12. QED
    BY <1>1, <1>2, <1>3, <1>4, <1>5, <1>6, <1>7, <1>8, <1>9, <1>10, <1>11 DEF Next

-----------------------------------------------------------------------------
(* Targets, exclusive keys and dead letters *)

\* An item that advances was there before, and active if it is.
LEMMA AdvanceFacts ==
  ASSUME NEW row \in WorkRow, NEW row2 \in WorkRow, Advances(row, row2)
  PROVE  /\ row2.target = row.target
         /\ row2.status # "ABSENT" => row.status # "ABSENT"
         /\ row2.status \in Active => row.status \in Active
  <1>1. row.status \in {"ABSENT"} \cup Active \cup Settled
    BY DEF WorkRow
  <1>2. row2.status \in {"ABSENT"} \cup Active \cup Settled
    BY DEF WorkRow
  <1>3. CASE StaysIn(row, row2)
    <2>1. row2.status = "ABSENT" <=> row.status = "ABSENT"
      BY <1>1, <1>2, <1>3, PhaseFacts DEF StaysIn
    <2>2. row2.status \in Waiting <=> row.status \in Waiting
      BY <1>1, <1>2, <1>3, PhaseFacts DEF StaysIn
    <2>3. row2.status \in Held <=> row.status \in Held
      BY <1>1, <1>2, <1>3, PhaseFacts, ZenonT(40) DEF StaysIn
    <2>4. QED
      BY <2>1, <2>2, <2>3 DEF Advances, Active
  <1>4. CASE ~StaysIn(row, row2)
    <2>1. row.status \in Active
      BY <1>4 DEF Advances, HandedOut, HandedBack, DoneWith, Active
    <2>2. QED
      BY <2>1 DEF Advances, Active, Waiting, Held
  <1>5. QED
    BY <1>3, <1>4

Exclusively == Fenced /\ Aimed /\ OneActivePerTarget

LEMMA InsertRow ==
  ASSUME Budgeted, NEW i \in Items, NEW t \in Targets, NEW r, NEW d, Insert(i, t, r, d)
  PROVE  /\ work'[i] = Row(t, r, d)
         /\ \A j \in Items \ {i} : work'[j] = work[j]
  BY DEF Insert, Budgeted, TypeOK

LEMMA NextExclusively == Exclusively /\ [Next]_vars => Exclusively'
  <1> SUFFICES ASSUME Exclusively, [Next]_vars PROVE Exclusively'
    OBVIOUS
  <1>1. Fenced' /\ Budgeted /\ Budgeted'
    BY NextFenced DEF Exclusively, Fenced
  <1>2. ASSUME AllAdvance PROVE Aimed' /\ OneActivePerTarget'
    <2>1. ASSUME NEW i \in Items
          PROVE  /\ work'[i].target = work[i].target
                 /\ work'[i].status # "ABSENT" => work[i].status # "ABSENT"
                 /\ IsActive(i)' => IsActive(i)
      <3>1. work[i] \in WorkRow /\ work'[i] \in WorkRow
        BY <1>1 DEF Budgeted, TypeOK
      <3>2. Advances(work[i], work'[i])
        BY <1>2 DEF AllAdvance
      <3>3. QED
        BY <3>1, <3>2, AdvanceFacts DEF IsActive
    <2>2. Aimed'
      BY <2>1 DEF Exclusively, Aimed
    <2>3. OneActivePerTarget'
      BY <2>1 DEF Exclusively, OneActivePerTarget, Keyed
    <2>4. QED
      BY <2>2, <2>3
  <1>3. ASSUME NEW i \in Items, NEW t \in Targets, NEW r \in Items \cup {None},
               NEW d \in 0..MaxWait, Insert(i, t, r, d)
        PROVE  Aimed' /\ OneActivePerTarget'
    <2>1. /\ work'[i].target = t
          /\ \A j \in Items \ {i} : work'[j] = work[j]
      <3>1. /\ work'[i] = Row(t, r, d)
            /\ \A j \in Items \ {i} : work'[j] = work[j]
        BY <1>1, <1>3, InsertRow
      <3>2. QED
        BY <3>1 DEF Row
    <2>2. Aimed'
      BY <2>1 DEF Exclusively, Aimed
    <2>3. Keyed(t) => \A j \in Items \ {i} : ~(IsActive(j)' /\ work'[j].target = t)
      BY <1>3, <2>1 DEF Insert, KeyBusy, IsActive
    <2>4. OneActivePerTarget'
      <3> SUFFICES ASSUME NEW j \in Items, NEW k \in Items, IsActive(j)', IsActive(k)',
                          work'[j].target = work'[k].target, Keyed(work'[j].target)
                   PROVE  j = k
        BY DEF OneActivePerTarget, Keyed
      <3>1. CASE j = i \/ k = i
        BY <2>1, <2>3, <3>1
      <3>2. CASE j # i /\ k # i
        BY <2>1, <3>2 DEF Exclusively, OneActivePerTarget, IsActive
      <3>3. QED
        BY <3>1, <3>2
    <2>5. QED
      BY <2>2, <2>4
  <1>4. QED
    BY <1>1, <1>2, <1>3, NextAdvances DEF Exclusively, Inserts

LEMMA InitExclusively == Init => Exclusively
  <1> SUFFICES ASSUME Init PROVE Exclusively
    OBVIOUS
  <1>1. \A i \in Items : work[i].status = "ABSENT"
    BY DEF Init, AbsentRow
  <1>2. Aimed /\ OneActivePerTarget
    BY <1>1 DEF Aimed, OneActivePerTarget, IsActive, Active, Waiting, Held
  <1>3. QED
    BY <1>2, InitFenced DEF Exclusively

LEMMA ExclusivelyAlways == Spec => []Exclusively
  BY InitExclusively, NextExclusively, PTL DEF Spec

\* However items are requeued, reaped, retried and enqueued again, two items of a target
\* with an exclusive key are never active together.
THEOREM KeySafe == Spec => []OneActivePerTarget
  <1>1. Exclusively => OneActivePerTarget
    BY DEF Exclusively
  <1>2. QED
    BY <1>1, ExclusivelyAlways, PTL

-----------------------------------------------------------------------------
(* Dead letters *)

\* A step that writes letters for exactly the items of S it dead lettered keeps them exact:
\* a dead lettered item is settled and stays as it is.
LEMMA LettersKept ==
  ASSUME Fenced, LettersMatchStatus, [Next]_vars, NEW S \in SUBSET Items,
         letters' = letters \cup {i \in S : work'[i].status = "DEAD_LETTERED"},
         \A i \in Items \ S : work'[i].status = "DEAD_LETTERED" => work[i].status = "DEAD_LETTERED"
  PROVE  LettersMatchStatus'
  <1>1. \A i \in Items : work[i].status = "DEAD_LETTERED" => work'[i].status = "DEAD_LETTERED"
    BY NextFenced DEF Moves, Forward, Settled
  <1>2. letters = {i \in Items : work[i].status = "DEAD_LETTERED"}
    BY DEF LettersMatchStatus
  <1>3. letters' = {i \in Items : work'[i].status = "DEAD_LETTERED"}
    BY <1>1, <1>2
  <1>4. QED
    BY <1>3 DEF LettersMatchStatus

LEMMA NextLetters == Fenced /\ LettersMatchStatus /\ [Next]_vars => LettersMatchStatus'
  <1> SUFFICES ASSUME Fenced, LettersMatchStatus, [Next]_vars PROVE LettersMatchStatus'
    OBVIOUS
  <1> DEFINE NoneBuried == \A i \in Items :
               work'[i].status = "DEAD_LETTERED" => work[i].status = "DEAD_LETTERED"
  <1>1. ASSUME letters' = letters, NoneBuried PROVE LettersMatchStatus'
    <2>1. letters' = letters \cup {i \in {} : work'[i].status = "DEAD_LETTERED"}
      BY <1>1
    <2>2. QED
      BY <1>1, <2>1, LettersKept
  <1>2. Budgeted
    BY DEF Fenced
  <1>3. ASSUME NEW i \in Items, NEW t, NEW r, NEW d, Insert(i, t, r, d)
        PROVE  LettersMatchStatus'
    <2>1. NoneBuried
      BY <1>2, <1>3 DEF Insert, Row, Budgeted, TypeOK
    <2>2. QED
      BY <1>1, <1>3, <2>1 DEF Insert
  <1>4. ASSUME NEW w \in Workers, NEW S \in SUBSET Items, Claim(w, S)
        PROVE  LettersMatchStatus'
    <2>1. NoneBuried
      BY <1>2, <1>4, RowTypes DEF Claim, LeasedTo, WorkRow
    <2>2. QED
      BY <1>1, <1>4, <2>1 DEF Claim
  <1>5. ASSUME NEW w \in Workers, NEW i \in Items, NEW n \in Attempts,
               Start(w, i, n) \/ Heartbeat(w, i, n)
        PROVE  LettersMatchStatus'
    <2>1. /\ work' = [work EXCEPT ![i].status = "RUNNING"]
             \/ work' = [work EXCEPT ![i].lease = LeaseLength]
          /\ work \in [Items -> WorkRow]
      BY <1>2, <1>5 DEF Start, Heartbeat, Budgeted, TypeOK
    <2>2. \A j \in Items : work'[j].status \in {"RUNNING", work[j].status}
      BY <2>1 DEF WorkRow
    <2>3. NoneBuried
      BY <2>2
    <2>4. QED
      BY <1>1, <1>5, <2>3 DEF Start, Heartbeat
  <1>6. ASSUME NEW w \in Workers, NEW i \in Items, NEW n \in Attempts, NEW o \in Outcomes,
               NEW d \in 0..MaxWait, Finish(w, i, n, o, d)
        PROVE  LettersMatchStatus'
    <2>1. /\ letters' = letters \cup {j \in {i} : work'[j].status = "DEAD_LETTERED"}
          /\ \A j \in Items \ {i} : work'[j] = work[j]
      BY <1>2, <1>6 DEF Finish, LettersAfter, Budgeted, TypeOK
    <2>2. QED
      BY <2>1, LettersKept, ZenonT(40)
  <1>7. ASSUME NEW S \in SUBSET Items, Reap(S) PROVE LettersMatchStatus'
    <2>1. /\ letters' = letters \cup {j \in S : work'[j].status = "DEAD_LETTERED"}
          /\ \A j \in Items \ S : work'[j] = work[j]
      BY <1>7 DEF Reap, LettersAfter
    <2>2. QED
      BY <2>1, LettersKept
  <1>8. ASSUME NEW i \in Items, Cancel(i) PROVE LettersMatchStatus'
    <2>1. NoneBuried
      BY <1>2, <1>8, RowTypes DEF Cancel, Budgeted, TypeOK, WorkRow
    <2>2. QED
      BY <1>1, <1>8, <2>1 DEF Cancel
  <1>9. CASE Tick
    <2>1. NoneBuried
      BY <1>2, <1>9, RowTypes DEF Tick, WorkRow
    <2>2. QED
      BY <1>1, <1>9, <2>1 DEF Tick
  <1>10. ASSUME NEW t \in Targets, SetPolicy(t) PROVE LettersMatchStatus'
    BY <1>1, <1>10 DEF SetPolicy
  <1>11. CASE UNCHANGED vars
    BY <1>1, <1>11 DEF vars
  <1>12. ASSUME NEW i \in Items, NEW n \in Attempts,
                TakeRequest(i, n) \/ \E status \in RequestStatus : CloseRequest(i, n, status)
         PROVE  LettersMatchStatus'
    BY <1>1, <1>12 DEF TakeRequest, CloseRequest
  <1>13. QED
    BY <1>3, <1>4, <1>5, <1>6, <1>7, <1>8, <1>9, <1>10, <1>11, <1>12
    DEF Next, EnqueueRequest, EnqueueDirect, Requeue

\* There is a dead letter for exactly the items that are dead lettered, whoever buried
\* them - a worker's report or the reaper - and whatever was requeued since.
THEOREM LettersSafe == Spec => []LettersMatchStatus
  <1>1. Init => LettersMatchStatus
    BY DEF Init, AbsentRow, LettersMatchStatus
  <1>2. QED
    BY <1>1, FencedAlways, NextLetters, PTL DEF Spec

-----------------------------------------------------------------------------
(* Requests and the items that carry them *)

\* What an item carries is a request of its own target, inserted before it or with it.
CarriesOwn ==
  \A i \in Items :
    work[i].req # None =>
      /\ work[i].req \in Items /\ HasRequest(work[i].target)
      /\ work[work[i].req].target = work[i].target
      /\ work[work[i].req].status # "ABSENT"

NoneBefore ==
  \A r \in Items : work[r].status = "ABSENT" => request[r] = "NONE" /\ work[r].req = None

Carried ==
  /\ Exclusively
  /\ CarriesOwn /\ NoneBefore /\ OneOpenRequestPerTarget /\ OpenRequestsHaveWork

\* Work with a request has an exclusive key, so one active item at most carries it.
LEMMA RequestedIsKeyed ==
  ASSUME NEW t, HasRequest(t) PROVE Keyed(t)
  BY DEF HasRequest, Keyed

LEMMA OneCarrier ==
  ASSUME Carried, NEW i \in Items, NEW j \in Items, IsActive(i), IsActive(j),
         work[i].req = work[j].req, work[i].req # None
  PROVE  i = j
  <1>1. Keyed(work[i].target) /\ work[i].target = work[j].target
    BY RequestedIsKeyed DEF Carried, CarriesOwn
  <1>2. QED
    BY <1>1 DEF Carried, Exclusively, OneActivePerTarget

\* A step that inserts nothing and projects the items of S, all active before it and none
\* held after it, onto their requests; nothing else stops carrying one, no handler of
\* another item stops, and the index is kept.
LEMMA ProjectedCarried ==
  ASSUME Carried, Exclusively', AllAdvance, NEW S \in SUBSET Items,
         \A i \in Items : work'[i].req = work[i].req,
         \A i \in Items : work[i].status = "CANCELLED" => work'[i].status = "CANCELLED",
         \A i \in S : IsActive(i) /\ work'[i].status \notin Held,
         \A i \in Items \ S : IsActive(i) => IsActive(i)' \/ work'[i].status = "CANCELLED",
         \A i \in Items \ S, n \in Attempts : serving[i][n] = "OPEN" => serving'[i][n] = "OPEN",
         request' = Projected(S, work'), IndexKept(request')
  PROVE  Carried'
  <1>1. ASSUME NEW i \in Items
        PROVE  /\ work[i] \in WorkRow /\ work'[i] \in WorkRow
               /\ work'[i].target = work[i].target
               /\ work'[i].status # "ABSENT" => work[i].status # "ABSENT"
               /\ work'[i].status = "ABSENT" => work[i].status = "ABSENT"
               /\ IsActive(i)' => IsActive(i)
    <2>1. work[i] \in WorkRow /\ work'[i] \in WorkRow
      BY DEF Carried, Exclusively, Fenced, Budgeted, TypeOK
    <2>2. Advances(work[i], work'[i])
      BY DEF AllAdvance
    <2>3. work'[i].status = "ABSENT" => work[i].status = "ABSENT"
      <3> SUFFICES ASSUME work'[i].status = "ABSENT" PROVE work[i].status = "ABSENT"
        OBVIOUS
      <3>1. StaysIn(work[i], work'[i])
        BY <2>2 DEF Advances, HandedOut, HandedBack, DoneWith, Held, Waiting, Settled
      <3>2. QED
        BY <2>1, <3>1, PhaseFacts, ZenonT(40) DEF StaysIn, WorkRow
    <2>4. QED
      BY <2>1, <2>2, <2>3, AdvanceFacts DEF IsActive
  <1>2. CarriesOwn'
    BY <1>1 DEF Carried, CarriesOwn, HasRequest
  <1>3. ASSUME NEW r \in Items, NEW i \in S, work[i].req = r
        PROVE  request'[r] = Projection(work'[i].status)
    <2>1. r # None
      BY LedgerAssumption
    <2>2. \A j \in S : work'[j].req = r => j = i
      BY <1>3, <2>1, OneCarrier
    <2>3. (CHOOSE j \in S : work'[j].req = r) = i
      BY <1>3, <2>2
    <2>4. QED
      BY <1>3, <2>3 DEF Projected
  <1>4. ASSUME NEW r \in Items, \A i \in S : work[i].req # r
        PROVE  request'[r] = request[r]
    BY <1>4 DEF Projected
  <1>5. ASSUME NEW r \in Items, NEW i \in S, work[i].req = r, request'[r] \in OpenRequest
        PROVE  IsActive(i)' /\ request'[r] # "RUNNING"
    <2>1. Projection(work'[i].status) \in OpenRequest
      BY <1>3, <1>5
    <2>2. work'[i].status \in Waiting
      BY <2>1 DEF Projection, OpenRequest, Waiting
    <2>3. Projection(work'[i].status) = "PENDING"
      BY <2>2 DEF Projection, Waiting
    <2>4. request'[r] = "PENDING"
      BY <1>3, <1>5, <2>3
    <2>5. QED
      BY <2>2, <2>4 DEF IsActive, Active
  <1>6. NoneBefore'
    <2> SUFFICES ASSUME NEW r \in Items, work'[r].status = "ABSENT"
                 PROVE  request'[r] = "NONE" /\ work'[r].req = None
      BY DEF NoneBefore
    <2>1. work[r].status = "ABSENT" /\ request[r] = "NONE" /\ work[r].req = None
      BY <1>1 DEF Carried, NoneBefore
    <2>2. \A i \in S : work[i].req # r
      BY <2>1, LedgerAssumption DEF Carried, CarriesOwn
    <2>3. QED
      BY <1>4, <2>1, <2>2
  <1>7. OneOpenRequestPerTarget'
    <2>1. IndexKept(request)'
      BY <1>1 DEF IndexKept, RequestTarget
    <2>2. ASSUME NEW i \in Items, NEW q \in Items, IsActive(i)', work'[i].req # None,
                 ~Overwrites(work'[i].target), request'[q] \in OpenRequest,
                 work'[q].target = work'[i].target
          PROVE  q = work'[i].req
      <3>1. IsActive(i) /\ work[q].target = work[i].target /\ Keyed(work[i].target)
        BY <1>1, <2>2, RequestedIsKeyed DEF Carried, CarriesOwn
      <3>2. CASE \E j \in S : work[j].req = q
        <4>1. PICK j \in S : work[j].req = q
          BY <3>2
        <4>2. IsActive(j)'
          BY <1>5, <2>2, <4>1
        <4>3. work[j].target = work[i].target
          BY <3>1, <4>1, LedgerAssumption DEF Carried, CarriesOwn
        <4>4. work'[j].target = work'[i].target /\ Keyed(work'[i].target)
          BY <1>1, <3>1, <4>3
        <4>5. i = j
          BY <2>2, <4>2, <4>4 DEF Exclusively, OneActivePerTarget, Keyed
        <4>6. QED
          BY <4>1, <4>5
      <3>3. CASE \A j \in S : work[j].req # q
        <4>1. request[q] \in OpenRequest
          BY <1>4, <2>2, <3>3
        <4>2. QED
          BY <1>1, <2>2, <3>1, <4>1 DEF Carried, OneOpenRequestPerTarget, RequestTarget
      <3>4. QED
        BY <3>2, <3>3
    <2>3. QED
      BY <2>1, <2>2 DEF OneOpenRequestPerTarget, RequestTarget, Overwrites
  <1>8. ASSUME NEW r \in Items, request'[r] \in OpenRequest, ~Overwrites(work'[r].target)
        PROVE  /\ \E i \in Items : work'[i].req = r /\ (IsActive(i)' \/ work'[i].status = "CANCELLED")
               /\ request'[r] = "RUNNING" =>
                    \E i \in Items, n \in Attempts : work'[i].req = r /\ serving'[i][n] = "OPEN"
    <2>1. CASE \E i \in S : work[i].req = r
      BY <1>5, <1>8, <2>1
    <2>2. CASE \A i \in S : work[i].req # r
      <3>1. request'[r] = request[r] /\ ~Overwrites(RequestTarget(r))
        BY <1>1, <1>4, <1>8, <2>2 DEF RequestTarget
      <3>2. /\ \E i \in Items : work[i].req = r /\ (IsActive(i) \/ work[i].status = "CANCELLED")
            /\ request[r] = "RUNNING" =>
                 \E i \in Items, n \in Attempts : work[i].req = r /\ serving[i][n] = "OPEN"
        BY <1>8, <3>1 DEF Carried, OpenRequestsHaveWork
      <3>3. QED
        BY <2>2, <3>1, <3>2
    <2>3. QED
      BY <2>1, <2>2
  <1>9. OpenRequestsHaveWork'
    BY <1>8 DEF OpenRequestsHaveWork, RequestTarget, Overwrites
  <1>10. QED
    BY <1>2, <1>6, <1>7, <1>9 DEF Carried

\* An insert opens the request it carries, if it carries one, and no other is open for
\* the target.
LEMMA InsertedCarried ==
  ASSUME Carried, Exclusively', NEW i \in Items, NEW t \in Targets, NEW r \in Items \cup {None},
         NEW d, Insert(i, t, r, d),
         r # None => /\ HasRequest(t)
                     /\ r = i \/ (work[r].target = t /\ work[r].status # "ABSENT")
                     /\ \A q \in Items \ {r} : ~(request[q] \in OpenRequest /\ RequestTarget(q) = t),
         request' = [q \in Items |-> IF q = r THEN "PENDING" ELSE request[q]]
  PROVE  Carried'
  <1>1. /\ work[i].status = "ABSENT"
        /\ work'[i].status = "READY" /\ work'[i].target = t /\ work'[i].req = r
        /\ \A j \in Items \ {i} : work'[j] = work[j]
    <2>1. Budgeted
      BY DEF Carried, Exclusively, Fenced
    <2>2. /\ work'[i] = Row(t, r, d)
          /\ \A j \in Items \ {i} : work'[j] = work[j]
      BY <2>1, InsertRow
    <2>3. Row(t, r, d).status = "READY" /\ Row(t, r, d).target = t /\ Row(t, r, d).req = r
      BY DEF Row
    <2>4. QED
      BY <2>2, <2>3 DEF Insert
  <1>2. request[i] = "NONE" /\ work[i].req = None
    BY <1>1 DEF Carried, NoneBefore
  <1>3. \A j \in Items : work[j].req # None => work[j].req # i
    BY <1>1 DEF Carried, CarriesOwn
  <1>4. CarriesOwn'
    <2> SUFFICES ASSUME NEW j \in Items, work'[j].req # None
                 PROVE  /\ work'[j].req \in Items /\ HasRequest(work'[j].target)
                        /\ work'[work'[j].req].target = work'[j].target
                        /\ work'[work'[j].req].status # "ABSENT"
      BY DEF CarriesOwn, HasRequest
    <2>1. CASE j = i
      BY <1>1, <2>1
    <2>2. CASE j # i
      <3>1. work'[j] = work[j] /\ work[j].req \in Items /\ work[j].req # i
        BY <1>1, <1>3, <2>2 DEF Carried, CarriesOwn
      <3>2. work'[work[j].req] = work[work[j].req]
        BY <1>1, <3>1
      <3>3. QED
        BY <3>1, <3>2 DEF Carried, CarriesOwn
    <2>3. QED
      BY <2>1, <2>2
  <1>5. NoneBefore'
    <2> SUFFICES ASSUME NEW q \in Items, work'[q].status = "ABSENT"
                 PROVE  request'[q] = "NONE" /\ work'[q].req = None
      BY DEF NoneBefore
    <2>1. q # i /\ work[q].status = "ABSENT"
      BY <1>1
    <2>2. q # r
      BY <2>1, LedgerAssumption
    <2>3. request'[q] = request[q]
      BY <2>2
    <2>4. QED
      BY <1>1, <2>1, <2>3 DEF Carried, NoneBefore
  <1>6. \A j \in Items \ {i} : r # None => ~(IsActive(j) /\ work[j].req = r)
    <2> SUFFICES ASSUME NEW j \in Items \ {i}, r # None, IsActive(j), work[j].req = r
                 PROVE  FALSE
      OBVIOUS
    <2>1. work[j].target = t
      BY <1>3 DEF Carried, CarriesOwn
    <2>2. Keyed(t)
      BY RequestedIsKeyed
    <2>3. QED
      BY <2>1, <2>2 DEF Insert, KeyBusy
  <1>7. \A q \in Items : request'[q] \in OpenRequest => q = r \/ (q # i /\ request[q] \in OpenRequest)
    BY <1>2 DEF OpenRequest
  <1>8. IndexKept(request)'
    <2> SUFFICES ASSUME NEW p \in Items, NEW q \in Items,
                        request'[p] \in OpenRequest, request'[q] \in OpenRequest,
                        work'[p].target = work'[q].target
                 PROVE  p = q
      BY DEF IndexKept, RequestTarget
    <2>1. CASE p = r \/ q = r
      <3>1. r # None /\ work'[r].target = t
        BY <1>1, <2>1, LedgerAssumption
      <3>2. \A s \in Items \ {r} : request'[s] \in OpenRequest => work'[s].target # t
        BY <1>1, <1>7, <3>1 DEF RequestTarget
      <3>3. QED
        BY <2>1, <3>1, <3>2
    <2>2. CASE p # r /\ q # r
      BY <1>1, <1>7, <2>2 DEF Carried, OneOpenRequestPerTarget, IndexKept, RequestTarget
    <2>3. QED
      BY <2>1, <2>2
  <1>9. OneOpenRequestPerTarget'
    <2>1. ASSUME NEW j \in Items, NEW q \in Items, IsActive(j)', work'[j].req # None,
                 ~Overwrites(work'[j].target), request'[q] \in OpenRequest,
                 work'[q].target = work'[j].target
          PROVE  q = work'[j].req
      <3>1. CASE j = i
        BY <1>1, <1>7, <2>1, <3>1 DEF RequestTarget
      <3>2. CASE j # i
        <4>1. IsActive(j) /\ work'[j] = work[j] /\ Keyed(work[j].target)
          BY <1>1, <2>1, <3>2, RequestedIsKeyed DEF Carried, CarriesOwn, IsActive
        <4>2. work[j].target # t
          BY <4>1 DEF Insert, KeyBusy
        <4>3. q # r
          BY <1>1, <2>1, <4>1, <4>2, LedgerAssumption
        <4>4. QED
          BY <1>1, <1>7, <2>1, <4>1, <4>3 DEF Carried, OneOpenRequestPerTarget, RequestTarget
      <3>3. QED
        BY <3>1, <3>2
    <2>2. QED
      BY <1>8, <2>1 DEF OneOpenRequestPerTarget, RequestTarget, Overwrites
  <1>10. ASSUME NEW q \in Items, request'[q] \in OpenRequest, ~Overwrites(work'[q].target)
         PROVE  /\ \E j \in Items : work'[j].req = q /\ (IsActive(j)' \/ work'[j].status = "CANCELLED")
                /\ request'[q] = "RUNNING" =>
                     \E j \in Items, n \in Attempts : work'[j].req = q /\ serving'[j][n] = "OPEN"
    <2>1. CASE q = r
      <3>1. IsActive(i)' /\ request'[q] = "PENDING"
        BY <1>1, <2>1 DEF IsActive, Active, Waiting
      <3>2. QED
        BY <1>1, <2>1, <3>1
    <2>2. CASE q # r
      <3>1. request[q] \in OpenRequest /\ request'[q] = request[q] /\ ~Overwrites(RequestTarget(q))
        BY <1>1, <1>7, <1>10, <2>2 DEF RequestTarget
      <3>2. PICK j \in Items : work[j].req = q /\ (IsActive(j) \/ work[j].status = "CANCELLED")
        BY <3>1 DEF Carried, OpenRequestsHaveWork
      <3>3. request[q] = "RUNNING" =>
              \E k \in Items, n \in Attempts : work[k].req = q /\ serving[k][n] = "OPEN"
        BY <3>1 DEF Carried, OpenRequestsHaveWork
      <3>4. \A k \in Items : work[k].req = q => k # i
        BY <1>2, LedgerAssumption
      <3>5. work'[j] = work[j] /\ (IsActive(j)' \/ work'[j].status = "CANCELLED")
        BY <1>1, <3>2, <3>4 DEF IsActive
      <3>6. request[q] = "RUNNING" =>
              \E k \in Items, n \in Attempts : work'[k].req = q /\ serving'[k][n] = "OPEN"
        BY <1>1, <3>3, <3>4 DEF Insert
      <3>7. QED
        BY <3>1, <3>2, <3>5, <3>6
    <2>3. QED
      BY <2>1, <2>2
  <1>11. OpenRequestsHaveWork'
    BY <1>10 DEF OpenRequestsHaveWork, RequestTarget, Overwrites
  <1>12. QED
    BY <1>4, <1>5, <1>9, <1>11 DEF Carried

\* A step that leaves every item in its place, and every request and handler as it was.
LEMMA SettingCarried ==
  ASSUME Carried, Exclusively', AllAdvance,
         \A i \in Items : work'[i].req = work[i].req,
         \A i \in Items : work[i].status = "CANCELLED" => work'[i].status = "CANCELLED",
         \A i \in Items : IsActive(i) => IsActive(i)' \/ work'[i].status = "CANCELLED",
         request' = request, serving' = serving
  PROVE  Carried'
  <1>1. request \in [Items -> RequestStatus]
    BY DEF Carried, Exclusively, Fenced, Budgeted, TypeOK
  <1>2. {} \in SUBSET Items /\ request' = Projected({}, work')
    BY <1>1 DEF Projected
  <1>3. \A i \in {} : IsActive(i) /\ work'[i].status \notin Held
    OBVIOUS
  <1>4. IndexKept(request')
    BY DEF Carried, OneOpenRequestPerTarget
  <1>5. QED
    BY <1>2, <1>3, <1>4, ProjectedCarried

\* The handler of an attempt takes the request its item carries.
LEMMA TakenCarried ==
  ASSUME Carried, Exclusively', NEW i \in Items, NEW n \in Attempts, TakeRequest(i, n)
  PROVE  Carried'
  <1> DEFINE r == work[i].req
  <1>1. /\ r \in Items /\ request[r] = "PENDING" /\ request'[r] = "RUNNING"
        /\ \A q \in Items \ {r} : request'[q] = request[q]
    BY DEF TakeRequest, MayTake, Carried, CarriesOwn, Exclusively, Fenced, Budgeted, TypeOK
  <1>2. /\ serving'[i][n] = "OPEN"
        /\ \A j \in Items, m \in Attempts : serving[j][m] = "OPEN" => serving'[j][m] = "OPEN"
    BY DEF TakeRequest, Carried, Exclusively, Fenced, Budgeted, TypeOK, Attempts
  <1>3. work' = work
    BY DEF TakeRequest
  <1>4. \A q \in Items : request'[q] \in OpenRequest => request[q] \in OpenRequest
    BY <1>1 DEF OpenRequest
  <1>5. CarriesOwn' /\ NoneBefore'
    BY <1>1, <1>3 DEF Carried, CarriesOwn, NoneBefore
  <1>6. OneOpenRequestPerTarget'
    BY <1>3, <1>4 DEF Carried, OneOpenRequestPerTarget, IndexKept, RequestTarget, IsActive
  <1>7. OpenRequestsHaveWork'
    BY <1>1, <1>2, <1>3, <1>4 DEF Carried, OpenRequestsHaveWork, RequestTarget, IsActive
  <1>8. QED
    BY <1>5, <1>6, <1>7 DEF Carried

\* A handler that took its request ends, and writes what it may.
LEMMA ClosedCarried ==
  ASSUME Carried, Exclusively', NEW i \in Items, NEW n \in Attempts,
         NEW status \in RequestStatus, CloseRequest(i, n, status)
  PROVE  Carried'
  <1> DEFINE r == work[i].req
             written == [request EXCEPT ![r] = status]
  <1>1. /\ status \in Left(work[i].target, request[r])
        /\ request' = IF IndexKept(written) THEN written ELSE request
        /\ work' = work
    BY DEF CloseRequest
  <1>2. \A q \in Items : written[q] = IF q = r THEN status ELSE request[q]
    BY DEF Carried, Exclusively, Fenced, Budgeted, TypeOK
  <1>3. \A q \in Items \ {r} : request'[q] = request[q]
    BY <1>1, <1>2
  <1>4. \A j \in Items \ {i}, m \in Attempts : serving'[j][m] = serving[j][m]
    BY DEF CloseRequest, Carried, Exclusively, Fenced, Budgeted, TypeOK
  <1>5. ASSUME r \in Items, ~Overwrites(work[r].target), request'[r] \in OpenRequest
        PROVE  request[r] \in OpenRequest /\ request'[r] # "RUNNING"
    <2>1. ~Overwrites(work[i].target)
      BY <1>5, LedgerAssumption DEF Carried, CarriesOwn
    <2>2. status \in IF request[r] = "RUNNING" THEN {"SUCCEEDED", "FAILED"} ELSE {request[r]}
      BY <1>1, <2>1 DEF Left, Overwrites
    <2>3. status \in OpenRequest => request[r] \in OpenRequest /\ status # "RUNNING"
      BY <2>2 DEF OpenRequest
    <2>4. IndexKept(written)
      BY <1>2, <2>3 DEF Carried, OneOpenRequestPerTarget, IndexKept
    <2>5. request'[r] = status
      BY <1>1, <1>2, <1>5, <2>4
    <2>6. QED
      BY <1>5, <2>3, <2>5
  <1>6. \A q \in Items : request'[q] \in OpenRequest /\ ~Overwrites(work[q].target)
                           => request[q] \in OpenRequest
    BY <1>3, <1>5
  <1>7. CarriesOwn' /\ NoneBefore'
    BY <1>1, <1>3, LedgerAssumption DEF Carried, CarriesOwn, NoneBefore
  <1>8. IndexKept(request')
    BY <1>1 DEF Carried, OneOpenRequestPerTarget
  <1>9. OneOpenRequestPerTarget'
    BY <1>1, <1>6, <1>8 DEF Carried, OneOpenRequestPerTarget, IndexKept, RequestTarget, IsActive
  <1>10. ASSUME NEW q \in Items, request'[q] \in OpenRequest, ~Overwrites(work'[q].target)
         PROVE  /\ \E j \in Items : work'[j].req = q /\ (IsActive(j)' \/ work'[j].status = "CANCELLED")
                /\ request'[q] = "RUNNING" =>
                     \E j \in Items, m \in Attempts : work'[j].req = q /\ serving'[j][m] = "OPEN"
    <2>1. /\ \E j \in Items : work[j].req = q /\ (IsActive(j) \/ work[j].status = "CANCELLED")
          /\ request[q] = "RUNNING" =>
               \E j \in Items, m \in Attempts : work[j].req = q /\ serving[j][m] = "OPEN"
      BY <1>1, <1>6, <1>10 DEF Carried, OpenRequestsHaveWork, RequestTarget
    <2>2. request'[q] = "RUNNING" => q # r /\ request[q] = "RUNNING"
      BY <1>1, <1>3, <1>5, <1>10
    <2>3. QED
      BY <1>1, <1>4, <2>1, <2>2 DEF IsActive
  <1>11. OpenRequestsHaveWork'
    BY <1>10 DEF OpenRequestsHaveWork, RequestTarget, Overwrites
  <1>12. QED
    BY <1>7, <1>9, <1>11 DEF Carried

LEMMA NextCarried == Carried /\ [Next]_vars => Carried'
  <1> SUFFICES ASSUME Carried, [Next]_vars PROVE Carried'
    OBVIOUS
  <1>1. Exclusively /\ Exclusively' /\ Fenced /\ Budgeted /\ TypeOK
    BY NextExclusively DEF Carried, Exclusively, Fenced, Budgeted
  <1>2. \A i \in Items : work[i].status = "CANCELLED" => work'[i].status = "CANCELLED"
    BY <1>1, NextFenced DEF Moves, Forward, Settled
  <1>3. \A i \in Items : work[i] \in WorkRow
    BY <1>1 DEF TypeOK
  <1>4. ASSUME NEW i \in Items, NEW t \in Targets, NEW d \in 0..MaxWait, EnqueueRequest(i, t, d)
        PROVE  Carried'
    <2>1. /\ Insert(i, t, i, d) /\ HasRequest(t) /\ i # None
          /\ \A q \in Items \ {i} : ~(request[q] \in OpenRequest /\ RequestTarget(q) = t)
      BY <1>4, LedgerAssumption DEF EnqueueRequest, RequestBusy
    <2>2. request' = [q \in Items |-> IF q = i THEN "PENDING" ELSE request[q]]
      BY <1>1, <1>4 DEF EnqueueRequest, TypeOK
    <2>3. QED
      BY <1>1, <2>1, <2>2, InsertedCarried
  <1>5. ASSUME NEW i \in Items, NEW t \in Targets, NEW d \in 0..MaxWait, EnqueueDirect(i, t, d)
        PROVE  Carried'
    <2>1. Insert(i, t, None, d)
      BY <1>5 DEF EnqueueDirect
    <2>2. request' = [q \in Items |-> IF q = None THEN "PENDING" ELSE request[q]]
      BY <1>1, <1>5, LedgerAssumption DEF EnqueueDirect, TypeOK
    <2>3. QED
      BY <1>1, <2>1, <2>2, InsertedCarried
  <1>6. ASSUME NEW w \in Workers, NEW S \in SUBSET Items, Claim(w, S)
        PROVE  Carried'
    <2> DEFINE barred == {i \in Due(w) : ~Permitted(work[i].target)}
    <2>1. barred \in SUBSET Items /\ AllAdvance
      BY <1>1, <1>6, ClaimAdvances DEF Due
    <2>2. \A i \in Items : work'[i].req = work[i].req
      BY <1>3, <1>6 DEF Claim, LeasedTo, WorkRow
    <2>3. \A i \in barred : IsActive(i) /\ work'[i].status = "POLICY_BLOCKED"
      BY <1>3, <1>6 DEF Claim, Due, IsActive, Active, WorkRow
    <2>4. \A i \in Items \ barred : IsActive(i) => IsActive(i)'
      <3> SUFFICES ASSUME NEW i \in Items \ barred, IsActive(i) PROVE work'[i].status \in Active
        BY DEF IsActive
      <3>1. CASE i \in S
        <4>1. work'[i] = LeasedTo(w, work[i])
          BY <1>6, <3>1 DEF Claim
        <4>2. QED
          BY <4>1 DEF LeasedTo, Active, Held
      <3>2. CASE i \notin S
        BY <1>6, <3>2 DEF Claim, IsActive
      <3>3. QED
        BY <3>1, <3>2
    <2>5. request' = Projected(barred, work')
      BY <1>6 DEF Claim
    <2>6. \A i \in barred : IsActive(i) /\ work'[i].status \notin Held
      BY <2>3 DEF Held
    <2>7. \A r \in Items : request'[r] \in {request[r], "FAILED"}
      <3>1. Projection("POLICY_BLOCKED") = "FAILED"
        BY DEF Projection
      <3>2. QED
        BY <2>3, <2>5, <3>1 DEF Projected
    <2>8. IndexKept(request')
      BY <2>7 DEF Carried, OneOpenRequestPerTarget, IndexKept, OpenRequest
    <2>9. serving' = serving
      BY <1>6 DEF Claim
    <2>10. QED
      BY <1>1, <1>2, <2>1, <2>2, <2>4, <2>5, <2>6, <2>8, <2>9, ProjectedCarried
  <1>7. ASSUME NEW w \in Workers, NEW i \in Items, NEW n \in Attempts,
               Start(w, i, n) \/ Heartbeat(w, i, n)
        PROVE  Carried'
    <2>1. /\ work' = [work EXCEPT ![i].status = "RUNNING"]
             \/ work' = [work EXCEPT ![i].lease = LeaseLength]
          /\ work \in [Items -> WorkRow] /\ request' = request /\ serving' = serving
      BY <1>1, <1>7 DEF Start, Heartbeat, TypeOK
    <2>2. \A j \in Items : /\ work'[j].req = work[j].req
                           /\ work'[j].status \in {"RUNNING", work[j].status}
      BY <2>1 DEF WorkRow
    <2>3. \A j \in Items : IsActive(j) => IsActive(j)'
      BY <2>2 DEF IsActive, Active, Held
    <2>4. AllAdvance
      BY <1>1, <1>7, StartAdvances
    <2>5. QED
      BY <1>1, <1>2, <2>1, <2>2, <2>3, <2>4, SettingCarried
  <1>8. ASSUME NEW w \in Workers, NEW i \in Items, NEW n \in Attempts, NEW o \in Outcomes,
               NEW d \in 0..MaxWait, Finish(w, i, n, o, d)
        PROVE  Carried'
    <2>1. /\ work'[i] = Released(work[i], NextStatus(work[i], o), d)
          /\ \A j \in Items \ {i} : work'[j] = work[j]
          /\ IsActive(i)
      BY <1>1, <1>8 DEF Finish, TypeOK, IsActive, Active
    <2>2. \A j \in Items : work'[j].req = work[j].req
      BY <2>1 DEF Released
    <2>3. work'[i].status \notin Held
      <3>1. NextStatus(work[i], o) \in Settled \cup {"RETRY_WAIT"}
        BY <1>3, NextStatusRange
      <3>2. QED
        BY <2>1, <3>1 DEF Released, Settled, Held
    <2>4. \A j \in Items \ {i} : IsActive(j) => IsActive(j)'
      BY <2>1 DEF IsActive
    <2>5. request' = Projected({i}, work') /\ IndexKept(request') /\ {i} \in SUBSET Items
      BY <1>8 DEF Finish
    <2>6. AllAdvance
      BY <1>1, <1>8, FinishAdvances
    <2>7. \A j \in {i} : IsActive(j) /\ work'[j].status \notin Held
      BY <2>1, <2>3
    <2>8. \A j \in Items \ {i}, m \in Attempts : serving[j][m] = "OPEN" => serving'[j][m] = "OPEN"
      BY <1>1, <1>8 DEF Finish, TypeOK
    <2>9. QED
      BY <1>1, <1>2, <2>2, <2>4, <2>5, <2>6, <2>7, <2>8, ProjectedCarried
  <1>9. ASSUME NEW S \in SUBSET Items, Reap(S)
        PROVE  Carried'
    <2>1. /\ \A j \in S : work'[j] = Released(work[j], ReapedStatus(work[j]), 0)
          /\ \A j \in Items \ S : work'[j] = work[j]
          /\ \A j \in S : IsActive(j)
      BY <1>9 DEF Reap, Expired, IsActive, Active
    <2>8. ASSUME NEW j \in S
          PROVE  work'[j].req = work[j].req /\ work'[j].status \in {"RETRY_WAIT", "DEAD_LETTERED"}
      <3>1. ReapedStatus(work[j]) \in {"RETRY_WAIT", "DEAD_LETTERED"}
        BY DEF ReapedStatus
      <3>2. \A row, s : /\ Released(row, s, 0).req = row.req
                        /\ Released(row, s, 0).status = s
        BY DEF Released
      <3>3. work'[j] = Released(work[j], ReapedStatus(work[j]), 0)
        BY <2>1
      <3>4. QED
        BY <3>1, <3>2, <3>3
    <2>2. \A j \in Items : work'[j].req = work[j].req
      BY <2>1, <2>8
    <2>3. \A j \in S : IsActive(j) /\ work'[j].status \notin Held
      BY <2>1, <2>8 DEF Held
    <2>4. \A j \in Items \ S : IsActive(j) => IsActive(j)'
      BY <2>1 DEF IsActive
    <2>5. request' = Projected(S, work') /\ IndexKept(request') /\ serving' = serving
      BY <1>9 DEF Reap
    <2>6. AllAdvance
      BY <1>1, <1>9, ReapAdvances
    <2>7. QED
      BY <1>1, <1>2, <2>2, <2>3, <2>4, <2>5, <2>6, ProjectedCarried
  <1>10. ASSUME NEW i \in Items, Cancel(i)
         PROVE  Carried'
    <2>1. /\ \A j \in Items \ {i} : work'[j] = work[j]
          /\ work'[i].req = work[i].req
          /\ work'[i].status \in {"CANCELLED", work[i].status}
          /\ request' = request /\ serving' = serving
      BY <1>1, <1>3, <1>10 DEF Cancel, TypeOK, WorkRow
    <2>2. \A j \in Items : IsActive(j) => IsActive(j)' \/ work'[j].status = "CANCELLED"
      BY <2>1 DEF IsActive
    <2>3. AllAdvance
      BY <1>1, <1>10, CancelAdvances
    <2>4. QED
      BY <1>1, <1>2, <2>1, <2>2, <2>3, SettingCarried
  <1>11. ASSUME NEW i \in Items, NEW j \in Items, Requeue(i, j)
         PROVE  Carried'
    <2> DEFINE t == work[i].target
               r == work[i].req
    <2>1. t \in Targets /\ r \in Items \cup {None}
      BY <1>1, <1>3, <1>11 DEF Requeue, Exclusively, Aimed, WorkRow
    <2>2. Insert(j, t, r, 0)
      BY <1>11 DEF Requeue
    <2>3. r # None =>
            /\ HasRequest(t)
            /\ r = j \/ (work[r].target = t /\ work[r].status # "ABSENT")
            /\ \A q \in Items \ {r} : ~(request[q] \in OpenRequest /\ RequestTarget(q) = t)
      BY <1>11 DEF Requeue, Carried, CarriesOwn
    <2>4. request' = [q \in Items |-> IF q = r THEN "PENDING" ELSE request[q]]
      BY <1>11 DEF Requeue
    <2> HIDE DEF t, r
    <2>5. QED
      BY <1>1, <2>1, <2>2, <2>3, <2>4, InsertedCarried
  <1>12. ASSUME NEW t \in Targets, SetPolicy(t)
         PROVE  Carried'
    <2>1. work' = work /\ request' = request /\ serving' = serving
      BY <1>12 DEF SetPolicy
    <2>2. AllAdvance
      BY <2>1, SameAdvances DEF AllAdvance
    <2>3. QED
      BY <1>1, <2>1, <2>2, SettingCarried DEF IsActive
  <1>13. CASE Tick
    <2>1. \A i \in Items : work'[i].req = work[i].req /\ work'[i].status = work[i].status
      BY <1>3, <1>13 DEF Tick, WorkRow
    <2>2. request' = request /\ serving' = serving
      BY <1>13 DEF Tick
    <2>3. AllAdvance
      BY <1>1, <1>13, TickAdvances
    <2>4. \A i \in Items : IsActive(i) => IsActive(i)'
      BY <2>1 DEF IsActive
    <2>5. QED
      BY <1>1, <1>2, <2>1, <2>2, <2>3, <2>4, SettingCarried
  <1>14. CASE UNCHANGED vars
    <2>1. work' = work /\ request' = request /\ serving' = serving
      BY <1>14 DEF vars
    <2>2. AllAdvance
      BY <2>1, SameAdvances DEF AllAdvance
    <2>3. QED
      BY <1>1, <2>1, <2>2, SettingCarried DEF IsActive
  <1>15. ASSUME NEW i \in Items, NEW n \in Attempts, TakeRequest(i, n)
         PROVE  Carried'
    BY <1>1, <1>15, TakenCarried
  <1>16. ASSUME NEW i \in Items, NEW n \in Attempts, NEW status \in RequestStatus,
                CloseRequest(i, n, status)
         PROVE  Carried'
    BY <1>1, <1>16, ClosedCarried
  <1>17. QED
    BY <1>4, <1>5, <1>6, <1>7, <1>8, <1>9, <1>10, <1>11, <1>12, <1>13, <1>14, <1>15, <1>16
    DEF Next

LEMMA InitCarried == Init => Carried
  <1> SUFFICES ASSUME Init PROVE Carried
    OBVIOUS
  <1>1. \A i \in Items : /\ work[i].status = "ABSENT" /\ work[i].req = None
                         /\ request[i] = "NONE"
    BY DEF Init, AbsentRow
  <1>2. CarriesOwn /\ NoneBefore
    BY <1>1 DEF CarriesOwn, NoneBefore
  <1>3. OneOpenRequestPerTarget
    BY <1>1 DEF OneOpenRequestPerTarget, IndexKept, OpenRequest
  <1>4. OpenRequestsHaveWork
    BY <1>1 DEF OpenRequestsHaveWork, OpenRequest, IsActive, Active, Waiting, Held
  <1>5. QED
    BY <1>2, <1>3, <1>4, InitExclusively DEF Carried

LEMMA CarriedAlways == Spec => []Carried
  BY InitCarried, NextCarried, PTL DEF Spec

\* Finishing, reaping, requeueing, enqueueing and the handlers' own writes never leave two
\* requests of one target open at once; and where the handler looks at its request before
\* it writes, an active item's request is the only one of its target that can be open, so
\* the finish or the reaping that re-opens it does not meet the one-active index.
THEOREM RequestsSafe == Spec => []OneOpenRequestPerTarget
  <1>1. Carried => OneOpenRequestPerTarget
    BY DEF Carried
  <1>2. QED
    BY <1>1, CarriedAlways, PTL

\* Where the handler looks at its request before it writes, no retry, reaper, requeue or
\* late handler strands a request: one that is open is carried by an active item, or by one
\* an operator cancelled, and one that is RUNNING was taken by a handler that has not ended.
THEOREM RequestsAreWorkedOn == Spec => []OpenRequestsHaveWork
  <1>1. Carried => OpenRequestsHaveWork
    BY DEF Carried
  <1>2. QED
    BY <1>1, CarriedAlways, PTL

-----------------------------------------------------------------------------
(* The refinement *)

LEMMA InitLife == Init => Life!Init
  <1> SUFFICES ASSUME Init PROVE Life!Init
    OBVIOUS
  <1>1. PhaseOf("ABSENT") = "absent"
    BY DEF PhaseOf, Waiting, Held, Settled
  <1>2. \A i \in Items : work[i] = AbsentRow
    BY DEF Init
  <1>3. QED
    BY <1>1, <1>2 DEF Life!Init, AbsentRow

\* The rows, seen through the refinement mapping, have its types.
LEMMA LifeTypes == Budgeted => Life!TypeOK
  <1> SUFFICES ASSUME Budgeted PROVE Life!TypeOK
    OBVIOUS
  <1>1. ASSUME NEW i \in Items
        PROVE  /\ PhaseOf(work[i].status) \in Life!Phases
               /\ work[i].attempts \in 0..MaxAttempts
               /\ work[i].target \in Targets \cup {None}
    <2>1. work[i] \in WorkRow
      BY DEF Budgeted, TypeOK
    <2>2. QED
      BY <2>1 DEF WorkRow, Life!Phases, PhaseOf
  <1>2. QED
    BY <1>1 DEF Life!TypeOK

\* An insert submits the item.
LEMMA InsertLife ==
  ASSUME Budgeted, Budgeted', NEW i \in Items, NEW t \in Targets, NEW r, NEW d, Insert(i, t, r, d)
  PROVE  Life!Submit
  <1>1. /\ work'[i] = Row(t, r, d)
        /\ \A j \in Items \ {i} : work'[j] = work[j]
    BY InsertRow
  <1>2. /\ work[i].status = "ABSENT"
        /\ Keyed(t) => \A j \in Items : ~(work[j].status \in Active /\ work[j].target = t)
    BY DEF Insert, KeyBusy, IsActive
  <1>3. PhaseOf("ABSENT") = "absent" /\ PhaseOf("READY") = "queued"
    BY DEF PhaseOf, Waiting, Held, Settled
  <1>4. \A j \in Items : PhaseOf(work[j].status) \in {"queued", "held"} => work[j].status \in Active
    <2> SUFFICES ASSUME NEW j \in Items, PhaseOf(work[j].status) \in {"queued", "held"}
                 PROVE  work[j].status \in Active
      OBVIOUS
    <2>1. work[j].status \in {"ABSENT"} \cup Active \cup Settled
      BY RowTypes DEF WorkRow
    <2>2. QED
      BY <2>1, PhaseFacts DEF Active
  <1>5. Row(t, r, d).status = "READY" /\ Row(t, r, d).attempts = 0 /\ Row(t, r, d).target = t
    BY DEF Row
  <1>6. /\ PhaseOf(work[i].status) = "absent" /\ PhaseOf(work'[i].status) = "queued"
        /\ work'[i].attempts = 0 /\ work'[i].target = t
    BY <1>1, <1>2, <1>3, <1>5
  <1>7. ASSUME NEW j \in Items
        PROVE  Life!Submitted(j) \/ (Life!Still(j) /\ work'[j].target = work[j].target)
    <2>1. CASE j = i
      BY <1>6, <2>1 DEF Life!Submitted
    <2>2. CASE j # i
      BY <1>1, <2>2 DEF Life!Still
    <2>3. QED
      BY <2>1, <2>2
  <1>8. ASSUME NEW j \in Items, NEW k \in Items, Life!Submitted(j), j # k,
               PhaseOf(work'[k].status) \in {"queued", "held"}, work'[k].target = work'[j].target
        PROVE  work'[j].target \notin {u \in Targets : Keyed(u)}
    <2>1. j = i
      <3>1. PhaseOf(work[j].status) = "absent" /\ PhaseOf(work'[j].status) = "queued"
        BY <1>8 DEF Life!Submitted
      <3>2. QED
        BY <1>1, <3>1
    <2>2. work'[k] = work[k]
      BY <1>1, <1>8, <2>1
    <2>3. work[k].status \in Active /\ work[k].target = t
      BY <1>4, <1>6, <1>8, <2>1, <2>2
    <2>4. QED
      BY <1>2, <1>6, <2>1, <2>3
  <1>9. Life!TypeOK'
    BY LifeTypes, PTL
  <1>10. QED
    BY <1>7, <1>8, <1>9 DEF Life!Submit, Life!Live

\* The step of one item, seen through the refinement mapping.
LEMMA AdvanceLife ==
  ASSUME Budgeted, Budgeted', AllAdvance
  PROVE  Life!Advance
  <1>1. ASSUME NEW i \in Items
        PROVE  /\ work[i] \in WorkRow /\ work'[i] \in WorkRow
               /\ work[i].status \in {"ABSENT"} \cup Active \cup Settled
               /\ work'[i].status \in {"ABSENT"} \cup Active \cup Settled
               /\ work'[i].target = work[i].target
    BY DEF Budgeted, TypeOK, WorkRow, AllAdvance, Advances
  <1>2. Life!TypeOK'
    BY LifeTypes, PTL
  <1>3. ASSUME NEW i \in Items
        PROVE  Life!Handed(i) \/ Life!Returned(i) \/ Life!SettledNow(i) \/ Life!Still(i)
    <2>1. CASE HandedOut(work[i], work'[i])
      BY <1>1, <2>1, PhaseFacts DEF HandedOut, Life!Handed
    <2>2. CASE HandedBack(work[i], work'[i])
      BY <1>1, <2>2, PhaseFacts DEF HandedBack, Life!Returned
    <2>3. CASE DoneWith(work[i], work'[i])
      BY <1>1, <2>3, PhaseFacts DEF DoneWith, Life!SettledNow, Life!Live, Active
    <2>4. CASE StaysIn(work[i], work'[i])
      BY <2>4 DEF StaysIn, Life!Still
    <2>5. QED
      BY <2>1, <2>2, <2>3, <2>4 DEF AllAdvance, Advances
  <1>4. [i \in Items |-> work[i].target]' = [i \in Items |-> work[i].target]
    BY <1>1
  <1>5. QED
    BY <1>2, <1>3, <1>4 DEF Life!Advance

\* Every step of the ledger is a step of ExclusiveWork, or one it cannot see: leases,
\* tokens, workers, requests, policies and time are an implementation of its phases.
THEOREM LedgerImplementsExclusiveWork == Spec => ImplementsExclusiveWork
  <1>1. Exclusively /\ [Next]_vars => [Life!Next]_(Life!vars)
    <2> SUFFICES ASSUME Exclusively, [Next]_vars PROVE Life!Next
      OBVIOUS
    <2>1. Budgeted /\ Budgeted' /\ Aimed
      BY NextFenced DEF Exclusively, Fenced
    <2>2. CASE Inserts
      BY <2>1, <2>2, InsertLife DEF Inserts, Life!Next
    <2>3. CASE AllAdvance
      BY <2>1, <2>3, AdvanceLife DEF Life!Next
    <2>4. QED
      BY <2>1, <2>2, <2>3, NextAdvances
  <1>2. QED
    BY <1>1, InitLife, ExclusivelyAlways, PTL DEF Spec, ImplementsExclusiveWork, Life!Spec
=============================================================================
