----------------------- MODULE AtsCollectionProofs -----------------------
(***************************************************************************)
(* ATS collection is an execution of the work ledger, has one writer per   *)
(* source, never moves a source back to an older board, and persists what  *)
(* an attempt fetched before the attempt succeeds.  An interview has one   *)
(* calendar item and one of each task, and while a connection of the pool  *)
(* is free somebody who prepares one can go on.  Last, the two beside each *)
(* other, as MCCollectionAndInterviews runs them.                          *)
(***************************************************************************)
EXTENDS MCCollectionAndInterviews, WorkLedgerLifeProofs, FiniteFacts

LEMMA InitIsLedger == CInit => Init
  BY DEF CInit

\* Whatever handlers do, the ledger sees one of its own actions or nothing.
LEMMA NextIsLedger == [CNext]_cvars => [Next]_vars
  <1> SUFFICES ASSUME [CNext]_cvars PROVE [Next]_vars
    OBVIOUS
  <1>1. ASSUME NEW i \in Items, NEW t \in Targets, Occur(i, t) PROVE Next
    <2>1. 0 \in 0..MaxWait
      BY LedgerAssumption
    <2>2. QED
      BY <1>1, <2>1 DEF Occur, Next
  <1>2. ASSUME NEW w \in Workers, NEW S \in SUBSET Items, Take(w, S) PROVE Next
    BY <1>2 DEF Take, Next
  <1>3. ASSUME NEW w \in Workers, NEW i \in Items, NEW n \in Attempts,
               Work(w, i, n) \/ Beat(w, i, n) \/ BeatFails(w, i, n)
        PROVE  [Next]_vars
    <2>1. CASE Begin(w, i, n)
      BY <2>1 DEF Begin, Next
    <2>2. ASSUME NEW o \in Outcomes, NEW d \in 0..MaxWait, Report(w, i, n, o, d) PROVE Next
      BY <2>2 DEF Report, Next
    <2>3. CASE Beat(w, i, n)
      BY <2>3 DEF Beat, Next
    <2>4. CASE \/ CheckPolicy(w, i, n) \/ OpenRun(w, i, n) \/ Collect(w, i, n)
               \/ Persist(w, i, n) \/ Resolve(w, i, n) \/ RecordFailure(w, i, n)
               \/ Rejected(w, i, n) \/ BeatFails(w, i, n)
      BY <2>4 DEF CheckPolicy, OpenRun, Collect, Persist, Resolve, RecordFailure, Rejected,
                  Die, BeatFails, ledgerRest, vars
    <2>5. QED
      BY <1>3, <2>1, <2>2, <2>3, <2>4 DEF Work
  <1>4. ASSUME NEW w \in Workers, Crash(w) PROVE UNCHANGED vars
    BY <1>4 DEF Crash, Die, ledgerRest, vars
  <1>5. ASSUME NEW S \in SUBSET Items, ReapRuns(S) PROVE Next
    BY <1>5 DEF ReapRuns, Next
  <1>6. ASSUME NEW t \in Targets, Publish(t) \/ Govern(t) PROVE [Next]_vars
    BY <1>6 DEF Publish, Govern, ledgerRest, Next, vars
  <1>7. CASE Pass
    BY <1>7 DEF Pass, Next
  <1>8. CASE UNCHANGED cvars
    BY <1>8 DEF cvars, vars
  <1>9. QED
    BY <1>1, <1>2, <1>3, <1>4, <1>5, <1>6, <1>7, <1>8 DEF CNext

\* The worker processes and the ATS handler only do to the ledger what its callers may,
\* so everything proved of the ledger holds while they run.
THEOREM CollectionUsesLedger == CSpec => Spec
  BY InitIsLedger, NextIsLedger, PTL DEF CSpec, Spec

\* And so the collection, with its handlers, implements ExclusiveWork.
THEOREM CollectionIsExclusiveWork == CSpec => ImplementsExclusiveWork
  BY CollectionUsesLedger, LedgerImplementsExclusiveWork, PTL

\* An item keeps its target, and does not vanish.
LEMMA Stays ==
  ASSUME Exclusively, [Next]_vars, NEW i \in Items, work[i].status # "ABSENT"
  PROVE  /\ work'[i].status # "ABSENT"
         /\ work'[i].target = work[i].target
         /\ work[i].target \in Targets
  <1>1. Budgeted /\ Budgeted' /\ Aimed /\ work[i].target \in Targets
    BY NextExclusively DEF Exclusively, Fenced, Aimed
  <1>2. work[i] \in WorkRow /\ work'[i] \in WorkRow
    BY <1>1 DEF Budgeted, TypeOK
  <1>3. CASE Inserts
    <2>1. PICK j \in Items, t \in Targets, r \in Items \cup {None}, d \in 0..MaxWait :
             Insert(j, t, r, d)
      BY <1>3 DEF Inserts
    <2>2. work'[i] = work[i]
      BY <1>1, <2>1 DEF Insert, Budgeted, TypeOK
    <2>3. QED
      BY <1>1, <2>2
  <1>4. CASE AllAdvance
    <2>1. Advances(work[i], work'[i])
      BY <1>4 DEF AllAdvance
    <2>2. work'[i].target = work[i].target
      BY <2>1 DEF Advances
    <2>3. work'[i].status # "ABSENT"
      <3>1. CASE StaysIn(work[i], work'[i])
        BY <1>2, <3>1, PhaseFacts DEF StaysIn, WorkRow
      <3>2. CASE ~StaysIn(work[i], work'[i])
        BY <2>1, <3>2 DEF Advances, HandedOut, HandedBack, DoneWith, Waiting, Held, Settled
      <3>3. QED
        BY <3>1, <3>2
    <2>4. QED
      BY <1>1, <2>2, <2>3
  <1>5. QED
    BY <1>1, <1>3, <1>4, NextAdvances

-----------------------------------------------------------------------------
(* The invariant *)

HandlerTypes ==
  /\ handler \in [Items -> [Attempts -> Handler]]
  /\ runs \in [Items -> [Attempts -> RunStatus]]
  /\ board \in [Targets -> 0..MaxBoard]
  /\ stored \in [Targets -> 0..MaxBoard]

\* Handlers and runs belong to items that exist.
Present ==
  \A i \in Items, n \in Attempts :
    handler[i][n].step # "idle" \/ runs[i][n] # "NONE" => work[i].status # "ABSENT"

\* collector_runs_one_running_per_source_idx
OneRunning ==
  \A i, j \in Items, m, n \in Attempts :
    /\ runs[i][n] = "RUNNING" /\ runs[j][m] = "RUNNING"
    /\ work[i].target = work[j].target
    => i = j /\ m = n

\* A batch that may still be persisted is at least as new as the one that is stored, and
\* nothing is newer than the board.
Fresh ==
  /\ \A t \in Targets : stored[t] <= board[t]
  /\ \A i \in Items, n \in Attempts :
       handler[i][n].step = "persist" /\ runs[i][n] = "RUNNING" =>
         stored[work[i].target] <= handler[i][n].seen /\ handler[i][n].seen <= board[work[i].target]

Collecting == Exclusively /\ HandlerTypes /\ Present /\ OneRunning /\ Fresh

LEMMA InitCollecting == CInit => Collecting
  <1> SUFFICES ASSUME CInit PROVE Collecting
    OBVIOUS
  <1>1. Exclusively
    BY InitExclusively DEF CInit
  <1>2. At("idle") \in Handler /\ 0 \in 0..MaxBoard
    BY BoardAssumption DEF At, Handler, Steps
  <1>3. HandlerTypes
    BY <1>2 DEF CInit, HandlerTypes, RunStatus, Attempts
  <1>4. \A i \in Items, n \in Attempts : handler[i][n].step = "idle" /\ runs[i][n] = "NONE"
    BY DEF CInit, At
  <1>5. \A t \in Targets : stored[t] <= board[t]
    BY DEF CInit
  <1>6. QED
    BY <1>1, <1>3, <1>4, <1>5 DEF Collecting, Present, OneRunning, Fresh

\* A step that opens no run, brings no batch to be persisted and stores nothing.
Quiet ==
  /\ \A t \in Targets : board'[t] >= board[t] /\ stored'[t] = stored[t]
  /\ \A i \in Items, n \in Attempts :
       /\ runs'[i][n] = runs[i][n] \/ (runs[i][n] # "NONE" /\ runs'[i][n] # "RUNNING")
       /\ handler'[i][n] = handler[i][n] \/ handler'[i][n].step # "persist"
       /\ handler'[i][n].step = "idle" \/ handler[i][n].step # "idle" \/ work[i].status # "ABSENT"

LEMMA QuietCollecting ==
  ASSUME Collecting, [Next]_vars, HandlerTypes', Quiet
  PROVE  Collecting'
  <1>1. Exclusively'
    BY NextExclusively DEF Collecting
  <1>2. ASSUME NEW i \in Items, NEW n \in Attempts,
               handler'[i][n].step # "idle" \/ runs'[i][n] # "NONE"
        PROVE  work[i].status # "ABSENT"
    BY <1>2 DEF Collecting, Present, Quiet
  <1>3. Present'
    BY <1>2, Stays DEF Collecting, Present
  <1>4. ASSUME NEW i \in Items, NEW n \in Attempts, runs'[i][n] = "RUNNING"
        PROVE  /\ runs[i][n] = "RUNNING"
               /\ work'[i].target = work[i].target /\ work[i].target \in Targets
    <2>1. work[i].status # "ABSENT"
      BY <1>2, <1>4
    <2>2. QED
      BY <1>4, <2>1, Stays DEF Collecting, Quiet
  <1>5. OneRunning'
    BY <1>4 DEF Collecting, OneRunning
  <1>6. Fresh'
    <2>1. \A t \in Targets : stored'[t] <= board'[t]
      BY DEF Collecting, Fresh, Quiet, HandlerTypes
    <2>2. ASSUME NEW i \in Items, NEW n \in Attempts,
                 handler'[i][n].step = "persist", runs'[i][n] = "RUNNING"
          PROVE  /\ stored'[work'[i].target] <= handler'[i][n].seen
                 /\ handler'[i][n].seen <= board'[work'[i].target]
      <3>1. handler'[i][n] = handler[i][n] /\ handler[i][n] \in Handler
        BY <2>2 DEF Quiet, Collecting, HandlerTypes
      <3>2. /\ stored[work[i].target] <= handler[i][n].seen
            /\ handler[i][n].seen <= board[work[i].target]
        BY <1>4, <2>2, <3>1 DEF Collecting, Fresh
      <3>3. QED
        BY <1>4, <2>2, <3>1, <3>2 DEF Quiet, Collecting, HandlerTypes, Handler
    <2>3. QED
      BY <2>1, <2>2 DEF Fresh
  <1>7. QED
    BY <1>1, <1>3, <1>5, <1>6 DEF Collecting

\* A step of one handler that writes none of its tables.
LEMMA GotoQuiet ==
  ASSUME Collecting, NEW i \in Items, NEW n \in Attempts, handler[i][n].step # "idle",
         NEW h \in Handler, h.step # "persist", Goto(i, n, h), UNCHANGED <<runs, board, stored>>
  PROVE  HandlerTypes' /\ Quiet
  <1>1. handler' = [handler EXCEPT ![i][n] = h] /\ handler \in [Items -> [Attempts -> Handler]]
    BY DEF Goto, Collecting, HandlerTypes
  <1>2. HandlerTypes'
    BY <1>1 DEF Collecting, HandlerTypes
  <1>3. \A j \in Items, m \in Attempts :
          handler'[j][m] = IF j = i /\ m = n THEN h ELSE handler[j][m]
    BY <1>1
  <1>4. \A t \in Targets : board'[t] >= board[t] /\ stored'[t] = stored[t]
    BY BoardAssumption DEF Collecting, HandlerTypes
  <1>5. QED
    BY <1>2, <1>3, <1>4 DEF Quiet

\* A step that leaves the handlers and their tables alone, but for a newer board.
LEMMA RestQuiet ==
  ASSUME Collecting, UNCHANGED <<handler, runs, stored>>, board' \in [Targets -> 0..MaxBoard],
         \A t \in Targets : board'[t] >= board[t]
  PROVE  HandlerTypes' /\ Quiet
  BY DEF Collecting, HandlerTypes, Quiet

LEMMA SameBoard ==
  ASSUME Collecting, board' = board
  PROVE  board' \in [Targets -> 0..MaxBoard] /\ \A t \in Targets : board'[t] >= board[t]
  BY BoardAssumption DEF Collecting, HandlerTypes

\* The steps a handler may be sent to.
LEMMA HandlerValues ==
  /\ \A s \in Steps : At(s) \in Handler /\ At(s).step = s
  /\ \A o \in Outcomes \cup {"NONE"} : /\ Reporting(o) \in Handler /\ Reporting(o).step = "finish"
                                       /\ Failing(o) \in Handler /\ Failing(o).step = "fail"
  BY BoardAssumption DEF At, Reporting, Failing, Handler, Steps

LEMMA DieQuiet ==
  ASSUME Collecting, NEW w, Die(w)
  PROVE  HandlerTypes' /\ Quiet
  <1>1. At("idle") \in Handler /\ At("idle").step = "idle"
    BY HandlerValues DEF Steps
  <1>2. /\ handler' \in [Items -> [Attempts -> Handler]]
        /\ \A i \in Items, n \in Attempts : handler'[i][n] \in {handler[i][n], At("idle")}
    BY <1>1 DEF Die, Collecting, HandlerTypes
  <1>3. board' \in [Targets -> 0..MaxBoard] /\ \A t \in Targets : board'[t] >= board[t]
    BY SameBoard DEF Die
  <1>4. QED
    BY <1>1, <1>2, <1>3 DEF Die, Collecting, HandlerTypes, Quiet

LEMMA TakeQuiet ==
  ASSUME Collecting, NEW w \in Workers, NEW S \in SUBSET Items, Take(w, S)
  PROVE  HandlerTypes' /\ Quiet
  <1>1. At("start") \in Handler /\ At("start").step = "start"
    BY HandlerValues DEF Steps
  <1>2. ASSUME NEW i \in S PROVE work[i].status # "ABSENT"
    BY DEF Take, Claim, Due, Waiting
  <1>3. ASSUME NEW i \in Items
        PROVE  /\ handler'[i] \in [Attempts -> Handler]
               /\ \A n \in Attempts : handler'[i][n] = handler[i][n] \/ (i \in S /\ handler'[i][n] = At("start"))
    BY <1>1 DEF Take, Collecting, HandlerTypes
  <1>4. handler' \in [Items -> [Attempts -> Handler]]
    BY <1>3 DEF Take
  <1>5. board' \in [Targets -> 0..MaxBoard] /\ \A t \in Targets : board'[t] >= board[t]
    BY SameBoard DEF Take
  <1>6. QED
    BY <1>1, <1>2, <1>3, <1>4, <1>5 DEF Take, Collecting, HandlerTypes, Quiet

LEMMA ReapRunsQuiet ==
  ASSUME Collecting, NEW S \in SUBSET Items, ReapRuns(S)
  PROVE  HandlerTypes' /\ Quiet
  <1>1. \A i \in Items, n \in Attempts :
          runs'[i][n] = runs[i][n] \/ (runs[i][n] = "RUNNING" /\ runs'[i][n] = "FAILED")
    BY DEF ReapRuns, RunsReaped
  <1>2. runs' \in [Items -> [Attempts -> RunStatus]]
    BY DEF ReapRuns, RunsReaped, RunStatus, Collecting, HandlerTypes
  <1>3. board' \in [Targets -> 0..MaxBoard] /\ \A t \in Targets : board'[t] >= board[t]
    BY SameBoard DEF ReapRuns
  <1>4. QED
    BY <1>1, <1>2, <1>3 DEF ReapRuns, Collecting, HandlerTypes, Quiet

LEMMA RecordFailureQuiet ==
  ASSUME Collecting, NEW w \in Workers, NEW i \in Items, NEW n \in Attempts,
         RecordFailure(w, i, n)
  PROVE  HandlerTypes' /\ Quiet
  <1>1. handler[i][n] \in Handler
    BY DEF Collecting, HandlerTypes
  <1> DEFINE h == Reporting(handler[i][n].outcome)
  <1>2. h \in Handler /\ h.step = "finish"
    BY <1>1, HandlerValues DEF Handler
  <1>3. /\ handler' \in [Items -> [Attempts -> Handler]]
        /\ \A j \in Items, m \in Attempts : handler'[j][m] = IF j = i /\ m = n THEN h ELSE handler[j][m]
    BY <1>2 DEF RecordFailure, Goto, Collecting, HandlerTypes
  <1>4. /\ runs' \in [Items -> [Attempts -> RunStatus]]
        /\ \A j \in Items, m \in Attempts :
             runs'[j][m] = runs[j][m] \/ (runs[j][m] = "RUNNING" /\ runs'[j][m] = "FAILED")
    <2>1. runs \in [Items -> [Attempts -> RunStatus]]
      BY DEF Collecting, HandlerTypes
    <2>2. CASE UNCHANGED runs
      BY <2>1, <2>2
    <2>3. CASE runs' = [runs EXCEPT ![i][n] = IF @ = "RUNNING" THEN "FAILED" ELSE @]
      <3>1. (IF runs[i][n] = "RUNNING" THEN "FAILED" ELSE runs[i][n]) \in RunStatus
        BY <2>1 DEF RunStatus
      <3>2. runs' = [runs EXCEPT ![i][n] = IF runs[i][n] = "RUNNING" THEN "FAILED" ELSE runs[i][n]]
        BY <2>1, <2>3
      <3>3. QED
        BY <2>1, <3>1, <3>2
    <2>4. QED
      BY <2>2, <2>3 DEF RecordFailure
  <1>5. board' \in [Targets -> 0..MaxBoard] /\ \A t \in Targets : board'[t] >= board[t]
    BY SameBoard DEF RecordFailure
  <1>6. handler[i][n].step # "idle"
    BY DEF RecordFailure
  <1>7. QED
    BY <1>2, <1>3, <1>4, <1>5, <1>6 DEF RecordFailure, Collecting, HandlerTypes, Quiet

-----------------------------------------------------------------------------
(* The steps that are not quiet *)

\* create_run: the source has no other run that is open, and nobody persists under the new
\* one yet, because its handler is about to collect.
LEMMA OpenRunCollecting ==
  ASSUME Collecting, [Next]_vars, NEW i \in Items, NEW n \in Attempts,
         handler[i][n].step = "open", ~RunActive(work[i].target), Goto(i, n, At("collect")),
         runs' = [runs EXCEPT ![i][n] = "RUNNING"],
         UNCHANGED <<work, board, stored>>
  PROVE  Collecting'
  <1>1. Exclusively'
    BY NextExclusively DEF Collecting
  <1>2. At("collect") \in Handler /\ At("collect").step = "collect"
    BY HandlerValues DEF Steps
  <1>3. /\ handler' \in [Items -> [Attempts -> Handler]]
        /\ \A j \in Items, m \in Attempts :
             handler'[j][m] = IF j = i /\ m = n THEN At("collect") ELSE handler[j][m]
    BY <1>2 DEF Goto, Collecting, HandlerTypes
  <1>4. /\ runs' \in [Items -> [Attempts -> RunStatus]]
        /\ \A j \in Items, m \in Attempts :
             runs'[j][m] = IF j = i /\ m = n THEN "RUNNING" ELSE runs[j][m]
    BY DEF RunStatus, Collecting, HandlerTypes
  <1>5. HandlerTypes'
    BY <1>3, <1>4 DEF Collecting, HandlerTypes
  <1>6. Present'
    BY <1>2, <1>3, <1>4 DEF Collecting, Present
  <1>7. OneRunning'
    BY <1>4 DEF Collecting, OneRunning, RunActive
  <1>8. Fresh'
    BY <1>2, <1>3, <1>4 DEF Collecting, Fresh
  <1>9. QED
    BY <1>1, <1>5, <1>6, <1>7, <1>8 DEF Collecting

\* collect: the batch is the board as it is now, and nothing stored is newer.
LEMMA CollectCollecting ==
  ASSUME Collecting, [Next]_vars, NEW i \in Items, NEW n \in Attempts,
         handler[i][n].step = "collect",
         Goto(i, n, [step |-> "persist", seen |-> board[work[i].target], outcome |-> "NONE"]),
         UNCHANGED <<work, runs, board, stored>>
  PROVE  Collecting'
  <1> DEFINE h == [step |-> "persist", seen |-> board[work[i].target], outcome |-> "NONE"]
  <1>1. Exclusively'
    BY NextExclusively DEF Collecting
  <1>2. work[i].target \in Targets
    BY DEF Collecting, Present, Exclusively, Aimed
  <1>3. h \in Handler
    BY <1>2 DEF Handler, Steps, Collecting, HandlerTypes
  <1>4. /\ handler' \in [Items -> [Attempts -> Handler]]
        /\ \A j \in Items, m \in Attempts :
             handler'[j][m] = IF j = i /\ m = n THEN h ELSE handler[j][m]
    BY <1>3 DEF Goto, Collecting, HandlerTypes
  <1>5. HandlerTypes'
    BY <1>4 DEF Collecting, HandlerTypes
  <1>6. Present'
    BY <1>4 DEF Collecting, Present
  <1>7. OneRunning'
    BY DEF Collecting, OneRunning
  <1>8. Fresh'
    <2>1. stored[work[i].target] <= board[work[i].target] /\ board[work[i].target] \in Nat
      BY <1>2, BoardAssumption DEF Collecting, Fresh, HandlerTypes
    <2>2. QED
      BY <1>4, <2>1 DEF Collecting, Fresh
  <1>9. QED
    BY <1>1, <1>5, <1>6, <1>7, <1>8 DEF Collecting

\* persist_complete_batch: every other batch of the source has lost its run, so none is
\* left to be compared with the new one.
LEMMA PersistCollecting ==
  ASSUME Collecting, [Next]_vars, NEW i \in Items, NEW n \in Attempts,
         handler[i][n].step = "persist", MayPersist(i, n), Goto(i, n, At("resolve")),
         stored' = [stored EXCEPT ![work[i].target] = handler[i][n].seen],
         runs' = [runs EXCEPT ![i][n] = "SUCCEEDED"],
         UNCHANGED <<work, board>>
  PROVE  Collecting' /\ \A t \in Targets : stored'[t] >= stored[t]
  <1> DEFINE u == work[i].target
  <1>1. Exclusively'
    BY NextExclusively DEF Collecting
  <1>2. u \in Targets /\ handler[i][n] \in Handler /\ runs[i][n] = "RUNNING"
    BY DEF Collecting, Present, Exclusively, Aimed, HandlerTypes, MayPersist
  <1>3. At("resolve") \in Handler /\ At("resolve").step = "resolve"
    BY HandlerValues DEF Steps
  <1>4. /\ handler' \in [Items -> [Attempts -> Handler]]
        /\ \A j \in Items, m \in Attempts :
             handler'[j][m] = IF j = i /\ m = n THEN At("resolve") ELSE handler[j][m]
    BY <1>3 DEF Goto, Collecting, HandlerTypes
  <1>5. /\ runs' \in [Items -> [Attempts -> RunStatus]]
        /\ \A j \in Items, m \in Attempts :
             runs'[j][m] = IF j = i /\ m = n THEN "SUCCEEDED" ELSE runs[j][m]
    BY DEF RunStatus, Collecting, HandlerTypes
  <1>6. /\ stored' \in [Targets -> 0..MaxBoard]
        /\ \A t \in Targets : stored'[t] = IF t = u THEN handler[i][n].seen ELSE stored[t]
    BY <1>2 DEF Handler, Collecting, HandlerTypes
  <1>7. stored[u] <= handler[i][n].seen /\ handler[i][n].seen <= board[u]
    BY <1>2 DEF Collecting, Fresh
  <1>8. HandlerTypes'
    BY <1>4, <1>5, <1>6 DEF Collecting, HandlerTypes
  <1>9. Present'
    BY <1>3, <1>4, <1>5 DEF Collecting, Present
  <1>10. OneRunning'
    BY <1>5 DEF Collecting, OneRunning
  <1>11. Fresh'
    <2>1. \A t \in Targets : stored'[t] <= board'[t]
      BY <1>6, <1>7 DEF Collecting, Fresh
    <2>2. ASSUME NEW j \in Items, NEW m \in Attempts,
                 handler'[j][m].step = "persist", runs'[j][m] = "RUNNING"
          PROVE  /\ stored'[work'[j].target] <= handler'[j][m].seen
                 /\ handler'[j][m].seen <= board'[work'[j].target]
      <3>1. ~(j = i /\ m = n)
        BY <1>5, <2>2
      <3>2. handler'[j][m] = handler[j][m] /\ runs[j][m] = "RUNNING"
        BY <1>4, <1>5, <2>2, <3>1
      <3>3. work[j].target # u
        BY <1>2, <3>1, <3>2 DEF Collecting, OneRunning
      <3>4. work[j].target \in Targets
        BY <3>2 DEF Collecting, Present, Exclusively, Aimed
      <3>5. stored'[work[j].target] = stored[work[j].target]
        BY <1>6, <3>3, <3>4
      <3>6. QED
        BY <2>2, <3>2, <3>5 DEF Collecting, Fresh
    <2>3. QED
      BY <2>1, <2>2 DEF Fresh
  <1>12. \A t \in Targets : stored'[t] >= stored[t]
    BY <1>2, <1>6, <1>7, BoardAssumption DEF Collecting, HandlerTypes, Handler
  <1>13. QED
    BY <1>1, <1>8, <1>9, <1>10, <1>11, <1>12 DEF Collecting

\* Every step keeps the invariant and stores nothing older than what is stored.
Onward == Collecting' /\ \A t \in Targets : stored'[t] >= stored[t]

LEMMA QuietOnward ==
  ASSUME Collecting, [Next]_vars, HandlerTypes' /\ Quiet
  PROVE  Onward
  BY QuietCollecting, BoardAssumption DEF Onward, Quiet, Collecting, HandlerTypes

LEMMA SameOnward ==
  ASSUME Collecting, Collecting', stored' = stored
  PROVE  Onward
  BY BoardAssumption DEF Onward, Collecting, HandlerTypes

LEMMA WorkOnward ==
  ASSUME Collecting, [Next]_vars, NEW w \in Workers, NEW i \in Items, NEW n \in Attempts,
         Work(w, i, n) \/ Beat(w, i, n) \/ BeatFails(w, i, n)
  PROVE  Onward
  <1>1. ASSUME NEW h \in Handler, h.step # "persist", handler[i][n].step # "idle",
               Goto(i, n, h), UNCHANGED <<runs, board, stored>>
        PROVE  Onward
    BY <1>1, GotoQuiet, QuietOnward
  <1>2. CASE Begin(w, i, n)
    BY <1>1, <1>2, HandlerValues DEF Begin, Steps
  <1>3. CASE CheckPolicy(w, i, n)
    <2>1. PICK h \in {At("open"), Reporting("POLICY_BLOCKED"), Reporting("RETRYABLE")} :
            Goto(i, n, h)
      BY <1>3 DEF CheckPolicy
    <2>2. h \in Handler /\ h.step # "persist"
      BY HandlerValues DEF Steps, Outcomes
    <2>3. QED
      BY <1>1, <1>3, <2>1, <2>2 DEF CheckPolicy
  <1>4. CASE OpenRun(w, i, n)
    <2>1. CASE UNCHANGED runs /\ \E o \in Outcomes : Goto(i, n, Reporting(o))
      BY <1>1, <1>4, <2>1, HandlerValues DEF OpenRun
    <2>2. CASE /\ ~RunActive(work[i].target) /\ Goto(i, n, At("collect"))
               /\ runs' = [runs EXCEPT ![i][n] = "RUNNING"]
      BY <1>4, <2>2, OpenRunCollecting, SameOnward DEF OpenRun
    <2>3. QED
      BY <1>4, <2>1, <2>2 DEF OpenRun, Outcomes
  <1>5. CASE Collect(w, i, n)
    <2>1. CASE \E o \in Outcomes : Goto(i, n, Failing(o))
      BY <1>1, <1>5, <2>1, HandlerValues DEF Collect
    <2>2. CASE Goto(i, n, [step |-> "persist", seen |-> board[work[i].target], outcome |-> "NONE"])
      BY <1>5, <2>2, CollectCollecting, SameOnward DEF Collect
    <2>3. QED
      BY <1>5, <2>1, <2>2 DEF Collect, Outcomes
  <1>6. CASE Persist(w, i, n)
    <2>1. CASE UNCHANGED <<runs, stored>> /\ \E o \in Outcomes : Goto(i, n, Failing(o))
      BY <1>1, <1>6, <2>1, HandlerValues DEF Persist
    <2>2. CASE /\ MayPersist(i, n) /\ Goto(i, n, At("resolve"))
               /\ stored' = [stored EXCEPT ![work[i].target] = handler[i][n].seen]
               /\ runs' = [runs EXCEPT ![i][n] = "SUCCEEDED"]
      BY <1>6, <2>2, PersistCollecting DEF Persist, Onward
    <2>3. QED
      BY <1>6, <2>1, <2>2 DEF Persist, Outcomes
  <1>7. CASE Resolve(w, i, n)
    BY <1>1, <1>7, HandlerValues DEF Resolve, Outcomes
  <1>8. CASE RecordFailure(w, i, n)
    BY <1>8, RecordFailureQuiet, QuietOnward
  <1>9. CASE Rejected(w, i, n)
    BY <1>9, DieQuiet, QuietOnward DEF Rejected
  <1>10. ASSUME NEW o \in Outcomes, NEW d \in 0..MaxWait, Report(w, i, n, o, d) PROVE Onward
    BY <1>1, <1>10, HandlerValues DEF Report, Steps
  <1>11. CASE Beat(w, i, n)
    BY <1>11, RestQuiet, SameBoard, QuietOnward DEF Beat
  <1>12. CASE BeatFails(w, i, n)
    BY <1>1, <1>12, HandlerValues DEF BeatFails, Executing, Outcomes
  <1>13. QED
    BY <1>2, <1>3, <1>4, <1>5, <1>6, <1>7, <1>8, <1>9, <1>10, <1>11, <1>12 DEF Work

LEMMA NextCollecting == Collecting /\ [CNext]_cvars => Onward
  <1> SUFFICES ASSUME Collecting, [CNext]_cvars PROVE Onward
    OBVIOUS
  <1>1. [Next]_vars
    BY NextIsLedger
  <1>2. ASSUME UNCHANGED <<handler, runs, stored>>, board' = board PROVE Onward
    BY <1>1, <1>2, RestQuiet, SameBoard, QuietOnward
  <1>3. ASSUME NEW i \in Items, NEW t \in Targets, Occur(i, t) PROVE Onward
    BY <1>2, <1>3 DEF Occur
  <1>4. ASSUME NEW w \in Workers, NEW S \in SUBSET Items, Take(w, S) PROVE Onward
    BY <1>1, <1>4, TakeQuiet, QuietOnward
  <1>5. ASSUME NEW w \in Workers, NEW i \in Items, NEW n \in Attempts,
               Work(w, i, n) \/ Beat(w, i, n) \/ BeatFails(w, i, n)
        PROVE  Onward
    BY <1>1, <1>5, WorkOnward
  <1>6. ASSUME NEW w \in Workers, Crash(w) PROVE Onward
    BY <1>1, <1>6, DieQuiet, QuietOnward DEF Crash
  <1>7. ASSUME NEW S \in SUBSET Items, ReapRuns(S) PROVE Onward
    BY <1>1, <1>7, ReapRunsQuiet, QuietOnward
  <1>8. ASSUME NEW t \in Targets, Publish(t) PROVE Onward
    <2>1. board' = [board EXCEPT ![t] = board[t] + 1] /\ board \in [Targets -> 0..MaxBoard]
          /\ board[t] < MaxBoard
      BY <1>8 DEF Publish, Collecting, HandlerTypes
    <2>2. board' \in [Targets -> 0..MaxBoard] /\ \A u \in Targets : board'[u] >= board[u]
      BY <2>1, BoardAssumption
    <2>3. QED
      BY <1>1, <1>8, <2>2, RestQuiet, QuietOnward DEF Publish
  <1>9. ASSUME NEW t \in Targets, Govern(t) PROVE Onward
    BY <1>2, <1>9 DEF Govern
  <1>10. CASE Pass
    BY <1>2, <1>10 DEF Pass
  <1>11. CASE UNCHANGED cvars
    BY <1>2, <1>11 DEF cvars
  <1>12. QED
    BY <1>3, <1>4, <1>5, <1>6, <1>7, <1>8, <1>9, <1>10, <1>11 DEF CNext

LEMMA CollectingAlways == CSpec => []Collecting
  <1>1. Collecting /\ [CNext]_cvars => Collecting'
    BY NextCollecting DEF Onward
  <1>2. QED
    BY <1>1, InitCollecting, PTL DEF CSpec

\* Every reachable state of the handlers and their tables is well typed.
THEOREM CollectionTypeCorrect == CSpec => []CollectionTypeOK
  <1>1. Collecting => CollectionTypeOK
    BY DEF Collecting, HandlerTypes, Exclusively, Fenced, Budgeted, CollectionTypeOK
  <1>2. QED
    BY <1>1, CollectingAlways, PTL

\* However long a worker stalls and however often its lease is lost meanwhile, a source
\* never has two executions that could both persist a batch.
THEOREM WritersExclusive == CSpec => []OneWriterPerSource
  <1>1. Collecting => OneWriterPerSource
    BY DEF Collecting, OneRunning, OneWriterPerSource, MayPersist
  <1>2. QED
    BY <1>1, CollectingAlways, PTL

\* A batch never overwrites one that was fetched from a later board.
THEOREM StoredMonotonic == CSpec => StoredNeverRegresses
  <1>1. Collecting /\ [CNext]_cvars => [\A t \in Targets : stored'[t] >= stored[t]]_cvars
    BY NextCollecting DEF Onward
  <1>2. QED
    BY <1>1, CollectingAlways, PTL DEF CSpec, StoredNeverRegresses

-----------------------------------------------------------------------------
(* What a success stands for *)

Early == {"start", "policy", "open"}

\* A run belongs to an attempt that was claimed, and is opened by it once.
Numbered ==
  \A i \in Items, n \in Attempts :
    /\ handler[i][n].step # "idle" \/ runs[i][n] # "NONE" => n <= work[i].attempts
    /\ handler[i][n].step \in Early => runs[i][n] = "NONE"

\* An execution that persisted its batch, or is about to report so, has the run to show.
Earned ==
  \A i \in Items, n \in Attempts :
    handler[i][n].step = "resolve" \/ handler[i][n].outcome = "SUCCEEDED" =>
      runs[i][n] = "SUCCEEDED"

Earning == Collecting /\ Numbered /\ Earned /\ SucceededMeansPersisted

\* What a step may do to the executions and their runs.
Honest ==
  \A i \in Items, n \in Attempts :
    /\ runs[i][n] = "SUCCEEDED" => runs'[i][n] = "SUCCEEDED"
    /\ handler'[i][n].step # "idle" \/ runs'[i][n] # "NONE" =>
         handler[i][n].step # "idle" \/ runs[i][n] # "NONE" \/ n <= work'[i].attempts
    /\ handler'[i][n].step \in Early => runs'[i][n] = "NONE"
    /\ handler'[i][n].step = "resolve" \/ handler'[i][n].outcome = "SUCCEEDED" =>
         runs'[i][n] = "SUCCEEDED"

\* A step that settles no item as a success it has no run for.
Paid ==
  \A i \in Items :
    work'[i].status = "SUCCEEDED" =>
      work[i].status = "SUCCEEDED" \/ \E n \in Attempts : runs[i][n] = "SUCCEEDED"

LEMMA HonestEarning ==
  ASSUME Earning, [CNext]_cvars, Honest, Paid
  PROVE  Earning'
  <1>1. Collecting'
    BY NextCollecting DEF Earning, Onward
  <1>2. ASSUME NEW i \in Items
        PROVE  /\ work'[i].attempts >= work[i].attempts
               /\ work[i].attempts \in Nat /\ work'[i].attempts \in Nat
    <2>1. Fenced /\ Fenced' /\ [Next]_vars
      BY <1>1, NextIsLedger DEF Earning, Collecting, Exclusively
    <2>2. work[i] \in WorkRow /\ work'[i] \in WorkRow
      BY <2>1 DEF Fenced, Budgeted, TypeOK
    <2>3. work'[i].attempts >= work[i].attempts
      BY <2>1, NextFenced DEF Moves, Forward
    <2>4. QED
      BY <2>2, <2>3, LedgerAssumption DEF WorkRow
  <1>3. Numbered'
    <2> SUFFICES ASSUME NEW i \in Items, NEW n \in Attempts
                 PROVE  /\ handler'[i][n].step # "idle" \/ runs'[i][n] # "NONE" =>
                             n <= work'[i].attempts
                        /\ handler'[i][n].step \in Early => runs'[i][n] = "NONE"
      BY DEF Numbered
    <2>1. n \in Nat
      BY DEF Attempts
    <2>2. QED
      BY <1>2, <2>1 DEF Honest, Earning, Numbered
  <1>4. Earned'
    BY DEF Honest, Earned
  <1>5. SucceededMeansPersisted'
    BY DEF Paid, Honest, Earning, SucceededMeansPersisted
  <1>6. QED
    BY <1>1, <1>3, <1>4, <1>5 DEF Earning

\* A handler goes on to a step that claims nothing yet, and no run is touched.
LEMMA GotoHonest ==
  ASSUME Earning, NEW i \in Items, NEW n \in Attempts, handler[i][n].step # "idle",
         NEW h \in Handler, h.step # "resolve",
         h.outcome = "SUCCEEDED" => handler[i][n].step = "resolve",
         h.step \in Early => handler[i][n].step \in Early,
         Goto(i, n, h), runs' = runs
  PROVE  Honest
  <1>1. \A j \in Items, m \in Attempts :
          handler'[j][m] = IF j = i /\ m = n THEN h ELSE handler[j][m]
    BY DEF Goto, Earning, Collecting, HandlerTypes
  <1>2. QED
    BY <1>1 DEF Honest, Earning, Numbered, Earned

LEMMA SettledHonest ==
  ASSUME Earning, runs' = runs, handler' = handler
  PROVE  Honest
  BY DEF Honest, Earning, Numbered, Earned

LEMMA DieHonest ==
  ASSUME Earning, NEW w, Die(w)
  PROVE  Honest /\ Paid
  <1>1. \A i \in Items, n \in Attempts : handler'[i][n] \in {handler[i][n], At("idle")}
    BY DEF Die
  <1>2. /\ At("idle").step = "idle" /\ At("idle").outcome = "NONE" /\ "idle" \notin Early
    BY DEF At, Early
  <1>3. runs' = runs /\ work' = work
    BY DEF Die
  <1>4. Honest
    <2> SUFFICES ASSUME NEW i \in Items, NEW n \in Attempts
                 PROVE  /\ runs[i][n] = "SUCCEEDED" => runs'[i][n] = "SUCCEEDED"
                        /\ handler'[i][n].step # "idle" \/ runs'[i][n] # "NONE" =>
                             handler[i][n].step # "idle" \/ runs[i][n] # "NONE" \/ n <= work'[i].attempts
                        /\ handler'[i][n].step \in Early => runs'[i][n] = "NONE"
                        /\ handler'[i][n].step = "resolve" \/ handler'[i][n].outcome = "SUCCEEDED" =>
                             runs'[i][n] = "SUCCEEDED"
      BY DEF Honest
    <2>1. CASE handler'[i][n] = handler[i][n]
      BY <1>3, <2>1 DEF Earning, Numbered, Earned
    <2>2. CASE handler'[i][n] = At("idle")
      BY <1>2, <1>3, <2>2
    <2>3. QED
      BY <1>1, <2>1, <2>2
  <1>5. QED
    BY <1>3, <1>4 DEF Paid

\* No transaction of the ledger but a report of success makes an item succeed.
LEMMA LedgerPaid ==
  ASSUME Earning,
         \/ work' = work
         \/ \E i \in Items, t \in Targets : EnqueueDirect(i, t, 0)
         \/ \E w \in Workers, S \in SUBSET Items : Claim(w, S)
         \/ \E w \in Workers, i \in Items, n \in Attempts : Start(w, i, n) \/ Heartbeat(w, i, n)
         \/ \E S \in SUBSET Items : Reap(S)
         \/ Tick
  PROVE  Paid
  <1>1. Budgeted
    BY DEF Earning, Collecting, Exclusively, Fenced
  <1>2. \A i \in Items : work[i] \in WorkRow
    BY <1>1, RowTypes
  <1> SUFFICES ASSUME NEW j \in Items, work'[j].status = "SUCCEEDED"
               PROVE  work[j].status = "SUCCEEDED"
    BY DEF Paid
  <1>3. ASSUME NEW i \in Items, NEW t \in Targets, EnqueueDirect(i, t, 0)
        PROVE  work[j].status = "SUCCEEDED"
    BY <1>1, <1>3 DEF EnqueueDirect, Insert, Row, Budgeted, TypeOK
  <1>4. ASSUME NEW w \in Workers, NEW S \in SUBSET Items, Claim(w, S)
        PROVE  work[j].status = "SUCCEEDED"
    BY <1>2, <1>4 DEF Claim, LeasedTo, WorkRow
  <1>5. ASSUME NEW w \in Workers, NEW i \in Items, NEW n \in Attempts,
               Start(w, i, n) \/ Heartbeat(w, i, n)
        PROVE  work[j].status = "SUCCEEDED"
    <2>1. /\ work' = [work EXCEPT ![i].status = "RUNNING"]
             \/ work' = [work EXCEPT ![i].lease = LeaseLength]
          /\ work \in [Items -> WorkRow]
      BY <1>1, <1>5 DEF Start, Heartbeat, Budgeted, TypeOK
    <2>2. QED
      BY <2>1 DEF WorkRow
  <1>6. ASSUME NEW S \in SUBSET Items, Reap(S)
        PROVE  work[j].status = "SUCCEEDED"
    <2>1. CASE j \in S
      <3>1. ReapedStatus(work[j]) # "SUCCEEDED"
        BY DEF ReapedStatus
      <3>2. Released(work[j], ReapedStatus(work[j]), 0).status = ReapedStatus(work[j])
        BY DEF Released
      <3>3. work'[j] = Released(work[j], ReapedStatus(work[j]), 0)
        BY <1>6, <2>1 DEF Reap
      <3>4. QED
        BY <3>1, <3>2, <3>3
    <2>2. CASE j \notin S
      BY <1>6, <2>2 DEF Reap
    <2>3. QED
      BY <2>1, <2>2
  <1>7. CASE Tick
    BY <1>2, <1>7 DEF Tick, WorkRow
  <1>8. QED
    BY <1>3, <1>4, <1>5, <1>6, <1>7

\* A claim numbers the new execution past every attempt that has a run.
LEMMA TakeHonest ==
  ASSUME Earning, NEW w \in Workers, NEW S \in SUBSET Items, Take(w, S)
  PROVE  Honest
  <1>1. /\ At("start").step = "start" /\ At("start").outcome = "NONE"
        /\ runs' = runs
    BY DEF At, Take
  <1>2. ASSUME NEW i \in Items, NEW n \in Attempts, handler'[i][n] # handler[i][n]
        PROVE  /\ handler'[i][n] = At("start") /\ n = work'[i].attempts
               /\ runs[i][n] = "NONE"
    <2>1. i \in S /\ handler'[i] = [handler[i] EXCEPT ![work'[i].token] = At("start")]
          /\ handler[i] \in [Attempts -> Handler]
      BY <1>2 DEF Take, Earning, Collecting, HandlerTypes
    <2>2. n = work'[i].token /\ handler'[i][n] = At("start")
      BY <1>2, <2>1
    <2>3. work'[i] = LeasedTo(w, work[i])
      BY <2>1 DEF Take, Claim
    <2>4. n = work'[i].attempts /\ n = work[i].attempts + 1
      BY <2>2, <2>3 DEF LeasedTo
    <2>5. ~(n <= work[i].attempts)
      <3>1. work[i] \in WorkRow
        BY RowTypes DEF Earning, Collecting, Exclusively, Fenced
      <3>2. work[i].attempts \in Nat
        BY <3>1, LedgerAssumption DEF WorkRow
      <3>3. QED
        BY <2>4, <3>2
    <2>6. QED
      BY <2>2, <2>4, <2>5 DEF Earning, Numbered
  <1> SUFFICES ASSUME NEW i \in Items, NEW n \in Attempts
               PROVE  /\ runs[i][n] = "SUCCEEDED" => runs'[i][n] = "SUCCEEDED"
                      /\ handler'[i][n].step # "idle" \/ runs'[i][n] # "NONE" =>
                           handler[i][n].step # "idle" \/ runs[i][n] # "NONE" \/ n <= work'[i].attempts
                      /\ handler'[i][n].step \in Early => runs'[i][n] = "NONE"
                      /\ handler'[i][n].step = "resolve" \/ handler'[i][n].outcome = "SUCCEEDED" =>
                           runs'[i][n] = "SUCCEEDED"
    BY DEF Honest
  <1>3. CASE handler'[i][n] = handler[i][n]
    BY <1>1, <1>3 DEF Earning, Numbered, Earned
  <1>4. CASE handler'[i][n] # handler[i][n]
    <2>1. n \in Nat
      BY DEF Attempts
    <2>2. QED
      BY <1>1, <1>2, <1>4, <2>1
  <1>5. QED
    BY <1>3, <1>4

\* One execution moves on and its run changes with it.
LEMMA RunHonest ==
  ASSUME Earning, NEW i \in Items, NEW n \in Attempts, handler[i][n].step # "idle",
         NEW h, Goto(i, n, h), h.step \notin Early,
         NEW status, runs' = [runs EXCEPT ![i][n] = status],
         runs[i][n] = "SUCCEEDED" => status = "SUCCEEDED",
         h.step = "resolve" \/ h.outcome = "SUCCEEDED" => status = "SUCCEEDED"
  PROVE  Honest
  <1>1. \A j \in Items, m \in Attempts :
          /\ handler'[j][m] = IF j = i /\ m = n THEN h ELSE handler[j][m]
          /\ runs'[j][m] = IF j = i /\ m = n THEN status ELSE runs[j][m]
    BY DEF Goto, Earning, Collecting, HandlerTypes
  <1>2. QED
    BY <1>1 DEF Honest, Earning, Numbered, Earned

LEMMA ReapRunsHonest ==
  ASSUME Earning, NEW S \in SUBSET Items, ReapRuns(S)
  PROVE  Honest
  <1>1. \A i \in Items, n \in Attempts :
          runs'[i][n] = runs[i][n] \/ (runs[i][n] = "RUNNING" /\ runs'[i][n] = "FAILED")
    BY DEF ReapRuns, RunsReaped
  <1>2. handler' = handler
    BY DEF ReapRuns
  <1>3. QED
    BY <1>1, <1>2 DEF Honest, Earning, Numbered, Earned

\* A report of success comes from an execution that persisted its batch.
LEMMA ReportHonest ==
  ASSUME Earning, NEW w \in Workers, NEW i \in Items, NEW n \in Attempts,
         NEW o \in Outcomes, NEW d \in 0..MaxWait, Report(w, i, n, o, d)
  PROVE  Honest /\ Paid
  <1>1. At("idle") \in Handler /\ At("idle").step = "idle" /\ At("idle").outcome = "NONE"
    BY HandlerValues DEF At, Steps
  <1>2. Honest
    BY <1>1, GotoHonest DEF Report, Early
  <1>3. \A j \in Items \ {i} : work'[j] = work[j]
    BY DEF Report, Finish, Earning, Collecting, Exclusively, Fenced, Budgeted, TypeOK
  <1>4. ASSUME work'[i].status = "SUCCEEDED" PROVE runs[i][n] = "SUCCEEDED"
    <2>1. work'[i] = Released(work[i], NextStatus(work[i], o), d)
      BY DEF Report, Finish, Earning, Collecting, Exclusively, Fenced, Budgeted, TypeOK
    <2>2. NextStatus(work[i], o) = "SUCCEEDED"
      BY <1>4, <2>1 DEF Released
    <2>3. work[i].cancel \in BOOLEAN
      BY RowTypes DEF Earning, Collecting, Exclusively, Fenced, WorkRow
    <2>4. o = "SUCCEEDED"
      BY <2>2, <2>3 DEF NextStatus, NoRetryLeft
    <2>5. handler[i][n].outcome = "SUCCEEDED"
      BY <2>4 DEF Report, Reported
    <2>6. QED
      BY <2>5 DEF Earning, Earned
  <1>5. QED
    BY <1>2, <1>3, <1>4 DEF Paid

LEMMA WorkHonest ==
  ASSUME Earning, NEW w \in Workers, NEW i \in Items, NEW n \in Attempts,
         Work(w, i, n) \/ Beat(w, i, n) \/ BeatFails(w, i, n)
  PROVE  Honest /\ Paid
  <1>1. \A s \in Steps : At(s).outcome = "NONE"
    BY DEF At
  <1>2. \A o \in Outcomes : Reporting(o).outcome = o /\ Failing(o).outcome = o
    BY DEF Reporting, Failing
  <1>3. handler[i][n] \in Handler
    BY DEF Earning, Collecting, HandlerTypes
  <1>4. ASSUME NEW o \in Outcomes, o = "SUCCEEDED" => handler[i][n].step = "resolve",
               handler[i][n].step # "idle", runs' = runs,
               Goto(i, n, Reporting(o)) \/ Goto(i, n, Failing(o))
        PROVE  Honest
    <2>1. /\ Reporting(o) \in Handler /\ Reporting(o).step = "finish"
          /\ Failing(o) \in Handler /\ Failing(o).step = "fail"
      BY HandlerValues
    <2>2. QED
      BY <1>2, <1>4, <2>1, GotoHonest DEF Early
  <1>5. CASE Begin(w, i, n)
    <2>1. At("policy") \in Handler /\ At("policy").step = "policy"
      BY HandlerValues DEF Steps
    <2>2. At("policy").outcome = "NONE"
      BY DEF At
    <2>3. Honest
      BY <1>5, <2>1, <2>2, GotoHonest DEF Begin, Early
    <2>4. QED
      BY <1>5, <2>3, LedgerPaid DEF Begin
  <1>6. CASE CheckPolicy(w, i, n)
    <2>1. At("open") \in Handler /\ At("open").step = "open" /\ At("open").outcome = "NONE"
      BY HandlerValues DEF Steps, At
    <2>6. handler[i][n].step = "policy" /\ runs' = runs
      BY <1>6 DEF CheckPolicy
    <2>2. ASSUME Goto(i, n, At("open"))
          PROVE  Honest
      BY <2>1, <2>2, <2>6, GotoHonest DEF Early
    <2>3. ASSUME Goto(i, n, Reporting("POLICY_BLOCKED"))
          PROVE  Honest
      BY <1>4, <2>3, <2>6 DEF Outcomes
    <2>7. ASSUME Goto(i, n, Reporting("RETRYABLE"))
          PROVE  Honest
      BY <1>4, <2>6, <2>7 DEF Outcomes
    <2>4. Honest
      BY <1>6, <2>2, <2>3, <2>7 DEF CheckPolicy
    <2>5. QED
      BY <1>6, <2>4, LedgerPaid DEF CheckPolicy
  <1>7. CASE OpenRun(w, i, n)
    <2>1. ASSUME UNCHANGED runs /\ (Goto(i, n, Reporting("NON_RETRYABLE")) \/ Goto(i, n, Reporting("RETRYABLE")))
          PROVE  Honest
      BY <1>4, <1>7, <2>1 DEF OpenRun, Outcomes
    <2>2. ASSUME Goto(i, n, At("collect")) /\ runs' = [runs EXCEPT ![i][n] = "RUNNING"]
          PROVE  Honest
      <3>1. At("collect").step = "collect" /\ At("collect").outcome = "NONE"
        BY DEF At
      <3>2. runs[i][n] = "NONE" /\ handler[i][n].step # "idle"
        BY <1>7 DEF OpenRun, Earning, Numbered, Early
      <3>3. "collect" \notin Early
        BY DEF Early
      <3>4. QED
        BY <2>2, <3>1, <3>2, <3>3, RunHonest
    <2>3. Honest
      BY <1>7, <2>1, <2>2 DEF OpenRun
    <2>4. QED
      BY <1>7, <2>3, LedgerPaid DEF OpenRun
  <1>8. CASE Collect(w, i, n)
    <2>1. ASSUME Goto(i, n, [step |-> "persist", seen |-> board[work[i].target], outcome |-> "NONE"])
          PROVE  Honest
      <3> DEFINE h == [step |-> "persist", seen |-> board[work[i].target], outcome |-> "NONE"]
      <3>1. h.step = "persist" /\ h.outcome = "NONE" /\ Goto(i, n, h)
        BY <2>1
      <3>2. h \in Handler
        <4>1. work[i].target \in Targets
          BY <1>8 DEF Collect, Earning, Collecting, Present, Exclusively, Aimed
        <4>2. QED
          BY <4>1 DEF Handler, Steps, Earning, Collecting, HandlerTypes
      <3> HIDE DEF h
      <3>3. handler[i][n].step = "collect" /\ runs' = runs /\ "persist" \notin Early
        BY <1>8 DEF Collect, Early
      <3>4. QED
        BY <3>1, <3>2, <3>3, GotoHonest
    <2>2. ASSUME \E o \in {"RETRYABLE", "NON_RETRYABLE"} : Goto(i, n, Failing(o))
          PROVE  Honest
      <3>1. handler[i][n].step = "collect" /\ runs' = runs
        BY <1>8 DEF Collect
      <3>2. PICK o \in {"RETRYABLE", "NON_RETRYABLE"} : Goto(i, n, Failing(o))
        BY <2>2
      <3>3. o \in Outcomes /\ o # "SUCCEEDED"
        BY DEF Outcomes
      <3>4. QED
        BY <1>4, <3>1, <3>2, <3>3
    <2>3. Honest
      BY <1>8, <2>1, <2>2 DEF Collect
    <2>4. QED
      BY <1>8, <2>3, LedgerPaid DEF Collect
  <1>9. CASE Persist(w, i, n)
    <2>1. ASSUME Goto(i, n, At("resolve")) /\ runs' = [runs EXCEPT ![i][n] = "SUCCEEDED"]
          PROVE  Honest
      <3>1. At("resolve").step = "resolve" /\ "resolve" \notin Early
        BY DEF At, Early
      <3>2. handler[i][n].step # "idle"
        BY <1>9 DEF Persist
      <3>3. QED
        BY <2>1, <3>1, <3>2, RunHonest
    <2>2. ASSUME UNCHANGED runs /\ (Goto(i, n, Failing("NON_RETRYABLE")) \/ Goto(i, n, Failing("RETRYABLE")))
          PROVE  Honest
      <3>1. handler[i][n].step # "idle" /\ runs' = runs
        BY <1>9, <2>2 DEF Persist
      <3>2. /\ "NON_RETRYABLE" \in Outcomes /\ "NON_RETRYABLE" # "SUCCEEDED"
            /\ "RETRYABLE" \in Outcomes /\ "RETRYABLE" # "SUCCEEDED"
        BY DEF Outcomes
      <3>3. QED
        BY <1>4, <2>2, <3>1, <3>2
    <2>3. Honest
      BY <1>9, <2>1, <2>2 DEF Persist
    <2>4. QED
      BY <1>9, <2>3, LedgerPaid DEF Persist
  <1>10. CASE Resolve(w, i, n)
    <2>1. Honest
      BY <1>4, <1>10 DEF Resolve, Outcomes
    <2>2. QED
      BY <1>10, <2>1, LedgerPaid DEF Resolve
  <1>11. CASE RecordFailure(w, i, n)
    <2> DEFINE h == Reporting(handler[i][n].outcome)
    <2>1. h \in Handler /\ h.step = "finish" /\ h.outcome = handler[i][n].outcome
      <3>1. handler[i][n].outcome \in Outcomes \cup {"NONE"}
        BY <1>3 DEF Handler
      <3>2. QED
        BY <3>1, HandlerValues DEF Reporting
    <2>2. Goto(i, n, h) /\ handler[i][n].step = "fail"
      BY <1>11 DEF RecordFailure
    <2>3. h.outcome = "SUCCEEDED" => runs[i][n] = "SUCCEEDED"
      BY <2>1 DEF Earning, Earned
    <2> HIDE DEF h
    <2>4. PICK status : /\ runs' = [runs EXCEPT ![i][n] = status]
                        /\ runs[i][n] = "SUCCEEDED" => status = "SUCCEEDED"
      <3>1. runs \in [Items -> [Attempts -> RunStatus]]
        BY DEF Earning, Collecting, HandlerTypes
      <3>2. CASE UNCHANGED runs
        <4>1. runs' = [runs EXCEPT ![i][n] = runs[i][n]]
          BY <3>1, <3>2
        <4>2. QED
          BY <4>1
      <3>3. CASE runs' = [runs EXCEPT ![i][n] = IF @ = "RUNNING" THEN "FAILED" ELSE @]
        <4> DEFINE status == IF runs[i][n] = "RUNNING" THEN "FAILED" ELSE runs[i][n]
        <4>1. runs' = [runs EXCEPT ![i][n] = status]
          BY <3>1, <3>3
        <4>2. runs[i][n] = "SUCCEEDED" => status = "SUCCEEDED"
          OBVIOUS
        <4> HIDE DEF status
        <4>3. QED
          BY <4>1, <4>2
      <3>4. QED
        BY <1>11, <3>2, <3>3 DEF RecordFailure
    <2>5. Honest
      BY <2>1, <2>2, <2>3, <2>4, RunHonest DEF Early
    <2>6. QED
      BY <1>11, <2>5, LedgerPaid DEF RecordFailure
  <1>12. CASE Rejected(w, i, n)
    BY <1>12, DieHonest DEF Rejected
  <1>13. ASSUME NEW o \in Outcomes, NEW d \in 0..MaxWait, Report(w, i, n, o, d)
         PROVE  Honest /\ Paid
    BY <1>13, ReportHonest
  <1>14. CASE Beat(w, i, n)
    BY <1>14, SettledHonest, LedgerPaid DEF Beat
  <1>15. CASE BeatFails(w, i, n)
    <2>1. Honest
      BY <1>4, <1>15 DEF BeatFails, Executing, Outcomes
    <2>2. QED
      BY <1>15, <2>1, LedgerPaid DEF BeatFails
  <1>16. QED
    BY <1>5, <1>6, <1>7, <1>8, <1>9, <1>10, <1>11, <1>12, <1>13, <1>14, <1>15 DEF Work

LEMMA NextEarning == Earning /\ [CNext]_cvars => Earning'
  <1> SUFFICES ASSUME Earning, [CNext]_cvars PROVE Honest /\ Paid
    BY HonestEarning
  <1>1. ASSUME NEW i \in Items, NEW t \in Targets, Occur(i, t) PROVE Honest /\ Paid
    BY <1>1, SettledHonest, LedgerPaid DEF Occur
  <1>2. ASSUME NEW w \in Workers, NEW S \in SUBSET Items, Take(w, S) PROVE Honest /\ Paid
    BY <1>2, TakeHonest, LedgerPaid DEF Take
  <1>3. ASSUME NEW w \in Workers, NEW i \in Items, NEW n \in Attempts,
               Work(w, i, n) \/ Beat(w, i, n) \/ BeatFails(w, i, n)
        PROVE  Honest /\ Paid
    BY <1>3, WorkHonest
  <1>4. ASSUME NEW w \in Workers, Crash(w) PROVE Honest /\ Paid
    BY <1>4, DieHonest DEF Crash
  <1>5. ASSUME NEW S \in SUBSET Items, ReapRuns(S) PROVE Honest /\ Paid
    BY <1>5, ReapRunsHonest, LedgerPaid DEF ReapRuns
  <1>6. ASSUME NEW t \in Targets, Publish(t) \/ Govern(t) PROVE Honest /\ Paid
    BY <1>6, SettledHonest, LedgerPaid DEF Publish, Govern, SetPolicy
  <1>7. CASE Pass
    BY <1>7, SettledHonest, LedgerPaid DEF Pass
  <1>8. CASE UNCHANGED cvars
    BY <1>8, SettledHonest, LedgerPaid DEF cvars
  <1>9. QED
    BY <1>1, <1>2, <1>3, <1>4, <1>5, <1>6, <1>7, <1>8 DEF CNext

LEMMA InitEarning == CInit => Earning
  <1> SUFFICES ASSUME CInit PROVE Earning
    OBVIOUS
  <1>1. \A i \in Items, n \in Attempts : handler[i][n] = At("idle") /\ runs[i][n] = "NONE"
    BY DEF CInit
  <1>2. At("idle").step = "idle" /\ At("idle").outcome = "NONE"
    BY DEF At
  <1>3. \A i \in Items : work[i].status = "ABSENT"
    BY DEF CInit, Init, AbsentRow
  <1>4. QED
    BY <1>1, <1>2, <1>3, InitCollecting DEF Earning, Numbered, Earned, Early, SucceededMeansPersisted

\* An item is SUCCEEDED only when the batch of one of its own attempts was persisted,
\* whichever of its attempts reported it and whatever the reaper did to the others.
THEOREM SuccessIsPersisted == CSpec => []SucceededMeansPersisted
  <1>1. Earning => SucceededMeansPersisted
    BY DEF Earning
  <1>2. QED
    BY <1>1, InitEarning, NextEarning, PTL DEF CSpec

-----------------------------------------------------------------------------
(* Interviews.                                                             *)

(* A task of the checklist and its calendar item name each other, and a     *)
(* plan that was made has all its tasks.                                    *)
Checklist(tasks, table, plans) ==
  /\ \A i \in Interviews, k \in PrepKeys : tasks[<<i, k>>] # Null =>
       LET x == tasks[<<i, k>>].item IN table[x] # Null /\ table[x].owner = i /\ table[x].key = k
  /\ \A x \in CalendarItems : table[x] # Null /\ table[x].key # Null =>
       LET p == <<table[x].owner, table[x].key>> IN tasks[p] # Null /\ tasks[p].item = x
  /\ \A i \in plans, k \in PrepKeys : tasks[<<i, k>>] # Null

(* An interview has one live calendar item of its own.                      *)
Alive(table, x) == table[x] # Null /\ ~table[x].deleted

OneItem(table) ==
  \A x, y \in CalendarItems :
    Alive(table, x) /\ Alive(table, y) /\ table[x].key = Null /\ table[y].key = Null
      /\ table[x].owner = table[y].owner => x = y

(* What a handler has read is still there.                                  *)
Expects(h, meetings, table) ==
  /\ h.op \in {"FIND", "MAKE", "EVENT", "LINK"} \cup PrepOps => meetings[h.for] # Null
  /\ h.op = "TICK" => table[h.item] # Null

Arranging ==
  /\ InterviewTypeOK
  /\ Checklist(prep, item, planned) /\ OneItem(item)
  /\ \A r \in Requests : Expects(scheduling[r], interview, item)

LEMMA HandlersOfInterviews ==
  ASSUME NEW h \in InterviewHandler
  PROVE  /\ h.op \in {"FIND", "MAKE", "EVENT", "LINK"} \cup PrepOps => h.for \in Interviews
         /\ h.op = "LINK" => h.item \in CalendarItems
         /\ h.op = "TICK" => h.item \in CalendarItems /\ h.done \in BOOLEAN
         /\ h.op \in {"FIND", "MAKE", "EVENT"} \cup PrepOps =>
              h \in [op : {"FIND", "MAKE", "EVENT"} \cup PrepOps, for : Interviews]
  BY DEF InterviewHandler, Idle, PrepOps

LEMMA ArrangingInit == IInit => Arranging
  BY DEF IInit, Arranging, InterviewTypeOK, InterviewHandler, Idle, Checklist, OneItem, Alive,
         Expects, PrepOps

(* Rows of interviews and items stay; the row of one request changes.        *)
LEMMA ArrangingRowStep ==
  ASSUME Arranging, NEW r \in Requests, NEW h \in InterviewHandler, Continues(r, h),
         interview' \in [Interviews -> InterviewRow \cup {Null}],
         item' \in [CalendarItems -> ItemRow \cup {Null}],
         scheduled' \subseteq Interviews, planned' \subseteq Interviews,
         prep' \in [Interviews \X PrepKeys -> PrepRow \cup {Null}],
         \A i \in Interviews : interview[i] # Null => interview'[i] # Null,
         \A x \in CalendarItems : item[x] # Null => item'[x] # Null,
         Checklist(prep', item', planned'), OneItem(item'),
         Expects(h, interview', item')
  PROVE  Arranging'
  <1>1. /\ scheduling \in [Requests -> InterviewHandler]
        /\ scheduling' = [scheduling EXCEPT ![r] = h]
    BY DEF Arranging, InterviewTypeOK, Continues
  <1>2. /\ scheduling' \in [Requests -> InterviewHandler]
        /\ \A q \in Requests : scheduling'[q] = IF q = r THEN h ELSE scheduling[q]
    BY <1>1
  <1>3. ASSUME NEW q \in Requests PROVE Expects(scheduling[q], interview', item')
    <2>1. scheduling[q] \in InterviewHandler /\ Expects(scheduling[q], interview, item)
      BY <1>1 DEF Arranging
    <2>2. QED
      BY <2>1, HandlersOfInterviews DEF Expects
  <1>4. InterviewTypeOK'
    BY <1>2 DEF InterviewTypeOK
  <1>5. QED
    BY <1>2, <1>3, <1>4 DEF Arranging

(* A step that writes no task and no item.                                  *)
LEMMA ArrangingReadStep ==
  ASSUME Arranging, NEW r \in Requests, NEW h \in InterviewHandler, Continues(r, h),
         UNCHANGED <<item, planned, prep>>,
         scheduled' \subseteq Interviews,
         interview' \in [Interviews -> InterviewRow \cup {Null}],
         \A i \in Interviews : interview[i] # Null => interview'[i] # Null,
         Expects(h, interview', item)
  PROVE  Arranging'
  <1>1. /\ item \in [CalendarItems -> ItemRow \cup {Null}] /\ planned \subseteq Interviews
        /\ prep \in [Interviews \X PrepKeys -> PrepRow \cup {Null}]
        /\ Checklist(prep, item, planned) /\ OneItem(item)
    BY DEF Arranging, InterviewTypeOK
  <1>2. item' = item /\ planned' = planned /\ prep' = prep
    OBVIOUS
  <1>3. QED
    BY <1>1, <1>2, ArrangingRowStep

LEMMA IdleInterview ==
  Idle \in InterviewHandler /\ \A meetings, table : Expects(Idle, meetings, table)
  BY DEF InterviewHandler, Idle, Expects, PrepOps

LEMMA ArrangingSchedule ==
  ASSUME Arranging, NEW r \in Requests, NEW i \in Interviews, Schedule(r, i)
  PROVE  Arranging'
  <1> DEFINE row == [status |-> "SCHEDULED", item |-> Null]
             h == [op |-> "FIND", for |-> i]
  <1>1. h \in InterviewHandler /\ h.op = "FIND" /\ h.for = i
    BY DEF InterviewHandler
  <1>2. row \in InterviewRow
    BY DEF InterviewRow
  <1>3. row # Null
    BY <1>2, InterviewRowAssumption
  <1>4. /\ interview \in [Interviews -> InterviewRow \cup {Null}] /\ scheduled \subseteq Interviews
    BY DEF Arranging, InterviewTypeOK
  <1>5. /\ Continues(r, h) /\ UNCHANGED <<item, scheduled, planned, prep>>
        /\ \/ interview[i] # Null /\ interview' = interview
           \/ interview[i] = Null /\ interview' = [interview EXCEPT ![i] = row]
    BY DEF Schedule, Standing
  <1> HIDE DEF row, h
  <1>6. /\ interview' \in [Interviews -> InterviewRow \cup {Null}]
        /\ \A j \in Interviews : interview[j] # Null => interview'[j] # Null
        /\ interview'[i] # Null
    BY <1>2, <1>3, <1>4, <1>5
  <1>7. Expects(h, interview', item)
    BY <1>1, <1>6 DEF Expects
  <1>8. QED
    BY <1>1, <1>4, <1>5, <1>6, <1>7, ArrangingReadStep

(* The handlers of createInterview after its upsert, and those of a plan    *)
(* before its checklist: they go on with what they read.                    *)
LEMMA ArrangingGoesOn ==
  ASSUME Arranging, NEW r \in Requests, NEW op \in {"FIND", "MAKE", "EVENT"} \cup PrepOps,
         scheduling[r].op \in {"FIND", "MAKE", "EVENT", "LINK"} \cup PrepOps
  PROVE  LET h == [op |-> op, for |-> scheduling[r].for] IN
           h \in InterviewHandler /\ Expects(h, interview, item)
  <1> DEFINE h == [op |-> op, for |-> scheduling[r].for]
  <1>1. scheduling[r].for \in Interviews /\ interview[scheduling[r].for] # Null
    BY HandlersOfInterviews DEF Arranging, InterviewTypeOK, Expects
  <1>2. /\ h \in InterviewHandler /\ h.op \in {"FIND", "MAKE", "EVENT"} \cup PrepOps
        /\ h.for = scheduling[r].for
    BY <1>1 DEF InterviewHandler
  <1> HIDE DEF h
  <1>3. Expects(h, interview, item)
    BY <1>1, <1>2 DEF Expects, PrepOps
  <1>4. QED
    BY <1>2, <1>3 DEF h


LEMMA GoesOnRow ==
  ASSUME NEW h \in InterviewHandler, h.op \in {"FIND", "MAKE", "EVENT"} \cup PrepOps, NEW op
  PROVE  [h EXCEPT !.op = op] = [op |-> op, for |-> h.for]
  BY HandlersOfInterviews

(* An item that is linked exists; the row of the interview stays.           *)
LEMMA ArrangingLink ==
  ASSUME Arranging, NEW i \in Interviews, NEW x \in CalendarItems, interview[i] # Null
  PROVE  LET h == [op |-> "LINK", for |-> i, item |-> x] IN
           h \in InterviewHandler /\ Expects(h, interview, item)
  <1> DEFINE h == [op |-> "LINK", for |-> i, item |-> x]
  <1>1. h \in InterviewHandler /\ h.op = "LINK" /\ h.for = i
    BY DEF InterviewHandler
  <1> HIDE DEF h
  <1>2. Expects(h, interview, item)
    BY <1>1 DEF Expects
  <1>3. QED
    BY <1>1, <1>2 DEF h

LEMMA InterviewTables ==
  ASSUME Arranging
  PROVE  /\ interview \in [Interviews -> InterviewRow \cup {Null}]
         /\ item \in [CalendarItems -> ItemRow \cup {Null}]
         /\ scheduled \subseteq Interviews /\ planned \subseteq Interviews
         /\ prep \in [Interviews \X PrepKeys -> PrepRow \cup {Null}]
         /\ scheduling \in [Requests -> InterviewHandler]
         /\ Checklist(prep, item, planned) /\ OneItem(item)
         /\ \A r \in Requests : Expects(scheduling[r], interview, item)
  BY DEF Arranging, InterviewTypeOK

LEMMA ArrangingFind ==
  ASSUME Arranging, NEW r \in Requests, FindItem(r)
  PROVE  Arranging'
  <1>1. /\ scheduling[r] \in InterviewHandler /\ scheduling[r].op = "FIND"
        /\ UNCHANGED <<interview, item, scheduled, planned, prep>>
    BY InterviewTables DEF FindItem, In
  <1>2. scheduling[r].for \in Interviews /\ interview[scheduling[r].for] # Null
    BY <1>1, InterviewTables, HandlersOfInterviews DEF Expects
  <1>3. [scheduling[r] EXCEPT !.op = "MAKE"] = [op |-> "MAKE", for |-> scheduling[r].for]
    BY <1>1, GoesOnRow
  <1>4. CASE Continues(r, [scheduling[r] EXCEPT !.op = "MAKE"])
    BY <1>1, <1>3, <1>4, InterviewTables, ArrangingGoesOn, ArrangingReadStep
  <1>5. ASSUME NEW x \in ItemsOf(scheduling[r].for),
               Continues(r, [op |-> "LINK", for |-> scheduling[r].for, item |-> x])
        PROVE  Arranging'
    <2>1. x \in CalendarItems
      BY DEF ItemsOf, LiveItems
    <2>2. QED
      BY <1>1, <1>2, <1>5, <2>1, InterviewTables, ArrangingLink, ArrangingReadStep
  <1>6. QED
    BY <1>4, <1>5 DEF FindItem

(* The unique index lets one request make the item.                         *)
LEMMA ArrangingMake ==
  ASSUME Arranging, NEW r \in Requests, NEW x \in CalendarItems, MakeItem(r, x)
  PROVE  Arranging'
  <1> DEFINE i == scheduling[r].for
             h == [op |-> "LINK", for |-> i, item |-> x]
             row == [owner |-> i, key |-> Null, status |-> "TODO", deleted |-> FALSE]
  <1>1. /\ scheduling[r] \in InterviewHandler /\ scheduling[r].op = "MAKE"
        /\ Continues(r, h) /\ UNCHANGED <<interview, scheduled, planned, prep>>
    BY InterviewTables DEF MakeItem, In
  <1>2. i \in Interviews /\ interview[i] # Null
    BY <1>1, InterviewTables, HandlersOfInterviews DEF Expects
  <1>3. h \in InterviewHandler /\ Expects(h, interview, item) /\ h.op = "LINK"
    BY <1>2, ArrangingLink
  <1>4. CASE ItemTaken(i)
    <2>1. item' = item
      BY <1>4 DEF MakeItem
    <2> HIDE DEF h
    <2>2. QED
      BY <1>1, <1>3, <2>1, InterviewTables, ArrangingReadStep
  <1>5. CASE ~ItemTaken(i)
    <2>1. item[x] = Null /\ item' = [item EXCEPT ![x] = row]
      BY <1>5 DEF MakeItem
    <2>2. row \in ItemRow /\ row.key = Null /\ row.owner = i
      BY <1>2 DEF ItemRow
    <2>3. row # Null
      BY <2>2, InterviewRowAssumption
    <2>4. \A y \in CalendarItems : ~(Alive(item, y) /\ item[y].owner = i /\ item[y].key = Null)
      BY <1>5 DEF ItemTaken, ItemsOf, LiveItems, Alive
    <2>5. interview' = interview /\ planned' = planned /\ prep' = prep /\ scheduled' = scheduled
      BY <1>1
    <2> HIDE DEF row, h, i
    <2>6. /\ item' \in [CalendarItems -> ItemRow \cup {Null}]
          /\ \A y \in CalendarItems : item'[y] = IF y = x THEN row ELSE item[y]
      BY <2>1, <2>2, InterviewTables
    <2>7. \A y \in CalendarItems : item[y] # Null => item'[y] # Null
      BY <2>3, <2>6
    <2>8. OneItem(item')
      <3>1. SUFFICES ASSUME NEW y \in CalendarItems, NEW z \in CalendarItems,
                            Alive(item', y), Alive(item', z), item'[y].key = Null,
                            item'[z].key = Null, item'[y].owner = item'[z].owner
                     PROVE  y = z
        BY DEF OneItem
      <3>2. CASE y = x \/ z = x
        BY <2>2, <2>4, <2>6, <3>1, <3>2 DEF Alive
      <3>3. CASE y # x /\ z # x
        BY <2>6, <3>1, <3>3, InterviewTables DEF OneItem, Alive
      <3>4. QED
        BY <3>2, <3>3
    <2>9. Checklist(prep, item', planned)
      <3>1. ASSUME NEW j \in Interviews, NEW k \in PrepKeys, prep[<<j, k>>] # Null
            PROVE  LET y == prep[<<j, k>>].item IN
                     item'[y] # Null /\ item'[y].owner = j /\ item'[y].key = k
        <4>1. prep[<<j, k>>] \in PrepRow
          BY <3>1, InterviewTables
        <4>2. prep[<<j, k>>].item \in CalendarItems
          BY <4>1 DEF PrepRow
        <4>3. /\ item[prep[<<j, k>>].item] # Null
              /\ item[prep[<<j, k>>].item].owner = j /\ item[prep[<<j, k>>].item].key = k
          BY <3>1, InterviewTables DEF Checklist
        <4>4. QED
          BY <2>1, <2>6, <4>2, <4>3
      <3>2. ASSUME NEW y \in CalendarItems, item'[y] # Null, item'[y].key # Null
            PROVE  LET p == <<item'[y].owner, item'[y].key>> IN prep[p] # Null /\ prep[p].item = y
        <4>1. y # x /\ item'[y] = item[y]
          BY <2>2, <2>6, <3>2
        <4>2. QED
          BY <3>2, <4>1, InterviewTables DEF Checklist
      <3>3. QED
        BY <3>1, <3>2, InterviewTables DEF Checklist
    <2>10. Expects(h, interview, item')
      BY <1>3 DEF Expects, PrepOps
    <2>11. QED
      BY <1>1, <1>3, <2>5, <2>6, <2>7, <2>8, <2>9, <2>10, InterviewTables, ArrangingRowStep
  <1>6. QED
    BY <1>4, <1>5

LEMMA ArrangingLinked ==
  ASSUME Arranging, NEW r \in Requests, LinkItem(r)
  PROVE  Arranging'
  <1> DEFINE i == scheduling[r].for
             row == Linked(interview[i], scheduling[r].item)
             h == [op |-> "EVENT", for |-> i]
  <1>1. /\ scheduling[r] \in InterviewHandler /\ scheduling[r].op = "LINK"
        /\ interview' = [interview EXCEPT ![i] = row]
        /\ Continues(r, h) /\ UNCHANGED <<item, scheduled, planned, prep>>
    BY InterviewTables DEF LinkItem, In
  <1>2. /\ i \in Interviews /\ interview[i] # Null /\ scheduling[r].item \in CalendarItems
    BY <1>1, InterviewTables, HandlersOfInterviews DEF Expects
  <1>3. interview[i] \in InterviewRow
    BY <1>2, InterviewTables
  <1>4. row \in InterviewRow
    BY <1>2, <1>3 DEF Linked, InterviewRow
  <1>5. row # Null
    BY <1>4, InterviewRowAssumption
  <1>6. h \in InterviewHandler /\ Expects(h, interview, item)
    BY <1>1, ArrangingGoesOn
  <1>7. h.op = "EVENT" /\ h.for = i
    OBVIOUS
  <1> HIDE DEF i, row, h
  <1>8. /\ interview' \in [Interviews -> InterviewRow \cup {Null}]
        /\ \A j \in Interviews : interview[j] # Null => interview'[j] # Null
        /\ interview'[i] # Null
    BY <1>1, <1>2, <1>4, <1>5, InterviewTables
  <1>9. Expects(h, interview', item)
    BY <1>7, <1>8 DEF Expects
  <1>10. QED
    BY <1>1, <1>6, <1>8, <1>9, InterviewTables, ArrangingReadStep

LEMMA ArrangingRecord ==
  ASSUME Arranging, NEW r \in Requests, RecordScheduled(r)
  PROVE  Arranging'
  <1>1. /\ scheduling[r] \in InterviewHandler /\ scheduling[r].op = "EVENT"
        /\ scheduled' = scheduled \cup {scheduling[r].for}
        /\ Continues(r, Idle) /\ UNCHANGED <<interview, item, planned, prep>>
    BY InterviewTables DEF RecordScheduled, In
  <1>2. scheduled' \subseteq Interviews
    BY <1>1, InterviewTables, HandlersOfInterviews
  <1>3. QED
    BY <1>1, <1>2, InterviewTables, IdleInterview, ArrangingReadStep

LEMMA ArrangingAbandon ==
  ASSUME Arranging, NEW r \in Requests, AbandonInterview(r)
  PROVE  Arranging'
  <1>1. Continues(r, Idle) /\ UNCHANGED <<interview, item, scheduled, planned, prep>>
    BY DEF AbandonInterview
  <1>2. QED
    BY <1>1, InterviewTables, IdleInterview, ArrangingReadStep

(* A step beside the handlers that keeps the rows they name.                *)
LEMMA ArrangingBeside ==
  ASSUME Arranging, UNCHANGED <<scheduled, planned, prep, scheduling>>,
         interview' \in [Interviews -> InterviewRow \cup {Null}],
         item' \in [CalendarItems -> ItemRow \cup {Null}],
         \A i \in Interviews : interview[i] # Null => interview'[i] # Null,
         \A x \in CalendarItems : item[x] # Null => item'[x] # Null,
         Checklist(prep, item', planned), OneItem(item')
  PROVE  Arranging'
  <1>1. ASSUME NEW q \in Requests PROVE Expects(scheduling[q], interview', item')
    <2>1. scheduling[q] \in InterviewHandler /\ Expects(scheduling[q], interview, item)
      BY InterviewTables
    <2>2. QED
      BY <2>1, HandlersOfInterviews DEF Expects
  <1>2. InterviewTypeOK'
    BY DEF Arranging, InterviewTypeOK
  <1>3. QED
    BY <1>1, <1>2 DEF Arranging

LEMMA ArrangingUpdate ==
  ASSUME Arranging, NEW r \in Requests, NEW i \in Interviews,
         NEW status \in {"SCHEDULED", "COMPLETED", "CANCELLED"}, UpdateInterview(r, i, status)
  PROVE  Arranging'
  <1> DEFINE row == [interview[i] EXCEPT !.status = status]
  <1>1. /\ interview[i] # Null /\ interview' = [interview EXCEPT ![i] = row]
        /\ UNCHANGED <<item, scheduled, planned, prep, scheduling>>
    BY DEF UpdateInterview
  <1>2. row \in InterviewRow
    BY <1>1, InterviewTables DEF InterviewRow
  <1>3. row # Null
    BY <1>2, InterviewRowAssumption
  <1> HIDE DEF row
  <1>4. /\ interview' \in [Interviews -> InterviewRow \cup {Null}]
        /\ \A j \in Interviews : interview[j] # Null => interview'[j] # Null
    BY <1>1, <1>2, <1>3, InterviewTables
  <1>5. item' = item
    BY <1>1
  <1>6. QED
    BY <1>1, <1>4, <1>5, InterviewTables, ArrangingBeside

(* A step that makes no item and no task, and removes none.                 *)
RowsStay ==
  /\ \A x \in CalendarItems : item'[x] = Null <=> item[x] = Null
  /\ \A p \in Interviews \X PrepKeys : prep'[p] = Null <=> prep[p] = Null

(* An item may change its state, not whose it is, and none comes back.      *)
LEMMA ItemKept ==
  ASSUME NEW table, NEW after, NEW tasks, NEW plans, NEW x \in CalendarItems,
         tasks \in [Interviews \X PrepKeys -> PrepRow \cup {Null}],
         Checklist(tasks, table, plans), OneItem(table),
         table[x] # Null, after[x] # Null,
         after[x].owner = table[x].owner, after[x].key = table[x].key,
         Alive(after, x) => Alive(table, x),
         \A y \in CalendarItems : y # x => after[y] = table[y]
  PROVE  Checklist(tasks, after, plans) /\ OneItem(after)
  <1>1. \A y \in CalendarItems :
          /\ after[y] # Null <=> table[y] # Null
          /\ after[y] # Null => after[y].owner = table[y].owner /\ after[y].key = table[y].key
          /\ Alive(after, y) => Alive(table, y) /\ after[y] # Null
    BY DEF Alive
  <1>2. OneItem(after)
    BY <1>1 DEF OneItem
  <1>3. ASSUME NEW i \in Interviews, NEW k \in PrepKeys, tasks[<<i, k>>] # Null
        PROVE  LET y == tasks[<<i, k>>].item IN
                 after[y] # Null /\ after[y].owner = i /\ after[y].key = k
    <2>1. tasks[<<i, k>>] \in PrepRow
      BY <1>3
    <2>2. tasks[<<i, k>>].item \in CalendarItems
      BY <2>1 DEF PrepRow
    <2>3. QED
      BY <1>1, <1>3, <2>2 DEF Checklist
  <1>4. ASSUME NEW y \in CalendarItems, after[y] # Null, after[y].key # Null
        PROVE  LET p == <<after[y].owner, after[y].key>> IN tasks[p] # Null /\ tasks[p].item = y
    BY <1>1, <1>4 DEF Checklist
  <1>5. QED
    BY <1>2, <1>3, <1>4 DEF Checklist

LEMMA ArrangingDelete ==
  ASSUME Arranging, NEW x \in CalendarItems, DeleteItem(x)
  PROVE  Arranging' /\ RowsStay
  <1> DEFINE row == [[item[x] EXCEPT !.deleted = TRUE] EXCEPT !.status = "CANCELLED"]
  <1>1. /\ item[x] # Null /\ item' = [item EXCEPT ![x] = row]
        /\ UNCHANGED <<interview, scheduled, planned, prep, scheduling>>
    <2>1. item \in [CalendarItems -> ItemRow \cup {Null}]
      BY InterviewTables
    <2>2. item' = [[item EXCEPT ![x].deleted = TRUE] EXCEPT ![x].status = "CANCELLED"]
      BY DEF DeleteItem
    <2>3. QED
      BY <2>1, <2>2 DEF DeleteItem, LiveItems
  <1>2. item[x] \in ItemRow
    BY <1>1, InterviewTables
  <1>3. row \in ItemRow /\ row.owner = item[x].owner /\ row.key = item[x].key /\ row.deleted = TRUE
    BY <1>2 DEF ItemRow
  <1>4. row # Null
    BY <1>3, InterviewRowAssumption
  <1> HIDE DEF row
  <1>5. /\ item' \in [CalendarItems -> ItemRow \cup {Null}]
        /\ \A y \in CalendarItems : item'[y] = IF y = x THEN row ELSE item[y]
    BY <1>1, <1>3, InterviewTables
  <1>6. ~Alive(item', x)
    BY <1>3, <1>5 DEF Alive
  <1>7. Checklist(prep, item', planned) /\ OneItem(item')
    <2> DEFINE after == item'
    <2>1. /\ after[x] # Null /\ after[x].owner = item[x].owner /\ after[x].key = item[x].key
          /\ Alive(after, x) => Alive(item, x)
          /\ \A y \in CalendarItems : y # x => after[y] = item[y]
      BY <1>3, <1>4, <1>5, <1>6
    <2> HIDE DEF after
    <2>2. Checklist(prep, after, planned) /\ OneItem(after)
      BY <1>1, <2>1, InterviewTables, ItemKept
    <2>3. QED
      BY <2>2 DEF after
  <1>8. interview' = interview /\ prep' = prep
    BY <1>1
  <1>9. RowsStay
    BY <1>1, <1>4, <1>5, <1>8 DEF RowsStay
  <1>10. QED
    BY <1>1, <1>4, <1>5, <1>7, <1>8, <1>9, InterviewTables, ArrangingBeside

LEMMA ArrangingBegin ==
  ASSUME Arranging, NEW r \in Requests, NEW i \in Interviews, PrepBegin(r, i)
  PROVE  Arranging'
  <1> DEFINE h == [op |-> "PREP_READ", for |-> i]
  <1>1. /\ interview[i] # Null /\ Continues(r, h)
        /\ UNCHANGED <<interview, item, scheduled, planned, prep>>
    BY DEF PrepBegin
  <1>2. h \in InterviewHandler /\ h.op = "PREP_READ" /\ h.for = i
    BY DEF InterviewHandler, PrepOps
  <1> HIDE DEF h
  <1>3. Expects(h, interview, item)
    BY <1>1, <1>2 DEF Expects
  <1>4. QED
    BY <1>1, <1>2, <1>3, InterviewTables, ArrangingReadStep

LEMMA ArrangingPreparing ==
  ASSUME Arranging, NEW r \in Requests, PrepContext(r) \/ PrepPlan(r) \/ PrepRequirements(r)
  PROVE  Arranging'
  <1>1. /\ scheduling[r] \in InterviewHandler /\ scheduling[r].op \in PrepOps
        /\ UNCHANGED <<interview, item, scheduled, planned, prep>>
    BY InterviewTables DEF PrepContext, PrepPlan, PrepRequirements, In, PrepOps
  <1>2. \/ Continues(r, Idle)
        \/ \E op \in PrepOps : Continues(r, [scheduling[r] EXCEPT !.op = op])
    BY DEF PrepContext, PrepPlan, PrepRequirements, PrepOps
  <1>3. CASE Continues(r, Idle)
    BY <1>1, <1>3, InterviewTables, IdleInterview, ArrangingReadStep
  <1>4. ASSUME NEW op \in PrepOps, Continues(r, [scheduling[r] EXCEPT !.op = op])
        PROVE  Arranging'
    <2> DEFINE h == [op |-> op, for |-> scheduling[r].for]
    <2>1. [scheduling[r] EXCEPT !.op = op] = h
      BY <1>1, GoesOnRow
    <2>2. h \in InterviewHandler /\ Expects(h, interview, item)
      BY <1>1, ArrangingGoesOn
    <2> HIDE DEF h
    <2>3. QED
      BY <1>1, <1>4, <2>1, <2>2, InterviewTables, ArrangingReadStep
  <1>5. QED
    BY <1>2, <1>3, <1>4

LEMMA ArrangingTick ==
  ASSUME Arranging, NEW r \in Requests, TickItem(r)
  PROVE  Arranging' /\ RowsStay
  <1> DEFINE x == scheduling[r].item
             status == IF x \notin LiveItems THEN item[x].status
                       ELSE IF scheduling[r].done THEN "DONE" ELSE "TODO"
             row == [item[x] EXCEPT !.status = status]
  <1>1. /\ scheduling[r] \in InterviewHandler /\ scheduling[r].op = "TICK"
        /\ item' = [item EXCEPT ![x] = row]
        /\ Continues(r, Idle) /\ UNCHANGED <<interview, scheduled, planned, prep>>
    BY InterviewTables DEF TickItem, In
  <1>2. x \in CalendarItems /\ item[x] # Null
    BY <1>1, InterviewTables, HandlersOfInterviews DEF Expects
  <1>3. item[x] \in ItemRow
    BY <1>2, InterviewTables
  <1>4. status \in {"TODO", "DONE", "CANCELLED"}
    BY <1>3 DEF ItemRow
  <1> HIDE DEF status
  <1>5. row \in ItemRow /\ row.owner = item[x].owner /\ row.key = item[x].key
        /\ row.deleted = item[x].deleted
    BY <1>3, <1>4 DEF ItemRow
  <1>6. row # Null
    BY <1>5, InterviewRowAssumption
  <1> HIDE DEF row
  <1>7. /\ item' \in [CalendarItems -> ItemRow \cup {Null}]
        /\ \A y \in CalendarItems : item'[y] = IF y = x THEN row ELSE item[y]
    BY <1>1, <1>5, InterviewTables
  <1>8. Alive(item', x) => Alive(item, x)
    BY <1>2, <1>5, <1>7 DEF Alive
  <1>9. Checklist(prep, item', planned) /\ OneItem(item')
    <2> DEFINE after == item'
    <2>1. /\ after[x] # Null /\ after[x].owner = item[x].owner /\ after[x].key = item[x].key
          /\ Alive(after, x) => Alive(item, x)
          /\ \A y \in CalendarItems : y # x => after[y] = item[y]
      BY <1>2, <1>5, <1>6, <1>7, <1>8
    <2> HIDE DEF after, x
    <2>2. Checklist(prep, after, planned) /\ OneItem(after)
      BY <1>2, <2>1, InterviewTables, ItemKept
    <2>3. QED
      BY <2>2 DEF after
  <1>10. interview' = interview /\ scheduled' = scheduled /\ planned' = planned /\ prep' = prep
    BY <1>1
  <1>11. \A y \in CalendarItems : item[y] # Null => item'[y] # Null
    BY <1>6, <1>7
  <1>12. Idle \in InterviewHandler /\ Expects(Idle, interview', item')
    BY IdleInterview
  <1>13. RowsStay
    BY <1>2, <1>6, <1>7, <1>10 DEF RowsStay
  <1>14. QED
    BY <1>1, <1>7, <1>9, <1>10, <1>11, <1>12, <1>13, InterviewTables, ArrangingRowStep

(* A task is ticked off before its calendar item is.                        *)
LEMMA ArrangingComplete ==
  ASSUME Arranging, NEW r \in Requests, NEW i \in Interviews, NEW k \in PrepKeys,
         NEW done \in BOOLEAN, CompletePrep(r, i, k, done)
  PROVE  Arranging' /\ RowsStay
  <1> DEFINE p == <<i, k>>
             x == prep[p].item
             h == [op |-> "TICK", item |-> x, done |-> done]
             row == [[prep[p] EXCEPT !.done = done] EXCEPT !.version = prep[p].version + 1]
  <1>1. /\ i \in planned /\ prep[p].version < MaxPrepVersion
        /\ Continues(r, h) /\ UNCHANGED <<interview, item, scheduled, planned>>
    BY DEF CompletePrep
  <1>2. p \in Interviews \X PrepKeys /\ prep[p] # Null
    BY <1>1, InterviewTables DEF Checklist
  <1>3. prep[p] \in PrepRow
    BY <1>2, InterviewTables
  <1>4. prep' = [prep EXCEPT ![p] = row]
    <2>1. prep' = [[prep EXCEPT ![p].done = done]
                    EXCEPT ![p].version = [prep EXCEPT ![p].done = done][p].version + 1]
      BY DEF CompletePrep
    <2>2. prep \in [Interviews \X PrepKeys -> PrepRow \cup {Null}]
      BY InterviewTables
    <2>3. [prep EXCEPT ![p].done = done][p].version = prep[p].version
      BY <1>2, <1>3, <2>2 DEF PrepRow
    <2>4. QED
      BY <1>2, <1>3, <2>1, <2>2, <2>3
  <1>5. row \in PrepRow /\ row.item = prep[p].item
    <2> DEFINE before == prep[p]
    <2>1. before \in PrepRow /\ before.version < MaxPrepVersion
      BY <1>1, <1>3
    <2> HIDE DEF before
    <2>2. before.version + 1 \in 1..MaxPrepVersion
      BY <2>1, InterviewAssumption DEF PrepRow
    <2>3. \A v \in 1..MaxPrepVersion :
            [[before EXCEPT !.done = done] EXCEPT !.version = v] \in PrepRow
      BY <2>1 DEF PrepRow
    <2>4. [[before EXCEPT !.done = done] EXCEPT !.version = before.version + 1].item = before.item
      BY <2>1 DEF PrepRow
    <2>5. QED
      BY <2>2, <2>3, <2>4 DEF before
  <1>6. row # Null
    BY <1>5, InterviewRowAssumption
  <1>7. x \in CalendarItems /\ item[x] # Null
    BY <1>2, <1>3, InterviewTables DEF Checklist, PrepRow
  <1>8. h \in InterviewHandler /\ h.op = "TICK" /\ h.item = x
    BY <1>7 DEF InterviewHandler
  <1> HIDE DEF p, row, h
  <1>9. /\ prep' \in [Interviews \X PrepKeys -> PrepRow \cup {Null}]
        /\ \A q \in Interviews \X PrepKeys : prep'[q] = IF q = p THEN row ELSE prep[q]
    BY <1>2, <1>4, <1>5, InterviewTables
  <1>10. /\ \A q \in Interviews \X PrepKeys :
             /\ prep'[q] # Null <=> prep[q] # Null
             /\ prep[q] # Null => prep'[q].item = prep[q].item
    BY <1>2, <1>5, <1>6, <1>9
  <1>11. Checklist(prep', item, planned)
    <2>1. ASSUME NEW j \in Interviews, NEW l \in PrepKeys, prep'[<<j, l>>] # Null
          PROVE  LET y == prep'[<<j, l>>].item IN
                   item[y] # Null /\ item[y].owner = j /\ item[y].key = l
      BY <1>10, <2>1, InterviewTables DEF Checklist
    <2>2. ASSUME NEW y \in CalendarItems, item[y] # Null, item[y].key # Null
          PROVE  LET q == <<item[y].owner, item[y].key>> IN prep'[q] # Null /\ prep'[q].item = y
      <3>1. item[y] \in ItemRow
        BY <2>2, InterviewTables
      <3>2. <<item[y].owner, item[y].key>> \in Interviews \X PrepKeys
        BY <2>2, <3>1 DEF ItemRow
      <3>3. QED
        BY <1>10, <2>2, <3>2, InterviewTables DEF Checklist
    <2>3. \A j \in planned, l \in PrepKeys : prep'[<<j, l>>] # Null
      BY <1>10, InterviewTables, ZenonT(40) DEF Checklist
    <2>4. QED
      BY <2>1, <2>2, <2>3 DEF Checklist
  <1>12. interview' = interview /\ item' = item /\ scheduled' = scheduled /\ planned' = planned
    BY <1>1
  <1>13. Expects(h, interview, item)
    BY <1>7, <1>8 DEF Expects, PrepOps
  <1>14. RowsStay
    BY <1>10, <1>12 DEF RowsStay
  <1>15. QED
    BY <1>1, <1>8, <1>9, <1>11, <1>12, <1>13, <1>14, InterviewTables, ArrangingRowStep

(* The checklist takes a free id for each task that has no item: two tasks  *)
(* never take the same one.                                                 *)
LEMMA ArrangingItems ==
  ASSUME Arranging, NEW r \in Requests, PrepItems(r)
  PROVE  Arranging'
  <1> DEFINE i == scheduling[r].for
             N == NewKeys(i)
             Free == {x \in CalendarItems : item[x] = Null}
             T(x) == [item |-> x, done |-> FALSE, version |-> 1]
             I(k) == [owner |-> i, key |-> k, status |-> "TODO", deleted |-> FALSE]
  <1>1. /\ scheduling[r] \in InterviewHandler /\ scheduling[r].op = "PREP_ITEMS"
        /\ Continues(r, Idle) /\ UNCHANGED <<interview, scheduled>>
    BY InterviewTables DEF PrepItems, In
  <1>2. i \in Interviews
    BY <1>1, HandlersOfInterviews DEF PrepOps
  <1>3. PICK task \in [N -> Free] :
          /\ \A k, l \in N : task[k] = task[l] => k = l
          /\ prep' = [p \in Interviews \X PrepKeys |->
               IF p[1] = i /\ p[2] \in N THEN T(task[p[2]]) ELSE prep[p]]
          /\ item' = [x \in CalendarItems |->
               IF \E k \in N : task[k] = x THEN I(CHOOSE k \in N : task[k] = x) ELSE item[x]]
          /\ planned' = planned \cup {i}
    BY DEF PrepItems
  <1>4. \A k \in PrepKeys : k \in N <=> prep[<<i, k>>] = Null
    BY DEF NewKeys
  <1>5. N \subseteq PrepKeys
    BY DEF NewKeys
  <1>6. \A x \in CalendarItems : T(x) \in PrepRow /\ T(x).item = x /\ T(x) # Null
    <2>1. ASSUME NEW x \in CalendarItems PROVE T(x) \in PrepRow /\ T(x).item = x
      BY InterviewAssumption DEF PrepRow
    <2>2. QED
      BY <2>1, InterviewRowAssumption
  <1>7. \A k \in PrepKeys : /\ I(k) \in ItemRow /\ I(k).owner = i /\ I(k).key = k
                            /\ I(k) # Null /\ k # Null
    <2>1. ASSUME NEW k \in PrepKeys PROVE I(k) \in ItemRow /\ I(k).owner = i /\ I(k).key = k
      BY <1>2 DEF ItemRow
    <2>2. QED
      BY <2>1, InterviewRowAssumption, InterviewAssumption
  <1> HIDE DEF T, I, N, i
  <1>8. \A k \in N : task[k] \in CalendarItems /\ item[task[k]] = Null
    BY <1>3
  <1> HIDE DEF Free
  <1>9. \A k \in N : (CHOOSE l \in N : task[l] = task[k]) = k
    <2>1. ASSUME NEW k \in N PROVE (CHOOSE l \in N : task[l] = task[k]) = k
      <3>1. \E l \in N : task[l] = task[k]
        OBVIOUS
      <3>2. /\ (CHOOSE l \in N : task[l] = task[k]) \in N
            /\ task[CHOOSE l \in N : task[l] = task[k]] = task[k]
        BY <3>1
      <3>3. QED
        BY <1>3, <3>2
    <2>2. QED
      BY <2>1
  <1>10. \A k \in N : item'[task[k]] = I(k)
    <2>1. ASSUME NEW k \in N PROVE item'[task[k]] = I(k)
      <3>1. item'[task[k]] = I(CHOOSE l \in N : task[l] = task[k])
        BY <1>3, <1>8
      <3>2. QED
        BY <1>9, <3>1
    <2>2. QED
      BY <2>1
  <1>11. \A x \in CalendarItems : (\A k \in N : task[k] # x) => item'[x] = item[x]
    BY <1>3
  <1>12. \A x \in CalendarItems : item[x] # Null => item'[x] = item[x]
    BY <1>8, <1>11
  <1>13. item' \in [CalendarItems -> ItemRow \cup {Null}]
    <2>1. DOMAIN item' = CalendarItems /\ item' = [x \in CalendarItems |-> item'[x]]
      BY <1>3
    <2>2. ASSUME NEW x \in CalendarItems PROVE item'[x] \in ItemRow \cup {Null}
      BY <1>5, <1>7, <1>10, <1>11, InterviewTables
    <2>3. QED
      BY <2>1, <2>2
  <1>14. \A k \in N : prep'[<<i, k>>] = T(task[k])
    BY <1>2, <1>3, <1>5
  <1>15. \A j \in Interviews, k \in PrepKeys : ~(j = i /\ k \in N) => prep'[<<j, k>>] = prep[<<j, k>>]
    BY <1>3
  <1>16. prep' \in [Interviews \X PrepKeys -> PrepRow \cup {Null}]
    <2>1. prep' = [p \in Interviews \X PrepKeys |-> prep'[p]]
      BY <1>3
    <2>2. ASSUME NEW j \in Interviews, NEW k \in PrepKeys PROVE prep'[<<j, k>>] \in PrepRow \cup {Null}
      BY <1>6, <1>8, <1>14, <1>15, InterviewTables
    <2>3. \A p \in Interviews \X PrepKeys : prep'[p] \in PrepRow \cup {Null}
      BY <2>2
    <2>4. QED
      BY <2>1, <2>3
  <1>17. ASSUME NEW j \in Interviews, NEW k \in PrepKeys, prep'[<<j, k>>] # Null
         PROVE  LET y == prep'[<<j, k>>].item IN
                  item'[y] # Null /\ item'[y].owner = j /\ item'[y].key = k
    <2>1. CASE j = i /\ k \in N
      BY <1>5, <1>6, <1>7, <1>8, <1>10, <1>14, <2>1
    <2>2. CASE ~(j = i /\ k \in N)
      <3>1. prep'[<<j, k>>] = prep[<<j, k>>] /\ prep[<<j, k>>] # Null
        BY <1>15, <1>17, <2>2
      <3>2. prep[<<j, k>>] \in PrepRow
        BY <3>1, InterviewTables
      <3>3. prep[<<j, k>>].item \in CalendarItems
        BY <3>2 DEF PrepRow
      <3>4. QED
        BY <1>12, <3>1, <3>3, InterviewTables DEF Checklist
    <2>3. QED
      BY <2>1, <2>2
  <1>18. ASSUME NEW y \in CalendarItems, item'[y] # Null, item'[y].key # Null
         PROVE  LET p == <<item'[y].owner, item'[y].key>> IN prep'[p] # Null /\ prep'[p].item = y
    <2>1. ASSUME NEW k \in N, task[k] = y
          PROVE  LET p == <<item'[y].owner, item'[y].key>> IN prep'[p] # Null /\ prep'[p].item = y
      BY <1>5, <1>6, <1>7, <1>8, <1>10, <1>14, <2>1
    <2>2. CASE \A k \in N : task[k] # y
      <3>1. item'[y] = item[y]
        BY <1>11, <2>2
      <3>2. item[y] \in ItemRow
        BY <1>18, <3>1, InterviewTables
      <3>3. item[y].owner \in Interviews /\ item[y].key \in PrepKeys
        BY <1>18, <3>1, <3>2 DEF ItemRow
      <3>4. prep[<<item[y].owner, item[y].key>>] # Null /\ prep[<<item[y].owner, item[y].key>>].item = y
        BY <1>18, <3>1, InterviewTables DEF Checklist
      <3>5. ~(item[y].owner = i /\ item[y].key \in N)
        BY <1>4, <3>3, <3>4
      <3>6. QED
        BY <1>15, <3>1, <3>3, <3>4, <3>5
    <2>3. QED
      BY <2>1, <2>2
  <1>19. \A j \in planned', k \in PrepKeys : prep'[<<j, k>>] # Null
    <2>1. ASSUME NEW j \in planned', NEW k \in PrepKeys PROVE prep'[<<j, k>>] # Null
      <3>1. j \in planned \/ j = i
        BY <1>3
      <3>2. CASE j = i /\ k \in N
        BY <1>6, <1>8, <1>14, <3>2
      <3>3. CASE ~(j = i /\ k \in N)
        BY <1>2, <1>4, <1>15, <3>1, <3>3, InterviewTables DEF Checklist
      <3>4. QED
        BY <3>2, <3>3
    <2>2. QED
      BY <2>1
  <1>20. Checklist(prep', item', planned')
    BY <1>17, <1>18, <1>19 DEF Checklist
  <1>21. OneItem(item')
    <2>1. \A x \in CalendarItems : item'[x].key = Null => item'[x] = item[x]
      BY <1>5, <1>7, <1>10, <1>11
    <2>2. QED
      BY <2>1, InterviewTables DEF OneItem, Alive
  <1>22. /\ interview' = interview /\ scheduled' = scheduled
         /\ planned' \subseteq Interviews
         /\ \A x \in CalendarItems : item[x] # Null => item'[x] # Null
    BY <1>1, <1>2, <1>3, <1>12, InterviewTables
  <1>23. Idle \in InterviewHandler /\ Expects(Idle, interview', item')
    BY IdleInterview
  <1>24. QED
    BY <1>1, <1>13, <1>16, <1>20, <1>21, <1>22, <1>23, InterviewTables, ArrangingRowStep

LEMMA ArrangingNext == Arranging /\ [INext]_ivars => Arranging'
  <1> SUFFICES ASSUME Arranging, [INext]_ivars PROVE Arranging'
    OBVIOUS
  <1>1. CASE UNCHANGED ivars
    BY <1>1 DEF ivars, Arranging, InterviewTypeOK
  <1>2. CASE INext
    BY <1>2, ArrangingSchedule, ArrangingFind, ArrangingMake, ArrangingLinked, ArrangingRecord,
       ArrangingUpdate, ArrangingBegin, ArrangingPreparing, ArrangingItems, ArrangingComplete,
       ArrangingTick, ArrangingAbandon, ArrangingDelete DEF INext, PrepStep
  <1>3. QED
    BY <1>1, <1>2

LEMMA ArrangingHolds == ISpec => []Arranging
  BY ArrangingInit, ArrangingNext, PTL DEF ISpec

(* The rows of interviews, their calendar items and the checklist have      *)
(* their columns, and every handler of createInterview, updateInterview and *)
(* createInterviewPrepPlan is at a statement it has.                        *)
THEOREM InterviewTypeCorrect == ISpec => []InterviewTypeOK
  <1>1. Arranging => InterviewTypeOK
    BY DEF Arranging
  <1>2. QED
    BY <1>1, ArrangingHolds, PTL

(* However many requests create one interview and prepare it at the same    *)
(* time, and wherever each of them ends early, the interview has one live   *)
(* calendar item of its own and every task of its checklist one item        *)
(* (createInterview, createInterviewPrepPlan).                              *)
THEOREM InterviewItemsMadeOnce == ISpec => []ItemsMadeOnce
  <1>1. Arranging => ItemsMadeOnce
    <2> SUFFICES ASSUME Arranging PROVE ItemsMadeOnce
      OBVIOUS
    <2>1. \A i \in Interviews : \A x, y \in ItemsOf(i) : x = y
      BY InterviewTables DEF OneItem, Alive, ItemsOf, LiveItems
    <2>2. ASSUME NEW x \in CalendarItems, NEW y \in CalendarItems, item[x] # Null, item[y] # Null,
                 item[x].key # Null, item[x].owner = item[y].owner, item[x].key = item[y].key
          PROVE  x = y
      BY <2>2, InterviewTables DEF Checklist
    <2>3. QED
      BY <2>1, <2>2 DEF ItemsMadeOnce
  <1>2. QED
    BY <1>1, ArrangingHolds, PTL


-----------------------------------------------------------------------------
(* The pool of connections.                                                *)

(* Ids are left for the tasks that have no item yet.                        *)
FreeItems == {x \in CalendarItems : item[x] = Null}
Unmade == {p \in Interviews \X PrepKeys : prep[p] = Null}

RoomLeft == Cardinality(Unmade) <= Cardinality(FreeItems)

(* The tables the theorems about the pool are for: finitely many rows, and  *)
(* an id for every task.                                                    *)
EnoughItems ==
  /\ IsFiniteSet(CalendarItems) /\ IsFiniteSet(Interviews) /\ IsFiniteSet(PrepKeys)
  /\ Cardinality(Interviews \X PrepKeys) <= Cardinality(CalendarItems)

LEMMA RoomIsFinite ==
  ASSUME EnoughItems
  PROVE  /\ IsFiniteSet(FreeItems) /\ Cardinality(FreeItems) \in Nat
         /\ IsFiniteSet(Unmade) /\ Cardinality(Unmade) \in Nat
  <1>1. IsFiniteSet(FreeItems)
    BY FS_Subset DEF EnoughItems, FreeItems
  <1>2. IsFiniteSet(Interviews \X PrepKeys)
    BY FS_Product DEF EnoughItems
  <1>3. IsFiniteSet(Unmade)
    BY <1>2, FS_Subset DEF Unmade
  <1>4. QED
    BY <1>1, <1>3, FS_CardinalityType

LEMMA RoomAtFirst ==
  ASSUME EnoughItems, IInit
  PROVE  RoomLeft
  <1>1. FreeItems = CalendarItems /\ Unmade = Interviews \X PrepKeys
    BY DEF IInit, FreeItems, Unmade
  <1>2. QED
    BY <1>1 DEF EnoughItems, RoomLeft

(* The checklist uses one id for each task it makes.                        *)
LEMMA RoomAfterItems ==
  ASSUME EnoughItems, Arranging, RoomLeft, NEW r \in Requests, PrepItems(r)
  PROVE  RoomLeft'
  <1> DEFINE i == scheduling[r].for
             N == NewKeys(i)
             A == {p \in Interviews \X PrepKeys : p[1] = i /\ p[2] \in N}
  <1>1. PICK task \in [N -> FreeItems] :
          /\ prep' = [p \in Interviews \X PrepKeys |->
               IF p[1] = i /\ p[2] \in N
               THEN [item |-> task[p[2]], done |-> FALSE, version |-> 1] ELSE prep[p]]
          /\ item' = [x \in CalendarItems |->
               IF \E k \in N : task[k] = x
               THEN [owner |-> i, key |-> CHOOSE k \in N : task[k] = x,
                     status |-> "TODO", deleted |-> FALSE]
               ELSE item[x]]
    BY DEF PrepItems, FreeItems
  <1> DEFINE B == {x \in FreeItems : \E k \in N : task[k] = x}
  <1>2. i \in Interviews
    BY HandlersOfInterviews DEF PrepItems, In, PrepOps, Arranging, InterviewTypeOK
  <1>3. N \subseteq PrepKeys /\ A \subseteq Unmade
    BY <1>2 DEF NewKeys, Unmade
  <1>4. FreeItems \ B \subseteq FreeItems'
    BY <1>1 DEF FreeItems
  <1>5. Unmade' \subseteq Unmade \ A
    <2>1. Arranging'
      BY ArrangingItems
    <2>2. \A p \in A : prep'[p] \in PrepRow \cup {Null} /\ prep'[p] = [item |-> task[p[2]], done |-> FALSE, version |-> 1]
      BY <1>1, <2>1 DEF Arranging, InterviewTypeOK
    <2>3. \A p \in A : prep'[p] # Null
      <3>1. \A x \in CalendarItems : [item |-> x, done |-> FALSE, version |-> 1] \in PrepRow
        BY InterviewAssumption DEF PrepRow
      <3>2. \A p \in A : task[p[2]] \in CalendarItems
        BY DEF FreeItems
      <3>3. QED
        BY <2>2, <3>1, <3>2, InterviewRowAssumption
    <2>4. \A p \in (Interviews \X PrepKeys) \ A : prep'[p] = prep[p]
      BY <1>1
    <2> HIDE DEF A
    <2>5. QED
      BY <2>3, <2>4 DEF Unmade
  <1>6. \E g \in Surjection(A, B) : TRUE
    <2> DEFINE g == [p \in A |-> task[p[2]]]
    <2>1. g \in [A -> B]
      OBVIOUS
    <2>2. ASSUME NEW x \in B PROVE \E p \in A : g[p] = x
      <3>1. PICK k \in N : task[k] = x
        OBVIOUS
      <3>2. <<i, k>> \in A
        BY <1>2, <1>3
      <3>3. QED
        BY <3>1, <3>2
    <2> HIDE DEF g, A, B
    <2>3. g \in Surjection(A, B)
      BY <2>1, <2>2 DEF Surjection
    <2>4. QED
      BY <2>3
  <1> DEFINE F == FreeItems
             U == Unmade
             F2 == FreeItems'
             U2 == Unmade'
  <1>7. IsFiniteSet(F) /\ IsFiniteSet(U) /\ Cardinality(F) \in Nat /\ Cardinality(U) \in Nat
    BY RoomIsFinite
  <1>8. IsFiniteSet(F2) /\ Cardinality(F2) \in Nat /\ IsFiniteSet(U2) /\ Cardinality(U2) \in Nat
    <2>1. EnoughItems'
      BY DEF EnoughItems
    <2>2. F2 \subseteq CalendarItems /\ U2 \subseteq Interviews \X PrepKeys
      BY DEF FreeItems, Unmade
    <2>3. IsFiniteSet(CalendarItems) /\ IsFiniteSet(Interviews \X PrepKeys)
      BY FS_Product DEF EnoughItems
    <2> HIDE DEF F2, U2
    <2>4. QED
      BY <2>2, <2>3, FS_Subset, FS_CardinalityType
  <1>9. B \subseteq F
    OBVIOUS
  <1>10. Cardinality(U) <= Cardinality(F)
    BY DEF RoomLeft
  <1> HIDE DEF A, B, F, U, F2, U2
  <1>11. IsFiniteSet(A) /\ IsFiniteSet(B) /\ Cardinality(B) <= Cardinality(A)
         /\ Cardinality(A) \in Nat /\ Cardinality(B) \in Nat
    <2>1. IsFiniteSet(A)
      BY <1>3, <1>7, FS_Subset DEF U
    <2>2. QED
      BY <1>6, <2>1, FS_Surjection, FS_CardinalityType
  <1>12. Cardinality(F \ B) = Cardinality(F) - Cardinality(B)
    <2>1. F \cap B = B
      BY <1>9
    <2>2. QED
      BY <1>7, <2>1, FS_Difference
  <1>13. Cardinality(U \ A) = Cardinality(U) - Cardinality(A)
    <2>1. U \cap A = A
      BY <1>3 DEF U
    <2>2. QED
      BY <1>7, <2>1, FS_Difference
  <1>14. Cardinality(F \ B) <= Cardinality(F2) /\ Cardinality(U2) <= Cardinality(U \ A)
    <2>1. IsFiniteSet(U \ A)
      BY <1>7, FS_Difference
    <2>2. F \ B \subseteq F2 /\ U2 \subseteq U \ A
      BY <1>4, <1>5 DEF F, U, F2, U2
    <2>3. QED
      BY <1>8, <2>1, <2>2, FS_Subset
  <1>15. Cardinality(U2) <= Cardinality(F2)
    BY <1>7, <1>8, <1>10, <1>11, <1>12, <1>13, <1>14
  <1>16. QED
    BY <1>15 DEF RoomLeft, U2, F2

(* An item is made while one more id is left than tasks need.               *)
LEMMA RoomAfterMake ==
  ASSUME EnoughItems, Arranging, RoomLeft, NEW r \in Requests, NEW x \in CalendarItems,
         MakeItem(r, x)
  PROVE  RoomLeft'
  <1>1. Unmade' = Unmade
    BY DEF MakeItem, Unmade
  <1>2. CASE item' = item
    BY <1>1, <1>2 DEF RoomLeft, FreeItems
  <1>3. CASE /\ x \in FreeItems /\ Cardinality(FreeItems) > Cardinality(Unmade)
             /\ \A y \in CalendarItems : y # x => item'[y] = item[y]
    <2>1. FreeItems \ {x} \subseteq FreeItems'
      BY <1>3 DEF FreeItems
    <2>2. Cardinality(FreeItems \ {x}) = Cardinality(FreeItems) - 1
      BY <1>3, RoomIsFinite, FS_RemoveElement
    <2>3. /\ IsFiniteSet(FreeItems') /\ Cardinality(FreeItems') \in Nat
          /\ Cardinality(FreeItems \ {x}) <= Cardinality(FreeItems')
      <3> DEFINE after == FreeItems'
      <3>1. IsFiniteSet(CalendarItems) /\ after \subseteq CalendarItems
        BY DEF EnoughItems, FreeItems
      <3> HIDE DEF after
      <3>2. IsFiniteSet(after) /\ Cardinality(after) \in Nat
        BY <3>1, FS_Subset, FS_CardinalityType
      <3>3. FreeItems \ {x} \subseteq after
        BY <2>1 DEF after
      <3>4. QED
        BY <3>2, <3>3, FS_Subset DEF after
    <2>4. Cardinality(Unmade) <= Cardinality(FreeItems')
      BY <1>3, <2>2, <2>3, RoomIsFinite
    <2>5. QED
      BY <1>1, <2>4 DEF RoomLeft
  <1>4. \/ item' = item
        \/ /\ x \in FreeItems /\ RoomForTasks
           /\ \A y \in CalendarItems : y # x => item'[y] = item[y]
    BY InterviewTables DEF MakeItem, FreeItems
  <1>5. RoomForTasks => Cardinality(FreeItems) > Cardinality(Unmade)
    BY DEF RoomForTasks, FreeItems, Unmade
  <1>6. QED
    BY <1>2, <1>3, <1>4, <1>5

LEMMA RoomNext == EnoughItems /\ Arranging /\ RoomLeft /\ [INext]_ivars => RoomLeft'
  <1> SUFFICES ASSUME EnoughItems, Arranging, RoomLeft, [INext]_ivars PROVE RoomLeft'
    OBVIOUS
  <1>1. CASE RowsStay
    <2>1. FreeItems' = FreeItems /\ Unmade' = Unmade
      BY <1>1 DEF RowsStay, FreeItems, Unmade
    <2>2. QED
      BY <2>1 DEF RoomLeft
  <1>2. CASE UNCHANGED <<item, prep>>
    BY <1>1, <1>2 DEF RowsStay
  <1>3. CASE UNCHANGED ivars
    BY <1>2, <1>3 DEF ivars
  <1>4. CASE INext
    <2>1. ASSUME NEW r \in Requests, NEW i \in Interviews,
                 \/ Schedule(r, i) \/ PrepBegin(r, i)
                 \/ \E status \in {"SCHEDULED", "COMPLETED", "CANCELLED"} :
                      UpdateInterview(r, i, status)
          PROVE  UNCHANGED <<item, prep>>
      BY <2>1 DEF Schedule, PrepBegin, UpdateInterview
    <2>2. ASSUME NEW r \in Requests,
                 \/ FindItem(r) \/ LinkItem(r) \/ RecordScheduled(r) \/ AbandonInterview(r)
                 \/ PrepContext(r) \/ PrepPlan(r) \/ PrepRequirements(r)
          PROVE  UNCHANGED <<item, prep>>
      BY <2>2 DEF FindItem, LinkItem, RecordScheduled, AbandonInterview, PrepContext, PrepPlan,
                  PrepRequirements
    <2>3. QED
      BY <1>1, <1>2, <1>4, <2>1, <2>2, RoomAfterMake, RoomAfterItems, ArrangingComplete,
         ArrangingTick, ArrangingDelete DEF INext, PrepStep
  <1>5. QED
    BY <1>3, <1>4

LEMMA RoomHolds == ASSUME EnoughItems PROVE ISpec => [](Arranging /\ RoomLeft)
  <1>1. IInit => Arranging /\ RoomLeft
    BY ArrangingInit, RoomAtFirst
  <1>2. Arranging /\ RoomLeft /\ [INext]_ivars => (Arranging /\ RoomLeft)'
    BY ArrangingNext, RoomNext
  <1>3. QED
    BY <1>1, <1>2, PTL DEF ISpec

(* What the statement a preparing request is at waits for: a connection     *)
(* for the reads, the row of the plan for its upsert, ids for its tasks.    *)
TasksFit(i) ==
  \E task \in [NewKeys(i) -> FreeItems] : \A k, l \in NewKeys(i) : task[k] = task[l] => k = l

GoesOn(r) ==
  /\ scheduling[r].op \in {"PREP_READ", "PREP_REQUIREMENTS"} => FreeConnection
  /\ In(r, "PREP_PLAN") => ~ PlanLocked(scheduling[r].for)
  /\ In(r, "PREP_ITEMS") => TasksFit(scheduling[r].for)

WaitsFor(r, holder) ==
  /\ In(r, "PREP_PLAN")
  /\ scheduling[holder].op \in {"PREP_REQUIREMENTS", "PREP_ITEMS"}
  /\ scheduling[holder].for = scheduling[r].for

(* A request that prepares takes a step only when it goes on.               *)
LEMMA StepsGoOn ==
  ASSUME NEW r \in Requests, PrepStep(r)
  PROVE  r \in Preparing /\ GoesOn(r)
  <1>1. CASE PrepContext(r) \/ PrepPlan(r) \/ PrepRequirements(r)
    BY <1>1 DEF PrepContext, PrepPlan, PrepRequirements, In, GoesOn, Preparing, PrepOps
  <1>2. CASE PrepItems(r)
    BY <1>2 DEF PrepItems, In, GoesOn, Preparing, PrepOps, TasksFit, FreeItems
  <1>3. QED
    BY <1>1, <1>2 DEF PrepStep

LEMMA TasksAlwaysFit ==
  ASSUME EnoughItems, RoomLeft, NEW i \in Interviews
  PROVE  TasksFit(i)
  <1> DEFINE N == NewKeys(i)
             f == [k \in N |-> <<i, k>>]
  <1>1. f \in Injection(N, Unmade)
    <2>1. \A k \in N : <<i, k>> \in Unmade
      BY DEF NewKeys, Unmade
    <2>2. \A k, l \in N : f[k] = f[l] => k = l
      OBVIOUS
    <2>3. f \in [N -> Unmade]
      BY <2>1
    <2> HIDE DEF f, N
    <2>4. QED
      BY <2>2, <2>3 DEF Injection, IsInjective
  <1> HIDE DEF f, N
  <1>2. IsFiniteSet(N) /\ Cardinality(N) <= Cardinality(Unmade)
    BY <1>1, RoomIsFinite, FS_Injection
  <1>3. Cardinality(N) <= Cardinality(FreeItems)
    BY <1>2, RoomIsFinite, FS_CardinalityType DEF RoomLeft
  <1>4. \E task \in [N -> FreeItems] : \A k, l \in N : task[k] = task[l] => k = l
    BY <1>2, <1>3, RoomIsFinite, InjectionExists
  <1>5. QED
    BY <1>4 DEF TasksFit, N

(* While a connection of the pool is free, every request that prepares an   *)
(* interview can take its next step, or waits for the plan of one that can: *)
(* connections, row locks and rows never wait for each other in a circle    *)
(* (createInterviewPrepPlan).                                               *)
PreparingMoves ==
  FreeConnection =>
    \A r \in Preparing :
      GoesOn(r) \/ \E holder \in Preparing : WaitsFor(r, holder) /\ GoesOn(holder)

THEOREM PreparingNeverStuck ==
  ASSUME EnoughItems
  PROVE  ISpec => []PreparingMoves
  <1>1. ASSUME Arranging, RoomLeft, FreeConnection, NEW r \in Preparing, ~ In(r, "PREP_PLAN")
        PROVE  GoesOn(r)
    <2>1. CASE In(r, "PREP_ITEMS")
      <3>1. scheduling[r].for \in Interviews
        BY <1>1, <2>1, HandlersOfInterviews, InterviewTables DEF Preparing, In, PrepOps
      <3>2. QED
        BY <1>1, <2>1, <3>1, TasksAlwaysFit DEF GoesOn, In
    <2>2. CASE ~ In(r, "PREP_ITEMS")
      BY <1>1, <2>2 DEF GoesOn
    <2>3. QED
      BY <2>1, <2>2
  <1>2. ASSUME Arranging, RoomLeft, FreeConnection, NEW r \in Preparing, In(r, "PREP_PLAN")
        PROVE  GoesOn(r) \/ \E holder \in Preparing : WaitsFor(r, holder) /\ GoesOn(holder)
    <2>1. CASE ~ PlanLocked(scheduling[r].for)
      BY <1>2, <2>1 DEF GoesOn, In
    <2>2. CASE PlanLocked(scheduling[r].for)
      <3>1. PICK holder \in Requests :
              /\ scheduling[holder].op \in {"PREP_REQUIREMENTS", "PREP_ITEMS"}
              /\ scheduling[holder].for = scheduling[r].for
        BY <2>2 DEF PlanLocked
      <3>2. holder \in Preparing /\ WaitsFor(r, holder) /\ ~ In(holder, "PREP_PLAN")
        BY <1>2, <3>1 DEF Preparing, PrepOps, WaitsFor, In
      <3>3. QED
        BY <1>1, <1>2, <3>2
    <2>3. QED
      BY <2>1, <2>2
  <1>3. Arranging /\ RoomLeft => PreparingMoves
    BY <1>1, <1>2 DEF PreparingMoves
  <1>4. QED
    BY <1>3, RoomHolds, PTL

(* With fewer requests than the pool has connections there is always a free *)
(* one, so that preparing never comes to a halt: what a fair scheduler then *)
(* completes is PreparingEnds.                                              *)
THEOREM PreparingNeverHalts ==
  ASSUME EnoughItems, IsFiniteSet(Requests), Cardinality(Requests) < PoolSize
  PROVE  ISpec => [](FreeConnection /\ PreparingMoves)
  <1>1. FreeConnection
    <2>1. Preparing \subseteq Requests
      BY DEF Preparing
    <2>2. Cardinality(Preparing) <= Cardinality(Requests)
      BY <2>1, FS_Subset
    <2>3. Cardinality(Preparing) \in Nat /\ Cardinality(Requests) \in Nat /\ PoolSize \in Nat
      BY <2>1, FS_Subset, FS_CardinalityType, InterviewAssumption
    <2>4. QED
      BY <2>2, <2>3 DEF FreeConnection
  <1>2. QED
    BY <1>1, PreparingNeverStuck, PTL

-----------------------------------------------------------------------------
(* The collection and the interviews beside each other, as                  *)
(* MCCollectionAndInterviews runs them.                                     *)

(* A step of the run is for each component a step of its own or none.       *)
LEMMA BothMove ==
  ASSUME [BothNext]_<<focus, cvars, ivars>>
  PROVE  [CNext]_cvars /\ [INext]_ivars
  BY DEF BothNext

(* The run is a behaviour of the collection and of the interviews.          *)
THEOREM BothAreComponents == BothSpec => CSpec /\ ISpec
  <1>1. BothInit => CInit /\ IInit
    BY DEF BothInit
  <1>2. QED
    BY <1>1, BothMove, PTL DEF BothSpec, CSpec, ISpec

(* The tables of the collection and of the interviews hold what their       *)
(* columns may hold, whatever leases run out and whichever requests end     *)
(* early.                                                                   *)
THEOREM BothTypeCorrect == BothSpec => []BothTypeOK
  BY BothAreComponents, CollectionTypeCorrect, InterviewTypeCorrect, PTL DEF BothTypeOK
=============================================================================
