---------------------------- MODULE AtsCollection ----------------------------
(***************************************************************************)
(* ATS collection on top of the work ledger: worker processes              *)
(* (orchestration/runner.py, dispatcher.py) execute the attempts they      *)
(* claimed, and the ATS handler (handlers.py, pipeline/runner.py,          *)
(* infrastructure/postgres.py) opens a collector run, fetches the board of *)
(* its source over HTTP and persists the batch.                            *)
(*                                                                         *)
(* Every action is one database transaction, one HTTP exchange or the end  *)
(* of a process; between two of them everything else may move.  A worker   *)
(* keeps no state but its running coroutines, so a crash is their end and  *)
(* a restart needs no action.  Requeueing and cancelling, which no         *)
(* worker takes part in, are left to WorkLedger.                           *)
(*                                                                         *)
(* A board is the number of times its provider changed it, so a batch is   *)
(* the version it was fetched at.  The work item and attempt number of an  *)
(* execution stand for work_attempt_id, which collector_runs carries       *)
(* uniquely.                                                               *)
(***************************************************************************)
EXTENDS WorkLedger

CONSTANT MaxBoard  \* bound on the changes of a board

ASSUME BoardAssumption == MaxBoard \in Nat

VARIABLES
  handler,  \* the coroutine executing an attempt
  runs,     \* status of the collector_runs row of an attempt
  board,    \* the version of a source's board its provider shows
  stored    \* the version of a source's board last persisted

cvars == <<work, attempt, letters, request, serving, executable, handler, runs, board, stored>>

ledgerRest == <<attempt, letters, request, serving, executable>>

Steps == {"idle", "start", "policy", "open", "collect", "persist", "resolve", "fail", "finish"}

Handler == [step    : Steps,
            seen    : 0..MaxBoard,               \* the batch, while it is persisted
            outcome : Outcomes \cup {"NONE"}]    \* the outcome, once it is to be reported

RunStatus == {"NONE", "RUNNING", "SUCCEEDED", "FAILED"}

CollectionTypeOK ==
  /\ TypeOK
  /\ handler \in [Items -> [Attempts -> Handler]]
  /\ runs \in [Items -> [Attempts -> RunStatus]]
  /\ board \in [Targets -> 0..MaxBoard]
  /\ stored \in [Targets -> 0..MaxBoard]

At(step) == [step |-> step, seen |-> 0, outcome |-> "NONE"]
Reporting(outcome) == [step |-> "finish", seen |-> 0, outcome |-> outcome]

CInit ==
  /\ Init
  /\ handler = [i \in Items |-> [n \in Attempts |-> At("idle")]]
  /\ runs = [i \in Items |-> [n \in Attempts |-> "NONE"]]
  /\ board = [t \in Targets |-> 0]
  /\ stored = [t \in Targets |-> 0]

-----------------------------------------------------------------------------
(* The worker process *)

Executing(w, i, n) == handler[i][n].step # "idle" /\ attempt[i][n].worker = w

Vacant(w) == \A i \in Items, n \in Attempts : ~Executing(w, i, n)

\* run_worker: a batch is claimed only after every execution of the last one returned.
Take(w, S) ==
  /\ Vacant(w)
  /\ Claim(w, S)
  /\ handler' = [i \in Items |-> IF i \in S
                                 THEN [handler[i] EXCEPT ![work'[i].token] = At("start")]
                                 ELSE handler[i]]
  /\ UNCHANGED <<runs, board, stored>>

Goto(i, n, h) == handler' = [handler EXCEPT ![i][n] = h]

\* execute: start_work_attempt commits.
Begin(w, i, n) ==
  /\ Executing(w, i, n) /\ handler[i][n].step = "start"
  /\ Start(w, i, n)
  /\ Goto(i, n, At("policy"))
  /\ UNCHANGED <<runs, board, stored>>

\* execute: assert_source_policy, or an error of the call.
CheckPolicy(w, i, n) ==
  /\ Executing(w, i, n) /\ handler[i][n].step = "policy"
  /\ \/ Goto(i, n, IF Permitted(work[i].target) THEN At("open") ELSE Reporting("POLICY_BLOCKED"))
     \/ Goto(i, n, Reporting("RETRYABLE"))
  /\ UNCHANGED <<work, ledgerRest, runs, board, stored>>

\* Mutant: an error that cannot be retried is swallowed.
ReportedSwallowed(outcome) == IF outcome = "NON_RETRYABLE" THEN {"SUCCEEDED"} ELSE {outcome}

\* The outcome of an attempt that is reported: a success whose report fails for a
\* transient reason is reported as a retryable failure.
Reported(outcome) == IF outcome = "SUCCEEDED" THEN {"SUCCEEDED", "RETRYABLE"} ELSE {outcome}

\* finish_success or finish_failure is accepted.
Report(w, i, n, o, d) ==
  /\ Executing(w, i, n) /\ handler[i][n].step = "finish"
  /\ o \in Reported(handler[i][n].outcome)
  /\ Finish(w, i, n, o, d)
  /\ Goto(i, n, At("idle"))
  /\ UNCHANGED <<runs, board, stored>>

\* Every execution of w ends where it is: nothing more is written, and a transaction
\* that did not commit is rolled back.
Die(w) ==
  /\ handler' = [i \in Items |-> [n \in Attempts |->
                   IF attempt[i][n].worker = w THEN At("idle") ELSE handler[i][n]]]
  /\ UNCHANGED <<work, ledgerRest, runs, board, stored>>

\* The process is killed.
Crash(w) == ~Vacant(w) /\ Die(w)

\* start_work_attempt or finish_work_attempt raises STALE_OR_INVALID_LEASE.  execute
\* does not catch it, gather hands it on, and the process ends with the whole batch.
Rejected(w, i, n) ==
  /\ Executing(w, i, n)
  /\ \/ handler[i][n].step = "start"  /\ ~(HoldsLease(w, i, n) /\ work[i].lease > 0)
     \/ handler[i][n].step = "finish" /\ ~HoldsLease(w, i, n)
  /\ Die(w)

InHandler(i, n) == handler[i][n].step \in {"open", "collect", "persist", "resolve", "fail"}

\* _heartbeat, while the handler runs
Beat(w, i, n) ==
  /\ Executing(w, i, n) /\ InHandler(i, n)
  /\ Heartbeat(w, i, n)
  /\ UNCHANGED <<handler, runs, board, stored>>

\* _execute_handler: the heartbeat call raised, because the lease is lost or because
\* the call failed.  The handler is cancelled, which none of its except clauses sees,
\* and the error is classified as retryable.
BeatFails(w, i, n) ==
  /\ Executing(w, i, n) /\ InHandler(i, n)
  /\ Goto(i, n, Reporting("RETRYABLE"))
  /\ UNCHANGED <<work, ledgerRest, runs, board, stored>>

-----------------------------------------------------------------------------
(* The ATS handler *)

\* Mutant: no such index.
RunActiveNever(t) == FALSE

\* collector_runs_one_running_per_source_idx
RunActive(t) ==
  \E j \in Items, m \in Attempts : runs[j][m] = "RUNNING" /\ work[j].target = t

\* get_source and create_run.  A disabled source is an invalid configuration; when
\* it is the policy that was withdrawn meanwhile, nothing looks at it any more.
OpenRun(w, i, n) ==
  /\ Executing(w, i, n) /\ handler[i][n].step = "open"
  /\ \/ /\ ~Permitted(work[i].target)
        /\ Goto(i, n, Reporting("NON_RETRYABLE"))
        /\ UNCHANGED runs
     \/ /\ Goto(i, n, Reporting("RETRYABLE"))  \* RunAlreadyActiveError or a failed call
        /\ UNCHANGED runs
     \/ /\ ~RunActive(work[i].target)
        /\ Goto(i, n, At("collect"))
        /\ runs' = [runs EXCEPT ![i][n] = "RUNNING"]
  /\ UNCHANGED <<work, ledgerRest, board, stored>>

Failing(outcome) == [step |-> "fail", seen |-> 0, outcome |-> outcome]

\* collector.collect: the complete board, or an error (an incomplete one is an error).
Collect(w, i, n) ==
  /\ Executing(w, i, n) /\ handler[i][n].step = "collect"
  /\ \/ Goto(i, n, [step |-> "persist", seen |-> board[work[i].target], outcome |-> "NONE"])
     \/ \E o \in {"RETRYABLE", "NON_RETRYABLE"} : Goto(i, n, Failing(o))
  /\ UNCHANGED <<work, ledgerRest, runs, board, stored>>

\* Mutant: the run's status is not looked at.
MayPersistAny(i, n) == TRUE

\* persist_complete_batch: the run is still RUNNING.
MayPersist(i, n) == runs[i][n] = "RUNNING"

\* persist_complete_batch commits, finds the run closed, or fails.
Persist(w, i, n) ==
  /\ Executing(w, i, n) /\ handler[i][n].step = "persist"
  /\ \/ /\ MayPersist(i, n)
        /\ stored' = [stored EXCEPT ![work[i].target] = handler[i][n].seen]
        /\ runs' = [runs EXCEPT ![i][n] = "SUCCEEDED"]
        /\ Goto(i, n, At("resolve"))
     \/ /\ \/ ~MayPersist(i, n) /\ Goto(i, n, Failing("NON_RETRYABLE"))
           \/ Goto(i, n, Failing("RETRYABLE"))
        /\ UNCHANGED <<runs, stored>>
  /\ UNCHANGED <<work, ledgerRest, board>>

\* resolve_source, after the run is done
Resolve(w, i, n) ==
  /\ Executing(w, i, n) /\ handler[i][n].step = "resolve"
  /\ \E o \in {"SUCCEEDED", "RETRYABLE"} : Goto(i, n, Reporting(o))
  /\ UNCHANGED <<work, ledgerRest, runs, board, stored>>

\* CollectorRunner.run's except clause: record_error and fail_run, or an error in
\* them that is only logged.
RecordFailure(w, i, n) ==
  /\ Executing(w, i, n) /\ handler[i][n].step = "fail"
  /\ \/ runs' = [runs EXCEPT ![i][n] = IF @ = "RUNNING" THEN "FAILED" ELSE @]
     \/ UNCHANGED runs
  /\ Goto(i, n, Reporting(handler[i][n].outcome))
  /\ UNCHANGED <<work, ledgerRest, board, stored>>

-----------------------------------------------------------------------------
(* The scheduler, the provider and time *)

\* A schedule occurrence.
Occur(i, t) == EnqueueDirect(i, t, 0) /\ UNCHANGED <<handler, runs, board, stored>>

\* The runs of the attempts whose leases in S expired fail with them.
RunsReaped(S) ==
  [i \in Items |-> [n \in Attempts |->
     IF i \in S /\ n = work[i].token /\ runs[i][n] = "RUNNING" THEN "FAILED" ELSE runs[i][n]]]

\* reap_expired_work_items
ReapRuns(S) ==
  /\ Reap(S)
  /\ runs' = RunsReaped(S)
  /\ UNCHANGED <<handler, board, stored>>

Publish(t) ==
  /\ board[t] < MaxBoard
  /\ board' = [board EXCEPT ![t] = @ + 1]
  /\ UNCHANGED <<work, ledgerRest, handler, runs, stored>>

Govern(t) == SetPolicy(t) /\ UNCHANGED <<handler, runs, board, stored>>

Pass == Tick /\ UNCHANGED <<handler, runs, board, stored>>

Work(w, i, n) ==
  \/ Begin(w, i, n) \/ CheckPolicy(w, i, n)
  \/ OpenRun(w, i, n) \/ Collect(w, i, n) \/ Persist(w, i, n) \/ Resolve(w, i, n)
  \/ RecordFailure(w, i, n) \/ Rejected(w, i, n)
  \/ \E o \in Outcomes, d \in 0..MaxWait : Report(w, i, n, o, d)

CNext ==
  \/ \E i \in Items, t \in Targets : Occur(i, t)
  \/ \E w \in Workers, S \in SUBSET Items : Take(w, S)
  \/ \E w \in Workers, i \in Items, n \in Attempts :
        Work(w, i, n) \/ Beat(w, i, n) \/ BeatFails(w, i, n)
  \/ \E w \in Workers : Crash(w)
  \/ \E S \in SUBSET Items : ReapRuns(S)
  \/ \E t \in Targets : Publish(t) \/ Govern(t)
  \/ Pass

CSpec == CInit /\ [][CNext]_cvars

(* asyncio keeps running every coroutine, a process that ended is restarted, the       *)
(* scheduler loop reaps and time passes.  Nothing makes a heartbeat or a crash happen. *)
CFairness ==
  /\ WF_cvars(Pass)
  /\ WF_cvars(\E S \in SUBSET Items : ReapRuns(S))
  /\ \A w \in Workers : WF_cvars(\E S \in SUBSET Items : Take(w, S))
  /\ \A w \in Workers, i \in Items, n \in Attempts : WF_cvars(Work(w, i, n))

CFairSpec == CSpec /\ CFairness

-----------------------------------------------------------------------------
(* Properties *)

\* However workers stall, die or lose their leases, a batch never overwrites one that
\* was fetched from a later board: jobs a newer collection opened are not closed again
\* by an older one that was still in flight.
StoredNeverRegresses == [][\A t \in Targets : stored'[t] >= stored[t]]_cvars

\* An item is SUCCEEDED only when the batch of one of its own attempts was persisted.
SucceededMeansPersisted ==
  \A i \in Items :
    work[i].status = "SUCCEEDED" => \E n \in Attempts : runs[i][n] = "SUCCEEDED"

\* While an execution is about to persist a batch under a run that is still open, no
\* other one can: the window between fetching and persisting belongs to one attempt
\* per source, whatever its lease has become.
OneWriterPerSource ==
  \A i, j \in Items, m, n \in Attempts :
    /\ handler[i][n].step = "persist" /\ MayPersist(i, n)
    /\ handler[j][m].step = "persist" /\ MayPersist(j, m)
    /\ work[i].target = work[j].target
    => i = j /\ m = n

\* Stated by docs/system-design.md, step 7 of the runtime contract: "Finalize run counts
\* and status".  A run nobody executes any more is final, or its attempt is still one
\* the reaper will come to.
OrphanRunsAreReaped ==
  \A i \in Items, n \in Attempts :
    runs[i][n] = "RUNNING" /\ handler[i][n].step = "idle" => attempt[i][n].status \in OpenAttempt
=============================================================================
