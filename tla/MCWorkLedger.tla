---------------------------- MODULE MCWorkLedger ----------------------------
(* Instances of WorkLedger for TLC. *)
EXTENDS WorkLedger, TLC

CONSTANTS repo, source, calendar, sweep

\* One GitHub repository: requested, governed by a source policy, keyed.
MCKindOfRepo == repo :> "GITHUB_SYNC"

\* An ATS source without a request (its schedule forbids retries in the runs), a
\* user's calendar, which no operator may touch, and a maintenance sweep without an
\* exclusive key.
MCKindOfMixed == source :> "ATS_COLLECT" @@ calendar :> "CALENDAR_SYNC" @@ sweep :> "CONTROL"

MCServesAll == [w \in Workers |-> Targets]

\* Items and workers are interchangeable.
MCSymmetry == Permutations(Items) \cup Permutations(Workers)

\* Attempts whose lease was lost and whose handler is that far with its request.
Lost(steps) ==
  {x \in Items \X Attempts :
     attempt[x[1]][x[2]].status = "ABANDONED" /\ serving[x[1]][x[2]] \in steps}

\* Bounds: an operator or a policy stops one item; two leases are lost whose handlers
\* may write on, and one of these handlers takes its request.
RepoBounds ==
  /\ Cardinality({i \in Items : work[i].cancel
                     \/ work[i].status \in {"CANCELLED", "POLICY_BLOCKED"}}) <= 1
  /\ Cardinality(Lost({"IDLE", "OPEN"})) <= 2
  /\ Cardinality(Lost({"OPEN", "DONE"})) <= 1
=============================================================================
