---------------------------- MODULE ExclusiveWork ----------------------------
(***************************************************************************)
(* What the orchestration control plane promises of a piece of work, with  *)
(* nothing said of leases, tokens, workers or time: each item lives once   *)
(* through queued and held phases until it is settled, spends at most      *)
(* MaxAttempts tries, and no two items of an exclusive subject are alive   *)
(* together.  WorkLedger implements this specification with leases, and    *)
(* AlertFanout with the two kinds of items that make an alert.             *)
(***************************************************************************)
EXTENDS Naturals

CONSTANTS
  Items,
  Subjects,
  Exclusive,    \* the subjects with at most one live item
  MaxAttempts,
  NoSubject

VARIABLES phase, tries, subject

vars == <<phase, tries, subject>>

Phases == {"absent", "queued", "held", "settled"}

TypeOK ==
  /\ phase \in [Items -> Phases]
  /\ tries \in [Items -> 0..MaxAttempts]
  /\ subject \in [Items -> Subjects \cup {NoSubject}]

Live(i) == phase[i] \in {"queued", "held"}

Init ==
  /\ phase = [i \in Items |-> "absent"]
  /\ tries = [i \in Items |-> 0]
  /\ subject = [i \in Items |-> NoSubject]

\* The ways one item may move while others move too.
Handed(i)    == /\ phase[i] = "queued" /\ phase'[i] = "held"
                /\ tries[i] < MaxAttempts /\ tries'[i] = tries[i] + 1
Returned(i)  == /\ phase[i] = "held" /\ phase'[i] = "queued"
                /\ tries[i] < MaxAttempts /\ tries'[i] = tries[i]
SettledNow(i) == /\ Live(i) /\ phase'[i] = "settled" /\ tries'[i] = tries[i]
Still(i)     == phase'[i] = phase[i] /\ tries'[i] = tries[i]

\* An item that is new, for a subject of its own choice.
Submitted(i) ==
  /\ phase[i] = "absent" /\ phase'[i] = "queued"
  /\ tries'[i] = 0 /\ subject'[i] \in Subjects

\* One transaction may submit several items; none for an exclusive subject that is taken.
Submit ==
  /\ TypeOK'
  /\ \A i \in Items : Submitted(i) \/ (Still(i) /\ subject'[i] = subject[i])
  /\ \A i, j \in Items :
        Submitted(i) /\ i # j /\ Live(j)' /\ subject'[j] = subject'[i]
          => subject'[i] \notin Exclusive

Advance ==
  /\ TypeOK'
  /\ \A i \in Items : Handed(i) \/ Returned(i) \/ SettledNow(i) \/ Still(i)
  /\ UNCHANGED subject

Next == Submit \/ Advance

Spec == Init /\ [][Next]_vars

\* What that promises: no two items of an exclusive subject are alive together.
OneLive ==
  \A i, j \in Items :
    Live(i) /\ Live(j) /\ subject[i] = subject[j] /\ subject[i] \in Exclusive => i = j
=============================================================================
