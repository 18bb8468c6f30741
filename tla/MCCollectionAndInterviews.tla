----------------------- MODULE MCCollectionAndInterviews -----------------------
(***************************************************************************)
(* The two components that must come to an end, for TLC: the collection of *)
(* an ATS board under its leases, and the preparation of interviews under  *)
(* a bounded pool of connections.  They share no variable: "focus" says    *)
(* which one moves, and the fairness of its scheduler is the one assumed.  *)
(* There is no symmetry: liveness is checked.                              *)
(***************************************************************************)
EXTENDS MCAtsCollection, InterviewTracking

VARIABLE focus

BothInit == CInit /\ IInit /\ focus \in {"COLLECTION", "INTERVIEWS"}

BothNext ==
  /\ UNCHANGED focus
  /\ \/ focus = "COLLECTION" /\ CNext /\ UNCHANGED ivars
     \/ focus = "INTERVIEWS" /\ INext /\ UNCHANGED cvars

(* CFairness, asked of the behaviours in which the collection moves; of     *)
(* the others PrepFairness asks nothing, for no request is running.        *)
CollectionFairness ==
  LET Moves(A) == focus = "COLLECTION" /\ A IN
  /\ WF_cvars(Moves(Pass))
  /\ WF_cvars(Moves(\E S \in SUBSET Items : ReapRuns(S)))
  /\ \A w \in Workers : WF_cvars(Moves(\E S \in SUBSET Items : Take(w, S)))
  /\ \A w \in Workers, i \in Items, n \in Attempts : WF_cvars(Moves(Work(w, i, n)))

BothSpec ==
  /\ BothInit /\ [][BothNext]_<<focus, cvars, ivars>>
  /\ CollectionFairness /\ PrepFairness

(* The tables of both components hold what their columns may hold. *)
BothTypeOK == CollectionTypeOK /\ InterviewTypeOK
=============================================================================
