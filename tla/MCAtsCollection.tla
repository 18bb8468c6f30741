--------------------------- MODULE MCAtsCollection ---------------------------
(* Instances of AtsCollection for TLC: one source. *)
EXTENDS AtsCollection, TLC

CONSTANT source

MCKindOf == source :> "ATS_COLLECT"
MCServesAll == [w \in Workers |-> Targets]
MCSymmetry == Permutations(Items) \cup Permutations(Workers)
=============================================================================
