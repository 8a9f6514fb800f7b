--------------------------- MODULE MCStopTheWorld ---------------------------
(***************************************************************************)
(* StopTheWorld for TLC.  Mutators are interchangeable in every safety     *)
(* property; the liveness runs do not use the symmetry.                    *)
(***************************************************************************)
EXTENDS StopTheWorld, TLC

Symmetry == Permutations(Mutator)
=============================================================================
