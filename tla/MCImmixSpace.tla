---------------------------- MODULE MCImmixSpace ----------------------------
(***************************************************************************)
(* ImmixSpace for TLC.  A line is two units long, so that objects of one   *)
(* and two units fill it, share it, or straddle two lines.                 *)
(***************************************************************************)
EXTENDS ImmixSpace, TLC

SmallAndLarge == {[size |-> 1, align |-> 1], [size |-> 2, align |-> 1]}

AlignedAndEmpty ==
    {[size |-> 2, align |-> 1], [size |-> 1, align |-> 2], [size |-> 0, align |-> 1]}

Symmetry == Permutations(Mutator)
=============================================================================
