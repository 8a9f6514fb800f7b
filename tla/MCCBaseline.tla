---------------------------- MODULE MCCBaseline ----------------------------
(***************************************************************************)
(* CBaseline for TLC.                                                      *)
(***************************************************************************)
EXTENDS CBaseline, TLC

\* Threads are interchangeable.
Symmetry == Permutations(Thread)
=============================================================================
