--------------------------- MODULE MCParallelTrace ---------------------------
(***************************************************************************)
(* ParallelTrace for TLC, over a few heaps of three objects.               *)
(***************************************************************************)
EXTENDS ParallelTrace, TLC

CONSTANTS o1, o2, o3

Chain   == o1 :> {o2} @@ o2 :> {o3} @@ o3 :> {o3}
Cycle   == o1 :> {o2} @@ o2 :> {o3} @@ o3 :> {o1}
Diamond == o1 :> {o2, o3} @@ o2 :> {o3} @@ o3 :> {}

AllHeaps == {Chain, Cycle, Diamond}
=============================================================================
