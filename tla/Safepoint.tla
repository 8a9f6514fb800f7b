------------------------------ MODULE Safepoint ------------------------------
(***************************************************************************)
(* What the stop-the-world handshake promises, without saying how.         *)
(*                                                                         *)
(* Mutators park one by one, and somebody stays behind to collect.  A      *)
(* collection starts only when everybody registered but its controller is  *)
(* parked.  From then until the release nobody parks, joins or leaves, and *)
(* the release lets everybody go at once: nobody is let go without a       *)
(* collection, nobody is left behind.                                      *)
(***************************************************************************)
EXTENDS FiniteSets

CONSTANTS Mutator, Initial

VARIABLES
    registered,   \* the mutators that exist
    parked,       \* those stopped at the safepoint
    phase         \* "running", "collecting" or "releasing"

abstract == <<registered, parked, phase>>

Init ==
    /\ registered = Initial
    /\ parked = {}
    /\ phase = "running"

Join(m) ==
    /\ phase = "running"
    /\ parked = {}
    /\ m \in Mutator \ registered
    /\ registered' = registered \cup {m}
    /\ UNCHANGED <<parked, phase>>

Leave(m) ==
    /\ phase = "running"
    /\ m \in registered \ parked
    /\ parked # {} => registered \ parked # {m}
    /\ registered' = registered \ {m}
    /\ UNCHANGED <<parked, phase>>

Park(m) ==
    /\ phase = "running"
    /\ m \in registered \ parked
    /\ registered \ parked # {m}
    /\ parked' = parked \cup {m}
    /\ UNCHANGED <<registered, phase>>

Collect(c) ==
    /\ phase = "running"
    /\ c \in registered
    /\ parked = registered \ {c}
    /\ phase' = "collecting"
    /\ UNCHANGED <<registered, parked>>

Finish ==
    /\ phase = "collecting"
    /\ phase' = "releasing"
    /\ UNCHANGED <<registered, parked>>

Release ==
    /\ phase = "releasing"
    /\ phase' = "running"
    /\ parked' = {}
    /\ UNCHANGED registered

Next ==
    \/ \E m \in Mutator : Join(m) \/ Leave(m) \/ Park(m) \/ Collect(m)
    \/ Finish
    \/ Release

Spec == Init /\ [][Next]_abstract
=============================================================================
