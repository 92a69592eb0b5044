--------------------------- MODULE MCTravelDebrief ---------------------------
(***************************************************************************)
(* TravelDebrief on small instances.  What edits do to a report and what   *)
(* answers do to the board meet nowhere but in the product of their        *)
(* states: a behaviour of the run either has edits beside each other, and  *)
(* nobody answers a debrief, or it has answers, and edits one at a time.   *)
(***************************************************************************)
EXTENDS TravelDebrief, FiniteSets, TLC

VARIABLE scene

Scenes == {"edits", "answers"}

MCInit == Init /\ scene \in Scenes

MCNext ==
  /\ Next
  /\ scene = "edits" => UNCHANGED answer
  /\ scene = "answers" => Cardinality({e \in Edits : edit'[e] # Idle}) <= 1
  /\ UNCHANGED scene

MCSpec == MCInit /\ [][MCNext]_<<vars, scene>>

Symmetry ==
  Permutations(Reports) \cup Permutations(Edits) \cup Permutations(Crons)

(* A day trip, a trip through two countries, and one without an end date.  *)
Trips == {{1}, {1, 2}, {1, NoEnd}}
=============================================================================
