---------------------------- MODULE BeadContract ----------------------------
(***************************************************************************)
(* What the coding phase promises about a ticket's branch.  Work enters it *)
(* only with a commit and never leaves it; a commit brings the work of one *)
(* try at one bead, whose dependencies are finished; a finished bead gets  *)
(* no more work and stays finished.                                        *)
(***************************************************************************)
CONSTANTS Beads, BlockedBy

VARIABLES committed, finished

Of(b) == {w \in committed : w[1] = b}

Integrate(b) ==
  /\ b \notin finished
  /\ BlockedBy[b] \subseteq finished
  /\ Of(b) = {}
  /\ committed \subseteq committed'
  /\ \E work \in committed' \ committed : work[1] = b /\ committed' \ committed = {work}
  /\ UNCHANGED finished

Finish(b) ==
  /\ BlockedBy[b] \subseteq finished
  /\ finished' = finished \cup {b}
  /\ UNCHANGED committed

Init == committed = {} /\ finished = {}

Next == \E b \in Beads : Integrate(b) \/ Finish(b)

Spec == Init /\ [][Next]_<<committed, finished>>
=============================================================================
