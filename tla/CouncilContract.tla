--------------------------- MODULE CouncilContract ---------------------------
(***************************************************************************)
(* What a council round promises the step that runs it and the person who  *)
(* stops or restarts its members, with none of its machinery: a member     *)
(* works, has settled, or has left the round on an error.  A settled       *)
(* member starts over only while another still works, so the round is over *)
(* at the moment nobody works, and the step decides only then.             *)
(***************************************************************************)
CONSTANT Members

VARIABLES
  member,   \* what each member is doing
  decided   \* whether the step has taken the round's results, and how

Decisions == {"no", "counted", "failed", "cancelled"}

Init == member = [m \in Members |-> "working"] /\ decided = "no"

Working == {m \in Members : member[m] = "working"}

Settle(m) == member[m] = "working" /\ member' = [member EXCEPT ![m] = "settled"]

Leave(m) == member[m] = "working" /\ member' = [member EXCEPT ![m] = "lost"]

Restart(m) ==
  /\ member[m] = "settled"
  /\ Working # {}
  /\ member' = [member EXCEPT ![m] = "working"]

\* Results are counted only if every member settled.
Decide ==
  /\ decided = "no" /\ Working = {}
  /\ decided' \in (IF \A m \in Members : member[m] = "settled" THEN {"counted", "cancelled"}
                                                              ELSE {"failed", "cancelled"})
  /\ UNCHANGED member

Next ==
  \/ \E m \in Members : (Settle(m) \/ Leave(m) \/ Restart(m)) /\ UNCHANGED decided
  \/ Decide

Spec == Init /\ [][Next]_<<member, decided>>
==============================================================================
