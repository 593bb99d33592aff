---------------------------- MODULE TicketContract ----------------------------
(***************************************************************************)
(* What the server promises about a ticket, whatever happens to the        *)
(* process or to a stored snapshot: it follows the workflow, a failure     *)
(* stops it in BLOCKED_ERROR remembering where it failed, recovery resumes *)
(* exactly there or goes back to an approval gate, and an end is final.    *)
(***************************************************************************)
EXTENDS TicketMachine

VARIABLES status, failedAt

ApprovalGates == {"WAITING_INTERVIEW_APPROVAL", "WAITING_PRD_APPROVAL",
                  "WAITING_EXECUTION_SETUP_APPROVAL"}

Init == status = "DRAFT" /\ failedAt = None

Advance ==
  /\ \/ \E edge \in ForwardEdges : edge[1] = status /\ edge[3] = status'
     \/ status' \in AfterTestsTargets([status |-> status], "TESTS_PASSED")
  /\ UNCHANGED failedAt

Fail ==
  /\ status \in Resumable
  /\ status'   = "BLOCKED_ERROR"
  /\ failedAt' = status

Resume ==
  /\ status    = "BLOCKED_ERROR"
  /\ status'   = failedAt
  /\ failedAt' = None

GoBack ==
  /\ status \in Resumable \cup {"BLOCKED_ERROR"}
  /\ status' \in ApprovalGates
  /\ failedAt' = None

Cancel ==
  /\ status \in Cancelable
  /\ status'   = "CANCELED"
  /\ failedAt' = None

Next == Advance \/ Fail \/ Resume \/ GoBack \/ Cancel

Spec == Init /\ [][Next]_<<status, failedAt>>

=============================================================================
