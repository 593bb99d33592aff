---------------------------- MODULE ExecutionSlot ----------------------------
(***************************************************************************)
(* The tickets of one project and its single execution slot.               *)
(*                                                                         *)
(* No lock holds the slot: whoever is about to enter the execution band    *)
(* asks the database whether another ticket is in it                       *)
(* (findProjectExecutionBandConflict).  An approval asks and moves the     *)
(* ticket without yielding.  Retry and Continue ask first and then wait,   *)
(* for the old work to stop or a bead to be reset, while the other tickets *)
(* go on; and returning a blocked setup plan to its approval asks nothing. *)
(***************************************************************************)
EXTENDS TicketMachine

CONSTANTS
  Tickets,     \* the tickets of the project
  SlotScope,       \* bound: the statuses they may visit
  Recoveries   \* bound: which of RETRY, CONTINUE and EDIT users choose

ASSUME SlotAssumption ==
  /\ SlotScope \subseteq Statuses
  /\ Recoveries \subseteq RecoveryEvents \cup {"EDIT"}

VARIABLES
  status,    \* each ticket's status
  previous,  \* the status each blocked ticket resumes to
  left,      \* tickets whose failed work is still active in OpenCode
  request,   \* each ticket's Retry or Continue waiting for answers, or None,
             \* or Outdated when the failure it was for is no longer current
  editing    \* tickets whose blocked setup plan is being given back

slotVars == <<status, previous, left, request, editing>>

Outdated == "outdated"

Context(t) == [status |-> status[t], previous |-> previous[t], resolution |-> None]

Holders == {t \in Tickets : status[t] \in ExecutionBand}

\* findProjectExecutionBandConflict: another ticket is in the band.
Conflict(t) == Holders \ {t} # {}

Move(t, e) ==
  \E s \in Targets(Context(t), e) \cap SlotScope :
    /\ status'   = [status EXCEPT ![t] = s]
    /\ previous' = [previous EXCEPT ![t] = ContextAfter(Context(t), e, s).previous]

-----------------------------------------------------------------------------
(* The ordinary way through the band.                                       *)

Approvals == {"APPROVE", "APPROVE_EXECUTION_SETUP_PLAN"}

\* Bead plan and setup plan approvals are refused while the slot is taken.
Approve(t) ==
  /\ status[t] \in {"WAITING_BEADS_APPROVAL", "WAITING_EXECUTION_SETUP_APPROVAL"}
  /\ ~Conflict(t)
  /\ \E e \in Approvals : Move(t, e)
  /\ UNCHANGED <<left, request, editing>>

\* The pre-flight checks look for a conflict last, and report in one go.
Preflight(t) ==
  /\ status[t] = "PRE_FLIGHT_CHECK"
  /\ \/ ~Conflict(t) /\ Move(t, "CHECKS_PASSED")
     \/ Move(t, "CHECKS_FAILED")
  /\ UNCHANGED <<left, request, editing>>

FailureEvents == {edge[2] : edge \in FailureEdges} \ {"CHECKS_FAILED"}

\* Work inside the band.
Advance(t) ==
  /\ status[t] \in ExecutionBand
  /\ \E e \in Events \ (Approvals \cup FailureEvents \cup RecoveryEvents
                          \cup {"CHECKS_PASSED", "CHECKS_FAILED", "CANCEL"}) : Move(t, e)
  /\ UNCHANGED <<left, request, editing>>

\* The statuses whose handlers open sessions they own.
Prompting == {"GENERATING_EXECUTION_SETUP_PLAN", "PREPARING_EXECUTION_ENV", "CODING",
              "RUNNING_FINAL_TEST", "GENERATING_QA_CHECKLIST", "CREATING_PULL_REQUEST"}

\* A failure gives the slot up, also when the ticket leaves a session active.
Fail(t) ==
  /\ \E e \in FailureEvents : Move(t, e)
  /\ \/ UNCHANGED left
     \/ status[t] \in Prompting /\ left' = left \cup {t}
  /\ UNCHANGED <<request, editing>>

\* Mutant: CANCEL does not wait for the work to be stopped.
CancelLeavingWork(t) ==
  /\ Move(t, "CANCEL")
  /\ UNCHANGED <<left, request, editing>>

\* CANCEL is sent once the ticket's work is confirmed stopped.
Cancel(t) ==
  /\ Move(t, "CANCEL")
  /\ left' = left \ {t}
  /\ UNCHANGED <<request, editing>>

-----------------------------------------------------------------------------
(* Recoveries.                                                              *)

\* Mutant: the band check looks at the status of the blocked ticket.
MayRecoverByStatus(t) ==
  /\ status[t] = "BLOCKED_ERROR" /\ previous[t] # None /\ request[t] = None
  /\ status[t] \in ExecutionBand => ~Conflict(t)

\* What Retry and Continue ask before anything else; a claim lets only one of
\* them at a time have the ticket.
MayRecover(t) ==
  /\ status[t] = "BLOCKED_ERROR" /\ previous[t] # None /\ request[t] = None
  /\ previous[t] \in ExecutionBand => ~Conflict(t)

\* Retry waits for work left active to stop, and for a failed bead's reset.
RequestRetry(t) ==
  /\ "RETRY" \in Recoveries /\ MayRecover(t)
  /\ \/ /\ t \in left \/ previous[t] = "CODING"
        /\ request' = [request EXCEPT ![t] = "RETRY"]
        /\ UNCHANGED <<status, previous>>
     \/ /\ t \notin left
        /\ Move(t, "RETRY")
        /\ UNCHANGED request
  /\ UNCHANGED <<left, editing>>

\* Continue waits for the session to be found, and for its turn to stop.
RequestContinue(t) ==
  /\ "CONTINUE" \in Recoveries /\ MayRecover(t)
  /\ t \in left
  /\ request' = [request EXCEPT ![t] = "CONTINUE"]
  /\ UNCHANGED <<status, previous, left, editing>>

\* The answers are in.  The failure must still be the current one; the slot is
\* not asked for again.
RecoveryAnswered(t) ==
  /\ request[t] # None
  /\ request' = [request EXCEPT ![t] = None]
  /\ \/ /\ request[t] # Outdated /\ status[t] = "BLOCKED_ERROR"
        /\ Move(t, request[t])
        /\ left' = left \ {t}
     \/ UNCHANGED <<status, previous, left>>
  /\ UNCHANGED editing

\* handleEditBlockedExecutionSetupPlan: neither the claim nor the slot.
RequestBandEdit(t) ==
  /\ "EDIT" \in Recoveries
  /\ status[t] = "BLOCKED_ERROR" /\ previous[t] = "PREPARING_EXECUTION_ENV"
  /\ t \notin editing
  /\ editing' = editing \cup {t}
  /\ UNCHANGED <<status, previous, left, request>>

EditAnswered(t) ==
  /\ t \in editing
  /\ editing' = editing \ {t}
  /\ \/ UNCHANGED <<status, previous, left, request>>
     \/ /\ status[t] \notin Terminal \cup {"WAITING_EXECUTION_SETUP_APPROVAL"}
        /\ status'   = [status EXCEPT ![t] = "WAITING_EXECUTION_SETUP_APPROVAL"]
        /\ previous' = [previous EXCEPT ![t] = status[t]]
        /\ left'     = left \ {t}
        /\ request'  = [request EXCEPT ![t] = IF @ = None THEN None ELSE Outdated]

-----------------------------------------------------------------------------
\* A restart forgets the requests, and nothing else.
Restart ==
  /\ editing # {} \/ \E t \in Tickets : request[t] # None
  /\ request' = [t \in Tickets |-> None]
  /\ editing' = {}
  /\ UNCHANGED <<status, previous, left>>

\* Every ticket waits for its bead plan to be approved.
SlotInit ==
  /\ status   = [t \in Tickets |-> "WAITING_BEADS_APPROVAL"]
  /\ previous = [t \in Tickets |-> "EXPANDING_BEADS"]
  /\ left = {} /\ editing = {}
  /\ request  = [t \in Tickets |-> None]

TicketStep(t) ==
  \/ Approve(t) \/ Preflight(t) \/ Advance(t) \/ Fail(t) \/ Cancel(t)
  \/ RequestRetry(t) \/ RequestContinue(t) \/ RecoveryAnswered(t)
  \/ RequestBandEdit(t) \/ EditAnswered(t)

SlotNext == Restart \/ \E t \in Tickets : TicketStep(t)

SlotSpec == SlotInit /\ [][SlotNext]_slotVars

-----------------------------------------------------------------------------
(* Properties.                                                              *)

SlotTypeOK ==
  /\ status   \in [Tickets -> Statuses]
  /\ previous \in [Tickets -> Statuses \cup {None}]
  /\ request  \in [Tickets -> RecoveryEvents \cup {None, Outdated}]
  /\ left \subseteq {t \in Tickets : status[t] = "BLOCKED_ERROR"}
  /\ editing \subseteq Tickets

\* A ticket joins another one in the band only when a recovery that let the
\* others go on comes back: no approval, pre-flight check or immediate Retry,
\* in any order and across restarts, does it.
JoinsOnlyAfterWaiting ==
  [][\A t \in Tickets :
       status[t] \notin ExecutionBand /\ status'[t] \in ExecutionBand /\ Conflict(t)
         => request[t] # None \/ t \in editing]_slotVars

\* "Each project may have only one active ticket in the execution band at a
\* time."
SlotIsExclusive == \A t \in Holders : ~Conflict(t)

=============================================================================
