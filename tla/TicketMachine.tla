---------------------------- MODULE TicketMachine ----------------------------
(***************************************************************************)
(* The ticket workflow as a pure transition relation: the XState machine   *)
(* of server/machines/ticketMachine.ts, without the code around it.        *)
(*                                                                         *)
(* A machine context is a record                                           *)
(*   [status, previous, resolution]                                        *)
(* standing for context.status, context.previousStatus and                 *)
(* context.blockedErrorResolution.  The rest of the context (titles,       *)
(* models, error texts) never decides a transition, with two exceptions:   *)
(* lockedManualQaEnabled, locked when the ticket starts and a constant     *)
(* here, and beadProgress, which starts at 0 of 0 and is never assigned by *)
(* any action, so that the guard allBeadsComplete (total > 0) is false and *)
(* BEAD_COMPLETE always re-enters CODING.                                  *)
(***************************************************************************)
EXTENDS Naturals

CONSTANT ManualQaEnabled   \* context.lockedManualQaEnabled

ASSUME ManualQaAssumption == ManualQaEnabled \in BOOLEAN

InterviewStatuses ==
  { "DRAFT", "SCANNING_RELEVANT_FILES", "COUNCIL_DELIBERATING",
    "COUNCIL_VOTING_INTERVIEW", "COMPILING_INTERVIEW",
    "WAITING_INTERVIEW_ANSWERS", "VERIFYING_INTERVIEW_COVERAGE",
    "WAITING_INTERVIEW_APPROVAL" }

PrdStatuses ==
  { "DRAFTING_PRD", "COUNCIL_VOTING_PRD", "REFINING_PRD",
    "VERIFYING_PRD_COVERAGE", "WAITING_PRD_APPROVAL" }

BeadsStatuses ==
  { "DRAFTING_BEADS", "COUNCIL_VOTING_BEADS", "REFINING_BEADS",
    "VERIFYING_BEADS_COVERAGE", "EXPANDING_BEADS", "WAITING_BEADS_APPROVAL" }

\* The statuses before PRE_FLIGHT_CHECK, where planning documents may still
\* be edited (isBeforeExecution).
PlanningStatuses == InterviewStatuses \cup PrdStatuses \cup BeadsStatuses

\* The statuses that hold a project's single execution slot.
ExecutionBand ==
  { "PRE_FLIGHT_CHECK", "GENERATING_EXECUTION_SETUP_PLAN",
    "WAITING_EXECUTION_SETUP_APPROVAL", "PREPARING_EXECUTION_ENV", "CODING",
    "RUNNING_FINAL_TEST", "GENERATING_QA_CHECKLIST", "WAITING_MANUAL_QA",
    "INTEGRATING_CHANGES", "CREATING_PULL_REQUEST", "WAITING_PR_REVIEW",
    "CLEANING_ENV" }

\* The statuses BLOCKED_ERROR can resume to: every one that is neither
\* terminal nor BLOCKED_ERROR itself.
Resumable == PlanningStatuses \cup ExecutionBand

Terminal == {"COMPLETED", "CANCELED"}

Statuses == Resumable \cup {"BLOCKED_ERROR"} \cup Terminal

\* The value null of a context field that may hold a status or a resolution.
None == "none"

Resolutions == {"RETRIED", "CONTINUED"}

Contexts == [status     : Statuses,
             previous   : Statuses \cup {None},
             resolution : Resolutions \cup {None}]

-----------------------------------------------------------------------------
(* The unguarded forward transitions, as <<source, event, target>>.         *)

PlanningEdges ==
  { <<"DRAFT", "START", "SCANNING_RELEVANT_FILES">>,
    <<"SCANNING_RELEVANT_FILES", "RELEVANT_FILES_READY", "COUNCIL_DELIBERATING">>,
    <<"COUNCIL_DELIBERATING", "QUESTIONS_READY", "COUNCIL_VOTING_INTERVIEW">>,
    <<"COUNCIL_VOTING_INTERVIEW", "WINNER_SELECTED", "COMPILING_INTERVIEW">>,
    <<"COMPILING_INTERVIEW", "READY", "WAITING_INTERVIEW_ANSWERS">>,
    <<"WAITING_INTERVIEW_ANSWERS", "BATCH_ANSWERED", "WAITING_INTERVIEW_ANSWERS">>,
    <<"WAITING_INTERVIEW_ANSWERS", "INTERVIEW_COMPLETE", "VERIFYING_INTERVIEW_COVERAGE">>,
    <<"WAITING_INTERVIEW_ANSWERS", "SKIP_ALL_TO_APPROVAL", "WAITING_INTERVIEW_APPROVAL">>,
    <<"VERIFYING_INTERVIEW_COVERAGE", "COVERAGE_CLEAN", "WAITING_INTERVIEW_APPROVAL">>,
    <<"VERIFYING_INTERVIEW_COVERAGE", "COVERAGE_LIMIT_REACHED", "WAITING_INTERVIEW_APPROVAL">>,
    <<"VERIFYING_INTERVIEW_COVERAGE", "GAPS_FOUND", "WAITING_INTERVIEW_ANSWERS">>,
    <<"WAITING_INTERVIEW_APPROVAL", "APPROVE", "DRAFTING_PRD">>,
    <<"DRAFTING_PRD", "DRAFTS_READY", "COUNCIL_VOTING_PRD">>,
    <<"COUNCIL_VOTING_PRD", "WINNER_SELECTED", "REFINING_PRD">>,
    <<"REFINING_PRD", "REFINED", "VERIFYING_PRD_COVERAGE">>,
    <<"VERIFYING_PRD_COVERAGE", "COVERAGE_CLEAN", "WAITING_PRD_APPROVAL">>,
    <<"VERIFYING_PRD_COVERAGE", "COVERAGE_LIMIT_REACHED", "WAITING_PRD_APPROVAL">>,
    <<"WAITING_PRD_APPROVAL", "APPROVE", "DRAFTING_BEADS">>,
    <<"DRAFTING_BEADS", "DRAFTS_READY", "COUNCIL_VOTING_BEADS">>,
    <<"COUNCIL_VOTING_BEADS", "WINNER_SELECTED", "REFINING_BEADS">>,
    <<"REFINING_BEADS", "REFINED", "VERIFYING_BEADS_COVERAGE">>,
    <<"VERIFYING_BEADS_COVERAGE", "COVERAGE_CLEAN", "EXPANDING_BEADS">>,
    <<"VERIFYING_BEADS_COVERAGE", "COVERAGE_LIMIT_REACHED", "EXPANDING_BEADS">>,
    <<"EXPANDING_BEADS", "EXPANDED", "WAITING_BEADS_APPROVAL">>,
    <<"WAITING_BEADS_APPROVAL", "APPROVE", "PRE_FLIGHT_CHECK">> }

ExecutionEdges ==
  { <<"PRE_FLIGHT_CHECK", "CHECKS_PASSED", "GENERATING_EXECUTION_SETUP_PLAN">>,
    <<"GENERATING_EXECUTION_SETUP_PLAN", "EXECUTION_SETUP_PLAN_READY", "WAITING_EXECUTION_SETUP_APPROVAL">>,
    <<"GENERATING_EXECUTION_SETUP_PLAN", "EXECUTION_SETUP_PLAN_FAILED", "WAITING_EXECUTION_SETUP_APPROVAL">>,
    <<"WAITING_EXECUTION_SETUP_APPROVAL", "REGENERATE_EXECUTION_SETUP_PLAN", "GENERATING_EXECUTION_SETUP_PLAN">>,
    <<"WAITING_EXECUTION_SETUP_APPROVAL", "APPROVE_EXECUTION_SETUP_PLAN", "PREPARING_EXECUTION_ENV">>,
    <<"PREPARING_EXECUTION_ENV", "EXECUTION_SETUP_EVIDENCE_CHANGED", "WAITING_EXECUTION_SETUP_APPROVAL">>,
    <<"PREPARING_EXECUTION_ENV", "REGENERATE_EXECUTION_SETUP_PLAN", "GENERATING_EXECUTION_SETUP_PLAN">>,
    <<"PREPARING_EXECUTION_ENV", "EXECUTION_SETUP_READY", "CODING">>,
    <<"CODING", "BEAD_COMPLETE", "CODING">>,
    <<"CODING", "ALL_BEADS_DONE", "RUNNING_FINAL_TEST">>,
    <<"GENERATING_QA_CHECKLIST", "QA_CHECKLIST_READY", "WAITING_MANUAL_QA">>,
    <<"WAITING_MANUAL_QA", "MANUAL_QA_COMPLETE", "INTEGRATING_CHANGES">>,
    <<"WAITING_MANUAL_QA", "MANUAL_QA_SKIPPED", "INTEGRATING_CHANGES">>,
    <<"WAITING_MANUAL_QA", "MANUAL_QA_FIXES_CREATED", "CODING">>,
    <<"INTEGRATING_CHANGES", "INTEGRATION_DONE", "CREATING_PULL_REQUEST">>,
    <<"INTEGRATING_CHANGES", "INTEGRATION_NO_CHANGES", "CLEANING_ENV">>,
    <<"CREATING_PULL_REQUEST", "PULL_REQUEST_READY", "WAITING_PR_REVIEW">>,
    <<"CREATING_PULL_REQUEST", "EARLY_MERGE_CORRECTION_READY", "RUNNING_FINAL_TEST">>,
    <<"CREATING_PULL_REQUEST", "MERGE_COMPLETE", "CLEANING_ENV">>,
    <<"WAITING_PR_REVIEW", "MERGE_COMPLETE", "CLEANING_ENV">>,
    <<"WAITING_PR_REVIEW", "EARLY_MERGE_CORRECTION_READY", "RUNNING_FINAL_TEST">>,
    <<"WAITING_PR_REVIEW", "CLOSE_UNMERGED_COMPLETE", "CLEANING_ENV">>,
    <<"CLEANING_ENV", "CLEANUP_DONE", "COMPLETED">> }

ForwardEdges == PlanningEdges \cup ExecutionEdges

\* The events that move a status to BLOCKED_ERROR through recordError.
FailureEdges ==
  ((Resumable \ {"DRAFT"}) \X {"ERROR"}) \cup
  { <<"DRAFT", "INIT_FAILED">>, <<"PRE_FLIGHT_CHECK", "CHECKS_FAILED">>,
    <<"PREPARING_EXECUTION_ENV", "EXECUTION_SETUP_FAILED">>,
    <<"CODING", "BEAD_ERROR">>, <<"RUNNING_FINAL_TEST", "TESTS_FAILED">> }

\* The statuses that accept CANCEL.
Cancelable == (Resumable \cup {"BLOCKED_ERROR"}) \ {"CLEANING_ENV"}

RecoveryEvents == {"RETRY", "CONTINUE"}

Events == {edge[2] : edge \in ForwardEdges} \cup {edge[2] : edge \in FailureEdges}
            \cup RecoveryEvents \cup {"CANCEL", "TESTS_PASSED"}

-----------------------------------------------------------------------------
(* The statuses event e leads to from context m: one, or none when the      *)
(* machine does not handle e there.                                         *)

ForwardTargets(m, e) ==
  {edge[3] : edge \in {x \in ForwardEdges : x[1] = m.status /\ x[2] = e}}

AfterTestsTargets(m, e) ==
  IF m.status = "RUNNING_FINAL_TEST" /\ e = "TESTS_PASSED"
    THEN IF ManualQaEnabled THEN {"GENERATING_QA_CHECKLIST"} ELSE {"INTEGRATING_CHANGES"}
    ELSE {}

FailureTargets(m, e) ==
  IF <<m.status, e>> \in FailureEdges THEN {"BLOCKED_ERROR"} ELSE {}

CancelTargets(m, e) ==
  IF e = "CANCEL" /\ m.status \in Cancelable THEN {"CANCELED"} ELSE {}

\* buildBlockedErrorResumeTransitions: the alternative whose status equals
\* context.previousStatus, if there is one.
ResumeTargets(m, e) ==
  IF m.status = "BLOCKED_ERROR" /\ e \in RecoveryEvents
    THEN {m.previous} \cap Resumable
    ELSE {}

Targets(m, e) == ForwardTargets(m, e) \cup AfterTestsTargets(m, e)
                   \cup FailureTargets(m, e) \cup CancelTargets(m, e)
                   \cup ResumeTargets(m, e)

\* Mutant: the event's name is stored instead of the resolution it stands for.
ResolutionIsTheEvent(m, e, t) ==
  IF m.status = "BLOCKED_ERROR" /\ e \in RecoveryEvents THEN e ELSE None

\* Mutant: recordError forgets to reset the resolution of the last recovery.
ResolutionKeptOnError(m, e, t) ==
  IF m.status = "BLOCKED_ERROR" /\ e = "RETRY" THEN "RETRIED"
  ELSE IF m.status = "BLOCKED_ERROR" /\ e = "CONTINUE" THEN "CONTINUED"
  ELSE m.resolution

\* blockedErrorResolution after taking e to t: set by clearError, reset by
\* recordError, kept by every other transition.
ResolutionAfter(m, e, t) ==
  IF t = "BLOCKED_ERROR" THEN None
  ELSE IF m.status = "BLOCKED_ERROR" /\ e = "RETRY" THEN "RETRIED"
  ELSE IF m.status = "BLOCKED_ERROR" /\ e = "CONTINUE" THEN "CONTINUED"
  ELSE m.resolution

\* Mutant: updateStatus assigns status before it reads it into previousStatus.
PreviousReadAfterStatus(m, e, t) ==
  [m EXCEPT !.status = t, !.previous = t, !.resolution = ResolutionAfter(m, e, t)]

\* The context after m took e to t.  A transition from a status to itself is
\* internal (XState 5 re-enters only on request), so updateStatus does not run.
ContextAfter(m, e, t) ==
  [m EXCEPT !.status     = t,
            !.previous   = IF t = m.status THEN m.previous ELSE m.status,
            !.resolution = ResolutionAfter(m, e, t)]

=============================================================================
