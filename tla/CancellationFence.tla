-------------------------- MODULE CancellationFence --------------------------
(***************************************************************************)
(* Stopping one ticket while its work runs elsewhere.                      *)
(*                                                                         *)
(* The AI sessions a phase handler opens live in the OpenCode server, so a *)
(* cancel cannot simply move the ticket to CANCELED: the cancel route sets *)
(* a durable marker (the fence), aborts the local handlers, and sends      *)
(* CANCEL only when every session is confirmed stopped.  A stop that fails *)
(* leaves the fence in place, for a redrive on a timer.  Retry, Continue,  *)
(* late answers of handlers already aborted, and restarts interleave with  *)
(* it at every await.                                                      *)
(*                                                                         *)
(* Concurrency is JavaScript's: code runs to its next await on something   *)
(* outside the process, so each action ends at such an await, and one with *)
(* nothing to wait for goes on in the same action.  A confirmed stop closes*)
(* the sessions' question windows with them, so the window passes that     *)
(* follow a confirmed stop find nothing and are part of its action.        *)
(* Not modelled: a marker file that cannot be written or removed, sessions *)
(* whose database row could not be written, and the delete options.        *)
(***************************************************************************)
EXTENDS TicketMachine, FiniteSets

CONSTANTS
  Scope,          \* bound: the statuses the ticket may visit
  StartStatuses,  \* the statuses the ticket is looked at from
  MaxRetries,     \* MAX_CANCELLATION_CLEANUP_RETRIES
  MaxSessions,    \* bound: sessions opened in a behaviour
  MaxCrashes,     \* bound: restarts
  Questions       \* whether the AI may ask the user questions

ASSUME FenceAssumption ==
  /\ Scope \subseteq Statuses
  /\ StartStatuses \subseteq Scope \ Terminal
  /\ {MaxRetries, MaxSessions, MaxCrashes} \subseteq Nat
  /\ Questions \in BOOLEAN

VARIABLES
  up,        \* the server process runs
  status,    \* the ticket's status
  previous,  \* the status BLOCKED_ERROR resumes to
  marked,    \* the cancellation marker is set
  runs,      \* handler runs: [phase, live, step, session]
  sessions,  \* the active OpenCode session rows
  opened,    \* how many sessions were opened so far
  windows,   \* the sessions with an open question window
  cancel,    \* the cancel request in progress: [pc, seen, clean]
  recovery,  \* the Retry or Continue request in progress: [pc, seen, clean]
  pass,      \* the cleanup pass in flight: [pc, seen, clean, owned]
  redrive,   \* the cleanup timer: [armed, attempts, exhausted]
  crashes    \* restarts so far

ticket == <<status, previous>>
remote == <<sessions, opened, windows>>
vars == <<up, ticket, marked, runs, remote, cancel, recovery, pass, redrive, crashes>>

\* The statuses attachWorkflowRunner has a handler for.
Handled == Resumable \ {"DRAFT", "WAITING_INTERVIEW_APPROVAL", "WAITING_PRD_APPROVAL",
                        "WAITING_BEADS_APPROVAL", "WAITING_EXECUTION_SETUP_APPROVAL",
                        "WAITING_PR_REVIEW"}

\* A run starts out checking what is already done; it then opens a session,
\* which takes a while, and prompts it.
NewRun(phase) == [phase |-> phase, live |-> TRUE, step |-> "checking", session |-> 0]

Aborted(rs) == {[r EXCEPT !.live = FALSE] : r \in rs}

\* countPendingSessionCreations: aborted runs may still be opening a session.
Creating(rs) == \E r \in rs : r.step = "creating"

\* A request that waits for remote answers remembers the sessions it saw when
\* it asked, and whether no session was being opened then (clean).
Idle          == [pc |-> "idle", seen |-> {}, clean |-> TRUE]
Waits(pc, ss) == [pc |-> pc, seen |-> ss, clean |-> ~Creating(runs)]

NoPass    == [pc |-> "idle", seen |-> {}, clean |-> TRUE, owned |-> TRUE]
NoRedrive == [armed |-> FALSE, attempts |-> 0, exhausted |-> FALSE]

Context == [status |-> status, previous |-> previous, resolution |-> None]

-----------------------------------------------------------------------------
(* The redrive timer.                                                       *)

\* scheduleCancellationCleanupRetry: one timer, up to MaxRetries attempts.
Scheduled(timer) ==
  IF timer.armed THEN timer
  ELSE IF timer.attempts >= MaxRetries
    THEN [armed |-> FALSE, attempts |-> 0, exhausted |-> TRUE]
    ELSE [armed |-> TRUE, attempts |-> timer.attempts + 1, exhausted |-> FALSE]

\* schedulePendingCancellationCleanupRetry.
SchedulePending(fenced) ==
  redrive' = IF fenced /\ pass.pc = "idle" THEN Scheduled(redrive) ELSE redrive

-----------------------------------------------------------------------------
(* What the runner does with an emission (processSnapshot).                 *)

CanceledEmission(rs, fenced) ==
  /\ runs' = Aborted(rs)
  /\ \/ /\ pass.pc = "idle" /\ ~redrive.armed   \* the final pass, at once
        /\ marked'  = FALSE
        /\ redrive' = NoRedrive
     \/ /\ pass.pc # "idle" \/ redrive.armed
        /\ marked' = fenced
        /\ UNCHANGED redrive

CompletedEmission(rs) ==
  /\ runs'    = rs
  /\ marked'  = FALSE
  /\ redrive' = NoRedrive

FencedEmission(rs) ==
  /\ runs'    = rs
  /\ marked'  = TRUE
  /\ SchedulePending(TRUE)

\* Mutant: the runner does not look at the marker before it starts a handler.
EmissionWithoutGate(t, rs, fenced) ==
  \/ t = "CANCELED" /\ CanceledEmission(rs, fenced)
  \/ t = "COMPLETED" /\ CompletedEmission(rs)
  \/ /\ t \notin Terminal
     /\ runs' = IF t \in Handled /\ ~\E r \in rs : r.live /\ r.phase = t
                  THEN rs \cup {NewRun(t)} ELSE rs
     /\ marked' = fenced
     /\ UNCHANGED redrive

\* Mutant: a fenced ticket starts nothing, but no cleanup is scheduled either.
EmissionWithoutRedrive(t, rs, fenced) ==
  \/ t = "CANCELED" /\ CanceledEmission(rs, fenced)
  \/ t = "COMPLETED" /\ CompletedEmission(rs)
  \/ /\ t \notin Terminal
     /\ runs' = IF ~fenced /\ t \in Handled /\ ~\E r \in rs : r.live /\ r.phase = t
                  THEN rs \cup {NewRun(t)} ELSE rs
     /\ marked' = fenced
     /\ UNCHANGED redrive

\* The emission of status t, with runs rs, under the marker `fenced'.
Emission(t, rs, fenced) ==
  \/ t = "CANCELED" /\ CanceledEmission(rs, fenced)
  \/ t = "COMPLETED" /\ CompletedEmission(rs)
  \/ t \notin Terminal /\ fenced /\ FencedEmission(rs)
  \/ /\ t \notin Terminal /\ ~fenced
     /\ runs' = IF t \in Handled /\ ~\E r \in rs : r.live /\ r.phase = t
                  THEN rs \cup {NewRun(t)} ELSE rs
     /\ marked' = FALSE
     /\ UNCHANGED redrive

\* An event reaches the actor: it moves, or emits its unchanged snapshot.
Send(e, rs, fenced) ==
  /\ status \notin Terminal
  /\ \/ \E t \in Targets(Context, e) \cap Scope :
          /\ status'   = t
          /\ previous' = ContextAfter(Context, e, t).previous
          /\ Emission(t, rs, fenced)
     \/ /\ Targets(Context, e) = {}
        /\ UNCHANGED ticket
        /\ Emission(status, rs, fenced)

-----------------------------------------------------------------------------
(* Handler runs.                                                            *)

\* createSessionForPhase begins; a preserved session is reconnected to instead.
OpenSession(r) ==
  /\ up /\ r.live /\ r.step = "checking" /\ r.phase # "CLEANING_ENV"
  /\ \/ \E s \in sessions :
          runs' = (runs \ {r}) \cup {[r EXCEPT !.step = "prompting", !.session = s]}
     \/ /\ sessions = {} /\ opened < MaxSessions
        /\ runs' = (runs \ {r}) \cup {[r EXCEPT !.step = "creating"]}
  /\ UNCHANGED <<up, ticket, marked, remote, cancel, recovery, pass, redrive, crashes>>

\* The session exists, also for a run aborted while it waited.
SessionOpened(r) ==
  /\ up /\ r.step = "creating" /\ opened < MaxSessions
  /\ opened'   = opened + 1
  /\ sessions' = sessions \cup {opened'}
  /\ runs' = (runs \ {r}) \cup {[r EXCEPT !.step = "prompting", !.session = opened']}
  /\ UNCHANGED <<up, ticket, marked, windows, cancel, recovery, pass, redrive, crashes>>

AskQuestion(r) ==
  /\ up /\ Questions /\ r.live /\ r.step = "prompting" /\ r.session \in sessions
  /\ windows' = windows \cup {r.session}
  /\ UNCHANGED <<up, ticket, marked, runs, sessions, opened, cancel, recovery, pass, redrive, crashes>>

AnswerQuestion(s) ==
  /\ up /\ s \in windows
  /\ windows' = windows \ {s}
  /\ UNCHANGED <<up, ticket, marked, runs, sessions, opened, cancel, recovery, pass, redrive, crashes>>

\* The answers found before anything is prompted: a merge detected on the
\* remote, and a cleanup, which prompts nothing.
FoundWhileChecking == {"MERGE_COMPLETE", "EARLY_MERGE_CORRECTION_READY", "CLEANUP_DONE"}

Results(r) ==
  {e \in Events : ForwardTargets([status |-> r.phase], e)
                    \cup AfterTestsTargets([status |-> r.phase], e) # {}}

\* A run delivers its result and closes the session it used.
Finish(r, e) ==
  /\ up /\ r.live
  /\ e \in Results(r)
  /\ \/ r.step = "prompting"
     \/ r.step = "checking" /\ e \in FoundWhileChecking
  /\ sessions' = sessions \ {r.session}
  /\ windows'  = windows \ {r.session}
  /\ Send(e, runs \ {r}, marked)
  /\ UNCHANGED <<up, opened, cancel, recovery, pass, crashes>>

\* A run fails.  A failure Continue can recover from leaves the session active,
\* and a question asked on it stays open.
Fail(r) ==
  /\ up /\ r.live
  /\ \E gone \in {{}, {r.session}} :
       sessions' = sessions \ gone /\ windows' = windows \ gone
  /\ Send("ERROR", runs \ {r}, marked)
  /\ UNCHANGED <<up, opened, cancel, recovery, pass, crashes>>

\* An aborted run unwinds: whatever it throws is swallowed, and it stops its
\* own session if it can.
Unwind(r) ==
  /\ up /\ ~r.live
  /\ \E gone \in {{}, {r.session}} :
       sessions' = sessions \ gone /\ windows' = windows \ gone
  /\ runs' = runs \ {r}
  /\ UNCHANGED <<up, ticket, marked, opened, cancel, recovery, pass, redrive, crashes>>

\* handleCreatePullRequest does not look at its signal between asking the
\* remote for a merged pull request and reporting it.
LateResult(r, e) ==
  /\ up /\ ~r.live
  /\ r.phase = "CREATING_PULL_REQUEST" /\ r.step = "checking"
  /\ e \in Results(r) \cap FoundWhileChecking
  /\ \/ Send(e, runs \ {r}, marked)
     \/ status \in Terminal /\ runs' = runs \ {r} /\ UNCHANGED <<ticket, marked, redrive>>
  /\ UNCHANGED <<up, remote, cancel, recovery, pass, crashes>>

\* The pull request is merged, or closed, from the review; both take the lock
\* a cancel request holds.
CompleteReview(e) ==
  /\ up /\ status = "WAITING_PR_REVIEW" /\ cancel.pc = "idle"
  /\ e \in {"MERGE_COMPLETE", "CLOSE_UNMERGED_COMPLETE", "EARLY_MERGE_CORRECTION_READY"}
  /\ Send(e, runs, marked)
  /\ UNCHANGED <<up, remote, cancel, recovery, pass, crashes>>

-----------------------------------------------------------------------------
(* Stopping the sessions (abortTicketSessions).                             *)

\* The sessions OpenCode confirmed as stopped are abandoned.  The stop counts
\* only if all those seen were still active rows and are stopped now, and none
\* was opened, or being opened, before or since.
StopOutcomes(seen, clean) ==
  {[left |-> sessions \ stopped,
    ok   |-> /\ clean /\ ~Creating(runs)
             /\ stopped = seen
             /\ sessions = stopped] :
     stopped \in SUBSET (seen \cap sessions)}

\* Abandoning a session closes its question window.
Stops(outcome) ==
  /\ sessions' = outcome.left
  /\ windows'  = windows \cap outcome.left
  /\ UNCHANGED opened

-----------------------------------------------------------------------------
(* The cancel request (handleCancelTicketLocked).                           *)

\* Mutant: the result of the stop is not looked at.
CancelWhateverStopped(stopped, rs, fenced) ==
  /\ cancel' = Idle
  /\ \/ Send("CANCEL", rs, fenced)
     \/ status \in Terminal /\ UNCHANGED <<ticket, marked, runs, redrive>>

\* The stop is over.  CANCEL for a ticket that ended meanwhile is an error.
CancelDecided(stopped, rs, fenced) ==
  /\ cancel' = Idle
  /\ \/ stopped /\ Send("CANCEL", rs, fenced)
     \/ /\ stopped /\ status \in Terminal
        /\ runs' = rs /\ marked' = fenced
        /\ UNCHANGED <<ticket, redrive>>
     \/ /\ ~stopped
        /\ runs' = rs /\ marked' = fenced
        /\ SchedulePending(fenced)
        /\ UNCHANGED ticket

CancelStops(rs, fenced) ==
  \/ /\ sessions # {}
     /\ cancel' = Waits("stopping", sessions)
     /\ runs' = rs /\ marked' = fenced
     /\ UNCHANGED <<ticket, redrive>>
  \/ sessions = {} /\ CancelDecided(~Creating(runs), rs, fenced)

RequestCancel ==
  /\ up /\ cancel.pc = "idle"
  /\ status \in Cancelable            \* getAvailableWorkflowActions
  /\ pass' = IF pass.pc = "idle" THEN pass ELSE [pass EXCEPT !.owned = FALSE]
  /\ \/ /\ windows # {}
        /\ cancel' = Waits("rejecting", windows)
        /\ runs' = Aborted(runs) /\ marked' = TRUE
        /\ UNCHANGED <<ticket, redrive>>
     \/ windows = {} /\ CancelStops(Aborted(runs), TRUE)
  /\ UNCHANGED <<up, remote, recovery, crashes>>

\* clearTicketWindows: OpenCode took some of the refusals.
WindowsRejected ==
  /\ up /\ cancel.pc = "rejecting"
  /\ \E kept \in SUBSET (cancel.seen \cap windows) :
       windows' = (windows \ cancel.seen) \cup kept
  /\ CancelStops(runs, marked)
  /\ UNCHANGED <<up, sessions, opened, recovery, pass, crashes>>

\* A stop that failed is answered with 409, whatever the second window pass
\* does; after one that succeeded there is no window left for it.
CancelStopped ==
  /\ up /\ cancel.pc = "stopping"
  /\ \E outcome \in StopOutcomes(cancel.seen, cancel.clean) :
       Stops(outcome) /\ CancelDecided(outcome.ok, runs, marked)
  /\ UNCHANGED <<up, recovery, pass, crashes>>

-----------------------------------------------------------------------------
(* The cleanup pass (attemptCancellationCleanup).                           *)

\* What the pass does once it knows whether everything stopped.  A cancel
\* request made meanwhile has taken the marker over (owned is then false).
PassDecided(stopped, owned, timer) ==
  /\ pass' = NoPass
  /\ \/ /\ status # "CANCELED" /\ ~marked      \* superseded by a Retry
        /\ redrive' = NoRedrive
        /\ UNCHANGED <<ticket, marked, runs>>
     \/ /\ status = "CANCELED" \/ marked
        /\ ~(stopped /\ owned)
        /\ redrive' = Scheduled(timer)
        /\ UNCHANGED <<ticket, marked, runs>>
     \/ /\ status = "CANCELED" /\ stopped /\ owned
        /\ marked' = FALSE /\ redrive' = NoRedrive
        /\ UNCHANGED <<ticket, runs>>
     \/ /\ marked /\ stopped /\ owned /\ Targets(Context, "CANCEL") # {}
        /\ status' = "CANCELED" /\ previous' = status
        /\ runs' = Aborted(runs) /\ marked' = FALSE /\ redrive' = NoRedrive
     \/ /\ marked /\ stopped /\ owned /\ status # "CANCELED"
        /\ Targets(Context, "CANCEL") = {}     \* CLEANING_ENV ignores it
        /\ redrive' = Scheduled(timer)
        /\ UNCHANGED <<ticket, marked, runs>>

TimerFires ==
  /\ up /\ redrive.armed
  /\ LET timer == [redrive EXCEPT !.armed = FALSE]
     IN  \/ /\ status # "CANCELED" /\ ~marked
            /\ redrive' = timer
            /\ UNCHANGED <<ticket, marked, runs, pass>>
         \/ /\ status = "CANCELED" \/ marked
            /\ sessions # {}
            /\ pass' = [NoPass EXCEPT !.pc = "stopping", !.seen = sessions,
                                      !.clean = ~Creating(runs)]
            /\ redrive' = timer
            /\ UNCHANGED <<ticket, marked, runs>>
         \/ /\ status = "CANCELED" \/ marked
            /\ sessions = {}
            /\ PassDecided(~Creating(runs), TRUE, timer)
  /\ UNCHANGED <<up, remote, cancel, recovery, crashes>>

PassStopped ==
  /\ up /\ pass.pc = "stopping"
  /\ \E outcome \in StopOutcomes(pass.seen, pass.clean) :
       Stops(outcome) /\ PassDecided(outcome.ok, pass.owned, redrive)
  /\ UNCHANGED <<up, cancel, recovery, crashes>>

-----------------------------------------------------------------------------
(* Retry and Continue; a claim admits one of them at a time.                *)

\* Mutant: Retry goes on after a stop that was not confirmed.
RetryWhateverStopped(stopped) ==
  /\ recovery' = Idle
  /\ status = "BLOCKED_ERROR" /\ Send("RETRY", runs, FALSE)

\* handleRetryTicket, once it knows whether the failed work has stopped: the
\* marker is cleared and the ticket resumed, for CODING after an awaited reset
\* of the failed bead unless its result only needs saving.
RetryDecided(stopped) ==
  \/ /\ ~stopped \/ status # "BLOCKED_ERROR"
     /\ recovery' = Idle
     /\ UNCHANGED <<ticket, marked, runs, redrive>>
  \/ /\ stopped /\ status = "BLOCKED_ERROR" /\ previous = "CODING"
     /\ recovery' = [Idle EXCEPT !.pc = "resetting"]
     /\ marked' = FALSE
     /\ UNCHANGED <<ticket, runs, redrive>>
  \/ /\ stopped /\ status = "BLOCKED_ERROR"
     /\ recovery' = Idle
     /\ Send("RETRY", runs, FALSE)

RequestRetry ==
  /\ up /\ recovery.pc = "idle"
  /\ status = "BLOCKED_ERROR" /\ previous # None
  /\ \/ /\ sessions # {}
        /\ recovery' = Waits("retrying", sessions)
        /\ UNCHANGED <<ticket, marked, runs, redrive>>
     \/ sessions = {} /\ RetryDecided(~Creating(runs))
  /\ UNCHANGED <<up, remote, cancel, pass, crashes>>

RetryStopped ==
  /\ up /\ recovery.pc = "retrying"
  /\ \E outcome \in StopOutcomes(recovery.seen, recovery.clean) :
       Stops(outcome) /\ RetryDecided(outcome.ok)
  /\ UNCHANGED <<up, cancel, pass, crashes>>

\* recoverCodingBeadWithReset succeeds or fails; the dispatch asks only whether
\* the ticket is still blocked.
ResetDone ==
  /\ up /\ recovery.pc = "resetting"
  /\ recovery' = Idle
  /\ \/ status = "BLOCKED_ERROR" /\ Send("RETRY", runs, marked)
     \/ UNCHANGED <<ticket, marked, runs, redrive>>
  /\ UNCHANGED <<up, remote, cancel, pass, crashes>>

RequestContinue(s) ==
  /\ up /\ recovery.pc = "idle"
  /\ status = "BLOCKED_ERROR" /\ previous # None
  /\ s \in sessions
  /\ recovery' = Waits("continuing", {s})
  /\ UNCHANGED <<up, ticket, marked, runs, remote, cancel, pass, redrive, crashes>>

\* The preserved session was found and its turn stopped, or not; the session
\* itself stays active.
ContinueAnswered ==
  /\ up /\ recovery.pc = "continuing"
  /\ recovery' = Idle
  /\ \/ /\ status = "BLOCKED_ERROR" /\ recovery.seen \subseteq sessions
        /\ Send("CONTINUE", runs, marked)
     \/ UNCHANGED <<ticket, marked, runs, redrive>>
  /\ UNCHANGED <<up, remote, cancel, pass, crashes>>

-----------------------------------------------------------------------------
(* Restarts.                                                                *)

Crash ==
  /\ up /\ crashes < MaxCrashes
  /\ up' = FALSE /\ crashes' = crashes + 1
  /\ runs' = {} /\ cancel' = Idle /\ recovery' = Idle
  /\ pass' = NoPass /\ redrive' = NoRedrive
  /\ UNCHANGED <<ticket, marked, remote>>

\* hydrateAllTickets brings back non-terminal tickets only, and each runner
\* looks at the restored status.
Boot ==
  /\ ~up
  /\ up' = TRUE
  /\ \/ status \notin Terminal /\ Emission(status, {}, marked)
     \/ status \in Terminal /\ UNCHANGED <<marked, runs, redrive>>
  /\ UNCHANGED <<ticket, remote, cancel, recovery, pass, crashes>>

-----------------------------------------------------------------------------
\* A ticket that has just entered one of the start statuses.
Init ==
  /\ up       = TRUE
  /\ status   \in StartStatuses
  /\ previous = None
  /\ marked   = FALSE
  /\ runs     = IF status \in Handled THEN {NewRun(status)} ELSE {}
  /\ sessions = {} /\ opened = 0 /\ windows = {}
  /\ cancel   = Idle
  /\ recovery = Idle
  /\ pass     = NoPass
  /\ redrive  = NoRedrive
  /\ crashes  = 0

RunStep ==
  \/ \E r \in runs : \/ OpenSession(r) \/ SessionOpened(r) \/ AskQuestion(r)
                     \/ Fail(r) \/ Unwind(r)
                     \/ \E e \in Events : Finish(r, e) \/ LateResult(r, e)
  \/ \E s \in windows : AnswerQuestion(s)

RequestStep ==
  \/ RequestCancel \/ WindowsRejected \/ CancelStopped
  \/ RequestRetry \/ RetryStopped \/ ResetDone
  \/ \E s \in sessions : RequestContinue(s)
  \/ ContinueAnswered
  \/ \E e \in Events : CompleteReview(e)

Next == RunStep \/ RequestStep \/ TimerFires \/ PassStopped \/ Crash \/ Boot

Spec == Init /\ [][Next]_vars

\* Timers fire, remote calls return (with an answer or a timeout), and the
\* daemon is started again.  Nothing obliges a user, or OpenCode to agree.
Fairness ==
  /\ WF_vars(TimerFires) /\ WF_vars(PassStopped)
  /\ WF_vars(WindowsRejected) /\ WF_vars(CancelStopped)
  /\ WF_vars(RetryStopped) /\ WF_vars(ResetDone) /\ WF_vars(ContinueAnswered)
  /\ WF_vars(Boot)

FairSpec == Spec /\ Fairness

-----------------------------------------------------------------------------
(* Properties.                                                              *)

SessionIds == 1 .. MaxSessions

TypeOK ==
  /\ up \in BOOLEAN /\ marked \in BOOLEAN
  /\ status \in Statuses /\ previous \in Statuses \cup {None}
  /\ runs \subseteq [phase : Handled, live : BOOLEAN,
                     step : {"checking", "creating", "prompting"},
                     session : SessionIds \cup {0}]
  /\ sessions \subseteq SessionIds /\ windows \subseteq sessions
  /\ opened \in 0 .. MaxSessions
  /\ cancel \in [pc : {"idle", "rejecting", "stopping"},
                 seen : SUBSET SessionIds, clean : BOOLEAN]
  /\ recovery \in [pc : {"idle", "retrying", "resetting", "continuing"},
                   seen : SUBSET SessionIds, clean : BOOLEAN]
  /\ pass \in [pc : {"idle", "stopping"}, seen : SUBSET SessionIds,
               clean : BOOLEAN, owned : BOOLEAN]
  /\ redrive \in [armed : BOOLEAN, attempts : 0 .. MaxRetries, exhausted : BOOLEAN]
  /\ crashes \in 0 .. MaxCrashes

\* While the marker stands, and after the cancel, no handler works on the
\* ticket: not one the cancel failed to abort, and not one a restart, a Retry
\* or a late result has started since.
FenceHoldsWork ==
  up /\ (marked \/ status = "CANCELED") => \A r \in runs : ~r.live

\* A live handler works on the ticket's status, and there is one at most: no
\* result, restart or Retry leaves the handler of another phase behind, or
\* starts a second one.
LiveIsCurrent ==
  /\ \A r \in runs : r.live => r.phase = status
  /\ \A r, q \in runs : r.live /\ q.live => r = q

\* A canceled ticket owns nothing in OpenCode, and nothing it started before
\* can open a session any more.
CanceledIsQuiet ==
  status = "CANCELED" => sessions = {} /\ ~Creating(runs)

\* A fence nobody is working on is on the timer, unless the automatic retries
\* ran out: no order of requests, passes and restarts leaves it behind.
RedriveIsArmed ==
  up /\ marked /\ status \notin Terminal /\ cancel.pc = "idle" /\ pass.pc = "idle"
    => redrive.armed \/ redrive.exhausted

\* The fence is kept: no handler works behind it, one at most works on the
\* ticket otherwise, and somebody is at work on lifting it.
FenceIsKept == TypeOK /\ FenceHoldsWork /\ LiveIsCurrent /\ RedriveIsArmed

\* A Retry never meets the work it replaces: when it is dispatched nothing of
\* the failed attempt is active, also after the awaited reset of a bead.
RetryStartsClean ==
  [][status = "BLOCKED_ERROR" /\ status' \in Resumable /\ recovery.pc # "continuing"
       => sessions' = {} /\ windows' = {} /\ ~Creating(runs')]_vars

\* A cancel request or cleanup pass that waited for OpenCode sends CANCEL only
\* while its marker still stands: once a Retry has cleared it, the ticket
\* belongs to the new run.
NoStaleCancel ==
  [][status # "CANCELED" /\ status' = "CANCELED"
       /\ \/ cancel.pc # "idle" /\ cancel'.pc = "idle"
          \/ pass.pc # "idle" /\ pass'.pc = "idle"
       => marked]_vars

\* Every fence is lifted in the end, by the cancel it stands for or by a Retry,
\* unless the automatic retries run out.
FenceIsLifted ==
  marked /\ status \notin Terminal
    ~> ~marked \/ status \in Terminal \/ redrive.exhausted

-----------------------------------------------------------------------------
(* What the documentation says, and the code does not do.                   *)

\* "Cleanup always advances the workflow to the terminal Done state ...
\* Restarting the daemon retries interrupted cleanup from saved state."
CleanupIsUnderWay ==
  up /\ status = "CLEANING_ENV" => \E r \in runs : r.live /\ r.phase = "CLEANING_ENV"

=============================================================================
