----------------------- MODULE CancellationFenceProofs -----------------------
(***************************************************************************)
(* What CancellationFence keeps for every scope, every number of sessions, *)
(* redrives and restarts, with and without questions.                      *)
(*                                                                         *)
(* That no handler works behind the fence is inductive only together with  *)
(* what the runner's handlers are: at most one is live, it works on the    *)
(* status the ticket is in, an aborted one is there only under the fence or*)
(* after the end, and a blocked ticket has none at all.                    *)
(***************************************************************************)
EXTENDS CancellationFence, TLAPS

-----------------------------------------------------------------------------
(* The invariant.                                                           *)

\* An aborted handler that has not unwound is behind the fence, or the ticket
\* has ended.
AbortedIsFenced == \A r \in runs : ~r.live => marked \/ status \in Terminal

\* A blocked ticket has no handler, not even one that is unwinding.
BlockedIsIdle == status = "BLOCKED_ERROR" => runs = {}

\* A process that is down has nothing in memory.
DownIsEmpty ==
  ~up => runs = {} /\ cancel = Idle /\ recovery = Idle /\ pass = NoPass

\* A Retry that resets its bead found the failed work stopped, and nothing has
\* been opened since, unless the ticket was canceled.
ResetIsClean ==
  recovery.pc = "resetting" /\ status # "CANCELED" =>
    status = "BLOCKED_ERROR" /\ sessions = {}

Handlers == LiveIsCurrent /\ AbortedIsFenced /\ BlockedIsIdle /\ FenceHoldsWork

FenceInv ==
  TypeOK /\ Handlers /\ RedriveIsArmed /\ CanceledIsQuiet /\ DownIsEmpty /\ ResetIsClean

Runs     == [phase : Handled, live : BOOLEAN, step : {"checking", "creating", "prompting"},
             session : SessionIds \cup {0}]
Redrives == [armed : BOOLEAN, attempts : 0 .. MaxRetries, exhausted : BOOLEAN]

\* The handlers rs may be those of a ticket in status t under marker `fenced'.
Fits(rs, t, fenced) ==
  /\ \A r \in rs : IF r.live THEN r.phase = t /\ ~fenced ELSE fenced \/ t \in Terminal
  /\ \A r, q \in rs : r.live /\ q.live => r = q
  /\ t = "BLOCKED_ERROR" => rs = {}
  /\ t = "CANCELED" => \A r \in rs : ~r.live

-----------------------------------------------------------------------------
(* The machine.                                                             *)

LEMMA StatusNames ==
  /\ "BLOCKED_ERROR" \notin Resumable \cup Handled \cup Terminal
  /\ Terminal = {"COMPLETED", "CANCELED"}
  /\ Terminal \cap (Resumable \cup Handled) = {}
  /\ "WAITING_PR_REVIEW" \in Resumable \ Handled
  /\ Handled \subseteq Resumable
  /\ Statuses = Resumable \cup {"BLOCKED_ERROR"} \cup Terminal
  BY DEF Resumable, Handled, Terminal, Statuses, PlanningStatuses, InterviewStatuses,
     PrdStatuses, BeadsStatuses, ExecutionBand

LEMMA ForwardNames ==
  \A edge \in ForwardEdges :
    /\ edge[1] \in Resumable
    /\ edge[3] \in Resumable \cup {"COMPLETED"}
    /\ edge[2] \notin RecoveryEvents \cup {"CANCEL"}
<1>1. \A edge \in ForwardEdges : edge[1] \in Resumable
  BY SMTT(60) DEF ForwardEdges, PlanningEdges, ExecutionEdges, Resumable,
     PlanningStatuses, InterviewStatuses, PrdStatuses, BeadsStatuses, ExecutionBand
<1>2. \A edge \in ForwardEdges : edge[3] \in Resumable \cup {"COMPLETED"}
  BY SMTT(60) DEF ForwardEdges, PlanningEdges, ExecutionEdges, Resumable,
     PlanningStatuses, InterviewStatuses, PrdStatuses, BeadsStatuses, ExecutionBand
<1>3. \A edge \in ForwardEdges : edge[2] \notin RecoveryEvents \cup {"CANCEL"}
  BY SMTT(60) DEF ForwardEdges, PlanningEdges, ExecutionEdges, RecoveryEvents
<1> QED BY <1>1, <1>2, <1>3

LEMMA FailureNames ==
  \A edge \in FailureEdges :
    /\ edge[1] \in Resumable
    /\ edge[2] \notin RecoveryEvents \cup FoundWhileChecking
                        \cup {"CANCEL", "CLOSE_UNMERGED_COMPLETE"}
  BY SMTT(60) DEF FailureEdges, Resumable, PlanningStatuses, InterviewStatuses, PrdStatuses,
     BeadsStatuses, ExecutionBand, RecoveryEvents, FoundWhileChecking

\* Where an event leads: a status of the workflow, CANCELED only by CANCEL and
\* CANCEL nowhere else, from BLOCKED_ERROR only back or to the end.
LEMMA TargetNames ==
  ASSUME NEW m, NEW e, NEW t \in Targets(m, e)
  PROVE  /\ t \in Statuses
         /\ t = "CANCELED" <=> e = "CANCEL"
         /\ t = "CANCELED" => m.status \in Cancelable
         /\ m.status = "BLOCKED_ERROR" /\ t # "CANCELED" => e \in RecoveryEvents
         /\ e \in FoundWhileChecking \cup {"CLOSE_UNMERGED_COMPLETE"} => t # "BLOCKED_ERROR"
<1> USE StatusNames
<1>1. CASE t \in ForwardTargets(m, e)
  <2>1. PICK edge \in ForwardEdges : edge[1] = m.status /\ edge[2] = e /\ edge[3] = t
    BY <1>1 DEF ForwardTargets
  <2>2. /\ m.status \in Resumable /\ t \in Resumable \cup {"COMPLETED"}
        /\ e \notin RecoveryEvents \cup {"CANCEL"}
    BY <2>1, ForwardNames
  <2> QED BY <2>2
<1>2. CASE t \in AfterTestsTargets(m, e)
  BY <1>2 DEF AfterTestsTargets, Resumable, ExecutionBand
<1>3. CASE t \in FailureTargets(m, e)
  <2>1. t = "BLOCKED_ERROR" /\ <<m.status, e>> \in FailureEdges
    BY <1>3 DEF FailureTargets
  <2> QED BY <2>1, FailureNames
<1>4. CASE t \in CancelTargets(m, e)
  <2>1. t = "CANCELED" /\ e = "CANCEL" /\ m.status \in Cancelable
    BY <1>4 DEF CancelTargets
  <2> QED BY <2>1 DEF FoundWhileChecking
<1>5. CASE t \in ResumeTargets(m, e)
  BY <1>5 DEF ResumeTargets, RecoveryEvents, FoundWhileChecking
<1> QED BY <1>1, <1>2, <1>3, <1>4, <1>5 DEF Targets

\* What a handler reports is neither a cancel nor a recovery.
LEMMA ResultNames ==
  ASSUME NEW r, NEW e \in Results(r)
  PROVE  e \notin RecoveryEvents \cup {"CANCEL"}
<1>1. CASE ForwardTargets([status |-> r.phase], e) # {}
  BY <1>1, ForwardNames DEF ForwardTargets
<1>2. CASE AfterTestsTargets([status |-> r.phase], e) # {}
  BY <1>2 DEF AfterTestsTargets, RecoveryEvents
<1> QED BY <1>1, <1>2 DEF Results

-----------------------------------------------------------------------------
(* The runner and the redrive timer.                                        *)

LEMMA RunTypes ==
  ASSUME NEW rs \in SUBSET Runs
  PROVE  /\ Aborted(rs) \in SUBSET Runs
         /\ \A r \in Aborted(rs) : ~r.live
         /\ Creating(Aborted(rs)) <=> Creating(rs)
         /\ rs = {} => Aborted(rs) = {}
         /\ \A t \in Handled : NewRun(t) \in Runs
<1>1. \A r \in rs : [r EXCEPT !.live = FALSE] \in Runs
  BY DEF Runs
<1>2. \A r \in rs : [r EXCEPT !.live = FALSE].live = FALSE
                    /\ [r EXCEPT !.live = FALSE].step = r.step
  BY DEF Runs
<1>3. Aborted(rs) \in SUBSET Runs /\ \A r \in Aborted(rs) : ~r.live
  BY <1>1, <1>2 DEF Aborted
<1>4. Creating(Aborted(rs)) <=> Creating(rs)
  BY <1>2 DEF Aborted, Creating
<1>5. rs = {} => Aborted(rs) = {}
  BY DEF Aborted
<1>6. \A t \in Handled : NewRun(t) \in Runs
  BY DEF NewRun, Runs
<1> QED BY <1>3, <1>4, <1>5, <1>6

\* The timer is set, or the automatic retries have run out.
LEMMA ScheduledArms ==
  ASSUME NEW timer \in Redrives
  PROVE  /\ Scheduled(timer) \in Redrives
         /\ Scheduled(timer).armed \/ Scheduled(timer).exhausted
<1>1. CASE timer.armed
  BY <1>1 DEF Scheduled
<1>2. CASE ~timer.armed /\ timer.attempts >= MaxRetries
  BY <1>2, FenceAssumption DEF Scheduled, Redrives
<1>3. CASE ~timer.armed /\ ~(timer.attempts >= MaxRetries)
  <2>1. timer.attempts \in 0 .. MaxRetries /\ MaxRetries \in Nat
    BY FenceAssumption DEF Redrives
  <2>2. timer.attempts + 1 \in 0 .. MaxRetries
    BY <1>3, <2>1
  <2> QED BY <1>3, <2>2 DEF Scheduled, Redrives
<1> QED BY <1>1, <1>2, <1>3

\* An emission leaves handlers that fit the status it emits, and a fence it
\* leaves standing is on the timer, if no pass is at work.
LEMMA EmissionKeeps ==
  ASSUME TypeOK, NEW t \in Statuses, NEW rs \in SUBSET Runs, NEW fenced \in BOOLEAN,
         Emission(t, rs, fenced), status' = t,
         t = "CANCELED" \/ Fits(rs, t, fenced)
  PROVE  /\ Handlers'
         /\ runs' \in SUBSET Runs /\ marked' \in BOOLEAN /\ redrive' \in Redrives
         /\ marked' /\ t \notin Terminal /\ pass.pc = "idle"
              => redrive'.armed \/ redrive'.exhausted
         /\ Creating(runs') => Creating(rs)
         /\ marked' => fenced
<1>1. redrive \in Redrives /\ NoRedrive \in Redrives
  BY FenceAssumption DEF TypeOK, Redrives, NoRedrive
<1>2. CASE t = "CANCELED" /\ CanceledEmission(rs, fenced)
  <2>1. runs' = Aborted(rs) /\ redrive' \in {NoRedrive, redrive}
    BY <1>2 DEF CanceledEmission
  <2>2. /\ runs' \in SUBSET Runs /\ \A r \in runs' : ~r.live
        /\ Creating(runs') => Creating(rs)
    BY <2>1, RunTypes
  <2>3. Handlers'
    BY <1>2, <2>2, StatusNames
       DEF Handlers, LiveIsCurrent, AbortedIsFenced, BlockedIsIdle, FenceHoldsWork
  <2>4. marked' \in BOOLEAN /\ (marked' => fenced)
    <3>1. CASE marked' = FALSE
      BY <3>1
    <3>2. CASE marked' = fenced
      BY <3>2
    <3> QED BY <1>2, <3>1, <3>2 DEF CanceledEmission
  <2>5. t \in Terminal /\ redrive' \in Redrives
    BY <1>1, <1>2, <2>1, StatusNames
  <2> QED BY <2>2, <2>3, <2>4, <2>5
<1>3. CASE t = "COMPLETED" /\ CompletedEmission(rs)
  <2>1. runs' = rs /\ marked' = FALSE /\ redrive' = NoRedrive
    BY <1>3 DEF CompletedEmission
  <2>2. Handlers'
    BY <1>3, <2>1, StatusNames
       DEF Fits, Handlers, LiveIsCurrent, AbortedIsFenced, BlockedIsIdle, FenceHoldsWork
  <2> QED BY <1>1, <1>3, <2>1, <2>2, StatusNames
<1>4. CASE t \notin Terminal /\ fenced /\ FencedEmission(rs)
  <2>1. /\ runs' = rs /\ marked' = TRUE
        /\ redrive' = IF pass.pc = "idle" THEN Scheduled(redrive) ELSE redrive
    BY <1>4 DEF FencedEmission, SchedulePending
  <2>2. Handlers'
    BY <1>4, <2>1, StatusNames
       DEF Fits, Handlers, LiveIsCurrent, AbortedIsFenced, BlockedIsIdle, FenceHoldsWork
  <2>3. redrive' \in Redrives /\ (pass.pc = "idle" => redrive'.armed \/ redrive'.exhausted)
    BY <1>1, <2>1, ScheduledArms
  <2> QED BY <1>4, <2>1, <2>2, <2>3
<1>5. CASE /\ t \notin Terminal /\ ~fenced
           /\ runs' = IF t \in Handled /\ ~\E r \in rs : r.live /\ r.phase = t
                        THEN rs \cup {NewRun(t)} ELSE rs
           /\ marked' = FALSE
           /\ UNCHANGED redrive
  <2>1. Fits(rs, t, fenced) /\ (\A r \in rs : r.live /\ r.phase = t)
    BY <1>5, StatusNames DEF Fits
  <2>2. /\ NewRun(t).live /\ NewRun(t).phase = t /\ NewRun(t).step # "creating"
    BY DEF NewRun
  <2>3. \/ runs' = rs
        \/ t \in Handled /\ rs = {} /\ runs' = {NewRun(t)}
    BY <1>5, <2>1
  <2>4. LiveIsCurrent' /\ AbortedIsFenced' /\ FenceHoldsWork'
    <3>1. \A r \in runs' : r.live /\ r.phase = t
      BY <2>1, <2>2, <2>3
    <3>2. \A r, q \in runs' : r = q
      BY <2>1, <2>3, <3>1 DEF Fits
    <3> QED BY <1>5, <3>1, <3>2, StatusNames DEF LiveIsCurrent, AbortedIsFenced, FenceHoldsWork
  <2>5. BlockedIsIdle'
    BY <2>1, <2>3, StatusNames DEF Fits, BlockedIsIdle
  <2>6. runs' \in SUBSET Runs /\ (Creating(runs') => Creating(rs))
    BY <2>2, <2>3, RunTypes DEF Creating
  <2> QED BY <1>1, <1>5, <2>4, <2>5, <2>6 DEF Handlers
<1> QED BY <1>2, <1>3, <1>4, <1>5 DEF Emission

\* An event that reaches the ticket: its status is one an event leads to, or
\* the ticket stays where it is.
LEMMA SendKeeps ==
  ASSUME TypeOK, NEW e, NEW rs \in SUBSET Runs, NEW fenced \in BOOLEAN,
         Send(e, rs, fenced),
         \A t \in Targets(Context, e) : t = "CANCELED" \/ Fits(rs, t, fenced),
         Targets(Context, e) = {} => Fits(rs, status, fenced)
  PROVE  /\ Handlers'
         /\ status' \in Statuses /\ previous' \in Statuses \cup {None}
         /\ runs' \in SUBSET Runs /\ marked' \in BOOLEAN /\ redrive' \in Redrives
         /\ marked' /\ status' \notin Terminal /\ pass.pc = "idle"
              => redrive'.armed \/ redrive'.exhausted
         /\ Creating(runs') => Creating(rs)
         /\ marked' => fenced
         /\ status \notin Terminal
         /\ status' \in Targets(Context, e) \/ (status' = status /\ previous' = previous)
<1>1. status \in Statuses /\ previous \in Statuses \cup {None}
  BY DEF TypeOK
<1>2. CASE \E t \in Targets(Context, e) \cap Scope :
             /\ status'   = t
             /\ previous' = ContextAfter(Context, e, t).previous
             /\ Emission(t, rs, fenced)
  <2>1. PICK t \in Targets(Context, e) :
               /\ status'   = t
               /\ previous' = ContextAfter(Context, e, t).previous
               /\ Emission(t, rs, fenced)
    BY <1>2
  <2>2. t \in Statuses
    BY TargetNames
  <2>3. ContextAfter(Context, e, t).previous \in {status, previous}
    BY DEF ContextAfter, Context
  <2>4. t = "CANCELED" \/ Fits(rs, t, fenced)
    OBVIOUS
  <2>5. status \notin Terminal
    BY DEF Send
  <2> QED BY <1>1, <2>1, <2>2, <2>3, <2>4, <2>5, EmissionKeeps
<1>3. CASE /\ Targets(Context, e) = {}
           /\ UNCHANGED ticket
           /\ Emission(status, rs, fenced)
  <2>1. status' = status /\ previous' = previous /\ status \notin Terminal
    BY <1>3 DEF Send, ticket
  <2>2. Fits(rs, status, fenced)
    BY <1>3
  <2> QED BY <1>1, <1>3, <2>1, <2>2, EmissionKeeps
<1> QED BY <1>2, <1>3 DEF Send

-----------------------------------------------------------------------------
(* Steps in general.                                                        *)

Cancels    == [pc : {"idle", "rejecting", "stopping"}, seen : SUBSET SessionIds,
               clean : BOOLEAN]
Recoveries == [pc : {"idle", "retrying", "resetting", "continuing"},
               seen : SUBSET SessionIds, clean : BOOLEAN]
Passes     == [pc : {"idle", "stopping"}, seen : SUBSET SessionIds,
               clean : BOOLEAN, owned : BOOLEAN]

LEMMA Types ==
  TypeOK <=> /\ up \in BOOLEAN /\ marked \in BOOLEAN
             /\ status \in Statuses /\ previous \in Statuses \cup {None}
             /\ runs \in SUBSET Runs
             /\ sessions \in SUBSET SessionIds /\ windows \subseteq sessions
             /\ opened \in 0 .. MaxSessions
             /\ cancel \in Cancels /\ recovery \in Recoveries /\ pass \in Passes
             /\ redrive \in Redrives /\ crashes \in 0 .. MaxCrashes
  BY DEF TypeOK, Runs, Cancels, Recoveries, Passes, Redrives

LEMMA Waiting ==
  ASSUME NEW ss \in SUBSET SessionIds
  PROVE  /\ Idle \in Cancels /\ Idle \in Recoveries /\ NoPass \in Passes
         /\ Idle.pc = "idle" /\ NoPass.pc = "idle"
         /\ [Idle EXCEPT !.pc = "resetting"] \in Recoveries
         /\ \A pc \in {"rejecting", "stopping"} : Waits(pc, ss) \in Cancels
         /\ \A pc \in {"retrying", "continuing"} : Waits(pc, ss) \in Recoveries
         /\ \A pc : Waits(pc, ss).pc = pc
  BY DEF Idle, NoPass, Waits, Cancels, Recoveries, Passes, Creating

\* An event is sent, sessions are closed at most, and if it is CANCEL nothing
\* is left.
LEMMA SendStep ==
  ASSUME FenceInv, up, UNCHANGED <<up, opened, crashes>>,
         NEW e, NEW rs \in SUBSET Runs, NEW fenced \in BOOLEAN, Send(e, rs, fenced),
         \A t \in Targets(Context, e) : t = "CANCELED" \/ Fits(rs, t, fenced),
         Targets(Context, e) = {} => Fits(rs, status, fenced),
         sessions' \subseteq sessions, windows' \subseteq sessions',
         cancel' \in Cancels, recovery' \in Recoveries, pass' \in Passes,
         pass'.pc = "idle" => pass.pc = "idle",
         e = "CANCEL" => sessions' = {} /\ ~Creating(rs),
         recovery'.pc = "resetting" => recovery.pc = "resetting" /\ e \notin RecoveryEvents
  PROVE  FenceInv'
<1>1. TypeOK
  BY DEF FenceInv
<1>2. /\ Handlers'
      /\ status' \in Statuses /\ previous' \in Statuses \cup {None}
      /\ runs' \in SUBSET Runs /\ marked' \in BOOLEAN /\ redrive' \in Redrives
      /\ marked' /\ status' \notin Terminal /\ pass.pc = "idle"
           => redrive'.armed \/ redrive'.exhausted
      /\ Creating(runs') => Creating(rs)
      /\ status \notin Terminal
      /\ status' \in Targets(Context, e) \/ status' = status
  BY <1>1, SendKeeps
<1>3. TypeOK'
  <2>1. /\ up' \in BOOLEAN /\ opened' \in 0 .. MaxSessions /\ crashes' \in 0 .. MaxCrashes
        /\ sessions' \in SUBSET SessionIds
    BY <1>1, Types
  <2> QED BY <1>2, <2>1 DEF TypeOK, Runs, Cancels, Recoveries, Passes, Redrives
<1>4. RedriveIsArmed'
  BY <1>2 DEF RedriveIsArmed
<1>5. CanceledIsQuiet'
  <2>1. status' = "CANCELED" => e = "CANCEL"
    BY <1>2, StatusNames, TargetNames
  <2> QED BY <1>2, <2>1 DEF CanceledIsQuiet
<1>6. DownIsEmpty'
  BY DEF DownIsEmpty
<1>7. ResetIsClean'
  <2> SUFFICES ASSUME recovery'.pc = "resetting", status' # "CANCELED"
               PROVE  status' = "BLOCKED_ERROR" /\ sessions' = {}
    BY DEF ResetIsClean
  <2>1. status = "BLOCKED_ERROR" /\ sessions = {} /\ e \notin RecoveryEvents
    BY <1>2, StatusNames DEF FenceInv, ResetIsClean
  <2>2. status' = status
    BY <1>2, <2>1, TargetNames DEF Context
  <2> QED BY <2>1, <2>2
<1> QED BY <1>2, <1>3, <1>4, <1>5, <1>6, <1>7 DEF FenceInv

\* The ticket stays where it is.
LEMMA QuietStep ==
  ASSUME FenceInv, up, UNCHANGED <<up, ticket, crashes>>, Handlers',
         runs' \in SUBSET Runs, marked' \in BOOLEAN, redrive' \in Redrives,
         cancel' \in Cancels, recovery' \in Recoveries, pass' \in Passes,
         opened' \in 0 .. MaxSessions,
         sessions' \in SUBSET SessionIds, windows' \subseteq sessions',
         marked' /\ status \notin Terminal /\ cancel'.pc = "idle" /\ pass'.pc = "idle"
           => redrive'.armed \/ redrive'.exhausted,
         status = "CANCELED" => sessions' \subseteq sessions /\ (Creating(runs') => Creating(runs)),
         recovery'.pc = "resetting" =>
           \/ recovery.pc = "resetting" /\ sessions' \subseteq sessions
           \/ status = "BLOCKED_ERROR" /\ sessions' = {}
  PROVE  FenceInv'
<1>1. status' = status /\ previous' = previous
  BY DEF ticket
<1>2. TypeOK'
  <2>1. /\ up' \in BOOLEAN /\ crashes' \in 0 .. MaxCrashes
        /\ status' \in Statuses /\ previous' \in Statuses \cup {None}
    BY <1>1, Types DEF FenceInv
  <2> QED BY <2>1 DEF TypeOK, Runs, Cancels, Recoveries, Passes, Redrives
<1>3. RedriveIsArmed'
  BY <1>1 DEF RedriveIsArmed
<1>4. CanceledIsQuiet'
  BY <1>1 DEF FenceInv, CanceledIsQuiet
<1>5. DownIsEmpty'
  BY DEF DownIsEmpty
<1>6. ResetIsClean'
  BY <1>1 DEF FenceInv, ResetIsClean
<1> QED BY <1>2, <1>3, <1>4, <1>5, <1>6 DEF FenceInv

-----------------------------------------------------------------------------
(* The handlers.                                                            *)

LEMMA NoneFits ==
  ASSUME NEW t, NEW fenced
  PROVE  Fits({}, t, fenced)
  BY DEF Fits

\* A live handler is alone, and there is no fence.
LEMMA LiveIsAlone ==
  ASSUME FenceInv, up, NEW r \in runs, r.live
  PROVE  /\ runs \ {r} = {} /\ ~marked
         /\ status = r.phase /\ status \in Handled
<1>1. r.phase = status /\ r.phase \in Handled /\ ~marked
  BY Types DEF FenceInv, Handlers, LiveIsCurrent, FenceHoldsWork, Runs
<1>2. \A q \in runs : q.live
  BY <1>1, StatusNames DEF FenceInv, Handlers, AbortedIsFenced
<1>3. \A q \in runs : q = r
  BY <1>2 DEF FenceInv, Handlers, LiveIsCurrent
<1> QED BY <1>1, <1>3

\* The handlers there are fit the ticket, and after an abort they fit the fence.
LEMMA NowFits ==
  ASSUME FenceInv, up
  PROVE  /\ Fits(runs, status, marked)
         /\ Fits(Aborted(runs), status, TRUE)
<1>1. runs \in SUBSET Runs
  BY Types DEF FenceInv
<1>2. Fits(runs, status, marked)
  BY DEF FenceInv, Handlers, LiveIsCurrent, AbortedIsFenced, BlockedIsIdle,
         FenceHoldsWork, Fits
<1>3. Fits(Aborted(runs), status, TRUE)
  BY <1>1, <1>2, RunTypes DEF Fits
<1> QED BY <1>2, <1>3

\* Some handlers end.
LEMMA FewerHandlers ==
  ASSUME Handlers, UNCHANGED <<up, ticket, marked>>, runs' \subseteq runs
  PROVE  Handlers'
  BY DEF Handlers, LiveIsCurrent, AbortedIsFenced, BlockedIsIdle, FenceHoldsWork, ticket

\* One of them goes on.
LEMMA HandlerGoesOn ==
  ASSUME Handlers, UNCHANGED <<up, ticket, marked>>, NEW r \in runs, NEW q,
         q.live = r.live, q.phase = r.phase, runs' = (runs \ {r}) \cup {q}
  PROVE  Handlers'
<1>1. LiveIsCurrent'
  BY DEF Handlers, LiveIsCurrent, ticket
<1>2. AbortedIsFenced' /\ FenceHoldsWork'
  BY DEF Handlers, AbortedIsFenced, FenceHoldsWork, ticket
<1>3. BlockedIsIdle'
  BY DEF Handlers, BlockedIsIdle, ticket
<1> QED BY <1>1, <1>2, <1>3 DEF Handlers

\* They are all aborted under a fence.
LEMMA HandlersAborted ==
  ASSUME Handlers, runs \in SUBSET Runs, UNCHANGED ticket,
         runs' = Aborted(runs), marked' = TRUE
  PROVE  Handlers'
<1>1. (\A r \in runs' : ~r.live) /\ (runs = {} => runs' = {})
  BY RunTypes
<1> QED BY <1>1 DEF Handlers, LiveIsCurrent, AbortedIsFenced, BlockedIsIdle,
                    FenceHoldsWork, ticket

\* The fence is lifted where nothing works: from a canceled or a blocked ticket.
LEMMA FenceLifted ==
  ASSUME Handlers, up, UNCHANGED <<up, ticket, runs>>, marked' = FALSE,
         status \in {"CANCELED", "BLOCKED_ERROR"}
  PROVE  Handlers'
  BY StatusNames DEF Handlers, LiveIsCurrent, AbortedIsFenced, BlockedIsIdle,
                     FenceHoldsWork, ticket

-----------------------------------------------------------------------------
(* Handler runs.                                                            *)

LEMMA OpenSessionKeeps ==
  ASSUME FenceInv, NEW r \in runs, OpenSession(r)
  PROVE  FenceInv'
<1>1. PICK q \in Runs : q.live = r.live /\ q.phase = r.phase /\ runs' = (runs \ {r}) \cup {q}
  <2>1. r \in Runs /\ sessions \in SUBSET SessionIds
    BY Types DEF FenceInv
  <2>2. \A s \in sessions : LET q == [r EXCEPT !.step = "prompting", !.session = s]
                            IN  q \in Runs /\ q.live = r.live /\ q.phase = r.phase
    BY <2>1 DEF Runs
  <2>3. LET q == [r EXCEPT !.step = "creating"]
        IN  q \in Runs /\ q.live = r.live /\ q.phase = r.phase
    BY <2>1 DEF Runs
  <2> QED BY <2>2, <2>3 DEF OpenSession
<1>2. up /\ status # "CANCELED"
  BY LiveIsAlone, StatusNames DEF OpenSession
<1>3. UNCHANGED <<up, ticket, marked, remote, cancel, recovery, pass, redrive, crashes>>
  BY DEF OpenSession
<1>4. Handlers'
  BY <1>1, <1>3, HandlerGoesOn DEF FenceInv
<1>5. TypeOK /\ RedriveIsArmed /\ ResetIsClean
  BY DEF FenceInv
<1>6. runs' \in SUBSET Runs
  BY <1>1, <1>5, Types
<1> QED BY <1>2, <1>3, <1>4, <1>5, <1>6, QuietStep, Types DEF RedriveIsArmed, remote, ticket

LEMMA SessionOpenedKeeps ==
  ASSUME FenceInv, NEW r \in runs, SessionOpened(r)
  PROVE  FenceInv'
<1> DEFINE q == [r EXCEPT !.step = "prompting", !.session = opened']
<1>1. TypeOK /\ RedriveIsArmed /\ Handlers /\ BlockedIsIdle /\ CanceledIsQuiet /\ ResetIsClean
  BY DEF FenceInv, Handlers
<1>2. /\ up /\ r.step = "creating" /\ opened < MaxSessions /\ opened' = opened + 1
      /\ sessions' = sessions \cup {opened'} /\ runs' = (runs \ {r}) \cup {q}
      /\ UNCHANGED <<up, ticket, marked, windows, cancel, recovery, pass, redrive, crashes>>
  BY DEF SessionOpened
<1>3. opened' \in SessionIds /\ opened' \in 0 .. MaxSessions
  <2>1. opened \in 0 .. MaxSessions /\ MaxSessions \in Nat
    BY <1>1, FenceAssumption, Types
  <2> QED BY <1>2, <2>1 DEF SessionIds
<1>4. q \in Runs /\ q.live = r.live /\ q.phase = r.phase
  BY <1>1, <1>3, Types DEF Runs
<1>5. status # "CANCELED" /\ status # "BLOCKED_ERROR" /\ recovery.pc # "resetting"
  BY <1>1, <1>2 DEF CanceledIsQuiet, Creating, BlockedIsIdle, ResetIsClean
<1>6. Handlers'
  BY <1>1, <1>2, <1>4, HandlerGoesOn
<1>7. runs' \in SUBSET Runs /\ sessions' \in SUBSET SessionIds /\ windows' \subseteq sessions'
  BY <1>1, <1>2, <1>3, <1>4, Types
<1> HIDE DEF q
<1> QED BY <1>1, <1>2, <1>3, <1>5, <1>6, <1>7, QuietStep, Types DEF RedriveIsArmed

\* A window opens or closes, an aborted handler unwinds.
LEMMA WindowOrUnwind ==
  ASSUME FenceInv, up,
         UNCHANGED <<up, ticket, marked, opened, cancel, recovery, pass, redrive, crashes>>,
         runs' \subseteq runs, sessions' \subseteq sessions, windows' \subseteq sessions'
  PROVE  FenceInv'
<1>1. TypeOK /\ RedriveIsArmed /\ Handlers
  BY DEF FenceInv
<1>2. Handlers'
  BY <1>1, FewerHandlers
<1>3. runs' \in SUBSET Runs /\ sessions' \in SUBSET SessionIds
  BY <1>1, Types
<1> QED BY <1>1, <1>2, <1>3, QuietStep, Types DEF RedriveIsArmed, Creating

LEMMA AskQuestionKeeps ==
  ASSUME FenceInv, NEW r \in runs, AskQuestion(r)
  PROVE  FenceInv'
<1>1. windows' \subseteq sessions
  BY Types DEF FenceInv, AskQuestion
<1> QED BY <1>1, WindowOrUnwind DEF AskQuestion

LEMMA AnswerQuestionKeeps ==
  ASSUME FenceInv, NEW s \in windows, AnswerQuestion(s)
  PROVE  FenceInv'
<1>1. windows' \subseteq sessions
  BY Types DEF FenceInv, AnswerQuestion
<1> QED BY <1>1, WindowOrUnwind DEF AnswerQuestion

LEMMA UnwindKeeps ==
  ASSUME FenceInv, NEW r \in runs, Unwind(r)
  PROVE  FenceInv'
<1>1. windows \subseteq sessions
  BY Types DEF FenceInv
<1> QED BY <1>1, WindowOrUnwind DEF Unwind

\* The live handler ends with an event, and may close its session.
LEMMA HandlerEnds ==
  ASSUME FenceInv, up, UNCHANGED <<up, opened, cancel, recovery, pass, crashes>>,
         NEW r \in runs, r.live, NEW e, e \notin RecoveryEvents \cup {"CANCEL"},
         Send(e, runs \ {r}, marked), NEW gone,
         sessions' = sessions \ gone, windows' = windows \ gone
  PROVE  FenceInv'
<1>1. TypeOK
  BY DEF FenceInv
<1>2. runs \ {r} = {} /\ runs \ {r} \in SUBSET Runs
  BY <1>1, LiveIsAlone, Types
<1>3. \A t : Fits(runs \ {r}, t, marked)
  BY <1>2, NoneFits
<1>4. sessions' \subseteq sessions /\ windows' \subseteq sessions'
  BY <1>1, Types
<1>5. marked \in BOOLEAN /\ cancel' \in Cancels /\ recovery' \in Recoveries /\ pass' \in Passes
  BY <1>1, Types
<1> QED BY <1>2, <1>3, <1>4, <1>5, SendStep

LEMMA FinishKeeps ==
  ASSUME FenceInv, NEW r \in runs, NEW e, Finish(r, e)
  PROVE  FenceInv'
<1>1. e \notin RecoveryEvents \cup {"CANCEL"}
  BY ResultNames DEF Finish
<1> QED BY <1>1, HandlerEnds DEF Finish

LEMMA FailKeeps ==
  ASSUME FenceInv, NEW r \in runs, Fail(r)
  PROVE  FenceInv'
<1>1. "ERROR" \notin RecoveryEvents \cup {"CANCEL"}
  BY DEF RecoveryEvents
<1> QED BY <1>1, HandlerEnds DEF Fail

LEMMA LateResultKeeps ==
  ASSUME FenceInv, NEW r \in runs, NEW e, LateResult(r, e)
  PROVE  FenceInv'
<1>1. /\ TypeOK /\ up /\ ~r.live /\ e \in Results(r) \cap FoundWhileChecking
      /\ UNCHANGED <<up, remote, cancel, recovery, pass, crashes>>
  BY DEF FenceInv, LateResult
<1>2. runs \ {r} \in SUBSET Runs /\ windows \subseteq sessions
  BY <1>1, Types
<1>3. CASE Send(e, runs \ {r}, marked)
  <2>1. status \notin Terminal
    BY <1>3 DEF Send
  <2>2. marked /\ status # "BLOCKED_ERROR"
    BY <1>1, <2>1 DEF FenceInv, Handlers, AbortedIsFenced, BlockedIsIdle
  <2>3. \A q \in runs \ {r} : ~q.live
    BY <1>1, <2>2 DEF FenceInv, Handlers, FenceHoldsWork
  <2>4. \A t : t # "BLOCKED_ERROR" => Fits(runs \ {r}, t, marked)
    BY <2>2, <2>3 DEF Fits
  <2>5. \A t \in Targets(Context, e) : t # "BLOCKED_ERROR"
    BY <1>1, TargetNames
  <2>6. e \notin RecoveryEvents \cup {"CANCEL"}
    BY <1>1, ResultNames
  <2>7. marked \in BOOLEAN /\ cancel' \in Cancels /\ recovery' \in Recoveries /\ pass' \in Passes
    BY <1>1, Types
  <2> QED BY <1>1, <1>2, <1>3, <2>2, <2>4, <2>5, <2>6, <2>7, SendStep DEF remote
<1>4. CASE status \in Terminal /\ runs' = runs \ {r} /\ UNCHANGED <<ticket, marked, redrive>>
  BY <1>1, <1>2, <1>4, WindowOrUnwind DEF remote
<1> QED BY <1>3, <1>4 DEF LateResult

LEMMA CompleteReviewKeeps ==
  ASSUME FenceInv, NEW e, CompleteReview(e)
  PROVE  FenceInv'
<1>1. /\ TypeOK /\ up /\ status = "WAITING_PR_REVIEW" /\ Send(e, runs, marked)
      /\ e \in FoundWhileChecking \cup {"CLOSE_UNMERGED_COMPLETE"}
      /\ e \notin RecoveryEvents \cup {"CANCEL"}
      /\ UNCHANGED <<up, remote, cancel, recovery, pass, crashes>>
  BY DEF FenceInv, CompleteReview, FoundWhileChecking, RecoveryEvents
<1>2. \A r \in runs : ~r.live /\ marked
  <2>1. \A r \in runs : ~r.live
    BY <1>1, LiveIsAlone, StatusNames
  <2> QED BY <1>1, <2>1, StatusNames DEF FenceInv, Handlers, AbortedIsFenced
<1>3. \A t : t # "BLOCKED_ERROR" => Fits(runs, t, marked)
  BY <1>2 DEF Fits
<1>4. \A t \in Targets(Context, e) : t # "BLOCKED_ERROR"
  BY <1>1, TargetNames
<1>5. /\ runs \in SUBSET Runs /\ windows \subseteq sessions /\ marked \in BOOLEAN
      /\ cancel' \in Cancels /\ recovery' \in Recoveries /\ pass' \in Passes
  BY <1>1, Types
<1> QED BY <1>1, <1>3, <1>4, <1>5, SendStep DEF remote

-----------------------------------------------------------------------------
(* Stopping the sessions.                                                   *)

\* A stop that counts leaves no session, and nothing that could open one.
LEMMA StopLeavesNothing ==
  ASSUME TypeOK, NEW seen, NEW clean, NEW outcome \in StopOutcomes(seen, clean), Stops(outcome)
  PROVE  /\ sessions' \subseteq sessions /\ windows' \subseteq sessions'
         /\ opened' = opened
         /\ outcome.ok => sessions' = {} /\ ~Creating(runs)
<1>1. PICK stopped \in SUBSET (seen \cap sessions) :
        outcome = [left |-> sessions \ stopped,
                   ok   |-> /\ clean /\ ~Creating(runs)
                            /\ stopped = seen
                            /\ sessions = stopped]
  BY DEF StopOutcomes
<1>2. outcome.left = sessions \ stopped
  BY <1>1
<1>3. outcome.ok = (clean /\ ~Creating(runs) /\ stopped = seen /\ sessions = stopped)
  BY <1>1
<1>4. outcome.ok => sessions = stopped /\ ~Creating(runs)
  BY <1>3
<1> QED BY <1>2, <1>4 DEF Stops

-----------------------------------------------------------------------------
(* The cancel request.                                                      *)

\* The handlers and the marker a cancel request goes on with: those there are,
\* or its own.
LEMMA CancelHandlers ==
  ASSUME FenceInv, up, NEW rs, NEW fenced,
         \/ rs = runs /\ fenced = marked
         \/ rs = Aborted(runs) /\ fenced = TRUE
  PROVE  /\ rs \in SUBSET Runs /\ fenced \in BOOLEAN
         /\ Fits(rs, status, fenced)
         /\ Creating(rs) <=> Creating(runs)
         /\ UNCHANGED <<up, ticket>> /\ runs' = rs /\ marked' = fenced => Handlers'
<1>1. TypeOK /\ Handlers
  BY DEF FenceInv
<1>2. runs \in SUBSET Runs /\ marked \in BOOLEAN
  BY <1>1, Types
<1>3. CASE rs = runs /\ fenced = marked
  BY <1>1, <1>2, <1>3, NowFits, FewerHandlers
<1>4. CASE rs = Aborted(runs) /\ fenced = TRUE
  BY <1>1, <1>2, <1>4, NowFits, RunTypes, HandlersAborted
<1> QED BY <1>3, <1>4

LEMMA CancelDecidedKeeps ==
  ASSUME FenceInv, up, UNCHANGED <<up, opened, recovery, crashes>>,
         NEW stopped, NEW rs, NEW fenced, CancelDecided(stopped, rs, fenced),
         \/ rs = runs /\ fenced = marked
         \/ rs = Aborted(runs) /\ fenced = TRUE,
         sessions' \subseteq sessions, windows' \subseteq sessions',
         pass' \in Passes, pass'.pc = pass.pc,
         stopped => sessions' = {} /\ ~Creating(runs)
  PROVE  FenceInv'
<1>1. TypeOK /\ RedriveIsArmed
  BY DEF FenceInv
<1>2. /\ rs \in SUBSET Runs /\ fenced \in BOOLEAN
      /\ Fits(rs, status, fenced)
      /\ Creating(rs) <=> Creating(runs)
      /\ UNCHANGED <<up, ticket>> /\ runs' = rs /\ marked' = fenced => Handlers'
  BY CancelHandlers
<1>3. /\ cancel' = Idle /\ cancel' \in Cancels /\ recovery' \in Recoveries
      /\ sessions' \in SUBSET SessionIds /\ opened' \in 0 .. MaxSessions
      /\ redrive \in Redrives
  BY <1>1, Waiting, Types DEF CancelDecided
<1>4. CASE stopped /\ Send("CANCEL", rs, fenced)
  <2>1. \A t \in Targets(Context, "CANCEL") : t = "CANCELED"
    BY TargetNames
  <2>2. "CANCEL" \notin RecoveryEvents
    BY DEF RecoveryEvents
  <2> QED BY <1>2, <1>3, <1>4, <2>1, <2>2, SendStep
<1>5. CASE /\ stopped /\ status \in Terminal
           /\ runs' = rs /\ marked' = fenced
           /\ UNCHANGED <<ticket, redrive>>
  BY <1>2, <1>3, <1>5, QuietStep
<1>6. CASE /\ ~stopped
           /\ runs' = rs /\ marked' = fenced
           /\ SchedulePending(fenced)
           /\ UNCHANGED ticket
  <2>1. redrive' = IF fenced /\ pass.pc = "idle" THEN Scheduled(redrive) ELSE redrive
    BY <1>6 DEF SchedulePending
  <2>2. redrive' \in Redrives
    BY <1>3, <2>1, ScheduledArms
  <2>3. fenced /\ pass.pc = "idle" => redrive'.armed \/ redrive'.exhausted
    BY <1>3, <2>1, ScheduledArms
  <2> QED BY <1>2, <1>3, <1>6, <2>2, <2>3, QuietStep
<1> QED BY <1>4, <1>5, <1>6 DEF CancelDecided

LEMMA CancelStopsKeeps ==
  ASSUME FenceInv, up, UNCHANGED <<up, opened, sessions, recovery, crashes>>,
         NEW rs, NEW fenced, CancelStops(rs, fenced),
         \/ rs = runs /\ fenced = marked
         \/ rs = Aborted(runs) /\ fenced = TRUE,
         windows' \subseteq sessions', pass' \in Passes, pass'.pc = pass.pc
  PROVE  FenceInv'
<1>1. TypeOK
  BY DEF FenceInv
<1>2. /\ rs \in SUBSET Runs /\ fenced \in BOOLEAN
      /\ Creating(rs) <=> Creating(runs)
      /\ UNCHANGED <<up, ticket>> /\ runs' = rs /\ marked' = fenced => Handlers'
  BY CancelHandlers
<1>3. CASE /\ sessions # {}
           /\ cancel' = Waits("stopping", sessions)
           /\ runs' = rs /\ marked' = fenced
           /\ UNCHANGED <<ticket, redrive>>
  <2>1. cancel' \in Cancels /\ cancel'.pc # "idle"
    BY <1>1, <1>3, Waiting, Types
  <2>2. /\ recovery' \in Recoveries /\ sessions' \in SUBSET SessionIds
        /\ opened' \in 0 .. MaxSessions /\ redrive' \in Redrives
    BY <1>1, <1>3, Types
  <2> QED BY <1>2, <1>3, <2>1, <2>2, QuietStep
<1>4. CASE sessions = {} /\ CancelDecided(~Creating(runs), rs, fenced)
  <2> DEFINE stopped == ~Creating(runs)
  <2>1. CancelDecided(stopped, rs, fenced)
    BY <1>4
  <2>2. sessions' = {} /\ sessions' \subseteq sessions
    BY <1>4
  <2>3. stopped => sessions' = {} /\ ~Creating(runs)
    BY <2>2
  <2> HIDE DEF stopped
  <2> QED BY <2>1, <2>2, <2>3, CancelDecidedKeeps
<1> QED BY <1>3, <1>4 DEF CancelStops

LEMMA RequestCancelKeeps ==
  ASSUME FenceInv, RequestCancel
  PROVE  FenceInv'
<1>1. /\ TypeOK /\ up
      /\ UNCHANGED <<up, remote, recovery, crashes>>
      /\ pass' = IF pass.pc = "idle" THEN pass ELSE [pass EXCEPT !.owned = FALSE]
  BY DEF FenceInv, RequestCancel
<1>2. /\ pass' \in Passes /\ pass'.pc = pass.pc
      /\ recovery' \in Recoveries /\ sessions' \in SUBSET SessionIds
      /\ opened' \in 0 .. MaxSessions /\ windows' \subseteq sessions'
  BY <1>1, Types DEF Passes, remote
<1>3. CASE /\ windows # {}
           /\ cancel' = Waits("rejecting", windows)
           /\ runs' = Aborted(runs) /\ marked' = TRUE
           /\ UNCHANGED <<ticket, redrive>>
  <2>1. Handlers' /\ runs' \in SUBSET Runs /\ (Creating(runs') => Creating(runs))
    BY <1>1, <1>3, CancelHandlers
  <2>2. cancel' \in Cancels /\ cancel'.pc # "idle" /\ redrive' \in Redrives
    BY <1>1, <1>3, Waiting, Types
  <2> QED BY <1>1, <1>2, <1>3, <2>1, <2>2, QuietStep DEF remote
<1>4. CASE windows = {} /\ CancelStops(Aborted(runs), TRUE)
  BY <1>1, <1>2, <1>4, CancelStopsKeeps DEF remote
<1> QED BY <1>3, <1>4 DEF RequestCancel

LEMMA WindowsRejectedKeeps ==
  ASSUME FenceInv, WindowsRejected
  PROVE  FenceInv'
<1>1. /\ TypeOK /\ up /\ CancelStops(runs, marked)
      /\ UNCHANGED <<up, sessions, opened, recovery, pass, crashes>>
  BY DEF FenceInv, WindowsRejected
<1>2. windows' \subseteq sessions' /\ pass' \in Passes
  BY <1>1, Types DEF WindowsRejected
<1> QED BY <1>1, <1>2, CancelStopsKeeps

LEMMA CancelStoppedKeeps ==
  ASSUME FenceInv, CancelStopped
  PROVE  FenceInv'
<1>1. /\ TypeOK /\ up /\ UNCHANGED <<up, recovery, pass, crashes>>
  BY DEF FenceInv, CancelStopped
<1>2. PICK outcome \in StopOutcomes(cancel.seen, cancel.clean) :
        Stops(outcome) /\ CancelDecided(outcome.ok, runs, marked)
  BY DEF CancelStopped
<1>3. /\ sessions' \subseteq sessions /\ windows' \subseteq sessions'
      /\ opened' = opened
      /\ outcome.ok => sessions' = {} /\ ~Creating(runs)
  BY <1>1, <1>2, StopLeavesNothing
<1>4. pass' \in Passes
  BY <1>1, Types
<1> QED BY <1>1, <1>2, <1>3, <1>4, CancelDecidedKeeps

-----------------------------------------------------------------------------
(* The cleanup pass.                                                        *)

LEMMA PassDecidedKeeps ==
  ASSUME FenceInv, up, UNCHANGED <<up, opened, cancel, recovery, crashes>>,
         NEW stopped, NEW owned, NEW timer \in Redrives,
         PassDecided(stopped, owned, timer),
         sessions' \subseteq sessions, windows' \subseteq sessions',
         stopped => sessions' = {} /\ ~Creating(runs)
  PROVE  FenceInv'
<1>1. TypeOK /\ Handlers
  BY DEF FenceInv
<1>2. /\ pass' \in Passes /\ pass' = NoPass
      /\ cancel' \in Cancels /\ recovery' \in Recoveries
      /\ sessions' \in SUBSET SessionIds /\ opened' \in 0 .. MaxSessions
      /\ runs \in SUBSET Runs /\ marked \in BOOLEAN /\ status \in Statuses
      /\ up' \in BOOLEAN /\ crashes' \in 0 .. MaxCrashes
  BY <1>1, Waiting, Types DEF PassDecided
<1>3. NoRedrive \in Redrives
  BY FenceAssumption DEF NoRedrive, Redrives
<1>4. UNCHANGED <<ticket, marked, runs>> => Handlers'
  BY <1>1, FewerHandlers
<1>5. CASE /\ status # "CANCELED" /\ ~marked
           /\ redrive' = NoRedrive
           /\ UNCHANGED <<ticket, marked, runs>>
  BY <1>2, <1>3, <1>4, <1>5, QuietStep
<1>6. CASE redrive' = Scheduled(timer) /\ UNCHANGED <<ticket, marked, runs>>
  <2>1. redrive' \in Redrives /\ (redrive'.armed \/ redrive'.exhausted)
    BY <1>6, ScheduledArms
  <2> QED BY <1>2, <1>4, <1>6, <2>1, QuietStep
<1>7. CASE /\ status = "CANCELED" /\ stopped /\ owned
           /\ marked' = FALSE /\ redrive' = NoRedrive
           /\ UNCHANGED <<ticket, runs>>
  <2>1. Handlers'
    BY <1>1, <1>7, FenceLifted
  <2> QED BY <1>2, <1>3, <1>7, <2>1, QuietStep
<1>8. CASE /\ marked /\ stopped /\ owned /\ Targets(Context, "CANCEL") # {}
           /\ status' = "CANCELED" /\ previous' = status
           /\ runs' = Aborted(runs) /\ marked' = FALSE /\ redrive' = NoRedrive
  <2>1. /\ runs' \in SUBSET Runs /\ (\A r \in runs' : ~r.live) /\ ~Creating(runs')
        /\ sessions' = {}
    BY <1>2, <1>8, RunTypes
  <2>2. "CANCELED" \in Terminal /\ "CANCELED" \in Statuses
    BY StatusNames
  <2>3. Handlers'
    BY <1>8, <2>1, <2>2 DEF Handlers, LiveIsCurrent, AbortedIsFenced, BlockedIsIdle,
                            FenceHoldsWork
  <2>4. TypeOK'
    BY <1>2, <1>3, <1>8, <2>1, <2>2
       DEF TypeOK, Runs, Cancels, Recoveries, Passes, Redrives
  <2>5. RedriveIsArmed' /\ CanceledIsQuiet' /\ DownIsEmpty' /\ ResetIsClean'
    BY <1>8, <2>1 DEF RedriveIsArmed, CanceledIsQuiet, DownIsEmpty, ResetIsClean
  <2> QED BY <2>3, <2>4, <2>5 DEF FenceInv
<1> QED BY <1>5, <1>6, <1>7, <1>8 DEF PassDecided

LEMMA TimerFiresKeeps ==
  ASSUME FenceInv, TimerFires
  PROVE  FenceInv'
<1> DEFINE timer == [redrive EXCEPT !.armed = FALSE]
<1>1. /\ TypeOK /\ Handlers /\ up /\ redrive.armed
      /\ UNCHANGED <<up, remote, cancel, recovery, crashes>>
  BY DEF FenceInv, TimerFires
<1>2. /\ timer \in Redrives /\ windows' \subseteq sessions'
      /\ cancel' \in Cancels /\ recovery' \in Recoveries
      /\ sessions' \in SUBSET SessionIds /\ opened' \in 0 .. MaxSessions
      /\ runs \in SUBSET Runs /\ marked \in BOOLEAN /\ pass \in Passes
  BY <1>1, Types DEF remote, Redrives
<1>3. UNCHANGED <<ticket, marked, runs>> => Handlers'
  BY <1>1, FewerHandlers
<1>4. CASE /\ status # "CANCELED" /\ ~marked
           /\ redrive' = timer
           /\ UNCHANGED <<ticket, marked, runs, pass>>
  BY <1>1, <1>2, <1>3, <1>4, QuietStep DEF remote
<1>5. CASE /\ sessions # {}
           /\ pass' = [NoPass EXCEPT !.pc = "stopping", !.seen = sessions,
                                     !.clean = ~Creating(runs)]
           /\ redrive' = timer
           /\ UNCHANGED <<ticket, marked, runs>>
  <2>1. pass' \in Passes /\ pass'.pc # "idle"
    BY <1>1, <1>5, Types DEF NoPass, Passes, Creating
  <2> QED BY <1>1, <1>2, <1>3, <1>5, <2>1, QuietStep DEF remote
<1>6. CASE sessions = {} /\ PassDecided(~Creating(runs), TRUE, timer)
  <2> HIDE DEF timer
  <2>1. CASE Creating(runs)
    <3>1. PassDecided(FALSE, TRUE, timer)
      BY <1>6, <2>1 DEF PassDecided
    <3> QED BY <1>1, <1>2, <1>6, <3>1, PassDecidedKeeps DEF remote
  <2>2. CASE ~Creating(runs)
    <3>1. PassDecided(TRUE, TRUE, timer)
      BY <1>6, <2>2 DEF PassDecided
    <3> QED BY <1>1, <1>2, <1>6, <2>2, <3>1, PassDecidedKeeps DEF remote
  <2> QED BY <2>1, <2>2
<1> QED BY <1>4, <1>5, <1>6 DEF TimerFires

LEMMA PassStoppedKeeps ==
  ASSUME FenceInv, PassStopped
  PROVE  FenceInv'
<1>1. /\ TypeOK /\ up /\ UNCHANGED <<up, cancel, recovery, crashes>>
  BY DEF FenceInv, PassStopped
<1>2. PICK outcome \in StopOutcomes(pass.seen, pass.clean) :
        Stops(outcome) /\ PassDecided(outcome.ok, pass.owned, redrive)
  BY DEF PassStopped
<1>3. /\ sessions' \subseteq sessions /\ windows' \subseteq sessions'
      /\ opened' = opened
      /\ outcome.ok => sessions' = {} /\ ~Creating(runs)
  BY <1>1, <1>2, StopLeavesNothing
<1>4. redrive \in Redrives
  BY <1>1, Types
<1> QED BY <1>1, <1>2, <1>3, <1>4, PassDecidedKeeps

-----------------------------------------------------------------------------
(* Retry and Continue.                                                      *)

LEMMA RetryDecidedKeeps ==
  ASSUME FenceInv, up, UNCHANGED <<up, opened, cancel, pass, crashes>>,
         NEW stopped, RetryDecided(stopped),
         sessions' \subseteq sessions, windows' \subseteq sessions',
         stopped => sessions' = {} /\ ~Creating(runs)
  PROVE  FenceInv'
<1>1. TypeOK /\ Handlers /\ RedriveIsArmed /\ BlockedIsIdle
  BY DEF FenceInv, Handlers
<1>2. /\ Idle \in Recoveries /\ Idle.pc # "resetting"
      /\ [Idle EXCEPT !.pc = "resetting"] \in Recoveries
      /\ cancel' \in Cancels /\ pass' \in Passes
      /\ sessions' \in SUBSET SessionIds /\ opened' \in 0 .. MaxSessions
      /\ runs \in SUBSET Runs /\ marked \in BOOLEAN /\ redrive \in Redrives
  BY <1>1, Waiting, Types
<1>3. CASE recovery' = Idle /\ UNCHANGED <<ticket, marked, runs, redrive>>
  <2>1. Handlers'
    BY <1>1, <1>3, FewerHandlers
  <2> QED BY <1>1, <1>2, <1>3, <2>1, QuietStep DEF RedriveIsArmed
<1>4. CASE /\ stopped /\ status = "BLOCKED_ERROR" /\ previous = "CODING"
           /\ recovery' = [Idle EXCEPT !.pc = "resetting"]
           /\ marked' = FALSE
           /\ UNCHANGED <<ticket, runs, redrive>>
  <2>1. Handlers'
    BY <1>1, <1>4, FenceLifted
  <2> QED BY <1>2, <1>4, <2>1, QuietStep
<1>5. CASE /\ stopped /\ status = "BLOCKED_ERROR"
           /\ recovery' = Idle
           /\ Send("RETRY", runs, FALSE)
  <2>1. \A t : Fits(runs, t, FALSE)
    BY <1>1, <1>5, NoneFits DEF BlockedIsIdle
  <2> QED BY <1>2, <1>5, <2>1, SendStep
<1> QED BY <1>3, <1>4, <1>5 DEF RetryDecided

LEMMA RequestRetryKeeps ==
  ASSUME FenceInv, RequestRetry
  PROVE  FenceInv'
<1>1. /\ TypeOK /\ Handlers /\ RedriveIsArmed /\ up
      /\ UNCHANGED <<up, remote, cancel, pass, crashes>>
  BY DEF FenceInv, RequestRetry
<1>2. windows \subseteq sessions
  BY <1>1, Types
<1>3. CASE /\ sessions # {}
           /\ recovery' = Waits("retrying", sessions)
           /\ UNCHANGED <<ticket, marked, runs, redrive>>
  <2>1. Handlers'
    BY <1>1, <1>3, FewerHandlers
  <2>2. recovery' \in Recoveries /\ recovery'.pc # "resetting"
    BY <1>1, <1>3, Waiting, Types
  <2> QED BY <1>1, <1>3, <2>1, <2>2, QuietStep, Types DEF remote, RedriveIsArmed
<1>4. CASE sessions = {} /\ RetryDecided(~Creating(runs))
  <2>1. CASE Creating(runs)
    <3>1. RetryDecided(FALSE)
      BY <1>4, <2>1 DEF RetryDecided
    <3> QED BY <1>1, <1>2, <1>4, <3>1, RetryDecidedKeeps DEF remote
  <2>2. CASE ~Creating(runs)
    <3>1. RetryDecided(TRUE)
      BY <1>4, <2>2 DEF RetryDecided
    <3> QED BY <1>1, <1>2, <1>4, <2>2, <3>1, RetryDecidedKeeps DEF remote
  <2> QED BY <2>1, <2>2
<1> QED BY <1>3, <1>4 DEF RequestRetry

LEMMA RetryStoppedKeeps ==
  ASSUME FenceInv, RetryStopped
  PROVE  FenceInv'
<1>1. /\ TypeOK /\ up /\ UNCHANGED <<up, cancel, pass, crashes>>
  BY DEF FenceInv, RetryStopped
<1>2. PICK outcome \in StopOutcomes(recovery.seen, recovery.clean) :
        Stops(outcome) /\ RetryDecided(outcome.ok)
  BY DEF RetryStopped
<1>3. /\ sessions' \subseteq sessions /\ windows' \subseteq sessions'
      /\ opened' = opened
      /\ outcome.ok => sessions' = {} /\ ~Creating(runs)
  BY <1>1, <1>2, StopLeavesNothing
<1> QED BY <1>1, <1>2, <1>3, RetryDecidedKeeps

\* A recovery that waited resumes the blocked ticket, or gives up.
LEMMA RecoveryResumes ==
  ASSUME FenceInv, up, UNCHANGED <<up, remote, cancel, pass, crashes>>,
         recovery' = Idle, NEW e \in RecoveryEvents,
         \/ status = "BLOCKED_ERROR" /\ Send(e, runs, marked)
         \/ UNCHANGED <<ticket, marked, runs, redrive>>
  PROVE  FenceInv'
<1>1. TypeOK /\ Handlers /\ RedriveIsArmed /\ BlockedIsIdle
  BY DEF FenceInv, Handlers
<1>2. /\ Idle \in Recoveries /\ Idle.pc # "resetting" /\ e # "CANCEL"
      /\ windows' \subseteq sessions' /\ sessions' \subseteq sessions
  BY <1>1, Waiting, Types DEF remote, RecoveryEvents
<1>3. CASE status = "BLOCKED_ERROR" /\ Send(e, runs, marked)
  <2>1. \A t : Fits(runs, t, marked)
    BY <1>1, <1>3, NoneFits DEF BlockedIsIdle
  <2> QED BY <1>1, <1>2, <1>3, <2>1, SendStep, Types DEF remote
<1>4. CASE UNCHANGED <<ticket, marked, runs, redrive>>
  <2>1. Handlers'
    BY <1>1, <1>4, FewerHandlers
  <2> QED BY <1>1, <1>2, <1>4, <2>1, QuietStep, Types DEF remote, RedriveIsArmed
<1> QED BY <1>3, <1>4

LEMMA ResetDoneKeeps ==
  ASSUME FenceInv, ResetDone
  PROVE  FenceInv'
  BY RecoveryResumes DEF ResetDone, RecoveryEvents

LEMMA ContinueAnsweredKeeps ==
  ASSUME FenceInv, ContinueAnswered
  PROVE  FenceInv'
  BY RecoveryResumes DEF ContinueAnswered, RecoveryEvents

LEMMA RequestContinueKeeps ==
  ASSUME FenceInv, NEW s \in sessions, RequestContinue(s)
  PROVE  FenceInv'
<1>1. /\ TypeOK /\ Handlers /\ RedriveIsArmed /\ up
      /\ recovery' = Waits("continuing", {s})
      /\ UNCHANGED <<up, ticket, marked, runs, remote, cancel, pass, redrive, crashes>>
  BY DEF FenceInv, RequestContinue
<1>2. {s} \in SUBSET SessionIds
  BY <1>1, Types
<1>3. recovery' \in Recoveries /\ recovery'.pc # "resetting"
  BY <1>1, <1>2, Waiting
<1>4. Handlers'
  BY <1>1, FewerHandlers
<1> QED BY <1>1, <1>3, <1>4, QuietStep, Types DEF remote, RedriveIsArmed

-----------------------------------------------------------------------------
(* Restarts.                                                                *)

LEMMA CrashKeeps ==
  ASSUME FenceInv, Crash
  PROVE  FenceInv'
<1>1. /\ TypeOK /\ CanceledIsQuiet
      /\ up' = FALSE /\ crashes' = crashes + 1 /\ crashes < MaxCrashes
      /\ runs' = {} /\ cancel' = Idle /\ recovery' = Idle
      /\ pass' = NoPass /\ redrive' = NoRedrive
      /\ UNCHANGED <<ticket, marked, remote>>
  BY DEF FenceInv, Crash
<1>2. crashes' \in 0 .. MaxCrashes
  <2>1. crashes \in 0 .. MaxCrashes /\ MaxCrashes \in Nat
    BY <1>1, FenceAssumption, Types
  <2> QED BY <1>1, <2>1
<1>3. /\ cancel' \in Cancels /\ recovery' \in Recoveries /\ pass' \in Passes
      /\ redrive' \in Redrives /\ recovery'.pc # "resetting"
  BY <1>1, Waiting, FenceAssumption DEF NoRedrive, Redrives
<1>4. /\ marked' \in BOOLEAN /\ status' \in Statuses /\ previous' \in Statuses \cup {None}
      /\ sessions' \in SUBSET SessionIds /\ windows' \subseteq sessions'
      /\ opened' \in 0 .. MaxSessions
  BY <1>1, Types DEF ticket, remote
<1>5. TypeOK'
  BY <1>1, <1>2, <1>3, <1>4 DEF TypeOK, Runs, Cancels, Recoveries, Passes, Redrives
<1>6. Handlers'
  BY <1>1 DEF Handlers, LiveIsCurrent, AbortedIsFenced, BlockedIsIdle, FenceHoldsWork
<1>7. RedriveIsArmed' /\ DownIsEmpty' /\ ResetIsClean'
  <2>1. ~up'
    BY <1>1
  <2>2. (cancel = Idle)' /\ (recovery = Idle)' /\ (pass = NoPass)'
    BY <1>1 DEF Idle, NoPass
  <2> QED BY <1>1, <1>3, <2>1, <2>2 DEF RedriveIsArmed, DownIsEmpty, ResetIsClean
<1>8. CanceledIsQuiet'
  BY <1>1 DEF CanceledIsQuiet, Creating, ticket, remote
<1> QED BY <1>5, <1>6, <1>7, <1>8 DEF FenceInv

LEMMA BootKeeps ==
  ASSUME FenceInv, Boot
  PROVE  FenceInv'
<1>1. /\ TypeOK /\ CanceledIsQuiet /\ ~up /\ up' = TRUE
      /\ runs = {} /\ cancel = Idle /\ recovery = Idle /\ pass = NoPass
      /\ UNCHANGED <<ticket, remote, cancel, recovery, pass, crashes>>
  BY DEF FenceInv, Boot, DownIsEmpty
<1>2. pass.pc = "idle" /\ recovery'.pc # "resetting"
  BY <1>1, Waiting
<1>3. /\ Handlers'
      /\ runs' \in SUBSET Runs /\ marked' \in BOOLEAN /\ redrive' \in Redrives
      /\ marked' /\ status \notin Terminal => redrive'.armed \/ redrive'.exhausted
      /\ status = "CANCELED" => runs' = {}
  <2>1. status \in Statuses /\ {} \in SUBSET Runs /\ marked \in BOOLEAN
    BY <1>1, Types
  <2>2. CASE status \notin Terminal /\ Emission(status, {}, marked)
    <3>1. Fits({}, status, marked) /\ status' = status
      BY <1>1, NoneFits DEF ticket
    <3> QED BY <1>1, <1>2, <2>1, <2>2, <3>1, EmissionKeeps, StatusNames
  <2>3. CASE status \in Terminal /\ UNCHANGED <<marked, runs, redrive>>
    <3>1. Handlers'
      BY <1>1, <2>3 DEF Handlers, LiveIsCurrent, AbortedIsFenced, BlockedIsIdle,
                        FenceHoldsWork
    <3> QED BY <1>1, <2>3, <3>1, Types
  <2> QED BY <2>2, <2>3 DEF Boot
<1>4. TypeOK'
  <2>1. /\ up' \in BOOLEAN /\ status' \in Statuses /\ previous' \in Statuses \cup {None}
        /\ sessions' \in SUBSET SessionIds /\ windows' \subseteq sessions'
        /\ opened' \in 0 .. MaxSessions /\ crashes' \in 0 .. MaxCrashes
        /\ cancel' \in Cancels /\ recovery' \in Recoveries /\ pass' \in Passes
    BY <1>1, Types DEF ticket, remote
  <2> QED BY <1>3, <2>1 DEF TypeOK, Runs, Cancels, Recoveries, Passes, Redrives
<1>5. RedriveIsArmed' /\ DownIsEmpty' /\ ResetIsClean'
  BY <1>1, <1>2, <1>3 DEF RedriveIsArmed, DownIsEmpty, ResetIsClean, ticket
<1>6. CanceledIsQuiet'
  BY <1>1, <1>3 DEF CanceledIsQuiet, Creating, ticket, remote
<1> QED BY <1>3, <1>4, <1>5, <1>6 DEF FenceInv

-----------------------------------------------------------------------------
(* The theorems.                                                            *)

LEMMA InitKeeps ==
  ASSUME Init
  PROVE  FenceInv
<1>1. /\ status \in StartStatuses /\ status \in Statuses /\ status \notin Terminal
      /\ MaxSessions \in Nat /\ MaxRetries \in Nat /\ MaxCrashes \in Nat
  BY FenceAssumption DEF Init
<1>2. runs = {} \/ (status \in Handled /\ runs = {NewRun(status)})
  BY DEF Init
<1>3. /\ NewRun(status).live /\ NewRun(status).phase = status
      /\ NewRun(status).step # "creating"
      /\ status \in Handled => NewRun(status) \in Runs
  BY DEF NewRun, Runs
<1>4. TypeOK
  <2>1. cancel \in Cancels /\ recovery \in Recoveries /\ pass \in Passes
    BY Waiting DEF Init
  <2>2. redrive \in Redrives
    BY <1>1 DEF Init, NoRedrive, Redrives
  <2>3. runs \in SUBSET Runs /\ previous \in Statuses \cup {None}
    BY <1>2, <1>3 DEF Init
  <2>4. 0 \in 0 .. MaxSessions /\ 0 \in 0 .. MaxCrashes
    BY <1>1
  <2> QED BY <1>1, <2>1, <2>2, <2>3, <2>4, Types DEF Init
<1>5. LiveIsCurrent /\ AbortedIsFenced /\ FenceHoldsWork
  BY <1>1, <1>2, <1>3, StatusNames
     DEF Init, LiveIsCurrent, AbortedIsFenced, FenceHoldsWork
<1>6. BlockedIsIdle
  BY <1>2, StatusNames DEF BlockedIsIdle
<1>7. RedriveIsArmed /\ DownIsEmpty
  BY DEF Init, RedriveIsArmed, DownIsEmpty
<1>8. CanceledIsQuiet
  BY <1>2, <1>3 DEF Init, CanceledIsQuiet, Creating
<1>9. ResetIsClean
  BY Waiting DEF Init, ResetIsClean, Idle
<1> QED BY <1>4, <1>5, <1>6, <1>7, <1>8, <1>9 DEF FenceInv, Handlers

LEMMA StepKeeps ==
  ASSUME FenceInv, [Next]_vars
  PROVE  FenceInv'
<1>1. CASE RunStep
  <2>1. ASSUME NEW r \in runs, OpenSession(r) \/ SessionOpened(r) \/ AskQuestion(r)
        PROVE  FenceInv'
    BY <2>1, OpenSessionKeeps, SessionOpenedKeeps, AskQuestionKeeps
  <2>2. ASSUME NEW r \in runs, Fail(r) \/ Unwind(r)
        PROVE  FenceInv'
    BY <2>2, FailKeeps, UnwindKeeps
  <2>3. ASSUME NEW r \in runs, NEW e \in Events, Finish(r, e) \/ LateResult(r, e)
        PROVE  FenceInv'
    BY <2>3, FinishKeeps, LateResultKeeps
  <2>4. ASSUME NEW s \in windows, AnswerQuestion(s)
        PROVE  FenceInv'
    BY <2>4, AnswerQuestionKeeps
  <2> QED BY <1>1, <2>1, <2>2, <2>3, <2>4 DEF RunStep
<1>2. CASE RequestStep
  <2>1. CASE RequestCancel \/ WindowsRejected \/ CancelStopped
    BY <2>1, RequestCancelKeeps, WindowsRejectedKeeps, CancelStoppedKeeps
  <2>2. CASE RequestRetry \/ RetryStopped \/ ResetDone
    BY <2>2, RequestRetryKeeps, RetryStoppedKeeps, ResetDoneKeeps
  <2>3. CASE (\E s \in sessions : RequestContinue(s)) \/ ContinueAnswered
    BY <2>3, RequestContinueKeeps, ContinueAnsweredKeeps
  <2>4. CASE \E e \in Events : CompleteReview(e)
    BY <2>4, CompleteReviewKeeps
  <2> QED BY <1>2, <2>1, <2>2, <2>3, <2>4 DEF RequestStep
<1>3. CASE TimerFires \/ PassStopped
  BY <1>3, TimerFiresKeeps, PassStoppedKeeps
<1>4. CASE Crash \/ Boot
  BY <1>4, CrashKeeps, BootKeeps
<1>5. CASE UNCHANGED vars
  <2>1. /\ UNCHANGED <<up, status, previous, marked, runs, sessions, opened, windows>>
        /\ UNCHANGED <<cancel, recovery, pass, redrive, crashes>>
    BY <1>5 DEF vars, ticket, remote
  <2> QED BY <2>1
      DEF FenceInv, TypeOK, Handlers, LiveIsCurrent, AbortedIsFenced, BlockedIsIdle,
          FenceHoldsWork, RedriveIsArmed, CanceledIsQuiet, DownIsEmpty, ResetIsClean,
          Creating
<1> QED BY <1>1, <1>2, <1>3, <1>4, <1>5 DEF Next

LEMMA FenceInvHolds == Spec => []FenceInv
<1>1. Init => FenceInv
  BY InitKeeps
<1>2. FenceInv /\ [Next]_vars => FenceInv'
  BY StepKeeps
<1> QED BY <1>1, <1>2, PTL DEF Spec

\* While the marker stands, and after the cancel, no handler works on the
\* ticket; otherwise one at most does, on the ticket's status; and a fence
\* nobody works on is on the timer until the automatic retries run out
\* (runner.ts).
THEOREM FenceStays == Spec => []FenceIsKept
<1>1. FenceInv => FenceIsKept
  BY DEF FenceInv, FenceIsKept, Handlers
<1> QED BY <1>1, FenceInvHolds, PTL

\* A canceled ticket owns nothing in OpenCode, and nothing that it started
\* opens a session any more, whatever came between the request and CANCEL.
THEOREM CanceledStaysQuiet == Spec => []CanceledIsQuiet
<1>1. FenceInv => CanceledIsQuiet
  BY DEF FenceInv
<1> QED BY <1>1, FenceInvHolds, PTL

LEMMA EventMoves ==
  ASSUME NEW e, NEW rs, NEW fenced, Send(e, rs, fenced)
  PROVE  status' = status \/ status' \in Targets(Context, e)
  BY DEF Send, ticket

\* A cancel that has decided leaves the ticket where it is or ends it.
LEMMA CancelResumesNothing ==
  ASSUME status = "BLOCKED_ERROR", NEW stopped, NEW rs, NEW fenced,
         CancelDecided(stopped, rs, fenced) \/ CancelStops(rs, fenced)
  PROVE  status' \notin Resumable
<1>1. ASSUME NEW s, CancelDecided(s, rs, fenced)
      PROVE  status' \notin Resumable
  <2>1. CASE Send("CANCEL", rs, fenced)
    <3>1. status' = status \/ status' = "CANCELED"
      BY <2>1, EventMoves, TargetNames
    <3> QED BY <3>1, StatusNames
  <2>2. CASE UNCHANGED ticket
    BY <2>2, StatusNames DEF ticket
  <2> QED BY <1>1, <2>1, <2>2 DEF CancelDecided
<1>2. CASE CancelStops(rs, fenced)
  BY <1>1, <1>2, StatusNames DEF CancelStops, ticket
<1> QED BY <1>1, <1>2

\* A blocked ticket resumes with Retry or Continue only, and has no handler
\* then but the new one.
LEMMA ResumedByRetry ==
  ASSUME FenceInv, status = "BLOCKED_ERROR", status' \in Resumable,
         NEW e, NEW fenced \in BOOLEAN, Send(e, runs, fenced)
  PROVE  ~Creating(runs')
<1>1. TypeOK /\ runs = {}
  BY DEF FenceInv, Handlers, BlockedIsIdle
<1>2. \A t : Fits(runs, t, fenced)
  BY <1>1, NoneFits
<1>3. Creating(runs') => Creating(runs)
  BY <1>1, <1>2, SendKeeps
<1> QED BY <1>1, <1>3 DEF Creating

LEMMA RetryDecidedClean ==
  ASSUME FenceInv, status = "BLOCKED_ERROR", status' \in Resumable,
         NEW stopped, RetryDecided(stopped), windows' \subseteq sessions',
         stopped => sessions' = {}
  PROVE  sessions' = {} /\ windows' = {} /\ ~Creating(runs')
<1>1. stopped /\ Send("RETRY", runs, FALSE)
  BY StatusNames DEF RetryDecided, ticket
<1>2. ~Creating(runs')
  BY <1>1, ResumedByRetry
<1> QED BY <1>1, <1>2

LEMMA RetryIsClean ==
  ASSUME FenceInv, Next, status = "BLOCKED_ERROR", status' \in Resumable,
         recovery.pc # "continuing"
  PROVE  sessions' = {} /\ windows' = {} /\ ~Creating(runs')
<1>1. TypeOK /\ runs = {} /\ windows \subseteq sessions /\ marked \in BOOLEAN
  BY Types DEF FenceInv, Handlers, BlockedIsIdle
<1>2. status' # status
  BY StatusNames
<1>3. CASE RunStep
  BY <1>1, <1>2, <1>3 DEF RunStep, AnswerQuestion, ticket
<1>4. CASE RequestStep
  <2>1. CASE RequestCancel
    BY <1>2, <2>1, CancelResumesNothing DEF RequestCancel, ticket
  <2>2. CASE WindowsRejected
    BY <1>2, <2>2, CancelResumesNothing DEF WindowsRejected
  <2>3. CASE CancelStopped
    BY <1>2, <2>3, CancelResumesNothing DEF CancelStopped
  <2>4. CASE RequestRetry
    <3>1. UNCHANGED <<sessions, windows>>
      BY <2>4 DEF RequestRetry, remote
    <3>2. PICK stopped : RetryDecided(stopped) /\ sessions = {}
      BY <1>2, <2>4 DEF RequestRetry, ticket
    <3> QED BY <1>1, <3>1, <3>2, RetryDecidedClean
  <2>5. CASE RetryStopped
    <3>1. PICK outcome \in StopOutcomes(recovery.seen, recovery.clean) :
            Stops(outcome) /\ RetryDecided(outcome.ok)
      BY <2>5 DEF RetryStopped
    <3>2. windows' \subseteq sessions' /\ (outcome.ok => sessions' = {})
      BY <1>1, <3>1, StopLeavesNothing
    <3> QED BY <3>1, <3>2, RetryDecidedClean
  <2>6. CASE ResetDone
    <3>1. recovery.pc = "resetting" /\ UNCHANGED <<sessions, windows>>
      BY <2>6 DEF ResetDone, remote
    <3>2. sessions = {}
      BY <3>1 DEF FenceInv, ResetIsClean
    <3>3. Send("RETRY", runs, marked)
      BY <1>2, <2>6 DEF ResetDone, ticket
    <3> QED BY <1>1, <3>1, <3>2, <3>3, ResumedByRetry
  <2>7. CASE \/ \E s \in sessions : RequestContinue(s)
             \/ ContinueAnswered
             \/ \E e \in Events : CompleteReview(e)
    BY <1>2, <2>7 DEF RequestContinue, ContinueAnswered, CompleteReview, ticket
  <2> QED BY <1>4, <2>1, <2>2, <2>3, <2>4, <2>5, <2>6, <2>7 DEF RequestStep
<1>5. CASE TimerFires \/ PassStopped
  BY <1>2, <1>5, StatusNames DEF TimerFires, PassStopped, PassDecided, ticket
<1>6. CASE Crash \/ Boot
  BY <1>2, <1>6 DEF Crash, Boot, ticket
<1> QED BY <1>3, <1>4, <1>5, <1>6 DEF Next

\* A Retry never meets the work it replaces, also after the awaited reset of a
\* bead: nothing of the failed attempt is active when it is dispatched.
THEOREM RetriesStartClean == Spec => RetryStartsClean
<1>1. FenceInv /\ [Next]_vars =>
        [status = "BLOCKED_ERROR" /\ status' \in Resumable /\ recovery.pc # "continuing"
           => sessions' = {} /\ windows' = {} /\ ~Creating(runs')]_vars
  BY RetryIsClean
<1> QED BY <1>1, FenceInvHolds, PTL DEF Spec, RetryStartsClean

=============================================================================
