--------------------------- MODULE BeadExecution ---------------------------
(***************************************************************************)
(* The coding phase: one run of handleCoding works through the beads of a  *)
(* ticket one by one, each in an OpenCode session that edits the ticket's  *)
(* worktree, with git resets between iterations, a checkpoint of an        *)
(* accepted result, a commit, and recovery after a restart, by Retry and   *)
(* by Continue.  A bead is named by its priority.                          *)
(*                                                                         *)
(* Data are abstracted to pieces of work: <<b, n>> is whatever the n-th    *)
(* try at bead b wrote.  A commit is the set of the pieces it contains.    *)
(*                                                                         *)
(* Bounds: MaxFaults failing calls, MaxCrashes stops of the server.        *)
(* Cancellation is the subject of CancellationFence.                       *)
(***************************************************************************)
EXTENDS Naturals, FiniteSets

CONSTANTS
  Beads,           \* the beads, named by their priority
  BlockedBy,       \* [Beads -> SUBSET Beads]: dependencies.blocked_by
  MaxIterations,   \* the per-bead retry budget, 0 for none
  MaxFaults,       \* bound on the failing calls of a behaviour
  MaxCrashes,      \* bound on the crashes of a behaviour
  None             \* no session, no bead

ASSUME BeadsAssumption ==
  /\ Beads \subseteq Nat \ {0}
  /\ IsFiniteSet(Beads)
  /\ BlockedBy \in [Beads -> SUBSET Beads]
  /\ MaxIterations \in Nat /\ MaxFaults \in Nat /\ MaxCrashes \in Nat
  /\ None \notin Beads
  /\ None \notin [bead : Beads, iteration : Nat, try : Nat]

VARIABLES
  beads,        \* the tracker file: status, iteration, start commit (once based
                \* on one), tries (ghost)
  recent,       \* <<b, c>>: the updatedAt of b is later than that of c
  artifact,     \* bead_execution artifacts: accepted work, and whether the
                \* checkpoint in it still matches the bead's record
  head,         \* the pieces in the HEAD commit of the worktree
  tree,         \* the pieces in the worktree that are not committed
  rows,         \* sessions with an active row in the ticket's database
  working,      \* sessions OpenCode is working in
  status,       \* the ticket: CODING, BLOCKED (in CODING) or TESTING
  offered,      \* the session named by the open error's diagnostics
  continuation, \* the pending continuation, in memory only
  step,         \* what the server does next: the phase handler or a route
  faults, crashes,
  passedOver    \* ghost: the handler once went on to select a bead while a
                \* failed one was unfinished

git == <<head, tree>>
remote == <<rows, working>>
tracker == <<beads, recent, artifact>>
blocking == <<status, offered, continuation>>
steps == <<tracker, git, remote, blocking, step, faults, crashes>>
vars == <<steps, passedOver>>

-----------------------------------------------------------------------------
Session(b) == [bead |-> b, iteration |-> beads[b].iteration, try |-> beads[b].tries]
Piece(s) == <<s.bead, s.try>>
Work(b) == <<b, beads[b].tries>>

Idle == [pc |-> "idle", bead |-> None, from |-> 0, session |-> None]
At(pc, b) == [Idle EXCEPT !.pc = pc, !.bead = b]
Goto(pc) == [step EXCEPT !.pc = pc]
GotoWith(pc, s) == [step EXCEPT !.pc = pc, !.session = s]

\* A call that fails, within the bound.
Fault == faults < MaxFaults /\ faults' = faults + 1
NoFault == faults' = faults

\* The record of b is written with a new updatedAt: the checkpoint, which
\* repeats the old one, no longer matches.
Touch(b, record) ==
  /\ beads' = [beads EXCEPT ![b] = record]
  /\ recent' = {r \in recent : b \notin {r[1], r[2]}} \cup ({b} \X (Beads \ {b}))
  /\ artifact' = [artifact EXCEPT ![b].current = FALSE]

\* A pending continuation goes with its session.
Forget(gone) == continuation' = IF continuation \in gone THEN None ELSE continuation

\* Written back to pending from its start snapshot, with or without
\* consuming the iteration.
Reopened(b, consumed) ==
  [beads[b] EXCEPT !.status = "pending", !.iteration = @ + consumed, !.tries = @ + 1]

WithStatus(st) == {b \in Beads : beads[b].status = st}
AllDone == WithStatus("done") = Beads

\* Mutant: the dependencies are not looked at.
PendingOnly == WithStatus("pending")

Runnable == {b \in WithStatus("pending") : BlockedBy[b] \subseteq WithStatus("done")}
NextBead == CHOOSE b \in Runnable : \A c \in Runnable : b <= c

\* The most recently touched bead of a nonempty set.
Latest(B) == CHOOSE b \in B : \A c \in B \ {b} : <<c, b>> \notin recent

Checkpointed == {b \in WithStatus("error") \cup WithStatus("in_progress") : artifact[b].current}

\* The handler ends with an error, whose diagnostics may name a session.
Block(offer) ==
  /\ status' = "BLOCKED"
  /\ offered' = offer
  /\ step' = Idle
  /\ UNCHANGED continuation

-----------------------------------------------------------------------------
(* handleCoding *)

Interrupted == Latest(WithStatus("in_progress"))

Start ==
  /\ step.pc = "start"
  /\ step' =
       IF AllDone THEN Idle
       ELSE IF WithStatus("in_progress") = {} THEN At("select", None)
       ELSE IF continuation # None
              THEN [At("open", Interrupted) EXCEPT !.from = beads[Interrupted].iteration]
       ELSE IF artifact[Interrupted].current THEN At("commit", Interrupted)
       ELSE At("stop", Interrupted)
  /\ status' = IF AllDone THEN "TESTING" ELSE status
  /\ NoFault
  /\ UNCHANGED <<tracker, git, remote, offered, continuation, crashes>>

\* The sessions recorded for the interrupted iteration are stopped; a stop
\* that is not confirmed keeps its row and fails the handler.
InterruptedRows == {s \in rows : s.bead = step.bead /\ s.iteration = beads[step.bead].iteration}

StopInterrupted ==
  /\ step.pc = "stop"
  /\ \E stopped \in SUBSET InterruptedRows :
       /\ rows' = rows \ stopped
       /\ working' = working \ stopped
       /\ Forget(stopped)
       /\ \/ stopped = InterruptedRows /\ NoFault
             /\ step' = Goto("reset") /\ UNCHANGED <<status, offered>>
          \/ stopped # InterruptedRows /\ Fault
             /\ step' = Idle /\ status' = "BLOCKED" /\ offered' = None
  /\ UNCHANGED <<tracker, git, crashes>>

\* git reset --hard: files git does not track stay until git clean.
ResetTo(commit, from, to) ==
  /\ step.pc = from
  /\ head' = commit
  /\ step' = Goto(to)
  /\ NoFault
  /\ UNCHANGED <<tracker, tree, remote, blocking, crashes>>

CleanTree(from, to) ==
  /\ step.pc = from
  /\ tree' = {}
  /\ step' = Goto(to)
  /\ NoFault
  /\ UNCHANGED <<tracker, head, remote, blocking, crashes>>

ResetInterrupted == ResetTo(beads[step.bead].start, "reset", "clean")
\* Mutants: reset without git clean.
ResetOnly(from, to) ==
  /\ step.pc = from
  /\ step' = Goto(to)
  /\ NoFault
  /\ UNCHANGED <<tracker, git, remote, blocking, crashes>>
InterruptedNotCleaned == ResetOnly("clean", "recover")
WipedNotCleaned == ResetOnly("wipe clean", "wiped")

CleanInterrupted == CleanTree("clean", "recover")

RecoveryFails ==
  /\ step.pc \in {"reset", "clean"}
  /\ Fault /\ Block(None)
  /\ UNCHANGED <<tracker, git, remote, crashes>>

RecoverInterrupted ==
  /\ step.pc = "recover"
  /\ Touch(step.bead, Reopened(step.bead, 1))
  /\ step' = At("select", None)
  /\ NoFault
  /\ UNCHANGED <<git, remote, blocking, crashes>>

\* The next runnable bead gets HEAD as its start commit and is published as
\* in progress; none, or no HEAD, is an error.
Select ==
  /\ step.pc = "select"
  /\ Runnable # {}
  /\ Touch(NextBead, [beads[NextBead] EXCEPT !.status = "in_progress", !.start = head,
                                       !.based = TRUE])
  /\ step' = [At("open", NextBead) EXCEPT !.from = beads[NextBead].iteration]
  /\ NoFault
  /\ UNCHANGED <<git, remote, blocking, crashes>>

SelectFails ==
  /\ step.pc = "select"
  /\ Block(None)
  /\ IF Runnable = {} THEN NoFault ELSE Fault
  /\ UNCHANGED <<tracker, git, remote, crashes>>

-----------------------------------------------------------------------------
(* executeBead and runOpenCodePrompt *)

\* The session of this very iteration is used again if OpenCode still has it.
Reconnect ==
  /\ step.pc = "open"
  /\ Session(step.bead) \in rows
  /\ step' = GotoWith("prompt", Session(step.bead))
  /\ NoFault
  /\ UNCHANGED <<tracker, git, remote, blocking, crashes>>

SessionMissing ==
  /\ step.pc = "open"
  /\ Session(step.bead) \in rows
  /\ Fault
  /\ rows' = rows \ {Session(step.bead)}
  /\ working' = working \ {Session(step.bead)}
  /\ Forget({Session(step.bead)})
  /\ UNCHANGED <<tracker, git, status, offered, step, crashes>>

CreateSession ==
  /\ step.pc = "open"
  /\ Session(step.bead) \notin rows
  /\ rows' = rows \cup {Session(step.bead)}
  /\ step' = GotoWith("prompt", Session(step.bead))
  /\ NoFault
  /\ UNCHANGED <<tracker, git, working, blocking, crashes>>

\* The lookup or the creation fails: the iteration has failed with no session.
OpenFails ==
  /\ step.pc = "open"
  /\ Fault
  /\ step' = GotoWith("wipe", None)
  /\ UNCHANGED <<tracker, git, remote, blocking, crashes>>

\* onSessionCreated records the attempt, then the prompt is dispatched.
Prompt ==
  /\ step.pc = "prompt"
  /\ Touch(step.bead, [beads[step.bead] EXCEPT !.status = "in_progress"])
  /\ working' = working \cup {step.session}
  /\ Forget({step.session})
  /\ step' = Goto("work")
  /\ NoFault
  /\ UNCHANGED <<git, rows, status, offered, crashes>>

\* OpenCode edits the worktree.
Write(s) ==
  /\ s \in working
  /\ tree' = tree \cup {Piece(s)}
  /\ NoFault
  /\ UNCHANGED <<tracker, head, remote, blocking, step, crashes>>

\* The turn ends with a valid completion marker.
Accept ==
  /\ step.pc = "work"
  /\ working' = working \ {step.session}
  /\ rows' = rows \ {step.session}
  /\ Forget({step.session})
  /\ step' = GotoWith("checkpoint", None)
  /\ NoFault
  /\ UNCHANGED <<tracker, git, status, offered, crashes>>

\* The answer is rejected, the provider fails for good or the iteration's
\* time is over; in the last case the model may be at work.
Reject ==
  /\ step.pc = "work"
  /\ Fault
  /\ \E w \in {working, working \ {step.session}} : working' = w
  /\ step' = Goto("failed")
  /\ UNCHANGED <<tracker, git, rows, blocking, crashes>>

\* An invalid marker that needs a new session: the old one is stopped first.
ReplaceSession ==
  /\ step.pc = "work"
  /\ Fault
  /\ rows' = rows \ {step.session}
  /\ working' = working \ {step.session}
  /\ Forget({step.session})
  /\ step' = GotoWith("open", None)
  /\ UNCHANGED <<tracker, git, status, offered, crashes>>

\* A continuable provider error: the session is kept and named in the
\* diagnostics; OpenCode may not have stopped working in it.
Preserve ==
  /\ step.pc = "work"
  /\ Fault
  /\ \E w \in {working, working \ {step.session}} : working' = w
  /\ Block(step.session)
  /\ UNCHANGED <<tracker, git, rows, crashes>>

\* Mutant: the stop is sent and not waited for.
StopUnconfirmed ==
  /\ step.pc = "failed"
  /\ step' = Goto("wipe")
  /\ NoFault
  /\ UNCHANGED <<tracker, git, remote, blocking, crashes>>

StopFailed ==
  /\ step.pc = "failed"
  /\ working' = working \ {step.session}
  /\ step' = Goto("wipe")
  /\ NoFault
  /\ UNCHANGED <<tracker, git, rows, blocking, crashes>>

\* The stop is not confirmed: no reset, and the bead is given up.  An earlier
\* retry message of the stream may have left continuable diagnostics.
ResetWithheld ==
  /\ step.pc = "failed"
  /\ Fault
  /\ \E offer \in {None, step.session} : step' = GotoWith("give up", offer)
  /\ UNCHANGED <<tracker, git, remote, blocking, crashes>>

ResetWipe == ResetTo(beads[step.bead].start, "wipe", "wipe clean")
CleanWipe == CleanTree("wipe clean", "wiped")

\* The reset of onContextWipe fails; the bead keeps its failure notes.
WipeFails ==
  /\ step.pc \in {"wipe", "wipe clean"}
  /\ Fault
  /\ Touch(step.bead, [beads[step.bead] EXCEPT !.status = "error", !.iteration = @ + 1])
  /\ rows' = rows \ {step.session}
  /\ step' = GotoWith("failure recorded", None)
  /\ UNCHANGED <<git, working, blocking, crashes>>

\* The bead is pending again, then the session's row is abandoned and the
\* next iteration begins, if the budget has one.
Wiped ==
  /\ step.pc = "wiped"
  /\ Touch(step.bead, Reopened(step.bead, 1))
  /\ step' = Goto("abandon")
  /\ NoFault
  /\ UNCHANGED <<git, remote, blocking, crashes>>

BudgetLeft(b) ==
  MaxIterations = 0 \/ beads[b].iteration <= step.from + MaxIterations - 1

Abandon ==
  /\ step.pc = "abandon"
  /\ rows' = rows \ {step.session}
  /\ Forget({step.session})
  /\ step' = GotoWith(IF BudgetLeft(step.bead) THEN "open" ELSE "exhausted", None)
  /\ NoFault
  /\ UNCHANGED <<tracker, git, working, status, offered, crashes>>

\* The failed result: the bead becomes an error in the tracker file, then the
\* ticket is blocked in the database.
LastIteration ==
  IF step.pc = "exhausted" THEN beads[step.bead].iteration - 1 ELSE beads[step.bead].iteration

GiveUp ==
  /\ step.pc \in {"give up", "exhausted"}
  /\ Touch(step.bead, [beads[step.bead] EXCEPT !.status = "error", !.iteration = LastIteration])
  /\ step' = Goto("failure recorded")
  /\ NoFault
  /\ UNCHANGED <<git, remote, blocking, crashes>>

ReportFailure ==
  /\ step.pc = "failure recorded"
  /\ Block(step.session)
  /\ NoFault
  /\ UNCHANGED <<tracker, git, remote, crashes>>

-----------------------------------------------------------------------------
(* Finalization of an accepted result *)

Checkpoint ==
  /\ step.pc = "checkpoint"
  /\ artifact' = [artifact EXCEPT ![step.bead] =
                    [work |-> tree \cap {Work(step.bead)}, current |-> TRUE]]
  /\ step' = Goto("commit")
  /\ NoFault
  /\ UNCHANGED <<beads, recent, git, remote, blocking, crashes>>

\* git add and commit; a failed push is only a warning.
Commit ==
  /\ step.pc = "commit"
  /\ head' = head \cup tree
  /\ tree' = {}
  /\ step' = Goto("record")
  /\ NoFault
  /\ UNCHANGED <<tracker, remote, blocking, crashes>>

\* The bead becomes an error with its updatedAt as it was: the checkpoint
\* stays valid and Retry goes on with the commit.
CommitFails ==
  /\ step.pc = "commit"
  /\ Fault
  /\ beads' = [beads EXCEPT ![step.bead].status = "error"]
  /\ step' = Goto("failure recorded")
  /\ UNCHANGED <<recent, artifact, git, remote, blocking, crashes>>

\* Mutant: the bead's completion is not written.
RecordNothing ==
  /\ step.pc = "record"
  /\ step' = At("start", None)
  /\ NoFault
  /\ UNCHANGED <<tracker, git, remote, blocking, crashes>>

Record ==
  /\ step.pc = "record"
  /\ Touch(step.bead, [beads[step.bead] EXCEPT !.status = "done"])
  /\ step' = At("start", None)
  /\ NoFault
  /\ UNCHANGED <<git, remote, blocking, crashes>>

-----------------------------------------------------------------------------
(* handleRetryTicket and handleContinueTicket, which exclude each other *)

\* Every session of the ticket is stopped before anything is reset.
Retry ==
  /\ status = "BLOCKED" /\ step.pc = "idle"
  /\ \E stopped \in SUBSET rows :
       /\ rows' = rows \ stopped
       /\ working' = working \ stopped
       /\ Forget(stopped)
       /\ \/ stopped = rows /\ NoFault /\ step' = At("retry", None)
          \/ stopped # rows /\ Fault /\ step' = Idle
  /\ UNCHANGED <<tracker, git, status, offered, crashes>>

\* An accepted result is not executed again.
RetryFinalization ==
  /\ step.pc = "retry"
  /\ Checkpointed # {}
  /\ beads' = [beads EXCEPT ![Latest(Checkpointed)].status = "in_progress"]
  /\ step' = At("retry dispatch", None)
  /\ NoFault
  /\ UNCHANGED <<recent, artifact, git, remote, blocking, crashes>>

Unfinished == WithStatus("error") \cup WithStatus("in_progress")
RetryCandidate == IF Unfinished # {} THEN Latest(Unfinished) ELSE NextBead

\* Mutant: Retry resets whatever it finds.
RetryAlwaysResets ==
  /\ step.pc = "retry"
  /\ Unfinished \cup Runnable # {}
  /\ step' = At(IF beads[RetryCandidate].based THEN "retry reset" ELSE "retry write",
                RetryCandidate)
  /\ NoFault
  /\ UNCHANGED <<tracker, git, remote, blocking, crashes>>

RetryRecovery ==
  /\ step.pc = "retry"
  /\ Checkpointed = {}
  /\ Unfinished \cup Runnable # {}
  /\ step' = At(IF beads[RetryCandidate].based THEN "retry reset" ELSE "retry write",
                RetryCandidate)
  /\ NoFault
  /\ UNCHANGED <<tracker, git, remote, blocking, crashes>>

RetryReset == ResetTo(beads[step.bead].start, "retry reset", "retry clean")
RetryClean == CleanTree("retry clean", "retry write")

RetryWrite ==
  /\ step.pc = "retry write"
  /\ Touch(step.bead, Reopened(step.bead, 0))
  /\ step' = At("retry dispatch", None)
  /\ NoFault
  /\ UNCHANGED <<git, remote, blocking, crashes>>

\* The bead is ready in the tracker file; now the ticket is told to go on.
RetryDispatch ==
  /\ step.pc = "retry dispatch"
  /\ status' = "CODING" /\ offered' = None
  /\ step' = At("start", None)
  /\ NoFault
  /\ UNCHANGED <<tracker, git, remote, continuation, crashes>>

\* Nothing to recover, or a command, a write or the dispatch failed: the
\* ticket stays blocked, whatever the route has done so far.
RetryRefused ==
  /\ \/ step.pc = "retry" /\ Checkpointed = {} /\ Unfinished \cup Runnable = {} /\ NoFault
     \/ step.pc \in {"retry reset", "retry clean", "retry write", "retry dispatch"} /\ Fault
  /\ step' = Idle
  /\ UNCHANGED <<tracker, git, remote, blocking, crashes>>

\* Continue stops the turn of the offered session and hands the session on.
Continue ==
  /\ status = "BLOCKED" /\ step.pc = "idle"
  /\ offered \in rows
  /\ working' = working \ {offered}
  /\ continuation' = offered
  /\ status' = "CODING" /\ offered' = None
  /\ step' = At("start", None)
  /\ NoFault
  /\ UNCHANGED <<tracker, git, rows, crashes>>

-----------------------------------------------------------------------------
(* Crash and start-up; OpenCode is a process of its own and works on *)

Crash ==
  /\ crashes < MaxCrashes
  /\ step.pc # "down"
  /\ crashes' = crashes + 1
  /\ step' = At("down", None)
  /\ continuation' = None
  /\ NoFault
  /\ UNCHANGED <<tracker, git, remote, status, offered>>

\* reconcileOpenCodeSessions abandons the rows OpenCode no longer has, then
\* the actor of a ticket in CODING starts its phase again.
Boot ==
  /\ step.pc = "down"
  /\ \E missing \in {{}} \cup {{s} : s \in rows} :
       /\ rows' = rows \ missing
       /\ working' = working \ missing
       /\ IF missing = {} THEN NoFault ELSE Fault
  /\ step' = IF status = "CODING" THEN At("start", None) ELSE Idle
  /\ UNCHANGED <<tracker, git, blocking, crashes>>

-----------------------------------------------------------------------------
Init ==
  /\ beads = [b \in Beads |-> [status |-> "pending", iteration |-> 1, based |-> FALSE, start |-> {},
                          tries |-> 1]]
  /\ recent = {}
  /\ artifact = [b \in Beads |-> [work |-> {}, current |-> FALSE]]
  /\ head = {} /\ tree = {}
  /\ rows = {} /\ working = {}
  /\ status = "CODING" /\ offered = None /\ continuation = None
  /\ step = At("start", None)
  /\ faults = 0 /\ crashes = 0
  /\ passedOver = FALSE

Handler ==
  \/ Start \/ StopInterrupted \/ ResetInterrupted \/ CleanInterrupted \/ RecoveryFails
  \/ RecoverInterrupted \/ Select \/ SelectFails
  \/ Reconnect \/ SessionMissing \/ CreateSession \/ OpenFails \/ Prompt
  \/ Accept \/ Reject \/ ReplaceSession \/ Preserve \/ StopFailed \/ ResetWithheld
  \/ ResetWipe \/ CleanWipe \/ WipeFails \/ Wiped \/ Abandon \/ GiveUp \/ ReportFailure
  \/ Checkpoint \/ Commit \/ CommitFails \/ Record

Recovery ==
  \/ RetryFinalization \/ RetryRecovery \/ RetryReset \/ RetryClean \/ RetryWrite
  \/ RetryDispatch \/ RetryRefused

\* handleCoding resets an interrupted bead and takes no notice of a failed
\* one, so a start that meets a failed bead leaves its work where it is.  Two
\* routes lead there: a crash between the bead's error in the tracker file and
\* the ticket's block, and Continue offered after a stop was not confirmed.
PassesOver == step.pc = "start" /\ step'.pc = "select" /\ WithStatus("error") # {}

Next ==
  /\ \/ Handler \/ Recovery \/ Retry \/ Continue
     \/ \E s \in working : Write(s)
     \/ Crash \/ Boot
  /\ passedOver' = (passedOver \/ PassesOver)

Spec == Init /\ [][Next]_vars

\* The handler's steps are calls that return or reach a deadline, and a
\* stopped server is started again.  Nobody is obliged to retry.
FairSpec == Spec /\ WF_steps(Handler) /\ WF_steps(Recovery) /\ WF_steps(Boot)

-----------------------------------------------------------------------------
Pieces == Beads \X Nat
Sessions == [bead : Beads, iteration : Nat, try : Nat]

TypeOK ==
  /\ beads \in [Beads -> [status : {"pending", "in_progress", "error", "done"},
                          iteration : Nat, based : BOOLEAN, start : SUBSET Pieces, tries : Nat]]
  /\ recent \subseteq Beads \X Beads
  /\ artifact \in [Beads -> [work : SUBSET Pieces, current : BOOLEAN]]
  /\ head \subseteq Pieces /\ tree \subseteq Pieces
  /\ rows \subseteq Sessions /\ working \subseteq Sessions
  /\ status \in {"CODING", "BLOCKED", "TESTING"}
  /\ {offered, continuation, step.session} \subseteq Sessions \cup {None}
  /\ step.bead \in Beads \cup {None} /\ step.from \in Nat
  /\ faults \in 0..MaxFaults /\ crashes \in 0..MaxCrashes

\* Nothing but the session whose answer the handler awaits may be at work
\* while the handler or Retry resets the worktree, accepts or commits: a reset
\* waits for a confirmed stop (executor.ts, lifecycleHandlers.ts).
Exclusive == {"clean", "recover", "select", "prompt", "work", "wipe clean", "wiped",
              "checkpoint", "commit", "record", "retry clean", "retry write"}
OneWriter ==
  step.pc \in Exclusive =>
    working \subseteq (IF step.pc = "work" THEN {step.session} ELSE {})

\* A try starts from its bead's start snapshot: whatever a session finds or
\* leaves uncommitted in the worktree is of its own try.
CleanWork == step.pc \in {"prompt", "work", "checkpoint"} => tree \subseteq {Work(step.bead)}

\* No try meets another, neither a session still at work nor what it left,
\* unless the handler passed over a failed bead.
TriesAreIsolated ==
  /\ passedOver \in BOOLEAN
  /\ ~passedOver => TypeOK /\ OneWriter /\ CleanWork

\* An accepted result is in the worktree or committed as long as its
\* checkpoint can be finalized, and committed once its bead is done.
AcceptedIsSafe ==
  \A b \in Beads :
    /\ artifact[b].current /\ step.pc # "record" => artifact[b].work \subseteq tree \cup head
    /\ beads[b].status = "done" => artifact[b].work \subseteq head

\* The branch holds accepted work only: no iteration that was rejected, timed
\* out or interrupted is ever committed, with its own bead or with another.
OnlyAcceptedIsCommitted == head \subseteq UNION {artifact[b].work : b \in Beads}

\* One bead at a time: recovery finds at most one bead that was begun and is
\* not finished.
OneBegun == Cardinality(WithStatus("in_progress") \cup WithStatus("error")) <= 1

\* An interrupted or failed bead can be reset: it has a start commit, which
\* lies on the branch.
Resettable ==
  \A b \in WithStatus("in_progress") \cup WithStatus("error") :
    beads[b].based /\ beads[b].start \subseteq head

\* Nothing is stranded: accepted work is kept and nothing else with it, and
\* whatever else was begun can be found and reset, unless the handler passed
\* over a failed bead.
WorkIsRecoverable ==
  ~passedOver => AcceptedIsSafe /\ OnlyAcceptedIsCommitted /\ OneBegun /\ Resettable

\* The handler of a ticket in CODING ends: all beads are done, or the ticket
\* is blocked and a person can act.
CodingEnds == status = "CODING" ~> status # "CODING"

\* What the coding phase promises about the ticket's branch: every step is
\* one of the contract's as long as no failed bead was passed over.
Branch == INSTANCE BeadContract WITH
  committed <- head,
  finished <- WithStatus("done")
KeepsBranch ==
  Branch!Init /\ [][passedOver' \/ Branch!Next]_<<head, WithStatus("done")>>
=============================================================================
