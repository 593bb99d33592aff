# LoopTroop: a verification project

LoopTroop drives AI coding work through a ticket workflow: an interview, a
requirements document and a task plan drafted by a council of models, then
execution of the plan's tasks (beads) in a git worktree, tests, a pull request
and a merge. One Node.js daemon serves the API, holds one XState actor per
ticket, and talks to an OpenCode server that runs the AI sessions. What can go
wrong is less in any one step than in their meeting: users cancel, retry and
edit while handlers wait for remote answers, and the daemon may stop anywhere.

Paths below are relative to the repository root.

## Inventory

| Part | State it keeps | Operations | Hard because |
|---|---|---|---|
| Ticket machine, `server/machines/ticketMachine.ts` | status, previousStatus, blockedErrorResolution | the events of `machines/types.ts` | long legal sequences; BLOCKED_ERROR resumes to a remembered status |
| Persistence, `server/machines/persistence.ts`, `server/storage/ticketMutations.ts` | ticket row, snapshot, error occurrences; `activeActors` | persistSnapshot, hydrate, reconcile, recover, block, revert | two writes per emission; damaged snapshots; restarts |
| Runner, `server/workflow/runner.ts`, `workflow/phases/state.ts` | running phases, abort controllers, cancellation marker, redrive timer | processSnapshot, attemptCancellationCleanup | handlers, cancels and retries interleave at every await |
| Lifecycle routes, `server/routes/ticketHandlers/lifecycleHandlers.ts` | recovery claim | start, cancel, retry, continue | checks before awaits used after them |
| Session manager, `server/opencode/sessionManager.ts` | session rows, creations under way | create, reconnect, complete, abandon, abort | a stop must be confirmed by another process |
| Execution band, `server/workflow/executionBand.ts`, approval and setup routes, pre-flight doctor | none: the statuses are the lock | findProjectExecutionBandConflict | check and use far apart |
| Edit routes, `routeUtils.ts`, `interviewHandlers.ts`, `approvalHandlers.ts` | planning claim, documents | save, restart, revert | edits race approvals and retries |
| Phase attempts, `server/storage/ticketPhaseAttempts.ts` | attempt rows | archive, create, resolve | archive and create are separate writes |
| Bead execution, `server/phases/execution`, `workflow/phases/executionPhase.ts` | bead file, checkpoints, git | run, checkpoint, reset, recover | crash between git and file |
| Questions, `workflow/questionWindows.ts`, `workBudget.ts` | windows, budget ledgers | open, answer, expire, clear | timers race answers and session ends |
| Council, `server/council` | rounds, members | draft, vote, refine, stop and retry a member | quorum while members come and go |
| Interview batches, `workflow/phases/interviewPhase.ts` | batch claim | answer, skip, stop | claim shared by batches, edits and recovery |
| Merge, `workflow/mergeCompletion.ts`, `mergePoller.ts`, `phases/pullRequestPhase.ts` | reports, checkpoints, merge lock | merge, close, cancel, poll | GitHub changes between awaits; a call may fail with effect |
| Manual QA, `server/phases/manualQa` | checklist, fix beads | submit, skip, deliver | several files per operation |
| Event stream, `server/sse/broadcaster.ts`, `routes/stream.ts`, `src/hooks/useSSE.ts` | clients, replay buffer; a tab's cursor | broadcast, replay, reconnect, refetch | buffer coalesces what it replays; restarts |
| Files, `server/io` | temp files, lock database | atomic write, append, recover | crash at each step |
| Daemon, `server/lib/daemonLock.ts`, `server/daemon` | lock file | acquire, release stale | two daemons |
| Rest | | permission guard, structured output, prompts, logs, middleware, CLI, React client | sequential or presentation |

**Interactions.** A route sends an event to the actor; the actor's subscribers
run in order: persistence writes the row, then the runner looks at the new
status and starts its handler; the handler opens OpenCode sessions and sends
the next event. All of it shares one thread, so code between awaits is atomic,
and every await is a place where any other route, timer or handler can run.

**What makes each part correct.** Machine and persistence: the row always
tells where the ticket is, where it failed, and what became of each failure; a
ticket is never lost and never revived. Runner, routes and sessions: nothing
works on a ticket being stopped, a canceled ticket leaves no work behind, a
retried one meets none of its old work, and no stop is forgotten. Band: one
ticket per project in execution, and no two waiting for each other. Attempts:
one active attempt per phase. Beads: a bead's commit and its record agree.
Questions: every window resolves once, clocks stop exactly while one is open.
Council: a round ends with a quorum or an error. Stream: replay has no gap.
Files: a reader sees an old or a new file, never part of one.

## Modules

    TicketMachine         the statuses and transitions, as operators on a context
      TicketContract        abstract: what is promised of a ticket's row
      TicketLifecycle       one ticket: actor, row, history, crash, repair
      ExecutionSlot         the tickets of a project and its execution band
        TicketProofs          of both
      CancellationFence     stopping a ticket whose work runs elsewhere
        CancellationFenceProofs
    QuestionWindows         the questions of one workflow step, and their clock
      QuestionWindowsProofs
    BeadContract            abstract: what the coding phase promises of a branch
      BeadExecution         the beads of one ticket: iterations, git, checkpoints
        BeadExecutionProofs
    CouncilContract         abstract: when a round may close and how members wait
      CouncilRound          one voting round: voters, restarts, ballots, winner
        CouncilRoundProofs
    MergeCompletion         one review: Merge, Close, Cancel, poller, GitHub
      MergeCompletionProofs
    EventStream             the broadcaster and the tabs that follow a ticket
      EventStreamProofs
    AtomicFile              one file: writes, crashes, recovery at the start
    DaemonLock              the daemon's single-instance lock
      FileProofs              of both

Each module that is checked has an `MC` module with the values of its constants.
The modules about tickets share the transitions of `TicketMachine`, so an event
in any of them goes where the XState machine sends it.

### TicketMachine

A context is `[status, previous, resolution]`. `PlanningEdges` and
`ExecutionEdges` are the unguarded transitions, one tuple each; failures,
CANCEL, TESTS_PASSED (guarded by the manual QA setting) and the recovery
transitions are operators of their own. `ContextAfter` is `updateStatus` with
`recordError` or `clearError`. BEAD_COMPLETE has a guard on `beadProgress`,
which no action ever assigns: it stays 0 of 0, the guard is false, and the
event re-enters CODING, as in the code.

### TicketLifecycle and its contract

`actor` is the entry in `activeActors`, `row` the ticket's row, `occurrences`
its error history. An emission persists in two writes (`Persist`, then
`FinishPersist` while `pending` holds the second one): nothing yields between
them, so the only other action enabled there is `Crash`. `HydrateActor`,
`RecoverSnapshot` and `BlockForRecovery` are the three ways `hydrateAllTickets`
brings an actor back, by the condition of the stored snapshot. An edit is two
actions, `RequestEdit` and `EditStopped`, since its route waits for OpenCode in
between and reverts the ticket without checking it again. An edit asked for in
planning may thus take back a ticket that has entered execution meanwhile;
`Contract!GoBack` allows it because the code does it.

`TicketContract` is what a user may rely on, in two variables: a ticket
advances along the workflow, a failure stops it and remembers where, recovery
resumes exactly there, an edit goes back to an approval, and an end is final.
`KeepsContract` checks that `TicketLifecycle` implements it, with
`failedAt` mapped to what a reader of the database would find, through
crashes and repairs: a restart or a repair is a stutter or a failure.

### CancellationFence

`marked` is the durable marker (in memory and in
`.ticket/runtime/cancellation-pending.json`), `runs` the handler runs, live or
aborted, `sessions` the active session rows. Requests and passes that wait for
OpenCode are records: where they wait, which sessions they saw when they asked,
and whether one was being opened then. Each action ends at an await on
something outside the process; one that finds nothing to wait for goes on in
the same action. `StopOutcomes` is `abortTicketSessions`: any subset of the
seen sessions may be confirmed, and the stop counts only if all were, none had
been closed by somebody else, and none was opened meanwhile. The handlers'
bodies are abstracted to what the runner can see: a session opened, a result
the machine accepts, a failure, an unwinding abort, and the results
`handleCreatePullRequest` may report after it was aborted.

### ExecutionSlot

The tickets of one project; the band check is `Conflict`. An approval checks
and moves at once, Retry and Continue check, wait, and move; giving a blocked
setup plan back to its approval (`RequestBandEdit`, `EditAnswered`) does not check.
`left` holds the tickets whose failed work is still active in OpenCode, which
decides whether a Retry has anything to wait for. A request whose failure is
no longer the current one is `Outdated` and is refused, as
`failureStillCurrent` does.

### QuestionWindows

One workflow step of one ticket. `desk` is what LoopTroop holds of its
questions: the clocks (`QuestionTimer`), the state of each request on each
clock, the step's entry in `timersByTicket` (`window`), the suspensions of the
work budget (`depth`), and what is on disk (`saved`, `savedClock`, `waitRow`).
`remote` and `session` are OpenCode's side, `frames` the stream's messages on
their way. The entry of a step is dropped with its last question, while an
answer or a batch of refusals may still hold the old clock object, so clocks
have identities; a `QuestionTimer` nobody refers to is reused.

`route` is an answer or a skip from its claim to the end of its call; a
`batch` is `expireTimer` or `clearTicketWindows` on its way through the
requests it took: the one being refused, the ones behind it, and whether the
record was touched since its turn began (`intact`, the comparison of revisions
in `rejectRecord`). Every action ends at an await. `Closed` is `finish`,
`Attached` is `attachRequest` with `armOrResetTimer`, `Boot` the reconciliation
at the start, whose calls nothing else can interleave with in this model.

Three things can go wrong that the code does not survive; each is an element
of the constant `Lapses`, so that the runs can show what holds without it and
what fails with it: a question closed while it awaits its turn in a batch, a
list of questions that is older than a question, and a list that cannot be had
at the start.

### BeadExecution and its contract

The beads of a ticket in CODING, with everything that outlives the process
apart from what does not: the tracker (`beads`), the ticket's rows of OpenCode
sessions (`rows`), the checkpoint artifacts, the git branch (`head`) and the
worktree (`tree`) on one side, the handler's position (`step`) on the other.
Work is a set of pieces, one per bead and iteration, so that a reset, a
leftover and a commit can be told apart. `working` is the truth about OpenCode:
the sessions that still edit the worktree, whatever the server believes.
`BeadContract` says what is promised of the branch: it grows by finished work
only, a finished bead stays finished. `recent` keeps of the `updatedAt` stamps
what the code asks of them: which of two beads was written later. A record that
was never based on a commit is told apart by `based`. A Retry writes the
tracker and sends its event in two actions (`RetryWrite`, `RetryDispatch`), and
may be refused or cut off by a crash in each. What the code does not survive is
in the model, whole: a handler that starts while a bead has failed selects the
next one and leaves the failed bead's work in the worktree. A crash between the
bead's error in the tracker and the block of the ticket leads there, and so do
diagnostics left by an earlier message of the stream, which offer Continue a
session whose stop was not confirmed. The ghost `passedOver` is set at that step
(`PassesOver`); the safety properties are promised until then, `CodingEnds`
whatever happens.

### CouncilRound and its contract

One voting round of `server/council/voter.ts` under `memberControl.ts`. `slot`
is the member's slot (running, settled, dead), `at` where its loop stands,
`asked` the interruption a person left on the attempt, `turns` the sessions in
which OpenCode works, `kept` those preserved for a continuation, `votes` the
ballots with the attempt that cast them. `call` and `told` are the person's
request and the answer it got. `CouncilContract` is the round as its callers
see it: a settled member comes back to work or the round closes, and it closes
only when nobody works.

### MergeCompletion

`github` is the truth about the pull requests, with their head; `report` and
`decision` what LoopTroop has on record; `task` what each actor (the poller, the
user's requests) is doing and what it saw of GitHub; `queue` the ticket's merge
lock, first come first served. A locked section that waits for nothing is one
action; a failure within it leaves what was written before (`Dispatch`). Merge,
Close and the poller read GitHub outside the lock and decide under it. People
may push, merge, close, reopen or retarget a pull request, and leave the
worktree dirty or put it in order (`clean`); `Approved` is
`assertPullRequestMatchesExpected`, which compares branches and commit. `base`
says whether the pull request still has the branches that are compared. What git
says of a merged pull request with another head is any of the outcomes of
`reconcileEarlyMergedPullRequest`.

### EventStream

The broadcaster's clients and replay buffer on one side, the tabs with what they
have shown (`known`), their cursor, and the one stored for all tabs on the
other; `channel` is what is on the wire. Upserts of one log entry are coalesced
in the buffer; a later one stands for an earlier one (`Supersedes`). `Filter` is
the code's `filter`, as a recursive function. Ghosts: `last` is what a tab took
in last; `blind` holds events of a time for which the code promises nothing (the
first connection, and a return with a cleared cursor), `skipped` those that the
cursor of another tab made a tab skip.

### AtomicFile

One document, its temp files by generation, the proof file of each (the checksum
that says it is whole), the markers of a promotion by copy, and the server's
recovery pass at the start. Files are counted in pieces (`Whole`), so a kill may
fall between any two. Two actors write: the server and a CLI. Recovery is
modelled statement by statement, since each leaves files behind. A directory or
a temp file that cannot be opened, guarded or read is passed over and the start
goes on (`Boot`, `ScanFails`); a marker or target that cannot be read blocks it.
Ghosts: `unread` are the generations this start passed over so; `committed` is
the generation readers were last shown, set by a rename and by the first
publication of recovery; `meddled` says that a writer renamed or removed a file
while recovery promoted one, or beside its marker.

### DaemonLock

The lock file names a starter or nobody, and is old enough to be judged or not;
a stale lock is converted under a claim on its generation. A start makes
`Attempts` passes (`ACQUIRE_ATTEMPTS`, eight), which are not paced and may all
be over before a grace period is; then it reads the lock once more and is
refused in favour of whomever that names, or fails without one (`Last`). Every
process may be killed anywhere, and stalled past a grace period. `lapse` names
the three windows in which the file's content and its path are not read
together.

## Runs

| Run | Instance | Shows |
|---|---|---|
| lifecycle_all_phases | all 33 statuses; 1 failure anywhere or 2 in four of them; 1 crash between the writes or damaged snapshot | contract, final end, history and a way back over the whole workflow |
| fence_working | CODING and its neighbours, and pull request to cleanup; 2 sessions, 2 redrives, 1 restart, questions | no work behind the fence, clean cancels and retries; with fairness, every fence is lifted or its retries run out |
| slot_whole_band | 2 tickets, the whole band, all recoveries | only a recovery that waited joins an occupied band |
| slot_stale_check | the same | the band is shared after a Retry whose check was stale (violated) |
| questions_races | 2 questions of a session, 2 batches, lists that may be out of date | questions close once, have a clock, and hold the budgets still, whatever meets |
| questions_restart | 2 sessions with a question each, 1 batch, 1 restart, with fairness | clocks, records and wait rows survive; every wait nobody stopped leads to an attempt to end it |
| bead_recovery | 3 beads, the first waiting for the last; 2 iterations, 3 failing calls, 2 restarts, with fairness | until a failed bead is passed over, no try meets another, accepted work is kept and only that; coding ends |
| council_round | 2 voters, 3 attempts each, 2 unconfirmed stops, a cancellation, with fairness | the count is current and silent, people are told the truth, the round ends |
| daemon_lock | 2 starts of 8 passes and a stop over stale, young and unreadable locks, with kills and 2 failing writes or stalls, with fairness | one owner and one converter outside the windows; every start ends, and who keeps starting holds the lock or meets a live owner |
| atomic_file | 2 writers, 3 writes, 2 kills at any statement, 1 failing operation, the scan's included, with and without hard links | readers see whole documents unless the start could not look at what was left; recovery promotes what is finished and blocks only for cause |
| stream | 1 tab, a buffer of 2, 3 events, 2 drops, 1 leave, 1 restart, with fairness | nothing is lost in silence, nothing comes twice; a tab recovers |
| merge | 1 Merge, Close, Cancel and the poller; 2 pull requests, 2 requests, 2 moves on GitHub or in the worktree, 2 failures, 1 restart, with fairness | decisions are sound, stand and are carried out; a merge the checks let pass is noticed; every request is answered |

**Properties with parts.** Where a run lists a property that is a conjunction,
its parts are definitions of their own, right above it, each with its own
comment: `FenceIsKept`, `ClocksAreRight`, `RecoveryIsSound`,
`TriesAreIsolated`, `WorkIsRecoverable`, `CountIsSound`,
`LockIsSafe`, `DocumentIsSafe`, `ReplayIsHonest`, `DecisionIsSound`. The type
invariant of a module is a part of one of them, unless the run lists it itself.

**Bounds.** Statuses outside `Scope` are not visited: an event leading there is
not taken. `lifecycle_all_phases` visits them all. A ticket fails once in any
status, or twice in the statuses of `FailAgain`: enough for an occurrence to be
mistaken for an earlier one, with a retry, rewind or repair between, without
every pair of phases. One fault (`MaxFaults`) is a crash between the two writes
or a damaged snapshot; the proofs cover any number. In the fence, two sessions
let one survive while another is confirmed, and let a new run's session meet an
old run's stop; two redrives let one fail and the last give up; one restart
separates everything in memory from everything stored. Two tickets are enough
for a conflict between a pair, which is all the code asks about; the theorems
hold for any number. Two questions are enough for one to be closed while the
other is refused, and two batches for a teardown to meet an expiry; with them
three clocks never run out (an action that needs one more than `Clocks` has
would wait). Three beads let the leftovers of one be committed with another and
a later bead come first; two iterations let a session be taken for its
successor. Two voters meet every order of settling, stopping and restarting;
three (3.05 million states) were checked for safety, and are too many with
liveness. A tie between two drafts neither of which is the main implementer's
needs three and is not in the run. Two starts and a stop let one convert what
another still holds as it read it, while
the third has died with the lock or a claim; three starts of three passes (482
thousand states up to symmetry) were checked for safety, and are too many with
liveness; the theorem covers any number. Eight is the code's number of passes; the
theorem is for any. In the stream one tab has the whole protocol; two tabs with
the full bounds are too many, and with small ones show the cursor problem below.
In `merge`, two pull requests let a look at the first meet the second, two moves
let a push or a new base meet a merge or a close, and two requests with the
poller fill the lock's queue. Three moves and requests (3.35 million states)
were checked for safety, and are too many with liveness.

`lifecycle_all_phases` checks deadlock. The other runs do not: a completed or
canceled ticket, one whose timer gave up and whose user does nothing, a step
whose questions are closed, a round that has ended, or a file nobody writes any
more has no step left.

**Fairness.** fence_working: weak fairness of the redrive timer, of the remote
calls a request or pass waits for (each answers or times out), and of the
daemon being started again. There is none for users, for handlers, or for
OpenCode confirming anything: that is why the property allows the retries to
run out (`MAX_CANCELLATION_CLEANUP_RETRIES`, after which the code leaves it to
a manual Retry or Cancel). questions_restart: deadlines and their timers
(`setTimeout` fires), and the end of each call to OpenCode in one way or
another, but not any call's success: `RefusalIsTried` says that refusals go on
being tried, not that one lands. bead_recovery and council_round: the handler
goes on, calls end (a work budget or a prompt's timeout sees to it), and the
daemon is started again (for beads of the variables without the ghost, so that
setting it is no progress); nobody has to press Retry. daemon_lock: a process that
is not killed goes on, and time passes, so young files age; nobody has to start
the daemon again. stream: a tab that
stays goes on reconnecting (`scheduleReconnect`), frames arrive or the
connection drops, a heartbeat finds a browser that is gone. merge: what was
started goes on and the poller comes round (`startMergePoller` schedules itself
again in `finally`). Failures are bounded by constants, which stands for their
not going on for ever.

## Where the documentation and the code disagree

`slot_stale_check` is a run that TLC finds violated; PROJECT.json quotes the
lines: the band check of a Retry (`SlotIsExclusive`) is stale when it
dispatches, so two tickets of a project can share the execution band.

The following were found violated in these models by the properties named. They
stay defined in their modules, and no run asserts them; each is shown by adding
the property to the run of its module (`CursorBridges` with the constants of
`TwoTabs`, `OneDaemon` with a third start, the
three about questions with the lapse of their name).

- `NoStaleCancel` (CancellationFence): a cancel request sends CANCEL after its
  awaits without looking at its marker, so it can cancel the run of a Retry that
  cleared it (`lifecycleHandlers.ts:517`). "The explicit Retry path owns the new
  run once it clears this marker; the old cancellation pass must not send CANCEL
  into that run" (`server/workflow/runner.ts:318`): the cleanup pass looks, the
  request does not.
- `CleanupIsUnderWay` (CancellationFence): a late MERGE_COMPLETE under a fence
  leads to CLEANING_ENV, where the fence lets nothing run and CANCEL is not
  accepted (`runner.ts:452`). "Cleanup always advances the workflow to the
  terminal Done state" (`shared/workflowMeta.ts:1226`). The ticket stays there
  through every restart.
- `ClosedOnce` (QuestionWindows): `rejectRecord` notes a record's revision when
  its turn comes (`questionWindows.ts:816`), so a question closed while it waited
  its turn in a batch is refused and closed again, and the work budget resumes
  while another question is open.
- `ClosedMeansOver` (QuestionWindows): a poll drops the questions its list does
  not name (`questionWindows.ts:1257`), also one asked and attached while the
  list was on its way; its saved record then keeps it from being offered again,
  and its session waits without a clock.
- `StopIsKept` (QuestionWindows): a question that could not be listed at the
  start is attached by the next poll with a new clock, although a person had
  stopped the old one ("the countdown stops, for good", `CHANGELOG.md:495`).
- `AcceptedIsSafe` (BeadExecution, without `~passedOver`): a crash between the
  error in the tracker and the block of the ticket restarts CODING with the
  failed bead passed over (`workflow/phases/executionPhase.ts:816`); the next
  bead wipes the worktree, and work that was accepted and waits only for its
  commit is lost. The same start is reached where an iteration's time runs out,
  its stop is not confirmed, and diagnostics remembered from its stream offer
  Continue its session (`phases/execution/executor.ts:868`); what it goes on
  writing can be committed with the next bead.
- `RefusedForLiveOwner` (DaemonLock): while the claim on a dead owner's lock is
  held by a contender that was stopped or killed, a start uses up its eight
  passes and is refused in favour of the owner it found dead
  (`lib/daemonLock.ts:581`); "or throws DaemonLockedError when another live
  daemon holds it" (`lib/daemonLock.ts:530`). Behind a young file that names no
  one it gives up too, without naming an owner. `StartSettles` therefore says
  that a start *ends*, and that giving up does not go on for ever.
- `StopsBeforePartial` (AtomicFile): two kills leave a marked copy half made, and
  the next start cannot open its temp file or read the directory: it is left
  (`io/recovery.ts:983`, `:1020`) and the server runs on the half copy. "Startup
  must stop before readers can hydrate a partial document"
  (`io/recovery.ts:86`). `TargetIsWhole` states the exception.
- `OneDaemon` (DaemonLock): debris that is converted after it was replaced by a
  reservation that also names no one lets two starts both hold the lock
  (`lib/daemonLock.ts:477`), without any process being stalled.
- `CursorBridges` (EventStream): the cursor in storage is shared by all tabs. A
  tab that comes back with another tab's cursor, and whose first attempt fails,
  replays from an event it never had ("a non-zero cursor still bridges the
  outage quietly through the server's replay buffer", `src/hooks/useSSE.ts:517`).
- `CloseIsHonest` (MergeCompletion): Close reads GitHub before it takes the
  lock ("The observed state is passed into the locked write phase and checked
  again there", `lifecycleHandlers.ts:727`). If a Merge ahead of it in the queue
  merges on GitHub and then fails to verify the merge, Close records the ticket
  as closed without merge beside a report that says merged.

Observed while modelling:

- Cancellation: Continue does not lift the fence of a failed cancel, so nothing
  runs (`lifecycleHandlers.ts:1247`); Retry lifts it before the bead is
  recovered; a restart just after CANCEL leaves the marker for good and the
  startup sweep then skips the ticket (`startup.ts:312`).
- Band: a blocked setup plan given back beside another ticket at setup approval
  leaves two tickets that refuse each other (`executionSetupHandlers.ts:144`).
- Questions: one asked while the daemon was down inherits the stopped or
  expired clock of a window that was already empty (`readTimerArtifact`).
- Council: a restart is also answered as done when a cancellation closes the
  round under it (`memberControl.ts:316`); a session preserved for a
  continuation may still work when the ballots are counted.
- Merge: the redrive of an unconfirmed cancellation sends CANCEL without the
  merge lock and may overtake a recorded decision (`DecisionStands` excepts it);
  Cancel is accepted after our own merge on GitHub as long as no checkpoint says
  so; a candidate that was merged into another base is refused by every poll,
  Merge and Close, and only Cancel ends the review (`ReviewEnds` is about merges
  the checks let pass); while the worktree is dirty polls and Merges fail, until
  somebody puts it in order; a poller's older look may set the report back from
  merged to open.
- Stream: events between the first fetch of a ticket and the activation of its
  first connection are shown by neither (`useSSE.ts:219`).
- Files: startup stays blocked after a crash between creating the target of a
  copy and marking it (documented as fail-closed); a leftover marker of another
  generation blocks the start on a healthy document; recovery may discard a temp
  file a CLI is writing, so that its rename fails; of several orphans the first
  in directory order is promoted, not the newest (`recovery.ts:916`). A CLI write
  that fails takes its temp file away also while recovery copies from it; after
  three kills around that copy the server can start on a published document that
  was cut short to be copied again. `meddled` sets this aside, in `TargetIsWhole`
  and in `BlockedForCause`, but not in `CommittedStays`.
- Lock: `releaseStaleLock` answers 'absent' when it refuses to remove an
  unreadable file that is there (`daemonLock.ts:698`).

## What is proved

Every safety property the passing runs check, invariants, action properties and
refinements, is a theorem: true for every value of the constants that the
module's assumptions allow, so for any number of tickets, beads, voters,
questions, requests, events, tabs, writes, crashes and failures (and without the
lapses a run excludes, where a bullet says so). No invariant
of a run is inductive as it stands. Each proof module states the strengthening,
in named parts, shows that `Init` establishes it and that each action keeps it
(a lemma per action, under it a step per part the action can disturb), and
derives the properties from it.

- `TicketLifecycle`. `TypeCorrect`, `ActorAgrees`, `NoTicketOrphaned`,
  `TerminalStays`, `HistoryAgrees`. `AgreeInv`: while the server runs, an actor
  equals its row *also between the two writes*, a pending write implies an
  actor, and a readable snapshot has the row's status (which is why
  reconciliation never has to rewrite anything). `HistoryInv` says what the
  history looks like before, between and after the two writes; it needs
  `AgreeInv`, since the occurrence about to be recorded is taken from the
  actor's previous status. `TerminalStays` holds because a terminal row has no
  actor once its write is done, and every action that writes a row needs one or
  a non-terminal row.
  `RecoveryStaysSound`: `RecoveryInv` adds that every recorded failure names a
  status Retry accepts, that a pending resolution is true of the newest
  occurrence, and that only damage makes a snapshot unreadable.
  `ContractIsKept` is the refinement, `Spec /\ []OneKindOfFault =>
  KeepsContract`. The hypothesis is needed: if a crash tears the two writes *and*
  a snapshot is damaged, the repair falls back to an occurrence that was never
  resolved, and a reader sees the ticket blocked somewhere it did not fail.
  Either kind alone may happen any number of times. (`MaxFaults = 1` in the run
  implies it.)
- `CancellationFence`. `FenceStays`, `CanceledStaysQuiet`, `RetriesStartClean`.
  What the first promises includes that one handler at most is live and on the
  ticket's status (`LiveIsCurrent`). `FenceInv` adds: an aborted one that has
  not unwound is behind the fence or on an ended ticket, a blocked ticket has
  none. To this come what a process that is down has lost, and `ResetIsClean`:
  during the awaited reset of a bead, which precedes a Retry's dispatch, nothing
  is opened unless the ticket was canceled.
- `ExecutionSlot`. `SlotTypeCorrect`, whose substance is that only blocked
  tickets have work left running, and `JoinsAfterWaiting`. The argument for the
  latter is per action: only a move of the ticket itself changes its status, a
  failure or a cancel leads out of the band, an immediate Retry resumes
  `previous`, for which the band was asked in the same step, and the two that
  remain are the ones that waited.
- `QuestionWindows`, five theorems on a chain of invariants. `QuestionsTyped`
  and `WaitRecorded`, whatever lapses arise: a row is closed when the last
  question of a window goes, so `QuestionInv` needs that the entry goes with it
  (`SoundDesk`: an entry has a question and a row). `ClosingsAreFinal`, without
  "stale list": `OverInv` adds that a claimed question has a clock and that only
  what OpenCode asked is on the desk. `QuestionsCloseOnce`, without "late
  seizure": `OnceInv` adds that each resolving question is claimed by exactly
  one of the route and the batches. `ClocksStayRight`, without "late seizure"
  and "failed list", and without a stale list beside a restart: `KeepInv` adds
  where the promise of a stopped clock lives: on a clock that stands, in the
  saved record of a daemon that is down, or nowhere, for a question that can
  never come back. The excluded lapses are those with which the run finds the
  property violated (above, under the disagreements). Lemmas say of each
  operator on the desk (`Put`, `Armed`, `Attached`, `Closed`, `Expired`) what it
  keeps and what it leaves, field by field.
- `BeadExecution`. `TriesStayIsolated`, `WorkStaysRecoverable`, and the
  refinement `BranchIsKept`, under no assumption about what fails: each promises
  what it promises, the types included, until a failed bead is passed over, and
  nothing is said of the branch from then on. `IInv` holds up to that step.
  `Ledger`: one bead at a time is begun, it is the one that would be selected
  again, and it starts from exactly the work of the finished ones; the branch
  holds that and at most one accepted piece. `Desk`: the worktree holds what the
  present try wrote, and accepted work is in it or on the branch. `Routes` and
  `Place` say what is known at each position of the handler and of Retry, among
  them where nothing works in the worktree. The order of selection matters:
  without "the begun bead is selected again" a crash could leave a second one
  begun.
- `CouncilRound`. `CountStaysSound`, and the refinement `RoundIsKept`. `VoterOK`
  ties each voter's slot to the loop behind it, the answers people get to what
  they find, ballots to attempts, and sessions to positions; `RoundOpen` and
  `DecidedIsOver` tie them together, so that when the last loop leaves, none can
  come back.
  `WinnerIsFair`, for any number of drafts and ballots: the winner has the highest
  total, and among equals the best rank. Choosing is a fold over the drafts;
  `ScanBeats` shows that what it carries beats every draft it has passed, since
  `Better` is transitive (`BetterBeats`, `BeatsAlong`), `EveryDraftScanned` that it
  passes them all, and `TotalsRest` that a decided round's totals do not change.
- `MergeCompletion`. `DecisionsSound` and `DecisionsStand`. `SeenOK`: what an
  actor saw of GitHub while it waits for the lock stays true where it matters,
  since a merge on GitHub is final and fixes the head. `SectionOK` and
  `QueueOK`: the lock's holder is the head of the queue, and while it is in its
  section nothing is decided and no new pull request appears.
- `EventStream`. `ReplayStaysHonest` and `NothingIsLost`, for any tabs, any number
  of events and any size of the buffer. `Ascending`: the buffer's ids rise.
  `BufferCovers`: an event after the buffer's first that is no longer in it is
  superseded by one that is, so what is coalesced away still reaches a tab that
  replays. `TabOK` follows a tab from connecting to live: what is on its wire
  comes in order and is new to it (`InOrder`), and whatever lies after its cursor
  is shown, on the wire, or about to be refetched (`AfterCursor`, `FreshKnows`).
- `AtomicFile`. `DocumentStaysSafe`, `BlocksForCause`, `RecoveryStaysComplete`,
  for any number of writes, kills and failures. `RecoveryState` says, at each
  statement of recovery, what it has judged and done so far, whoever meddles.
  `Promotes` and `WholeOrMarked`, as long as nobody has: a target that is not
  whole is recovery's own copy, its temp file is whole and still there, its
  marker is beside it, and the running pass has yet to deal with it, or could not
  look at it (`unread`); so the pass either finishes the copy, stops the start, or
  has passed over what it could not open. `WritersApart` and `Unbegun`
  keep generations apart: no file is of a write that was not begun, and no two
  writers share one. `CommittedStays` was first stated with "and is whole when
  the server runs", which is false where a writer takes away the temp file under
  a copy: the induction failed there, and TLC shows it with three kills, one more
  than the run has.
- `DaemonLock`. `LockStaysSafe`. Always: what a claim says, whose generations are
  of the dead, and that no running process has left a claim behind. As long as
  no window was hit (`lapse = "none"`): a converter has the claim of its
  generation, the record it judged stays, one start reserves, and the file names
  the holder.

**Assumptions** are those of the modules (`ManualQaAssumption`,
`LifecycleAssumption`, `FenceAssumption`, `SlotAssumption`,
`QuestionAssumption`, `BeadsAssumption`, `CouncilAssumption`,
`MergeAssumption`, `ProcessesAssumption`, `StreamAssumption`, `FileAssumption`,
`NoFileAssumption`): the sets and bounds have their kinds,
questions and beads are finitely many, and the values that stand for "nothing"
are none of the things they are compared with. TLC evaluates each of them.

**Induction.** The library's induction theorems take an operator as a parameter,
which the prover cannot instantiate. Where a fold or a recursive function has to
be reasoned about (the totals and the scan of a round, the filtered buffer of
the stream), the proof modules use induction in set form: a set of naturals that
holds 0 and `n + 1` with each `n` is `Nat` (`Induction`, from
`NatLessThanWellFounded` and `WFMin`).

**Only model-checked.** Liveness (`FenceIsLifted`, `RefusalIsTried`,
`CodingEnds`, `RoundEnds`, `StartSettles`, `StreamRecovers`, `ReviewEnds`,
`RequestsAreAnswered`): fairness is about ENABLED, which is outside the prover.

## Not modelled, and the plan

Within the modelled parts: the contents of documents, error texts and logs;
temp files too large to be read, and the checks `pathIsTaken` and
`hasRecoveryMarker` failing by themselves; a
marker file that cannot be written or removed; session rows that could not be
written; the delete options of a cancel; receipts of questions, and a ledger of
budgets cleared under an open question; the schema retries of a voter; the
council's drafting and refining, which run on the same `memberControl`; the
daemon's heartbeat, other hosts and locks without tokens; the lock of appended
files, power loss, and the repair of a torn append; the runtime scopes of the
stream and the byte limit of its buffer; the poller's backoff and the other
tickets of its sweep. The phases' own work is external to these modules.

Not modelled at all: phase attempts, interview batches, coverage control and
manual QA (each a sequence of writes under the claims of the edit routes, next
in the plan); the OpenCode supervisor and adapter (processes and HTTP, whose
answers the models take as given in every order); the permission guard,
middleware, structured output, prompts and logs (sequential, mostly text); the
client apart from its stream, the CLI and the scripts (no authoritative state).

Next, in this order:

1. `PhaseAttempts` and `PlanningRestart`: attempts, claims and edits against
   Retry, with a crash between archive and create.
2. `InterviewBatch`, and manual QA, which feeds beads to `BeadExecution`.
3. The council's other rounds, and `runningPhases` in the fence.
