--------------------------- MODULE TicketLifecycle ---------------------------
(***************************************************************************)
(* One ticket from creation to its end: the XState actor in memory and     *)
(* what the server keeps of it in SQLite (server/machines/persistence.ts   *)
(* and server/storage/ticketMutations.ts).                                 *)
(*                                                                         *)
(* The actor's subscriber persists every emission.  patchTicket writes     *)
(* status and snapshot in one UPDATE; entering or leaving BLOCKED_ERROR    *)
(* then takes a second, separate write, which records or resolves an error *)
(* occurrence.  All of it runs without yielding, so no other handler can   *)
(* come between, but the process can stop between the two: that is the     *)
(* only step enabled while `pending' holds a write besides the write       *)
(* itself.                                                                 *)
(***************************************************************************)
EXTENDS TicketMachine, Sequences

CONSTANTS
  Nil,          \* no actor in activeActors; a NULL xstate_snapshot column
  Damaged,      \* a snapshot that no longer parses or names no known phase
  Scope,        \* bound: the statuses the ticket may visit
  MaxFailures,  \* bound: error occurrences of one ticket
  FailAgain,    \* bound: the statuses a ticket may fail in more than once
  MaxFaults     \* bound: crashes between the two writes and damaged snapshots

ASSUME LifecycleAssumption ==
  /\ Nil \notin Contexts /\ Damaged \notin Contexts /\ Nil # Damaged
  /\ Scope \subseteq Statuses /\ FailAgain \subseteq Statuses
  /\ {MaxFailures, MaxFaults} \subseteq Nat

VARIABLES
  up,           \* the server process runs
  actor,        \* the ticket's entry in activeActors, or Nil
  row,          \* the ticket's row: [status, snapshot]
  occurrences,  \* the ticket_error_occurrences rows, oldest first
  pending,      \* the second write persistSnapshot still has to make
  edit,         \* the approval status a saved edit, waiting for the ticket's
                \* work to stop, will take the ticket back to, or None
  torn,         \* crashes that hit between the two writes
  damage        \* snapshots damaged so far

vars == <<up, actor, row, occurrences, pending, edit, torn, damage>>

Occurrences == [from       : Statuses,
                resolution : Resolutions \cup {"OPEN", "CANCELED"},
                resumedTo  : Statuses \cup {None}]

\* The approval statuses that edits go back to.
ApprovalGates == {"WAITING_INTERVIEW_APPROVAL", "WAITING_PRD_APPROVAL",
                  "WAITING_EXECUTION_SETUP_APPROVAL"}

NoWrite == [op |-> "none"]
Record(from) ==
  [op |-> "record",
   occurrence |-> [from |-> from, resolution |-> "OPEN", resumedTo |-> None]]
Resolve(resolution, resumedTo) ==
  [op |-> "resolve", resolution |-> resolution, resumedTo |-> resumedTo]

Quiet == up /\ pending.op = "none"

\* Bound: one failure anywhere, or up to MaxFailures in the phases FailAgain.
MayFail(status) ==
  /\ Len(occurrences) < MaxFailures
  /\ occurrences # <<>> => {status} \cup {occurrences[i].from : i \in DOMAIN occurrences}
                             \subseteq FailAgain

-----------------------------------------------------------------------------
(* What is read back from the database.                                     *)

OpenOccurrences == {i \in DOMAIN occurrences : occurrences[i].resolution = "OPEN"}

\* previousStatus of the public ticket: the snapshot's, or for a blocked row
\* whose snapshot cannot be read, where the last occurrence blocked.
DurablePrevious ==
  IF row.snapshot \in Contexts /\ row.snapshot.previous # None
    THEN row.snapshot.previous
  ELSE IF row.status = "BLOCKED_ERROR" /\ occurrences # << >>
    THEN occurrences[Len(occurrences)].from
  ELSE None

-----------------------------------------------------------------------------
(* persistSnapshot.                                                         *)

\* Mutant: only Retry and Continue resolve the open occurrence, not Cancel.
CancelLeavesOccurrenceOpen(from, m) ==
  IF from = m.status \/ m.status = "CANCELED" THEN NoWrite
  ELSE IF m.status = "BLOCKED_ERROR" THEN Record(from)
  ELSE IF from # "BLOCKED_ERROR" THEN NoWrite
  ELSE Resolve(IF m.resolution = "CONTINUED" THEN "CONTINUED" ELSE "RETRIED", m.status)

\* The write that follows the UPDATE when the row moves from `from' to the
\* status of m.
SecondWrite(from, m) ==
  IF from = m.status THEN NoWrite
  ELSE IF m.status = "BLOCKED_ERROR" THEN Record(from)
  ELSE IF from # "BLOCKED_ERROR" THEN NoWrite
  ELSE IF m.status = "CANCELED" THEN Resolve("CANCELED", None)
  ELSE IF m.resolution = "CONTINUED" THEN Resolve("CONTINUED", m.status)
  ELSE Resolve("RETRIED", m.status)

\* Mutant: the subscriber never removes a finished actor.
NeverUnregistered(m) == m

\* A finished actor leaves activeActors once its last emission is persisted.
Registered(m) == IF m.status \in Terminal THEN Nil ELSE m

Persist(m) ==
  /\ row'     = [status |-> m.status, snapshot |-> m]
  /\ pending' = SecondWrite(row.status, m)
  /\ actor'   = IF pending'.op = "none" THEN Registered(m) ELSE m

\* resolveLatestTicketErrorOccurrence: the newest open occurrence, if any.
ResolveNewest(resolution, resumedTo) ==
  IF OpenOccurrences = {} THEN occurrences
  ELSE LET newest == CHOOSE i \in OpenOccurrences : \A j \in OpenOccurrences : j <= i
       IN  [occurrences EXCEPT ![newest].resolution = resolution,
                               ![newest].resumedTo  = resumedTo]

FinishPersist ==
  /\ up
  /\ \/ /\ pending.op = "record"
        /\ occurrences' = Append(occurrences, pending.occurrence)
     \/ /\ pending.op = "resolve"
        /\ occurrences' = ResolveNewest(pending.resolution, pending.resumedTo)
  /\ pending' = NoWrite
  /\ actor' = Registered(actor)
  /\ UNCHANGED <<up, row, edit, torn, damage>>

-----------------------------------------------------------------------------
(* Events.                                                                  *)

\* actor.send: the machine moves to a target, or ignores the event and emits
\* its unchanged snapshot.
SendEvent(e) ==
  /\ Quiet
  /\ actor # Nil
  /\ LET targets == Targets(actor, e)
     IN  \/ \E t \in targets \cap Scope :
              /\ t = "BLOCKED_ERROR" => MayFail(actor.status)
              /\ Persist(ContextAfter(actor, e, t))
         \/ targets = {} /\ Persist(actor)
  /\ UNCHANGED <<up, occurrences, edit, torn, damage>>

\* The statuses from which the edit routes accept an edit of a document whose
\* approval is behind: status and previous are those of the public ticket.
Rewindable(status, previous, target) ==
  \/ /\ target = "WAITING_INTERVIEW_APPROVAL"
     /\ \/ status \in PrdStatuses \cup BeadsStatuses
        \/ status = "BLOCKED_ERROR" /\ previous \in PlanningStatuses
  \/ /\ target = "WAITING_PRD_APPROVAL"
     /\ \/ status \in BeadsStatuses
        \/ status = "BLOCKED_ERROR" /\ previous \in PlanningStatuses
  \/ /\ target = "WAITING_EXECUTION_SETUP_APPROVAL"
     /\ \/ status = "PREPARING_EXECUTION_ENV"
        \/ status = "BLOCKED_ERROR" /\ previous = "PREPARING_EXECUTION_ENV"

\* An edit is saved: its route checks the ticket, and then waits for OpenCode
\* to confirm that the ticket's work stopped.  (Bound: one edit at a time; the
\* planning claim ensures it for all but edits of a blocked setup plan.)
RequestEdit(target) ==
  /\ Quiet
  /\ edit = None
  /\ target \in Scope
  /\ Rewindable(row.status, DurablePrevious, target)
  /\ edit' = target
  /\ UNCHANGED <<up, actor, row, occurrences, pending, torn, damage>>

\* The stop was not confirmed, or the ticket is finished, or already there; or
\* revertTicketToApprovalStatus replaces the actor by one restored from the
\* edited snapshot, whose first emission is persisted.  Nothing asks whether
\* the ticket is still where the edit found it.
EditStopped ==
  /\ Quiet
  /\ edit # None
  /\ edit' = None
  /\ \/ UNCHANGED <<actor, row, pending>>
     \/ /\ actor # Nil
        /\ actor.status # edit
        /\ Persist([actor EXCEPT !.status = edit, !.previous = actor.status])
  /\ UNCHANGED <<up, occurrences, torn, damage>>

\* rollbackTicketStartToDraft: a failed start forgets the actor and snapshot.
RollbackStart ==
  /\ Quiet
  /\ row.status = "DRAFT"
  /\ row'   = [row EXCEPT !.snapshot = Nil]
  /\ actor' = Nil
  /\ UNCHANGED <<up, occurrences, pending, edit, torn, damage>>

-----------------------------------------------------------------------------
(* Bringing an actor back from the row.                                     *)

\* reconcileSnapshotForTicket and hydrateTicketActor: the row's status wins,
\* and the first emission is not persisted.
HydrateActor ==
  /\ row.snapshot \in Contexts
  /\ LET s == row.snapshot
         reconciled == IF s.status = row.status THEN s
                       ELSE [s EXCEPT !.status = row.status, !.previous = s.status]
     IN  actor' = IF row.status = "BLOCKED_ERROR" /\ reconciled.previous = None
                    THEN [reconciled EXCEPT !.previous = DurablePrevious]
                    ELSE reconciled
  /\ UNCHANGED <<row, pending>>

\* Mutant: the rebuilt snapshot drives the actor but is not written back.
RecoverWithoutPatch ==
  /\ row.snapshot = Nil
  /\ row.status # "DRAFT"
  /\ actor' = [status     |-> row.status,
               previous   |-> IF row.status = "BLOCKED_ERROR"
                                THEN DurablePrevious ELSE None,
               resolution |-> None]
  /\ UNCHANGED <<row, pending>>

\* recoverSnapshotForTicket: no snapshot, so one is rebuilt from the row.
RecoverSnapshot ==
  /\ row.snapshot = Nil
  /\ row.status # "DRAFT"
  /\ actor' = [status     |-> row.status,
               previous   |-> IF row.status = "BLOCKED_ERROR"
                                THEN DurablePrevious ELSE None,
               resolution |-> None]
  /\ row' = [row EXCEPT !.snapshot = actor']
  /\ UNCHANGED pending

\* blockTicketForSnapshotRecovery: the snapshot cannot be used, so the ticket
\* is blocked where its row says it was.
BlockForRecovery ==
  /\ row.snapshot = Damaged
  /\ row.status # "DRAFT"
  /\ LET from == IF row.status # "BLOCKED_ERROR" THEN row.status
                 ELSE IF DurablePrevious # None THEN DurablePrevious
                 ELSE "DRAFT"
     IN  /\ actor' = [status |-> "BLOCKED_ERROR", previous |-> from, resolution |-> None]
         /\ row' = [status |-> "BLOCKED_ERROR", snapshot |-> actor']
         /\ pending' = IF row.status = "BLOCKED_ERROR" THEN NoWrite ELSE Record(from)

\* Mutant: tickets whose snapshot cannot be used are skipped at boot.
BootSkipsDamaged ==
  /\ ~up
  /\ up' = TRUE
  /\ \/ row.status \notin Terminal /\ (HydrateActor \/ RecoverSnapshot)
     \/ /\ row.status \in Terminal \cup {"DRAFT"} \/ row.snapshot = Damaged
        /\ UNCHANGED <<actor, row, pending>>
  /\ UNCHANGED <<occurrences, edit, torn, damage>>

\* hydrateAllTickets, for this ticket: terminal tickets and drafts without a
\* usable snapshot are left without an actor.
Boot ==
  /\ ~up
  /\ up' = TRUE
  /\ \/ row.status \notin Terminal /\ (HydrateActor \/ RecoverSnapshot \/ BlockForRecovery)
     \/ /\ \/ row.status \in Terminal
           \/ row.status = "DRAFT" /\ row.snapshot \notin Contexts
        /\ UNCHANGED <<actor, row, pending>>
  /\ UNCHANGED <<occurrences, edit, torn, damage>>

\* ensureActorForTicket without an actor.  Only drafts are ever in that case
\* (NoOrphan below); createTicketActor starts a new machine, whose entry action
\* makes DRAFT its own previous status, and persists its first emission.
EnsureActor ==
  /\ Quiet
  /\ actor = Nil
  /\ row.status = "DRAFT"
  /\ row.snapshot \notin Contexts
  /\ Persist([status |-> "DRAFT", previous |-> "DRAFT", resolution |-> None])
  /\ UNCHANGED <<up, occurrences, edit, torn, damage>>

-----------------------------------------------------------------------------
(* Faults.                                                                  *)

\* The process stops: everything in memory is gone, a second write included.
Crash ==
  /\ up
  /\ pending.op # "none" => torn + damage < MaxFaults
  /\ up'      = FALSE
  /\ actor'   = Nil
  /\ pending' = NoWrite
  /\ edit'    = None
  /\ torn'    = IF pending.op # "none" THEN torn + 1 ELSE torn
  /\ UNCHANGED <<row, occurrences, damage>>

\* While the server is down a snapshot becomes unusable: a database edited or
\* restored by hand, or one written by a version with other phases.
DamageSnapshot ==
  /\ ~up
  /\ torn + damage < MaxFaults
  /\ row.snapshot \in Contexts
  /\ MayFail(row.status)
  /\ \E s \in {Nil, Damaged} : row' = [row EXCEPT !.snapshot = s]
  /\ damage' = damage + 1
  /\ UNCHANGED <<up, actor, occurrences, pending, edit, torn>>

-----------------------------------------------------------------------------
\* A new ticket: a DRAFT row without a snapshot, and no actor.
Init ==
  /\ up          = TRUE
  /\ actor       = Nil
  /\ row         = [status |-> "DRAFT", snapshot |-> Nil]
  /\ occurrences = << >>
  /\ pending     = NoWrite
  /\ edit        = None
  /\ torn        = 0
  /\ damage      = 0

Next ==
  \/ \E e \in Events : SendEvent(e)
  \/ \E target \in ApprovalGates : RequestEdit(target)
  \/ EditStopped
  \/ FinishPersist
  \/ RollbackStart
  \/ EnsureActor
  \/ Boot
  \/ Crash
  \/ DamageSnapshot

Spec == Init /\ [][Next]_vars

-----------------------------------------------------------------------------
(* Properties.                                                              *)

PendingWrites == {NoWrite} \cup {Record(from) : from \in Statuses}
                   \cup {Resolve(r, s) : r \in Resolutions \cup {"CANCELED"},
                                         s \in Statuses \cup {None}}

TypeOK ==
  /\ up \in BOOLEAN
  /\ actor \in Contexts \cup {Nil}
  /\ row \in [status : Statuses, snapshot : Contexts \cup {Nil, Damaged}]
  /\ occurrences \in Seq(Occurrences)
  /\ pending \in PendingWrites
  /\ edit \in ApprovalGates \cup {None}
  /\ torn \in Nat
  /\ damage \in Nat

\* A running server never acts on a ticket state other than the one it would
\* read back: whenever it is idle, the actor in memory is exactly the stored
\* snapshot, through events, rewinds, crashes and every way of restoring it.
ActorMatchesRow ==
  Quiet /\ actor # Nil => row = [status |-> actor.status, snapshot |-> actor]

\* A ticket under way is never left without an actor to drive it: after any
\* restart, hydrateAllTickets has found a way to bring it back.
NoOrphan ==
  Quiet /\ row.status \notin Terminal \cup {"DRAFT"} => actor # Nil

\* Unless a crash fell between the two writes, the error history agrees with
\* the row: a blocked ticket has exactly one open occurrence, the newest, and
\* it names the status Retry would resume; any other ticket has none.
HistoryMatchesRow ==
  torn = 0 /\ pending.op = "none" =>
    IF row.status = "BLOCKED_ERROR"
      THEN /\ occurrences # << >>
           /\ OpenOccurrences = {Len(occurrences)}
           /\ occurrences[Len(occurrences)].from = DurablePrevious
      ELSE OpenOccurrences = {}

\* The history tells the truth about each recovery: CONTINUED only where the
\* ticket went on from the status that failed, CANCELED only when it did not
\* go on, and RETRIED where it failed or at an approval gate an edit took it
\* back to.
HistoryIsTrue ==
  torn = 0 =>
    \A i \in DOMAIN occurrences :
      LET o == occurrences[i]
      IN  /\ o.resolution = "CONTINUED" => o.resumedTo = o.from
          /\ o.resolution = "RETRIED" => o.resumedTo \in {o.from} \cup ApprovalGates
          /\ o.resolution \in {"OPEN", "CANCELED"} => o.resumedTo = None

\* A blocked ticket can always be retried: its previous status is one RETRY
\* leads to, also after a restart with a damaged snapshot, or after a crash
\* between the two writes (but not after both).
RetryHasATarget ==
  Quiet /\ actor # Nil /\ (torn = 0 \/ damage = 0) =>
    (actor.status = "BLOCKED_ERROR" => Targets(actor, "RETRY") # {})

\* What recovery needs: a true history and a way back.
RecoveryIsSound == HistoryIsTrue /\ RetryHasATarget

\* The end of a ticket is final: no event, rewind, restart or repair gives a
\* finished ticket another status or an actor again.
TerminalIsFinal ==
  [][row.status \in Terminal =>
       row'.status = row.status /\ (pending.op = "none" => actor' = Nil)]_vars

\* The ticket, seen through its row alone, keeps the contract, crashes and
\* damage included: failedAt is what a reader of the database finds.
FailedAt == IF row.status = "BLOCKED_ERROR" THEN DurablePrevious ELSE None

Contract == INSTANCE TicketContract WITH status <- row.status, failedAt <- FailedAt

KeepsContract == Contract!Spec

-----------------------------------------------------------------------------
(* The inductive invariants behind these properties, proved in              *)
(* TicketProofs.                                                            *)

\* Memory is empty while the server is down, and agrees with the row while it
\* runs, a half-made second write included.
AgreeInv ==
  /\ ~up => actor = Nil /\ pending = NoWrite
  /\ actor # Nil => row = [status |-> actor.status, snapshot |-> actor]
  /\ pending.op # "none" => actor # Nil
  /\ up /\ row.status \notin Terminal \cup {"DRAFT"} => actor # Nil
  /\ pending.op = "none" /\ row.status \in Terminal => actor = Nil
  /\ row.snapshot \in Contexts => row.snapshot.status = row.status
  /\ pending.op = "record" => row.snapshot.previous # None
  \* A blocked snapshot that names no previous status has no history that
  \* hydrateTicketActor could take one from.
  /\ row.status = "BLOCKED_ERROR" /\ row.snapshot \in Contexts
       /\ row.snapshot.previous = None => occurrences = << >>

\* The history, before, between and after the two writes of an emission.
HistoryInv ==
  torn = 0 =>
    CASE pending.op = "none"    -> HistoryMatchesRow
      [] pending.op = "record"  ->
           /\ row.status = "BLOCKED_ERROR"
           /\ row.snapshot \in Contexts
           /\ OpenOccurrences = {}
           /\ pending.occurrence.resolution = "OPEN"
           /\ pending.occurrence.from = row.snapshot.previous
      [] pending.op = "resolve" ->
           /\ row.status # "BLOCKED_ERROR"
           /\ pending.resolution # "OPEN"
           /\ OpenOccurrences = {Len(occurrences)}

=============================================================================
