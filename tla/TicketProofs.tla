---------------------------- MODULE TicketProofs ----------------------------
(***************************************************************************)
(* What TicketLifecycle and ExecutionSlot, the two specifications of       *)
(* TicketMachine, keep for every choice of their constants.                *)
(***************************************************************************)
EXTENDS TicketLifecycle, ExecutionSlot, TLAPS

-----------------------------------------------------------------------------
(* The machine.                                                             *)

\* Every forward transition starts at a status that is neither blocked nor
\* terminal, and leads to a status that is not blocked.
LEMMA ForwardEdgesType ==
  \A edge \in ForwardEdges :
    /\ edge[1] \in Resumable
    /\ edge[3] \in Resumable \cup Terminal
  BY SMTT(60) DEF ForwardEdges, PlanningEdges, ExecutionEdges, Resumable,
     PlanningStatuses, InterviewStatuses, PrdStatuses, BeadsStatuses,
     ExecutionBand, Terminal

LEMMA FailureEdgesType == \A edge \in FailureEdges : edge[1] \in Resumable
  BY DEF FailureEdges, Resumable, PlanningStatuses, InterviewStatuses,
     PrdStatuses, BeadsStatuses, ExecutionBand

\* BLOCKED_ERROR and the terminal statuses are not statuses to resume to.
LEMMA ResumableApart ==
  /\ "BLOCKED_ERROR" \notin Resumable
  /\ Terminal \cap Resumable = {}
  /\ "BLOCKED_ERROR" \notin Terminal
  /\ "DRAFT" \in Resumable
  /\ None \notin Statuses
  BY DEF Resumable, PlanningStatuses, InterviewStatuses, PrdStatuses,
     BeadsStatuses, ExecutionBand, Terminal, Statuses, None

LEMMA GatesResumable == ApprovalGates \subseteq Resumable
  BY DEF ApprovalGates, Resumable, PlanningStatuses, InterviewStatuses,
     PrdStatuses, ExecutionBand

\* Where the machine can go: nowhere from a terminal status, to BLOCKED_ERROR
\* only from a resumable one, and from BLOCKED_ERROR only back to the previous
\* status or to CANCELED.
LEMMA TargetsType ==
  ASSUME NEW m \in Contexts, NEW e, NEW t \in Targets(m, e)
  PROVE  /\ t \in Statuses
         /\ m.status \notin Terminal
         /\ t = "BLOCKED_ERROR" => m.status \in Resumable
         /\ m.status = "BLOCKED_ERROR" => \/ t = "CANCELED"
                                          \/ /\ e \in RecoveryEvents
                                             /\ t = m.previous
                                             /\ t \in Resumable
<1>1. CASE t \in ForwardTargets(m, e)
  BY <1>1, ForwardEdgesType, ResumableApart DEF ForwardTargets, Statuses
<1>2. CASE t \in AfterTestsTargets(m, e)
  BY <1>2 DEF AfterTestsTargets, Statuses, Resumable, ExecutionBand, Terminal
<1>3. CASE t \in FailureTargets(m, e)
  BY <1>3, FailureEdgesType, ResumableApart DEF FailureTargets, Statuses
<1>4. CASE t \in CancelTargets(m, e)
  BY <1>4, ResumableApart DEF CancelTargets, Cancelable, Statuses, Terminal
<1>5. CASE t \in ResumeTargets(m, e)
  BY <1>5, ResumableApart DEF ResumeTargets, Statuses
<1> QED BY <1>1, <1>2, <1>3, <1>4, <1>5 DEF Targets

LEMMA ContextAfterType ==
  ASSUME NEW m \in Contexts, NEW e, NEW t \in Targets(m, e)
  PROVE  /\ ContextAfter(m, e, t) \in Contexts
         /\ ContextAfter(m, e, t).status = t
         /\ t = "BLOCKED_ERROR" => ContextAfter(m, e, t).previous = m.status
  BY TargetsType DEF ContextAfter, ResolutionAfter, Contexts, Resolutions, None

-----------------------------------------------------------------------------
(* Type correctness.                                                        *)

LEMMA DurablePreviousType ==
  ASSUME TypeOK
  PROVE  DurablePrevious \in Statuses \cup {None}
<1>1. row.snapshot \in Contexts => row.snapshot.previous \in Statuses \cup {None}
  BY DEF Contexts
<1>2. ASSUME occurrences # << >>
      PROVE  occurrences[Len(occurrences)].from \in Statuses
  <2>1. Len(occurrences) \in DOMAIN occurrences
    BY <1>2 DEF TypeOK
  <2>2. occurrences[Len(occurrences)] \in Occurrences
    BY <2>1 DEF TypeOK
  <2> QED BY <2>2 DEF Occurrences
<1> QED BY <1>1, <1>2 DEF DurablePrevious

LEMMA SecondWriteType ==
  ASSUME NEW from \in Statuses, NEW m \in Contexts
  PROVE  SecondWrite(from, m) \in PendingWrites
  BY DEF SecondWrite, PendingWrites, Contexts, Resolutions

\* Persisting a context keeps the types.
LEMMA PersistType ==
  ASSUME TypeOK, NEW m \in Contexts, Persist(m),
         edit' \in ApprovalGates \cup {None},
         UNCHANGED <<up, occurrences, torn, damage>>
  PROVE  TypeOK'
<1>1. row' \in [status : Statuses, snapshot : Contexts \cup {Nil, Damaged}]
  BY DEF Persist, Contexts
<1>2. pending' \in PendingWrites
  BY SecondWriteType DEF Persist, TypeOK
<1>3. actor' \in Contexts \cup {Nil}
  BY DEF Persist, Registered
<1> QED BY <1>1, <1>2, <1>3 DEF TypeOK

\* Resolving an occurrence keeps the history a sequence of occurrences.
LEMMA ResolveNewestType ==
  ASSUME TypeOK, NEW r \in Resolutions \cup {"CANCELED"},
         NEW s \in Statuses \cup {None}
  PROVE  /\ ResolveNewest(r, s) \in Seq(Occurrences)
         /\ Len(ResolveNewest(r, s)) = Len(occurrences)
<1> DEFINE newest == CHOOSE i \in OpenOccurrences : \A j \in OpenOccurrences : j <= i
           marked == [occurrences EXCEPT ![newest].resolution = r,
                                         ![newest].resumedTo  = s]
<1>1. occurrences \in [1..Len(occurrences) -> Occurrences] /\ Len(occurrences) \in Nat
  BY DEF TypeOK
<1>2. marked \in [1..Len(occurrences) -> Occurrences]
  <2> HIDE DEF newest
  <2> QED BY <1>1 DEF Occurrences
<1>3. marked \in Seq(Occurrences) /\ Len(marked) = Len(occurrences)
  <2> HIDE DEF marked
  <2> QED BY <1>1, <1>2
<1> QED BY <1>1, <1>3 DEF ResolveNewest, TypeOK

LEMMA SendEventType ==
  ASSUME TypeOK, NEW e \in Events, SendEvent(e)
  PROVE  TypeOK'
<1>1. actor \in Contexts
  BY DEF TypeOK, SendEvent
<1>2. UNCHANGED <<up, occurrences, torn, damage>> /\ edit' \in ApprovalGates \cup {None}
  BY DEF SendEvent, TypeOK
<1>3. CASE Persist(actor)
  BY <1>1, <1>2, <1>3, PersistType
<1>4. ASSUME NEW t \in Targets(actor, e), Persist(ContextAfter(actor, e, t))
      PROVE  TypeOK'
  BY <1>1, <1>2, <1>4, ContextAfterType, PersistType
<1> QED BY <1>3, <1>4 DEF SendEvent

LEMMA EditStoppedType ==
  ASSUME TypeOK, EditStopped
  PROVE  TypeOK'
<1>1. UNCHANGED <<up, occurrences, torn, damage>> /\ edit' = None
  BY DEF EditStopped
<1>2. CASE UNCHANGED <<actor, row, pending>>
  BY <1>1, <1>2 DEF TypeOK
<1>3. CASE actor # Nil /\ Persist([actor EXCEPT !.status = edit, !.previous = actor.status])
  <2> DEFINE m == [actor EXCEPT !.status = edit, !.previous = actor.status]
  <2>1. m \in Contexts
    BY <1>3, GatesResumable DEF TypeOK, EditStopped, Contexts, Statuses
  <2>2. Persist(m)
    BY <1>3
  <2> HIDE DEF m
  <2> QED BY <1>1, <2>1, <2>2, PersistType
<1> QED BY <1>2, <1>3 DEF EditStopped

LEMMA FinishPersistType ==
  ASSUME TypeOK, FinishPersist
  PROVE  TypeOK'
<1>1. occurrences' \in Seq(Occurrences)
  <2>1. CASE pending.op = "record"
    <3>1. pending.occurrence \in Occurrences
      BY <2>1 DEF TypeOK, PendingWrites, NoWrite, Record, Resolve, Occurrences
    <3> QED BY <2>1, <3>1 DEF FinishPersist, TypeOK
  <2>2. CASE pending.op = "resolve"
    <3>1. /\ pending.resolution \in Resolutions \cup {"CANCELED"}
          /\ pending.resumedTo \in Statuses \cup {None}
      BY <2>2 DEF TypeOK, PendingWrites, NoWrite, Record, Resolve
    <3> QED BY <2>2, <3>1, ResolveNewestType DEF FinishPersist
  <2> QED BY <2>1, <2>2 DEF FinishPersist
<1>2. pending' \in PendingWrites
  BY DEF FinishPersist, PendingWrites
<1>3. actor' \in Contexts \cup {Nil}
  BY DEF FinishPersist, TypeOK, Registered
<1> QED BY <1>1, <1>2, <1>3 DEF FinishPersist, TypeOK

\* Whatever Boot restores is a context, a row and a write of the right kind.
LEMMA BootType ==
  ASSUME TypeOK, Boot
  PROVE  TypeOK'
<1> DEFINE Good == /\ actor' \in Contexts \cup {Nil}
                   /\ row' \in [status : Statuses,
                                snapshot : Contexts \cup {Nil, Damaged}]
                   /\ pending' \in PendingWrites
<1>1. ASSUME HydrateActor PROVE Good
  <2>1. actor' \in Contexts
    BY <1>1, DurablePreviousType DEF HydrateActor, TypeOK, Contexts
  <2> QED BY <1>1, <2>1 DEF HydrateActor, TypeOK
<1>2. ASSUME RecoverSnapshot PROVE Good
  <2>1. actor' \in Contexts
    BY <1>2, DurablePreviousType DEF RecoverSnapshot, TypeOK, Contexts
  <2> QED BY <1>2, <2>1 DEF RecoverSnapshot, TypeOK
<1>3. ASSUME BlockForRecovery PROVE Good
  <2> DEFINE from == IF row.status # "BLOCKED_ERROR" THEN row.status
                     ELSE IF DurablePrevious # None THEN DurablePrevious
                     ELSE "DRAFT"
  <2>1. from \in Statuses
    BY DurablePreviousType, ResumableApart DEF TypeOK, Statuses
  <2>2. /\ actor' = [status |-> "BLOCKED_ERROR", previous |-> from, resolution |-> None]
        /\ row' = [status |-> "BLOCKED_ERROR", snapshot |-> actor']
        /\ pending' \in {NoWrite, Record(from)}
    BY <1>3 DEF BlockForRecovery
  <2> HIDE DEF from
  <2>3. actor' \in Contexts
    BY <2>1, <2>2 DEF Contexts, Statuses
  <2>4. row' \in [status : Statuses, snapshot : Contexts \cup {Nil, Damaged}]
    BY <2>2, <2>3 DEF Statuses
  <2>5. pending' \in PendingWrites
    BY <2>1, <2>2 DEF PendingWrites
  <2> QED BY <2>3, <2>4, <2>5
<1>4. ASSUME UNCHANGED <<actor, row, pending>> PROVE Good
  BY <1>4 DEF TypeOK
<1>5. Good
  BY <1>1, <1>2, <1>3, <1>4 DEF Boot
<1> QED BY <1>5 DEF Boot, TypeOK

LEMMA NextType ==
  ASSUME TypeOK, [Next]_vars
  PROVE  TypeOK'
<1>1. ASSUME NEW e \in Events, SendEvent(e) PROVE TypeOK'
  BY <1>1, SendEventType
<1>2. CASE EditStopped
  BY <1>2, EditStoppedType
<1>10. ASSUME NEW target \in ApprovalGates, RequestEdit(target) PROVE TypeOK'
  BY <1>10 DEF RequestEdit, TypeOK
<1>3. CASE FinishPersist
  BY <1>3, FinishPersistType
<1>4. CASE RollbackStart
  BY <1>4 DEF RollbackStart, TypeOK
<1>5. CASE EnsureActor
  <2>1. [status |-> "DRAFT", previous |-> "DRAFT", resolution |-> None] \in Contexts
    BY ResumableApart DEF Contexts, Statuses
  <2> QED BY <1>5, <2>1, PersistType DEF EnsureActor, TypeOK
<1>6. CASE Boot
  BY <1>6, BootType
<1>7. CASE Crash
  <2>1. NoWrite \in PendingWrites
    BY DEF PendingWrites
  <2>2. torn' \in Nat
    BY <1>7 DEF Crash, TypeOK
  <2>3. up' \in BOOLEAN
    BY <1>7 DEF Crash
  <2> QED BY <1>7, <2>1, <2>2, <2>3 DEF Crash, TypeOK
<1>8. CASE DamageSnapshot
  BY <1>8 DEF DamageSnapshot, TypeOK
<1>9. CASE UNCHANGED vars
  BY <1>9 DEF vars, TypeOK
<1> QED BY <1>1, <1>2, <1>3, <1>4, <1>5, <1>6, <1>7, <1>8, <1>9, <1>10 DEF Next

LEMMA InitType ==
  ASSUME Init
  PROVE  TypeOK
  BY ResumableApart DEF Init, TypeOK, PendingWrites, Statuses

\* Every variable keeps its type: the snapshot column only ever holds a
\* context of the machine, nothing, or a damaged value, and the history only
\* complete occurrences.
THEOREM TypeCorrect == Spec => []TypeOK
<1>1. Init => TypeOK
  BY InitType
<1>2. TypeOK /\ [Next]_vars => TypeOK'
  BY NextType
<1> QED BY <1>1, <1>2, PTL DEF Spec

-----------------------------------------------------------------------------
(* Memory agrees with the row.                                              *)

\* What persisting a context does, whether or not a second write follows.
LEMMA PersistAgrees ==
  ASSUME TypeOK, AgreeInv, up, pending.op = "none", NEW m \in Contexts,
         m.status = "BLOCKED_ERROR" =>
           \/ m.previous # None
           \/ row.status = "BLOCKED_ERROR" /\ occurrences = << >>,
         Persist(m), UNCHANGED <<up, occurrences, torn, damage>>
  PROVE  AgreeInv'
<1>1. row' = [status |-> m.status, snapshot |-> m]
  BY DEF Persist
<1>2. actor' = m \/ (actor' = Nil /\ m.status \in Terminal /\ pending'.op = "none")
  BY DEF Persist, Registered
<1>3. m # Nil
  BY LifecycleAssumption
<1>4. pending'.op = "record" => m.previous # None
  BY ResumableApart DEF Persist, SecondWrite, NoWrite, Record, Resolve
<1>5. pending'.op # "none" => actor' = m
  BY DEF Persist
<1>6. pending'.op = "none" /\ m.status \in Terminal => actor' = Nil
  BY DEF Persist, Registered
<1>7. up' /\ occurrences' = occurrences
  OBVIOUS
<1> QED BY <1>1, <1>2, <1>3, <1>4, <1>5, <1>6, <1>7 DEF AgreeInv

LEMMA SendEventAgrees ==
  ASSUME TypeOK, AgreeInv, NEW e \in Events, SendEvent(e)
  PROVE  AgreeInv'
<1>1. /\ actor \in Contexts
      /\ up /\ pending.op = "none"
      /\ UNCHANGED <<up, occurrences, torn, damage>>
      /\ row = [status |-> actor.status, snapshot |-> actor]
  BY DEF TypeOK, SendEvent, Quiet, AgreeInv
<1>2. CASE Persist(actor)
  <2>1. actor.status = "BLOCKED_ERROR" =>
          \/ actor.previous # None
          \/ row.status = "BLOCKED_ERROR" /\ occurrences = << >>
    BY <1>1 DEF AgreeInv
  <2> QED BY <1>1, <1>2, <2>1, PersistAgrees
<1>3. ASSUME NEW t \in Targets(actor, e), Persist(ContextAfter(actor, e, t))
      PROVE  AgreeInv'
  <2> DEFINE m == ContextAfter(actor, e, t)
  <2>1. /\ m \in Contexts
        /\ m.status = "BLOCKED_ERROR" => m.previous = actor.status
        /\ actor.status # None
    BY <1>1, ContextAfterType, ResumableApart DEF Contexts
  <2> HIDE DEF m
  <2>2. Persist(m)
    BY <1>3 DEF m
  <2> QED BY <1>1, <2>1, <2>2, PersistAgrees
<1> QED BY <1>2, <1>3 DEF SendEvent

LEMMA EditStoppedAgrees ==
  ASSUME TypeOK, AgreeInv, EditStopped
  PROVE  AgreeInv'
<1>1. up /\ pending.op = "none" /\ UNCHANGED <<up, occurrences, torn, damage>>
  BY DEF EditStopped, Quiet
<1>2. CASE UNCHANGED <<actor, row, pending>>
  BY <1>1, <1>2 DEF AgreeInv
<1>3. CASE actor # Nil /\ Persist([actor EXCEPT !.status = edit, !.previous = actor.status])
  <2> DEFINE m == [actor EXCEPT !.status = edit, !.previous = actor.status]
  <2>1. m \in Contexts /\ m.previous # None
    BY <1>3, GatesResumable, ResumableApart DEF TypeOK, EditStopped, Contexts, Statuses
  <2>2. Persist(m)
    BY <1>3
  <2> HIDE DEF m
  <2> QED BY <1>1, <2>1, <2>2, PersistAgrees
<1> QED BY <1>2, <1>3 DEF EditStopped

LEMMA BootAgrees ==
  ASSUME TypeOK, AgreeInv, Boot
  PROVE  AgreeInv'
<1>1. up' /\ occurrences' = occurrences /\ actor = Nil /\ pending = NoWrite
  BY DEF Boot, AgreeInv
<1>2. CASE row.status \notin Terminal /\ HydrateActor
  <2>1. row.snapshot \in Contexts /\ row.snapshot.status = row.status /\ row' = row
    BY <1>2 DEF HydrateActor, AgreeInv
  <2>2. actor' = row.snapshot
    <3>1. CASE row.status = "BLOCKED_ERROR" /\ row.snapshot.previous = None
      <4>1. DurablePrevious = None
        BY <2>1, <3>1 DEF DurablePrevious, AgreeInv
      <4>2. actor' = [row.snapshot EXCEPT !.previous = None]
        BY <1>2, <2>1, <3>1, <4>1 DEF HydrateActor
      <4> QED BY <2>1, <3>1, <4>2 DEF Contexts
    <3>2. CASE ~(row.status = "BLOCKED_ERROR" /\ row.snapshot.previous = None)
      BY <1>2, <2>1, <3>2 DEF HydrateActor
    <3> QED BY <3>1, <3>2
  <2>3. row = [status |-> row.status, snapshot |-> row.snapshot]
    BY DEF TypeOK
  <2>4. pending' = NoWrite
    BY <1>1, <1>2 DEF HydrateActor
  <2>5. actor' # Nil
    BY <2>1, <2>2, LifecycleAssumption
  <2> QED BY <1>1, <1>2, <2>1, <2>2, <2>3, <2>4, <2>5 DEF AgreeInv, NoWrite
<1>3. CASE row.status \notin Terminal /\ RecoverSnapshot
  <2>1. /\ actor' = [status     |-> row.status,
                     previous   |-> IF row.status = "BLOCKED_ERROR"
                                      THEN DurablePrevious ELSE None,
                     resolution |-> None]
        /\ row' = [status |-> row.status, snapshot |-> actor']
        /\ pending' = NoWrite
    BY <1>1, <1>3 DEF RecoverSnapshot, TypeOK
  <2>2. actor' \in Contexts
    BY <2>1, DurablePreviousType DEF TypeOK, Contexts
  <2>3. row.status = "BLOCKED_ERROR" /\ DurablePrevious = None => occurrences = << >>
    <3>1. row.snapshot \notin Contexts
      BY <1>3, LifecycleAssumption DEF RecoverSnapshot
    <3>2. ASSUME occurrences # << >>
          PROVE  occurrences[Len(occurrences)].from \in Statuses
      <4>1. occurrences[Len(occurrences)] \in Occurrences
        BY <3>2 DEF TypeOK
      <4> QED BY <4>1 DEF Occurrences
    <3> QED BY <3>1, <3>2, ResumableApart DEF DurablePrevious
  <2>4. actor' # Nil
    BY <2>2, LifecycleAssumption
  <2> QED BY <1>1, <1>3, <2>1, <2>2, <2>3, <2>4 DEF AgreeInv, NoWrite
<1>4. CASE row.status \notin Terminal /\ BlockForRecovery
  <2> DEFINE from == IF row.status # "BLOCKED_ERROR" THEN row.status
                     ELSE IF DurablePrevious # None THEN DurablePrevious
                     ELSE "DRAFT"
  <2>1. from \in Statuses /\ from # None
    BY DurablePreviousType, ResumableApart DEF TypeOK, Statuses
  <2>2. /\ actor' = [status |-> "BLOCKED_ERROR", previous |-> from, resolution |-> None]
        /\ row' = [status |-> "BLOCKED_ERROR", snapshot |-> actor']
    BY <1>4 DEF BlockForRecovery
  <2> HIDE DEF from
  <2>3. actor' \in Contexts
    BY <2>1, <2>2 DEF Contexts, Statuses
  <2>4. actor' # Nil
    BY <2>3, LifecycleAssumption
  <2> QED BY <1>1, <2>1, <2>2, <2>4, ResumableApart DEF AgreeInv
<1>5. CASE /\ row.status \in Terminal \cup {"DRAFT"}
           /\ UNCHANGED <<actor, row, pending>>
  BY <1>1, <1>5 DEF AgreeInv, NoWrite
<1> QED BY <1>2, <1>3, <1>4, <1>5 DEF Boot

LEMMA AgreeInvariant == Spec => []AgreeInv
<1>1. Init => AgreeInv
  BY LifecycleAssumption, ResumableApart DEF Init, AgreeInv, NoWrite
<1>2. ASSUME TypeOK, AgreeInv, [Next]_vars
      PROVE  AgreeInv'
  <2>1. ASSUME NEW e \in Events, SendEvent(e) PROVE AgreeInv'
    BY <1>2, <2>1, SendEventAgrees
  <2>2. CASE EditStopped
    BY <1>2, <2>2, EditStoppedAgrees
  <2>10. ASSUME NEW target \in ApprovalGates, RequestEdit(target) PROVE AgreeInv'
    BY <1>2, <2>10 DEF RequestEdit, AgreeInv
  <2>3. CASE FinishPersist
    <3>1. actor \in Contexts /\ row = [status |-> actor.status, snapshot |-> actor]
      BY <1>2, <2>3 DEF FinishPersist, AgreeInv, TypeOK
    <3>2. up /\ up' /\ pending' = NoWrite /\ row' = row
      BY <2>3 DEF FinishPersist
    <3>3. actor' = actor \/ (actor' = Nil /\ row.status \in Terminal)
      BY <2>3, <3>1 DEF FinishPersist, Registered
    <3>4. row.status \in Terminal => actor' = Nil
      BY <2>3, <3>1 DEF FinishPersist, Registered
    <3>5. row.status = "BLOCKED_ERROR" /\ row.snapshot.previous = None =>
            occurrences' = << >>
      <4>1. CASE pending.op = "record"
        BY <1>2, <4>1 DEF AgreeInv
      <4>2. CASE pending.op = "resolve"
        BY <1>2, <2>3, <3>1, <4>2 DEF FinishPersist, ResolveNewest,
           AgreeInv, OpenOccurrences
      <4> QED BY <2>3, <4>1, <4>2 DEF FinishPersist
    <3> QED BY <1>2, <3>1, <3>2, <3>3, <3>4, <3>5 DEF AgreeInv, NoWrite
  <2>4. CASE RollbackStart
    BY <1>2, <2>4, LifecycleAssumption, ResumableApart
    DEF RollbackStart, AgreeInv, Quiet, TypeOK
  <2>5. CASE EnsureActor
    <3> DEFINE m == [status |-> "DRAFT", previous |-> "DRAFT", resolution |-> None]
    <3>1. m \in Contexts /\ m.previous # None
      BY ResumableApart DEF Contexts, Statuses
    <3>2. Persist(m) /\ up /\ pending.op = "none"
            /\ UNCHANGED <<up, occurrences, torn, damage>>
      BY <2>5 DEF EnsureActor, Quiet
    <3> HIDE DEF m
    <3> QED BY <1>2, <3>1, <3>2, PersistAgrees
  <2>6. CASE Boot
    BY <1>2, <2>6, BootAgrees
  <2>7. CASE Crash
    BY <1>2, <2>7 DEF Crash, AgreeInv, NoWrite
  <2>8. CASE DamageSnapshot
    BY <1>2, <2>8, LifecycleAssumption DEF DamageSnapshot, AgreeInv, TypeOK, NoWrite
  <2>9. CASE UNCHANGED vars
    BY <1>2, <2>9 DEF vars, AgreeInv
  <2> QED BY <1>2, <2>1, <2>2, <2>3, <2>4, <2>5, <2>6, <2>7, <2>8, <2>9, <2>10 DEF Next
<1> QED BY <1>1, <1>2, TypeCorrect, PTL DEF Spec

\* Whenever the server is idle, the actor in memory is exactly the snapshot a
\* restart would read back: no event, rewind or recovery lets them differ.
THEOREM ActorAgrees == Spec => []ActorMatchesRow
<1>1. AgreeInv => ActorMatchesRow
  BY DEF AgreeInv, ActorMatchesRow
<1> QED BY <1>1, AgreeInvariant, PTL

\* No restart, with any snapshot damaged or lost, leaves a ticket under way
\* without an actor.
THEOREM NoTicketOrphaned == Spec => []NoOrphan
<1>1. AgreeInv => NoOrphan
  BY DEF AgreeInv, NoOrphan, Quiet
<1> QED BY <1>1, AgreeInvariant, PTL

\* A finished ticket stays as it ended: no event, rewind, restart or repair
\* gives it another status, or an actor.
THEOREM TerminalStays == Spec => TerminalIsFinal
<1> DEFINE Final == row.status \in Terminal =>
                      row'.status = row.status /\ (pending.op = "none" => actor' = Nil)
<1>1. ASSUME TypeOK, AgreeInv, [Next]_vars
      PROVE  Final
  <2> SUFFICES ASSUME row.status \in Terminal
               PROVE  row'.status = row.status /\ (pending.op = "none" => actor' = Nil)
    OBVIOUS
  <2>1. pending.op = "none" => actor = Nil
    BY <1>1 DEF AgreeInv
  <2>2. ~Quiet \/ actor = Nil
    BY <2>1 DEF Quiet
  <2>3. row.status # "DRAFT" /\ row.status # "BLOCKED_ERROR"
    BY DEF Terminal
  <2>4. ~(\E e \in Events : SendEvent(e))
    BY <2>2 DEF SendEvent
  <2>11. CASE \/ EditStopped
              \/ \E target \in ApprovalGates : RequestEdit(target)
    BY <2>1, <2>2, <2>11 DEF EditStopped, RequestEdit
  <2>5. ~RollbackStart /\ ~EnsureActor
    BY <2>3 DEF RollbackStart, EnsureActor
  <2>6. CASE FinishPersist
    BY <2>6, <2>1 DEF FinishPersist, Registered
  <2>7. CASE Boot
    BY <2>1, <2>7, <1>1 DEF Boot, AgreeInv
  <2>8. CASE Crash
    BY <2>8 DEF Crash
  <2>9. CASE DamageSnapshot
    BY <1>1, <2>1, <2>9 DEF DamageSnapshot, TypeOK
  <2>10. CASE UNCHANGED vars
    BY <2>1, <2>10 DEF vars
  <2> QED BY <1>1, <2>4, <2>5, <2>6, <2>7, <2>8, <2>9, <2>10, <2>11 DEF Next
<1>2. TypeOK /\ AgreeInv /\ [Next]_vars => [Final]_vars
  BY <1>1
<1> QED BY <1>2, TypeCorrect, AgreeInvariant, PTL DEF Spec, TerminalIsFinal

-----------------------------------------------------------------------------
(* The error history agrees with the row.                                   *)

\* The first write of an emission: a blocked ticket is persisted again only
\* with the snapshot it has, and a newly blocked one names its old status.
LEMMA PersistHistory ==
  ASSUME TypeOK, HistoryInv, pending.op = "none", NEW m \in Contexts,
         m.status = "BLOCKED_ERROR" =>
           IF row.status = "BLOCKED_ERROR" THEN row.snapshot = m
                                           ELSE m.previous = row.status,
         Persist(m), UNCHANGED <<up, occurrences, torn, damage>>
  PROVE  HistoryInv'
<1> SUFFICES ASSUME torn = 0
             PROVE  HistoryInv'
  BY DEF HistoryInv
<1>1. HistoryMatchesRow
  BY DEF HistoryInv
<1>2. OpenOccurrences' = OpenOccurrences
  BY DEF OpenOccurrences
<1>3. /\ row' = [status |-> m.status, snapshot |-> m]
      /\ pending' = SecondWrite(row.status, m)
  BY DEF Persist
<1>4. CASE m.status = row.status
  <2>1. pending' = NoWrite
    BY <1>3, <1>4 DEF SecondWrite
  <2>2. row.status = "BLOCKED_ERROR" => row' = row
    BY <1>3, <1>4 DEF TypeOK
  <2>3. row.status = "BLOCKED_ERROR" => DurablePrevious' = DurablePrevious
    BY <2>2 DEF DurablePrevious
  <2>4. HistoryMatchesRow'
    BY <1>1, <1>2, <1>3, <1>4, <2>2, <2>3 DEF HistoryMatchesRow
  <2> QED BY <2>1, <2>4 DEF HistoryInv, NoWrite
<1>5. CASE m.status # row.status /\ m.status = "BLOCKED_ERROR"
  <2>1. pending' = Record(row.status)
    BY <1>3, <1>5 DEF SecondWrite
  <2>2. OpenOccurrences' = {}
    BY <1>1, <1>2, <1>5 DEF HistoryMatchesRow
  <2> QED BY <1>3, <1>5, <2>1, <2>2 DEF HistoryInv, Record
<1>6. CASE m.status # row.status /\ m.status # "BLOCKED_ERROR" /\ row.status # "BLOCKED_ERROR"
  <2>1. pending' = NoWrite
    BY <1>3, <1>6 DEF SecondWrite
  <2>2. HistoryMatchesRow'
    BY <1>1, <1>2, <1>3, <1>6 DEF HistoryMatchesRow
  <2> QED BY <2>1, <2>2 DEF HistoryInv, NoWrite
<1>7. CASE m.status # row.status /\ row.status = "BLOCKED_ERROR"
  <2>1. pending'.op = "resolve" /\ pending'.resolution # "OPEN"
    BY <1>3, <1>7 DEF SecondWrite, Resolve
  <2>2. OpenOccurrences' = {Len(occurrences')}
    BY <1>1, <1>2, <1>7 DEF HistoryMatchesRow
  <2> QED BY <1>3, <1>7, <2>1, <2>2 DEF HistoryInv
<1> QED BY <1>4, <1>5, <1>6, <1>7

\* The second write.
LEMMA FinishHistory ==
  ASSUME TypeOK, AgreeInv, HistoryInv, FinishPersist
  PROVE  HistoryInv'
<1> SUFFICES ASSUME torn = 0
             PROVE  HistoryMatchesRow'
  BY DEF HistoryInv, FinishPersist, NoWrite
<1>1. row' = row
  BY DEF FinishPersist
<1>2. CASE pending.op = "record"
  <2>1. /\ occurrences' = Append(occurrences, pending.occurrence)
        /\ pending.occurrence \in Occurrences
    BY <1>2 DEF FinishPersist, TypeOK, PendingWrites, NoWrite, Record, Resolve, Occurrences
  <2>2. /\ row.status = "BLOCKED_ERROR"
        /\ row.snapshot \in Contexts
        /\ OpenOccurrences = {}
        /\ pending.occurrence.resolution = "OPEN"
        /\ pending.occurrence.from = row.snapshot.previous
        /\ row.snapshot.previous # None
    BY <1>2 DEF HistoryInv, AgreeInv
  <2>3. /\ Len(occurrences') = Len(occurrences) + 1
        /\ \A i \in DOMAIN occurrences : occurrences'[i] = occurrences[i]
        /\ occurrences'[Len(occurrences')] = pending.occurrence
        /\ DOMAIN occurrences' = DOMAIN occurrences \cup {Len(occurrences')}
        /\ occurrences' # << >>
    BY <2>1 DEF TypeOK
  <2>4. OpenOccurrences' = {Len(occurrences')}
    BY <2>2, <2>3 DEF OpenOccurrences
  <2>5. DurablePrevious' = row.snapshot.previous
    BY <1>1, <2>2 DEF DurablePrevious
  <2> QED BY <1>1, <2>2, <2>3, <2>4, <2>5 DEF HistoryMatchesRow
<1>3. CASE pending.op = "resolve"
  <2>1. /\ row.status # "BLOCKED_ERROR"
        /\ pending.resolution # "OPEN"
        /\ OpenOccurrences = {Len(occurrences)}
    BY <1>3 DEF HistoryInv
  <2>2. (CHOOSE i \in OpenOccurrences : \A j \in OpenOccurrences : j <= i) = Len(occurrences)
    BY <2>1 DEF TypeOK
  <2>3. occurrences' = [occurrences EXCEPT ![Len(occurrences)].resolution = pending.resolution,
                                           ![Len(occurrences)].resumedTo  = pending.resumedTo]
    BY <1>3, <2>1, <2>2 DEF FinishPersist, ResolveNewest
  <2>4. Len(occurrences) \in DOMAIN occurrences
    BY <2>1 DEF OpenOccurrences
  <2>5. occurrences[Len(occurrences)] \in Occurrences
    BY <2>4 DEF TypeOK
  <2>6. /\ DOMAIN occurrences' = DOMAIN occurrences
        /\ \A i \in DOMAIN occurrences \ {Len(occurrences)} : occurrences'[i] = occurrences[i]
    BY <2>3
  <2>7. occurrences'[Len(occurrences)].resolution = pending.resolution
    BY <2>3, <2>4, <2>5 DEF Occurrences
  <2>8. OpenOccurrences' = {}
    BY <2>1, <2>6, <2>7 DEF OpenOccurrences
  <2> QED BY <1>1, <2>1, <2>8 DEF HistoryMatchesRow
<1> QED BY <1>2, <1>3 DEF FinishPersist

LEMMA BootHistory ==
  ASSUME TypeOK, AgreeInv, HistoryInv, Boot
  PROVE  HistoryInv'
<1> SUFFICES ASSUME torn = 0
             PROVE  HistoryInv'
  BY DEF HistoryInv, Boot
<1>1. /\ pending = NoWrite /\ HistoryMatchesRow /\ torn' = 0
      /\ occurrences' = occurrences /\ OpenOccurrences' = OpenOccurrences
  BY DEF Boot, AgreeInv, HistoryInv, NoWrite, OpenOccurrences
<1>2. ASSUME row.status = "BLOCKED_ERROR"
      PROVE  /\ occurrences # << >>
             /\ DurablePrevious \in Statuses
             /\ DurablePrevious # None
             /\ occurrences[Len(occurrences)].from = DurablePrevious
  <2>1. occurrences # << >> /\ occurrences[Len(occurrences)].from = DurablePrevious
    BY <1>1, <1>2 DEF HistoryMatchesRow, NoWrite
  <2>2. occurrences[Len(occurrences)] \in Occurrences
    BY <2>1 DEF TypeOK
  <2> QED BY <2>1, <2>2, ResumableApart DEF Occurrences
<1>3. CASE row' = row /\ pending' = pending
  <2>1. DurablePrevious' = DurablePrevious
    BY <1>1, <1>3 DEF DurablePrevious
  <2>2. HistoryMatchesRow'
    BY <1>1, <1>3, <2>1 DEF HistoryMatchesRow
  <2> QED BY <1>1, <1>3, <2>2 DEF HistoryInv, NoWrite
<1>4. CASE RecoverSnapshot
  <2>1. /\ actor' = [status     |-> row.status,
                     previous   |-> IF row.status = "BLOCKED_ERROR"
                                      THEN DurablePrevious ELSE None,
                     resolution |-> None]
        /\ row' = [status |-> row.status, snapshot |-> actor']
        /\ pending' = NoWrite
    BY <1>1, <1>4 DEF RecoverSnapshot, TypeOK
  <2>2. actor' \in Contexts
    BY <2>1, DurablePreviousType DEF TypeOK, Contexts
  <2>3. row.status = "BLOCKED_ERROR" => DurablePrevious' = DurablePrevious
    BY <1>2, <2>1, <2>2 DEF DurablePrevious
  <2>4. HistoryMatchesRow'
    BY <1>1, <2>1, <2>3 DEF HistoryMatchesRow, NoWrite
  <2> QED BY <2>1, <2>4 DEF HistoryInv, NoWrite
<1>5. CASE BlockForRecovery
  <2> DEFINE from == IF row.status # "BLOCKED_ERROR" THEN row.status
                     ELSE IF DurablePrevious # None THEN DurablePrevious
                     ELSE "DRAFT"
  <2>1. from \in Statuses /\ from # None
    BY DurablePreviousType, ResumableApart DEF TypeOK, Statuses
  <2>2. /\ actor' = [status |-> "BLOCKED_ERROR", previous |-> from, resolution |-> None]
        /\ row' = [status |-> "BLOCKED_ERROR", snapshot |-> actor']
        /\ pending' = IF row.status = "BLOCKED_ERROR" THEN NoWrite ELSE Record(from)
    BY <1>5 DEF BlockForRecovery
  <2>3. row.status = "BLOCKED_ERROR" => from = DurablePrevious
    BY <1>2
  <2> HIDE DEF from
  <2>4. actor' \in Contexts
    BY <2>1, <2>2 DEF Contexts, Statuses
  <2>5. row'.snapshot = actor' /\ row'.snapshot.previous = from /\ row'.status = "BLOCKED_ERROR"
    BY <2>2
  <2>6. DurablePrevious' = from
    BY <2>1, <2>4, <2>5 DEF DurablePrevious
  <2>7. CASE row.status = "BLOCKED_ERROR"
    <3>1. HistoryMatchesRow'
      BY <1>1, <1>2, <2>2, <2>3, <2>6, <2>7 DEF HistoryMatchesRow, NoWrite
    <3> QED BY <2>2, <2>7, <3>1 DEF HistoryInv, NoWrite
  <2>8. CASE row.status # "BLOCKED_ERROR"
    <3>1. OpenOccurrences' = {}
      BY <1>1, <2>8 DEF HistoryMatchesRow, NoWrite
    <3> QED BY <2>2, <2>4, <2>5, <2>8, <3>1 DEF HistoryInv, Record
  <2> QED BY <2>7, <2>8
<1> QED BY <1>3, <1>4, <1>5 DEF Boot, HydrateActor

LEMMA SendEventHistory ==
  ASSUME TypeOK, AgreeInv, HistoryInv, NEW e \in Events, SendEvent(e)
  PROVE  HistoryInv'
<1>1. /\ actor \in Contexts
      /\ pending.op = "none"
      /\ UNCHANGED <<up, occurrences, torn, damage>>
      /\ row.status = actor.status /\ row.snapshot = actor
  BY DEF TypeOK, SendEvent, Quiet, AgreeInv
<1>2. CASE Persist(actor)
  BY <1>1, <1>2, PersistHistory
<1>3. ASSUME NEW t \in Targets(actor, e), Persist(ContextAfter(actor, e, t))
      PROVE  HistoryInv'
  <2> DEFINE m == ContextAfter(actor, e, t)
  <2>1. /\ m \in Contexts /\ m.status = t
        /\ t = "BLOCKED_ERROR" => m.previous = actor.status
    BY <1>1, ContextAfterType
  <2>2. t = "BLOCKED_ERROR" => actor.status # "BLOCKED_ERROR"
    BY <1>1, TargetsType, ResumableApart
  <2> HIDE DEF m
  <2>3. Persist(m)
    BY <1>3 DEF m
  <2> QED BY <1>1, <2>1, <2>2, <2>3, PersistHistory
<1> QED BY <1>2, <1>3 DEF SendEvent

LEMMA EditStoppedHistory ==
  ASSUME TypeOK, AgreeInv, HistoryInv, EditStopped
  PROVE  HistoryInv'
<1>1. pending.op = "none" /\ UNCHANGED <<up, occurrences, torn, damage>>
  BY DEF EditStopped, Quiet
<1>2. CASE UNCHANGED <<actor, row, pending>>
  BY <1>1, <1>2 DEF HistoryInv, HistoryMatchesRow, OpenOccurrences, DurablePrevious
<1>3. CASE actor # Nil /\ Persist([actor EXCEPT !.status = edit, !.previous = actor.status])
  <2> DEFINE m == [actor EXCEPT !.status = edit, !.previous = actor.status]
  <2>1. m \in Contexts /\ m.status = edit
    BY <1>3, GatesResumable DEF TypeOK, EditStopped, Contexts, Statuses
  <2>2. edit # "BLOCKED_ERROR"
    BY GatesResumable, ResumableApart DEF TypeOK, EditStopped, None
  <2>3. Persist(m)
    BY <1>3
  <2> HIDE DEF m
  <2> QED BY <1>1, <2>1, <2>2, <2>3, PersistHistory
<1> QED BY <1>2, <1>3 DEF EditStopped

LEMMA HistoryInvariant == Spec => []HistoryInv
<1>1. Init => HistoryInv
  BY DEF Init, HistoryInv, HistoryMatchesRow, OpenOccurrences, NoWrite
<1>2. ASSUME TypeOK, AgreeInv, HistoryInv, [Next]_vars
      PROVE  HistoryInv'
  <2>1. ASSUME NEW e \in Events, SendEvent(e) PROVE HistoryInv'
    BY <1>2, <2>1, SendEventHistory
  <2>2. CASE EditStopped
    BY <1>2, <2>2, EditStoppedHistory
  <2>10. ASSUME NEW target \in ApprovalGates, RequestEdit(target) PROVE HistoryInv'
    BY <1>2, <2>10 DEF RequestEdit, HistoryInv, HistoryMatchesRow, OpenOccurrences, DurablePrevious
  <2>3. CASE FinishPersist
    BY <1>2, <2>3, FinishHistory
  <2>4. CASE RollbackStart
    BY <1>2, <2>4 DEF RollbackStart, Quiet, TypeOK, HistoryInv, HistoryMatchesRow, OpenOccurrences
  <2>5. CASE EnsureActor
    <3> DEFINE m == [status |-> "DRAFT", previous |-> "DRAFT", resolution |-> None]
    <3>1. m \in Contexts /\ m.status # "BLOCKED_ERROR"
      BY ResumableApart DEF Contexts, Statuses
    <3>2. Persist(m) /\ pending.op = "none" /\ UNCHANGED <<up, occurrences, torn, damage>>
      BY <2>5 DEF EnsureActor, Quiet
    <3> HIDE DEF m
    <3> QED BY <1>2, <3>1, <3>2, PersistHistory
  <2>6. CASE Boot
    BY <1>2, <2>6, BootHistory
  <2>7. CASE Crash
    <3>1. torn' = 0 => pending.op = "none" /\ torn = 0
      BY <1>2, <2>7 DEF Crash, TypeOK
    <3>2. row' = row /\ occurrences' = occurrences /\ pending' = NoWrite
      BY <2>7 DEF Crash
    <3>3. OpenOccurrences' = OpenOccurrences /\ DurablePrevious' = DurablePrevious
      BY <3>2 DEF OpenOccurrences, DurablePrevious
    <3>4. pending.op = "none" /\ torn = 0 /\ HistoryMatchesRow /\ torn' = 0 => HistoryMatchesRow'
      BY <3>2, <3>3 DEF HistoryMatchesRow
    <3> QED BY <1>2, <3>1, <3>2, <3>4 DEF HistoryInv, NoWrite
  <2>8. CASE DamageSnapshot
    <3>1. /\ pending = NoWrite /\ pending' = NoWrite /\ torn' = torn /\ occurrences' = occurrences
          /\ row'.status = row.status /\ row'.snapshot \notin Contexts
      BY <1>2, <2>8, LifecycleAssumption DEF DamageSnapshot, AgreeInv, TypeOK
    <3>2. HistoryMatchesRow => HistoryMatchesRow'
      BY <3>1 DEF HistoryMatchesRow, OpenOccurrences, DurablePrevious, NoWrite
    <3> QED BY <1>2, <3>1, <3>2 DEF HistoryInv, NoWrite
  <2>9. CASE UNCHANGED vars
    BY <1>2, <2>9 DEF vars, HistoryInv, HistoryMatchesRow, OpenOccurrences, DurablePrevious
  <2> QED BY <1>2, <2>1, <2>2, <2>3, <2>4, <2>5, <2>6, <2>7, <2>8, <2>9, <2>10 DEF Next
<1> QED BY <1>1, <1>2, TypeCorrect, AgreeInvariant, PTL DEF Spec

\* Unless a crash fell between the two writes of an emission, the error
\* history a user reads agrees with the ticket: exactly one open occurrence
\* while it is blocked, naming the status Retry resumes, and none otherwise.
THEOREM HistoryAgrees == Spec => []HistoryMatchesRow
<1>1. HistoryInv => HistoryMatchesRow
  BY DEF HistoryInv, HistoryMatchesRow
<1> QED BY <1>1, HistoryInvariant, PTL

-----------------------------------------------------------------------------
(* Recovery is sound.                                                       *)

\* A resolution that is true of the occurrence o.
TrueOf(o, resolution, resumedTo) ==
  /\ resolution = "CONTINUED" => resumedTo = o.from
  /\ resolution = "RETRIED" => resumedTo \in {o.from} \cup ApprovalGates
  /\ resolution \in {"OPEN", "CANCELED"} => resumedTo = None

\* A snapshot that cannot be used has been damaged, unless it is a draft's.
UnreadableIsDamage ==
  row.snapshot = Damaged \/ (row.snapshot \notin Contexts /\ row.status # "DRAFT")
    => damage > 0

\* Every failure is one of a status that can be resumed.
FailuresResumable ==
  /\ \A i \in DOMAIN occurrences : occurrences[i].from \in Resumable
  /\ pending.op = "record" =>
       /\ pending.occurrence.from \in Resumable
       /\ pending.occurrence.resolution = "OPEN" /\ pending.occurrence.resumedTo = None

\* A blocked snapshot is not resolved yet, and names a status to resume,
\* unless a crash between the writes and a damaged snapshot both happened.
BlockedIsResumable ==
  row.status = "BLOCKED_ERROR" /\ row.snapshot \in Contexts =>
    /\ row.snapshot.resolution = None
    /\ torn = 0 \/ damage = 0 => row.snapshot.previous \in Resumable

\* What the second write will say of the newest occurrence is true.
ResolvesTruly ==
  torn = 0 /\ pending.op = "resolve" =>
    TrueOf(occurrences[Len(occurrences)], pending.resolution, pending.resumedTo)

RecoveryInv ==
  /\ UnreadableIsDamage /\ FailuresResumable /\ BlockedIsResumable
  /\ ResolvesTruly /\ HistoryIsTrue

\* The newest occurrence of a blocked ticket, while no write was torn.
LEMMA NewestFailure ==
  ASSUME TypeOK, HistoryInv, RecoveryInv, pending.op = "none", torn = 0,
         row.status = "BLOCKED_ERROR"
  PROVE  /\ occurrences # << >>
         /\ occurrences[Len(occurrences)].from = DurablePrevious
         /\ DurablePrevious \in Resumable
<1>1. /\ occurrences # << >>
      /\ occurrences[Len(occurrences)].from = DurablePrevious
  BY DEF HistoryInv, HistoryMatchesRow
<1>2. Len(occurrences) \in DOMAIN occurrences
  BY <1>1 DEF TypeOK
<1> QED BY <1>1, <1>2 DEF RecoveryInv, FailuresResumable

\* The first write of an emission.
LEMMA PersistRecovery ==
  ASSUME TypeOK, HistoryInv, RecoveryInv, pending.op = "none", NEW m \in Contexts,
         m.status = "BLOCKED_ERROR" =>
           IF row.status = "BLOCKED_ERROR"
             THEN row.snapshot = m
             ELSE /\ row.status \in Resumable
                  /\ m.previous = row.status /\ m.resolution = None,
         row.status = "BLOCKED_ERROR" /\ m.status \notin {"BLOCKED_ERROR", "CANCELED"} =>
           /\ m.status \in {DurablePrevious} \cup ApprovalGates
           /\ m.resolution = "CONTINUED" => m.status = DurablePrevious,
         Persist(m), UNCHANGED <<up, occurrences, torn, damage>>
  PROVE  RecoveryInv'
<1>1. /\ row' = [status |-> m.status, snapshot |-> m]
      /\ pending' = SecondWrite(row.status, m)
  BY DEF Persist
<1>2. UnreadableIsDamage'
  BY <1>1, LifecycleAssumption DEF UnreadableIsDamage
<1>3. FailuresResumable'
  BY <1>1 DEF RecoveryInv, FailuresResumable, SecondWrite, NoWrite, Record, Resolve
<1>4. BlockedIsResumable'
  BY <1>1 DEF RecoveryInv, BlockedIsResumable
<1>5. ResolvesTruly'
  <2> SUFFICES ASSUME torn = 0, pending'.op = "resolve"
               PROVE  TrueOf(occurrences[Len(occurrences)], pending'.resolution,
                             pending'.resumedTo)
    BY DEF ResolvesTruly
  <2>1. row.status = "BLOCKED_ERROR" /\ m.status # "BLOCKED_ERROR"
    BY <1>1 DEF SecondWrite, NoWrite, Record
  <2>2. occurrences[Len(occurrences)].from = DurablePrevious
    BY <2>1, NewestFailure
  <2>3. CASE m.status = "CANCELED"
    BY <1>1, <2>1, <2>3 DEF SecondWrite, Resolve, TrueOf
  <2>4. CASE m.status # "CANCELED" /\ m.resolution = "CONTINUED"
    <3>1. pending'.resolution = "CONTINUED" /\ pending'.resumedTo = m.status
      BY <1>1, <2>1, <2>4 DEF SecondWrite, Resolve
    <3>2. m.status = DurablePrevious
      BY <2>1, <2>4
    <3> QED BY <2>2, <3>1, <3>2 DEF TrueOf
  <2>5. CASE m.status # "CANCELED" /\ m.resolution # "CONTINUED"
    <3>1. pending'.resolution = "RETRIED" /\ pending'.resumedTo = m.status
      BY <1>1, <2>1, <2>5 DEF SecondWrite, Resolve
    <3>2. m.status \in {DurablePrevious} \cup ApprovalGates
      BY <2>1, <2>5
    <3> QED BY <2>2, <3>1, <3>2 DEF TrueOf
  <2> QED BY <2>3, <2>4, <2>5
<1>6. HistoryIsTrue'
  BY DEF RecoveryInv, HistoryIsTrue
<1> QED BY <1>2, <1>3, <1>4, <1>5, <1>6 DEF RecoveryInv

LEMMA SendEventRecovery ==
  ASSUME TypeOK, AgreeInv, HistoryInv, RecoveryInv, NEW e \in Events, SendEvent(e)
  PROVE  RecoveryInv'
<1>1. /\ actor \in Contexts
      /\ pending.op = "none"
      /\ UNCHANGED <<up, occurrences, torn, damage>>
      /\ row.status = actor.status /\ row.snapshot = actor
  BY DEF TypeOK, SendEvent, Quiet, AgreeInv
<1>2. CASE Persist(actor)
  <2>1. actor.status \notin {"BLOCKED_ERROR", "CANCELED"} => row.status # "BLOCKED_ERROR"
    BY <1>1
  <2> QED BY <1>1, <1>2, <2>1, PersistRecovery
<1>3. ASSUME NEW t \in Targets(actor, e), Persist(ContextAfter(actor, e, t))
      PROVE  RecoveryInv'
  <2> DEFINE m == ContextAfter(actor, e, t)
  <2>1. m \in Contexts /\ m.status = t
    BY <1>1, ContextAfterType
  <2>2. t = "BLOCKED_ERROR" =>
          /\ row.status \in Resumable /\ row.status # "BLOCKED_ERROR"
          /\ m.previous = row.status /\ m.resolution = None
    BY <1>1, TargetsType, ResumableApart DEF ContextAfter, ResolutionAfter, Contexts
  <2>3. row.status = "BLOCKED_ERROR" /\ t # "CANCELED" => t = DurablePrevious
    <3>1. actor.status = "BLOCKED_ERROR" /\ t # "CANCELED"
            => t = actor.previous /\ t \in Resumable
      BY <1>1, TargetsType
    <3>2. t \in Resumable => t # None
      BY ResumableApart DEF Statuses
    <3> QED BY <1>1, <3>1, <3>2 DEF DurablePrevious
  <2>4. Persist(m)
    BY <1>3
  <2> HIDE DEF m
  <2> QED BY <1>1, <2>1, <2>2, <2>3, <2>4, PersistRecovery
<1> QED BY <1>2, <1>3 DEF SendEvent

LEMMA EditStoppedRecovery ==
  ASSUME TypeOK, AgreeInv, HistoryInv, RecoveryInv, EditStopped
  PROVE  RecoveryInv'
<1>1. pending.op = "none" /\ UNCHANGED <<up, occurrences, torn, damage>>
  BY DEF EditStopped, Quiet
<1>2. CASE UNCHANGED <<actor, row, pending>>
  BY <1>1, <1>2 DEF RecoveryInv, UnreadableIsDamage, FailuresResumable, BlockedIsResumable,
                    ResolvesTruly, HistoryIsTrue
<1>3. CASE actor # Nil /\ Persist([actor EXCEPT !.status = edit, !.previous = actor.status])
  <2> DEFINE m == [actor EXCEPT !.status = edit, !.previous = actor.status]
  <2>1. /\ m \in Contexts /\ m.status = edit /\ edit \in ApprovalGates
        /\ m.resolution = actor.resolution
    BY <1>3, GatesResumable DEF TypeOK, EditStopped, Contexts, Statuses
  <2>2. edit # "BLOCKED_ERROR"
    BY <2>1, GatesResumable, ResumableApart
  <2>3. row.status = "BLOCKED_ERROR" => m.resolution = None
    BY <1>3, <2>1 DEF AgreeInv, TypeOK, RecoveryInv, BlockedIsResumable
  <2>4. Persist(m)
    BY <1>3
  <2> HIDE DEF m
  <2> QED BY <1>1, <2>1, <2>2, <2>3, <2>4, PersistRecovery, ResumableApart DEF None
<1> QED BY <1>2, <1>3 DEF EditStopped

\* The second write.
LEMMA FinishRecovery ==
  ASSUME TypeOK, HistoryInv, RecoveryInv, FinishPersist
  PROVE  RecoveryInv'
<1>1. UNCHANGED <<up, row, edit, torn, damage>> /\ pending' = NoWrite
  BY DEF FinishPersist
<1>2. UnreadableIsDamage' /\ BlockedIsResumable' /\ ResolvesTruly'
  BY <1>1 DEF RecoveryInv, UnreadableIsDamage, BlockedIsResumable, ResolvesTruly, NoWrite
<1>3. CASE pending.op = "record"
  <2>1. /\ occurrences' = Append(occurrences, pending.occurrence)
        /\ pending.occurrence \in Occurrences
    BY <1>3 DEF FinishPersist, TypeOK, PendingWrites, NoWrite, Record, Resolve, Occurrences
  <2>2. /\ \A i \in DOMAIN occurrences : occurrences'[i] = occurrences[i]
        /\ occurrences'[Len(occurrences')] = pending.occurrence
        /\ DOMAIN occurrences' = DOMAIN occurrences \cup {Len(occurrences')}
    BY <2>1 DEF TypeOK
  <2>3. /\ pending.occurrence.from \in Resumable
        /\ pending.occurrence.resolution = "OPEN" /\ pending.occurrence.resumedTo = None
    BY <1>3 DEF RecoveryInv, FailuresResumable
  <2>4. FailuresResumable'
    BY <1>1, <2>2, <2>3 DEF RecoveryInv, FailuresResumable, NoWrite
  <2>5. HistoryIsTrue'
    BY <1>1, <2>2, <2>3 DEF RecoveryInv, HistoryIsTrue
  <2> QED BY <1>2, <2>4, <2>5 DEF RecoveryInv
<1>4. CASE pending.op = "resolve"
  <2> DEFINE newest == CHOOSE i \in OpenOccurrences : \A j \in OpenOccurrences : j <= i
  <2>1. CASE OpenOccurrences = {}
    <3>1. occurrences' = occurrences
      BY <1>4, <2>1 DEF FinishPersist, ResolveNewest
    <3> QED BY <1>1, <1>2, <3>1 DEF RecoveryInv, FailuresResumable, HistoryIsTrue, NoWrite
  <2>2. CASE OpenOccurrences # {}
    <3>1. occurrences' = [occurrences EXCEPT ![newest].resolution = pending.resolution,
                                             ![newest].resumedTo  = pending.resumedTo]
      BY <1>4, <2>2 DEF FinishPersist, ResolveNewest
    <3>2. torn = 0 => newest = Len(occurrences)
      <4>1. torn = 0 => OpenOccurrences = {Len(occurrences)}
        BY <1>4 DEF HistoryInv
      <4> QED BY <4>1 DEF TypeOK
    <3> HIDE DEF newest
    <3>3. \A i \in DOMAIN occurrences : occurrences[i] \in Occurrences
      BY DEF TypeOK
    <3>4. /\ DOMAIN occurrences' = DOMAIN occurrences
          /\ \A i \in DOMAIN occurrences :
               /\ occurrences'[i].from = occurrences[i].from
               /\ i # newest => occurrences'[i] = occurrences[i]
               /\ i = newest => /\ occurrences'[i].resolution = pending.resolution
                                /\ occurrences'[i].resumedTo = pending.resumedTo
      BY <3>1, <3>3 DEF Occurrences
    <3>5. FailuresResumable'
      BY <1>1, <3>4 DEF RecoveryInv, FailuresResumable, NoWrite
    <3>6. HistoryIsTrue'
      <4> SUFFICES ASSUME torn = 0, NEW i \in DOMAIN occurrences
                   PROVE  TrueOf(occurrences'[i], occurrences'[i].resolution,
                                 occurrences'[i].resumedTo)
        BY <1>1, <3>4 DEF HistoryIsTrue, TrueOf
      <4>1. CASE i # newest
        BY <3>4, <4>1 DEF RecoveryInv, HistoryIsTrue, TrueOf
      <4>2. CASE i = newest
        BY <1>4, <3>2, <3>4, <4>2 DEF RecoveryInv, ResolvesTruly, TrueOf
      <4> QED BY <4>1, <4>2
    <3> QED BY <1>2, <3>5, <3>6 DEF RecoveryInv
  <2> QED BY <2>1, <2>2
<1> QED BY <1>3, <1>4 DEF FinishPersist

LEMMA BootRecovery ==
  ASSUME TypeOK, AgreeInv, HistoryInv, RecoveryInv, Boot
  PROVE  RecoveryInv'
<1>1. /\ pending = NoWrite /\ pending.op = "none" /\ damage \in Nat
      /\ UNCHANGED <<occurrences, torn, damage>>
  BY DEF Boot, AgreeInv, NoWrite, TypeOK
<1>2. HistoryIsTrue'
  BY <1>1 DEF RecoveryInv, HistoryIsTrue
<1>3. torn = 0 /\ row.status = "BLOCKED_ERROR" => DurablePrevious \in Resumable
  BY <1>1, NewestFailure
<1>4. CASE row' = row /\ pending' = pending
  BY <1>1, <1>2, <1>4 DEF RecoveryInv, UnreadableIsDamage, FailuresResumable,
                          BlockedIsResumable, ResolvesTruly, NoWrite
<1>5. CASE RecoverSnapshot
  <2>1. /\ actor' = [status     |-> row.status,
                     previous   |-> IF row.status = "BLOCKED_ERROR"
                                      THEN DurablePrevious ELSE None,
                     resolution |-> None]
        /\ row' = [status |-> row.status, snapshot |-> actor']
        /\ pending' = NoWrite
    BY <1>1, <1>5 DEF RecoverSnapshot, TypeOK
  <2>2. actor' \in Contexts
    BY <2>1, DurablePreviousType DEF TypeOK, Contexts
  <2>3. damage > 0
    BY <1>5, LifecycleAssumption DEF RecoverSnapshot, RecoveryInv, UnreadableIsDamage
  <2>4. UnreadableIsDamage' /\ FailuresResumable' /\ ResolvesTruly'
    BY <1>1, <2>1, <2>3 DEF RecoveryInv, UnreadableIsDamage, FailuresResumable,
                            ResolvesTruly, NoWrite
  <2>5. BlockedIsResumable'
    BY <1>1, <1>3, <2>1, <2>3 DEF BlockedIsResumable
  <2> QED BY <1>2, <2>4, <2>5 DEF RecoveryInv
<1>6. CASE row.status \notin Terminal /\ BlockForRecovery
  <2> DEFINE from == IF row.status # "BLOCKED_ERROR" THEN row.status
                     ELSE IF DurablePrevious # None THEN DurablePrevious
                     ELSE "DRAFT"
  <2>1. row.status # "BLOCKED_ERROR" => from = row.status /\ from \in Resumable
    BY <1>6 DEF TypeOK, Statuses
  <2>2. torn = 0 => from \in Resumable
    BY <1>3, <2>1, ResumableApart DEF Statuses
  <2>3. /\ row' = [status |-> "BLOCKED_ERROR",
                   snapshot |-> [status |-> "BLOCKED_ERROR", previous |-> from,
                                 resolution |-> None]]
        /\ pending' = IF row.status = "BLOCKED_ERROR" THEN NoWrite ELSE Record(from)
    BY <1>6 DEF BlockForRecovery
  <2> HIDE DEF from
  <2>4. damage > 0
    BY <1>6 DEF BlockForRecovery, RecoveryInv, UnreadableIsDamage
  <2>5. UnreadableIsDamage' /\ ResolvesTruly'
    BY <1>1, <2>3, <2>4 DEF UnreadableIsDamage, ResolvesTruly, NoWrite, Record
  <2>6. FailuresResumable'
    BY <1>1, <2>1, <2>3 DEF RecoveryInv, FailuresResumable, NoWrite, Record
  <2>7. BlockedIsResumable'
    BY <1>1, <2>2, <2>3, <2>4 DEF BlockedIsResumable
  <2> QED BY <1>2, <2>5, <2>6, <2>7 DEF RecoveryInv
<1> QED BY <1>4, <1>5, <1>6 DEF Boot, HydrateActor

LEMMA RecoveryInvariant == Spec => []RecoveryInv
<1>1. Init => RecoveryInv
  BY LifecycleAssumption
  DEF Init, RecoveryInv, UnreadableIsDamage, FailuresResumable, BlockedIsResumable,
      ResolvesTruly, HistoryIsTrue, NoWrite
<1>2. ASSUME TypeOK, AgreeInv, HistoryInv, RecoveryInv, [Next]_vars
      PROVE  RecoveryInv'
  <2>1. ASSUME NEW e \in Events, SendEvent(e) PROVE RecoveryInv'
    BY <1>2, <2>1, SendEventRecovery
  <2>2. ASSUME NEW target \in ApprovalGates, RequestEdit(target) PROVE RecoveryInv'
    BY <1>2, <2>2 DEF RequestEdit, RecoveryInv, UnreadableIsDamage, FailuresResumable,
                      BlockedIsResumable, ResolvesTruly, HistoryIsTrue
  <2>3. CASE EditStopped
    BY <1>2, <2>3, EditStoppedRecovery
  <2>4. CASE FinishPersist
    BY <1>2, <2>4, FinishRecovery
  <2>5. CASE RollbackStart
    <3>1. /\ row' = [row EXCEPT !.snapshot = Nil] /\ row.status = "DRAFT"
          /\ UNCHANGED <<occurrences, pending, torn, damage>>
      BY <2>5 DEF RollbackStart
    <3>2. row'.status = "DRAFT" /\ row'.snapshot = Nil
      BY <1>2, <3>1 DEF TypeOK
    <3> QED BY <1>2, <3>1, <3>2, LifecycleAssumption
        DEF RecoveryInv, UnreadableIsDamage, FailuresResumable, BlockedIsResumable,
            ResolvesTruly, HistoryIsTrue
  <2>6. CASE EnsureActor
    <3> DEFINE m == [status |-> "DRAFT", previous |-> "DRAFT", resolution |-> None]
    <3>1. m \in Contexts /\ m.status # "BLOCKED_ERROR" /\ row.status # "BLOCKED_ERROR"
      BY <2>6, ResumableApart DEF Contexts, Statuses, EnsureActor
    <3>2. Persist(m) /\ pending.op = "none" /\ UNCHANGED <<up, occurrences, torn, damage>>
      BY <2>6 DEF EnsureActor, Quiet
    <3> HIDE DEF m
    <3> QED BY <1>2, <3>1, <3>2, PersistRecovery
  <2>7. CASE Boot
    BY <1>2, <2>7, BootRecovery
  <2>8. CASE Crash
    <3>1. /\ torn' = 0 => torn = 0
          /\ UNCHANGED <<row, occurrences, damage>> /\ pending' = NoWrite
      BY <1>2, <2>8 DEF Crash, TypeOK
    <3> QED BY <1>2, <3>1 DEF RecoveryInv, UnreadableIsDamage, FailuresResumable,
                              BlockedIsResumable, ResolvesTruly, HistoryIsTrue, NoWrite
  <2>9. CASE DamageSnapshot
    <3>1. /\ row'.snapshot \notin Contexts /\ damage' > 0
          /\ UNCHANGED <<occurrences, pending, torn>>
      BY <1>2, <2>9, LifecycleAssumption DEF DamageSnapshot, TypeOK
    <3> QED BY <1>2, <3>1 DEF RecoveryInv, UnreadableIsDamage, FailuresResumable,
                              BlockedIsResumable, ResolvesTruly, HistoryIsTrue
  <2>10. CASE UNCHANGED vars
    BY <1>2, <2>10 DEF vars, RecoveryInv, UnreadableIsDamage, FailuresResumable,
                       BlockedIsResumable, ResolvesTruly, HistoryIsTrue
  <2> QED BY <1>2, <2>1, <2>2, <2>3, <2>4, <2>5, <2>6, <2>7, <2>8, <2>9, <2>10 DEF Next
<1> QED BY <1>1, <1>2, TypeCorrect, AgreeInvariant, HistoryInvariant, PTL DEF Spec

\* The history tells the truth about each recovery, and a blocked ticket can
\* always be retried, unless a crash between the two writes and a damaged
\* snapshot both happened to it.
THEOREM RecoveryStaysSound == Spec => []RecoveryIsSound
<1>1. TypeOK /\ AgreeInv /\ RecoveryInv => RecoveryIsSound
  <2> SUFFICES ASSUME TypeOK, AgreeInv, RecoveryInv
               PROVE  RecoveryIsSound
    OBVIOUS
  <2>1. HistoryIsTrue
    BY DEF RecoveryInv
  <2>2. RetryHasATarget
    <3> SUFFICES ASSUME actor # Nil, torn = 0 \/ damage = 0, actor.status = "BLOCKED_ERROR"
                 PROVE  Targets(actor, "RETRY") # {}
      BY DEF RetryHasATarget
    <3>1. actor.previous \in Resumable
      BY DEF TypeOK, AgreeInv, RecoveryInv, BlockedIsResumable
    <3>2. actor.previous \in ResumeTargets(actor, "RETRY")
      BY <3>1 DEF ResumeTargets, RecoveryEvents
    <3> QED BY <3>2 DEF Targets
  <2> QED BY <2>1, <2>2 DEF RecoveryIsSound
<1> QED BY <1>1, TypeCorrect, AgreeInvariant, RecoveryInvariant, PTL

-----------------------------------------------------------------------------
(* The ticket keeps its contract.                                           *)

\* A crash between the two writes and a damaged snapshot did not both happen.
OneKindOfFault == torn = 0 \/ damage = 0

LEMMA ContractNames ==
  /\ Contract!Resumable = Resumable
  /\ Contract!ForwardEdges = ForwardEdges
  /\ Contract!ApprovalGates = ApprovalGates
  /\ Contract!Cancelable = Cancelable
  /\ Contract!None = None
  /\ \A m, e : Contract!AfterTestsTargets(m, e) = AfterTestsTargets(m, e)
<1>1. Contract!Resumable = Resumable
  BY DEF Contract!Resumable, Contract!PlanningStatuses, Contract!InterviewStatuses,
         Contract!PrdStatuses, Contract!BeadsStatuses, Contract!ExecutionBand, Resumable,
         PlanningStatuses, InterviewStatuses, PrdStatuses, BeadsStatuses, ExecutionBand
<1>2. Contract!ForwardEdges = ForwardEdges
  BY DEF Contract!ForwardEdges, Contract!PlanningEdges, Contract!ExecutionEdges,
         ForwardEdges, PlanningEdges, ExecutionEdges
<1>3. Contract!ApprovalGates = ApprovalGates /\ Contract!None = None
  BY DEF Contract!ApprovalGates, ApprovalGates, Contract!None, None
<1>4. Contract!Cancelable = Cancelable
  BY <1>1 DEF Contract!Cancelable, Cancelable
<1>5. \A m, e : Contract!AfterTestsTargets(m, e) = AfterTestsTargets(m, e)
  BY DEF Contract!AfterTestsTargets, AfterTestsTargets
<1> QED BY <1>1, <1>2, <1>3, <1>4, <1>5

\* A row that keeps its status and what it says of the failure.
Unseen == row'.status = row.status /\ FailedAt' = FailedAt

LEMMA SameRow ==
  ASSUME row' = row, occurrences' = occurrences
  PROVE  Unseen
  BY DEF Unseen, FailedAt, DurablePrevious

LEMMA PersistSeen ==
  ASSUME NEW m \in Contexts, Persist(m), m.status = "BLOCKED_ERROR" => m.previous # None
  PROVE  /\ row'.status = m.status
         /\ FailedAt' = IF m.status = "BLOCKED_ERROR" THEN m.previous ELSE None
<1>1. row' = [status |-> m.status, snapshot |-> m]
  BY DEF Persist
<1> QED BY <1>1 DEF FailedAt, DurablePrevious

LEMMA SendEventContract ==
  ASSUME TypeOK, AgreeInv, NEW e \in Events, SendEvent(e)
  PROVE  Contract!Next \/ Unseen
<1> USE ContractNames
<1>1. /\ actor \in Contexts
      /\ UNCHANGED <<up, occurrences, torn, damage>>
      /\ row = [status |-> actor.status, snapshot |-> actor]
      /\ row.status = actor.status /\ row.snapshot = actor
      /\ row.status \in Statuses
  BY DEF TypeOK, SendEvent, Quiet, AgreeInv
<1>2. row.status # "BLOCKED_ERROR" => FailedAt = None
  BY DEF FailedAt
<1>3. CASE Persist(actor)
  <2>1. row' = row
    BY <1>1, <1>3 DEF Persist
  <2> QED BY <1>1, <2>1, SameRow
<1>4. ASSUME NEW t \in Targets(actor, e), Persist(ContextAfter(actor, e, t))
      PROVE  Contract!Next \/ Unseen
  <2> DEFINE m == ContextAfter(actor, e, t)
  <2>1. /\ m \in Contexts /\ m.status = t
        /\ t = "BLOCKED_ERROR" => m.previous = row.status /\ m.previous # None
    BY <1>1, ContextAfterType, ResumableApart
  <2>2. Persist(m)
    BY <1>4
  <2> HIDE DEF m
  <2>3. /\ row'.status = t
        /\ FailedAt' = IF t = "BLOCKED_ERROR" THEN row.status ELSE None
    BY <2>1, <2>2, PersistSeen
  <2>4. CASE t \in ForwardTargets(actor, e)
    <3>1. PICK edge \in ForwardEdges : edge[1] = row.status /\ edge[3] = t
      BY <1>1, <2>4 DEF ForwardTargets
    <3>2. edge[1] \in Resumable /\ t # "BLOCKED_ERROR" /\ row.status # "BLOCKED_ERROR"
      BY <3>1, ForwardEdgesType, ResumableApart
    <3>3. Contract!Advance
      BY <1>2, <2>3, <3>1, <3>2 DEF Contract!Advance
    <3> QED BY <3>3 DEF Contract!Next
  <2>5. CASE t \in AfterTestsTargets(actor, e)
    <3>1. row.status = "RUNNING_FINAL_TEST" /\ t # "BLOCKED_ERROR"
      BY <1>1, <2>5 DEF AfterTestsTargets
    <3>2. t \in AfterTestsTargets([status |-> row.status], "TESTS_PASSED")
      BY <1>1, <2>5 DEF AfterTestsTargets
    <3>3. Contract!Advance
      BY <1>2, <2>3, <3>1, <3>2 DEF Contract!Advance
    <3> QED BY <3>3 DEF Contract!Next
  <2>6. CASE t \in FailureTargets(actor, e)
    <3>1. t = "BLOCKED_ERROR" /\ row.status \in Resumable
      BY <1>1, <2>6, FailureEdgesType DEF FailureTargets
    <3>2. Contract!Fail
      BY <2>3, <3>1 DEF Contract!Fail
    <3> QED BY <3>2 DEF Contract!Next
  <2>7. CASE t \in CancelTargets(actor, e)
    <3>1. t = "CANCELED" /\ row.status \in Cancelable
      BY <1>1, <2>7 DEF CancelTargets
    <3>2. Contract!Cancel
      BY <2>3, <3>1 DEF Contract!Cancel
    <3> QED BY <3>2 DEF Contract!Next
  <2>8. CASE t \in ResumeTargets(actor, e)
    <3>1. row.status = "BLOCKED_ERROR" /\ t = row.snapshot.previous /\ t \in Resumable
      BY <1>1, <2>8 DEF ResumeTargets
    <3>2. FailedAt = t /\ t # "BLOCKED_ERROR"
      BY <1>1, <3>1, ResumableApart DEF FailedAt, DurablePrevious, Statuses
    <3>3. Contract!Resume
      BY <2>3, <3>1, <3>2 DEF Contract!Resume
    <3> QED BY <3>3 DEF Contract!Next
  <2> QED BY <2>4, <2>5, <2>6, <2>7, <2>8 DEF Targets
<1> QED BY <1>3, <1>4 DEF SendEvent

LEMMA EditStoppedContract ==
  ASSUME TypeOK, AgreeInv, EditStopped
  PROVE  Contract!Next \/ Unseen
<1> USE ContractNames
<1>1. pending.op = "none" /\ UNCHANGED <<up, occurrences, torn, damage>>
  BY DEF EditStopped, Quiet
<1>2. CASE UNCHANGED <<actor, row, pending>>
  BY <1>1, <1>2, SameRow
<1>3. CASE actor # Nil /\ Persist([actor EXCEPT !.status = edit, !.previous = actor.status])
  <2> DEFINE m == [actor EXCEPT !.status = edit, !.previous = actor.status]
  <2>1. m \in Contexts /\ m.status = edit /\ edit \in ApprovalGates
    BY <1>3, GatesResumable DEF TypeOK, EditStopped, Contexts, Statuses
  <2>2. Persist(m) /\ edit # "BLOCKED_ERROR"
    BY <1>3, <2>1, GatesResumable, ResumableApart
  <2> HIDE DEF m
  <2>3. row'.status = edit /\ FailedAt' = None
    BY <2>1, <2>2, PersistSeen
  <2>4. row.status \in Resumable \cup {"BLOCKED_ERROR"}
    BY <1>1, <1>3 DEF TypeOK, AgreeInv, Statuses
  <2>5. Contract!GoBack
    BY <2>1, <2>3, <2>4 DEF Contract!GoBack
  <2> QED BY <2>5 DEF Contract!Next
<1> QED BY <1>2, <1>3 DEF EditStopped

\* The second write and the ways to bring an actor back say nothing new, but
\* for a damaged snapshot, which is a failure.
LEMMA FinishUnseen ==
  ASSUME TypeOK, AgreeInv, FinishPersist
  PROVE  Unseen
<1>1. row' = row
  BY DEF FinishPersist
<1>2. actor \in Contexts /\ row.snapshot = actor
  BY DEF FinishPersist, AgreeInv, TypeOK
<1>3. CASE row.status # "BLOCKED_ERROR" \/ row.snapshot.previous # None
  BY <1>1, <1>2, <1>3 DEF Unseen, FailedAt, DurablePrevious
<1>4. CASE row.status = "BLOCKED_ERROR" /\ row.snapshot.previous = None
  <2>1. occurrences = << >> /\ pending.op = "resolve"
    BY <1>2, <1>4 DEF FinishPersist, AgreeInv
  <2>2. occurrences' = occurrences
    BY <2>1 DEF FinishPersist, ResolveNewest, OpenOccurrences
  <2> QED BY <1>1, <2>2, SameRow
<1> QED BY <1>3, <1>4

LEMMA BootContract ==
  ASSUME TypeOK, AgreeInv, HistoryInv, RecoveryInv, OneKindOfFault, Boot
  PROVE  Contract!Next \/ Unseen
<1> USE ContractNames
<1>1. pending.op = "none" /\ occurrences' = occurrences /\ damage \in Nat
  BY DEF Boot, AgreeInv, NoWrite, TypeOK
<1>2. CASE row' = row
  BY <1>1, <1>2, SameRow
<1>3. row.snapshot = Damaged \/ (row.snapshot \notin Contexts /\ row.status # "DRAFT")
        => torn = 0
  BY <1>1 DEF OneKindOfFault, RecoveryInv, UnreadableIsDamage
<1>4. torn = 0 /\ row.status = "BLOCKED_ERROR" =>
        DurablePrevious \in Resumable /\ DurablePrevious # None
  BY <1>1, NewestFailure, ResumableApart DEF Statuses
<1>5. CASE RecoverSnapshot
  <2>1. row' = [status |-> row.status, snapshot |-> actor'] /\ torn = 0
    BY <1>3, <1>5, LifecycleAssumption DEF RecoverSnapshot, TypeOK
  <2>2. CASE row.status # "BLOCKED_ERROR"
    BY <2>1, <2>2 DEF Unseen, FailedAt
  <2>3. CASE row.status = "BLOCKED_ERROR"
    <3>1. actor' = [status |-> row.status, previous |-> DurablePrevious, resolution |-> None]
      BY <1>5, <2>3 DEF RecoverSnapshot
    <3>2. actor' \in Contexts /\ row'.snapshot.previous = DurablePrevious
      BY <2>1, <3>1, DurablePreviousType DEF TypeOK, Contexts
    <3>3. DurablePrevious' = DurablePrevious
      BY <1>4, <2>1, <2>3, <3>2 DEF DurablePrevious
    <3> QED BY <2>1, <2>3, <3>3 DEF Unseen, FailedAt
  <2> QED BY <2>2, <2>3
<1>6. CASE row.status \notin Terminal /\ BlockForRecovery
  <2> DEFINE from == IF row.status # "BLOCKED_ERROR" THEN row.status
                     ELSE IF DurablePrevious # None THEN DurablePrevious
                     ELSE "DRAFT"
             context == [status |-> "BLOCKED_ERROR", previous |-> from, resolution |-> None]
  <2>1. row' = [status |-> "BLOCKED_ERROR", snapshot |-> context] /\ torn = 0
    BY <1>3, <1>6 DEF BlockForRecovery
  <2>2. from \in Resumable /\ from # None
    BY <1>4, <1>6, <2>1, ResumableApart DEF TypeOK, Statuses
  <2>3. context \in Contexts /\ context.previous = from
    BY <2>2 DEF Contexts, Statuses
  <2>4. row.status = "BLOCKED_ERROR" => from = DurablePrevious
    BY <1>4, <2>1
  <2>5. row.status # "BLOCKED_ERROR" => from = row.status
    OBVIOUS
  <2> HIDE DEF from, context
  <2>6. row'.status = "BLOCKED_ERROR" /\ FailedAt' = from
    BY <2>1, <2>2, <2>3 DEF FailedAt, DurablePrevious
  <2>7. CASE row.status = "BLOCKED_ERROR"
    BY <2>4, <2>6, <2>7 DEF Unseen, FailedAt
  <2>8. CASE row.status # "BLOCKED_ERROR"
    <3>1. Contract!Fail
      BY <2>2, <2>5, <2>6, <2>8 DEF Contract!Fail
    <3> QED BY <3>1 DEF Contract!Next
  <2> QED BY <2>7, <2>8
<1> QED BY <1>2, <1>5, <1>6 DEF Boot, HydrateActor

\* Damage to a blocked ticket's snapshot leaves the history, which names the
\* same status.
LEMMA DamageUnseen ==
  ASSUME TypeOK, AgreeInv, HistoryInv, RecoveryInv, OneKindOfFault', DamageSnapshot
  PROVE  Unseen
<1>1. /\ pending.op = "none" /\ torn = 0
      /\ row'.status = row.status /\ row'.snapshot \notin Contexts
      /\ occurrences' = occurrences
  BY LifecycleAssumption DEF DamageSnapshot, AgreeInv, NoWrite, TypeOK, OneKindOfFault
<1>2. CASE row.status # "BLOCKED_ERROR"
  BY <1>1, <1>2 DEF Unseen, FailedAt
<1>3. CASE row.status = "BLOCKED_ERROR"
  <2>1. /\ occurrences # << >>
        /\ occurrences[Len(occurrences)].from = DurablePrevious
    BY <1>1, <1>3, NewestFailure
  <2>2. DurablePrevious' = DurablePrevious
    BY <1>1, <1>3, <2>1 DEF DurablePrevious
  <2> QED BY <1>1, <1>3, <2>2 DEF Unseen, FailedAt
<1> QED BY <1>2, <1>3

LEMMA StepContract ==
  ASSUME TypeOK, AgreeInv, HistoryInv, RecoveryInv, OneKindOfFault, OneKindOfFault', [Next]_vars
  PROVE  Contract!Next \/ Unseen
<1>1. ASSUME NEW e \in Events, SendEvent(e) PROVE Contract!Next \/ Unseen
  BY <1>1, SendEventContract
<1>2. CASE EditStopped
  BY <1>2, EditStoppedContract
<1>3. CASE FinishPersist
  BY <1>3, FinishUnseen
<1>4. CASE RollbackStart
  <2>1. row'.status = "DRAFT" /\ row.status = "DRAFT"
    BY <1>4 DEF RollbackStart, TypeOK
  <2> QED BY <2>1 DEF Unseen, FailedAt
<1>5. CASE EnsureActor
  <2>1. row'.status = "DRAFT" /\ row.status = "DRAFT"
    BY <1>5 DEF EnsureActor, Persist
  <2> QED BY <2>1 DEF Unseen, FailedAt
<1>6. CASE Boot
  BY <1>6, BootContract
<1>7. CASE DamageSnapshot
  BY <1>7, DamageUnseen
<1>8. CASE \/ \E target \in ApprovalGates : RequestEdit(target)
           \/ Crash
           \/ UNCHANGED vars
  BY <1>8, SameRow DEF RequestEdit, Crash, vars
<1> QED BY <1>1, <1>2, <1>3, <1>4, <1>5, <1>6, <1>7, <1>8 DEF Next

\* A reader of the database sees the ticket keep the contract through every
\* event, edit, failure, restart and repair, as long as a crash between the
\* two writes and a damaged snapshot do not both happen to it.
THEOREM ContractIsKept == Spec /\ []OneKindOfFault => KeepsContract
<1>1. Init => Contract!Init
  BY DEF Init, Contract!Init, FailedAt, None, Contract!None
<1>2. TypeOK /\ AgreeInv /\ HistoryInv /\ RecoveryInv /\ OneKindOfFault
        /\ OneKindOfFault' /\ [Next]_vars
        => [Contract!Next]_<<row.status, FailedAt>>
  BY StepContract DEF Unseen
<1> QED BY <1>1, <1>2, TypeCorrect, AgreeInvariant, HistoryInvariant, RecoveryInvariant,
       PTL DEF Spec, KeepsContract, Contract!Spec

-----------------------------------------------------------------------------
(* ExecutionSlot: the tickets of one project, for any number of them.       *)

LEMMA BandApart ==
  /\ {"BLOCKED_ERROR", "WAITING_BEADS_APPROVAL", "EXPANDING_BEADS"} \cap ExecutionBand = {}
  /\ Terminal \cap ExecutionBand = {}
  BY DEF ExecutionBand, Terminal

\* Wherever an event leads is a status of the workflow.
LEMMA TargetsAreStatuses ==
  ASSUME NEW m, m.status \in Statuses, NEW e, NEW s \in Targets(m, e)
  PROVE  s \in Statuses
<1>1. \A edge \in ForwardEdges : edge[3] \in Resumable \cup Terminal
  BY SMTT(60) DEF ForwardEdges, PlanningEdges, ExecutionEdges, Resumable,
     PlanningStatuses, InterviewStatuses, PrdStatuses, BeadsStatuses,
     ExecutionBand, Terminal
<1>2. CASE s \in ForwardTargets(m, e)
  BY <1>1, <1>2 DEF ForwardTargets, Statuses
<1>3. CASE s \in AfterTestsTargets(m, e)
  BY <1>3 DEF AfterTestsTargets, Statuses, Resumable, ExecutionBand
<1>4. CASE s \in FailureTargets(m, e)
  BY <1>4 DEF FailureTargets, Statuses
<1>5. CASE s \in CancelTargets(m, e)
  BY <1>5 DEF CancelTargets, Statuses, Terminal
<1>6. CASE s \in ResumeTargets(m, e)
  BY <1>6 DEF ResumeTargets, Statuses
<1> QED BY <1>2, <1>3, <1>4, <1>5, <1>6 DEF Targets

\* A failure leads out of the band, and CANCEL too; a recovery resumes the
\* previous status.
LEMMA LeavingTargets ==
  ASSUME NEW m, NEW e, NEW s \in Targets(m, e)
  PROVE  /\ e = "CANCEL" => s = "CANCELED"
         /\ e \in FailureEvents => s = "BLOCKED_ERROR"
         /\ m.status = "BLOCKED_ERROR" /\ e \in RecoveryEvents => s = m.previous
<1>1. \A edge \in ForwardEdges : /\ edge[2] \notin FailureEvents \cup RecoveryEvents
                                 /\ edge[2] # "CANCEL"
  BY SMTT(60) DEF ForwardEdges, PlanningEdges, ExecutionEdges, FailureEvents,
     FailureEdges, RecoveryEvents
<1>2. /\ {"CANCEL", "TESTS_PASSED"} \cap FailureEvents = {}
      /\ RecoveryEvents \cap FailureEvents = {}
      /\ {"CANCEL", "TESTS_PASSED"} \cap RecoveryEvents = {}
  BY DEF FailureEvents, FailureEdges, RecoveryEvents
<1>3. \A edge \in FailureEdges : edge[2] \notin RecoveryEvents /\ edge[2] # "CANCEL"
  BY DEF FailureEdges, RecoveryEvents
<1>4. CASE s \in ForwardTargets(m, e)
  BY <1>1, <1>4 DEF ForwardTargets
<1>5. CASE s \in AfterTestsTargets(m, e)
  BY <1>2, <1>5 DEF AfterTestsTargets
<1>6. CASE s \in FailureTargets(m, e)
  BY <1>3, <1>6 DEF FailureTargets
<1>7. CASE s \in CancelTargets(m, e)
  BY <1>2, <1>7 DEF CancelTargets
<1>8. CASE s \in ResumeTargets(m, e)
  BY <1>2, <1>8 DEF ResumeTargets
<1> QED BY <1>4, <1>5, <1>6, <1>7, <1>8 DEF Targets

-----------------------------------------------------------------------------
(* Type correctness.                                                        *)

LEMMA MoveType ==
  ASSUME SlotTypeOK, NEW t \in Tickets, NEW e, Move(t, e)
  PROVE  /\ status' \in [Tickets -> Statuses]
         /\ previous' \in [Tickets -> Statuses \cup {None}]
         /\ \A u \in Tickets \ {t} : status'[u] = status[u]
         /\ status'[t] \in Targets(Context(t), e)
<1>1. PICK s \in Targets(Context(t), e) :
        /\ status'   = [status EXCEPT ![t] = s]
        /\ previous' = [previous EXCEPT ![t] = ContextAfter(Context(t), e, s).previous]
  BY DEF Move
<1>2. Context(t).status = status[t] /\ Context(t).previous = previous[t]
      /\ status[t] \in Statuses /\ previous[t] \in Statuses \cup {None}
  BY DEF Context, SlotTypeOK
<1>3. s \in Statuses
  BY <1>2, TargetsAreStatuses
<1>4. ContextAfter(Context(t), e, s).previous \in Statuses \cup {None}
  BY <1>2 DEF ContextAfter, Context
<1> QED BY <1>1, <1>3, <1>4 DEF SlotTypeOK

\* A ticket that is blocked by a failure, and one that is not, keep what is
\* left of them apart.
LEMMA TicketStepType ==
  ASSUME SlotTypeOK, NEW t \in Tickets, TicketStep(t)
  PROVE  SlotTypeOK'
<1>1. ASSUME NEW e, Move(t, e), left' \subseteq left, t \notin left',
             request' \in [Tickets -> RecoveryEvents \cup {None, Outdated}],
             editing' \subseteq Tickets
      PROVE  SlotTypeOK'
  BY <1>1, MoveType DEF SlotTypeOK
<1>2. status[t] # "BLOCKED_ERROR" => t \notin left
  BY DEF SlotTypeOK
<1>3. CASE Approve(t)
  BY <1>1, <1>2, <1>3 DEF Approve, SlotTypeOK
<1>4. CASE Preflight(t)
  BY <1>1, <1>2, <1>4 DEF Preflight, SlotTypeOK
<1>5. CASE Advance(t)
  BY <1>1, <1>2, <1>5, BandApart DEF Advance, SlotTypeOK
<1>6. CASE Fail(t)
  <2>1. PICK e \in FailureEvents : Move(t, e)
    BY <1>6 DEF Fail
  <2>2. status'[t] = "BLOCKED_ERROR"
    BY <2>1, MoveType, LeavingTargets
  <2>3. left' \subseteq left \cup {t}
    BY <1>6 DEF Fail
  <2>4. request' = request /\ editing' = editing
    BY <1>6 DEF Fail
  <2> QED BY <2>1, <2>2, <2>3, <2>4, MoveType DEF SlotTypeOK
<1>7. CASE Cancel(t)
  BY <1>1, <1>7 DEF Cancel, SlotTypeOK
<1>8. CASE RequestRetry(t)
  <2>1. CASE request' = [request EXCEPT ![t] = "RETRY"] /\ UNCHANGED <<status, previous>>
    BY <1>8, <2>1 DEF RequestRetry, SlotTypeOK, RecoveryEvents
  <2>2. CASE t \notin left /\ Move(t, "RETRY") /\ UNCHANGED request
    BY <1>1, <1>8, <2>2 DEF RequestRetry, SlotTypeOK
  <2> QED BY <1>8, <2>1, <2>2 DEF RequestRetry
<1>9. CASE RequestContinue(t)
  BY <1>9 DEF RequestContinue, SlotTypeOK, RecoveryEvents
<1>10. CASE RecoveryAnswered(t)
  <2>1. request' \in [Tickets -> RecoveryEvents \cup {None, Outdated}] /\ editing' = editing
    BY <1>10 DEF RecoveryAnswered, SlotTypeOK
  <2>2. CASE Move(t, request[t]) /\ left' = left \ {t}
    BY <1>1, <2>1, <2>2 DEF SlotTypeOK
  <2>3. CASE UNCHANGED <<status, previous, left>>
    BY <2>1, <2>3 DEF SlotTypeOK
  <2> QED BY <1>10, <2>2, <2>3 DEF RecoveryAnswered
<1>11. CASE RequestBandEdit(t)
  BY <1>11 DEF RequestBandEdit, SlotTypeOK
<1>12. CASE EditAnswered(t)
  <2>1. "WAITING_EXECUTION_SETUP_APPROVAL" \in Statuses
    BY DEF Statuses, Resumable, ExecutionBand
  <2> QED BY <1>12, <2>1 DEF EditAnswered, SlotTypeOK
<1> QED BY <1>3, <1>4, <1>5, <1>6, <1>7, <1>8, <1>9, <1>10, <1>11, <1>12 DEF TicketStep

\* Every variable keeps its type, and the only tickets with work left running
\* are blocked ones: wherever a ticket goes on or ends, its work was stopped.
THEOREM SlotTypeCorrect == SlotSpec => []SlotTypeOK
<1>1. SlotInit => SlotTypeOK
  BY DEF SlotInit, SlotTypeOK, Statuses, Resumable, PlanningStatuses, BeadsStatuses
<1>2. SlotTypeOK /\ [SlotNext]_slotVars => SlotTypeOK'
  <2> SUFFICES ASSUME SlotTypeOK, [SlotNext]_slotVars PROVE SlotTypeOK'
    OBVIOUS
  <2>1. CASE Restart
    BY <2>1 DEF Restart, SlotTypeOK
  <2>2. ASSUME NEW t \in Tickets, TicketStep(t) PROVE SlotTypeOK'
    BY <2>2, TicketStepType
  <2>3. CASE UNCHANGED slotVars
    BY <2>3 DEF slotVars, SlotTypeOK
  <2> QED BY <2>1, <2>2, <2>3 DEF SlotNext
<1> QED BY <1>1, <1>2, PTL DEF SlotSpec

-----------------------------------------------------------------------------
(* Who may join an occupied slot.                                           *)

Joins(t) == status[t] \notin ExecutionBand /\ status'[t] \in ExecutionBand /\ Conflict(t)

\* In any project, a ticket joins another one in the execution band only at
\* the end of a recovery that waited after it asked for the slot.
THEOREM JoinsAfterWaiting == SlotSpec => JoinsOnlyAfterWaiting
<1> DEFINE Step == \A t \in Tickets : Joins(t) => request[t] # None \/ t \in editing
<1>1. ASSUME SlotTypeOK, [SlotNext]_slotVars
      PROVE  Step
  <2> SUFFICES ASSUME NEW t \in Tickets, Joins(t)
               PROVE  request[t] # None \/ t \in editing
    OBVIOUS
  <2>1. status'[t] # status[t]
    BY DEF Joins
  <2>2. ASSUME NEW u \in Tickets, TicketStep(u)
        PROVE  u = t
    <3>1. ASSUME NEW e, Move(u, e) PROVE u = t
      BY <1>1, <2>1, <3>1, MoveType
    <3>2. ASSUME status' = status PROVE u = t
      BY <2>1, <3>2
    <3>3. CASE EditAnswered(u)
      BY <1>1, <2>1, <3>3 DEF EditAnswered, SlotTypeOK
    <3> QED BY <2>2, <3>1, <3>2, <3>3 DEF TicketStep, Approve, Preflight, Advance,
               Fail, Cancel, RequestRetry, RequestContinue, RecoveryAnswered, RequestBandEdit
  <2>3. TicketStep(t)
    <3>1. ~Restart /\ ~UNCHANGED slotVars
      BY <2>1 DEF Restart, slotVars
    <3> QED BY <1>1, <2>2, <3>1 DEF SlotNext
  <2>4. CASE Approve(t)
    BY <2>4 DEF Joins, Approve
  <2>5. CASE Preflight(t) \/ Advance(t)
    BY <2>5 DEF Joins, Preflight, Advance, ExecutionBand
  <2>6. CASE Fail(t) \/ Cancel(t)
    <3>1. status'[t] \in {"BLOCKED_ERROR", "CANCELED"}
      BY <1>1, <2>6, MoveType, LeavingTargets DEF Fail, Cancel
    <3> QED BY <3>1, BandApart DEF Joins, Terminal
  <2>7. CASE RequestRetry(t)
    <3>1. Move(t, "RETRY") /\ MayRecover(t)
      BY <2>1, <2>7 DEF RequestRetry
    <3>2. status'[t] = previous[t]
      BY <1>1, <3>1, MoveType, LeavingTargets DEF MayRecover, Context, RecoveryEvents
    <3> QED BY <3>1, <3>2 DEF MayRecover, Joins
  <2>8. CASE RequestContinue(t) \/ RequestBandEdit(t)
    BY <2>1, <2>8 DEF RequestContinue, RequestBandEdit
  <2>9. CASE RecoveryAnswered(t) \/ EditAnswered(t)
    BY <2>9 DEF RecoveryAnswered, EditAnswered
  <2> QED BY <2>3, <2>4, <2>5, <2>6, <2>7, <2>8, <2>9 DEF TicketStep
<1>2. SlotTypeOK /\ [SlotNext]_slotVars => [Step]_slotVars
  BY <1>1
<1>3. [Step]_slotVars <=> [\A t \in Tickets :
       status[t] \notin ExecutionBand /\ status'[t] \in ExecutionBand /\ Conflict(t)
         => request[t] # None \/ t \in editing]_slotVars
  BY DEF Joins
<1> QED BY <1>2, <1>3, SlotTypeCorrect, PTL DEF SlotSpec, JoinsOnlyAfterWaiting

=============================================================================
