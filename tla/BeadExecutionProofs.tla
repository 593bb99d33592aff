------------------------ MODULE BeadExecutionProofs ------------------------
(***************************************************************************)
(* What BeadExecution keeps for any beads and dependencies, any number of  *)
(* tries, failing calls and crashes, as long as the handler has not passed *)
(* over a failed bead: tries are isolated, work is recoverable, and the    *)
(* ticket's branch keeps its contract.                                     *)
(***************************************************************************)
EXTENDS BeadExecution, FiniteSetTheorems, WellFoundedInduction, TLAPS

-----------------------------------------------------------------------------
(* The inductive invariant.                                                *)

Labels ==
  {"idle", "down", "start", "stop", "reset", "clean", "recover", "select", "open", "prompt",
   "work", "failed", "wipe", "wipe clean", "wiped", "abandon", "exhausted", "give up",
   "failure recorded", "checkpoint", "commit", "record",
   "retry", "retry reset", "retry clean", "retry write", "retry dispatch"}

RetryLabels == {"retry", "retry reset", "retry clean", "retry write", "retry dispatch"}
HandlerLabels == Labels \ (RetryLabels \cup {"idle", "down"})

\* Labels at which nobody may be at work in the worktree.
QuietLabels ==
  (HandlerLabels \cup RetryLabels)
     \ {"start", "stop", "work", "failed", "give up", "failure recorded"}

StepType == [pc : Labels, bead : Beads \cup {None}, from : Nat, session : Sessions \cup {None}]

Done == WithStatus("done")

\* Beads with a start commit that are not finished.
Started == Unfinished \cup {b \in WithStatus("pending") : beads[b].based}

\* Beads whose accepted result waits to be committed or recorded.
Current == {b \in Beads : artifact[b].current}

DoneWork == UNION {artifact[b].work : b \in Done}

\* The tracker and the branch: one bead at a time is started, it is the one
\* that is selected again, and it starts from the work of the finished ones,
\* to which the branch adds at most the bead's accepted work.
Ledger ==
  /\ \A b \in Started : /\ BlockedBy[b] \subseteq Done
                        /\ beads[b].based /\ beads[b].start = DoneWork
                        /\ \A c \in Runnable : b <= c
  /\ \A b, c \in Started : b = c
  /\ \A b \in Beads : \A w \in artifact[b].work : w[1] = b
  /\ Current \subseteq Unfinished
  /\ DoneWork \subseteq head
  /\ \A w \in head : w \notin DoneWork => \E b \in Current : w \in artifact[b].work

\* The worktree holds what the present try at the begun bead wrote, and only
\* its session writes; accepted work is there or on the branch.
Desk ==
  /\ working \subseteq rows
  /\ \A s \in working : s.bead \in Unfinished /\ s.try = beads[s.bead].tries
  /\ \A w \in tree : \E b \in Unfinished : w = Work(b)
  /\ \A b \in Current : /\ working = {} /\ tree \subseteq artifact[b].work
                        /\ artifact[b].work \subseteq tree \cup head
                        /\ artifact[b].work \subseteq {Work(b)}

\* The ticket, the route that Continue would take, and what it left in memory.
Routes ==
  /\ step.pc \in HandlerLabels => status = "CODING"
  /\ step.pc \in RetryLabels => status = "BLOCKED" /\ continuation = None
  /\ step.pc = "idle" => status # "CODING"
  /\ status = "CODING" /\ step.pc \notin {"failure recorded", "down", "start"} =>
       WithStatus("error") = {}
  /\ status = "CODING" /\ WithStatus("error") = {} =>
       \A s \in working : s.iteration = beads[s.bead].iteration
  /\ offered # None => status = "BLOCKED" /\ working \subseteq {offered} /\ Current = {}
  /\ continuation # None =>
       /\ continuation \in rows /\ step.pc # "down"
       /\ step.pc = "start" => working = {} /\ Current = {}
       /\ step.pc \in {"work", "failed", "wipe", "wipe clean"} => continuation # step.session

\* Where the handler or Retry is.
Place ==
  /\ step.pc \in QuietLabels => working = {}
  /\ step.pc \in HandlerLabels \ {"start", "select"} => step.bead \in Started
  /\ step.pc \in {"retry reset", "retry clean"} => step.bead \in Started
  /\ step.pc = "retry write" => step.bead \in Beads \ Done /\ Started \subseteq {step.bead}
  /\ step.pc = "select" => Unfinished = {}
  /\ step.pc \in {"stop", "reset", "clean", "recover", "open", "prompt", "work", "failed", "wipe",
                  "wipe clean", "wiped", "abandon", "exhausted", "give up", "checkpoint",
                  "retry reset", "retry clean", "retry write"} => Current = {}
  /\ step.pc \in {"work", "failed", "give up", "checkpoint", "commit", "record"} =>
       beads[step.bead].status = "in_progress"
  /\ step.pc \in {"commit", "record"} => step.bead \in Current
  /\ step.pc \in {"recover", "wiped", "abandon", "exhausted", "retry write", "record"} => tree = {}
  /\ step.pc \in {"abandon", "exhausted"} => beads[step.bead].iteration > 0
  /\ step.pc \in {"prompt", "work", "failed"} =>
       step.session = Session(step.bead) /\ step.session \in rows
  /\ step.pc \in {"work", "failed"} => working \subseteq {step.session}
  /\ step.pc \in {"exhausted", "checkpoint", "commit", "record"} => step.session = None
  /\ step.pc \in {"give up", "failure recorded"} /\ step.session # None =>
       working \subseteq {step.session} /\ Current = {}

IInv == TypeOK /\ step \in StepType /\ Ledger /\ Desk /\ Routes /\ Place

-----------------------------------------------------------------------------
(* The records the actions write.                                          *)

BeadType == [status : {"pending", "in_progress", "error", "done"}, iteration : Nat,
             based : BOOLEAN, start : SUBSET Pieces, tries : Nat]

LEMMA Names ==
  /\ None \notin Beads /\ None \notin Sessions
  /\ Beads \subseteq Nat /\ 0 \notin Beads /\ IsFiniteSet(Beads)
BY BeadsAssumption DEF Sessions

LEMMA LabelNames ==
  /\ "idle" \in Labels /\ "down" \in Labels /\ "start" \in Labels /\ "stop" \in Labels
  /\ "reset" \in Labels /\ "clean" \in Labels /\ "recover" \in Labels
  /\ "select" \in Labels /\ "open" \in Labels /\ "prompt" \in Labels /\ "work" \in Labels
  /\ "failed" \in Labels /\ "wipe" \in Labels /\ "wipe clean" \in Labels
  /\ "wiped" \in Labels /\ "abandon" \in Labels /\ "exhausted" \in Labels
  /\ "give up" \in Labels /\ "failure recorded" \in Labels /\ "checkpoint" \in Labels
  /\ "commit" \in Labels /\ "record" \in Labels /\ "retry" \in Labels
  /\ "retry reset" \in Labels /\ "retry clean" \in Labels /\ "retry write" \in Labels
  /\ "retry dispatch" \in Labels
BY DEF Labels

\* What Idle, At, Goto and GotoWith make of the handler's place.
LEMMA IdleIs ==
  /\ Idle \in StepType
  /\ Idle.pc = "idle" /\ Idle.bead = None /\ Idle.session = None
BY LabelNames DEF Idle, StepType

LEMMA AtIs ==
  ASSUME NEW pc \in Labels, NEW b \in Beads \cup {None}, NEW n \in Nat,
         step' = At(pc, b) \/ step' = [At(pc, b) EXCEPT !.from = n]
  PROVE  /\ step' \in StepType
         /\ step'.pc = pc /\ step'.bead = b /\ step'.session = None
<1>1. /\ At(pc, b) \in StepType
      /\ At(pc, b).pc = pc /\ At(pc, b).bead = b /\ At(pc, b).session = None
  BY DEF At, Idle, StepType
<1>2. CASE step' = At(pc, b)
  BY <1>1, <1>2
<1>3. CASE step' = [At(pc, b) EXCEPT !.from = n]
  BY <1>1, <1>3 DEF StepType
<1>. QED  BY <1>2, <1>3

LEMMA GotoIs ==
  ASSUME step \in StepType, NEW pc \in Labels, step' = Goto(pc)
  PROVE  /\ step' \in StepType
         /\ step'.pc = pc /\ step'.bead = step.bead /\ step'.session = step.session
BY DEF Goto, StepType

LEMMA GotoWithIs ==
  ASSUME step \in StepType, NEW pc \in Labels, NEW s \in Sessions \cup {None},
         step' = GotoWith(pc, s)
  PROVE  /\ step' \in StepType
         /\ step'.pc = pc /\ step'.bead = step.bead /\ step'.session = s
BY DEF GotoWith, StepType

LEMMA FaultsCount ==
  ASSUME TypeOK, Fault \/ NoFault
  PROVE  faults' \in 0..MaxFaults
<1>1. MaxFaults \in Nat
  BY BeadsAssumption
<1>2. faults \in 0..MaxFaults
  BY DEF TypeOK
<1>. QED  BY <1>1, <1>2 DEF Fault, NoFault

LEMMA CrashesCount ==
  ASSUME TypeOK, crashes < MaxCrashes
  PROVE  crashes + 1 \in 0..MaxCrashes
<1>1. MaxCrashes \in Nat
  BY BeadsAssumption
<1>2. crashes \in 0..MaxCrashes
  BY DEF TypeOK
<1>. QED  BY <1>1, <1>2

LEMMA SessionOf ==
  ASSUME TypeOK, NEW b \in Beads
  PROVE  /\ Session(b) \in Sessions
         /\ Session(b).bead = b /\ Session(b).iteration = beads[b].iteration
         /\ Session(b).try = beads[b].tries
         /\ Piece(Session(b)) = Work(b)
         /\ Work(b) \in Pieces /\ Work(b)[1] = b
<1>1. beads[b].iteration \in Nat /\ beads[b].tries \in Nat
  BY DEF TypeOK
<1>. QED  BY <1>1 DEF Session, Sessions, Piece, Work, Pieces

LEMMA ReopenedIs ==
  ASSUME TypeOK, NEW b \in Beads, NEW n \in {0, 1}
  PROVE  LET r == Reopened(b, n) IN
         /\ r \in BeadType /\ r.status = "pending"
         /\ r.based = beads[b].based /\ r.start = beads[b].start
         /\ r.iteration = beads[b].iteration + n /\ r.tries = beads[b].tries + 1
<1>1. beads[b] \in BeadType
  BY DEF TypeOK, BeadType
<1>2. /\ beads[b].iteration \in Nat /\ beads[b].iteration + n \in Nat
      /\ beads[b].tries \in Nat /\ beads[b].tries + 1 \in Nat
  BY <1>1 DEF BeadType
<1>. QED  BY <1>1, <1>2 DEF Reopened, BeadType

\* Statuses and derived sets follow the tracker.
LEMMA SameTracker ==
  ASSUME UNCHANGED <<beads, artifact>>
  PROVE  /\ Done' = Done /\ Unfinished' = Unfinished /\ Started' = Started
         /\ Current' = Current /\ DoneWork' = DoneWork /\ Runnable' = Runnable
         /\ WithStatus("error")' = WithStatus("error")
         /\ WithStatus("in_progress")' = WithStatus("in_progress")
         /\ \A b : Session(b)' = Session(b) /\ Work(b)' = Work(b)
BY DEF Done, Unfinished, Started, Current, DoneWork, Runnable, WithStatus, Session, Work

LEMMA SameLedger ==
  ASSUME Ledger, UNCHANGED <<beads, artifact, head>>
  PROVE  Ledger'
BY SameTracker DEF Ledger

\* With nothing accepted in between the branch is the work of the done.
LEMMA HeadIsDone ==
  ASSUME Ledger, Current = {}
  PROVE  head = DoneWork
BY DEF Ledger

LEMMA StatusSets ==
  ASSUME TypeOK
  PROVE  /\ Unfinished = {b \in Beads : beads[b].status \in {"error", "in_progress"}}
         /\ Started = {b \in Beads : \/ beads[b].status \in {"error", "in_progress"}
                                     \/ beads[b].status = "pending" /\ beads[b].based}
         /\ Done = {b \in Beads : beads[b].status = "done"}
         /\ Runnable = {b \in Beads : beads[b].status = "pending" /\ BlockedBy[b] \subseteq Done}
         /\ \A st : WithStatus(st) = {b \in Beads : beads[b].status = st}
BY DEF Unfinished, Started, Done, Runnable, WithStatus

-----------------------------------------------------------------------------
(* Touching a record.                                                      *)

LEMMA TouchTypes ==
  ASSUME TypeOK, NEW b \in Beads, NEW r \in BeadType, Touch(b, r)
  PROVE  /\ beads' \in [Beads -> BeadType]
         /\ recent' \subseteq Beads \X Beads
         /\ artifact' \in [Beads -> [work : SUBSET Pieces, current : BOOLEAN]]
         /\ beads'[b] = r /\ \A c \in Beads \ {b} : beads'[c] = beads[c]
         /\ artifact'[b].current = FALSE
         /\ \A c \in Beads : artifact'[c].work = artifact[c].work
         /\ \A c \in Beads \ {b} : artifact'[c].current = artifact[c].current
<1>1. beads \in [Beads -> BeadType]
  BY DEF TypeOK, BeadType
<1>2. beads' \in [Beads -> BeadType] /\ beads'[b] = r
      /\ \A c \in Beads \ {b} : beads'[c] = beads[c]
  BY <1>1 DEF Touch
<1>3. {b} \X (Beads \ {b}) \subseteq Beads \X Beads
  OBVIOUS
<1>4. recent' \subseteq Beads \X Beads
  BY <1>3 DEF TypeOK, Touch
<1>5. artifact \in [Beads -> [work : SUBSET Pieces, current : BOOLEAN]]
  BY DEF TypeOK
<1>6. artifact' = [artifact EXCEPT ![b] = [artifact[b] EXCEPT !.current = FALSE]]
  BY DEF Touch
<1>7. /\ [artifact[b] EXCEPT !.current = FALSE] \in [work : SUBSET Pieces, current : BOOLEAN]
      /\ [artifact[b] EXCEPT !.current = FALSE].current = FALSE
      /\ [artifact[b] EXCEPT !.current = FALSE].work = artifact[b].work
  BY <1>5
<1>8. artifact' \in [Beads -> [work : SUBSET Pieces, current : BOOLEAN]]
  BY <1>5, <1>6, <1>7
<1>9. artifact'[b] = [artifact[b] EXCEPT !.current = FALSE]
      /\ \A c \in Beads \ {b} : artifact'[c] = artifact[c]
  BY <1>5, <1>6
<1>. QED  BY <1>2, <1>4, <1>7, <1>8, <1>9

\* A bead that is written and not finished, when it is the only one started
\* and nothing is accepted: the finished beads and their work stay.
LEMMA TouchStarted ==
  ASSUME TypeOK, Ledger, head' = head,
         NEW b \in Beads, NEW r \in BeadType, Touch(b, r),
         beads[b].status # "done", r.status # "done",
         Started \subseteq {b}, Current = {},
         r.status # "pending" => r.based,
         r.based => /\ r.start = DoneWork /\ BlockedBy[b] \subseteq Done
                    /\ \A c \in Runnable : b <= c
  PROVE  /\ Ledger' /\ Current' = {} /\ Done' = Done
         /\ Started' = (IF r.based THEN {b} ELSE {})
         /\ Unfinished' = (IF r.status = "pending" THEN {} ELSE {b})
         /\ r.status # "error" => WithStatus("error")' = {}
<1>1. /\ beads' \in [Beads -> BeadType] /\ beads \in [Beads -> BeadType]
      /\ beads'[b] = r /\ \A c \in Beads \ {b} : beads'[c] = beads[c]
      /\ artifact'[b].current = FALSE
      /\ \A c \in Beads : artifact'[c].work = artifact[c].work
      /\ \A c \in Beads \ {b} : artifact'[c].current = artifact[c].current
  BY TouchTypes DEF TypeOK, BeadType
<1>2. Current' = {}
  BY <1>1 DEF Current
<1>3. Done' = Done
  BY <1>1 DEF Done, WithStatus
<1>4. DoneWork' = DoneWork
  <2>1. \A c \in Done : artifact'[c].work = artifact[c].work
    BY <1>1 DEF Done, WithStatus
  <2>2. {artifact'[c].work : c \in Done} = {artifact[c].work : c \in Done}
    BY <2>1
  <2>. QED  BY <1>3, <2>2 DEF DoneWork
<1>5. \A c \in Beads \ {b} : /\ beads[c].status \notin {"error", "in_progress"}
                             /\ beads[c].status = "pending" => ~beads[c].based
  BY StatusSets
<1>6. /\ Started' = (IF r.based THEN {b} ELSE {})
      /\ Unfinished' = (IF r.status = "pending" THEN {} ELSE {b})
      /\ r.status # "error" => WithStatus("error")' = {}
  <2>1. r.status \in {"pending", "in_progress", "error"} /\ r.based \in BOOLEAN
    BY DEF BeadType
  <2>. QED  BY <1>1, <1>5, <2>1 DEF Started, Unfinished, WithStatus
<1>7. \A c \in Runnable' : c = b \/ c \in Runnable
  BY <1>1, <1>3 DEF Runnable, WithStatus, Done
<1>8. Ledger'
  <2>1. \A c \in Started' : /\ BlockedBy[c] \subseteq Done'
                            /\ beads'[c].based /\ beads'[c].start = DoneWork'
                            /\ \A d \in Runnable' : c <= d
    BY <1>1, <1>3, <1>4, <1>6, <1>7, Names
  <2>2. \A c, d \in Started' : c = d
    BY <1>6
  <2>3. \A c \in Beads : \A w \in artifact'[c].work : w[1] = c
    BY <1>1 DEF Ledger
  <2>4. DoneWork' = head'
    BY <1>4, HeadIsDone
  <2>. QED  BY <1>2, <2>1, <2>2, <2>3, <2>4 DEF Ledger
<1>. QED  BY <1>2, <1>3, <1>6, <1>8

-----------------------------------------------------------------------------
(* The choices: the bead of the lowest number, the bead touched last.      *)

LEMMA LeastOfFinite ==
  ASSUME NEW T, T \subseteq Nat, IsFiniteSet(T), T # {}
  PROVE  \E m \in T : \A n \in T : m <= n
<1>. DEFINE Below(n) == {k \in T : k <= n}
            Sets == {Below(n) : n \in T}
<1>1. IsWellFoundedOn(StrictSubsetOrdering(T), SUBSET T)
  BY FS_StrictSubsetOrderingWellFounded, FS_FiniteSubsetsOfFinite
<1>2. Sets \subseteq SUBSET T /\ Sets # {}
  OBVIOUS
<1>. HIDE DEF Sets
<1>3. PICK B \in Sets : \A C \in Sets : ~ (<<C, B>> \in StrictSubsetOrdering(T))
  BY <1>1, <1>2, WFMin
<1>4. PICK m \in T : B = Below(m)
  BY <1>3 DEF Sets
<1>5. ASSUME NEW n \in T, n < m
      PROVE  FALSE
  <2>1. Below(n) \subseteq Below(m)
    <3>1. ASSUME NEW k \in Below(n)  PROVE k \in T /\ k <= m
      <4>1. k \in Nat /\ n \in Nat /\ m \in Nat /\ k <= n
        OBVIOUS
      <4>. QED  BY <4>1, <1>5
    <3>. QED  BY <3>1
  <2>2. m \in Below(m) /\ m \notin Below(n)
    BY <1>5
  <2>3. Below(n) \in Sets /\ Below(m) \in Sets
    BY DEF Sets
  <2>4. Below(n) \in SUBSET T /\ Below(m) \in SUBSET T
    OBVIOUS
  <2>. HIDE DEF Below
  <2>5. <<Below(n), Below(m)>> \in StrictSubsetOrdering(T)
    BY <2>1, <2>2, <2>4 DEF StrictSubsetOrdering
  <2>. QED  BY <1>3, <1>4, <2>3, <2>5
<1>. QED  BY <1>5

LEMMA NextBeadIs ==
  ASSUME Runnable # {}
  PROVE  NextBead \in Runnable /\ \A c \in Runnable : NextBead <= c
<1>1. Runnable \subseteq Beads
  BY DEF Runnable, WithStatus
<1>2. Runnable \subseteq Nat /\ IsFiniteSet(Runnable)
  BY <1>1, Names, FS_Subset
<1>3. \E b \in Runnable : \A c \in Runnable : b <= c
  BY <1>2, LeastOfFinite
<1>. QED  BY <1>3 DEF NextBead

LEMMA LatestIs ==
  ASSUME NEW B, B # {}, \A b, c \in B : b = c
  PROVE  Latest(B) \in B /\ B = {Latest(B)}
<1>1. PICK b \in B : TRUE
  OBVIOUS
<1>2. B = {b}
  BY <1>1
<1>3. \E d \in B : \A c \in B \ {d} : <<c, d>> \notin recent
  BY <1>2
<1>4. Latest(B) \in B
  BY <1>3 DEF Latest
<1>. QED  BY <1>2, <1>4

-----------------------------------------------------------------------------
(* What the steps start from.                                              *)

LEMMA StartedIs ==
  ASSUME IInv, NEW b \in Started
  PROVE  /\ b \in Beads /\ Started = {b} /\ Unfinished \subseteq {b}
         /\ beads[b].status # "done"
         /\ BlockedBy[b] \subseteq Done /\ beads[b].based /\ beads[b].start = DoneWork
         /\ \A c \in Runnable : b <= c
<1>1. b \in Beads /\ beads[b].status # "done" /\ Unfinished \subseteq Started
  BY StatusSets DEF IInv
<1>. QED  BY <1>1 DEF IInv, Ledger

\* The handler's own labels: the ticket is in CODING, no bead is an error.
LEMMA InHandler ==
  ASSUME IInv, step.pc \in HandlerLabels
  PROVE  /\ status = "CODING" /\ offered = None
         /\ step.pc \notin {"failure recorded", "start"} => WithStatus("error") = {}
         /\ WithStatus("error") = {} =>
              \A s \in working : s.iteration = beads[s.bead].iteration
BY DEF IInv, Routes, HandlerLabels, RetryLabels, Labels

-----------------------------------------------------------------------------
(* Steps that leave the tracker alone.                                     *)

LEMMA SameDesk ==
  ASSUME Desk, UNCHANGED <<beads, artifact, head>>,
         tree' = tree \/ (tree' = {} /\ Current = {}),
         working' \subseteq working, working' \subseteq rows'
  PROVE  Desk'
BY SameTracker DEF Desk

LEMMA ReconnectKeeps ==
  ASSUME IInv, Reconnect
  PROVE  IInv'
<1>. USE DEF Reconnect, remote, tracker, git, blocking, NoFault, Fault
<1>1. /\ UNCHANGED <<beads, recent, artifact, head, tree, crashes>>
      /\ UNCHANGED <<rows, working, status, offered, continuation>>
      /\ step.pc = "open" /\ step.bead \in Started /\ working \subseteq rows
  BY DEF IInv, Desk, Place, QuietLabels, HandlerLabels, Labels, RetryLabels
<1>2. step.bead \in Beads /\ Session(step.bead) \in Sessions
  BY <1>1, StatusSets, SessionOf DEF IInv
<1>3. /\ step' \in StepType
      /\ step'.pc = "prompt" /\ step'.bead = step.bead /\ step'.session = Session(step.bead)
  BY <1>1, <1>2, GotoWithIs, LabelNames DEF IInv, StepType
<1>4. TypeOK'
  BY <1>1, <1>2, <1>3, FaultsCount DEF IInv, TypeOK, StepType
<1>5. Ledger' /\ Desk'
  BY <1>1, SameLedger, SameDesk DEF IInv
<1>6. Routes'
  BY <1>1, <1>3, SameTracker DEF IInv, Routes, HandlerLabels, RetryLabels, Labels
<1>7. Place'
  BY <1>1, <1>3, SameTracker DEF IInv, Place, QuietLabels, HandlerLabels, RetryLabels, Labels
<1>. QED  BY <1>3, <1>4, <1>5, <1>6, <1>7 DEF IInv

LEMMA SessionMissingKeeps ==
  ASSUME IInv, SessionMissing
  PROVE  IInv'
<1>. USE DEF SessionMissing, Forget, remote, tracker, git, blocking, NoFault, Fault
<1>1. /\ UNCHANGED <<beads, recent, artifact, head, tree, crashes>>
      /\ UNCHANGED <<status, offered, step>>
      /\ step.pc = "open" /\ step.bead \in Started /\ working \subseteq rows /\ working = {}
  BY DEF IInv, Desk, Place, QuietLabels, HandlerLabels, Labels, RetryLabels
<1>2. step.bead \in Beads /\ Session(step.bead) \in Sessions
  BY <1>1, StatusSets, SessionOf DEF IInv
<1>3. step' \in StepType
  BY <1>1, <1>2, LabelNames DEF IInv, StepType
<1>4. TypeOK'
  BY <1>1, <1>2, <1>3, FaultsCount DEF IInv, TypeOK, StepType
<1>5. Ledger' /\ Desk'
  BY <1>1, SameLedger, SameDesk DEF IInv
<1>6. Routes'
  BY <1>1, <1>3, SameTracker DEF IInv, Routes, HandlerLabels, RetryLabels, Labels
<1>7. Place'
  BY <1>1, <1>3, SameTracker DEF IInv, Place, QuietLabels, HandlerLabels, RetryLabels, Labels
<1>. QED  BY <1>3, <1>4, <1>5, <1>6, <1>7 DEF IInv

LEMMA CreateSessionKeeps ==
  ASSUME IInv, CreateSession
  PROVE  IInv'
<1>. USE DEF CreateSession, remote, tracker, git, blocking, NoFault, Fault
<1>1. /\ UNCHANGED <<beads, recent, artifact, head, tree, crashes>>
      /\ UNCHANGED <<working, status, offered, continuation>>
      /\ step.pc = "open" /\ step.bead \in Started /\ working \subseteq rows
  BY DEF IInv, Desk, Place, QuietLabels, HandlerLabels, Labels, RetryLabels
<1>2. step.bead \in Beads /\ Session(step.bead) \in Sessions
  BY <1>1, StatusSets, SessionOf DEF IInv
<1>3. /\ step' \in StepType
      /\ step'.pc = "prompt" /\ step'.bead = step.bead /\ step'.session = Session(step.bead)
  BY <1>1, <1>2, GotoWithIs, LabelNames DEF IInv, StepType
<1>4. TypeOK'
  BY <1>1, <1>2, <1>3, FaultsCount DEF IInv, TypeOK, StepType
<1>5. Ledger' /\ Desk'
  BY <1>1, SameLedger, SameDesk DEF IInv
<1>6. Routes'
  BY <1>1, <1>3, SameTracker DEF IInv, Routes, HandlerLabels, RetryLabels, Labels
<1>7. Place'
  BY <1>1, <1>3, SameTracker DEF IInv, Place, QuietLabels, HandlerLabels, RetryLabels, Labels
<1>. QED  BY <1>3, <1>4, <1>5, <1>6, <1>7 DEF IInv

LEMMA OpenFailsKeeps ==
  ASSUME IInv, OpenFails
  PROVE  IInv'
<1>. USE DEF OpenFails, remote, tracker, git, blocking, NoFault, Fault
<1>1. /\ UNCHANGED <<beads, recent, artifact, head, tree, crashes>>
      /\ UNCHANGED <<rows, working, status, offered, continuation>>
      /\ step.pc = "open" /\ step.bead \in Started /\ working \subseteq rows
  BY DEF IInv, Desk, Place, QuietLabels, HandlerLabels, Labels, RetryLabels
<1>2. step.bead \in Beads /\ Session(step.bead) \in Sessions
  BY <1>1, StatusSets, SessionOf DEF IInv
<1>3. /\ step' \in StepType
      /\ step'.pc = "wipe" /\ step'.bead = step.bead /\ step'.session = None
  BY <1>1, <1>2, GotoWithIs, LabelNames DEF IInv, StepType
<1>4. TypeOK'
  BY <1>1, <1>2, <1>3, FaultsCount DEF IInv, TypeOK, StepType
<1>5. Ledger' /\ Desk'
  BY <1>1, SameLedger, SameDesk DEF IInv
<1>6. Routes'
  BY <1>1, <1>3, SameTracker DEF IInv, Routes, HandlerLabels, RetryLabels, Labels
<1>7. Place'
  BY <1>1, <1>3, SameTracker DEF IInv, Place, QuietLabels, HandlerLabels, RetryLabels, Labels
<1>. QED  BY <1>3, <1>4, <1>5, <1>6, <1>7 DEF IInv

LEMMA AcceptKeeps ==
  ASSUME IInv, Accept
  PROVE  IInv'
<1>. USE DEF Accept, Forget, remote, tracker, git, blocking, NoFault, Fault
<1>1. /\ UNCHANGED <<beads, recent, artifact, head, tree, crashes>>
      /\ UNCHANGED <<status, offered>>
      /\ step.pc = "work" /\ step.bead \in Started
      /\ working \subseteq rows /\ working \subseteq {step.session}
  BY DEF IInv, Desk, Place, QuietLabels, HandlerLabels, Labels, RetryLabels
<1>2. step.bead \in Beads /\ Session(step.bead) \in Sessions
  BY <1>1, StatusSets, SessionOf DEF IInv
<1>3. /\ step' \in StepType
      /\ step'.pc = "checkpoint" /\ step'.bead = step.bead /\ step'.session = None
  BY <1>1, <1>2, GotoWithIs, LabelNames DEF IInv, StepType
<1>4. TypeOK'
  BY <1>1, <1>2, <1>3, FaultsCount DEF IInv, TypeOK, StepType
<1>5. Ledger' /\ Desk'
  BY <1>1, SameLedger, SameDesk DEF IInv
<1>6. Routes'
  BY <1>1, <1>3, SameTracker DEF IInv, Routes, HandlerLabels, RetryLabels, Labels
<1>7. Place'
  BY <1>1, <1>3, SameTracker DEF IInv, Place, QuietLabels, HandlerLabels, RetryLabels, Labels
<1>. QED  BY <1>3, <1>4, <1>5, <1>6, <1>7 DEF IInv

LEMMA RejectKeeps ==
  ASSUME IInv, Reject
  PROVE  IInv'
<1>. USE DEF Reject, remote, tracker, git, blocking, NoFault, Fault
<1>1. /\ UNCHANGED <<beads, recent, artifact, head, tree, crashes>>
      /\ UNCHANGED <<rows, status, offered, continuation>>
      /\ step.pc = "work" /\ step.bead \in Started
      /\ working \subseteq rows /\ working' \subseteq working
  BY DEF IInv, Desk, Place, QuietLabels, HandlerLabels, Labels, RetryLabels
<1>2. step.bead \in Beads /\ Session(step.bead) \in Sessions
  BY <1>1, StatusSets, SessionOf DEF IInv
<1>3. /\ step' \in StepType
      /\ step'.pc = "failed" /\ step'.bead = step.bead /\ step'.session = step.session
  BY <1>1, <1>2, GotoIs, LabelNames DEF IInv, StepType
<1>4. TypeOK'
  BY <1>1, <1>2, <1>3, FaultsCount DEF IInv, TypeOK, StepType
<1>5. Ledger' /\ Desk'
  BY <1>1, SameLedger, SameDesk DEF IInv
<1>6. Routes'
  BY <1>1, <1>3, SameTracker DEF IInv, Routes, HandlerLabels, RetryLabels, Labels
<1>7. Place'
  BY <1>1, <1>3, SameTracker DEF IInv, Place, QuietLabels, HandlerLabels, RetryLabels, Labels
<1>. QED  BY <1>3, <1>4, <1>5, <1>6, <1>7 DEF IInv

LEMMA ReplaceSessionKeeps ==
  ASSUME IInv, ReplaceSession
  PROVE  IInv'
<1>. USE DEF ReplaceSession, Forget, remote, tracker, git, blocking, NoFault, Fault
<1>1. /\ UNCHANGED <<beads, recent, artifact, head, tree, crashes>>
      /\ UNCHANGED <<status, offered>>
      /\ step.pc = "work" /\ step.bead \in Started
      /\ working \subseteq rows /\ working \subseteq {step.session}
  BY DEF IInv, Desk, Place, QuietLabels, HandlerLabels, Labels, RetryLabels
<1>2. step.bead \in Beads /\ Session(step.bead) \in Sessions
  BY <1>1, StatusSets, SessionOf DEF IInv
<1>3. /\ step' \in StepType
      /\ step'.pc = "open" /\ step'.bead = step.bead /\ step'.session = None
  BY <1>1, <1>2, GotoWithIs, LabelNames DEF IInv, StepType
<1>4. TypeOK'
  BY <1>1, <1>2, <1>3, FaultsCount DEF IInv, TypeOK, StepType
<1>5. Ledger' /\ Desk'
  BY <1>1, SameLedger, SameDesk DEF IInv
<1>6. Routes'
  BY <1>1, <1>3, SameTracker DEF IInv, Routes, HandlerLabels, RetryLabels, Labels
<1>7. Place'
  BY <1>1, <1>3, SameTracker DEF IInv, Place, QuietLabels, HandlerLabels, RetryLabels, Labels
<1>. QED  BY <1>3, <1>4, <1>5, <1>6, <1>7 DEF IInv

LEMMA StopFailedKeeps ==
  ASSUME IInv, StopFailed
  PROVE  IInv'
<1>. USE DEF StopFailed, remote, tracker, git, blocking, NoFault, Fault
<1>1. /\ UNCHANGED <<beads, recent, artifact, head, tree, crashes>>
      /\ UNCHANGED <<rows, status, offered, continuation>>
      /\ step.pc = "failed" /\ step.bead \in Started
      /\ working \subseteq rows /\ working \subseteq {step.session}
  BY DEF IInv, Desk, Place, QuietLabels, HandlerLabels, Labels, RetryLabels
<1>2. step.bead \in Beads /\ Session(step.bead) \in Sessions
  BY <1>1, StatusSets, SessionOf DEF IInv
<1>3. /\ step' \in StepType
      /\ step'.pc = "wipe" /\ step'.bead = step.bead /\ step'.session = step.session
  BY <1>1, <1>2, GotoIs, LabelNames DEF IInv, StepType
<1>4. TypeOK'
  BY <1>1, <1>2, <1>3, FaultsCount DEF IInv, TypeOK, StepType
<1>5. Ledger' /\ Desk'
  BY <1>1, SameLedger, SameDesk DEF IInv
<1>6. Routes'
  BY <1>1, <1>3, SameTracker DEF IInv, Routes, HandlerLabels, RetryLabels, Labels
<1>7. Place'
  BY <1>1, <1>3, SameTracker DEF IInv, Place, QuietLabels, HandlerLabels, RetryLabels, Labels
<1>. QED  BY <1>3, <1>4, <1>5, <1>6, <1>7 DEF IInv

LEMMA ResetWithheldKeeps ==
  ASSUME IInv, ResetWithheld
  PROVE  IInv'
<1>. USE DEF ResetWithheld, remote, tracker, git, blocking, NoFault, Fault
<1>1. /\ UNCHANGED <<beads, recent, artifact, head, tree, crashes>>
      /\ UNCHANGED <<rows, working, status, offered, continuation>>
      /\ step.pc = "failed" /\ step.bead \in Started /\ working \subseteq rows
      /\ working \subseteq {step.session} /\ Current = {}
  BY DEF IInv, Desk, Place, QuietLabels, HandlerLabels, Labels, RetryLabels
<1>2. step.bead \in Beads /\ Session(step.bead) \in Sessions
  BY <1>1, StatusSets, SessionOf DEF IInv
<1>3. /\ step' \in StepType
      /\ step'.pc = "give up" /\ step'.bead = step.bead
      /\ step'.session \in {None, step.session}
  BY <1>1, <1>2, GotoWithIs, LabelNames DEF IInv, StepType
<1>4. TypeOK'
  BY <1>1, <1>2, <1>3, FaultsCount DEF IInv, TypeOK, StepType
<1>5. Ledger' /\ Desk'
  BY <1>1, SameLedger, SameDesk DEF IInv
<1>6. Routes'
  BY <1>1, <1>3, SameTracker DEF IInv, Routes, HandlerLabels, RetryLabels, Labels
<1>7. Place'
  BY <1>1, <1>3, SameTracker DEF IInv, Place, QuietLabels, HandlerLabels, RetryLabels, Labels
<1>. QED  BY <1>3, <1>4, <1>5, <1>6, <1>7 DEF IInv

LEMMA PreserveKeeps ==
  ASSUME IInv, Preserve
  PROVE  IInv'
<1>. USE DEF Preserve, Block, remote, tracker, git, blocking, NoFault, Fault
<1>1. /\ UNCHANGED <<beads, recent, artifact, head, tree, crashes>>
      /\ UNCHANGED <<rows, continuation>>
      /\ step.pc = "work" /\ step.bead \in Started
      /\ step.session \in rows /\ Current = {} /\ working \subseteq rows
      /\ working' \subseteq working /\ working \subseteq {step.session}
  BY DEF IInv, Desk, Place, QuietLabels, HandlerLabels, Labels, RetryLabels
<1>3. step' = Idle /\ step' \in StepType
      /\ step'.pc = "idle" /\ step'.bead = None /\ step'.session = None
  BY <1>1, IdleIs DEF IInv, StepType
<1>4. TypeOK'
  BY <1>1, <1>3, FaultsCount DEF IInv, TypeOK, StepType
<1>5. Ledger' /\ Desk'
  BY <1>1, SameLedger, SameDesk DEF IInv
<1>6. Routes'
  BY <1>1, <1>3, SameTracker DEF IInv, Routes, HandlerLabels, RetryLabels, Labels
<1>7. Place'
  BY <1>1, <1>3, SameTracker DEF IInv, Place, QuietLabels, HandlerLabels, RetryLabels, Labels
<1>. QED  BY <1>3, <1>4, <1>5, <1>6, <1>7 DEF IInv

LEMMA AbandonKeeps ==
  ASSUME IInv, Abandon
  PROVE  IInv'
<1>. USE DEF Abandon, Forget, remote, tracker, git, blocking, NoFault, Fault
<1>1. /\ UNCHANGED <<beads, recent, artifact, head, tree, crashes>>
      /\ UNCHANGED <<working, status, offered>>
      /\ step.pc = "abandon" /\ step.bead \in Started /\ working = {}
  BY DEF IInv, Desk, Place, QuietLabels, HandlerLabels, Labels, RetryLabels
<1>2. step.bead \in Beads /\ Session(step.bead) \in Sessions
  BY <1>1, StatusSets, SessionOf DEF IInv
<1>3. /\ step' \in StepType
      /\ step'.pc \in {"open", "exhausted"} /\ step'.bead = step.bead /\ step'.session = None
  BY <1>1, <1>2, GotoWithIs, LabelNames DEF IInv, StepType
<1>4. TypeOK'
  BY <1>1, <1>2, <1>3, FaultsCount DEF IInv, TypeOK, StepType
<1>5. Ledger' /\ Desk'
  BY <1>1, SameLedger, SameDesk DEF IInv
<1>6. Routes'
  BY <1>1, <1>3, SameTracker DEF IInv, Routes, HandlerLabels, RetryLabels, Labels
<1>7. Place'
  BY <1>1, <1>3, SameTracker DEF IInv, Place, QuietLabels, HandlerLabels, RetryLabels, Labels
<1>. QED  BY <1>3, <1>4, <1>5, <1>6, <1>7 DEF IInv

LEMMA RecoveryFailsKeeps ==
  ASSUME IInv, RecoveryFails
  PROVE  IInv'
<1>. USE DEF RecoveryFails, Block, remote, tracker, git, blocking, NoFault, Fault
<1>1. /\ UNCHANGED <<beads, recent, artifact, head, tree, crashes>>
      /\ UNCHANGED <<rows, working, continuation>>
      /\ step.pc \in {"reset", "clean"} /\ step.bead \in Started /\ working \subseteq rows
  BY DEF IInv, Desk, Place, QuietLabels, HandlerLabels, Labels, RetryLabels
<1>3. step' = Idle /\ step' \in StepType
      /\ step'.pc = "idle" /\ step'.bead = None /\ step'.session = None
  BY <1>1, IdleIs DEF IInv, StepType
<1>4. TypeOK'
  BY <1>1, <1>3, FaultsCount DEF IInv, TypeOK, StepType
<1>5. Ledger' /\ Desk'
  BY <1>1, SameLedger, SameDesk DEF IInv
<1>6. Routes'
  BY <1>1, <1>3, SameTracker DEF IInv, Routes, HandlerLabels, RetryLabels, Labels
<1>7. Place'
  BY <1>1, <1>3, SameTracker DEF IInv, Place, QuietLabels, HandlerLabels, RetryLabels, Labels
<1>. QED  BY <1>3, <1>4, <1>5, <1>6, <1>7 DEF IInv

LEMMA SelectFailsKeeps ==
  ASSUME IInv, SelectFails
  PROVE  IInv'
<1>. USE DEF SelectFails, Block, remote, tracker, git, blocking, NoFault, Fault
<1>1. /\ UNCHANGED <<beads, recent, artifact, head, tree, crashes>>
      /\ UNCHANGED <<rows, working, continuation>>
      /\ step.pc = "select" /\ working \subseteq rows
  BY DEF IInv, Desk, Place, QuietLabels, HandlerLabels, Labels, RetryLabels
<1>3. step' = Idle /\ step' \in StepType
      /\ step'.pc = "idle" /\ step'.bead = None /\ step'.session = None
  BY <1>1, IdleIs DEF IInv, StepType
<1>4. TypeOK'
  BY <1>1, <1>3, FaultsCount DEF IInv, TypeOK, StepType
<1>5. Ledger' /\ Desk'
  BY <1>1, SameLedger, SameDesk DEF IInv
<1>6. Routes'
  BY <1>1, <1>3, SameTracker DEF IInv, Routes, HandlerLabels, RetryLabels, Labels
<1>7. Place'
  BY <1>1, <1>3, SameTracker DEF IInv, Place, QuietLabels, HandlerLabels, RetryLabels, Labels
<1>. QED  BY <1>3, <1>4, <1>5, <1>6, <1>7 DEF IInv

LEMMA ReportFailureKeeps ==
  ASSUME IInv, ReportFailure
  PROVE  IInv'
<1>. USE DEF ReportFailure, Block, remote, tracker, git, blocking, NoFault, Fault
<1>1. /\ UNCHANGED <<beads, recent, artifact, head, tree, crashes>>
      /\ UNCHANGED <<rows, working, continuation>>
      /\ step.pc = "failure recorded" /\ step.bead \in Started
      /\ step.session # None => working \subseteq {step.session} /\ Current = {}
      /\ working \subseteq rows
  BY DEF IInv, Desk, Place, QuietLabels, HandlerLabels, Labels, RetryLabels
<1>3. step' = Idle /\ step' \in StepType
      /\ step'.pc = "idle" /\ step'.bead = None /\ step'.session = None
  BY <1>1, IdleIs DEF IInv, StepType
<1>4. TypeOK'
  BY <1>1, <1>3, FaultsCount DEF IInv, TypeOK, StepType
<1>5. Ledger' /\ Desk'
  BY <1>1, SameLedger, SameDesk DEF IInv
<1>6. Routes'
  BY <1>1, <1>3, SameTracker DEF IInv, Routes, HandlerLabels, RetryLabels, Labels
<1>7. Place'
  BY <1>1, <1>3, SameTracker DEF IInv, Place, QuietLabels, HandlerLabels, RetryLabels, Labels
<1>. QED  BY <1>3, <1>4, <1>5, <1>6, <1>7 DEF IInv

\* A stop of all the interrupted iteration's sessions leaves nobody at work.
LEMMA StopInterruptedKeeps ==
  ASSUME IInv, StopInterrupted
  PROVE  IInv'
<1>. USE DEF remote, tracker, git, blocking
<1>1. PICK stopped \in SUBSET InterruptedRows :
        /\ rows' = rows \ stopped /\ working' = working \ stopped
        /\ continuation' = (IF continuation \in stopped THEN None ELSE continuation)
        /\ \/ stopped = InterruptedRows /\ NoFault
              /\ step' = Goto("reset") /\ UNCHANGED <<status, offered>>
           \/ stopped # InterruptedRows /\ Fault
              /\ step' = Idle /\ status' = "BLOCKED" /\ offered' = None
  BY DEF StopInterrupted, Forget
<1>2. /\ UNCHANGED <<beads, artifact, head, tree, recent, crashes>>
      /\ step.pc = "stop" /\ step.bead \in Started /\ working \subseteq rows /\ Current = {}
  BY DEF StopInterrupted, IInv, Desk, Place, HandlerLabels, Labels, RetryLabels
<1>3. /\ working' \subseteq working /\ working' \subseteq rows'
      /\ rows' \subseteq rows
  BY <1>1, <1>2
<1>4. TypeOK'
  <2>1. step' \in StepType
    BY <1>1, GotoIs, IdleIs, LabelNames DEF IInv
  <2>2. faults' \in 0..MaxFaults
    BY <1>1, FaultsCount DEF IInv
  <2>. QED  BY <1>1, <1>2, <1>3, <2>1, <2>2 DEF IInv, TypeOK, StepType
<1>5. Ledger' /\ Desk'
  BY <1>2, <1>3, SameLedger, SameDesk DEF IInv
<1>6. CASE stopped = InterruptedRows /\ step' = Goto("reset") /\ UNCHANGED <<status, offered>>
  <2>1. /\ step' \in StepType
        /\ step'.pc = "reset" /\ step'.bead = step.bead /\ step'.session = step.session
    BY <1>6, GotoIs, LabelNames DEF IInv
  <2>2. working' = {}
    <3>1. ASSUME NEW s \in working
          PROVE  s \in InterruptedRows
      <4>1. s.bead \in Unfinished
        BY DEF IInv, Desk
      <4>2. s.bead = step.bead
        BY <1>2, <4>1, StartedIs
      <4>3. s.iteration = beads[s.bead].iteration
        BY <1>2, InHandler DEF HandlerLabels, Labels, RetryLabels
      <4>. QED  BY <1>2, <4>2, <4>3 DEF InterruptedRows
    <3>. QED  BY <1>1, <1>6, <3>1
  <2>3. Routes'
    BY <1>1, <1>2, <1>3, <1>6, <2>1, <2>2, SameTracker
    DEF IInv, Routes, HandlerLabels, RetryLabels, Labels
  <2>4. Place'
    BY <1>1, <1>2, <1>6, <2>1, <2>2, SameTracker
    DEF IInv, Place, QuietLabels, HandlerLabels, RetryLabels, Labels
  <2>. QED  BY <1>4, <1>5, <2>1, <2>3, <2>4 DEF IInv
<1>7. CASE step' = Idle /\ status' = "BLOCKED" /\ offered' = None
  <2>1. step' \in StepType /\ step'.pc = "idle"
    BY <1>7, IdleIs
  <2>3. Routes'
    BY <1>1, <1>2, <1>3, <1>7, <2>1, SameTracker
    DEF IInv, Routes, HandlerLabels, RetryLabels, Labels
  <2>4. Place'
    BY <2>1 DEF Place, QuietLabels, HandlerLabels, RetryLabels, Labels
  <2>. QED  BY <1>4, <1>5, <2>1, <2>3, <2>4 DEF IInv
<1>. QED  BY <1>1, <1>6, <1>7

\* git reset goes to the commit the bead started from, which is still HEAD:
\* nothing was accepted since.
LEMMA ResetKeeps ==
  ASSUME IInv, ResetInterrupted \/ ResetWipe \/ RetryReset
  PROVE  IInv' /\ head' = head
<1>. USE DEF ResetInterrupted, ResetWipe, RetryReset, ResetTo,
             remote, tracker, git, blocking, NoFault
<1>1. /\ UNCHANGED <<beads, recent, artifact, tree, rows, working, status, offered, continuation>>
      /\ UNCHANGED <<faults, crashes>>
      /\ head' = beads[step.bead].start
      /\ step.bead \in Started /\ Current = {} /\ working = {}
      /\ \/ step.pc = "reset" /\ step' = Goto("clean")
         \/ step.pc = "wipe" /\ step' = Goto("wipe clean")
         \/ step.pc = "retry reset" /\ step' = Goto("retry clean")
  BY DEF IInv, Desk, Place, QuietLabels, HandlerLabels, Labels, RetryLabels
<1>2. head' = head
  BY <1>1, StartedIs, HeadIsDone DEF IInv
<1>3. /\ step' \in StepType /\ step'.bead = step.bead /\ step'.session = step.session
      /\ \/ step.pc = "reset" /\ step'.pc = "clean"
         \/ step.pc = "wipe" /\ step'.pc = "wipe clean"
         \/ step.pc = "retry reset" /\ step'.pc = "retry clean"
  BY <1>1, GotoIs, LabelNames DEF IInv
<1>4. TypeOK'
  BY <1>1, <1>2, <1>3 DEF IInv, TypeOK, StepType
<1>5. Ledger' /\ Desk'
  BY <1>1, <1>2, SameLedger, SameDesk DEF IInv
<1>6. Routes'
  BY <1>1, <1>3, SameTracker DEF IInv, Routes, HandlerLabels, RetryLabels, Labels
<1>7. Place'
  BY <1>1, <1>3, SameTracker DEF IInv, Place, QuietLabels, HandlerLabels, RetryLabels, Labels
<1>. QED  BY <1>2, <1>3, <1>4, <1>5, <1>6, <1>7 DEF IInv

LEMMA CleanKeeps ==
  ASSUME IInv, CleanInterrupted \/ CleanWipe \/ RetryClean
  PROVE  IInv'
<1>. USE DEF CleanInterrupted, CleanWipe, RetryClean, CleanTree,
             remote, tracker, git, blocking, NoFault
<1>1. /\ UNCHANGED <<beads, recent, artifact, head, rows, working, status, offered, continuation>>
      /\ UNCHANGED <<faults, crashes>>
      /\ tree' = {}
      /\ step.bead \in Started /\ Current = {} /\ working = {}
      /\ \/ step.pc = "clean" /\ step' = Goto("recover")
         \/ step.pc = "wipe clean" /\ step' = Goto("wiped")
         \/ step.pc = "retry clean" /\ step' = Goto("retry write")
  BY DEF IInv, Desk, Place, QuietLabels, HandlerLabels, Labels, RetryLabels
<1>2. /\ step.bead \in Beads /\ Started = {step.bead} /\ step.bead \notin Done
  BY <1>1, StartedIs, StatusSets DEF IInv
<1>3. /\ step' \in StepType /\ step'.bead = step.bead /\ step'.session = step.session
      /\ \/ step.pc = "clean" /\ step'.pc = "recover"
         \/ step.pc = "wipe clean" /\ step'.pc = "wiped"
         \/ step.pc = "retry clean" /\ step'.pc = "retry write"
  BY <1>1, GotoIs, LabelNames DEF IInv
<1>4. TypeOK'
  BY <1>1, <1>3 DEF IInv, TypeOK, StepType
<1>5. Ledger' /\ Desk'
  BY <1>1, SameLedger, SameDesk DEF IInv
<1>6. Routes'
  BY <1>1, <1>3, SameTracker DEF IInv, Routes, HandlerLabels, RetryLabels, Labels
<1>7. Place'
  BY <1>1, <1>2, <1>3, SameTracker
  DEF IInv, Place, QuietLabels, HandlerLabels, RetryLabels, Labels
<1>. QED  BY <1>3, <1>4, <1>5, <1>6, <1>7 DEF IInv

\* A session writes for the bead that is begun, in its present try; nobody is
\* at work where the worktree has to be clean.
LEMMA WriteKeeps ==
  ASSUME IInv, NEW s \in working, Write(s)
  PROVE  IInv'
<1>. USE DEF Write, remote, tracker, git, blocking, NoFault
<1>1. /\ UNCHANGED <<beads, recent, artifact, head, rows, working, status, offered, continuation>>
      /\ UNCHANGED <<step, faults, crashes>>
      /\ tree' = tree \cup {Piece(s)}
  OBVIOUS
<1>2. s.bead \in Unfinished /\ s.bead \in Beads /\ Piece(s) = Work(s.bead)
  BY StatusSets DEF IInv, Desk, Piece, Work
<1>3. Piece(s) \in Pieces
  BY <1>2, SessionOf DEF IInv
<1>4. TypeOK'
  BY <1>1, <1>3 DEF IInv, TypeOK
<1>5. Ledger'
  BY <1>1, SameLedger DEF IInv
<1>6. Desk'
  BY <1>1, <1>2, SameTracker DEF IInv, Desk
<1>7. Routes'
  BY <1>1, SameTracker DEF IInv, Routes
<1>8. Place'
  <2>1. step.pc \notin {"recover", "wiped", "abandon", "exhausted", "retry write", "record"}
    BY DEF IInv, Place, QuietLabels, HandlerLabels, RetryLabels, Labels
  <2>2. /\ Done' = Done /\ Unfinished' = Unfinished /\ Started' = Started
        /\ Current' = Current /\ Session(step.bead)' = Session(step.bead)
    <3>1. \A b : Session(b)' = Session(b)
      BY <1>1, SameTracker
    <3>. QED  BY <1>1, <3>1, SameTracker
  <2>3. /\ step' = step /\ beads' = beads /\ rows' = rows /\ working' = working
        /\ Place
    BY <1>1 DEF IInv
  <2>. QED  BY ZenonT(60), <2>1, <2>2, <2>3 DEF Place
<1>. QED  BY <1>1, <1>4, <1>5, <1>6, <1>7, <1>8 DEF IInv

\* A crash forgets the continuation.
LEMMA CrashKeeps ==
  ASSUME IInv, Crash
  PROVE  IInv'
<1>. USE DEF Crash, remote, tracker, git, blocking, NoFault
<1>1. /\ UNCHANGED <<beads, recent, artifact, head, tree, rows, working, status, offered, faults>>
      /\ continuation' = None /\ crashes' = crashes + 1
      /\ working \subseteq rows
  BY DEF IInv, Desk
<1>2. step' \in StepType /\ step'.pc = "down"
  BY AtIs, LabelNames
<1>3. crashes' \in 0..MaxCrashes
  BY <1>1, CrashesCount DEF IInv
<1>4. TypeOK'
  BY <1>1, <1>2, <1>3 DEF IInv, TypeOK, StepType
<1>5. Ledger' /\ Desk'
  BY <1>1, SameLedger, SameDesk DEF IInv
<1>6. Routes'
  BY <1>1, <1>2, SameTracker DEF IInv, Routes, HandlerLabels, RetryLabels, Labels
<1>7. Place'
  BY <1>2 DEF Place, QuietLabels, HandlerLabels, RetryLabels, Labels
<1>. QED  BY <1>2, <1>4, <1>5, <1>6, <1>7 DEF IInv

LEMMA BootKeeps ==
  ASSUME IInv, Boot
  PROVE  IInv'
<1>. USE DEF Boot, remote, tracker, git, blocking
<1>1. /\ UNCHANGED <<beads, recent, artifact, head, tree, status, offered, continuation, crashes>>
      /\ step.pc = "down"
      /\ \E missing : rows' = rows \ missing /\ working' = working \ missing
      /\ Fault \/ NoFault
  OBVIOUS
<1>2. rows' \subseteq rows /\ working' \subseteq working /\ working' \subseteq rows'
  BY <1>1 DEF IInv, Desk
<1>3. /\ step' \in StepType
      /\ \/ status = "CODING" /\ step'.pc = "start"
         \/ status # "CODING" /\ step'.pc = "idle"
  BY AtIs, IdleIs, LabelNames
<1>4. TypeOK'
  BY <1>1, <1>2, <1>3, FaultsCount DEF IInv, TypeOK, StepType
<1>5. Ledger' /\ Desk'
  BY <1>1, <1>2, SameLedger, SameDesk DEF IInv
<1>6. Routes'
  BY <1>1, <1>2, <1>3, SameTracker DEF IInv, Routes, HandlerLabels, RetryLabels, Labels
<1>7. Place'
  BY <1>3 DEF Place, QuietLabels, HandlerLabels, RetryLabels, Labels
<1>. QED  BY <1>3, <1>4, <1>5, <1>6, <1>7 DEF IInv

\* The handler goes on with the bead that was interrupted: by continuing its
\* session, from its checkpoint, or by stopping what is left of it; there is
\* none to go on with only if no bead was begun, unless one is passed over.
LEMMA StartKeeps ==
  ASSUME IInv, Start, ~PassesOver
  PROVE  IInv'
<1>. USE DEF remote, tracker, git, blocking, NoFault
<1>1. /\ UNCHANGED <<beads, recent, artifact, head, tree, rows, working, offered, continuation>>
      /\ UNCHANGED <<faults, crashes>>
      /\ step.pc = "start" /\ working \subseteq rows
  BY DEF Start, IInv, Desk
<1>2. /\ status = "CODING" /\ offered = None
      /\ WithStatus("error") = {} =>
           \A s \in working : s.iteration = beads[s.bead].iteration
      /\ continuation # None => working = {} /\ Current = {}
  BY <1>1, InHandler DEF IInv, Routes, HandlerLabels, Labels, RetryLabels
<1>3. Ledger' /\ Desk'
  BY <1>1, SameLedger, SameDesk DEF IInv
<1>4. CASE WithStatus("in_progress") = {} \/ AllDone
  <2>1. /\ step' \in StepType
        /\ \/ step'.pc = "idle" /\ status' = "TESTING"
           \/ /\ step'.pc = "select" /\ status' = status
              /\ WithStatus("in_progress") = {} /\ WithStatus("error") = {}
    BY <1>1, <1>4, AtIs, IdleIs, LabelNames DEF Start, PassesOver
  <2>2. TypeOK'
    BY <1>1, <2>1 DEF IInv, TypeOK, StepType
  <2>3. Routes'
    BY <1>1, <1>2, <2>1, SameTracker DEF IInv, Routes, HandlerLabels, RetryLabels, Labels
  <2>4. step'.pc = "select" => working = {} /\ Unfinished = {}
    BY <2>1 DEF IInv, Desk, Unfinished
  <2>5. Place'
    BY <1>1, <2>1, <2>4, SameTracker
    DEF IInv, Place, QuietLabels, HandlerLabels, RetryLabels, Labels
  <2>. QED  BY <1>3, <2>1, <2>2, <2>3, <2>5 DEF IInv
<1>5. CASE WithStatus("in_progress") # {} /\ ~AllDone
  <2>1. /\ Interrupted \in WithStatus("in_progress") /\ Unfinished = {Interrupted}
        /\ Interrupted \in Started /\ Interrupted \in Beads
        /\ beads[Interrupted].status = "in_progress" /\ WithStatus("error") = {}
    <3>1. Unfinished \subseteq Started /\ \A b, c \in Unfinished : b = c
      BY StatusSets DEF IInv, Ledger
    <3>2. /\ WithStatus("in_progress") = Unfinished /\ WithStatus("error") = {}
          /\ \A b, c \in WithStatus("in_progress") : b = c
      BY <1>5, <3>1, StatusSets DEF IInv, Unfinished
    <3>3. /\ Interrupted \in WithStatus("in_progress")
          /\ WithStatus("in_progress") = {Interrupted}
      BY <1>5, <3>2, LatestIs DEF Interrupted
    <3>. QED  BY <3>1, <3>2, <3>3 DEF WithStatus
  <2>2. beads[Interrupted].iteration \in Nat
    BY <2>1 DEF IInv, TypeOK
  <2>3. /\ step' \in StepType /\ step'.bead = Interrupted /\ step'.session = None
        /\ \/ step'.pc = "open" /\ continuation # None
           \/ step'.pc = "commit" /\ artifact[Interrupted].current /\ continuation = None
           \/ step'.pc = "stop" /\ ~artifact[Interrupted].current /\ continuation = None
    BY <1>5, <2>1, <2>2, AtIs, LabelNames DEF Start
  <2>4. status' = status
    BY <1>5 DEF Start
  <2>5. /\ Current \subseteq {Interrupted}
        /\ artifact[Interrupted].current => Interrupted \in Current /\ working = {}
        /\ ~artifact[Interrupted].current => Current = {}
    BY <2>1 DEF IInv, Ledger, Desk, Current
  <2>6. TypeOK'
    BY <1>1, <2>3, <2>4 DEF IInv, TypeOK, StepType
  <2>7. Routes'
    BY <1>1, <1>2, <2>1, <2>3, <2>4, SameTracker
    DEF IInv, Routes, HandlerLabels, RetryLabels, Labels
  <2>8. Place'
    BY <1>1, <1>2, <2>1, <2>3, <2>5, SameTracker
    DEF Place, QuietLabels, HandlerLabels, RetryLabels, Labels
  <2>. QED  BY <1>3, <2>3, <2>6, <2>7, <2>8 DEF IInv
<1>. QED  BY <1>4, <1>5

LEMMA RetryKeeps ==
  ASSUME IInv, Retry
  PROVE  IInv'
<1>. USE DEF remote, tracker, git, blocking
<1>1. PICK stopped \in SUBSET rows :
        /\ rows' = rows \ stopped /\ working' = working \ stopped
        /\ continuation' = (IF continuation \in stopped THEN None ELSE continuation)
        /\ \/ stopped = rows /\ NoFault /\ step' = At("retry", None)
           \/ stopped # rows /\ Fault /\ step' = Idle
  BY DEF Retry, Forget
<1>2. /\ UNCHANGED <<beads, recent, artifact, head, tree, status, offered, crashes>>
      /\ step.pc = "idle" /\ status = "BLOCKED" /\ working \subseteq rows
      /\ continuation # None => continuation \in rows
  BY DEF Retry, IInv, Desk, Routes
<1>3. /\ rows' \subseteq rows /\ working' \subseteq working /\ working' \subseteq rows'
  BY <1>1, <1>2
<1>4. /\ step' \in StepType
      /\ \/ step'.pc = "retry" /\ continuation' = None /\ working' = {}
         \/ step'.pc = "idle"
  BY <1>1, <1>2, AtIs, IdleIs, LabelNames
<1>5. TypeOK'
  BY <1>1, <1>2, <1>3, <1>4, FaultsCount DEF IInv, TypeOK, StepType
<1>6. Ledger' /\ Desk'
  BY <1>2, <1>3, SameLedger, SameDesk DEF IInv
<1>7. Routes'
  BY <1>1, <1>2, <1>3, <1>4, SameTracker
  DEF IInv, Routes, HandlerLabels, RetryLabels, Labels
<1>8. Place'
  BY <1>4 DEF Place, QuietLabels, HandlerLabels, RetryLabels, Labels
<1>. QED  BY <1>4, <1>5, <1>6, <1>7, <1>8 DEF IInv

LEMMA RetryRefusedKeeps ==
  ASSUME IInv, RetryRefused
  PROVE  IInv'
<1>. USE DEF RetryRefused, remote, tracker, git, blocking
<1>1. /\ UNCHANGED <<beads, recent, artifact, head, tree, rows, working>>
      /\ UNCHANGED <<status, offered, continuation, crashes>>
      /\ step.pc \in RetryLabels /\ working \subseteq rows
      /\ Fault \/ NoFault
  BY DEF IInv, Desk, RetryLabels
<1>2. step' \in StepType /\ step'.pc = "idle"
  BY IdleIs
<1>3. TypeOK'
  BY <1>1, <1>2, FaultsCount DEF IInv, TypeOK, StepType
<1>4. Ledger' /\ Desk'
  BY <1>1, SameLedger, SameDesk DEF IInv
<1>5. Routes'
  BY <1>1, <1>2, SameTracker DEF IInv, Routes, HandlerLabels, RetryLabels, Labels
<1>6. Place'
  BY <1>2 DEF Place, QuietLabels, HandlerLabels, RetryLabels, Labels
<1>. QED  BY <1>2, <1>3, <1>4, <1>5, <1>6 DEF IInv

\* A bead that is ready to run and was started is the one that is selected.
LEMMA NextIsStarted ==
  ASSUME IInv, Unfinished = {}, Runnable # {}
  PROVE  NextBead \in Beads /\ NextBead \notin Done /\ Started \subseteq {NextBead}
<1>1. NextBead \in Runnable /\ \A c \in Runnable : NextBead <= c
  BY NextBeadIs
<1>2. NextBead \in Beads /\ NextBead \notin Done
  BY <1>1, StatusSets DEF IInv
<1>3. ASSUME NEW b \in Started
      PROVE  b = NextBead
  <2>1. b \in Runnable
    BY StartedIs, StatusSets DEF IInv
  <2>2. b <= NextBead /\ NextBead <= b
    BY <1>1, <2>1, StartedIs
  <2>3. b \in Nat /\ NextBead \in Nat
    BY <1>2, <2>1, StatusSets, Names DEF IInv
  <2>. QED  BY <2>2, <2>3
<1>. QED  BY <1>2, <1>3

LEMMA RetryRecoveryKeeps ==
  ASSUME IInv, RetryRecovery
  PROVE  IInv'
<1>. USE DEF remote, tracker, git, blocking, NoFault
<1>1. /\ UNCHANGED <<beads, recent, artifact, head, tree, rows, working>>
      /\ UNCHANGED <<status, offered, continuation, faults, crashes>>
      /\ step.pc = "retry" /\ working = {}
      /\ Checkpointed = {} /\ Unfinished \cup Runnable # {}
  BY DEF RetryRecovery, IInv, Place, QuietLabels, HandlerLabels, Labels, RetryLabels
<1>2. Current = {}
  BY <1>1 DEF Checkpointed, Unfinished, IInv, Ledger, Current
<1>3. /\ RetryCandidate \in Beads /\ RetryCandidate \notin Done
      /\ Started \subseteq {RetryCandidate}
      /\ beads[RetryCandidate].based => RetryCandidate \in Started
      /\ ~beads[RetryCandidate].based => Unfinished = {}
  <2>1. CASE Unfinished # {}
    <3>1. Unfinished \subseteq Started /\ \A b, c \in Unfinished : b = c
      BY StatusSets DEF IInv, Ledger
    <3>2. RetryCandidate \in Unfinished
      BY <2>1, <3>1, LatestIs DEF RetryCandidate
    <3>. QED  BY <3>1, <3>2, StartedIs, StatusSets DEF IInv
  <2>2. CASE Unfinished = {}
    <3>1. RetryCandidate = NextBead /\ Runnable # {}
      BY <1>1, <2>2 DEF RetryCandidate
    <3>2. NextBead \in Runnable
      BY <3>1, NextBeadIs
    <3>. QED  BY <2>2, <3>1, <3>2, NextIsStarted, StatusSets DEF IInv
  <2>. QED  BY <2>1, <2>2
<1>4. /\ step' \in StepType /\ step'.bead = RetryCandidate
      /\ \/ step'.pc = "retry reset" /\ beads[RetryCandidate].based
         \/ step'.pc = "retry write" /\ ~beads[RetryCandidate].based
  BY <1>3, AtIs, LabelNames DEF RetryRecovery
<1>5. TypeOK'
  BY <1>1, <1>4 DEF IInv, TypeOK, StepType
<1>6. Ledger' /\ Desk'
  BY <1>1, SameLedger, SameDesk DEF IInv
<1>7. Routes'
  BY <1>1, <1>4, SameTracker DEF IInv, Routes, HandlerLabels, RetryLabels, Labels
<1>8. Unfinished = {} => tree = {}
  BY DEF IInv, Desk
<1>9. Place'
  BY <1>1, <1>2, <1>3, <1>4, <1>8, SameTracker
  DEF Place, QuietLabels, HandlerLabels, RetryLabels, Labels
<1>. QED  BY <1>4, <1>5, <1>6, <1>7, <1>9 DEF IInv

\* Nobody is at work when the ticket is told to go on with the bead.
LEMMA RetryDispatchKeeps ==
  ASSUME IInv, RetryDispatch
  PROVE  IInv'
<1>. USE DEF RetryDispatch, remote, tracker, git, blocking, NoFault
<1>1. /\ UNCHANGED <<beads, recent, artifact, head, tree, rows, working, continuation>>
      /\ UNCHANGED <<faults, crashes>>
      /\ step.pc = "retry dispatch" /\ working = {} /\ continuation = None
      /\ status' = "CODING" /\ offered' = None
  BY DEF IInv, Place, Routes, QuietLabels, HandlerLabels, Labels, RetryLabels
<1>2. step' \in StepType /\ step'.pc = "start"
  BY AtIs, LabelNames
<1>3. TypeOK'
  BY <1>1, <1>2 DEF IInv, TypeOK, StepType
<1>4. Ledger' /\ Desk'
  BY <1>1, SameLedger, SameDesk DEF IInv
<1>5. Routes'
  BY <1>1, <1>2 DEF Routes, HandlerLabels, RetryLabels, Labels
<1>6. Place'
  BY <1>2 DEF Place, QuietLabels, HandlerLabels, RetryLabels, Labels
<1>. QED  BY <1>2, <1>3, <1>4, <1>5, <1>6 DEF IInv

LEMMA ContinueKeeps ==
  ASSUME IInv, Continue
  PROVE  IInv'
<1>. USE DEF Continue, remote, tracker, git, blocking, NoFault
<1>1. /\ UNCHANGED <<beads, recent, artifact, head, tree, rows, faults, crashes>>
      /\ step.pc = "idle" /\ offered \in rows
      /\ working' = working \ {offered} /\ continuation' = offered
      /\ status' = "CODING" /\ offered' = None /\ working \subseteq rows
  BY DEF IInv, Desk
<1>2. offered # None
  BY <1>1, Names DEF IInv, TypeOK
<1>3. working' = {} /\ Current = {}
  BY <1>1, <1>2 DEF IInv, Routes
<1>4. step' \in StepType /\ step'.pc = "start"
  BY AtIs, LabelNames
<1>5. TypeOK'
  BY <1>1, <1>4 DEF IInv, TypeOK, StepType
<1>6. Ledger' /\ Desk'
  BY <1>1, SameLedger, SameDesk DEF IInv
<1>7. Routes'
  BY <1>1, <1>3, <1>4, SameTracker DEF Routes, HandlerLabels, RetryLabels, Labels
<1>8. Place'
  BY <1>4 DEF Place, QuietLabels, HandlerLabels, RetryLabels, Labels
<1>. QED  BY <1>4, <1>5, <1>6, <1>7, <1>8 DEF IInv

\* Types after a step that writes the tracker.
LEMMA TypesFrom ==
  ASSUME TypeOK, step' \in StepType, Fault \/ NoFault, crashes' = crashes,
         beads' \in [Beads -> BeadType], recent' \subseteq Beads \X Beads,
         artifact' \in [Beads -> [work : SUBSET Pieces, current : BOOLEAN]],
         head' \subseteq Pieces, tree' \subseteq Pieces,
         rows' \subseteq Sessions, working' \subseteq Sessions,
         status' \in {"CODING", "BLOCKED", "TESTING"},
         offered' \in Sessions \cup {None}, continuation' \in Sessions \cup {None}
  PROVE  TypeOK'
<1>1. faults' \in 0..MaxFaults
  BY FaultsCount
<1>2. crashes' \in 0..MaxCrashes
  BY DEF TypeOK
<1>3. /\ step'.bead \in Beads \cup {None} /\ step'.from \in Nat
      /\ step'.session \in Sessions \cup {None}
  BY DEF StepType
<1>. QED  BY <1>1, <1>2, <1>3 DEF TypeOK, BeadType

\* The parts of the type invariant, for the steps that keep them.
LEMMA TypesOf ==
  ASSUME TypeOK
  PROVE  /\ beads \in [Beads -> BeadType] /\ recent \subseteq Beads \X Beads
         /\ artifact \in [Beads -> [work : SUBSET Pieces, current : BOOLEAN]]
         /\ head \subseteq Pieces /\ tree \subseteq Pieces
         /\ rows \subseteq Sessions /\ working \subseteq Sessions
         /\ status \in {"CODING", "BLOCKED", "TESTING"}
         /\ offered \in Sessions \cup {None} /\ continuation \in Sessions \cup {None}
BY DEF TypeOK, BeadType

-----------------------------------------------------------------------------
(* Steps that finalize an accepted result.                                 *)

\* The begun bead turns from in progress to an error or back; its updatedAt
\* and with it the checkpoint stay.
LEMMA StatusTurns ==
  ASSUME TypeOK, Ledger, Desk, UNCHANGED <<artifact, head, tree, rows, working>>,
         NEW b \in Unfinished, NEW st \in {"error", "in_progress"},
         beads' = [beads EXCEPT ![b].status = st]
  PROVE  /\ beads' \in [Beads -> BeadType] /\ beads'[b].status = st
         /\ \A c \in Beads : /\ beads'[c].iteration = beads[c].iteration
                             /\ beads'[c].tries = beads[c].tries
         /\ Ledger' /\ Desk'
         /\ Done' = Done /\ Started' = Started /\ Unfinished' = Unfinished
         /\ Current' = Current
         /\ st = "in_progress" => WithStatus("error")' = {}
<1>1. b \in Beads /\ Unfinished = {b} /\ Unfinished \subseteq Started
      /\ beads[b].status \in {"error", "in_progress"}
  BY StatusSets DEF Ledger
<1>2. beads \in [Beads -> BeadType]
  BY DEF TypeOK, BeadType
<1>3. beads' = [beads EXCEPT ![b] = [beads[b] EXCEPT !.status = st]]
  BY <1>1, <1>2
<1>4. LET r == [beads[b] EXCEPT !.status = st] IN
        /\ r \in BeadType /\ r.status = st /\ r.based = beads[b].based
        /\ r.start = beads[b].start /\ r.iteration = beads[b].iteration
        /\ r.tries = beads[b].tries
  BY <1>1, <1>2 DEF BeadType
<1>5. /\ beads' \in [Beads -> BeadType] /\ beads'[b].status = st
      /\ \A c \in Beads : /\ beads'[c].iteration = beads[c].iteration
                          /\ beads'[c].tries = beads[c].tries
                          /\ beads'[c].based = beads[c].based
                          /\ beads'[c].start = beads[c].start
      /\ \A c \in Beads \ {b} : beads'[c].status = beads[c].status
  BY <1>1, <1>2, <1>3, <1>4
<1>6. Done' = Done /\ Started' = Started /\ Unfinished' = Unfinished
  BY <1>1, <1>5 DEF Done, Started, Unfinished, WithStatus
<1>7. Current' = Current /\ DoneWork' = DoneWork
  BY <1>6 DEF Current, DoneWork
<1>8. Runnable' = Runnable
  <2>1. WithStatus("pending")' = WithStatus("pending")
    BY <1>1, <1>5 DEF WithStatus
  <2>. QED  BY <1>6, <2>1 DEF Runnable, Done
<1>9. st = "in_progress" => WithStatus("error")' = {}
  BY <1>1, <1>5, StatusSets DEF WithStatus
<1>10. Ledger'
  <2>1. \A c \in Started : beads'[c].based = beads[c].based /\ beads'[c].start = beads[c].start
    BY <1>5 DEF Started, Unfinished, WithStatus
  <2>. QED  BY <1>6, <1>7, <1>8, <2>1 DEF Ledger
<1>11. Desk'
  <2>1. \A c \in Beads : Work(c)' = Work(c)
    BY <1>5 DEF Work
  <2>2. Current \subseteq Beads /\ Unfinished \subseteq Beads
    BY <1>1 DEF Current
  <2>. QED  BY <1>5, <1>6, <1>7, <2>1, <2>2 DEF Desk
<1>. QED  BY <1>5, <1>6, <1>7, <1>9, <1>10, <1>11

LEMMA CommitFailsKeeps ==
  ASSUME IInv, CommitFails
  PROVE  IInv' /\ Done' = Done
<1>. USE DEF CommitFails, remote, tracker, git, blocking
<1>1. /\ UNCHANGED <<recent, artifact, head, tree, rows, working, status, offered, continuation>>
      /\ crashes' = crashes /\ Fault
      /\ step.pc = "commit" /\ step.bead \in Started /\ working = {} /\ step.session = None
      /\ beads[step.bead].status = "in_progress"
      /\ beads' = [beads EXCEPT ![step.bead].status = "error"]
  BY DEF IInv, Place, QuietLabels, HandlerLabels, Labels, RetryLabels
<1>2. step.bead \in Unfinished
  BY <1>1, StatusSets DEF IInv
<1>3. /\ step' \in StepType
      /\ step'.pc = "failure recorded" /\ step'.bead = step.bead /\ step'.session = None
  BY <1>1, GotoIs, LabelNames DEF IInv
<1>4. /\ beads' \in [Beads -> BeadType] /\ Ledger' /\ Desk'
      /\ Started' = Started /\ Current' = Current /\ Done' = Done
  BY <1>1, <1>2, StatusTurns DEF IInv
<1>5. TypeOK'
  BY <1>1, <1>3, <1>4, TypesOf, TypesFrom DEF IInv
<1>6. Routes'
  BY <1>1, <1>3 DEF IInv, Routes, HandlerLabels, RetryLabels, Labels
<1>7. Place'
  BY <1>1, <1>3, <1>4 DEF Place, QuietLabels, HandlerLabels, RetryLabels, Labels
<1>. QED  BY <1>3, <1>4, <1>5, <1>6, <1>7 DEF IInv

LEMMA RetryFinalizationKeeps ==
  ASSUME IInv, RetryFinalization
  PROVE  IInv' /\ Done' = Done
<1>. USE DEF RetryFinalization, remote, tracker, git, blocking
<1>1. /\ UNCHANGED <<recent, artifact, head, tree, rows, working, crashes>>
      /\ UNCHANGED <<status, offered, continuation>>
      /\ NoFault
      /\ step.pc = "retry" /\ working = {} /\ Checkpointed # {} /\ continuation = None
      /\ status = "BLOCKED" /\ Current # {} /\ offered = None
      /\ beads' = [beads EXCEPT ![Latest(Checkpointed)].status = "in_progress"]
  <2>1. /\ Current # {} => offered = None
        /\ step.pc = "retry" => working = {} /\ status = "BLOCKED" /\ continuation = None
    BY DEF IInv, Place, Routes, QuietLabels, HandlerLabels, Labels, RetryLabels
  <2>2. Checkpointed \subseteq Current
    BY DEF Checkpointed, Current, WithStatus
  <2>. QED  BY <2>1, <2>2
<1>2. Latest(Checkpointed) \in Unfinished
  <2>1. Checkpointed \subseteq Unfinished
    BY DEF Checkpointed, Unfinished
  <2>2. \A b, c \in Unfinished : b = c
    BY StatusSets DEF IInv, Ledger
  <2>3. Checkpointed # {} /\ \A b, c \in Checkpointed : b = c
    BY <1>1, <2>1, <2>2
  <2>4. Latest(Checkpointed) \in Checkpointed
    BY <2>3, LatestIs
  <2>. QED  BY <2>1, <2>4
<1>3. step' \in StepType /\ step'.pc = "retry dispatch"
  BY AtIs, LabelNames
<1>4. /\ beads' \in [Beads -> BeadType] /\ Ledger' /\ Desk'
      /\ WithStatus("error")' = {} /\ Done' = Done
  BY <1>1, <1>2, StatusTurns DEF IInv
<1>5. TypeOK'
  BY <1>1, <1>3, <1>4, TypesOf, TypesFrom DEF IInv
<1>6. Routes'
  BY <1>1, <1>3, <1>4 DEF Routes, HandlerLabels, RetryLabels, Labels
<1>7. Place'
  BY <1>1, <1>3 DEF Place, QuietLabels, HandlerLabels, RetryLabels, Labels
<1>. QED  BY <1>3, <1>4, <1>5, <1>6, <1>7 DEF IInv

\* The checkpoint holds all the worktree holds: it is of the present try.
LEMMA CheckpointKeeps ==
  ASSUME IInv, Checkpoint
  PROVE  IInv'
<1>. USE DEF Checkpoint, remote, tracker, git, blocking, NoFault
<1>1. /\ UNCHANGED <<beads, recent, head, tree, rows, working, status, offered, continuation>>
      /\ UNCHANGED <<faults, crashes>>
      /\ step.pc = "checkpoint" /\ step.bead \in Started /\ working = {} /\ Current = {}
      /\ step.session = None /\ beads[step.bead].status = "in_progress"
      /\ artifact' = [artifact EXCEPT ![step.bead] =
                        [work |-> tree \cap {Work(step.bead)}, current |-> TRUE]]
  BY DEF IInv, Place, QuietLabels, HandlerLabels, Labels, RetryLabels
<1>2. /\ step.bead \in Beads /\ step.bead \in Unfinished /\ Unfinished = {step.bead}
      /\ step.bead \notin Done
  BY <1>1, StartedIs, StatusSets DEF IInv
<1>3. /\ step' \in StepType
      /\ step'.pc = "commit" /\ step'.bead = step.bead /\ step'.session = None
  BY <1>1, GotoIs, LabelNames DEF IInv
<1>4. tree \cap {Work(step.bead)} = tree
  BY <1>2 DEF IInv, Desk
<1>5. /\ artifact' \in [Beads -> [work : SUBSET Pieces, current : BOOLEAN]]
      /\ artifact'[step.bead] = [work |-> tree, current |-> TRUE]
      /\ \A c \in Beads \ {step.bead} : artifact'[c] = artifact[c]
  <2>1. [work |-> tree, current |-> TRUE] \in [work : SUBSET Pieces, current : BOOLEAN]
    BY DEF IInv, TypeOK
  <2>2. artifact \in [Beads -> [work : SUBSET Pieces, current : BOOLEAN]]
    BY DEF IInv, TypeOK
  <2>. QED  BY <1>1, <1>2, <1>4, <2>1, <2>2
<1>6. Current' = {step.bead}
  BY <1>1, <1>2, <1>5 DEF Current
<1>7. /\ Done' = Done /\ Started' = Started /\ Unfinished' = Unfinished /\ Runnable' = Runnable
      /\ \A c : Work(c)' = Work(c)
      /\ WithStatus("error")' = WithStatus("error")
  BY <1>1 DEF Done, Started, Unfinished, Runnable, WithStatus, Work
<1>8. DoneWork' = DoneWork
  <2>1. \A c \in Done : artifact'[c].work = artifact[c].work
    BY <1>2, <1>5, StatusSets DEF IInv
  <2>2. {artifact'[c].work : c \in Done} = {artifact[c].work : c \in Done}
    BY <2>1
  <2>. QED  BY <1>7, <2>2 DEF DoneWork
<1>9. Ledger'
  <2>1. \A c \in Beads : \A w \in artifact'[c].work : w[1] = c
    <3>1. \A w \in tree : w = Work(step.bead)
      BY <1>4
    <3>. QED  BY <1>2, <1>5, <3>1, SessionOf DEF IInv, Ledger
  <2>2. head' = DoneWork
    BY <1>1, HeadIsDone DEF IInv
  <2>. QED  BY <1>1, <1>2, <1>6, <1>7, <1>8, <2>1, <2>2 DEF IInv, Ledger
<1>10. Desk'
  BY <1>1, <1>2, <1>4, <1>5, <1>6, <1>7 DEF IInv, Desk
<1>11. TypeOK'
  BY <1>1, <1>3, <1>5 DEF IInv, TypeOK, StepType
<1>12. Routes'
  BY <1>1, <1>3, <1>7 DEF IInv, Routes, HandlerLabels, RetryLabels, Labels
<1>13. Place'
  BY <1>1, <1>3, <1>6, <1>7 DEF Place, QuietLabels, HandlerLabels, RetryLabels, Labels
<1>. QED  BY <1>3, <1>9, <1>10, <1>11, <1>12, <1>13 DEF IInv

LEMMA CommitKeeps ==
  ASSUME IInv, Commit
  PROVE  IInv'
<1>. USE DEF Commit, remote, tracker, git, blocking, NoFault
<1>1. /\ UNCHANGED <<beads, recent, artifact, rows, working, status, offered, continuation>>
      /\ UNCHANGED <<faults, crashes>>
      /\ head' = head \cup tree /\ tree' = {}
      /\ step.pc = "commit" /\ step.bead \in Started /\ step.bead \in Current /\ working = {}
      /\ step.session = None /\ beads[step.bead].status = "in_progress"
  BY DEF IInv, Place, QuietLabels, HandlerLabels, Labels, RetryLabels
<1>2. /\ step' \in StepType
      /\ step'.pc = "record" /\ step'.bead = step.bead /\ step'.session = None
  BY <1>1, GotoIs, LabelNames DEF IInv
<1>3. TypeOK'
  BY <1>1, <1>2 DEF IInv, TypeOK, StepType
<1>4. tree \subseteq artifact[step.bead].work
  BY <1>1 DEF IInv, Desk
<1>5. Ledger'
  BY <1>1, <1>4, SameTracker DEF IInv, Ledger
<1>6. Desk'
  BY <1>1, SameTracker DEF IInv, Desk
<1>7. Routes'
  BY <1>1, <1>2, SameTracker DEF IInv, Routes, HandlerLabels, RetryLabels, Labels
<1>8. Place'
  BY <1>1, <1>2, SameTracker DEF Place, QuietLabels, HandlerLabels, RetryLabels, Labels
<1>. QED  BY <1>2, <1>3, <1>5, <1>6, <1>7, <1>8 DEF IInv

-----------------------------------------------------------------------------
(* Steps that touch a bead's record.                                       *)

\* Everything the handler writes about a bead it has begun.
LEMMA TouchBegun ==
  ASSUME IInv, NEW b \in Started, Current = {}, NEW r \in BeadType, Touch(b, r), head' = head,
         r.status # "done", r.based = beads[b].based, r.start = beads[b].start
  PROVE  /\ Done' = Done /\ Ledger' /\ Current' = {} /\ Started' = {b}
         /\ Unfinished' = (IF r.status = "pending" THEN {} ELSE {b})
         /\ r.status # "error" => WithStatus("error")' = {}
<1>1. /\ b \in Beads /\ Started = {b} /\ beads[b].status # "done"
      /\ BlockedBy[b] \subseteq Done /\ beads[b].based /\ beads[b].start = DoneWork
      /\ \A c \in Runnable : b <= c
  BY StartedIs
<1>. QED  BY <1>1, TouchStarted DEF IInv

LEMMA PromptKeeps ==
  ASSUME IInv, Prompt
  PROVE  IInv' /\ Done' = Done
<1>. DEFINE r == [beads[step.bead] EXCEPT !.status = "in_progress"]
<1>. USE DEF remote, tracker, git, blocking
<1>1. /\ UNCHANGED <<head, tree, rows, status, offered, crashes>> /\ NoFault
      /\ step.pc = "prompt" /\ step.bead \in Started /\ Current = {} /\ working = {}
      /\ step.session = Session(step.bead) /\ step.session \in rows
      /\ working' = {step.session}
      /\ continuation' = (IF continuation = step.session THEN None ELSE continuation)
      /\ step' = Goto("work") /\ Touch(step.bead, r)
  BY DEF Prompt, Forget, IInv, Place, QuietLabels, HandlerLabels, Labels, RetryLabels
<1>2. step.bead \in Beads /\ Unfinished \subseteq {step.bead}
  BY <1>1, StartedIs
<1>3. /\ r \in BeadType /\ r.status = "in_progress"
      /\ r.based = beads[step.bead].based /\ r.start = beads[step.bead].start
      /\ r.iteration = beads[step.bead].iteration /\ r.tries = beads[step.bead].tries
  BY <1>2 DEF IInv, TypeOK, BeadType
<1>. HIDE DEF r
<1>4. /\ Done' = Done /\ Ledger' /\ Current' = {}
      /\ Started' = {step.bead} /\ Unfinished' = {step.bead}
      /\ WithStatus("error")' = {}
  BY <1>1, <1>3, TouchBegun
<1>5. /\ beads' \in [Beads -> BeadType] /\ recent' \subseteq Beads \X Beads
      /\ artifact' \in [Beads -> [work : SUBSET Pieces, current : BOOLEAN]]
      /\ beads'[step.bead] = r
  BY <1>1, <1>2, <1>3, TouchTypes DEF IInv
<1>6. /\ step' \in StepType
      /\ step'.pc = "work" /\ step'.bead = step.bead /\ step'.session = step.session
  BY <1>1, GotoIs, LabelNames DEF IInv
<1>7. Session(step.bead)' = Session(step.bead) /\ Work(step.bead)' = Work(step.bead)
  BY <1>3, <1>5, <1>6 DEF Session, Work
<1>8. /\ step.session.bead = step.bead /\ step.session.try = beads'[step.bead].tries
      /\ step.session.iteration = beads'[step.bead].iteration
  BY <1>1, <1>2, <1>3, <1>5, SessionOf DEF IInv
<1>9. TypeOK'
  BY <1>1, <1>5, <1>6, TypesOf, TypesFrom DEF IInv
<1>10. Desk'
  <2>1. \A w \in tree : w = Work(step.bead)
    BY <1>2 DEF IInv, Desk
  <2>2. \A w \in tree : \E b \in {step.bead} : w = Work(b)'
    BY <1>6, <1>7, <2>1 DEF Work
  <2>. QED  BY <1>1, <1>4, <1>8, <2>2 DEF Desk
<1>11. Routes'
  BY <1>1, <1>4, <1>6, <1>8 DEF IInv, Routes, HandlerLabels, RetryLabels, Labels
<1>12. Place'
  <2>1. beads'[step.bead].status = "in_progress"
    BY <1>3, <1>5
  <2>2. (step.session = Session(step.bead))'
    BY <1>1, <1>6, <1>7
  <2>. QED  BY <1>1, <1>4, <1>6, <2>1, <2>2
            DEF Place, QuietLabels, HandlerLabels, RetryLabels, Labels
<1>. QED  BY <1>4, <1>6, <1>9, <1>10, <1>11, <1>12 DEF IInv

\* The next try at a bead: nobody is at work, nothing of the old one is left.
LEMMA ReopenKeeps ==
  ASSUME IInv, RecoverInterrupted \/ Wiped
  PROVE  IInv' /\ Done' = Done
<1>. DEFINE r == Reopened(step.bead, 1)
<1>. USE DEF remote, tracker, git, blocking
<1>1. /\ UNCHANGED <<head, tree, rows, working, status, offered, continuation, crashes>>
      /\ NoFault
      /\ step.bead \in Started /\ Current = {} /\ working = {} /\ tree = {}
      /\ \/ step.pc = "recover" /\ step' = At("select", None)
         \/ step.pc = "wiped" /\ step' = Goto("abandon")
      /\ Touch(step.bead, r)
  BY DEF RecoverInterrupted, Wiped, IInv, Place, QuietLabels, HandlerLabels, Labels, RetryLabels
<1>2. step.bead \in Beads
  BY <1>1, StartedIs
<1>3. /\ r \in BeadType /\ r.status = "pending"
      /\ r.based = beads[step.bead].based /\ r.start = beads[step.bead].start
      /\ r.iteration = beads[step.bead].iteration + 1
  BY <1>2, ReopenedIs DEF IInv
<1>. HIDE DEF r
<1>4. /\ Done' = Done /\ Ledger' /\ Current' = {} /\ Started' = {step.bead} /\ Unfinished' = {}
      /\ WithStatus("error")' = {}
  BY <1>1, <1>3, TouchBegun
<1>5. /\ beads' \in [Beads -> BeadType] /\ recent' \subseteq Beads \X Beads
      /\ artifact' \in [Beads -> [work : SUBSET Pieces, current : BOOLEAN]]
      /\ beads'[step.bead].iteration > 0
  <2>1. beads[step.bead].iteration \in Nat
    BY <1>2 DEF IInv, TypeOK
  <2>2. r.iteration > 0
    BY <1>3, <2>1
  <2>3. TypeOK /\ Touch(step.bead, r)
    BY <1>1 DEF IInv
  <2>. QED  BY <1>2, <1>3, <2>2, <2>3, TouchTypes
<1>6. /\ step' \in StepType
      /\ \/ step'.pc = "select"
         \/ step'.pc = "abandon" /\ step'.bead = step.bead
  BY <1>1, AtIs, GotoIs, LabelNames DEF IInv
<1>7. TypeOK'
  BY <1>1, <1>5, <1>6, TypesOf, TypesFrom DEF IInv
<1>8. Desk'
  BY <1>1, <1>4 DEF Desk
<1>9. Routes'
  BY <1>1, <1>4, <1>6 DEF IInv, Routes, HandlerLabels, RetryLabels, Labels
<1>10. Place'
  BY <1>1, <1>4, <1>5, <1>6 DEF Place, QuietLabels, HandlerLabels, RetryLabels, Labels
<1>. QED  BY <1>4, <1>6, <1>7, <1>8, <1>9, <1>10 DEF IInv

\* The bead becomes an error: its reset failed, or it is given up.
LEMMA FailureKeeps ==
  ASSUME IInv, WipeFails \/ GiveUp
  PROVE  IInv' /\ Done' = Done
<1>. USE DEF remote, tracker, git, blocking
<1>1. /\ UNCHANGED <<head, tree, working, status, offered, continuation, crashes>>
      /\ Fault \/ NoFault
      /\ step.bead \in Started /\ Current = {}
      /\ working \subseteq rows' /\ rows' \subseteq rows
      /\ continuation # None => continuation \in rows'
      /\ \/ step' = GotoWith("failure recorded", None)
         \/ /\ step' = Goto("failure recorded")
            /\ step.session # None => working \subseteq {step.session}
      /\ step.pc \in HandlerLabels
  BY DEF WipeFails, GiveUp, IInv, Desk, Place, Routes, QuietLabels, HandlerLabels, Labels,
         RetryLabels
<1>2. step.bead \in Beads /\ Unfinished \subseteq {step.bead}
  BY <1>1, StartedIs
<1>3. PICK r \in BeadType :
        /\ Touch(step.bead, r) /\ r.status = "error"
        /\ r.based = beads[step.bead].based /\ r.start = beads[step.bead].start
        /\ r.tries = beads[step.bead].tries
  <2>1. beads[step.bead] \in BeadType /\ beads[step.bead].iteration \in Nat
    BY <1>2 DEF IInv, TypeOK, BeadType
  <2>2. CASE WipeFails
    <3>. DEFINE o == [beads[step.bead] EXCEPT !.status = "error", !.iteration = @ + 1]
    <3>1. /\ o \in BeadType /\ o.status = "error"
          /\ o.based = beads[step.bead].based /\ o.start = beads[step.bead].start
          /\ o.tries = beads[step.bead].tries
      <4>1. beads[step.bead].iteration + 1 \in Nat
        BY <2>1
      <4>. QED  BY <2>1, <4>1 DEF BeadType
    <3>2. Touch(step.bead, o)
      BY <2>2 DEF WipeFails
    <3>. QED  BY <3>1, <3>2
  <2>3. CASE GiveUp
    <3>. DEFINE o == [beads[step.bead] EXCEPT !.status = "error", !.iteration = LastIteration]
    <3>1. step.pc = "exhausted" => beads[step.bead].iteration > 0
      BY DEF IInv, Place
    <3>2. LastIteration \in Nat
      BY <2>1, <3>1 DEF LastIteration
    <3>3. /\ o \in BeadType /\ o.status = "error"
          /\ o.based = beads[step.bead].based /\ o.start = beads[step.bead].start
          /\ o.tries = beads[step.bead].tries
      BY <2>1, <3>2 DEF BeadType
    <3>4. Touch(step.bead, o)
      BY <2>3 DEF GiveUp
    <3>. QED  BY <3>3, <3>4
  <2>. QED  BY <2>2, <2>3
<1>6. /\ Done' = Done /\ Ledger' /\ Current' = {}
      /\ Started' = {step.bead} /\ Unfinished' = {step.bead}
  BY <1>1, <1>3, TouchBegun
<1>7. /\ beads' \in [Beads -> BeadType] /\ recent' \subseteq Beads \X Beads
      /\ artifact' \in [Beads -> [work : SUBSET Pieces, current : BOOLEAN]]
      /\ beads'[step.bead] = r
  BY <1>2, <1>3, TouchTypes DEF IInv
<1>8. /\ step' \in StepType
      /\ step'.pc = "failure recorded" /\ step'.bead = step.bead
      /\ step'.session # None => working \subseteq {step'.session}
  BY <1>1, GotoIs, GotoWithIs, LabelNames DEF IInv
<1>9. TypeOK'
  BY <1>1, <1>7, <1>8, TypesOf, TypesFrom DEF IInv
<1>10. Desk'
  <2>1. Work(step.bead)' = Work(step.bead)
    BY <1>3, <1>7, <1>8 DEF Work
  <2>2. \A w \in tree : w = Work(step.bead)
    BY <1>2 DEF IInv, Desk
  <2>3. \A w \in tree : \E b \in {step.bead} : w = Work(b)'
    BY <1>8, <2>1, <2>2 DEF Work
  <2>4. \A s \in working : s.bead = step.bead /\ s.try = beads'[s.bead].tries
    BY <1>2, <1>3, <1>7 DEF IInv, Desk
  <2>. QED  BY <1>1, <1>6, <2>3, <2>4 DEF Desk
<1>11. WithStatus("error")' # {}
  <2>1. step.bead \in WithStatus("error")'
    BY <1>2, <1>3, <1>7 DEF WithStatus
  <2>. QED  BY <2>1
<1>13. Routes'
  BY <1>1, <1>6, <1>8, <1>11 DEF IInv, Routes, HandlerLabels, RetryLabels, Labels
<1>12. Place'
  BY <1>1, <1>6, <1>8 DEF Place, QuietLabels, HandlerLabels, RetryLabels, Labels
<1>. QED  BY <1>6, <1>8, <1>9, <1>10, <1>12, <1>13 DEF IInv

\* The next bead starts from the branch, which holds the finished beads' work.
LEMMA SelectKeeps ==
  ASSUME IInv, Select
  PROVE  IInv' /\ Done' = Done
<1>. DEFINE r == [beads[NextBead] EXCEPT !.status = "in_progress", !.start = head, !.based = TRUE]
<1>. USE DEF remote, tracker, git, blocking
<1>1. /\ UNCHANGED <<head, tree, rows, working, status, offered, continuation, crashes>>
      /\ NoFault
      /\ step.pc = "select" /\ Runnable # {} /\ Unfinished = {} /\ working = {}
      /\ step' = [At("open", NextBead) EXCEPT !.from = beads[NextBead].iteration]
      /\ Touch(NextBead, r)
  BY DEF Select, IInv, Place, QuietLabels, HandlerLabels, Labels, RetryLabels
<1>2. Current = {} /\ tree = {}
  BY <1>1 DEF IInv, Ledger, Desk
<1>3. /\ NextBead \in Beads /\ Started \subseteq {NextBead}
      /\ NextBead \in Runnable /\ \A c \in Runnable : NextBead <= c
  BY <1>1, NextIsStarted, NextBeadIs
<1>4. BlockedBy[NextBead] \subseteq Done /\ beads[NextBead].status # "done"
  BY <1>3, StatusSets DEF IInv
<1>5. /\ r \in BeadType /\ r.status = "in_progress" /\ r.based /\ r.start = DoneWork
  <2>1. head = DoneWork
    BY <1>2, HeadIsDone DEF IInv
  <2>2. beads[NextBead] \in BeadType /\ head \in SUBSET Pieces
    BY <1>3, TypesOf DEF IInv
  <2>. QED  BY <2>1, <2>2 DEF BeadType
<1>6. beads[NextBead].iteration \in Nat
  BY <1>3 DEF IInv, TypeOK
<1>. HIDE DEF r
<1>7. /\ Done' = Done /\ Ledger' /\ Current' = {}
      /\ Started' = {NextBead} /\ Unfinished' = {NextBead}
      /\ WithStatus("error")' = {}
  <2>1. TypeOK /\ Ledger
    BY DEF IInv
  <2>. QED  BY <1>1, <1>2, <1>3, <1>4, <1>5, <2>1, TouchStarted
<1>8. /\ beads' \in [Beads -> BeadType] /\ recent' \subseteq Beads \X Beads
      /\ artifact' \in [Beads -> [work : SUBSET Pieces, current : BOOLEAN]]
  BY <1>1, <1>3, <1>5, TouchTypes DEF IInv
<1>9. /\ step' \in StepType
      /\ step'.pc = "open" /\ step'.bead = NextBead /\ step'.session = None
  BY <1>1, <1>3, <1>6, AtIs, LabelNames
<1>10. TypeOK'
  BY <1>1, <1>8, <1>9, TypesOf, TypesFrom DEF IInv
<1>11. Desk'
  BY <1>1, <1>2, <1>7 DEF Desk
<1>12. Routes'
  BY <1>1, <1>7, <1>9 DEF IInv, Routes, HandlerLabels, RetryLabels, Labels
<1>13. Place'
  <2>1. working' = {}
    BY <1>1
  <2>. QED  BY <1>7, <1>9, <2>1 DEF Place, QuietLabels, HandlerLabels, RetryLabels, Labels
<1>. QED  BY <1>7, <1>9, <1>10, <1>11, <1>12, <1>13 DEF IInv

LEMMA RetryWriteKeeps ==
  ASSUME IInv, RetryWrite
  PROVE  IInv' /\ Done' = Done
<1>. DEFINE r == Reopened(step.bead, 0)
<1>. USE DEF remote, tracker, git, blocking
<1>1. /\ UNCHANGED <<head, tree, rows, working, status, offered, continuation, crashes>>
      /\ NoFault /\ status = "BLOCKED"
      /\ step' = At("retry dispatch", None)
      /\ step.bead \in Beads \ Done /\ Started \subseteq {step.bead} /\ Current = {}
      /\ working = {} /\ tree = {} /\ continuation = None
      /\ Touch(step.bead, r)
  BY DEF RetryWrite, IInv, Place, Routes, QuietLabels, HandlerLabels, Labels, RetryLabels
<1>2. /\ r \in BeadType /\ r.status = "pending"
      /\ r.based = beads[step.bead].based /\ r.start = beads[step.bead].start
  BY <1>1, ReopenedIs DEF IInv
<1>3. beads[step.bead].status # "done"
  BY <1>1, StatusSets DEF IInv
<1>4. r.based => /\ r.start = DoneWork /\ BlockedBy[step.bead] \subseteq Done
                 /\ \A c \in Runnable : step.bead <= c
  <2>1. beads[step.bead] \in BeadType
    BY <1>1, TypesOf DEF IInv
  <2>2. beads[step.bead].based => step.bead \in Started
    BY <1>1, <1>3, <2>1, StatusSets DEF IInv, BeadType
  <2>. QED  BY <1>2, <2>2, StartedIs
<1>. HIDE DEF r
<1>5. /\ Done' = Done /\ Ledger' /\ Current' = {} /\ Unfinished' = {} /\ WithStatus("error")' = {}
  <2>1. TypeOK /\ Ledger
    BY DEF IInv
  <2>. QED  BY <1>1, <1>2, <1>3, <1>4, <2>1, TouchStarted
<1>6. /\ beads' \in [Beads -> BeadType] /\ recent' \subseteq Beads \X Beads
      /\ artifact' \in [Beads -> [work : SUBSET Pieces, current : BOOLEAN]]
  BY <1>1, <1>2, TouchTypes DEF IInv
<1>7. step' \in StepType /\ step'.pc = "retry dispatch"
  BY <1>1, AtIs, LabelNames
<1>8. TypeOK'
  BY <1>1, <1>6, <1>7, TypesOf, TypesFrom DEF IInv
<1>9. Desk'
  BY <1>1, <1>5 DEF Desk
<1>10. Routes'
  BY <1>1, <1>5, <1>7 DEF IInv, Routes, HandlerLabels, RetryLabels, Labels
<1>11. Place'
  BY <1>1, <1>7 DEF Place, QuietLabels, HandlerLabels, RetryLabels, Labels
<1>. QED  BY <1>5, <1>7, <1>8, <1>9, <1>10, <1>11 DEF IInv

\* The finished bead's work joins the work of the others; it is on the branch.
LEMMA RecordKeeps ==
  ASSUME IInv, Record
  PROVE  IInv' /\ Done' = Done \cup {step.bead}
<1>. DEFINE r == [beads[step.bead] EXCEPT !.status = "done"]
<1>. USE DEF remote, tracker, git, blocking
<1>1. /\ UNCHANGED <<head, tree, rows, working, status, offered, continuation, crashes>>
      /\ NoFault
      /\ step.pc = "record" /\ step.bead \in Started /\ step.bead \in Current
      /\ working = {} /\ tree = {}
      /\ step' = At("start", None)
      /\ Touch(step.bead, r)
  BY DEF Record, IInv, Place, QuietLabels, HandlerLabels, Labels, RetryLabels
<1>2. /\ step.bead \in Beads /\ Started = {step.bead} /\ Unfinished \subseteq {step.bead}
  BY <1>1, StartedIs
<1>3. r \in BeadType /\ r.status = "done"
  BY <1>2 DEF IInv, TypeOK, BeadType
<1>. HIDE DEF r
<1>4. /\ beads' \in [Beads -> BeadType] /\ beads \in [Beads -> BeadType]
      /\ recent' \subseteq Beads \X Beads
      /\ artifact' \in [Beads -> [work : SUBSET Pieces, current : BOOLEAN]]
      /\ beads'[step.bead] = r /\ \A c \in Beads \ {step.bead} : beads'[c] = beads[c]
      /\ artifact'[step.bead].current = FALSE
      /\ \A c \in Beads : artifact'[c].work = artifact[c].work
      /\ \A c \in Beads \ {step.bead} : artifact'[c].current = artifact[c].current
  BY <1>1, <1>2, <1>3, TouchTypes, TypesOf DEF IInv
<1>5. Done' = Done \cup {step.bead}
  BY <1>2, <1>3, <1>4 DEF Done, WithStatus
<1>6. Unfinished' = {} /\ Started' = {} /\ WithStatus("error")' = {}
  <2>1. \A c \in Beads \ {step.bead} :
          /\ beads[c].status \notin {"error", "in_progress"}
          /\ beads[c].status = "pending" => ~beads[c].based
    BY <1>2, StatusSets DEF IInv
  <2>. QED  BY <1>3, <1>4, <2>1 DEF Unfinished, Started, WithStatus
<1>7. Current = {step.bead} /\ Current' = {}
  <2>1. Current = {step.bead}
    BY <1>1, <1>2 DEF IInv, Ledger
  <2>. QED  BY <1>4, <2>1 DEF Current
<1>8. DoneWork' = DoneWork \cup artifact[step.bead].work
  <2>1. \A c \in Done' : artifact'[c].work = artifact[c].work
    BY <1>2, <1>4, <1>5 DEF Done, WithStatus
  <2>2. {artifact'[c].work : c \in Done'} = {artifact[c].work : c \in Done'}
    BY <2>1
  <2>3. {artifact[c].work : c \in Done \cup {step.bead}}
          = {artifact[c].work : c \in Done} \cup {artifact[step.bead].work}
    OBVIOUS
  <2>. QED  BY <1>5, <2>2, <2>3 DEF DoneWork
<1>9. artifact[step.bead].work \subseteq head
  BY <1>1 DEF IInv, Desk
<1>10. Ledger'
  BY <1>1, <1>4, <1>6, <1>7, <1>8, <1>9 DEF IInv, Ledger
<1>11. Desk'
  BY <1>1, <1>7 DEF Desk
<1>12. step' \in StepType /\ step'.pc = "start"
  BY <1>1, AtIs, LabelNames
<1>13. TypeOK'
  BY <1>1, <1>4, <1>12, TypesOf, TypesFrom DEF IInv
<1>14. Routes'
  BY <1>1, <1>6, <1>7, <1>12 DEF IInv, Routes, HandlerLabels, RetryLabels, Labels
<1>15. Place'
  BY <1>12 DEF Place, QuietLabels, HandlerLabels, RetryLabels, Labels
<1>. QED  BY <1>5, <1>10, <1>11, <1>12, <1>13, <1>14, <1>15 DEF IInv

-----------------------------------------------------------------------------
(* The invariant, and what it is for.                                      *)

LEMMA InitKeeps ==
  Init => IInv
<1>. SUFFICES ASSUME Init  PROVE IInv
  OBVIOUS
<1>1. /\ \A b \in Beads : /\ beads[b].status = "pending" /\ beads[b].based = FALSE
                          /\ artifact[b].work = {} /\ artifact[b].current = FALSE
      /\ head = {} /\ tree = {} /\ rows = {} /\ working = {}
      /\ status = "CODING" /\ offered = None /\ continuation = None
  BY DEF Init
<1>2. /\ step = At("start", None) /\ step.pc = "start" /\ step.bead = None /\ step.session = None
      /\ step \in StepType
  BY LabelNames DEF Init, At, Idle, StepType
<1>3. TypeOK
  <2>1. 0 \in 0..MaxFaults /\ 0 \in 0..MaxCrashes
    <3>1. MaxFaults \in Nat /\ MaxCrashes \in Nat
      BY BeadsAssumption
    <3>. QED  BY <3>1
  <2>2. [status |-> "pending", iteration |-> 1, based |-> FALSE, start |-> {}, tries |-> 1]
          \in BeadType
    BY DEF BeadType
  <2>3. [work |-> {}, current |-> FALSE] \in [work : SUBSET Pieces, current : BOOLEAN]
    OBVIOUS
  <2>4. /\ beads \in [Beads -> BeadType]
        /\ artifact \in [Beads -> [work : SUBSET Pieces, current : BOOLEAN]]
    BY <2>2, <2>3 DEF Init
  <2>5. step.from \in Nat
    BY <1>2 DEF StepType
  <2>. QED  BY <1>1, <1>2, <2>1, <2>4, <2>5 DEF Init, TypeOK, BeadType
<1>4. /\ Started = {} /\ Unfinished = {} /\ Current = {} /\ WithStatus("error") = {}
  BY <1>1 DEF Started, Unfinished, WithStatus, Current
<1>5. DoneWork = {}
  <2>1. Done = {}
    BY <1>1 DEF Done, WithStatus
  <2>. QED  BY <2>1 DEF DoneWork
<1>6. Ledger /\ Desk
  BY <1>1, <1>4, <1>5 DEF Ledger, Desk
<1>7. Routes /\ Place
  BY <1>1, <1>2, <1>4 DEF Routes, Place, QuietLabels, HandlerLabels, Labels, RetryLabels
<1>. QED  BY <1>2, <1>3, <1>6, <1>7 DEF IInv

\* Steps after which the branch and the finished beads may be others.
LEMMA StepKeeps ==
  ASSUME IInv, Next, ~PassesOver
  PROVE  /\ IInv'
         /\ Commit \/ Record \/ (head' = head /\ Done' = Done)
<1>1. CASE Handler
  <2>1. CASE \/ Start \/ StopInterrupted \/ RecoveryFails \/ SelectFails
             \/ Reconnect \/ SessionMissing \/ CreateSession \/ OpenFails
             \/ Accept \/ Reject \/ ReplaceSession \/ Preserve \/ StopFailed \/ ResetWithheld
             \/ Abandon \/ ReportFailure
    <3>1. IInv'
      BY <2>1, StartKeeps, StopInterruptedKeeps, RecoveryFailsKeeps, SelectFailsKeeps,
         ReconnectKeeps, SessionMissingKeeps, CreateSessionKeeps, OpenFailsKeeps, AcceptKeeps,
         RejectKeeps, ReplaceSessionKeeps, PreserveKeeps, StopFailedKeeps, ResetWithheldKeeps,
         AbandonKeeps, ReportFailureKeeps
    <3>2. UNCHANGED <<tracker, git>>
      BY <2>1 DEF Start, StopInterrupted, RecoveryFails, SelectFails, Reconnect, SessionMissing,
                  CreateSession, OpenFails, Accept, Reject, ReplaceSession, Preserve, StopFailed,
                  ResetWithheld, Abandon, ReportFailure
    <3>. QED  BY <3>1, <3>2, SameTracker DEF tracker, git
  <2>2. CASE ResetInterrupted \/ ResetWipe
    <3>1. IInv' /\ head' = head
      BY <2>2, ResetKeeps
    <3>2. UNCHANGED tracker
      BY <2>2 DEF ResetInterrupted, ResetWipe, ResetTo
    <3>. QED  BY <3>1, <3>2, SameTracker DEF tracker
  <2>3. CASE CleanInterrupted \/ CleanWipe
    <3>1. IInv'
      BY <2>3, CleanKeeps
    <3>2. UNCHANGED <<tracker, head>>
      BY <2>3 DEF CleanInterrupted, CleanWipe, CleanTree
    <3>. QED  BY <3>1, <3>2, SameTracker DEF tracker
  <2>4. CASE RecoverInterrupted \/ Select \/ Prompt \/ WipeFails \/ Wiped \/ GiveUp \/ CommitFails
    <3>1. IInv' /\ Done' = Done
      BY <2>4, ReopenKeeps, SelectKeeps, PromptKeeps, FailureKeeps, CommitFailsKeeps
    <3>2. UNCHANGED git
      BY <2>4 DEF RecoverInterrupted, Select, Prompt, WipeFails, Wiped, GiveUp, CommitFails
    <3>. QED  BY <3>1, <3>2 DEF git
  <2>5. CASE Checkpoint
    <3>1. IInv' /\ UNCHANGED <<beads, git>>
      BY <2>5, CheckpointKeeps DEF Checkpoint
    <3>. QED  BY <3>1 DEF git, Done, WithStatus
  <2>6. CASE Commit
    BY <2>6, CommitKeeps
  <2>7. CASE Record
    BY <2>7, RecordKeeps
  <2>. QED  BY <1>1, <2>1, <2>2, <2>3, <2>4, <2>5, <2>6, <2>7 DEF Handler
<1>2. CASE Recovery
  <2>1. CASE RetryRecovery \/ RetryDispatch \/ RetryRefused
    <3>1. IInv'
      BY <2>1, RetryRecoveryKeeps, RetryDispatchKeeps, RetryRefusedKeeps
    <3>2. UNCHANGED <<tracker, git>>
      BY <2>1 DEF RetryRecovery, RetryDispatch, RetryRefused
    <3>. QED  BY <3>1, <3>2, SameTracker DEF tracker, git
  <2>2. CASE RetryReset
    <3>1. IInv' /\ head' = head
      BY <2>2, ResetKeeps
    <3>2. UNCHANGED tracker
      BY <2>2 DEF RetryReset, ResetTo
    <3>. QED  BY <3>1, <3>2, SameTracker DEF tracker
  <2>3. CASE RetryClean
    <3>1. IInv'
      BY <2>3, CleanKeeps
    <3>2. UNCHANGED <<tracker, head>>
      BY <2>3 DEF RetryClean, CleanTree
    <3>. QED  BY <3>1, <3>2, SameTracker DEF tracker
  <2>4. CASE RetryFinalization \/ RetryWrite
    <3>1. IInv' /\ Done' = Done
      BY <2>4, RetryFinalizationKeeps, RetryWriteKeeps
    <3>2. UNCHANGED git
      BY <2>4 DEF RetryFinalization, RetryWrite
    <3>. QED  BY <3>1, <3>2 DEF git
  <2>. QED  BY <1>2, <2>1, <2>2, <2>3, <2>4 DEF Recovery
<1>3. CASE Retry \/ Continue \/ Crash \/ Boot
  <2>1. IInv'
    BY <1>3, RetryKeeps, ContinueKeeps, CrashKeeps, BootKeeps
  <2>2. UNCHANGED <<tracker, git>>
    BY <1>3 DEF Retry, Continue, Crash, Boot
  <2>. QED  BY <2>1, <2>2, SameTracker DEF tracker, git
<1>4. ASSUME NEW s \in working, Write(s)
      PROVE  IInv' /\ head' = head /\ Done' = Done
  <2>1. IInv'
    BY <1>4, WriteKeeps
  <2>2. UNCHANGED <<tracker, head>>
    BY <1>4 DEF Write
  <2>. QED  BY <2>1, <2>2, SameTracker DEF tracker
<1>. QED  BY <1>1, <1>2, <1>3, <1>4 DEF Next

LEMMA Stutters ==
  ASSUME IInv, UNCHANGED steps
  PROVE  IInv' /\ head' = head /\ Done' = Done
<1>1. /\ UNCHANGED <<beads, recent, artifact, head, tree, rows, working>>
      /\ UNCHANGED <<status, offered, continuation, step, faults, crashes>>
  BY DEF steps, tracker, git, remote, blocking
<1>2. TypeOK'
  BY <1>1 DEF IInv, TypeOK
<1>3. Ledger' /\ Desk'
  BY <1>1, SameLedger, SameTracker DEF IInv, Desk
<1>4. Routes'
  BY <1>1, SameTracker DEF IInv, Routes
<1>5. Place'
  <2>1. /\ Done' = Done /\ Unfinished' = Unfinished /\ Started' = Started
        /\ Current' = Current /\ Session(step.bead)' = Session(step.bead)
    <3>1. \A b : Session(b)' = Session(b)
      BY <1>1, SameTracker
    <3>2. step' = step
      BY <1>1
    <3> QED BY <1>1, <3>1, <3>2, SameTracker
  <2>2. Place
    BY DEF IInv
  <2>3. step' = step /\ beads' = beads /\ rows' = rows /\ tree' = tree /\ working' = working
    BY <1>1
  <2> QED BY ZenonT(60), <2>1, <2>2, <2>3 DEF Place
<1>6. (step \in StepType)'
  BY <1>1 DEF IInv, StepType
<1>7. Done' = Done
  BY <1>1, SameTracker
<1>. QED  BY <1>1, <1>2, <1>3, <1>4, <1>5, <1>6, <1>7 DEF IInv

\* IInv holds until a failed bead is passed over.
LEMMA Invariance ==
  Spec => []/\ passedOver \in BOOLEAN
            /\ ~passedOver => IInv
<1>. DEFINE Until == passedOver \in BOOLEAN /\ (~passedOver => IInv)
<1>1. Init => Until
  BY InitKeeps DEF Init
<1>2. Until /\ [Next]_vars => Until'
  <2>. SUFFICES ASSUME Until, [Next]_vars  PROVE Until'
    OBVIOUS
  <2>1. CASE Next
    <3>1. /\ passedOver' \in BOOLEAN
          /\ ~passedOver' => ~passedOver /\ ~PassesOver
      BY <2>1 DEF Next
    <3>. QED  BY <2>1, <3>1, StepKeeps
  <2>2. CASE UNCHANGED vars
    <3>1. passedOver' = passedOver /\ UNCHANGED steps
      BY <2>2 DEF vars
    <3>. QED  BY <3>1, Stutters
  <2>. QED  BY <2>1, <2>2
<1>. QED  BY <1>1, <1>2, PTL DEF Spec

-----------------------------------------------------------------------------
(* The properties.                                                         *)

LEMMA Isolation ==
  IInv => TypeOK /\ OneWriter /\ CleanWork
<1>. SUFFICES ASSUME IInv  PROVE TypeOK /\ OneWriter /\ CleanWork
  OBVIOUS
<1>1. OneWriter
  <2>1. step.pc \in Exclusive => step.pc \in QuietLabels \cup {"work"}
    BY DEF Exclusive, QuietLabels, HandlerLabels, Labels, RetryLabels
  <2>. QED  BY <2>1 DEF OneWriter, IInv, Place
<1>2. CleanWork
  <2>1. ASSUME step.pc \in {"prompt", "work", "checkpoint"}
        PROVE  tree \subseteq {Work(step.bead)}
    <3>1. step.bead \in Started
      BY <2>1 DEF IInv, Place, HandlerLabels, Labels, RetryLabels
    <3>2. Unfinished \subseteq {step.bead}
      BY <3>1, StartedIs
    <3>. QED  BY <3>2 DEF IInv, Desk
  <2>. QED  BY <2>1 DEF CleanWork
<1>. QED  BY <1>1, <1>2 DEF IInv

LEMMA Recoverable ==
  IInv => AcceptedIsSafe /\ OnlyAcceptedIsCommitted /\ OneBegun /\ Resettable
<1>. SUFFICES ASSUME IInv
              PROVE  AcceptedIsSafe /\ OnlyAcceptedIsCommitted /\ OneBegun /\ Resettable
  OBVIOUS
<1>1. AcceptedIsSafe
  <2>1. ASSUME NEW b \in Beads, artifact[b].current
        PROVE  artifact[b].work \subseteq tree \cup head
    BY <2>1 DEF IInv, Desk, Current
  <2>2. ASSUME NEW b \in Beads, beads[b].status = "done"
        PROVE  artifact[b].work \subseteq head
    <3>1. artifact[b].work \subseteq DoneWork
      BY <2>2 DEF DoneWork, Done, WithStatus
    <3>. QED  BY <3>1 DEF IInv, Ledger
  <2>. QED  BY <2>1, <2>2 DEF AcceptedIsSafe
<1>2. OnlyAcceptedIsCommitted
  <2>1. ASSUME NEW w \in head
        PROVE  \E b \in Beads : w \in artifact[b].work
    <3>1. CASE w \in DoneWork
      BY <3>1 DEF DoneWork, Done, WithStatus
    <3>2. CASE w \notin DoneWork
      BY <3>2 DEF IInv, Ledger, Current
    <3>. QED  BY <3>1, <3>2
  <2>. QED  BY <2>1 DEF OnlyAcceptedIsCommitted
<1>3. Unfinished \subseteq Started /\ Unfinished \subseteq Beads
  BY StatusSets DEF IInv
<1>4. OneBegun
  <2>1. WithStatus("in_progress") \cup WithStatus("error") = Unfinished
    BY DEF Unfinished
  <2>2. CASE Unfinished = {}
    BY <2>1, <2>2, FS_EmptySet DEF OneBegun
  <2>3. CASE Unfinished # {}
    <3>1. PICK b \in Unfinished : TRUE
      BY <2>3
    <3>2. Unfinished = {b}
      BY <3>1, <1>3 DEF IInv, Ledger
    <3>3. Cardinality({b}) = 1
      BY FS_Singleton
    <3>. QED  BY <2>1, <3>2, <3>3 DEF OneBegun
  <2>. QED  BY <2>2, <2>3
<1>5. Resettable
  <2>1. \A b \in Unfinished : beads[b].based /\ beads[b].start \subseteq head
    BY <1>3, StartedIs DEF IInv, Ledger
  <2>. QED  BY <2>1 DEF Resettable, Unfinished
<1>. QED  BY <1>1, <1>2, <1>4, <1>5

\* Whatever number of beads, tries, failing calls and crashes: until a failed
\* bead is passed over, the worktree is only reset, accepted from or committed
\* while no other session is at work in it, and a try finds nothing of another
\* try (executor.ts, executionPhase.ts, lifecycleHandlers.ts).
THEOREM TriesStayIsolated ==
  Spec => []TriesAreIsolated
<1>1. passedOver \in BOOLEAN /\ (~passedOver => IInv) => TriesAreIsolated
  BY Isolation DEF TriesAreIsolated
<1>. QED  BY <1>1, Invariance, PTL

\* Until a failed bead is passed over, accepted work is never lost, nothing
\* else is ever committed, and whatever was begun can be found and reset, after
\* any crash and by any route of recovery (executionPhase.ts,
\* lifecycleHandlers.ts).
THEOREM WorkStaysRecoverable ==
  Spec => []WorkIsRecoverable
<1>1. (~passedOver => IInv) => WorkIsRecoverable
  BY Recoverable DEF WorkIsRecoverable
<1>. QED  BY <1>1, Invariance, PTL

\* A commit brings the work of one try at the bead that is recorded next.
LEMMA CommitIntegrates ==
  ASSUME IInv, Commit
  PROVE  UNCHANGED <<head, WithStatus("done")>> \/ \E b \in Beads : Branch!Integrate(b)
<1>. DEFINE b == step.bead
            w == Work(b)
<1>1. /\ head' = head \cup tree /\ UNCHANGED beads
      /\ b \in Started /\ b \in Current
  BY DEF Commit, tracker, IInv, Place, HandlerLabels, Labels, RetryLabels
<1>2. WithStatus("done")' = WithStatus("done")
  BY <1>1 DEF WithStatus
<1>3. /\ b \in Beads /\ b \notin Done /\ BlockedBy[b] \subseteq Done /\ w[1] = b
  BY <1>1, StartedIs, StatusSets, SessionOf DEF IInv
<1>4. Current = {b}
  BY <1>1, StartedIs DEF IInv, Ledger
<1>5. tree \subseteq artifact[b].work /\ artifact[b].work \subseteq {w}
  BY <1>1 DEF IInv, Desk
<1>. HIDE DEF w
<1>6. CASE tree \subseteq head
  BY <1>1, <1>2, <1>6
<1>7. CASE ~(tree \subseteq head)
  <2>1. tree = {w} /\ w \notin head
    BY <1>5, <1>7
  <2>2. head' \ head = {w} /\ head \subseteq head' /\ w \in head' \ head
    BY <1>1, <2>1
  <2>3. Branch!Of(b) = {}
    <3>1. ASSUME NEW v \in head, v[1] = b
          PROVE  FALSE
      <4>1. CASE v \in DoneWork
        <5>1. PICK c \in Done : v \in artifact[c].work
          BY <4>1 DEF DoneWork
        <5>2. c \in Beads
          BY DEF Done, WithStatus
        <5>3. v[1] = c
          BY <5>1, <5>2 DEF IInv, Ledger
        <5>. QED  BY <1>3, <3>1, <5>3
      <4>2. CASE v \notin DoneWork
        <5>1. v \in artifact[b].work
          BY <1>4, <4>2 DEF IInv, Ledger
        <5>. QED  BY <1>5, <2>1, <5>1
      <4>. QED  BY <4>1, <4>2
    <3>. QED  BY <3>1 DEF Branch!Of
  <2>4. Branch!Integrate(b)
    BY <1>2, <1>3, <2>2, <2>3 DEF Branch!Integrate, Done
  <2>. QED  BY <1>3, <2>4
<1>. QED  BY <1>6, <1>7

\* Until a failed bead is passed over, the branch keeps its contract: work
\* enters it once per bead, by a commit of the bead whose dependencies are
\* finished, and never leaves it, although every recovery resets it
\* (executionPhase.ts, executor.ts, git.ts).
THEOREM BranchIsKept ==
  Spec => KeepsBranch
<1>1. Init => Branch!Init
  BY DEF Init, Branch!Init, WithStatus
<1>2. (~passedOver => IInv) /\ [Next]_vars =>
        [passedOver' \/ Branch!Next]_<<head, WithStatus("done")>>
  <2>. SUFFICES ASSUME ~passedOver => IInv, [Next]_vars, ~passedOver'
                PROVE  [Branch!Next]_<<head, WithStatus("done")>>
    OBVIOUS
  <2>. IInv
    BY DEF Next, vars
  <2>1. CASE Commit
    BY <2>1, CommitIntegrates DEF Branch!Next
  <2>2. CASE Record
    <3>1. head' = head
      BY <2>2 DEF Record, git
    <3>2. step.bead \in Started
      BY <2>2 DEF Record, IInv, Place, HandlerLabels, Labels, RetryLabels
    <3>3. step.bead \in Beads /\ BlockedBy[step.bead] \subseteq WithStatus("done")
      BY <3>2, StartedIs DEF Done
    <3>4. WithStatus("done")' = WithStatus("done") \cup {step.bead}
      BY <2>2, RecordKeeps DEF Done
    <3>5. Branch!Finish(step.bead)
      BY <3>1, <3>3, <3>4 DEF Branch!Finish
    <3>. QED  BY <3>3, <3>5 DEF Branch!Next
  <2>3. CASE head' = head /\ Done' = Done
    BY <2>3 DEF Done
  <2>4. CASE Next
    <3>1. ~PassesOver
      BY <2>4 DEF Next
    <3>. QED  BY <2>1, <2>2, <2>3, <2>4, <3>1, StepKeeps
  <2>5. CASE UNCHANGED vars
    <3>1. UNCHANGED steps
      BY <2>5 DEF vars
    <3>. QED  BY <2>3, <3>1, Stutters
  <2>. QED  BY <2>4, <2>5
<1>. QED  BY <1>1, <1>2, Invariance, PTL DEF Spec, KeepsBranch

=============================================================================
