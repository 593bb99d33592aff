------------------------ MODULE QuestionWindowsProofs ------------------------
(***************************************************************************)
(* Proofs about QuestionWindows, for any number of questions, sessions,    *)
(* clocks, batches and restarts. The type and the wait rows are proved     *)
(* whatever lapses arise; each other theorem names the lapses it excludes. *)
(***************************************************************************)
EXTENDS QuestionWindows, FiniteSetTheorems, TLAPS

ClockRecords == [stopped : BOOLEAN, due : BOOLEAN, armed : BOOLEAN]

\* What the desk is after every step: of its type, without an entry for a step
\* that has no question, and with a row for a step that has one.
SoundDesk(d) ==
  /\ d \in Desks
  /\ d.window # None => OpenNow(d) # {}
  /\ d.window # None => d.waitRow

-----------------------------------------------------------------------------
(* The operators on the desk.                                               *)

\* The number of questions in a set of them.
LEMMA CountedSet ==
  ASSUME NEW R \in SUBSET Requests
  PROVE  IsFiniteSet(R) /\ Cardinality(R) \in Nat
BY FS_Subset, FS_CardinalityType, QuestionAssumption

\* A change of state that closes nothing keeps the desk sound.
LEMMA PutKeeps ==
  ASSUME NEW d, SoundDesk(d), NEW c \in Clocks \cup {None}, NEW R \in SUBSET Requests,
         NEW s \in {"pending", "resolving"}
  PROVE  /\ SoundDesk(Put(d, c, R, s))
         /\ Put(d, c, R, s).window = d.window
<1> DEFINE p == Put(d, c, R, s)
<1> DEFINE row == [r \in Requests |-> IF r \in R THEN s ELSE d.state[c][r]]
           states == [d.state EXCEPT ![c] = row]
<1>0. d.state \in [Clocks -> [Requests -> RequestStates]]
  BY DEF SoundDesk, Desks
<1>1. p \in Desks
  <2>1. c \in Clocks => row \in [Requests -> RequestStates]
    BY <1>0 DEF RequestStates
  <2>2. states \in [Clocks -> [Requests -> RequestStates]]
    BY <1>0, <2>1
  <2>3. p = [d EXCEPT !.state = states]
    BY DEF Put
  <2> HIDE DEF states, p
  <2> QED BY <2>2, <2>3 DEF Desks, SoundDesk
<1>2. p.window = d.window /\ p.waitRow = d.waitRow
  BY DEF Put, Desks, SoundDesk
<1>3. ASSUME d.window # None PROVE OpenNow(p) # {}
  <2>1. PICK r \in Requests : d.state[d.window][r] # "absent"
    BY <1>3 DEF SoundDesk, OpenNow, OpenOn
  <2>2. p.state[d.window][r] # "absent"
    BY <2>1, <1>3 DEF Put, Desks, SoundDesk
  <2> QED BY <1>2, <1>3, <2>2 DEF OpenNow, OpenOn
<1> QED BY <1>1, <1>2, <1>3 DEF SoundDesk

\* There is a clock to arm, and it is a clock of the step.
LEMMA FreeClockExists ==
  ASSUME NEW d, d.window = None, HasClock(d)
  PROVE  FreeClock(d) \in Clocks
<1>1. \E c \in Clocks : ~Busy(d, c)
  BY DEF HasClock
<1> HIDE DEF Busy
<1> QED BY <1>1 DEF FreeClock

\* Arming gives the step a clock and touches nothing else of the desk.
LEMMA ArmedKeeps ==
  ASSUME NEW d, d \in Desks, HasClock(d),
         NEW start \in ClockRecords, NEW restored \in BOOLEAN
  PROVE  /\ Armed(d, start, restored) \in Desks
         /\ Armed(d, start, restored).window \in Clocks
<1>0. d.clock \in [Clocks -> ClockRecords] /\ IdleClock \in ClockRecords /\ FullClock \in ClockRecords
  BY DEF Desks, ClockRecords, IdleClock, FullClock
<1>1. CASE d.window = None
  <2> DEFINE c == FreeClock(d)
             clocks == [k \in Clocks |-> IF k = c THEN start
                                         ELSE IF Busy(d, k) THEN d.clock[k] ELSE IdleClock]
  <2>1. c \in Clocks
    BY <1>1, FreeClockExists
  <2>2. clocks \in [Clocks -> ClockRecords]
    <3> HIDE DEF c
    <3> QED BY <1>0
  <2>3. Armed(d, start, restored) = [d EXCEPT !.window = c, !.clock = clocks]
    BY <1>1 DEF Armed
  <2> HIDE DEF c, clocks
  <2> QED BY <2>1, <2>2, <2>3 DEF Desks, ClockRecords
<1>2. CASE d.window # None /\ (restored \/ d.clock[d.window].stopped)
  BY <1>2 DEF Armed, Desks
<1>3. CASE d.window # None /\ ~(restored \/ d.clock[d.window].stopped)
  <2> DEFINE clocks == [d.clock EXCEPT ![d.window] = FullClock]
  <2>1. clocks \in [Clocks -> ClockRecords]
    BY <1>0
  <2>2. Armed(d, start, restored) = [d EXCEPT !.clock = clocks]
    BY <1>3 DEF Armed
  <2>3. d.window \in Clocks
    BY <1>3 DEF Desks
  <2> HIDE DEF clocks
  <2> QED BY <2>1, <2>2, <2>3 DEF Desks, ClockRecords
<1> QED BY <1>1, <1>2, <1>3

\* Attaching keeps the desk sound, and leaves a row behind whatever it attached.
LEMMA AttachedKeeps ==
  ASSUME NEW d, SoundDesk(d), HasClock(d), NEW asked \in SUBSET Requests,
         NEW start \in ClockRecords, NEW restored \in BOOLEAN
  PROVE  SoundDesk(Attached(d, asked, start, restored))
<1> DEFINE R == Welcome(d, asked)
           a == Armed(d, start, restored)
           p == Put(a, a.window, R, "pending")
           saved == [r \in Requests |-> IF r \in R THEN "pending" ELSE p.saved[r]]
<1>1. R \in SUBSET Requests
  BY DEF Welcome
<1>2. a \in Desks /\ a.window \in Clocks /\ a.window # None
  BY ArmedKeeps, QuestionAssumption DEF SoundDesk
<1>3. CASE R = {}
  BY <1>3 DEF Attached
<1>4. CASE R # {}
  <2> DEFINE row == [r \in Requests |-> IF r \in R THEN "pending" ELSE a.state[a.window][r]]
             states == [a.state EXCEPT ![a.window] = row]
             q == [p EXCEPT !.depth = @ + Cardinality(R), !.saved = saved,
                            !.savedClock = a.window, !.waitRow = TRUE]
  <2>1. a.state \in [Clocks -> [Requests -> RequestStates]]
    BY <1>2 DEF Desks
  <2>2. row \in [Requests -> RequestStates]
    BY <1>2, <2>1 DEF RequestStates
  <2>3. states \in [Clocks -> [Requests -> RequestStates]]
    BY <2>1, <2>2
  <2>4. p = [a EXCEPT !.state = states]
    BY DEF Put
  <2>5. p \in Desks /\ p.window = a.window /\ p.state = states
    <3> HIDE DEF states, p, a
    <3> QED BY <1>2, <2>3, <2>4 DEF Desks
  <2>6. saved \in [Requests -> {"none", "pending", "resolved"}]
    <3> HIDE DEF p, R
    <3> QED BY <2>5 DEF Desks
  <2>7. Cardinality(R) \in Nat
    BY <1>1, CountedSet
  <2>8. q \in Desks /\ q.window = a.window /\ q.state = states /\ q.waitRow
    <3> DEFINE depth == p.depth + Cardinality(R)
    <3>1. depth \in Nat
      BY <2>5, <2>7 DEF Desks
    <3>2. q = [p EXCEPT !.depth = depth, !.saved = saved,
                        !.savedClock = a.window, !.waitRow = TRUE]
      OBVIOUS
    <3> HIDE DEF states, p, a, R, saved, q, depth
    <3>3. q \in Desks
      BY <1>2, <2>5, <2>6, <3>1, <3>2 DEF Desks
    <3>4. q.window = a.window /\ q.state = states /\ q.waitRow
      BY <2>5, <3>2 DEF Desks
    <3> QED BY <3>3, <3>4
  <2>9. OpenNow(q) # {}
    <3>1. PICK r \in R : r \in Requests
      BY <1>4, <1>1
    <3>2. states[a.window][r] = "pending"
      <4> HIDE DEF a, R
      <4> QED BY <3>1, <1>2, <2>1
    <3> HIDE DEF q, states, a, R
    <3> QED BY <3>1, <3>2, <1>2, <2>8 DEF OpenNow, OpenOn
  <2>10. Attached(d, asked, start, restored) = q
    BY <1>4 DEF Attached
  <2> HIDE DEF q
  <2> QED BY <2>8, <2>9, <2>10 DEF SoundDesk
<1> QED BY <1>3, <1>4

\* Closing keeps the desk sound: what is left of the step has a question, and
\* its row.
LEMMA ClosedKeeps ==
  ASSUME NEW d, SoundDesk(d), NEW c \in Clocks \cup {None}, NEW R \in SUBSET Requests
  PROVE  SoundDesk(Closed(d, c, R))
<1>1. CASE R = {}
  BY <1>1 DEF Closed
<1>2. CASE R # {}
  <2> DEFINE row    == [r \in Requests |-> IF r \in R THEN "absent" ELSE d.state[c][r]]
             states == [d.state EXCEPT ![c] = row]
             f      == Put(d, c, R, "absent")
             empty  == OpenOn(f, c) = {}
             window == IF empty THEN None ELSE f.window
             clocks == [f.clock EXCEPT ![c].armed = @ /\ ~empty]
             g      == [f EXCEPT !.window = window, !.clock = clocks]
             depth  == Resumed(g.depth, Cardinality(R))
             saved  == [r \in Requests |-> IF r \in R THEN "resolved" ELSE g.saved[r]]
             open   == g.waitRow /\ OpenNow(g) # {}
             q      == [g EXCEPT !.depth = depth, !.saved = saved, !.savedClock = c,
                                 !.waitRow = open]
  <2>1. d.state \in [Clocks -> [Requests -> RequestStates]] /\ d \in Desks
    BY DEF Desks, SoundDesk
  <2>2. states \in [Clocks -> [Requests -> RequestStates]]
    <3>1. c \in Clocks => row \in [Requests -> RequestStates]
      BY <2>1 DEF RequestStates
    <3> HIDE DEF row
    <3> QED BY <2>1, <3>1
  <2>3. f = [d EXCEPT !.state = states]
    BY DEF Put
  <2>4. f \in Desks /\ f.window = d.window /\ f.state = states /\ f.clock = d.clock
          /\ f.waitRow = d.waitRow
    <3> HIDE DEF states, f
    <3> QED BY <2>1, <2>2, <2>3 DEF Desks
  <2>5. clocks \in [Clocks -> ClockRecords]
    <3>1. f.clock \in [Clocks -> ClockRecords]
      BY <2>4 DEF Desks, ClockRecords
    <3> HIDE DEF f, empty
    <3>2. c \in Clocks => [f.clock[c] EXCEPT !.armed = @ /\ ~empty] \in ClockRecords
      BY <3>1 DEF ClockRecords
    <3> QED BY <3>1, <3>2
  <2>6. g \in Desks /\ g.window = window /\ g.state = states /\ g.waitRow = d.waitRow
    <3>1. window \in Clocks \cup {None}
      BY <2>4 DEF Desks
    <3> HIDE DEF f, window, clocks, states
    <3> QED BY <2>4, <2>5, <3>1 DEF Desks, ClockRecords
  <2>7. depth \in Nat
    <3>1. g.depth \in Nat
      BY <2>6 DEF Desks
    <3> HIDE DEF g
    <3> QED BY <3>1, CountedSet DEF Resumed
  <2>8. saved \in [Requests -> {"none", "pending", "resolved"}]
    <3> HIDE DEF g
    <3> QED BY <2>6 DEF Desks
  <2>9. q \in Desks /\ q.window = window /\ q.state = states /\ q.waitRow = open
    <3> HIDE DEF g, depth, saved, window, states, open
    <3>1. open \in BOOLEAN
      BY DEF open
    <3> QED BY <2>6, <2>7, <2>8, <3>1 DEF Desks
  <2>10. ASSUME window # None
         PROVE  d.window # None /\ OpenNow(q) # {} /\ OpenNow(g) # {}
    <3>1. ~empty /\ window = d.window /\ d.window \in Clocks /\ d.window # None
      BY <2>10, <2>4, <2>1 DEF Desks
    <3>2. OpenNow(q) = OpenOn(f, d.window) /\ OpenNow(g) = OpenOn(f, d.window)
      <4> HIDE DEF q, g, f, states, window, empty
      <4> QED BY <3>1, <2>9, <2>6, <2>4 DEF OpenNow, OpenOn
    <3>3. CASE c = d.window
      BY <3>1, <3>2, <3>3
    <3>4. CASE c # d.window
      <4>1. states[d.window] = d.state[d.window]
        BY <3>1, <3>4, <2>1
      <4>2. OpenOn(f, d.window) = OpenNow(d)
        <5> HIDE DEF f, states
        <5> QED BY <4>1, <2>4, <3>1 DEF OpenNow, OpenOn
      <4> QED BY <4>2, <3>1, <3>2 DEF SoundDesk
    <3> QED BY <3>3, <3>4
  <2>11. Closed(d, c, R) = q
    BY <1>2 DEF Closed
  <2>12. window # None => open
    <3> HIDE DEF g, window
    <3> QED BY <2>10, <2>6 DEF SoundDesk
  <2> HIDE DEF q, window, open
  <2> QED BY <2>9, <2>10, <2>11, <2>12 DEF SoundDesk
<1> QED BY <1>1, <1>2

-----------------------------------------------------------------------------
(* The rest of the state.                                                   *)

OutsideOK ==
  /\ remote \in [Requests -> {"unasked", "open", "closed"}]
  /\ session \in [Sessions -> {"live", "stopped", "ended"}]
  /\ frames \subseteq {"asked", "closed"} \X Requests
  /\ up \in BOOLEAN /\ restarts \in 0 .. MaxRestarts

WorkOK ==
  /\ route \in [req : Requests \cup {None}, clock : Clocks \cup {None}, holds : BOOLEAN]
  /\ batch \in [Batches -> BatchRecords]

HistoryOK ==
  /\ closings \in [Requests -> 0 .. 2]
  /\ givenUp \subseteq Requests /\ promised \subseteq Requests

\* The inductive invariant: types, and a desk that is sound.  WaitIsOnRecord is
\* not inductive alone, since a row is closed when the last window goes: it takes
\* that an entry always has a question, and a row, whether the daemon is up or
\* just starting.
QuestionInv ==
  /\ OutsideOK /\ WorkOK /\ HistoryOK
  /\ SoundDesk(desk)

LEMMA DisturbedTyped ==
  ASSUME WorkOK, NEW c, NEW R
  PROVE  Disturbed(c, R) \in [Batches -> BatchRecords]
<1>1. \A b \in Batches : [batch[b] EXCEPT !.intact = FALSE] \in BatchRecords
  BY DEF WorkOK, BatchRecords
<1> QED BY <1>1 DEF Disturbed, WorkOK

LEMMA RouteTyped ==
  ASSUME WorkOK, NEW c, NEW R
  PROVE  RouteAfter(c, R) \in [req : Requests \cup {None}, clock : Clocks \cup {None}, holds : BOOLEAN]
BY DEF RouteAfter, WorkOK

LEMMA NoWorkTyped == NoBatch \in BatchRecords
BY DEF NoBatch, BatchRecords

LEMMA OnwardTyped ==
  ASSUME NEW bs \in [Batches -> BatchRecords], NEW b \in Batches, Onward(bs, b)
  PROVE  batch' \in [Batches -> BatchRecords]
<1>1. CASE bs[b].rest = {}
  BY <1>1, NoWorkTyped DEF Onward
<1>2. CASE bs[b].rest # {}
  <2>1. PICK r \in bs[b].rest :
          batch' = [bs EXCEPT ![b] = [bs[b] EXCEPT !.req = r, !.rest = bs[b].rest \ {r},
                                               !.step = "refuse", !.intact = TRUE]]
    BY <1>2 DEF Onward
  <2> DEFINE next == [bs[b] EXCEPT !.req = r, !.rest = bs[b].rest \ {r},
                                   !.step = "refuse", !.intact = TRUE]
  <2>2. next \in BatchRecords
    <3>1. bs[b] \in BatchRecords /\ r \in Requests
      BY DEF BatchRecords
    <3> QED BY <3>1 DEF BatchRecords
  <2> HIDE DEF next
  <2>3. batch' = [bs EXCEPT ![b] = next]
    BY <2>1 DEF next
  <2> QED BY <2>2, <2>3
<1> QED BY <1>1, <1>2

LEMMA StartedTyped ==
  ASSUME WorkOK, NEW b \in Batches, NEW c \in Clocks \cup {None},
         NEW D \in SUBSET Requests, Started(b, c, D)
  PROVE  batch' \in [Batches -> BatchRecords]
<1>1. CASE D = {}
  BY <1>1 DEF Started, WorkOK
<1>2. CASE D # {}
  <2>1. PICK r \in D : batch' = [Disturbed(c, D) EXCEPT ![b] =
                          [clock |-> c, req |-> r, rest |-> D \ {r},
                           step |-> "refuse", intact |-> TRUE]]
    BY <1>2 DEF Started
  <2>2. [clock |-> c, req |-> r, rest |-> D \ {r}, step |-> "refuse", intact |-> TRUE]
          \in BatchRecords
    BY DEF BatchRecords
  <2> QED BY <2>1, <2>2, DisturbedTyped
<1> QED BY <1>1, <1>2

LEMMA CountedTyped ==
  ASSUME HistoryOK, NEW R, Counted(R), UNCHANGED givenUp
  PROVE  HistoryOK'
<1>1. Closings(R) \in [Requests -> 0 .. 2]
  BY DEF Closings, HistoryOK
<1> QED BY <1>1 DEF Counted, HistoryOK

LEMMA CountedAndJoinedTyped ==
  ASSUME HistoryOK, NEW R, CountedAndJoined(R), UNCHANGED givenUp
  PROVE  HistoryOK'
<1>1. Closings(R) \in [Requests -> 0 .. 2]
  BY DEF Closings, HistoryOK
<1>2. OpenNow(desk') \subseteq Requests
  BY DEF OpenNow, OpenOn
<1> QED BY <1>1, <1>2 DEF CountedAndJoined, HistoryOK

\* expireTimer keeps the desk sound, and its clock's entry.
LEMMA ExpiredKeeps ==
  ASSUME QuestionInv, NEW d, SoundDesk(d), NEW c \in Clocks \cup {None},
         NEW b \in Batches, Expired(d, c, b)
  PROVE  /\ SoundDesk(desk') /\ desk'.window = d.window
         /\ batch' \in [Batches -> BatchRecords]
<1> DEFINE D == IF d.clock[c].stopped THEN {} ELSE InState(d, c, "pending")
           clocks == [d.clock EXCEPT ![c].armed = FALSE]
           e == [d EXCEPT !.clock = clocks]
<1>1. D \in SUBSET Requests
  BY DEF InState
<1>2. clocks \in [Clocks -> ClockRecords]
  <2>1. d.clock \in [Clocks -> ClockRecords]
    BY DEF SoundDesk, Desks, ClockRecords
  <2>2. c \in Clocks => [d.clock[c] EXCEPT !.armed = FALSE] \in ClockRecords
    BY <2>1 DEF ClockRecords
  <2> QED BY <2>1, <2>2
<1>3. e \in Desks /\ e.window = d.window /\ e.state = d.state /\ e.waitRow = d.waitRow
  <2> HIDE DEF clocks
  <2> QED BY <1>2 DEF SoundDesk, Desks, ClockRecords
<1>4. SoundDesk(e)
  <2> HIDE DEF e
  <2> QED BY <1>3 DEF SoundDesk, OpenNow, OpenOn
<1>5. desk' = Put(e, c, D, "resolving") /\ Started(b, c, D)
  BY DEF Expired
<1> HIDE DEF D, e
<1>6. SoundDesk(Put(e, c, D, "resolving")) /\ Put(e, c, D, "resolving").window = e.window
  BY <1>1, <1>4, PutKeeps
<1>7. batch' \in [Batches -> BatchRecords]
  BY <1>1, <1>5, StartedTyped DEF QuestionInv
<1> QED BY <1>3, <1>5, <1>6, <1>7

LEMMA CloseAtOnceKeeps ==
  ASSUME QuestionInv, NEW r \in Requests, CloseAtOnce(r), UNCHANGED givenUp
  PROVE  SoundDesk(desk') /\ batch' \in [Batches -> BatchRecords] /\ HistoryOK'
<1>0. desk.window \in Clocks \cup {None}
  BY DEF QuestionInv, SoundDesk, Desks
<1>1. CASE r \in OpenNow(desk) /\ desk.state[desk.window][r] = "pending"
  <2>1. /\ desk' = Closed(desk, desk.window, {r})
        /\ batch' = Disturbed(desk.window, {r})
        /\ Counted({r})
    BY <1>1 DEF CloseAtOnce
  <2> QED BY <1>0, <2>1, ClosedKeeps, DisturbedTyped, CountedTyped DEF QuestionInv
<1>2. CASE ~(r \in OpenNow(desk) /\ desk.state[desk.window][r] = "pending")
  BY <1>2 DEF CloseAtOnce, QuestionInv, WorkOK, HistoryOK
<1> QED BY <1>1, <1>2

LEMMA ConcludedKeeps ==
  ASSUME QuestionInv, NEW b \in Batches, batch[b].req \in Requests, Concluded(b),
         UNCHANGED givenUp
  PROVE  SoundDesk(desk') /\ WorkOK' /\ HistoryOK'
<1> DEFINE r == batch[b].req
           c == batch[b].clock
<1>0. c \in Clocks \cup {None}
  BY DEF QuestionInv, WorkOK, BatchRecords
<1>1. CASE batch[b].intact
  <2>1. /\ desk' = Closed(desk, c, {r})
        /\ Counted({r})
        /\ route' = RouteAfter(c, {r})
        /\ Onward(Disturbed(c, {r}), b)
    BY <1>1 DEF Concluded
  <2>2. SoundDesk(desk') /\ HistoryOK'
    BY <1>0, <2>1, ClosedKeeps, CountedTyped DEF QuestionInv
  <2>3. WorkOK'
    BY <2>1, DisturbedTyped, OnwardTyped, RouteTyped DEF QuestionInv, WorkOK
  <2> QED BY <2>2, <2>3
<1>2. CASE ~batch[b].intact
  <2>1. Onward(batch, b) /\ UNCHANGED <<desk, closings, promised, route>>
    BY <1>2 DEF Concluded
  <2>2. WorkOK'
    BY <2>1, OnwardTyped DEF QuestionInv, WorkOK
  <2> QED BY <2>1, <2>2 DEF QuestionInv, HistoryOK
<1> QED BY <1>1, <1>2

\* Stopping the clock changes that clock, and which one the artifact describes.
LEMMA StoppedDesk ==
  ASSUME desk \in Desks, StopClock
  PROVE  LET halted == [desk.clock EXCEPT ![desk.window] = [@ EXCEPT !.stopped = TRUE, !.armed = FALSE]]
         IN desk' = [desk EXCEPT !.clock = halted, !.savedClock = desk.window]
<1> DEFINE w == desk.window
           stopped == [desk.clock EXCEPT ![w].stopped = TRUE]
           halted == [desk.clock EXCEPT ![w] = [@ EXCEPT !.stopped = TRUE, !.armed = FALSE]]
<1>1. desk.clock \in [Clocks -> ClockRecords] /\ w \in Clocks
  BY DEF StopClock, Desks, ClockRecords
<1>2. [stopped EXCEPT ![w].armed = FALSE] = halted
  BY <1>1
<1>3. desk' = [[[desk EXCEPT !.clock = stopped] EXCEPT !.clock[w].armed = FALSE]
                 EXCEPT !.savedClock = w]
  BY DEF StopClock, Desks
<1>4. [[desk EXCEPT !.clock = stopped] EXCEPT !.clock[w].armed = FALSE]
        = [desk EXCEPT !.clock = [stopped EXCEPT ![w].armed = FALSE]]
  <2> HIDE DEF stopped, w
  <2> QED BY DEF Desks
<1>5. desk' = [desk EXCEPT !.clock = halted, !.savedClock = w]
  <2> HIDE DEF stopped, halted, w
  <2> QED BY <1>2, <1>3, <1>4
<1> QED BY <1>5

-----------------------------------------------------------------------------
(* The invariant.                                                           *)

LEMMA InitSound == Init => QuestionInv
<1> SUFFICES ASSUME Init PROVE QuestionInv
  OBVIOUS
<1>1. OutsideOK /\ HistoryOK
  BY QuestionAssumption DEF Init, OutsideOK, HistoryOK
<1>2. WorkOK
  BY NoWorkTyped DEF Init, WorkOK, NoRoute
<1>3. SoundDesk(desk)
  BY DEF Init, SoundDesk, Desks, IdleClock, RequestStates
<1> QED BY <1>1, <1>2, <1>3 DEF QuestionInv

\* What OpenCode, the stream and the user do.
LEMMA OutsideStepsKeep ==
  ASSUME QuestionInv, NEW r \in Requests,
         \/ Ask(r) \/ AnsweredElsewhere(r) \/ AskedArrives(r) \/ ClosedArrives(r)
         \/ RouteClaims(r) \/ StopClock
  PROVE  QuestionInv'
<1>0. desk \in Desks /\ desk.window \in Clocks \cup {None}
  BY DEF QuestionInv, SoundDesk, Desks
<1>1. CASE Ask(r)
  BY <1>1 DEF Ask, QuestionInv, OutsideOK, WorkOK, HistoryOK, daemon, history
<1>2. CASE AnsweredElsewhere(r)
  BY <1>2 DEF AnsweredElsewhere, QuestionInv, OutsideOK, WorkOK, HistoryOK, daemon, history
<1>3. CASE AskedArrives(r)
  <2>1. SoundDesk(desk')
    <3>1. FullClock \in ClockRecords
      BY DEF FullClock, ClockRecords
    <3> QED BY <1>3, <3>1, AttachedKeeps DEF AskedArrives, QuestionInv
  <2>2. HistoryOK'
    BY <1>3, CountedAndJoinedTyped DEF AskedArrives, QuestionInv
  <2>3. OutsideOK' /\ WorkOK'
    BY <1>3 DEF AskedArrives, QuestionInv, OutsideOK, WorkOK, daemon
  <2> QED BY <2>1, <2>2, <2>3 DEF QuestionInv
<1>4. CASE ClosedArrives(r)
  <2>1. SoundDesk(desk') /\ batch' \in [Batches -> BatchRecords] /\ HistoryOK'
    BY <1>4, CloseAtOnceKeeps DEF ClosedArrives
  <2>2. OutsideOK' /\ UNCHANGED route
    BY <1>4 DEF ClosedArrives, QuestionInv, OutsideOK, daemon
  <2> QED BY <2>1, <2>2 DEF QuestionInv, WorkOK
<1>5. CASE RouteClaims(r)
  <2>1. SoundDesk(desk')
    BY <1>0, <1>5, PutKeeps DEF RouteClaims, QuestionInv
  <2>2. WorkOK'
    BY <1>0, <1>5, DisturbedTyped DEF RouteClaims, QuestionInv, WorkOK
  <2>3. OutsideOK' /\ HistoryOK'
    BY <1>5 DEF RouteClaims, QuestionInv, OutsideOK, HistoryOK, daemon, history
  <2> QED BY <2>1, <2>2, <2>3 DEF QuestionInv
<1>6. CASE StopClock
  <2> DEFINE clocks == [desk.clock EXCEPT ![desk.window] = [@ EXCEPT !.stopped = TRUE, !.armed = FALSE]]
  <2>1. clocks \in [Clocks -> ClockRecords]
    <3>1. desk.clock \in [Clocks -> ClockRecords]
      BY <1>0 DEF Desks, ClockRecords
    <3>2. desk.window \in Clocks
      BY <1>0, <1>6 DEF StopClock
    <3>3. [desk.clock[desk.window] EXCEPT !.stopped = TRUE, !.armed = FALSE] \in ClockRecords
      BY <3>1, <3>2 DEF ClockRecords
    <3> QED BY <3>1, <3>2, <3>3
  <2>2. desk' = [desk EXCEPT !.clock = clocks, !.savedClock = desk.window]
    BY <1>0, <1>6, StoppedDesk
  <2>3. desk' \in Desks /\ desk'.window = desk.window /\ desk'.state = desk.state
          /\ desk'.waitRow = desk.waitRow
    <3> HIDE DEF clocks
    <3> QED BY <1>0, <2>1, <2>2 DEF Desks, ClockRecords
  <2>4. SoundDesk(desk')
    BY <2>3 DEF QuestionInv, SoundDesk, OpenNow, OpenOn
  <2>5. OutsideOK' /\ WorkOK' /\ HistoryOK'
    <3>1. OpenNow(desk) \subseteq Requests
      BY DEF OpenNow, OpenOn
    <3> QED BY <1>6, <3>1 DEF StopClock, QuestionInv, OutsideOK, WorkOK, HistoryOK, daemon
  <2> QED BY <2>4, <2>5 DEF QuestionInv
<1> QED BY <1>1, <1>2, <1>3, <1>4, <1>5, <1>6

\* The end of a session, and the stop of a member.
LEMMA SessionStepsKeep ==
  ASSUME QuestionInv, NEW s \in Sessions, SessionEnds(s) \/ MemberStopped(s)
  PROVE  QuestionInv'
<1> DEFINE R == {r \in OpenNow(desk) : SessionOf[r] = s}
<1>0. desk.window \in Clocks \cup {None} /\ R \in SUBSET Requests
  BY DEF QuestionInv, SoundDesk, Desks, OpenNow, OpenOn
<1>1. /\ desk' = Closed(desk, desk.window, R)
      /\ batch' = Disturbed(desk.window, R)
      /\ route' = RouteAfter(desk.window, R)
      /\ Counted(R)
  BY DEF SessionEnds, MemberStopped
<1> HIDE DEF R
<1>2. SoundDesk(desk')
  BY <1>0, <1>1, ClosedKeeps DEF QuestionInv
<1>3. WorkOK'
  BY <1>1, DisturbedTyped, RouteTyped DEF QuestionInv, WorkOK
<1>4. CASE SessionEnds(s)
  <2>1. HistoryOK'
    BY <1>1, <1>4, CountedTyped DEF SessionEnds, QuestionInv
  <2>2. OutsideOK'
    BY <1>4 DEF SessionEnds, QuestionInv, OutsideOK, daemon
  <2> QED BY <1>2, <1>3, <2>1, <2>2 DEF QuestionInv
<1>5. CASE MemberStopped(s)
  <2>1. HistoryOK'
    <3>1. Closings(R) \in [Requests -> 0 .. 2]
      BY DEF Closings, QuestionInv, HistoryOK
    <3>2. closings' = Closings(R) /\ promised' = promised \ R /\ givenUp' = givenUp \cup R
      BY <1>1, <1>5 DEF MemberStopped, Counted, R
    <3> QED BY <1>0, <3>1, <3>2 DEF QuestionInv, HistoryOK
  <2>2. OutsideOK'
    BY <1>5 DEF MemberStopped, QuestionInv, OutsideOK, daemon
  <2> QED BY <1>2, <1>3, <2>1, <2>2 DEF QuestionInv
<1> QED BY <1>4, <1>5

\* The end of an answer's call, with the expiry it may have to start.
LEMMA RouteStepsKeep ==
  ASSUME QuestionInv, RouteReturns
  PROVE  QuestionInv'
<1>0. /\ desk \in Desks /\ SoundDesk(desk) /\ WorkOK
      /\ route.clock \in Clocks \cup {None} /\ route.req \in Requests \cup {None}
      /\ NoRoute \in [req : Requests \cup {None}, clock : Clocks \cup {None}, holds : BOOLEAN]
  BY DEF QuestionInv, SoundDesk, WorkOK, NoRoute
<1>1. CASE RouteSucceeds
  <2>0. route.req \in Requests
    BY <1>0, <1>1 DEF RouteSucceeds
  <2>1. OutsideOK'
    BY <1>1, <2>0 DEF RouteSucceeds, QuestionInv, OutsideOK, daemon
  <2>2. CASE StillClaimed
    <3>1. /\ desk' = Closed(desk, route.clock, {route.req})
          /\ batch' = Disturbed(route.clock, {route.req})
          /\ Counted({route.req}) /\ route' = NoRoute /\ UNCHANGED givenUp
      BY <1>1, <2>2 DEF RouteSucceeds
    <3>2. SoundDesk(desk')
      BY <1>0, <2>0, <3>1, ClosedKeeps
    <3>3. WorkOK'
      BY <1>0, <3>1, DisturbedTyped DEF WorkOK
    <3>4. HistoryOK'
      BY <3>1, CountedTyped DEF QuestionInv
    <3> QED BY <2>1, <3>2, <3>3, <3>4 DEF QuestionInv
  <2>3. CASE ~StillClaimed
    <3>1. UNCHANGED <<desk, batch, closings, promised, givenUp>> /\ route' = NoRoute
      BY <1>1, <2>3 DEF RouteSucceeds
    <3> QED BY <1>0, <2>1, <3>1 DEF QuestionInv, WorkOK, HistoryOK
  <2> QED BY <2>2, <2>3
<1>2. ASSUME NEW b \in Batches, RouteFails(b) PROVE QuestionInv'
  <2>0. route.req \in Requests
    BY <1>0, <1>2 DEF RouteFails
  <2>1. OutsideOK' /\ HistoryOK' /\ route' = NoRoute
    BY <1>2, <2>0 DEF RouteFails, QuestionInv, OutsideOK, HistoryOK, daemon, history
  <2>2. SoundDesk(desk') /\ batch' \in [Batches -> BatchRecords]
    <3> DEFINE c == route.clock
               d == Put(desk, c, {route.req}, "pending")
    <3>1. SoundDesk(d)
      BY <1>0, <2>0, PutKeeps
    <3>2. CASE ~StillClaimed
      BY <1>0, <1>2, <3>2 DEF RouteFails, WorkOK
    <3>3. CASE StillClaimed /\ d.clock[c].due /\ ~d.clock[c].stopped
      <4>1. Expired(d, c, b)
        BY <1>2, <3>3 DEF RouteFails
      <4> HIDE DEF d
      <4> QED BY <1>0, <3>1, <4>1, ExpiredKeeps
    <3>4. CASE StillClaimed /\ ~(d.clock[c].due /\ ~d.clock[c].stopped)
      <4> DEFINE armed == ~d.clock[c].stopped
                 clocks == [d.clock EXCEPT ![c].armed = armed]
      <4>1. desk' = [d EXCEPT !.clock = clocks] /\ UNCHANGED batch
        BY <1>2, <3>4 DEF RouteFails
      <4>2. clocks \in [Clocks -> ClockRecords]
        <5>1. d.clock \in [Clocks -> ClockRecords]
          BY <3>1 DEF SoundDesk, Desks, ClockRecords
        <5> HIDE DEF d
        <5>2. c \in Clocks => [d.clock[c] EXCEPT !.armed = armed] \in ClockRecords
          BY <5>1 DEF ClockRecords
        <5> QED BY <5>1, <5>2
      <4>3. desk' \in Desks /\ desk'.window = d.window /\ desk'.state = d.state
              /\ desk'.waitRow = d.waitRow
        <5> HIDE DEF d, clocks
        <5> QED BY <3>1, <4>1, <4>2 DEF SoundDesk, Desks, ClockRecords
      <4>4. SoundDesk(desk')
        <5> HIDE DEF d
        <5> QED BY <3>1, <4>3 DEF SoundDesk, OpenNow, OpenOn
      <4> QED BY <1>0, <4>1, <4>4 DEF WorkOK
    <3> QED BY <3>2, <3>3, <3>4
  <2> QED BY <1>0, <2>1, <2>2 DEF QuestionInv, WorkOK
<1> QED BY <1>1, <1>2 DEF RouteReturns

\* The deadline of a clock passes.
LEMMA DeadlineKeeps ==
  ASSUME QuestionInv, NEW c \in Clocks, DeadlinePasses(c)
  PROVE  QuestionInv'
<1>0. desk \in Desks /\ SoundDesk(desk) /\ desk.clock \in [Clocks -> ClockRecords]
  BY DEF QuestionInv, SoundDesk, Desks, ClockRecords
<1> DEFINE clocks == [desk.clock EXCEPT ![c].due = TRUE]
<1>1. clocks \in [Clocks -> ClockRecords]
  BY <1>0 DEF ClockRecords
<1>2. desk' = [desk EXCEPT !.clock = clocks]
  BY DEF DeadlinePasses
<1>3. desk' \in Desks /\ desk'.window = desk.window /\ desk'.state = desk.state
        /\ desk'.waitRow = desk.waitRow
  <2> HIDE DEF clocks
  <2> QED BY <1>0, <1>1, <1>2 DEF Desks, ClockRecords
<1>4. SoundDesk(desk')
  BY <1>0, <1>3 DEF SoundDesk, OpenNow, OpenOn
<1> QED BY <1>4 DEF DeadlinePasses, QuestionInv, OutsideOK, WorkOK, HistoryOK, daemon, history

\* The expiry of a clock, and a teardown.
LEMMA ClockStepsKeep ==
  ASSUME QuestionInv, NEW b \in Batches,
         (\E c \in Clocks : Expire(c, b)) \/ Teardown(b)
  PROVE  QuestionInv'
<1>0. /\ desk \in Desks /\ SoundDesk(desk) /\ WorkOK
      /\ desk.window \in Clocks \cup {None} /\ desk.clock \in [Clocks -> ClockRecords]
  BY DEF QuestionInv, SoundDesk, Desks, ClockRecords
<1>1. ASSUME NEW c \in Clocks, Expire(c, b) PROVE QuestionInv'
  <2>1. SoundDesk(desk') /\ batch' \in [Batches -> BatchRecords]
    BY <1>0, <1>1, ExpiredKeeps DEF Expire
  <2> QED BY <1>1, <2>1 DEF Expire, QuestionInv, OutsideOK, WorkOK, HistoryOK, daemon, history
<1>2. CASE Teardown(b)
  <2> DEFINE c == desk.window
             D == OpenNow(desk)
             clocks == [desk.clock EXCEPT ![c].armed = FALSE]
             e == [desk EXCEPT !.clock = clocks]
  <2>1. c \in Clocks /\ D \in SUBSET Requests
    BY <1>0, <1>2 DEF Teardown, OpenNow, OpenOn
  <2>2. clocks \in [Clocks -> ClockRecords]
    BY <1>0, <2>1 DEF ClockRecords
  <2>3. SoundDesk(e)
    <3>1. e \in Desks /\ e.window = desk.window /\ e.state = desk.state /\ e.waitRow = desk.waitRow
      <4> HIDE DEF clocks
      <4> QED BY <1>0, <2>2 DEF Desks, ClockRecords
    <3> HIDE DEF e
    <3> QED BY <1>0, <3>1 DEF SoundDesk, OpenNow, OpenOn
  <2>4. /\ desk' = Put(e, c, D, "resolving") /\ Started(b, c, D)
        /\ route' = RouteAfter(c, D)
    BY <1>2 DEF Teardown
  <2>5. SoundDesk(desk')
    <3> HIDE DEF e
    <3> QED BY <2>1, <2>3, <2>4, PutKeeps
  <2>6. WorkOK'
    <3> HIDE DEF D, c
    <3> QED BY <1>0, <2>1, <2>4, StartedTyped, RouteTyped DEF WorkOK
  <2> QED BY <1>2, <2>5, <2>6 DEF Teardown, QuestionInv, OutsideOK, HistoryOK, daemon, history
<1> QED BY <1>1, <1>2

\* The refusals.
LEMMA BatchStepsKeep ==
  ASSUME QuestionInv, NEW b \in Batches, BatchAnswered(b)
  PROVE  QuestionInv'
<1> DEFINE r == batch[b].req
           c == batch[b].clock
<1>0. /\ desk \in Desks /\ SoundDesk(desk) /\ WorkOK
      /\ batch[b] \in BatchRecords /\ c \in Clocks \cup {None} /\ r \in Requests \cup {None}
  BY DEF QuestionInv, SoundDesk, WorkOK, BatchRecords
<1>00. r \in Requests
  BY <1>0 DEF BatchAnswered, RefusalLands, RefusalFails, AbortConfirmed, AbortUnconfirmed
<1>1. CASE RefusalLands(b)
  <2>1. SoundDesk(desk') /\ WorkOK' /\ HistoryOK'
    BY <1>00, <1>1, ConcludedKeeps DEF RefusalLands
  <2> QED BY <1>00, <1>1, <2>1 DEF RefusalLands, QuestionInv, OutsideOK, daemon
<1>2. CASE RefusalFails(b)
  <2>1. batch' \in [Batches -> BatchRecords]
    <3>1. CASE batch[b].intact
      <4>1. [batch[b] EXCEPT !.step = "abort"] \in BatchRecords
        BY <1>0 DEF BatchRecords
      <4> QED BY <1>0, <1>2, <3>1, <4>1 DEF RefusalFails, WorkOK
    <3>2. CASE ~batch[b].intact
      BY <1>0, <1>2, <3>2, OnwardTyped DEF RefusalFails, WorkOK
    <3> QED BY <3>1, <3>2
  <2> QED BY <1>2, <2>1 DEF RefusalFails, QuestionInv, OutsideOK, WorkOK, HistoryOK, daemon, history
<1>3. CASE AbortConfirmed(b)
  <2>1. SoundDesk(desk') /\ WorkOK' /\ HistoryOK'
    BY <1>00, <1>3, ConcludedKeeps DEF AbortConfirmed
  <2>2. OutsideOK'
    BY <1>3 DEF AbortConfirmed, QuestionInv, OutsideOK, daemon
  <2> QED BY <2>1, <2>2 DEF QuestionInv
<1>4. CASE AbortUnconfirmed(b)
  <2>1. OutsideOK' /\ HistoryOK'
    BY <1>4 DEF AbortUnconfirmed, QuestionInv, OutsideOK, HistoryOK, daemon, history
  <2>2. CASE batch[b].intact
    <3> DEFINE states == [desk.state EXCEPT ![c][r] = IF @ = "absent" THEN @ ELSE "pending"]
               saved  == [desk.saved EXCEPT ![r] = "pending"]
               clocks == [desk.clock EXCEPT ![c] = IF @.stopped THEN @ ELSE FullClock]
    <3>1. /\ desk' = [desk EXCEPT !.state = states, !.saved = saved, !.clock = clocks,
                                  !.savedClock = c]
          /\ route' = RouteAfter(c, {r})
          /\ Onward(Disturbed(c, {r}), b)
      BY <1>4, <2>2 DEF AbortUnconfirmed
    <3>2. WorkOK'
      BY <1>0, <3>1, DisturbedTyped, OnwardTyped, RouteTyped DEF WorkOK
    <3>3. clocks \in [Clocks -> ClockRecords]
      <4>1. desk.clock \in [Clocks -> ClockRecords] /\ FullClock \in ClockRecords
        BY <1>0 DEF Desks, ClockRecords, FullClock
      <4> HIDE DEF c
      <4> QED BY <4>1
    <3>4. /\ states \in [Clocks -> [Requests -> RequestStates]]
          /\ saved \in [Requests -> {"none", "pending", "resolved"}]
          /\ \A k \in Clocks, q \in Requests :
               desk.state[k][q] # "absent" => states[k][q] # "absent"
      <4>1. desk.state \in [Clocks -> [Requests -> RequestStates]]
        BY <1>0 DEF Desks
      <4>2. desk.saved \in [Requests -> {"none", "pending", "resolved"}]
        BY <1>0 DEF Desks
      <4>3. c \in Clocks => [desk.state[c] EXCEPT ![r] = IF @ = "absent" THEN @ ELSE "pending"]
                              \in [Requests -> RequestStates]
        BY <1>00, <4>1 DEF RequestStates
      <4> HIDE DEF c, r
      <4> QED BY <1>00, <4>1, <4>2, <4>3
    <3>5. desk' \in Desks /\ desk'.window = desk.window /\ desk'.state = states
            /\ desk'.waitRow = desk.waitRow
      <4> HIDE DEF states, saved, clocks, c
      <4> QED BY <1>0, <3>1, <3>3, <3>4 DEF Desks, ClockRecords
    <3>6. SoundDesk(desk')
      <4>1. ASSUME desk.window # None PROVE OpenNow(desk') # {}
        <5>1. PICK q \in Requests : desk.state[desk.window][q] # "absent"
          BY <1>0, <4>1 DEF SoundDesk, OpenNow, OpenOn
        <5>2. desk.window \in Clocks
          BY <1>0, <4>1 DEF Desks
        <5> HIDE DEF states
        <5> QED BY <3>4, <3>5, <4>1, <5>1, <5>2 DEF OpenNow, OpenOn
      <4> QED BY <1>0, <3>5, <4>1 DEF SoundDesk
    <3> QED BY <2>1, <3>2, <3>6 DEF QuestionInv
  <2>3. CASE ~batch[b].intact
    <3>1. Onward(batch, b) /\ UNCHANGED <<desk, route>>
      BY <1>4, <2>3 DEF AbortUnconfirmed
    <3>2. WorkOK'
      BY <1>0, <3>1, OnwardTyped DEF WorkOK
    <3> QED BY <1>0, <2>1, <3>1, <3>2 DEF QuestionInv
  <2> QED BY <2>2, <2>3
<1> QED BY <1>1, <1>2, <1>3, <1>4 DEF BatchAnswered

\* A poll: what it closes and attaches.
LEMMA PollKeeps ==
  ASSUME QuestionInv, NEW verified \in SUBSET Sessions, NEW listed \in SUBSET Requests,
         Poll(verified, listed)
  PROVE  QuestionInv'
<1> DEFINE active == {s \in Sessions : session[s] # "ended"}
           gone   == Unlisted(verified, active, listed)
           kept   == Closed(desk, desk.window, gone)
<1>1. gone \in SUBSET Requests /\ desk.window \in Clocks \cup {None}
  BY DEF Unlisted, OpenNow, OpenOn, QuestionInv, SoundDesk, Desks
<1>2. /\ HasClock(kept)
      /\ desk' = Attached(kept, listed, FullClock, FALSE)
      /\ batch' = Disturbed(desk.window, gone)
      /\ CountedAndJoined(gone)
      /\ UNCHANGED <<remote, session, frames, daemon, route, givenUp>>
  BY DEF Poll
<1> HIDE DEF gone
<1>3. SoundDesk(kept) /\ FullClock \in ClockRecords
  BY <1>1, ClosedKeeps DEF QuestionInv, FullClock, ClockRecords
<1> HIDE DEF kept
<1>4. SoundDesk(desk')
  BY <1>2, <1>3, AttachedKeeps
<1>5. HistoryOK'
  BY <1>2, CountedAndJoinedTyped DEF QuestionInv
<1>6. OutsideOK' /\ WorkOK'
  BY <1>2, DisturbedTyped DEF QuestionInv, OutsideOK, WorkOK, daemon
<1> QED BY <1>4, <1>5, <1>6 DEF QuestionInv

\* A crash leaves the records, the clock and the row, and no window.
LEMMA CrashKeeps ==
  ASSUME QuestionInv, Crash
  PROVE  QuestionInv'
<1> DEFINE states == [c \in Clocks |-> [r \in Requests |-> "absent"]]
           clocks == [c \in Clocks |-> IF c = desk.savedClock
                                          THEN [desk.clock[c] EXCEPT !.armed = FALSE] ELSE IdleClock]
<1>1. desk.clock \in [Clocks -> ClockRecords] /\ desk \in Desks /\ IdleClock \in ClockRecords
  BY DEF QuestionInv, SoundDesk, Desks, ClockRecords, IdleClock
<1>2. clocks \in [Clocks -> ClockRecords]
  <2>1. \A c \in Clocks : [desk.clock[c] EXCEPT !.armed = FALSE] \in ClockRecords
    BY <1>1 DEF ClockRecords
  <2> QED BY <1>1, <2>1
<1>3. states \in [Clocks -> [Requests -> RequestStates]]
  BY DEF RequestStates
<1>4. desk' = [desk EXCEPT !.window = None, !.depth = 0, !.state = states, !.clock = clocks]
  BY DEF Crash
<1>5. SoundDesk(desk')
  <2> HIDE DEF states, clocks
  <2> QED BY <1>1, <1>2, <1>3, <1>4 DEF SoundDesk, Desks, ClockRecords
<1>6. WorkOK'
  BY NoWorkTyped DEF Crash, QuestionInv, WorkOK, NoRoute
<1>7. OutsideOK'
  <2>1. restarts' \in 0 .. MaxRestarts
    BY QuestionAssumption DEF Crash, QuestionInv, OutsideOK
  <2> QED BY <2>1 DEF Crash, QuestionInv, OutsideOK
<1>8. HistoryOK'
  BY DEF Crash, QuestionInv, HistoryOK, history
<1> QED BY <1>5, <1>6, <1>7, <1>8 DEF QuestionInv

\* The start: what is put back on a clock keeps its row.
LEMMA BootKeeps ==
  ASSUME QuestionInv, NEW back \in SUBSET Sessions, NEW heard \in SUBSET Sessions,
         NEW refused \in SUBSET Requests, NEW late \in BOOLEAN,
         Boot(back, heard, refused, late)
  PROVE  QuestionInv'
<1> DEFINE open    == {r \in Requests : remote[r] = "open" /\ SessionOf[r] \in heard}
           lost    == {r \in open : SessionOf[r] \notin back}
           saved   == desk.savedClock
           restore == saved # None
           start   == IF restore THEN Restored(desk.clock[saved], late) ELSE FullClock
           d       == Attached(desk, open \ lost, start, restore)
           row     == RowAfterStart(d, heard # Sessions \/ refused # lost)
<1>1. start \in ClockRecords
  <2>1. desk.clock \in [Clocks -> ClockRecords] /\ saved \in Clocks \cup {None}
    BY DEF QuestionInv, SoundDesk, Desks, ClockRecords
  <2> HIDE DEF saved
  <2> QED BY <2>1 DEF Restored, FullClock, ClockRecords
<1>2. SoundDesk(d)
  <2>1. HasClock(desk) /\ SoundDesk(desk) /\ restore \in BOOLEAN
    BY DEF Boot, QuestionInv
  <2>2. (open \ lost) \in SUBSET Requests
    OBVIOUS
  <2> HIDE DEF start, open, lost, restore
  <2> QED BY <1>1, <2>1, <2>2, AttachedKeeps
<1>3. desk' = [d EXCEPT !.waitRow = row]
  BY DEF Boot
<1> HIDE DEF d
<1>4. row \in BOOLEAN /\ (d.window # None => row)
  BY <1>2 DEF RowAfterStart, SoundDesk
<1>5. SoundDesk(desk')
  <2> HIDE DEF row
  <2>1. desk' \in Desks /\ desk'.window = d.window /\ desk'.state = d.state /\ desk'.waitRow = row
    BY <1>2, <1>3, <1>4 DEF SoundDesk, Desks
  <2> QED BY <1>2, <1>4, <2>1 DEF SoundDesk, OpenNow, OpenOn
<1>6. OutsideOK'
  BY DEF Boot, QuestionInv, OutsideOK
<1>7. HistoryOK'
  BY CountedTyped DEF Boot, QuestionInv
<1>8. WorkOK'
  BY DEF Boot, QuestionInv, WorkOK
<1> QED BY <1>5, <1>6, <1>7, <1>8 DEF QuestionInv

LEMMA StepKeeps == QuestionInv /\ [Next]_vars => QuestionInv'
<1> SUFFICES ASSUME QuestionInv, [Next]_vars PROVE QuestionInv'
  OBVIOUS
<1>1. CASE UNCHANGED vars
  BY <1>1 DEF vars, daemon, history, QuestionInv, OutsideOK, WorkOK, HistoryOK
<1>2. ASSUME NEW r \in Requests,
             \/ Ask(r) \/ AnsweredElsewhere(r) \/ AskedArrives(r)
             \/ ClosedArrives(r) \/ RouteClaims(r)
      PROVE  QuestionInv'
  BY <1>2, OutsideStepsKeep
<1>3. CASE StopClock
  <2>1. \E r \in Requests : TRUE
    BY <1>3 DEF StopClock, QuestionInv, SoundDesk, OpenNow, OpenOn
  <2> QED BY <1>3, <2>1, OutsideStepsKeep
<1>4. ASSUME NEW s \in Sessions, SessionEnds(s) \/ MemberStopped(s) PROVE QuestionInv'
  BY <1>4, SessionStepsKeep
<1>5. CASE RouteReturns
  BY <1>5, RouteStepsKeep
<1>6. CASE Crash
  BY <1>6, CrashKeeps
<1>7. ASSUME NEW c \in Clocks, DeadlinePasses(c) \/ \E b \in Batches : Expire(c, b)
      PROVE  QuestionInv'
  BY <1>7, DeadlineKeeps, ClockStepsKeep
<1>8. ASSUME NEW b \in Batches, Teardown(b) \/ BatchAnswered(b) PROVE QuestionInv'
  BY <1>8, ClockStepsKeep, BatchStepsKeep
<1>9. ASSUME NEW verified \in SUBSET Sessions, NEW listed \in SUBSET Requests,
             Poll(verified, listed)
      PROVE  QuestionInv'
  BY <1>9, PollKeeps
<1>10. ASSUME NEW back \in SUBSET Sessions, NEW heard \in SUBSET Sessions,
              NEW refused \in SUBSET Requests, NEW late \in BOOLEAN,
              Boot(back, heard, refused, late)
       PROVE  QuestionInv'
  BY <1>10, BootKeeps
<1> QED BY <1>1, <1>2, <1>3, <1>4, <1>5, <1>6, <1>7, <1>8, <1>9, <1>10 DEF Next

\* Every variable has its type, and no entry of a step outlasts its questions.
THEOREM QuestionsTyped == Spec => []TypeOK
<1>1. QuestionInv => TypeOK
  BY DEF QuestionInv, OutsideOK, WorkOK, HistoryOK, SoundDesk, TypeOK
<1> QED BY <1>1, InitSound, StepKeeps, PTL DEF Spec

\* While a question is open, the row of its wait is: across restarts, whatever
\* could be listed and refused at the start, and whatever lapses arise.
THEOREM WaitRecorded == Spec => []WaitIsOnRecord
<1>1. QuestionInv => WaitIsOnRecord
  BY DEF QuestionInv, SoundDesk, WaitIsOnRecord, OpenNow
<1> QED BY <1>1, InitSound, StepKeeps, PTL DEF Spec

-----------------------------------------------------------------------------
(* What each operator leaves on the desk, field by field.                   *)

LEMMA PutEffect ==
  ASSUME NEW d \in Desks, NEW c \in Clocks \cup {None}, NEW R \in SUBSET Requests, NEW s
  PROVE  LET p == Put(d, c, R, s) IN
         /\ \A k \in Clocks, r \in Requests :
              p.state[k][r] = IF k = c /\ r \in R THEN s ELSE d.state[k][r]
         /\ p.window = d.window /\ p.clock = d.clock /\ p.depth = d.depth
         /\ p.saved = d.saved /\ p.savedClock = d.savedClock
<1> DEFINE row    == [r \in Requests |-> IF r \in R THEN s ELSE d.state[c][r]]
           states == [d.state EXCEPT ![c] = row]
<1>1. Put(d, c, R, s) = [d EXCEPT !.state = states]
  BY DEF Put
<1>2. \A k \in Clocks, r \in Requests :
        states[k][r] = IF k = c /\ r \in R THEN s ELSE d.state[k][r]
  BY QuestionAssumption DEF Desks
<1> HIDE DEF states
<1> QED BY <1>1, <1>2 DEF Desks

LEMMA ClosedEffect ==
  ASSUME NEW d \in Desks, NEW c \in Clocks \cup {None}, NEW R \in SUBSET Requests, R # {}
  PROVE  LET q    == Closed(d, c, R)
             left == OpenOn(d, c) \ R
         IN /\ \A k \in Clocks, r \in Requests :
                 q.state[k][r] = IF k = c /\ r \in R THEN "absent" ELSE d.state[k][r]
            /\ c \in Clocks => q.window = IF left = {} THEN None ELSE d.window
            /\ \A k \in Clocks :
                 /\ q.clock[k].stopped = d.clock[k].stopped
                 /\ q.clock[k].armed = (d.clock[k].armed /\ (k = c => left # {}))
            /\ q.depth = Resumed(d.depth, Cardinality(R))
            /\ \A r \in Requests : q.saved[r] = IF r \in R THEN "resolved" ELSE d.saved[r]
            /\ q.savedClock = c
<1> DEFINE left   == OpenOn(d, c) \ R
           f      == Put(d, c, R, "absent")
           empty  == OpenOn(f, c) = {}
           window == IF empty THEN None ELSE f.window
           clocks == [f.clock EXCEPT ![c].armed = @ /\ ~empty]
           g      == [f EXCEPT !.window = window, !.clock = clocks]
           depth  == Resumed(g.depth, Cardinality(R))
           saved  == [r \in Requests |-> IF r \in R THEN "resolved" ELSE g.saved[r]]
           open   == g.waitRow /\ OpenNow(g) # {}
           q      == [g EXCEPT !.depth = depth, !.saved = saved, !.savedClock = c,
                               !.waitRow = open]
<1>1. Closed(d, c, R) = q
  BY DEF Closed
<1>2. /\ \A k \in Clocks, r \in Requests :
           f.state[k][r] = IF k = c /\ r \in R THEN "absent" ELSE d.state[k][r]
      /\ f.window = d.window /\ f.clock = d.clock /\ f.depth = d.depth /\ f.saved = d.saved
  <2> HIDE DEF f
  <2> QED BY PutEffect DEF f
<1>3. c \in Clocks => empty = (left = {})
  <2>1. c \in Clocks => OpenOn(f, c) = left
    <3> HIDE DEF f
    <3> QED BY <1>2 DEF OpenOn
  <2> QED BY <2>1
<1>4. DOMAIN f = DOMAIN d
  BY DEF Put
<1>5. DOMAIN d = {"clock", "state", "window", "depth", "saved", "savedClock", "waitRow"}
  BY DEF Desks
<1> HIDE DEF f, empty
<1>6. /\ q.state = f.state /\ q.window = window /\ q.clock = clocks /\ q.depth = depth
      /\ q.saved = saved /\ q.savedClock = c /\ g.depth = f.depth /\ g.saved = f.saved
  <2> HIDE DEF depth, saved, open, window, clocks
  <2> QED BY <1>4, <1>5
<1>7. d.clock \in [Clocks -> ClockRecords]
  BY DEF Desks, ClockRecords
<1>8. \A k \in Clocks :
        /\ clocks[k].stopped = d.clock[k].stopped
        /\ clocks[k].armed = (d.clock[k].armed /\ (k = c => ~empty))
  <2> SUFFICES ASSUME NEW k \in Clocks
               PROVE  /\ clocks[k].stopped = d.clock[k].stopped
                      /\ clocks[k].armed = (d.clock[k].armed /\ (k = c => ~empty))
    OBVIOUS
  <2>1. d.clock[k] \in ClockRecords
    BY <1>7
  <2>2. CASE k = c
    <3>1. clocks[k] = [d.clock[k] EXCEPT !.armed = @ /\ ~empty]
      BY <1>2, <1>7, <2>2
    <3>2. CASE empty
      BY <2>1, <2>2, <3>1, <3>2 DEF ClockRecords
    <3>3. CASE ~empty
      BY <2>1, <2>2, <3>1, <3>3 DEF ClockRecords
    <3> QED BY <3>2, <3>3
  <2>3. CASE k # c
    <3>1. clocks[k] = d.clock[k]
      BY <1>2, <1>7, <2>3
    <3> QED BY <2>1, <2>3, <3>1 DEF ClockRecords
  <2> QED BY <2>2, <2>3
<1>9. \A r \in Requests : saved[r] = IF r \in R THEN "resolved" ELSE d.saved[r]
  BY <1>2, <1>6
<1>10. c \in Clocks => window = IF left = {} THEN None ELSE d.window
  BY <1>2, <1>3
<1> HIDE DEF q, window, clocks, saved, g, left, depth
<1>11. depth = Resumed(d.depth, Cardinality(R))
  BY <1>2, <1>6 DEF depth
<1>12. /\ \A k \in Clocks, r \in Requests :
            q.state[k][r] = IF k = c /\ r \in R THEN "absent" ELSE d.state[k][r]
       /\ c \in Clocks => q.window = IF left = {} THEN None ELSE d.window
       /\ q.depth = Resumed(d.depth, Cardinality(R)) /\ q.savedClock = c
  BY <1>2, <1>6, <1>10, <1>11
<1>13. \A k \in Clocks :
         /\ q.clock[k].stopped = d.clock[k].stopped
         /\ q.clock[k].armed = (d.clock[k].armed /\ (k = c => left # {}))
  BY <1>3, <1>6, <1>8
<1>14. \A r \in Requests : q.saved[r] = IF r \in R THEN "resolved" ELSE d.saved[r]
  BY <1>6, <1>9
<1> QED BY <1>1, <1>12, <1>13, <1>14 DEF left

LEMMA ArmedEffect ==
  ASSUME NEW d \in Desks, HasClock(d), NEW start \in ClockRecords, NEW restored \in BOOLEAN
  PROVE  LET a == Armed(d, start, restored)
             w == a.window
         IN /\ w \in Clocks
            /\ d.window # None => w = d.window
            /\ d.window = None => ~Busy(d, w)
            /\ a.state = d.state /\ a.depth = d.depth /\ a.saved = d.saved
            /\ a.clock[w] = IF d.window = None THEN start
                            ELSE IF restored \/ d.clock[w].stopped THEN d.clock[w]
                            ELSE FullClock
            /\ \A k \in Clocks : k # w => a.clock[k] = d.clock[k] \/ a.clock[k] = IdleClock
<1> DEFINE a == Armed(d, start, restored)
           w == a.window
<1>1. w \in Clocks
  BY ArmedKeeps
<1>2. CASE d.window = None
  <2> DEFINE c == FreeClock(d)
             clocks == [k \in Clocks |-> IF k = c THEN start
                                         ELSE IF Busy(d, k) THEN d.clock[k] ELSE IdleClock]
  <2>1. c \in Clocks /\ ~Busy(d, c)
    <3>1. \E k \in Clocks : ~Busy(d, k)
      BY <1>2 DEF HasClock
    <3> HIDE DEF Busy
    <3> QED BY <3>1 DEF FreeClock
  <2>2. a = [d EXCEPT !.window = c, !.clock = clocks]
    BY <1>2 DEF Armed
  <2> HIDE DEF c, Busy
  <2>3. /\ clocks[c] = start
        /\ \A k \in Clocks : k # c => clocks[k] = d.clock[k] \/ clocks[k] = IdleClock
    BY <2>1
  <2> HIDE DEF clocks
  <2>4. w = c /\ a.clock = clocks /\ a.state = d.state /\ a.depth = d.depth /\ a.saved = d.saved
    BY <2>2 DEF Desks
  <2> HIDE DEF a
  <2> QED BY <1>2, <2>1, <2>3, <2>4 DEF a
<1>3. CASE d.window # None /\ (restored \/ d.clock[d.window].stopped)
  <2>1. a = d
    BY <1>3 DEF Armed
  <2> HIDE DEF a, Busy
  <2> QED BY <1>1, <1>3, <2>1 DEF a
<1>4. CASE d.window # None /\ ~(restored \/ d.clock[d.window].stopped)
  <2> DEFINE clocks == [d.clock EXCEPT ![d.window] = FullClock]
  <2>1. a = [d EXCEPT !.clock = clocks]
    BY <1>4 DEF Armed
  <2>2. d.window \in Clocks
    BY <1>4 DEF Desks
  <2>3. /\ clocks[d.window] = FullClock
        /\ \A k \in Clocks : k # d.window => clocks[k] = d.clock[k]
    BY <2>2 DEF Desks
  <2> HIDE DEF clocks
  <2>4. w = d.window /\ a.clock = clocks /\ a.state = d.state /\ a.depth = d.depth
          /\ a.saved = d.saved
    BY <2>1 DEF Desks
  <2> HIDE DEF a, Busy
  <2> QED BY <1>4, <2>2, <2>3, <2>4 DEF a
<1> HIDE DEF a
<1> QED BY <1>2, <1>3, <1>4 DEF a

LEMMA AttachedEffect ==
  ASSUME NEW d \in Desks, HasClock(d), NEW asked \in SUBSET Requests,
         NEW start \in ClockRecords, NEW restored \in BOOLEAN, Welcome(d, asked) # {}
  PROVE  LET q == Attached(d, asked, start, restored)
             w == q.window
             W == Welcome(d, asked)
         IN /\ w \in Clocks
            /\ d.window # None => w = d.window
            /\ d.window = None => ~Busy(d, w)
            /\ \A k \in Clocks, r \in Requests :
                 q.state[k][r] = IF k = w /\ r \in W THEN "pending" ELSE d.state[k][r]
            /\ q.depth = d.depth + Cardinality(W)
            /\ \A r \in Requests : q.saved[r] = IF r \in W THEN "pending" ELSE d.saved[r]
            /\ q.savedClock = w
            /\ q.clock[w] = IF d.window = None THEN start
                            ELSE IF restored \/ d.clock[w].stopped THEN d.clock[w]
                            ELSE FullClock
            /\ \A k \in Clocks : k # w => q.clock[k] = d.clock[k] \/ q.clock[k] = IdleClock
<1> DEFINE W == Welcome(d, asked)
           a == Armed(d, start, restored)
           w == a.window
           p == Put(a, w, W, "pending")
           saved == [r \in Requests |-> IF r \in W THEN "pending" ELSE p.saved[r]]
           depth == p.depth + Cardinality(W)
           q == [p EXCEPT !.depth = depth, !.saved = saved, !.savedClock = w, !.waitRow = TRUE]
<1>1. a \in Desks
  BY ArmedKeeps
<1>2. /\ w \in Clocks
      /\ d.window # None => w = d.window
      /\ d.window = None => ~Busy(d, w)
      /\ a.state = d.state /\ a.depth = d.depth /\ a.saved = d.saved
      /\ a.clock[w] = IF d.window = None THEN start
                      ELSE IF restored \/ d.clock[w].stopped THEN d.clock[w]
                      ELSE FullClock
      /\ \A k \in Clocks : k # w => a.clock[k] = d.clock[k] \/ a.clock[k] = IdleClock
  <2> HIDE DEF a
  <2> QED BY ArmedEffect DEF a
<1>3. W \in SUBSET Requests
  BY DEF Welcome
<1>4. Attached(d, asked, start, restored) = q
  BY DEF Attached
<1> HIDE DEF a, W, Busy
<1>5. /\ \A k \in Clocks, r \in Requests :
           p.state[k][r] = IF k = w /\ r \in W THEN "pending" ELSE a.state[k][r]
      /\ p.window = w /\ p.clock = a.clock /\ p.depth = a.depth /\ p.saved = a.saved
  <2> HIDE DEF w, p
  <2> QED BY <1>1, <1>2, <1>3, PutEffect DEF p, w
<1>6. DOMAIN p = DOMAIN a
  BY DEF Put
<1>7. DOMAIN a = {"clock", "state", "window", "depth", "saved", "savedClock", "waitRow"}
  BY <1>1 DEF Desks
<1> HIDE DEF p
<1>8. \A r \in Requests : saved[r] = IF r \in W THEN "pending" ELSE d.saved[r]
  BY <1>2, <1>5
<1>9. depth = d.depth + Cardinality(W)
  BY <1>2, <1>5
<1> HIDE DEF saved, depth
<1>10. /\ q.state = p.state /\ q.window = p.window /\ q.clock = p.clock /\ q.depth = depth
       /\ q.saved = saved /\ q.savedClock = w
  BY <1>6, <1>7
<1> HIDE DEF q, w
<1>11. /\ q.window = w /\ q.clock = a.clock /\ q.savedClock = w
       /\ q.depth = d.depth + Cardinality(W)
  BY <1>5, <1>9, <1>10
<1>12. \A k \in Clocks, r \in Requests :
         q.state[k][r] = IF k = w /\ r \in W THEN "pending" ELSE d.state[k][r]
  BY <1>2, <1>5, <1>10
<1>13. \A r \in Requests : q.saved[r] = IF r \in W THEN "pending" ELSE d.saved[r]
  BY <1>8, <1>10
<1> QED BY <1>2, <1>4, <1>11, <1>12, <1>13 DEF W

-----------------------------------------------------------------------------
(* Questions recorded as resolved are over, unless a list was out of date.  *)

\* The question has not reached the desk.
Off(d, r) ==
  d.saved[r] # "resolved" /\ \A c \in Clocks : d.state[c][r] = "absent"

\* Nobody works on the question.
Untouched(bs, r) == \A b \in Batches : bs[b].req # r /\ r \notin bs[b].rest

\* A claim is on a clock.
ClaimHasClock == route.holds => route.clock # None

\* Nothing here is about a question that was not asked in OpenCode, and a frame
\* that says a question is closed is true.
OnlyAsked ==
  \A r \in Requests :
    /\ remote[r] = "unasked" =>
         /\ Off(desk, r) /\ Untouched(batch, r) /\ route.req # r
         /\ <<"asked", r>> \notin frames
    /\ <<"closed", r>> \in frames => remote[r] = "closed"

OverInv == QuestionInv /\ ClaimHasClock /\ OnlyAsked /\ ClosedMeansOver

LEMMA OffStays ==
  ASSUME NEW d \in Desks, NEW c \in Clocks \cup {None}, NEW R \in SUBSET Requests,
         NEW r \in Requests
  PROVE  /\ \A s : Off(d, r) /\ r \notin R => Off(Put(d, c, R, s), r)
         /\ Off(d, r) /\ r \notin R => Off(Closed(d, c, R), r)
         /\ Closed(d, c, R).saved[r] = "resolved" => d.saved[r] = "resolved" \/ r \in R
<1>1. ASSUME NEW s, Off(d, r), r \notin R PROVE Off(Put(d, c, R, s), r)
  BY <1>1, PutEffect DEF Off
<1>2. CASE R = {}
  BY <1>1, <1>2 DEF Closed
<1>3. CASE R # {}
  <2> DEFINE q == Closed(d, c, R)
  <2>1. /\ \A k \in Clocks : q.state[k][r] = IF k = c /\ r \in R THEN "absent" ELSE d.state[k][r]
        /\ q.saved[r] = IF r \in R THEN "resolved" ELSE d.saved[r]
    BY <1>3, ClosedEffect
  <2> HIDE DEF q
  <2>2. Off(d, r) /\ r \notin R => Off(q, r)
    BY <2>1 DEF Off
  <2> QED BY <1>1, <2>1, <2>2 DEF q
<1> QED BY <1>2, <1>3

LEMMA OffAttached ==
  ASSUME NEW d \in Desks, HasClock(d), NEW asked \in SUBSET Requests,
         NEW start \in ClockRecords, NEW restored \in BOOLEAN, NEW r \in Requests
  PROVE  LET q == Attached(d, asked, start, restored) IN
         /\ Off(d, r) /\ r \notin asked => Off(q, r)
         /\ q.saved[r] = "resolved" => d.saved[r] = "resolved"
<1> DEFINE q == Attached(d, asked, start, restored)
<1>1. CASE Welcome(d, asked) = {}
  <2>1. q = d
    BY <1>1 DEF Attached
  <2> QED BY <2>1
<1>2. CASE Welcome(d, asked) # {}
  <2> DEFINE W == Welcome(d, asked)
  <2>1. /\ \A k \in Clocks :
             q.state[k][r] = IF k = q.window /\ r \in W THEN "pending" ELSE d.state[k][r]
        /\ q.saved[r] = IF r \in W THEN "pending" ELSE d.saved[r]
    <3> HIDE DEF W, q
    <3> QED BY <1>2, AttachedEffect DEF W, q
  <2>2. r \in W => r \in asked
    BY DEF Welcome
  <2> HIDE DEF W, q
  <2>3. Off(d, r) /\ r \notin asked => Off(q, r)
    BY <2>1, <2>2 DEF Off
  <2>4. q.saved[r] = "resolved" => d.saved[r] = "resolved"
    BY <2>1
  <2> QED BY <2>3, <2>4 DEF q
<1> QED BY <1>1, <1>2

LEMMA DisturbedUntouched ==
  ASSUME NEW c, NEW R, NEW r, Untouched(batch, r)
  PROVE  Untouched(Disturbed(c, R), r)
<1> SUFFICES ASSUME NEW b \in Batches
             PROVE  Disturbed(c, R)[b].req = batch[b].req /\ Disturbed(c, R)[b].rest = batch[b].rest
  BY DEF Untouched
<1> QED BY DEF Disturbed


LEMMA OnwardUntouched ==
  ASSUME NEW bs \in [Batches -> BatchRecords], NEW b \in Batches, Onward(bs, b),
         NEW r \in Requests, Untouched(bs, r)
  PROVE  Untouched(batch, r)'
<1>1. CASE bs[b].rest = {}
  <2>1. batch' = [bs EXCEPT ![b] = NoBatch]
    BY <1>1 DEF Onward
  <2>2. r # None
    BY QuestionAssumption
  <2> QED BY <2>1, <2>2 DEF Untouched, NoBatch
<1>2. CASE bs[b].rest # {}
  <2>1. PICK q \in bs[b].rest :
          batch' = [bs EXCEPT ![b] = [bs[b] EXCEPT !.req = q, !.rest = bs[b].rest \ {q},
                                               !.step = "refuse", !.intact = TRUE]]
    BY <1>2 DEF Onward
  <2> DEFINE next == [bs[b] EXCEPT !.req = q, !.rest = bs[b].rest \ {q},
                                   !.step = "refuse", !.intact = TRUE]
  <2>2. next.req = q /\ next.rest = bs[b].rest \ {q}
    BY DEF BatchRecords
  <2> HIDE DEF next
  <2>3. batch' = [bs EXCEPT ![b] = next]
    BY <2>1 DEF next
  <2> QED BY <2>2, <2>3 DEF Untouched
<1> QED BY <1>1, <1>2

LEMMA StartedUntouched ==
  ASSUME WorkOK, NEW b \in Batches, NEW c, NEW D \in SUBSET Requests, Started(b, c, D),
         NEW r \in Requests, Untouched(batch, r), r \notin D
  PROVE  Untouched(batch, r)'
<1>1. CASE D = {}
  BY <1>1 DEF Started, Untouched
<1>2. CASE D # {}
  <2>1. PICK q \in D : batch' = [Disturbed(c, D) EXCEPT ![b] =
                          [clock |-> c, req |-> q, rest |-> D \ {q},
                           step |-> "refuse", intact |-> TRUE]]
    BY <1>2 DEF Started
  <2>2. Untouched(Disturbed(c, D), r)
    BY DisturbedUntouched
  <2>3. Disturbed(c, D) \in [Batches -> BatchRecords]
    BY DisturbedTyped
  <2> QED BY <2>1, <2>2, <2>3 DEF Untouched
<1> QED BY <1>1, <1>2

\* A question OpenCode was not asked is not open here.
LEMMA OffIsNotOpen ==
  ASSUME NEW d \in Desks, NEW r \in Requests, Off(d, r)
  PROVE  r \notin OpenNow(d) /\ \A c \in Clocks, s \in {"pending", "resolving"} : r \notin InState(d, c, s)
<1>1. d.window \in Clocks \cup {None}
  BY DEF Desks
<1> QED BY <1>1 DEF Off, OpenNow, OpenOn, InState

LEMMA ExpiredOff ==
  ASSUME QuestionInv, NEW d, SoundDesk(d), NEW c \in Clocks, NEW b \in Batches,
         Expired(d, c, b), NEW r \in Requests, Off(d, r), Untouched(batch, r)
  PROVE  /\ Off(desk, r)' /\ Untouched(batch, r)'
         /\ desk'.saved = d.saved
<1> DEFINE D == IF d.clock[c].stopped THEN {} ELSE InState(d, c, "pending")
           clocks == [d.clock EXCEPT ![c].armed = FALSE]
           e == [d EXCEPT !.clock = clocks]
<1>1. clocks \in [Clocks -> ClockRecords]
  <2>1. d.clock \in [Clocks -> ClockRecords]
    BY DEF SoundDesk, Desks, ClockRecords
  <2>2. [d.clock[c] EXCEPT !.armed = FALSE] \in ClockRecords
    BY <2>1 DEF ClockRecords
  <2> QED BY <2>1, <2>2
<1>2. e \in Desks /\ e.state = d.state /\ e.saved = d.saved
  <2> HIDE DEF clocks
  <2> QED BY <1>1 DEF SoundDesk, Desks, ClockRecords
<1>3. Off(e, r)
  <2> HIDE DEF e
  <2> QED BY <1>2 DEF Off
<1>4. D \in SUBSET Requests /\ r \notin D
  BY OffIsNotOpen DEF InState, SoundDesk
<1>5. desk' = Put(e, c, D, "resolving") /\ Started(b, c, D)
  BY DEF Expired
<1> HIDE DEF e, D
<1>6. Off(Put(e, c, D, "resolving"), r)
  BY <1>2, <1>3, <1>4, OffStays
<1>7. Put(e, c, D, "resolving").saved = e.saved
  BY <1>2, <1>4, PutEffect
<1>8. Untouched(batch, r)'
  BY <1>4, <1>5, StartedUntouched DEF QuestionInv
<1>9. Off(desk', r)
  BY <1>5, <1>6
<1> QED BY <1>2, <1>5, <1>7, <1>8, <1>9 DEF Off


LEMMA RouteAfterFields ==
  ASSUME WorkOK, NEW c, NEW R
  PROVE  /\ RouteAfter(c, R).req = route.req /\ RouteAfter(c, R).clock = route.clock
         /\ RouteAfter(c, R).holds = (route.holds /\ ~(route.clock = c /\ route.req \in R))
BY DEF RouteAfter, WorkOK

LEMMA ConcludedOff ==
  ASSUME QuestionInv, NEW b \in Batches, batch[b].req \in Requests, Concluded(b)
  PROVE  \A q \in Requests :
           /\ desk'.saved[q] = "resolved" => desk.saved[q] = "resolved" \/ q = batch[b].req
           /\ /\ q # batch[b].req /\ Off(desk, q) /\ Untouched(batch, q) /\ route.req # q
              => Off(desk, q)' /\ Untouched(batch, q)' /\ route'.req # q
<1> DEFINE r == batch[b].req
           c == batch[b].clock
<1> SUFFICES ASSUME NEW q \in Requests
             PROVE  /\ desk'.saved[q] = "resolved" => desk.saved[q] = "resolved" \/ q = r
                    /\ /\ q # r /\ Off(desk, q) /\ Untouched(batch, q) /\ route.req # q
                       => Off(desk, q)' /\ Untouched(batch, q)' /\ route'.req # q
  OBVIOUS
<1>0. /\ c \in Clocks \cup {None} /\ desk \in Desks /\ batch \in [Batches -> BatchRecords]
      /\ WorkOK
  BY DEF QuestionInv, SoundDesk, WorkOK, BatchRecords
<1>1. CASE batch[b].intact
  <2>1. /\ desk' = Closed(desk, c, {r}) /\ route' = RouteAfter(c, {r})
        /\ Onward(Disturbed(c, {r}), b)
    BY <1>1 DEF Concluded
  <2>2. /\ q # r /\ Off(desk, q) => Off(Closed(desk, c, {r}), q)
        /\ Closed(desk, c, {r}).saved[q] = "resolved" => desk.saved[q] = "resolved" \/ q = r
    <3> HIDE DEF c
    <3> QED BY <1>0, OffStays
  <2>3. Off(desk', q) => Off(desk, q)'
    BY DEF Off
  <2>4. Disturbed(c, {r}) \in [Batches -> BatchRecords]
    BY <1>0, DisturbedTyped
  <2>5. Untouched(batch, q) => Untouched(batch, q)'
    <3> HIDE DEF c, r
    <3> QED BY <2>1, <2>4, DisturbedUntouched, OnwardUntouched
  <2>6. route'.req = route.req
    BY <1>0, <2>1, RouteAfterFields
  <2> HIDE DEF c, r
  <2> QED BY <2>1, <2>2, <2>3, <2>5, <2>6
<1>2. CASE ~batch[b].intact
  <2>1. Onward(batch, b) /\ UNCHANGED <<desk, route>>
    BY <1>2 DEF Concluded
  <2>2. Untouched(batch, q) => Untouched(batch, q)'
    BY <1>0, <2>1, OnwardUntouched
  <2> QED BY <2>1, <2>2 DEF Off
<1> QED BY <1>1, <1>2

\* What OpenCode, the stream and the user do.
LEMMA OutsideStepsOver ==
  ASSUME OverInv, NEW q \in Requests,
         Ask(q) \/ AnsweredElsewhere(q) \/ AskedArrives(q) \/ ClosedArrives(q) \/ RouteClaims(q)
  PROVE  OnlyAsked' /\ ClosedMeansOver'
<1>0. desk \in Desks /\ desk.window \in Clocks \cup {None} /\ WorkOK /\ OnlyAsked /\ ClosedMeansOver
      /\ QuestionInv /\ remote \in [Requests -> {"unasked", "open", "closed"}]
  BY DEF OverInv, QuestionInv, OutsideOK, SoundDesk, Desks
<1>1. CASE Ask(q)
  <2>1. UNCHANGED <<session, desk, route, batch, givenUp>>
    BY <1>1 DEF Ask, history
  <2>2. \A r \in Requests : Off(desk, r)' = Off(desk, r) /\ Untouched(batch, r)' = Untouched(batch, r)
    BY <2>1 DEF Off, Untouched
  <2>3. \A r \in Requests : r # q => /\ remote'[r] = remote[r]
                                     /\ \A k : <<k, r>> \in frames' => <<k, r>> \in frames
    BY <1>0, <1>1 DEF Ask
  <2>4. /\ remote[q] = "unasked" /\ remote'[q] = "open" /\ q \in Requests
        /\ <<"closed", q>> \in frames' => <<"closed", q>> \in frames
    BY <1>0, <1>1 DEF Ask
  <2>5. OnlyAsked'
    <3> SUFFICES ASSUME NEW r \in Requests
                 PROVE  /\ remote'[r] = "unasked" =>
                             /\ Off(desk, r)' /\ Untouched(batch, r)' /\ route'.req # r
                             /\ <<"asked", r>> \notin frames'
                        /\ <<"closed", r>> \in frames' => remote'[r] = "closed"
      BY DEF OnlyAsked
    <3>1. CASE r = q
      BY <1>0, <2>4, <3>1 DEF OnlyAsked
    <3>2. CASE r # q
      BY <1>0, <2>1, <2>2, <2>3, <3>2 DEF OnlyAsked
    <3> QED BY <3>1, <3>2
  <2>6. desk'.saved[q] # "resolved"
    BY <1>0, <2>1, <2>4 DEF OnlyAsked, Off
  <2>7. ClosedMeansOver'
    BY <1>0, <2>1, <2>3, <2>6 DEF ClosedMeansOver
  <2> QED BY <2>5, <2>7
<1>2. CASE AnsweredElsewhere(q)
  <2>1. UNCHANGED <<session, desk, route, batch, givenUp>>
    BY <1>2 DEF AnsweredElsewhere, history
  <2>2. \A r \in Requests : Off(desk, r)' = Off(desk, r) /\ Untouched(batch, r)' = Untouched(batch, r)
    BY <2>1 DEF Off, Untouched
  <2>3. /\ \A r \in Requests : r # q => remote'[r] = remote[r]
        /\ remote[q] = "open" /\ remote'[q] = "closed"
        /\ \A r \in Requests :
             /\ <<"asked", r>> \in frames' => <<"asked", r>> \in frames
             /\ <<"closed", r>> \in frames' => <<"closed", r>> \in frames \/ r = q
    BY <1>0, <1>2 DEF AnsweredElsewhere
  <2>4. OnlyAsked'
    BY <1>0, <2>1, <2>2, <2>3 DEF OnlyAsked
  <2>5. ClosedMeansOver'
    BY <1>0, <2>1, <2>3 DEF ClosedMeansOver
  <2> QED BY <2>4, <2>5
<1>3. CASE AskedArrives(q)
  <2>1. /\ UNCHANGED <<remote, session, route, batch, givenUp>> /\ frames' \subseteq frames
        /\ desk' = Attached(desk, {q}, FullClock, FALSE) /\ HasClock(desk)
        /\ <<"asked", q>> \in frames
    BY <1>3 DEF AskedArrives
  <2>2. FullClock \in ClockRecords
    BY DEF FullClock, ClockRecords
  <2>3. \A r \in Requests :
          /\ r # q /\ Off(desk, r) => Off(desk', r)
          /\ desk'.saved[r] = "resolved" => desk.saved[r] = "resolved"
    <3> DEFINE a == Attached(desk, {q}, FullClock, FALSE)
    <3>1. \A r \in Requests : /\ Off(desk, r) /\ r \notin {q} => Off(a, r)
                              /\ a.saved[r] = "resolved" => desk.saved[r] = "resolved"
      <4>1. HasClock(desk) /\ {q} \in SUBSET Requests /\ FALSE \in BOOLEAN
        BY <2>1
      <4> HIDE DEF FullClock, HasClock, Attached, Off
      <4> QED BY <1>0, <2>2, <4>1, OffAttached
    <3>2. desk' = a
      BY <2>1
    <3> HIDE DEF a
    <3> QED BY <3>1, <3>2
  <2>4. \A r \in Requests : /\ Off(desk', r) => Off(desk, r)'
                            /\ Untouched(batch, r)' = Untouched(batch, r)
    BY <2>1 DEF Off, Untouched
  <2>5. remote[q] # "unasked"
    BY <1>0, <2>1 DEF OnlyAsked
  <2>6. OnlyAsked'
    BY <1>0, <2>1, <2>3, <2>4, <2>5 DEF OnlyAsked
  <2>7. ClosedMeansOver'
    BY <1>0, <2>1, <2>3 DEF ClosedMeansOver
  <2> QED BY <2>6, <2>7
<1>4. CASE ClosedArrives(q)
  <2>1. /\ UNCHANGED <<remote, session, route, givenUp>> /\ frames' \subseteq frames
        /\ <<"closed", q>> \in frames /\ CloseAtOnce(q)
    BY <1>4 DEF ClosedArrives
  <2>2. remote[q] = "closed"
    BY <1>0, <2>1 DEF OnlyAsked
  <2>3. \A r \in Requests :
          /\ desk'.saved[r] = "resolved" => desk.saved[r] = "resolved" \/ r = q
          /\ r # q /\ Off(desk, r) => Off(desk', r)
          /\ Untouched(batch, r) => Untouched(batch', r)
    <3>1. CASE UNCHANGED <<desk, batch>>
      BY <3>1
    <3>2. CASE desk' = Closed(desk, desk.window, {q}) /\ batch' = Disturbed(desk.window, {q})
      BY <1>0, <3>2, OffStays, DisturbedUntouched
    <3> QED BY <2>1, <3>1, <3>2 DEF CloseAtOnce
  <2>4. \A r \in Requests : /\ Off(desk', r) => Off(desk, r)'
                            /\ Untouched(batch', r) => Untouched(batch, r)'
    BY DEF Off, Untouched
  <2>5. OnlyAsked'
    BY <1>0, <2>1, <2>2, <2>3, <2>4 DEF OnlyAsked
  <2>6. ClosedMeansOver'
    BY <1>0, <2>1, <2>2, <2>3 DEF ClosedMeansOver
  <2> QED BY <2>5, <2>6
<1>5. CASE RouteClaims(q)
  <2>1. /\ UNCHANGED <<remote, session, frames, givenUp>>
        /\ q \in OpenNow(desk) /\ desk' = Put(desk, desk.window, {q}, "resolving")
        /\ batch' = Disturbed(desk.window, {q}) /\ route'.req = q
    BY <1>5 DEF RouteClaims, history
  <2>2. remote[q] # "unasked"
    BY <1>0, <2>1, OffIsNotOpen DEF OnlyAsked
  <2>3. desk'.saved = desk.saved
    BY <1>0, <2>1 DEF Put, Desks
  <2>4. \A r \in Requests : /\ r # q /\ Off(desk, r) => Off(desk', r)
                            /\ Untouched(batch, r) => Untouched(batch', r)
    BY <1>0, <2>1, OffStays, DisturbedUntouched
  <2>5. \A r \in Requests : /\ Off(desk', r) => Off(desk, r)'
                            /\ Untouched(batch', r) => Untouched(batch, r)'
    BY DEF Off, Untouched
  <2>6. OnlyAsked'
    BY <1>0, <2>1, <2>2, <2>4, <2>5 DEF OnlyAsked
  <2>7. ClosedMeansOver'
    BY <1>0, <2>1, <2>3 DEF ClosedMeansOver
  <2> QED BY <2>6, <2>7
<1> QED BY <1>1, <1>2, <1>3, <1>4, <1>5


\* A step of the clock alone: the questions are as they were.
LEMMA ClockStepOver ==
  ASSUME OverInv, StopClock \/ \E c \in Clocks : DeadlinePasses(c)
  PROVE  OnlyAsked' /\ ClosedMeansOver'
<1>0. desk \in Desks /\ OnlyAsked /\ ClosedMeansOver
  BY DEF OverInv, QuestionInv, SoundDesk
<1>1. UNCHANGED <<remote, session, frames, route, batch, givenUp>>
  BY DEF StopClock, DeadlinePasses, history
<1>2. desk'.state = desk.state /\ desk'.saved = desk.saved
  BY <1>0 DEF StopClock, DeadlinePasses, Desks
<1>3. \A r \in Requests : Off(desk, r)' = Off(desk, r) /\ Untouched(batch, r)' = Untouched(batch, r)
  BY <1>1, <1>2 DEF Off, Untouched
<1>4. OnlyAsked'
  BY <1>0, <1>1, <1>3 DEF OnlyAsked
<1>5. ClosedMeansOver'
  BY <1>0, <1>1, <1>2 DEF ClosedMeansOver
<1> QED BY <1>4, <1>5

\* The end of a session, and a stopped member.
LEMMA SessionStepsOver ==
  ASSUME OverInv, NEW s \in Sessions, SessionEnds(s) \/ MemberStopped(s)
  PROVE  OnlyAsked' /\ ClosedMeansOver'
<1> DEFINE R == {r \in OpenNow(desk) : SessionOf[r] = s}
<1>0. desk \in Desks /\ desk.window \in Clocks \cup {None} /\ WorkOK /\ OnlyAsked /\ ClosedMeansOver
      /\ remote \in [Requests -> {"unasked", "open", "closed"}]
      /\ session \in [Sessions -> {"live", "stopped", "ended"}]
  BY DEF OverInv, QuestionInv, OutsideOK, SoundDesk, Desks
<1>1. R \in SUBSET Requests /\ \A r \in R : SessionOf[r] = s
  BY DEF OpenNow, OpenOn
<1>2. /\ desk' = Closed(desk, desk.window, R) /\ batch' = Disturbed(desk.window, R)
      /\ route' = RouteAfter(desk.window, R)
  BY DEF SessionEnds, MemberStopped
<1>3. \A r \in Requests : Off(desk, r) => r \notin R
  BY <1>0, OffIsNotOpen
<1> HIDE DEF R
<1>4. \A r \in Requests :
        /\ desk'.saved[r] = "resolved" => desk.saved[r] = "resolved" \/ r \in R
        /\ Off(desk, r) => Off(desk', r)
        /\ Untouched(batch, r) => Untouched(batch', r)
        /\ route'.req = route.req
  BY <1>0, <1>1, <1>2, <1>3, OffStays, DisturbedUntouched, RouteAfterFields
<1>5. \A r \in Requests : /\ Off(desk', r) => Off(desk, r)'
                          /\ Untouched(batch', r) => Untouched(batch, r)'
  BY DEF Off, Untouched
<1>6. /\ frames' \subseteq frames
      /\ \A r \in Requests : \/ remote'[r] = remote[r]
                             \/ remote[r] = "open" /\ remote'[r] = "closed"
  BY <1>0 DEF SessionEnds, MemberStopped
<1>7. OnlyAsked'
  BY <1>0, <1>4, <1>5, <1>6 DEF OnlyAsked
<1>8. CASE SessionEnds(s)
  <2>1. /\ session' = [session EXCEPT ![s] = "ended"] /\ UNCHANGED givenUp
        /\ \A r \in Requests : SessionOf[r] \in Sessions
    BY <1>8, QuestionAssumption DEF SessionEnds
  <2>2. \A r \in Requests : session'[SessionOf[r]] = "live" => session[SessionOf[r]] = "live" /\ r \notin R
    BY <1>0, <1>1, <2>1
  <2>3. ClosedMeansOver'
    BY <1>0, <1>4, <1>6, <2>1, <2>2 DEF ClosedMeansOver
  <2> QED BY <1>7, <2>3
<1>9. CASE MemberStopped(s)
  <2>1. UNCHANGED <<remote, session>> /\ givenUp' = givenUp \cup R
    BY <1>9 DEF MemberStopped, R
  <2>2. ClosedMeansOver'
    BY <1>0, <1>4, <2>1 DEF ClosedMeansOver
  <2> QED BY <1>7, <2>2
<1> QED BY <1>8, <1>9

\* The end of an answer's call.
LEMMA RouteStepsOver ==
  ASSUME OverInv, RouteReturns
  PROVE  OnlyAsked' /\ ClosedMeansOver'
<1> DEFINE q == route.req
           c == route.clock
<1>0. /\ desk \in Desks /\ c \in Clocks \cup {None} /\ WorkOK /\ OnlyAsked /\ ClosedMeansOver
      /\ QuestionInv /\ SoundDesk(desk) /\ remote \in [Requests -> {"unasked", "open", "closed"}]
  BY DEF OverInv, QuestionInv, OutsideOK, SoundDesk, WorkOK
<1>1. q \in Requests /\ route' = NoRoute /\ UNCHANGED <<session, givenUp>>
  BY <1>0 DEF RouteReturns, RouteSucceeds, RouteFails, WorkOK, history
<1>2. remote[q] # "unasked"
  BY <1>0, <1>1 DEF OnlyAsked
<1>3. /\ \A r \in Requests : r # q => remote'[r] = remote[r]
      /\ remote'[q] # "unasked" /\ (remote[q] = "closed" => remote'[q] = "closed")
      /\ remote'[q] = "open" => remote[q] = "open"
      /\ \A r \in Requests :
           /\ <<"asked", r>> \in frames' => <<"asked", r>> \in frames
           /\ <<"closed", r>> \in frames' =>
                <<"closed", r>> \in frames \/ (r = q /\ remote'[q] = "closed")
  <2>1. CASE RouteSucceeds
    BY <1>0, <1>1, <2>1 DEF RouteSucceeds
  <2>2. ASSUME NEW b \in Batches, RouteFails(b)
        PROVE  /\ UNCHANGED <<remote, frames>>
                  \/ /\ remote' = [remote EXCEPT ![q] = "closed"]
                     /\ frames' = frames \cup {<<"closed", q>>}
    BY <2>2 DEF RouteFails
  <2>3. CASE UNCHANGED <<remote, frames>>
    BY <1>2, <2>3
  <2>4. CASE /\ remote' = [remote EXCEPT ![q] = "closed"]
             /\ frames' = frames \cup {<<"closed", q>>}
    BY <1>0, <1>1, <2>4
  <2> QED BY <2>1, <2>2, <2>3, <2>4 DEF RouteReturns
<1>4. \A r \in Requests :
        /\ desk'.saved[r] = "resolved" =>
             desk.saved[r] = "resolved" \/ (r = q /\ remote'[q] = "closed")
        /\ r # q /\ Off(desk, r) /\ Untouched(batch, r) => Off(desk, r)' /\ Untouched(batch, r)'
  <2> SUFFICES ASSUME NEW r \in Requests
               PROVE  /\ desk'.saved[r] = "resolved" =>
                           desk.saved[r] = "resolved" \/ (r = q /\ remote'[q] = "closed")
                      /\ /\ r # q /\ Off(desk, r) /\ Untouched(batch, r)
                         => Off(desk, r)' /\ Untouched(batch, r)'
    OBVIOUS
  <2>0. /\ Off(desk', r) => Off(desk, r)'
        /\ Untouched(batch', r) => Untouched(batch, r)'
    BY DEF Off, Untouched
  <2>1. CASE RouteSucceeds
    <3>1. remote'[q] = "closed"
      BY <1>0, <1>1, <2>1 DEF RouteSucceeds
    <3>2. CASE StillClaimed
      <4>1. desk' = Closed(desk, c, {q}) /\ batch' = Disturbed(c, {q})
        BY <2>1, <3>2 DEF RouteSucceeds
      <4> HIDE DEF q, c
      <4> QED BY <1>0, <1>1, <2>0, <3>1, <4>1, OffStays, DisturbedUntouched
    <3>3. CASE ~StillClaimed
      BY <2>0, <2>1, <3>3 DEF RouteSucceeds
    <3> QED BY <3>2, <3>3
  <2>2. ASSUME NEW b \in Batches, RouteFails(b)
        PROVE  /\ desk'.saved = desk.saved
               /\ /\ r # q /\ Off(desk, r) /\ Untouched(batch, r)
                  => Off(desk, r)' /\ Untouched(batch, r)'
    <3> DEFINE d == Put(desk, c, {q}, "pending")
    <3>1. SoundDesk(d) /\ d.saved = desk.saved /\ (r # q /\ Off(desk, r) => Off(d, r))
      <4>1. d.saved = desk.saved
        BY <1>0 DEF Put, Desks
      <4> HIDE DEF q, c
      <4> QED BY <1>0, <1>1, <4>1, PutKeeps, OffStays
    <3>2. CASE ~StillClaimed
      BY <2>0, <2>2, <3>2 DEF RouteFails
    <3>3. CASE StillClaimed /\ d.clock[c].due /\ ~d.clock[c].stopped
      <4>1. Expired(d, c, b)
        BY <2>2, <3>3 DEF RouteFails
      <4>2. CASE c \in Clocks
        <5> HIDE DEF d, c, q
        <5>1. desk'.saved = d.saved
          <6>1. desk'.saved = Put([d EXCEPT !.clock[c].armed = FALSE], c,
                                  IF d.clock[c].stopped THEN {} ELSE InState(d, c, "pending"),
                                  "resolving").saved
            BY <4>1 DEF Expired
          <6> QED BY <3>1, <6>1 DEF Put, SoundDesk, Desks
        <5> QED BY <1>0, <3>1, <4>1, <4>2, <5>1, ExpiredOff
      <4>3. CASE c = None
        BY <3>3, <4>3 DEF StillClaimed, OverInv, ClaimHasClock
      <4> QED BY <1>0, <4>2, <4>3
    <3>4. CASE StillClaimed /\ ~(d.clock[c].due /\ ~d.clock[c].stopped)
      <4>1. desk' = [d EXCEPT !.clock[c].armed = ~d.clock[c].stopped] /\ UNCHANGED batch
        BY <2>2, <3>4 DEF RouteFails
      <4>2. desk'.saved = d.saved /\ desk'.state = d.state
        <5> HIDE DEF d
        <5> QED BY <3>1, <4>1 DEF SoundDesk, Desks
      <4> HIDE DEF d, q, c
      <4> QED BY <2>0, <3>1, <4>1, <4>2 DEF Off
    <3> QED BY <3>2, <3>3, <3>4
  <2> QED BY <2>1, <2>2 DEF RouteReturns
<1>5. \A r \in Requests : route'.req # r
  BY <1>1, QuestionAssumption DEF NoRoute
<1> HIDE DEF q
<1>6. OnlyAsked'
  <2> SUFFICES ASSUME NEW r \in Requests
               PROVE  /\ remote'[r] = "unasked" =>
                           /\ Off(desk, r)' /\ Untouched(batch, r)' /\ route'.req # r
                           /\ <<"asked", r>> \notin frames'
                      /\ <<"closed", r>> \in frames' => remote'[r] = "closed"
    BY DEF OnlyAsked
  <2>1. CASE r = q
    BY <1>0, <1>3, <2>1 DEF OnlyAsked
  <2>2. CASE r # q
    BY <1>0, <1>3, <1>4, <1>5, <2>2 DEF OnlyAsked
  <2> QED BY <2>1, <2>2
<1>7. ClosedMeansOver'
  BY <1>0, <1>1, <1>3, <1>4 DEF ClosedMeansOver
<1> QED BY <1>6, <1>7


\* The expiry of a clock, and a teardown.
LEMMA ClockStepsOver ==
  ASSUME OverInv, NEW b \in Batches, (\E c \in Clocks : Expire(c, b)) \/ Teardown(b)
  PROVE  OnlyAsked' /\ ClosedMeansOver'
<1>0. /\ desk \in Desks /\ SoundDesk(desk) /\ WorkOK /\ OnlyAsked /\ ClosedMeansOver /\ QuestionInv
      /\ desk.window \in Clocks \cup {None}
  BY DEF OverInv, QuestionInv, SoundDesk, Desks
<1>1. UNCHANGED <<remote, session, frames, givenUp>> /\ route'.req = route.req
  BY <1>0, RouteAfterFields DEF Expire, Teardown, history
<1>2. /\ desk'.saved = desk.saved
      /\ \A r \in Requests : /\ Off(desk, r) /\ Untouched(batch, r)
                             => Off(desk, r)' /\ Untouched(batch, r)'
  <2>1. ASSUME NEW c \in Clocks, Expire(c, b)
        PROVE  /\ desk'.saved = desk.saved
               /\ \A r \in Requests : /\ Off(desk, r) /\ Untouched(batch, r)
                                      => Off(desk, r)' /\ Untouched(batch, r)'
    <3>1. Expired(desk, c, b)
      BY <2>1 DEF Expire
    <3>2. desk'.saved = desk.saved
      BY <1>0, <3>1 DEF Expired, Put, Desks
    <3> QED BY <1>0, <3>1, <3>2, ExpiredOff
  <2>2. CASE Teardown(b)
    <3> DEFINE c == desk.window
               D == OpenNow(desk)
               e == [desk EXCEPT !.clock[c].armed = FALSE]
    <3>1. desk' = Put(e, c, D, "resolving") /\ Started(b, c, D)
      BY <2>2 DEF Teardown
    <3>2. desk'.saved = desk.saved
      BY <1>0, <3>1 DEF Put, Desks
    <3>3. D \in SUBSET Requests
      BY DEF OpenNow, OpenOn
    <3>4. ASSUME NEW r \in Requests, Off(desk, r), Untouched(batch, r)
          PROVE  Off(desk, r)' /\ Untouched(batch, r)'
      <4>1. r \notin D
        BY <1>0, <3>4, OffIsNotOpen
      <4>2. \A k \in Clocks : desk'.state[k][r] = desk.state[k][r]
        <5> HIDE DEF D, c
        <5> QED BY <1>0, <3>1, <4>1 DEF Put, Desks
      <4>3. Off(desk, r)'
        BY <3>2, <3>4, <4>2 DEF Off
      <4>4. Untouched(batch, r)'
        <5> HIDE DEF D, c
        <5> QED BY <1>0, <3>1, <3>3, <3>4, <4>1, StartedUntouched
      <4> QED BY <4>3, <4>4
    <3> QED BY <3>2, <3>4
  <2> QED BY <2>1, <2>2
<1>3. OnlyAsked'
  BY <1>0, <1>1, <1>2 DEF OnlyAsked
<1>4. ClosedMeansOver'
  BY <1>0, <1>1, <1>2 DEF ClosedMeansOver
<1> QED BY <1>3, <1>4

\* A refusal, or the abort of a session that would not be refused.
LEMMA BatchStepsOver ==
  ASSUME OverInv, NEW b \in Batches, BatchAnswered(b)
  PROVE  OnlyAsked' /\ ClosedMeansOver'
<1> DEFINE q == batch[b].req
           c == batch[b].clock
           s == SessionOf[q]
<1>0. /\ desk \in Desks /\ WorkOK /\ OnlyAsked /\ ClosedMeansOver /\ QuestionInv
      /\ remote \in [Requests -> {"unasked", "open", "closed"}]
      /\ session \in [Sessions -> {"live", "stopped", "ended"}]
      /\ batch \in [Batches -> BatchRecords]
  BY DEF OverInv, QuestionInv, OutsideOK, SoundDesk, WorkOK
<1>1. q \in Requests /\ c \in Clocks \cup {None}
  <2>1. batch[b] \in BatchRecords
    BY <1>0
  <2> QED BY <2>1 DEF BatchAnswered, RefusalLands, RefusalFails, AbortConfirmed,
             AbortUnconfirmed, BatchRecords
<1>2. remote[q] # "unasked"
  BY <1>0, <1>1 DEF OnlyAsked, Untouched
<1>3. CASE RefusalLands(b) \/ AbortConfirmed(b)
  <2>1. Concluded(b) /\ UNCHANGED givenUp
    BY <1>3 DEF RefusalLands, AbortConfirmed
  <2>2. \A r \in Requests :
          /\ desk'.saved[r] = "resolved" => desk.saved[r] = "resolved" \/ r = q
          /\ r # q /\ Off(desk, r) /\ Untouched(batch, r) /\ route.req # r
             => Off(desk, r)' /\ Untouched(batch, r)' /\ route'.req # r
    BY <1>0, <1>1, <2>1, ConcludedOff
  <2>3. /\ \A r \in Requests :
             /\ remote'[r] = "unasked" => remote[r] = "unasked" /\ r # q
             /\ remote[r] = "closed" => remote'[r] = "closed"
             /\ remote'[r] = "open" => remote[r] = "open" /\ r # q
             /\ <<"asked", r>> \in frames' => <<"asked", r>> \in frames
             /\ <<"closed", r>> \in frames' =>
                  <<"closed", r>> \in frames \/ (r = q /\ remote'[q] = "closed")
    <3>1. CASE RefusalLands(b)
      <4>1. /\ remote' = [remote EXCEPT ![q] = "closed"]
            /\ frames' \subseteq frames \cup {<<"closed", q>>}
        BY <3>1 DEF RefusalLands
      <4> HIDE DEF q
      <4> QED BY <1>0, <1>1, <1>2, <4>1
    <3>2. CASE AbortConfirmed(b)
      <4>1. /\ remote' = [r \in Requests |-> IF SessionOf[r] = s /\ remote[r] = "open"
                                               THEN "closed" ELSE remote[r]]
            /\ UNCHANGED frames
        BY <3>2 DEF AbortConfirmed
      <4> HIDE DEF q
      <4> QED BY <1>0, <1>1, <1>2, <4>1
    <3> QED BY <1>3, <3>1, <3>2
  <2>4. \A r \in Requests : session'[SessionOf[r]] = "live" => session[SessionOf[r]] = "live"
    <3>1. \A k \in Sessions : session'[k] = "live" => session[k] = "live"
      <4>1. UNCHANGED session \/ session' = [session EXCEPT ![s] = IF @ = "live" THEN "stopped" ELSE @]
        BY <1>3 DEF RefusalLands, AbortConfirmed
      <4> HIDE DEF s
      <4> QED BY <1>0, <4>1
    <3> QED BY <3>1, QuestionAssumption
  <2> HIDE DEF q
  <2>5. OnlyAsked'
    BY <1>0, <2>2, <2>3 DEF OnlyAsked
  <2>6. ClosedMeansOver'
    BY <1>0, <2>1, <2>2, <2>3, <2>4 DEF ClosedMeansOver
  <2> QED BY <2>5, <2>6
<1>4. CASE RefusalFails(b) \/ AbortUnconfirmed(b)
  <2>1. UNCHANGED <<remote, session, frames, givenUp>> /\ route'.req = route.req
    BY <1>0, <1>4, RouteAfterFields DEF RefusalFails, AbortUnconfirmed, history
  <2>2. \A r \in Requests :
          /\ desk'.saved[r] = "resolved" => desk.saved[r] = "resolved"
          /\ r # q /\ Off(desk, r) => Off(desk, r)'
    <3>1. CASE UNCHANGED desk
      BY <3>1 DEF Off
    <3>2. CASE AbortUnconfirmed(b) /\ batch[b].intact
      <4>1. desk' = [desk EXCEPT !.state[c][q] = IF @ = "absent" THEN @ ELSE "pending",
                                 !.saved[q] = "pending",
                                 !.clock[c] = IF @.stopped THEN @ ELSE FullClock,
                                 !.savedClock = c]
        BY <3>2 DEF AbortUnconfirmed
      <4> HIDE DEF q, c
      <4>2. \A r \in Requests :
              /\ desk'.saved[r] = "resolved" => desk.saved[r] = "resolved"
              /\ r # q => desk'.saved[r] = desk.saved[r]
        BY <1>0, <1>1, <4>1 DEF Desks
      <4>3. \A r \in Requests, k \in Clocks : r # q => desk'.state[k][r] = desk.state[k][r]
        BY <1>0, <1>1, <4>1 DEF Desks
      <4> QED BY <4>2, <4>3 DEF Off
    <3> QED BY <1>4, <3>1, <3>2 DEF RefusalFails, AbortUnconfirmed
  <2>3. \A r \in Requests : Untouched(batch, r) => Untouched(batch, r)'
    <3>1. CASE Onward(batch, b)
      BY <1>0, <3>1, OnwardUntouched
    <3>2. CASE Onward(Disturbed(c, {q}), b)
      <4>1. Disturbed(c, {q}) \in [Batches -> BatchRecords]
        BY <1>0, DisturbedTyped
      <4> HIDE DEF q, c
      <4> QED BY <3>2, <4>1, DisturbedUntouched, OnwardUntouched
    <3>3. CASE batch' = [batch EXCEPT ![b].step = "abort"]
      <4>1. \A k \in Batches : batch'[k].req = batch[k].req /\ batch'[k].rest = batch[k].rest
        BY <1>0, <3>3 DEF BatchRecords
      <4> QED BY <4>1 DEF Untouched
    <3> QED BY <1>4, <3>1, <3>2, <3>3 DEF RefusalFails, AbortUnconfirmed
  <2> HIDE DEF q
  <2>4. OnlyAsked'
    BY <1>0, <1>2, <2>1, <2>2, <2>3 DEF OnlyAsked
  <2>5. ClosedMeansOver'
    BY <1>0, <2>1, <2>2 DEF ClosedMeansOver
  <2> QED BY <2>4, <2>5
<1> QED BY <1>3, <1>4 DEF BatchAnswered


\* A poll: a question that its list does not name is over, when the list is
\* not out of date.
LEMMA PollOver ==
  ASSUME OverInv, "stale list" \notin Lapses,
         NEW verified \in SUBSET Sessions, NEW listed \in SUBSET Requests,
         Poll(verified, listed)
  PROVE  OnlyAsked' /\ ClosedMeansOver'
<1> DEFINE active == {s \in Sessions : session[s] # "ended"}
           gone   == Unlisted(verified, active, listed)
           kept   == Closed(desk, desk.window, gone)
<1>0. /\ desk \in Desks /\ SoundDesk(desk) /\ WorkOK /\ OnlyAsked /\ ClosedMeansOver
      /\ desk.window \in Clocks \cup {None}
  BY DEF OverInv, QuestionInv, SoundDesk, Desks
<1>1. /\ HasClock(kept) /\ desk' = Attached(kept, listed, FullClock, FALSE)
      /\ batch' = Disturbed(desk.window, gone)
      /\ UNCHANGED <<remote, session, frames, route, givenUp>>
      /\ \A r \in listed : remote[r] = "open"
      /\ \A r \in Requests : SessionOf[r] \in verified /\ remote[r] = "open" => r \in listed
  BY DEF Poll
<1>2. gone \in SUBSET Requests
  BY DEF Unlisted, OpenNow, OpenOn
<1>3. \A r \in gone : session[SessionOf[r]] # "live" \/ remote[r] # "open"
  <2> SUFFICES ASSUME NEW r \in gone
               PROVE  session[SessionOf[r]] # "live" \/ remote[r] # "open"
    OBVIOUS
  <2>1. r \notin listed /\ (active = {} \/ SessionOf[r] \in verified) /\ r \in Requests
    BY <1>2 DEF Unlisted
  <2>2. SessionOf[r] \in Sessions
    BY <2>1, QuestionAssumption
  <2>3. active = {} => session[SessionOf[r]] = "ended"
    BY <2>2
  <2> QED BY <1>1, <2>1, <2>3
<1>4. \A r \in Requests : Off(desk, r) => r \notin gone
  BY <1>0, OffIsNotOpen DEF Unlisted
<1> HIDE DEF gone
<1>5. SoundDesk(kept)
  BY <1>0, <1>2, ClosedKeeps
<1>6. \A r \in Requests :
        /\ kept.saved[r] = "resolved" => desk.saved[r] = "resolved" \/ r \in gone
        /\ Off(desk, r) => Off(kept, r)
  BY <1>0, <1>2, <1>4, OffStays
<1>7. FullClock \in ClockRecords
  BY DEF FullClock, ClockRecords
<1>8. \A r \in Requests :
        /\ desk'.saved[r] = "resolved" => kept.saved[r] = "resolved"
        /\ r \notin listed /\ Off(kept, r) => Off(desk', r)
  <2> HIDE DEF kept
  <2> QED BY <1>1, <1>5, <1>7, OffAttached DEF SoundDesk
<1>9. \A r \in Requests : /\ Off(desk', r) => Off(desk, r)'
                          /\ Untouched(batch, r) => Untouched(batch, r)'
  <2>1. \A r \in Requests : Untouched(batch, r) => Untouched(batch', r)
    BY <1>1, DisturbedUntouched
  <2> QED BY <2>1 DEF Off, Untouched
<1> HIDE DEF kept
<1>10. OnlyAsked'
  BY <1>0, <1>1, <1>6, <1>8, <1>9 DEF OnlyAsked
<1>11. ClosedMeansOver'
  BY <1>0, <1>1, <1>3, <1>6, <1>8 DEF ClosedMeansOver
<1> QED BY <1>10, <1>11

\* A restart: what is recorded stays recorded.
LEMMA RestartOver ==
  ASSUME OverInv,
         \/ Crash
         \/ \E back, heard \in SUBSET Sessions, refused \in SUBSET Requests, late \in BOOLEAN :
              Boot(back, heard, refused, late)
  PROVE  OnlyAsked' /\ ClosedMeansOver'
<1>0. /\ desk \in Desks /\ SoundDesk(desk) /\ WorkOK /\ OnlyAsked /\ ClosedMeansOver
      /\ desk.window \in Clocks \cup {None} /\ desk.savedClock \in Clocks \cup {None}
      /\ desk.clock \in [Clocks -> ClockRecords]
      /\ remote \in [Requests -> {"unasked", "open", "closed"}]
  BY DEF OverInv, QuestionInv, OutsideOK, SoundDesk, Desks, ClockRecords
<1>1. CASE Crash
  <2>1. /\ UNCHANGED <<remote, session, givenUp>> /\ frames' = {}
        /\ route' = NoRoute /\ batch' = [b \in Batches |-> NoBatch]
    BY <1>1 DEF Crash, history
  <2>2. desk'.saved = desk.saved
    BY <1>0, <1>1 DEF Crash, Desks
  <2>3. \A c \in Clocks, r \in Requests : desk'.state[c][r] = "absent"
    BY <1>0, <1>1 DEF Crash, Desks
  <2>4. \A r \in Requests : Untouched(batch, r)' /\ route'.req # r
    BY <2>1, QuestionAssumption DEF Untouched, NoBatch, NoRoute
  <2>5. OnlyAsked'
    BY <1>0, <2>1, <2>2, <2>3, <2>4 DEF OnlyAsked, Off
  <2>6. ClosedMeansOver'
    BY <1>0, <2>1, <2>2 DEF ClosedMeansOver
  <2> QED BY <2>5, <2>6
<1>2. ASSUME NEW back \in SUBSET Sessions, NEW heard \in SUBSET Sessions,
             NEW refused \in SUBSET Requests, NEW late \in BOOLEAN,
             Boot(back, heard, refused, late)
      PROVE  OnlyAsked' /\ ClosedMeansOver'
  <2> DEFINE open    == {r \in Requests : remote[r] = "open" /\ SessionOf[r] \in heard}
             lost    == {r \in open : SessionOf[r] \notin back}
             saved   == desk.savedClock
             restore == saved # None
             start   == IF restore THEN Restored(desk.clock[saved], late) ELSE FullClock
             d       == Attached(desk, open \ lost, start, restore)
             row     == RowAfterStart(d, heard # Sessions \/ refused # lost)
  <2>1. /\ HasClock(desk) /\ desk' = [d EXCEPT !.waitRow = row]
        /\ UNCHANGED <<frames, route, batch, givenUp>>
        /\ session' = [s \in Sessions |-> IF s \in back THEN "live" ELSE "ended"]
        /\ \A s \in back : session[s] = "live"
        /\ remote' = [r \in Requests |-> IF r \in refused THEN "closed" ELSE remote[r]]
        /\ refused \subseteq lost
    BY <1>2 DEF Boot
  <2>2. start \in ClockRecords
    <3>1. CASE restore
      <4>1. saved \in Clocks /\ desk.clock[saved] \in ClockRecords
        BY <1>0, <3>1 DEF Desks, ClockRecords
      <4>2. \A k \in ClockRecords : Restored(k, late) \in ClockRecords
        BY <1>2 DEF Restored, ClockRecords
      <4> QED BY <3>1, <4>1, <4>2
    <3>2. CASE ~restore
      BY <3>2 DEF FullClock, ClockRecords
    <3> QED BY <3>1, <3>2
  <2>3. (open \ lost) \in SUBSET Requests /\ \A r \in open : remote[r] = "open"
    OBVIOUS
  <2>4. restore \in BOOLEAN
    OBVIOUS
  <2>5. \A r \in refused : remote[r] = "open"
    BY <2>1
  <2> HIDE DEF open, lost, start, restore
  <2>6. \A r \in Requests :
          /\ d.saved[r] = "resolved" => desk.saved[r] = "resolved"
          /\ r \notin (open \ lost) /\ Off(desk, r) => Off(d, r)
    BY <1>0, <2>1, <2>2, <2>3, <2>4, OffAttached
  <2>7. SoundDesk(d)
    BY <1>0, <2>1, <2>2, <2>3, <2>4, AttachedKeeps
  <2> HIDE DEF d
  <2>8. desk'.saved = d.saved /\ desk'.state = d.state
    BY <2>1, <2>7 DEF SoundDesk, Desks
  <2>9. \A r \in Requests : /\ Off(d, r) => Off(desk, r)'
                            /\ Untouched(batch, r) => Untouched(batch, r)'
    BY <2>1, <2>8 DEF Off, Untouched
  <2>10. OnlyAsked'
    BY <1>0, <2>1, <2>3, <2>5, <2>6, <2>9 DEF OnlyAsked
  <2>11. \A r \in Requests : session'[SessionOf[r]] = "live" => session[SessionOf[r]] = "live"
    BY <2>1, QuestionAssumption
  <2>12. ClosedMeansOver'
    BY <1>0, <2>1, <2>6, <2>8, <2>11 DEF ClosedMeansOver
  <2> QED BY <2>10, <2>12
<1> QED BY <1>1, <1>2

LEMMA ClaimKeepsClock == QuestionInv /\ ClaimHasClock /\ [Next]_vars => ClaimHasClock'
<1> SUFFICES ASSUME QuestionInv, ClaimHasClock, [Next]_vars PROVE ClaimHasClock'
  OBVIOUS
<1>0. WorkOK /\ NoRoute.holds = FALSE
  BY DEF QuestionInv, NoRoute
<1>1. CASE route' = route \/ route' = NoRoute
  BY <1>0, <1>1 DEF ClaimHasClock
<1>2. ASSUME NEW c, NEW R, route' = RouteAfter(c, R) PROVE ClaimHasClock'
  BY <1>0, <1>2, RouteAfterFields DEF ClaimHasClock
<1>3. ASSUME NEW r \in Requests, RouteClaims(r) PROVE ClaimHasClock'
  BY <1>3 DEF RouteClaims, OpenNow, ClaimHasClock
<1>4. ASSUME NEW b \in Batches, BatchAnswered(b) PROVE ClaimHasClock'
  <2>1. route' = route \/ \E c, R : route' = RouteAfter(c, R)
    BY <1>4 DEF BatchAnswered, RefusalLands, RefusalFails, AbortConfirmed, AbortUnconfirmed,
           Concluded
  <2> QED BY <1>1, <1>2, <2>1
<1>5. ASSUME NEW s \in Sessions, SessionEnds(s) \/ MemberStopped(s) PROVE ClaimHasClock'
  BY <1>2, <1>5 DEF SessionEnds, MemberStopped
<1>6. ASSUME NEW b \in Batches, Teardown(b) PROVE ClaimHasClock'
  BY <1>2, <1>6 DEF Teardown
<1>7. CASE RouteReturns \/ Crash
  BY <1>1, <1>7 DEF RouteReturns, RouteSucceeds, RouteFails, Crash
<1> QED BY <1>1, <1>3, <1>4, <1>5, <1>6, <1>7 DEF Next, vars, Ask, AnsweredElsewhere,
       AskedArrives, ClosedArrives, StopClock, DeadlinePasses, Expire, Poll, Boot

LEMMA OverInvInit == Init => OverInv
<1> SUFFICES ASSUME Init PROVE OverInv
  OBVIOUS
<1>1. ClaimHasClock /\ ClosedMeansOver
  BY DEF Init, ClaimHasClock, NoRoute, ClosedMeansOver
<1>2. OnlyAsked
  BY QuestionAssumption DEF Init, OnlyAsked, Off, Untouched, NoRoute, NoBatch
<1> QED BY <1>1, <1>2, InitSound DEF OverInv

LEMMA OverInvStep ==
  ASSUME "stale list" \notin Lapses
  PROVE  OverInv /\ [Next]_vars => OverInv'
<1> SUFFICES ASSUME OverInv, [Next]_vars PROVE OnlyAsked' /\ ClosedMeansOver'
  BY StepKeeps, ClaimKeepsClock DEF OverInv
<1>1. CASE UNCHANGED vars
  <2>1. UNCHANGED <<remote, session, frames, desk, route, batch, givenUp>>
    BY <1>1 DEF vars, history
  <2>2. OnlyAsked /\ ClosedMeansOver
    BY DEF OverInv
  <2> QED BY <2>1, <2>2 DEF OnlyAsked, Off, Untouched, ClosedMeansOver
<1>2. ASSUME NEW r \in Requests,
             \/ Ask(r) \/ AnsweredElsewhere(r) \/ AskedArrives(r)
             \/ ClosedArrives(r) \/ RouteClaims(r)
      PROVE  OnlyAsked' /\ ClosedMeansOver'
  BY <1>2, OutsideStepsOver
<1>3. ASSUME NEW s \in Sessions, SessionEnds(s) \/ MemberStopped(s)
      PROVE  OnlyAsked' /\ ClosedMeansOver'
  BY <1>3, SessionStepsOver
<1>4. ASSUME NEW b \in Batches, Teardown(b) \/ BatchAnswered(b)
      PROVE  OnlyAsked' /\ ClosedMeansOver'
  BY <1>4, ClockStepsOver, BatchStepsOver
<1>5. ASSUME NEW c \in Clocks, DeadlinePasses(c) \/ \E b \in Batches : Expire(c, b)
      PROVE  OnlyAsked' /\ ClosedMeansOver'
  BY <1>5, ClockStepOver, ClockStepsOver
<1>6. ASSUME NEW verified \in SUBSET Sessions, NEW listed \in SUBSET Requests,
             Poll(verified, listed)
      PROVE  OnlyAsked' /\ ClosedMeansOver'
  BY <1>6, PollOver
<1> QED BY <1>1, <1>2, <1>3, <1>4, <1>5, <1>6, ClockStepOver, RouteStepsOver, RestartOver
     DEF Next

\* As long as no list of questions is out of date, a question recorded as
\* resolved blocks no session any more, however it was closed and whatever the
\* restarts (finish, closeMemberQuestions, reconcileAgainstPending).
THEOREM ClosingsAreFinal ==
  ASSUME "stale list" \notin Lapses
  PROVE  Spec => []ClosedMeansOver
<1>1. OverInv => ClosedMeansOver
  BY DEF OverInv
<1> QED BY <1>1, OverInvInit, OverInvStep, PTL DEF Spec


-----------------------------------------------------------------------------
(* Each question is closed once, and has a clock, as long as none is seized *)
(* while it awaits its turn in a batch.                                     *)

Resolving(d) == IF d.window = None THEN {} ELSE InState(d, d.window, "resolving")

\* All there is on the desk is on the step's own clock, saved, and counted in
\* the suspensions of the work budget.
OwnDesk(d) ==
  /\ SoundDesk(d)
  /\ \A c \in Clocks : c # d.window => OpenOn(d, c) = {} /\ ~d.clock[c].armed
  /\ \A r \in OpenNow(d) : d.saved[r] = "pending"
  /\ d.window # None => d.savedClock = d.window
  /\ d.depth = Cardinality(OpenNow(d))

\* A question nobody works on is under a clock that runs or was stopped.
Clocked(d) ==
  \A r \in OpenNow(d) : d.state[d.window][r] = "pending" =>
                          d.clock[d.window].armed \/ d.clock[d.window].stopped

LEMMA OpenNowFacts ==
  ASSUME NEW d \in Desks
  PROVE  /\ OpenNow(d) \in SUBSET Requests /\ Resolving(d) \subseteq OpenNow(d)
         /\ IsFiniteSet(OpenNow(d)) /\ d.window \in Clocks \cup {None} /\ None \notin Clocks
         /\ d.window = None => OpenNow(d) = {} /\ Resolving(d) = {}
         /\ d.window # None =>
              \A r \in Requests : /\ r \in OpenNow(d) <=> d.state[d.window][r] # "absent"
                                  /\ r \in Resolving(d) <=> d.state[d.window][r] = "resolving"
<1>1. OpenNow(d) \in SUBSET Requests
  BY DEF OpenNow, OpenOn
<1>2. IsFiniteSet(OpenNow(d))
  BY <1>1, CountedSet
<1>3. d.window \in Clocks \cup {None} /\ None \notin Clocks
  BY QuestionAssumption DEF Desks
<1> QED BY <1>1, <1>2, <1>3 DEF OpenNow, OpenOn, Resolving, InState

LEMMA PutOwn ==
  ASSUME NEW d, OwnDesk(d), d.window # None,
         NEW R \in SUBSET OpenNow(d), NEW s \in {"pending", "resolving"}
  PROVE  LET p == Put(d, d.window, R, s) IN
         /\ OwnDesk(p) /\ OpenNow(p) = OpenNow(d) /\ p.window = d.window /\ p.clock = d.clock
         /\ Resolving(p) = IF s = "resolving" THEN Resolving(d) \cup R ELSE Resolving(d) \ R
         /\ s = "resolving" /\ Clocked(d) => Clocked(p)
<1> DEFINE c == d.window
           p == Put(d, c, R, s)
<1>1. d \in Desks /\ c \in Clocks /\ R \in SUBSET Requests
  BY OpenNowFacts DEF OwnDesk, SoundDesk
<1>2. SoundDesk(p)
  BY <1>1, PutKeeps DEF OwnDesk
<1>3. /\ \A k \in Clocks, r \in Requests :
           p.state[k][r] = IF k = c /\ r \in R THEN s ELSE d.state[k][r]
      /\ p.window = d.window /\ p.clock = d.clock /\ p.depth = d.depth
      /\ p.saved = d.saved /\ p.savedClock = d.savedClock
  <2>1. \A k \in Clocks, r \in Requests :
          p.state[k][r] = IF k = c /\ r \in R THEN s ELSE d.state[k][r]
    BY <1>1 DEF Put, Desks
  <2>2. /\ p.window = d.window /\ p.clock = d.clock /\ p.depth = d.depth
        /\ p.saved = d.saved /\ p.savedClock = d.savedClock
    BY <1>1 DEF Put, Desks
  <2> QED BY <2>1, <2>2
<1> HIDE DEF p
<1>4. p \in Desks
  BY <1>2 DEF SoundDesk
<1>5. OpenNow(p) = OpenNow(d)
  <2>1. \A r \in Requests : r \in OpenNow(p) <=> r \in OpenNow(d)
    BY <1>1, <1>3, <1>4, OpenNowFacts
  <2> QED BY <1>1, <1>4, <2>1, OpenNowFacts
<1>6. \A r \in Requests : r \in Resolving(p) <=> IF r \in R THEN s = "resolving" ELSE r \in Resolving(d)
  BY <1>1, <1>3, <1>4, OpenNowFacts
<1>7. Resolving(p) \subseteq Requests /\ Resolving(d) \subseteq Requests
  BY <1>1, <1>4, OpenNowFacts
<1>8. \A k \in Clocks : k # d.window => OpenOn(p, k) = {}
  BY <1>3 DEF OwnDesk, OpenOn
<1>9. OwnDesk(p)
  BY <1>2, <1>3, <1>5, <1>8 DEF OwnDesk
<1>10. s = "resolving" /\ Clocked(d) => Clocked(p)
  BY <1>1, <1>3, <1>5, OpenNowFacts DEF Clocked
<1>11. Resolving(p) = IF s = "resolving" THEN Resolving(d) \cup R ELSE Resolving(d) \ R
  BY <1>1, <1>6, <1>7
<1> QED BY <1>3, <1>5, <1>9, <1>10, <1>11 DEF p

LEMMA ClosedOwn ==
  ASSUME NEW d, OwnDesk(d), NEW R \in SUBSET OpenNow(d)
  PROVE  LET q == Closed(d, d.window, R) IN
         /\ OwnDesk(q) /\ OpenNow(q) = OpenNow(d) \ R /\ Resolving(q) = Resolving(d) \ R
         /\ q.window = d.window \/ (q.window = None /\ OpenNow(q) = {} /\ Resolving(q) = {})
         /\ \A k \in Clocks : q.clock[k].stopped = d.clock[k].stopped
         /\ Clocked(d) => Clocked(q)
<1> DEFINE w == d.window
           q == Closed(d, w, R)
<1>0. d \in Desks /\ SoundDesk(d) /\ R \in SUBSET Requests
  BY OpenNowFacts DEF OwnDesk, SoundDesk
<1>1. CASE R = {}
  <2>1. q = d
    BY <1>1 DEF Closed
  <2> QED BY <1>1, <2>1
<1>2. CASE R # {}
  <2>1. w \in Clocks /\ w # None
    BY <1>0, <1>2, OpenNowFacts
  <2>2. SoundDesk(q)
    BY <1>0, <2>1, ClosedKeeps
  <2>3. /\ \A k \in Clocks, r \in Requests :
             q.state[k][r] = IF k = w /\ r \in R THEN "absent" ELSE d.state[k][r]
        /\ q.window = IF OpenOn(d, w) \ R = {} THEN None ELSE w
        /\ \A k \in Clocks :
             /\ q.clock[k].stopped = d.clock[k].stopped
             /\ q.clock[k].armed = (d.clock[k].armed /\ (k = w => OpenOn(d, w) \ R # {}))
        /\ q.depth = Resumed(d.depth, Cardinality(R))
        /\ \A r \in Requests : q.saved[r] = IF r \in R THEN "resolved" ELSE d.saved[r]
        /\ q.savedClock = w
    <3> HIDE DEF q, w
    <3> QED BY <1>0, <1>2, <2>1, ClosedEffect DEF q, w
  <2>4. OpenOn(d, w) = OpenNow(d)
    BY <2>1 DEF OpenNow
  <2> HIDE DEF q
  <2>5. q \in Desks
    BY <2>2 DEF SoundDesk
  <2>6. OpenNow(q) = OpenNow(d) \ R /\ Resolving(q) = Resolving(d) \ R
    <3>1. CASE OpenNow(d) \ R = {}
      BY <1>0, <2>3, <2>4, <2>5, <3>1, OpenNowFacts
    <3>2. CASE OpenNow(d) \ R # {}
      <4>1. \A r \in Requests : /\ r \in OpenNow(q) <=> r \in OpenNow(d) /\ r \notin R
                                /\ r \in Resolving(q) <=> r \in Resolving(d) /\ r \notin R
        BY <1>0, <2>1, <2>3, <2>4, <2>5, <3>2, OpenNowFacts
      <4> QED BY <1>0, <2>5, <4>1, OpenNowFacts
    <3> QED BY <3>1, <3>2
  <2>7. \A k \in Clocks : k # q.window => OpenOn(q, k) = {} /\ ~q.clock[k].armed
    <3> SUFFICES ASSUME NEW k \in Clocks, k # q.window
                 PROVE  OpenOn(q, k) = {} /\ ~q.clock[k].armed
      OBVIOUS
    <3>1. CASE k = w
      <4>1. OpenOn(d, w) \ R = {}
        BY <2>3, <3>1
      <4>2. ~q.clock[k].armed
        BY <2>3, <3>1, <4>1
      <4>3. \A r \in Requests : q.state[k][r] = "absent"
        BY <2>3, <3>1, <4>1 DEF OpenOn
      <4> QED BY <4>2, <4>3 DEF OpenOn
    <3>2. CASE k # w
      <4>1. OpenOn(d, k) = {} /\ ~d.clock[k].armed
        BY <3>2 DEF OwnDesk
      <4>2. ~q.clock[k].armed
        BY <2>3, <4>1
      <4>3. \A r \in Requests : q.state[k][r] = d.state[k][r]
        BY <2>3, <3>2
      <4> QED BY <4>1, <4>2, <4>3 DEF OpenOn
    <3> QED BY <3>1, <3>2
  <2>8. q.depth = Cardinality(OpenNow(q))
    <3>1. /\ IsFiniteSet(OpenNow(d)) /\ OpenNow(d) \cap R = R
          /\ Cardinality(OpenNow(d)) \in Nat /\ Cardinality(R) \in Nat
      BY <1>0, OpenNowFacts, CountedSet
    <3>2. Cardinality(OpenNow(d) \ R) = Cardinality(OpenNow(d)) - Cardinality(R)
      BY <3>1, FS_Difference
    <3>3. Cardinality(OpenNow(d) \ R) \in Nat
      BY <1>0, OpenNowFacts, CountedSet
    <3> QED BY <2>3, <2>6, <3>1, <3>2, <3>3 DEF OwnDesk, Resumed
  <2>9. OwnDesk(q)
    BY <1>0, <2>2, <2>3, <2>6, <2>7, <2>8, OpenNowFacts DEF OwnDesk
  <2>10. Clocked(d) => Clocked(q)
    <3> SUFFICES ASSUME Clocked(d), NEW r \in OpenNow(q), q.state[q.window][r] = "pending"
                 PROVE  q.clock[q.window].armed \/ q.clock[q.window].stopped
      BY DEF Clocked
    <3>1. r \in OpenNow(d) /\ r \notin R /\ r \in Requests /\ q.window = w
      BY <1>0, <2>3, <2>4, <2>6, OpenNowFacts
    <3>2. d.state[w][r] = "pending"
      BY <2>1, <2>3, <3>1
    <3>3. d.clock[w].armed \/ d.clock[w].stopped
      BY <3>1, <3>2 DEF Clocked
    <3>4. OpenOn(d, w) \ R # {}
      BY <2>4, <3>1
    <3> QED BY <2>1, <2>3, <3>1, <3>3, <3>4
  <2>11. q.window = w \/ (q.window = None /\ OpenNow(q) = {} /\ Resolving(q) = {})
    BY <2>3, <2>5, OpenNowFacts
  <2> QED BY <2>3, <2>6, <2>9, <2>10, <2>11 DEF q
<1> QED BY <1>1, <1>2


LEMMA AttachedOwn ==
  ASSUME NEW d, OwnDesk(d), HasClock(d), NEW asked \in SUBSET Requests,
         NEW start \in ClockRecords, start.armed \/ start.stopped,
         NEW restored \in BOOLEAN, restored => d.window = None
  PROVE  LET q == Attached(d, asked, start, restored) IN
         /\ OwnDesk(q) /\ OpenNow(q) = OpenNow(d) \cup Welcome(d, asked)
         /\ Resolving(q) = Resolving(d)
         /\ q.window = d.window \/ (d.window = None /\ Resolving(q) = {})
         /\ Clocked(d) => Clocked(q)
<1> DEFINE q == Attached(d, asked, start, restored)
           W == Welcome(d, asked)
           w == q.window
<1>0. d \in Desks /\ SoundDesk(d) /\ W \in SUBSET Requests
  BY DEF OwnDesk, SoundDesk, Welcome
<1>1. CASE W = {}
  <2>1. q = d
    BY <1>1 DEF Attached
  <2> HIDE DEF q
  <2> QED BY <1>1, <2>1 DEF q
<1>2. CASE W # {}
  <2>1. SoundDesk(q)
    BY <1>0, AttachedKeeps
  <2>2. /\ w \in Clocks /\ (d.window # None => w = d.window)
        /\ \A k \in Clocks, r \in Requests :
             q.state[k][r] = IF k = w /\ r \in W THEN "pending" ELSE d.state[k][r]
        /\ q.depth = d.depth + Cardinality(W)
        /\ \A r \in Requests : q.saved[r] = IF r \in W THEN "pending" ELSE d.saved[r]
        /\ q.savedClock = w
        /\ q.clock[w] = IF d.window = None THEN start
                        ELSE IF restored \/ d.clock[w].stopped THEN d.clock[w]
                        ELSE FullClock
        /\ \A k \in Clocks : k # w => q.clock[k] = d.clock[k] \/ q.clock[k] = IdleClock
    <3> HIDE DEF q, W
    <3> QED BY <1>0, <1>2, AttachedEffect DEF q, W
  <2>3. \A r \in W : r \notin OpenNow(d)
    BY DEF Welcome
  <2> HIDE DEF q, W
  <2>4. q \in Desks /\ w # None /\ d.window \in Clocks \cup {None}
    BY <1>0, <2>1, <2>2, OpenNowFacts DEF SoundDesk
  <2>5. d.window = None => \A k \in Clocks, r \in Requests : d.state[k][r] = "absent"
    <3> SUFFICES ASSUME d.window = None, NEW k \in Clocks, NEW r \in Requests
                 PROVE  d.state[k][r] = "absent"
      OBVIOUS
    <3>1. OpenOn(d, k) = {}
      BY QuestionAssumption DEF OwnDesk
    <3> QED BY <3>1 DEF OpenOn
  <2>6. \A r \in Requests : r \in OpenNow(q) <=> r \in OpenNow(d) \/ r \in W
    <3>1. CASE d.window = None
      BY <1>0, <2>2, <2>4, <2>5, <3>1, OpenNowFacts
    <3>2. CASE d.window # None
      BY <1>0, <2>2, <2>4, <3>2, OpenNowFacts
    <3> QED BY <3>1, <3>2
  <2>7. OpenNow(q) = OpenNow(d) \cup W
    BY <1>0, <2>4, <2>6, OpenNowFacts
  <2>8. \A r \in Requests : r \in Resolving(q) <=> r \in Resolving(d)
    <3>1. CASE d.window = None
      BY <1>0, <2>2, <2>4, <2>5, <3>1, OpenNowFacts
    <3>2. CASE d.window # None
      BY <1>0, <2>2, <2>3, <2>4, <3>2, OpenNowFacts
    <3> QED BY <3>1, <3>2
  <2>9. Resolving(q) = Resolving(d)
    <3>1. Resolving(q) \subseteq Requests /\ Resolving(d) \subseteq Requests
      BY <1>0, <2>4, OpenNowFacts
    <3> QED BY <2>8, <3>1
  <2>10. \A k \in Clocks : k # w => OpenOn(q, k) = {} /\ ~q.clock[k].armed
    <3> SUFFICES ASSUME NEW k \in Clocks, k # w PROVE OpenOn(q, k) = {} /\ ~q.clock[k].armed
      OBVIOUS
    <3>1. k # d.window
      BY <2>2, <2>4, OpenNowFacts, <1>0
    <3>2. OpenOn(d, k) = {} /\ ~d.clock[k].armed
      BY <3>1 DEF OwnDesk
    <3>3. ~q.clock[k].armed
      BY <2>2, <3>2 DEF IdleClock
    <3>4. \A r \in Requests : q.state[k][r] = d.state[k][r]
      BY <2>2
    <3> QED BY <3>2, <3>3, <3>4 DEF OpenOn
  <2>11. q.depth = Cardinality(OpenNow(q))
    <3>1. /\ IsFiniteSet(OpenNow(d)) /\ IsFiniteSet(W) /\ OpenNow(d) \cap W = {}
          /\ Cardinality(OpenNow(d)) \in Nat /\ Cardinality(W) \in Nat
      BY <1>0, <2>3, OpenNowFacts, CountedSet
    <3>2. Cardinality(OpenNow(d) \cup W) = Cardinality(OpenNow(d)) + Cardinality(W) - Cardinality(OpenNow(d) \cap W)
      BY <3>1, FS_Union
    <3>3. Cardinality(OpenNow(d) \cap W) = 0
      BY <3>1, FS_EmptySet
    <3> QED BY <2>2, <2>7, <3>1, <3>2, <3>3 DEF OwnDesk
  <2>12. \A r \in OpenNow(q) : q.saved[r] = "pending"
    <3> SUFFICES ASSUME NEW r \in OpenNow(q) PROVE q.saved[r] = "pending"
      OBVIOUS
    <3>1. r \in Requests /\ (r \in OpenNow(d) \/ r \in W)
      BY <2>4, <2>7, OpenNowFacts
    <3> QED BY <2>2, <3>1 DEF OwnDesk
  <2>13. OwnDesk(q)
    BY <2>1, <2>2, <2>10, <2>11, <2>12 DEF OwnDesk
  <2>14. ASSUME Clocked(d) PROVE Clocked(q)
    <3> SUFFICES ASSUME NEW r \in OpenNow(q), q.state[w][r] = "pending"
                 PROVE  q.clock[w].armed \/ q.clock[w].stopped
      BY DEF Clocked
    <3>1. CASE d.window = None
      BY <2>2, <3>1
    <3>2. CASE d.window # None /\ d.clock[w].stopped
      BY <2>2, <3>2
    <3>3. CASE d.window # None /\ ~d.clock[w].stopped
      BY <2>2, <3>3 DEF FullClock
    <3> QED BY <3>1, <3>2, <3>3
  <2>15. w = d.window \/ (d.window = None /\ Resolving(q) = {})
    BY <1>0, <2>2, <2>9, OpenNowFacts
  <2> QED BY <2>7, <2>9, <2>13, <2>14, <2>15 DEF q, W
<1> QED BY <1>1, <1>2


\* The questions a refusal has to close: its own, unless somebody took it, and
\* those that wait their turn.
Claimed(x) == {r \in Requests : r \in x.rest \/ (x.req = r /\ x.intact)}

\* Who works on the questions S of clock w: each of them is claimed once.
ClaimsFit(S, w, rt, bs) ==
  /\ \A b \in Batches : \A r \in Claimed(bs[b]) : bs[b].clock = w /\ r \in S
  /\ rt.holds => rt.clock = w /\ rt.req \in S
  /\ \A r \in S : (rt.holds /\ rt.req = r) \/ \E b \in Batches : r \in Claimed(bs[b])
  /\ \A b, k \in Batches : \A r \in Claimed(bs[b]) : r \in Claimed(bs[k]) => k = b
  /\ \A b \in Batches : \A r \in Claimed(bs[b]) : ~(rt.holds /\ rt.req = r)
  /\ \A b \in Batches : bs[b].req \notin bs[b].rest /\ (bs[b].req = None => bs[b].rest = {})

LEMMA NothingClaimed == Claimed(NoBatch) = {}
BY QuestionAssumption DEF Claimed, NoBatch

\* No claims fit on any clock when nobody works on anything.
LEMMA FitEmpty ==
  ASSUME NEW w, NEW rt, NEW bs, ClaimsFit({}, w, rt, bs), NEW w2
  PROVE  ClaimsFit({}, w2, rt, bs)
BY DEF ClaimsFit

\* Taking questions away from whoever works on them, none of which waits its
\* turn in a batch.
LEMMA FitShrinks ==
  ASSUME WorkOK, NEW S, NEW w, NEW rt0, ClaimsFit(S, w, rt0, batch),
         NEW R \in SUBSET Requests, \A b \in Batches : batch[b].rest \cap R = {},
         NEW rt, rt.holds => rt0.holds /\ rt.req = rt0.req /\ rt.clock = rt0.clock
                               /\ rt0.req \notin R,
         rt0.holds /\ rt0.req \notin R => rt.holds
  PROVE  ClaimsFit(S \ R, w, rt, Disturbed(w, R))
<1> DEFINE bs == Disturbed(w, R)
<1>1. \A b \in Batches :
        /\ bs[b].rest = batch[b].rest /\ bs[b].req = batch[b].req /\ bs[b].clock = batch[b].clock
        /\ bs[b].intact = (batch[b].intact /\ ~(batch[b].clock = w /\ batch[b].req \in R))
  <2> SUFFICES ASSUME NEW b \in Batches
               PROVE  /\ bs[b].rest = batch[b].rest /\ bs[b].req = batch[b].req
                      /\ bs[b].clock = batch[b].clock
                      /\ bs[b].intact = (batch[b].intact /\ ~(batch[b].clock = w /\ batch[b].req \in R))
    OBVIOUS
  <2>1. batch[b] \in BatchRecords
    BY DEF WorkOK
  <2>2. bs[b] = IF batch[b].clock = w /\ batch[b].req \in R
                  THEN [batch[b] EXCEPT !.intact = FALSE] ELSE batch[b]
    BY DEF Disturbed
  <2> HIDE DEF bs
  <2> QED BY <2>1, <2>2 DEF BatchRecords
<1> HIDE DEF bs
<1>2. \A b \in Batches, r \in Requests : r \in Claimed(bs[b]) <=> r \in Claimed(batch[b]) /\ r \notin R
  <2> SUFFICES ASSUME NEW b \in Batches, NEW r \in Requests
               PROVE  r \in Claimed(bs[b]) <=> r \in Claimed(batch[b]) /\ r \notin R
    OBVIOUS
  <2>1. r \in Claimed(batch[b]) => batch[b].clock = w
    BY DEF ClaimsFit
  <2> QED BY <1>1, <2>1 DEF Claimed
<1>3. \A b \in Batches : Claimed(bs[b]) \subseteq Requests /\ Claimed(batch[b]) \subseteq Requests
  BY DEF Claimed
<1>4. \A b \in Batches : \A r \in Claimed(bs[b]) : bs[b].clock = w /\ r \in S \ R
  BY <1>1, <1>2, <1>3 DEF ClaimsFit
<1>5. rt.holds => rt.clock = w /\ rt.req \in S \ R
  BY DEF ClaimsFit
<1>6. \A r \in S \ R : (rt.holds /\ rt.req = r) \/ \E b \in Batches : r \in Claimed(bs[b])
  BY <1>2, <1>3 DEF ClaimsFit
<1>7. \A b, k \in Batches : \A r \in Claimed(bs[b]) : r \in Claimed(bs[k]) => k = b
  BY <1>2, <1>3 DEF ClaimsFit
<1>8. \A b \in Batches : \A r \in Claimed(bs[b]) : ~(rt.holds /\ rt.req = r)
  BY <1>2, <1>3 DEF ClaimsFit
<1>9. \A b \in Batches : bs[b].req \notin bs[b].rest /\ (bs[b].req = None => bs[b].rest = {})
  BY <1>1 DEF ClaimsFit
<1> QED BY <1>4, <1>5, <1>6, <1>7, <1>8, <1>9 DEF ClaimsFit, bs

\* The batch goes on to its next question, of those it has claimed already.
LEMMA FitOnward ==
  ASSUME NEW S, NEW w, NEW rt, NEW bs \in [Batches -> BatchRecords], ClaimsFit(S, w, rt, bs),
         NEW b \in Batches, ~bs[b].intact, Onward(bs, b)
  PROVE  ClaimsFit(S, w, rt, batch')
<1>0. Claimed(bs[b]) = bs[b].rest
  BY DEF Claimed, BatchRecords
<1>1. /\ batch' \in [Batches -> BatchRecords]
      /\ \A k \in Batches : k # b => batch'[k] = bs[k]
      /\ Claimed(batch'[b]) = bs[b].rest
      /\ bs[b].rest # {} => batch'[b].clock = bs[b].clock
      /\ batch'[b].req \notin batch'[b].rest /\ (batch'[b].req = None => batch'[b].rest = {})
  <2>0. batch' \in [Batches -> BatchRecords]
    BY OnwardTyped
  <2>1. CASE bs[b].rest = {}
    <3>1. batch' = [bs EXCEPT ![b] = NoBatch]
      BY <2>1 DEF Onward
    <3>2. batch'[b] = NoBatch
      BY <3>1
    <3> QED BY <2>0, <2>1, <3>1, <3>2, NothingClaimed DEF NoBatch
  <2>2. CASE bs[b].rest # {}
    <3>1. PICK q \in bs[b].rest :
            batch' = [bs EXCEPT ![b] = [bs[b] EXCEPT !.req = q, !.rest = bs[b].rest \ {q},
                                                 !.step = "refuse", !.intact = TRUE]]
      BY <2>2 DEF Onward
    <3> DEFINE next == [bs[b] EXCEPT !.req = q, !.rest = bs[b].rest \ {q},
                                     !.step = "refuse", !.intact = TRUE]
    <3>2. bs[b].rest \subseteq Requests /\ q # None
      BY QuestionAssumption DEF BatchRecords
    <3>3. next.req = q /\ next.rest = bs[b].rest \ {q} /\ next.intact /\ next.clock = bs[b].clock
      BY DEF BatchRecords
    <3> HIDE DEF next
    <3>4. batch' = [bs EXCEPT ![b] = next]
      BY <3>1 DEF next
    <3>5. batch'[b] = next /\ \A k \in Batches : k # b => batch'[k] = bs[k]
      BY <3>4
    <3>6. Claimed(next) = bs[b].rest
      BY <3>2, <3>3 DEF Claimed
    <3> QED BY <2>0, <3>2, <3>3, <3>5, <3>6
  <2> QED BY <2>1, <2>2
<1>2. \A k \in Batches : Claimed(batch'[k]) = Claimed(bs[k])
  BY <1>0, <1>1
<1>3. \A k \in Batches : Claimed(bs[k]) # {} => batch'[k].clock = bs[k].clock
  BY <1>0, <1>1
<1>4. \A k \in Batches : \A r \in Claimed(batch'[k]) : batch'[k].clock = w /\ r \in S
  BY <1>2, <1>3 DEF ClaimsFit
<1>5. \A r \in S : (rt.holds /\ rt.req = r) \/ \E k \in Batches : r \in Claimed(batch'[k])
  BY <1>2 DEF ClaimsFit
<1>6. \A j, k \in Batches : \A r \in Claimed(batch'[j]) : r \in Claimed(batch'[k]) => k = j
  BY <1>2 DEF ClaimsFit
<1>7. \A k \in Batches : \A r \in Claimed(batch'[k]) : ~(rt.holds /\ rt.req = r)
  BY <1>2 DEF ClaimsFit
<1>8. \A k \in Batches : /\ batch'[k].req \notin batch'[k].rest
                         /\ batch'[k].req = None => batch'[k].rest = {}
  BY <1>1 DEF ClaimsFit
<1>9. rt.holds => rt.clock = w /\ rt.req \in S
  BY DEF ClaimsFit
<1> QED BY <1>4, <1>5, <1>6, <1>7, <1>8, <1>9 DEF ClaimsFit

\* A batch starts with questions it took from everybody else.
LEMMA FitStarts ==
  ASSUME WorkOK, NEW S, NEW w, NEW rt, NEW b \in Batches, NEW D \in SUBSET Requests,
         D # {}, Started(b, w, D), ClaimsFit(S, w, rt, Disturbed(w, D)), S \cap D = {}
  PROVE  ClaimsFit(S \cup D, w, rt, batch')
<1> DEFINE bs == Disturbed(w, D)
<1>1. bs \in [Batches -> BatchRecords]
  BY DisturbedTyped
<1>2. PICK q \in D : batch' = [bs EXCEPT ![b] =
                        [clock |-> w, req |-> q, rest |-> D \ {q},
                         step |-> "refuse", intact |-> TRUE]]
  BY DEF Started
<1> DEFINE next == [clock |-> w, req |-> q, rest |-> D \ {q}, step |-> "refuse", intact |-> TRUE]
<1>3. Claimed(bs[b]) = {}
  <2>1. batch[b] = NoBatch
    BY DEF Started
  <2>2. bs[b] = NoBatch
    <3>1. NoBatch.req \notin D
      BY QuestionAssumption DEF NoBatch
    <3> QED BY <2>1, <3>1 DEF Disturbed
  <2> QED BY <2>2, NothingClaimed
<1>4. Claimed(next) = D /\ q # None
  BY QuestionAssumption DEF Claimed
<1> HIDE DEF bs
<1>5. /\ batch'[b] = next /\ \A k \in Batches : k # b => batch'[k] = bs[k]
  BY <1>1, <1>2
<1>6. ClaimsFit(S, w, rt, bs)
  BY DEF bs
<1>7. next.clock = w /\ next.req \notin next.rest /\ next.req # None
  BY <1>4
<1> HIDE DEF next
<1>8. \A k \in Batches : Claimed(batch'[k]) = IF k = b THEN D ELSE Claimed(bs[k])
  BY <1>4, <1>5
<1>9. \A k \in Batches : \A r \in Claimed(batch'[k]) : batch'[k].clock = w /\ r \in S \cup D
  BY <1>5, <1>6, <1>7, <1>8 DEF ClaimsFit
<1>10. rt.holds => rt.clock = w /\ rt.req \in S \cup D
  BY <1>6 DEF ClaimsFit
<1>11. \A r \in S \cup D : (rt.holds /\ rt.req = r) \/ \E k \in Batches : r \in Claimed(batch'[k])
  <2> SUFFICES ASSUME NEW r \in S \cup D
               PROVE  (rt.holds /\ rt.req = r) \/ \E k \in Batches : r \in Claimed(batch'[k])
    OBVIOUS
  <2>1. CASE r \in D
    BY <1>8, <2>1
  <2>2. CASE r \in S
    <3>1. (rt.holds /\ rt.req = r) \/ \E k \in Batches : r \in Claimed(bs[k])
      BY <1>6, <2>2 DEF ClaimsFit
    <3> QED BY <1>3, <1>8, <3>1
  <2> QED BY <2>1, <2>2
<1>12. \A j, k \in Batches : \A r \in Claimed(batch'[j]) : r \in Claimed(batch'[k]) => k = j
  <2>1. \A k \in Batches : \A r \in Claimed(bs[k]) : r \notin D
    BY <1>6 DEF ClaimsFit
  <2>2. \A j, k \in Batches : \A r \in Claimed(bs[j]) : r \in Claimed(bs[k]) => k = j
    BY <1>6 DEF ClaimsFit
  <2> QED BY <1>8, <2>1, <2>2
<1>13. \A k \in Batches : \A r \in Claimed(batch'[k]) : ~(rt.holds /\ rt.req = r)
  <2>1. rt.holds => rt.req \notin D
    BY <1>6 DEF ClaimsFit
  <2>2. \A k \in Batches : \A r \in Claimed(bs[k]) : ~(rt.holds /\ rt.req = r)
    BY <1>6 DEF ClaimsFit
  <2> QED BY <1>8, <2>1, <2>2
<1>14. \A k \in Batches : /\ batch'[k].req \notin batch'[k].rest
                          /\ batch'[k].req = None => batch'[k].rest = {}
  BY <1>5, <1>6, <1>7 DEF ClaimsFit
<1> QED BY <1>9, <1>10, <1>11, <1>12, <1>13, <1>14 DEF ClaimsFit


\* A person's answer claims a question nobody works on.
LEMMA FitClaims ==
  ASSUME NEW S, NEW w, NEW rt, NEW bs, ClaimsFit(S, w, rt, bs), ~rt.holds, NEW r, r \notin S
  PROVE  ClaimsFit(S \cup {r}, w, [req |-> r, clock |-> w, holds |-> TRUE], bs)
BY DEF ClaimsFit

LEMMA FitReleased ==
  ASSUME NEW S, NEW w, NEW rt, NEW bs, ClaimsFit(S, w, rt, bs), ~rt.holds, NEW rt2, ~rt2.holds
  PROVE  ClaimsFit(S, w, rt2, bs)
BY DEF ClaimsFit

\* What waits in a batch is claimed, also where the claim of an answer is not.
LEMMA RestIsClaimed ==
  ASSUME WorkOK, NEW S, NEW w, NEW rt, ClaimsFit(S, w, rt, batch)
  PROVE  \A b \in Batches :
           /\ batch[b].rest \subseteq S
           /\ batch[b].rest # {} => batch[b].clock = w
           /\ \A q \in Requests : batch[b].req = q /\ batch[b].intact =>
                /\ q \in S /\ batch[b].clock = w /\ ~(rt.holds /\ rt.req = q)
                /\ \A k \in Batches : q \notin batch[k].rest
<1> SUFFICES ASSUME NEW b \in Batches
             PROVE  /\ batch[b].rest \subseteq S
                    /\ batch[b].rest # {} => batch[b].clock = w
                    /\ \A q \in Requests : batch[b].req = q /\ batch[b].intact =>
                         /\ q \in S /\ batch[b].clock = w /\ ~(rt.holds /\ rt.req = q)
                         /\ \A k \in Batches : q \notin batch[k].rest
  OBVIOUS
<1>1. \A k \in Batches : batch[k].rest \subseteq Requests /\ batch[k].rest \subseteq Claimed(batch[k])
  BY DEF WorkOK, BatchRecords, Claimed
<1>2. \A q \in Requests : batch[b].req = q /\ batch[b].intact => q \in Claimed(batch[b])
  BY DEF Claimed
<1> QED BY <1>1, <1>2 DEF ClaimsFit

\* A desk on which only clocks, or claims, are different.
LEMMA SameQuestions ==
  ASSUME NEW d, OwnDesk(d), NEW q, SoundDesk(q), q.window = d.window, q.depth = d.depth,
         q.saved = d.saved, q.window # None => q.savedClock = q.window,
         \A k \in Clocks, r \in Requests : q.state[k][r] = "absent" <=> d.state[k][r] = "absent",
         \A k \in Clocks : k # q.window => ~q.clock[k].armed
  PROVE  OwnDesk(q) /\ OpenNow(q) = OpenNow(d)
<1>1. \A k \in Clocks : OpenOn(q, k) = OpenOn(d, k)
  BY DEF OpenOn
<1>2. OpenNow(q) = OpenNow(d)
  <2>1. d.window \in Clocks \cup {None}
    BY DEF OwnDesk, SoundDesk, Desks
  <2> QED BY <1>1, <2>1 DEF OpenNow
<1> QED BY <1>1, <1>2 DEF OwnDesk

-----------------------------------------------------------------------------

\* A question closed so far was closed once, is not open, and will not be
\* offered again.
OnceOK ==
  /\ \A r \in OpenNow(desk) : closings[r] = 0
  /\ \A r \in Requests : closings[r] # 0 =>
       /\ closings[r] = 1
       /\ desk.saved[r] = "resolved" \/ (remote[r] = "closed" /\ session[SessionOf[r]] = "ended")
  /\ \A r \in Requests : <<"asked", r>> \in frames => session[SessionOf[r]] # "ended"
  /\ ~up => desk.window = None /\ frames = {}

WindowOK ==
  /\ OwnDesk(desk) /\ Clocked(desk)
  /\ ClaimsFit(Resolving(desk), desk.window, route, batch)

OnceInv == QuestionInv /\ WindowOK /\ OnceOK

LEMMA NothingClosed == HistoryOK => Closings({}) = closings
BY DEF HistoryOK, Closings

LEMMA OnceStep ==
  ASSUME QuestionInv, OnceOK, NEW R \in SUBSET Requests, \A r \in R : closings[r] = 0,
         closings' = Closings(R),
         \A r \in R : \/ desk'.saved[r] = "resolved"
                      \/ remote'[r] = "closed" /\ session'[SessionOf[r]] = "ended",
         \A r \in Requests : closings[r] # 0 /\ desk.saved[r] = "resolved" => desk'.saved[r] = "resolved",
         \A r \in Requests : remote[r] = "closed" => remote'[r] = "closed",
         \A s \in Sessions : session[s] = "ended" => session'[s] = "ended",
         \A r \in OpenNow(desk') : r \notin R /\ closings[r] = 0,
         \A r \in Requests : <<"asked", r>> \in frames' => session'[SessionOf[r]] # "ended",
         ~up' => desk'.window = None /\ frames' = {}
  PROVE  OnceOK'
<1>1. closings \in [Requests -> 0 .. 2]
  BY DEF QuestionInv, HistoryOK
<1>2. \A r \in Requests : closings'[r] = IF r \in R THEN 1 ELSE closings[r]
  BY <1>1 DEF Closings
<1>3. OpenNow(desk') \subseteq Requests
  BY DEF OpenNow, OpenOn
<1>4. \A r \in Requests : SessionOf[r] \in Sessions
  BY QuestionAssumption
<1>5. \A r \in OpenNow(desk') : closings'[r] = 0
  BY <1>2, <1>3
<1>6. \A r \in Requests : closings'[r] # 0 =>
        /\ closings'[r] = 1
        /\ desk'.saved[r] = "resolved" \/ (remote'[r] = "closed" /\ session'[SessionOf[r]] = "ended")
  BY <1>2, <1>4 DEF OnceOK
<1> QED BY <1>5, <1>6 DEF OnceOK, OpenNow, OpenOn


\* Shown of the desk, the route and the batches as a step leaves them.
LEMMA NextWindow ==
  ASSUME OwnDesk(desk'), Clocked(desk'), ClaimsFit(Resolving(desk'), desk'.window, route', batch')
  PROVE  WindowOK'
BY DEF WindowOK, OwnDesk, Clocked, ClaimsFit, Resolving, Claimed, SoundDesk, OpenNow, OpenOn,
       InState, Desks, RequestStates

\* The step has the clock it had, if any, stopped if it was.
SameClock(q, d) ==
  q.window # None =>
    q.window = d.window /\ q.clock[q.window].stopped = d.clock[d.window].stopped

\* A list of questions may name what was closed meanwhile.
ListsMayBeStale == "stale list" \in Lapses

\* What a step does to the promises of the clock: one is made of an open question
\* whose clock is stopped, and stays while the question does.  A question comes
\* with its frame, or by a list that names it.
Moves ==
  /\ \A r \in promised' :
       /\ r \in promised \/ (r \in OpenNow(desk') /\ desk'.clock[desk'.window].stopped)
       /\ r \in OpenNow(desk) /\ desk.clock[desk.window].stopped
            => r \in OpenNow(desk') /\ desk'.clock[desk'.window].stopped
  /\ \A r \in OpenNow(desk') :
       \/ r \in OpenNow(desk) \/ <<"asked", r>> \in frames
       \/ /\ session[SessionOf[r]] # "ended"
          /\ remote[r] = "open" \/ (ListsMayBeStale /\ remote[r] # "unasked")

LEMMA ClosedMoves ==
  ASSUME NEW R, OpenNow(desk') = OpenNow(desk) \ R, promised' = promised \ R,
         SameClock(desk', desk)
  PROVE  Moves
<1>1. \A r \in OpenNow(desk') : desk'.window # None
  BY DEF OpenNow
<1> QED BY <1>1 DEF SameClock, Moves

LEMMA NothingMoves ==
  ASSUME OpenNow(desk') = OpenNow(desk), promised' = promised, SameClock(desk', desk)
  PROVE  Moves
<1>1. OpenNow(desk') = OpenNow(desk) \ {} /\ promised' = promised \ {}
  OBVIOUS
<1> QED BY <1>1, ClosedMoves

\* Closing questions none of which waits its turn in a batch.
LEMMA CloseFits ==
  ASSUME OnceInv, NEW R \in SUBSET OpenNow(desk),
         \A b \in Batches : batch[b].rest \cap R = {},
         NEW rt, rt.holds => route.holds /\ rt.req = route.req /\ rt.clock = route.clock
                               /\ route.req \notin R,
         route.holds /\ route.req \notin R => rt.holds
  PROVE  LET q == Closed(desk, desk.window, R) IN
         /\ OwnDesk(q) /\ Clocked(q)
         /\ ClaimsFit(Resolving(q), q.window, rt, Disturbed(desk.window, R))
         /\ OpenNow(q) = OpenNow(desk) \ R
         /\ \A r \in Requests : q.saved[r] = IF r \in R THEN "resolved" ELSE desk.saved[r]
         /\ SameClock(q, desk)
<1> DEFINE q == Closed(desk, desk.window, R)
<1>1. /\ OwnDesk(desk) /\ Clocked(desk) /\ WorkOK /\ desk \in Desks
      /\ ClaimsFit(Resolving(desk), desk.window, route, batch)
  BY DEF OnceInv, WindowOK, QuestionInv, SoundDesk
<1>2. desk.window \in Clocks \cup {None} /\ R \in SUBSET Requests
  BY <1>1, OpenNowFacts
<1>3. /\ OwnDesk(q) /\ OpenNow(q) = OpenNow(desk) \ R /\ Resolving(q) = Resolving(desk) \ R
      /\ q.window = desk.window \/ (q.window = None /\ Resolving(q) = {})
      /\ Clocked(q) /\ \A k \in Clocks : q.clock[k].stopped = desk.clock[k].stopped
  BY <1>1, ClosedOwn
<1>4. \A r \in Requests : q.saved[r] = IF r \in R THEN "resolved" ELSE desk.saved[r]
  <2>1. CASE R = {}
    BY <2>1 DEF Closed
  <2>2. CASE R # {}
    BY <1>1, <1>2, <2>2, ClosedEffect
  <2> QED BY <2>1, <2>2
<1> HIDE DEF q
<1>5. ClaimsFit(Resolving(q), desk.window, rt, Disturbed(desk.window, R))
  BY <1>1, <1>2, <1>3, FitShrinks
<1>6. ClaimsFit(Resolving(q), q.window, rt, Disturbed(desk.window, R))
  BY <1>3, <1>5, FitEmpty
<1>7. SameClock(q, desk)
  BY <1>2, <1>3 DEF SameClock
<1> QED BY <1>3, <1>4, <1>6, <1>7 DEF q


\* Attaching questions, which leaves the claims of all others alone.
LEMMA AttachFits ==
  ASSUME NEW d, OwnDesk(d), Clocked(d), HasClock(d), NEW asked \in SUBSET Requests,
         NEW start \in ClockRecords, start.armed \/ start.stopped,
         NEW restored \in BOOLEAN, restored => d.window = None,
         NEW rt, NEW bs, ClaimsFit(Resolving(d), d.window, rt, bs)
  PROVE  LET q == Attached(d, asked, start, restored) IN
         /\ OwnDesk(q) /\ Clocked(q) /\ ClaimsFit(Resolving(q), q.window, rt, bs)
         /\ OpenNow(q) = OpenNow(d) \cup Welcome(d, asked)
         /\ \A r \in Requests : d.saved[r] = "resolved" => q.saved[r] = "resolved"
<1> DEFINE q == Attached(d, asked, start, restored)
<1>1. /\ OwnDesk(q) /\ OpenNow(q) = OpenNow(d) \cup Welcome(d, asked)
      /\ Resolving(q) = Resolving(d) /\ Clocked(q)
      /\ q.window = d.window \/ (d.window = None /\ Resolving(q) = {})
  BY AttachedOwn
<1>2. \A r \in Requests : d.saved[r] = "resolved" => q.saved[r] = "resolved"
  <2>1. CASE Welcome(d, asked) = {}
    BY <2>1 DEF Attached
  <2>2. CASE Welcome(d, asked) # {}
    <3>1. \A r \in Requests : q.saved[r] = IF r \in Welcome(d, asked) THEN "pending" ELSE d.saved[r]
      BY <2>2, AttachedEffect DEF OwnDesk, SoundDesk
    <3> QED BY <3>1 DEF Welcome
  <2> QED BY <2>1, <2>2
<1> HIDE DEF q
<1>3. ClaimsFit(Resolving(q), q.window, rt, bs)
  BY <1>1, FitEmpty
<1> QED BY <1>1, <1>2, <1>3 DEF q

\* Attaching leaves a stopped clock stopped, and starts the clock it is told to.
LEMMA AttachedClock ==
  ASSUME NEW d \in Desks, HasClock(d), NEW asked \in SUBSET Requests,
         NEW start \in ClockRecords, NEW restored \in BOOLEAN
  PROVE  LET q == Attached(d, asked, start, restored) IN
         /\ d.window # None /\ d.clock[d.window].stopped => q.clock[q.window].stopped
         /\ d.window = None /\ Welcome(d, asked) # {} => q.clock[q.window] = start
<1> DEFINE q == Attached(d, asked, start, restored)
<1>1. CASE Welcome(d, asked) = {}
  BY <1>1 DEF Attached
<1>2. CASE Welcome(d, asked) # {}
  <2>1. /\ d.window # None => q.window = d.window
        /\ q.clock[q.window] = IF d.window = None THEN start
                               ELSE IF restored \/ d.clock[q.window].stopped THEN d.clock[q.window]
                               ELSE FullClock
    BY <1>2, AttachedEffect
  <2> HIDE DEF q
  <2> QED BY <1>2, <2>1 DEF q
<1> QED BY <1>1, <1>2

-----------------------------------------------------------------------------
(* The steps.                                                               *)

\* OpenCode and its stream.
LEMMA OutsideStepsOnce ==
  ASSUME OnceInv, NEW r \in Requests, Ask(r) \/ AnsweredElsewhere(r) \/ ClosedArrives(r)
  PROVE  WindowOK' /\ OnceOK' /\ Moves
<1>0. /\ QuestionInv /\ OnceOK /\ WindowOK /\ WorkOK /\ HistoryOK /\ desk \in Desks
      /\ remote \in [Requests -> {"unasked", "open", "closed"}]
      /\ Closings({}) = closings
  BY NothingClosed DEF OnceInv, QuestionInv, OutsideOK, SoundDesk
<1>1. CASE Ask(r) \/ AnsweredElsewhere(r)
  <2>1. UNCHANGED <<session, up, desk, route, batch, closings, promised>>
    BY <1>1 DEF Ask, AnsweredElsewhere, daemon, history
  <2>2. WindowOK'
    BY <1>0, <2>1, NextWindow DEF WindowOK
  <2>3. /\ \A q \in Requests : remote[q] = "closed" => remote'[q] = "closed"
        /\ \A q \in Requests : /\ <<"asked", q>> \in frames'
                               => <<"asked", q>> \in frames \/ (q = r /\ session[SessionOf[r]] = "live")
        /\ ~up => frames' = frames
    BY <1>0, <1>1 DEF Ask, AnsweredElsewhere
  <2>4. OnceOK'
    <3>1. \A q \in OpenNow(desk') : closings[q] = 0
      BY <1>0, <2>1 DEF OnceOK
    <3> QED BY <1>0, <2>1, <2>3, <3>1, OnceStep DEF OnceOK
  <2>5. Moves
    BY <2>1, NothingMoves DEF SameClock
  <2> QED BY <2>2, <2>4, <2>5
<1>2. CASE ClosedArrives(r)
  <2>1. /\ UNCHANGED <<remote, session, up, route>> /\ frames' \subseteq frames
        /\ CloseAtOnce(r) /\ up
    BY <1>2 DEF ClosedArrives, daemon
  <2>2. CASE r \in OpenNow(desk) /\ desk.state[desk.window][r] = "pending"
    <3>1. /\ desk' = Closed(desk, desk.window, {r}) /\ batch' = Disturbed(desk.window, {r})
          /\ closings' = Closings({r}) /\ promised' = promised \ {r}
      BY <2>1, <2>2 DEF CloseAtOnce, Counted
    <3>2. r \notin Resolving(desk)
      BY <1>0, <2>2, OpenNowFacts
    <3>3. \A b \in Batches : batch[b].rest \cap {r} = {}
      BY <1>0, <3>2, RestIsClaimed DEF WindowOK
    <3>4. route.holds => route.req \notin {r}
      BY <1>0, <3>2 DEF WindowOK, ClaimsFit
    <3>5. /\ OwnDesk(desk') /\ Clocked(desk')
          /\ ClaimsFit(Resolving(desk'), desk'.window, route, batch')
          /\ OpenNow(desk') = OpenNow(desk) \ {r}
          /\ \A q \in Requests : desk'.saved[q] = IF q \in {r} THEN "resolved" ELSE desk.saved[q]
          /\ SameClock(desk', desk)
      BY <2>2, <3>1, <3>3, <3>4, CloseFits
    <3>6. WindowOK'
      BY <2>1, <3>5, NextWindow
    <3>7. closings[r] = 0 /\ \A q \in OpenNow(desk') : q \notin {r} /\ closings[q] = 0
      BY <1>0, <2>2, <3>5 DEF OnceOK
    <3>8. OnceOK'
      <4>1. \A q \in {r} : desk'.saved[q] = "resolved"
        BY <3>5
      <4>2. \A q \in Requests : desk.saved[q] = "resolved" => desk'.saved[q] = "resolved"
        BY <3>5
      <4>3. \A q \in Requests : <<"asked", q>> \in frames' => session'[SessionOf[q]] # "ended"
        BY <1>0, <2>1 DEF OnceOK
      <4> QED BY <1>0, <2>1, <3>1, <3>7, <4>1, <4>2, <4>3, OnceStep
    <3>9. Moves
      BY <3>1, <3>5, ClosedMoves
    <3> QED BY <3>6, <3>8, <3>9
  <2>3. CASE ~(r \in OpenNow(desk) /\ desk.state[desk.window][r] = "pending")
    <3>1. UNCHANGED <<desk, batch, closings, promised>>
      BY <2>1, <2>3 DEF CloseAtOnce
    <3>2. WindowOK'
      BY <1>0, <2>1, <3>1, NextWindow DEF WindowOK
    <3>3. \A q \in OpenNow(desk') : closings[q] = 0
      BY <1>0, <3>1 DEF OnceOK
    <3>4. OnceOK'
      BY <1>0, <2>1, <3>1, <3>3, OnceStep DEF OnceOK
    <3>5. Moves
      BY <3>1, NothingMoves DEF SameClock
    <3> QED BY <3>2, <3>4, <3>5
  <2> QED BY <2>2, <2>3
<1> QED BY <1>1, <1>2

LEMMA AskedArrivesOnce ==
  ASSUME OnceInv, NEW r \in Requests, AskedArrives(r)
  PROVE  WindowOK' /\ OnceOK' /\ Moves
<1>0. /\ QuestionInv /\ OnceOK /\ WindowOK /\ HistoryOK /\ Closings({}) = closings
      /\ desk \in Desks /\ FullClock \in ClockRecords /\ FullClock.armed
  BY NothingClosed DEF OnceInv, QuestionInv, FullClock, ClockRecords, SoundDesk
<1>1. /\ up /\ <<"asked", r>> \in frames /\ HasClock(desk) /\ frames' \subseteq frames
      /\ desk' = Attached(desk, {r}, FullClock, FALSE)
      /\ closings' = closings /\ UNCHANGED <<remote, session, up, route, batch>>
  BY <1>0 DEF AskedArrives, CountedAndJoined, daemon
<1>2. /\ OwnDesk(desk') /\ Clocked(desk')
      /\ ClaimsFit(Resolving(desk'), desk'.window, route, batch)
      /\ OpenNow(desk') = OpenNow(desk) \cup Welcome(desk, {r})
      /\ \A q \in Requests : desk.saved[q] = "resolved" => desk'.saved[q] = "resolved"
  <2> HIDE DEF FullClock, HasClock
  <2> QED BY <1>0, <1>1, AttachFits DEF WindowOK
<1>3. WindowOK'
  BY <1>1, <1>2, NextWindow
<1>4. \A q \in OpenNow(desk') : closings[q] = 0
  <2>1. desk.saved[r] # "resolved" => closings[r] = 0
    BY <1>0, <1>1 DEF OnceOK
  <2>2. \A q \in Welcome(desk, {r}) : q = r /\ desk.saved[r] # "resolved"
    BY DEF Welcome
  <2>3. \A q \in OpenNow(desk) : closings[q] = 0
    BY <1>0 DEF OnceOK
  <2> QED BY <1>2, <2>1, <2>2, <2>3
<1>5. OnceOK'
  <2> HIDE DEF HasClock
  <2> QED BY <1>0, <1>1, <1>2, <1>4, OnceStep DEF OnceOK
<1>6. Moves
  <2>1. promised' = promised \cup {q \in OpenNow(desk') : desk'.clock[desk'.window].stopped}
    BY DEF AskedArrives, CountedAndJoined
  <2>2. desk.window # None /\ desk.clock[desk.window].stopped => desk'.clock[desk'.window].stopped
    <3> HIDE DEF FullClock, HasClock
    <3> QED BY <1>0, <1>1, AttachedClock
  <2>3. \A q \in OpenNow(desk) : desk.window # None
    BY DEF OpenNow
  <2>4. \A q \in OpenNow(desk') : q \in OpenNow(desk) \/ <<"asked", q>> \in frames
    BY <1>1, <1>2 DEF Welcome
  <2> QED BY <1>2, <2>1, <2>2, <2>3, <2>4 DEF Moves
<1> QED BY <1>3, <1>5, <1>6


\* Nobody but its own batch takes a question that waits its turn there.
LEMMA SeizureFits ==
  ASSUME "late seizure" \notin Lapses, OnceInv, NEW R \in SUBSET OpenNow(desk), MaySeize(R)
  PROVE  \A b \in Batches : batch[b].rest \cap R = {}
<1> SUFFICES ASSUME NEW b \in Batches, batch[b].rest \cap R # {}
             PROVE  FALSE
  OBVIOUS
<1>1. /\ ClaimsFit(Resolving(desk), desk.window, route, batch) /\ WorkOK /\ desk \in Desks
  BY DEF OnceInv, WindowOK, QuestionInv, SoundDesk
<1>2. batch[b].clock = desk.window
  BY <1>1, RestIsClaimed
<1>3. desk.window # None
  BY <1>1, OpenNowFacts
<1>4. batch[b].rest \subseteq Queued(desk.window)
  BY <1>2 DEF Queued
<1> QED BY <1>3, <1>4 DEF MaySeize

\* The end of a session, and a stopped member.
LEMMA SessionStepsOnce ==
  ASSUME "late seizure" \notin Lapses, OnceInv, NEW s \in Sessions,
         SessionEnds(s) \/ MemberStopped(s)
  PROVE  WindowOK' /\ OnceOK' /\ Moves
<1> DEFINE R == {r \in OpenNow(desk) : SessionOf[r] = s}
<1>0. /\ QuestionInv /\ OnceOK /\ WindowOK /\ WorkOK /\ HistoryOK /\ desk \in Desks
      /\ remote \in [Requests -> {"unasked", "open", "closed"}]
      /\ session \in [Sessions -> {"live", "stopped", "ended"}]
      /\ frames \subseteq {"asked", "closed"} \X Requests
  BY DEF OnceInv, QuestionInv, OutsideOK, SoundDesk
<1>1. /\ desk' = Closed(desk, desk.window, R) /\ batch' = Disturbed(desk.window, R)
      /\ route' = RouteAfter(desk.window, R) /\ closings' = Closings(R) /\ promised' = promised \ R
      /\ up /\ UNCHANGED up /\ MaySeize(R)
  BY DEF SessionEnds, MemberStopped, Counted, daemon
<1>2. R \in SUBSET OpenNow(desk) /\ R \in SUBSET Requests
  BY <1>0, OpenNowFacts
<1>3. /\ \A r \in Requests : remote[r] = "closed" => remote'[r] = "closed"
      /\ \A k \in Sessions : session[k] = "ended" => session'[k] = "ended"
      /\ \A r \in Requests : <<"asked", r>> \in frames' =>
           /\ <<"asked", r>> \in frames
           /\ session'[SessionOf[r]] = "ended" => session[SessionOf[r]] = "ended"
  <2>1. CASE SessionEnds(s)
    <3>1. /\ session' = [session EXCEPT ![s] = "ended"]
          /\ frames' = {f \in frames : SessionOf[f[2]] # s}
          /\ remote' = [r \in Requests |-> IF SessionOf[r] = s /\ remote[r] = "open"
                                             THEN "closed" ELSE remote[r]]
      BY <2>1 DEF SessionEnds
    <3>2. \A r \in Requests : <<"asked", r>> \in frames' => <<"asked", r>> \in frames /\ SessionOf[r] # s
      BY <3>1
    <3>3. \A r \in Requests : SessionOf[r] \in Sessions
      BY QuestionAssumption
    <3> QED BY <1>0, <3>1, <3>2, <3>3
  <2>2. CASE MemberStopped(s)
    BY <2>2 DEF MemberStopped
  <2> QED BY <2>1, <2>2
<1> HIDE DEF R
<1>4. \A b \in Batches : batch[b].rest \cap R = {}
  BY <1>1, <1>2, SeizureFits
<1>5. /\ route'.req = route.req /\ route'.clock = route.clock
      /\ route'.holds = (route.holds /\ ~(route.clock = desk.window /\ route.req \in R))
  <2> DEFINE after == RouteAfter(desk.window, R)
  <2>1. /\ after.req = route.req /\ after.clock = route.clock
        /\ after.holds = (route.holds /\ ~(route.clock = desk.window /\ route.req \in R))
    BY <1>0, RouteAfterFields
  <2>2. route' = after
    BY <1>1
  <2> HIDE DEF after
  <2> QED BY <2>1, <2>2
<1>6. route.holds => route.clock = desk.window
  BY <1>0 DEF WindowOK, ClaimsFit
<1>7. /\ route'.holds => route.holds /\ route.req \notin R
      /\ route.holds /\ route.req \notin R => route'.holds
  BY <1>5, <1>6
<1>8. /\ OwnDesk(desk') /\ Clocked(desk')
      /\ ClaimsFit(Resolving(desk'), desk'.window, route', batch')
      /\ OpenNow(desk') = OpenNow(desk) \ R
      /\ \A q \in Requests : desk'.saved[q] = IF q \in R THEN "resolved" ELSE desk.saved[q]
      /\ SameClock(desk', desk)
  <2> DEFINE q == Closed(desk, desk.window, R)
  <2>1. /\ OwnDesk(q) /\ Clocked(q)
        /\ ClaimsFit(Resolving(q), q.window, route', Disturbed(desk.window, R))
        /\ OpenNow(q) = OpenNow(desk) \ R
        /\ \A r \in Requests : q.saved[r] = IF r \in R THEN "resolved" ELSE desk.saved[r]
        /\ SameClock(q, desk)
    BY ONLY OnceInv, <1>2, <1>4, <1>5, <1>7, CloseFits
  <2> HIDE DEF q
  <2>2. desk' = q
    BY <1>1 DEF q
  <2> QED BY <1>1, <2>1, <2>2
<1>9. WindowOK'
  BY <1>8, NextWindow
<1>10. OnceOK'
  <2>1. \A r \in R : closings[r] = 0 /\ desk'.saved[r] = "resolved"
    BY <1>0, <1>2, <1>8 DEF OnceOK
  <2>2. \A r \in Requests : desk.saved[r] = "resolved" => desk'.saved[r] = "resolved"
    BY <1>8
  <2>3. \A r \in OpenNow(desk') : r \notin R /\ closings[r] = 0
    BY <1>0, <1>8 DEF OnceOK
  <2>4. \A r \in Requests : <<"asked", r>> \in frames' => session'[SessionOf[r]] # "ended"
    BY <1>0, <1>3 DEF OnceOK
  <2> QED BY <1>0, <1>1, <1>2, <1>3, <2>1, <2>2, <2>3, <2>4, OnceStep
<1>11. Moves
  BY <1>1, <1>8, ClosedMoves
<1> QED BY <1>9, <1>10, <1>11

\* A step that closes nothing, opens nothing and says nothing of a session.
LEMMA QuietStep ==
  ASSUME OnceInv, OpenNow(desk') \subseteq OpenNow(desk), desk'.saved = desk.saved,
         UNCHANGED <<session, up, closings>>,
         \A r \in Requests : remote[r] = "closed" => remote'[r] = "closed",
         \A r \in Requests : <<"asked", r>> \in frames' => <<"asked", r>> \in frames,
         up
  PROVE  OnceOK'
<1>0. /\ QuestionInv /\ OnceOK /\ HistoryOK /\ Closings({}) = closings
  BY NothingClosed DEF OnceInv, QuestionInv
<1>1. \A r \in OpenNow(desk') : closings[r] = 0
  BY <1>0 DEF OnceOK
<1>2. \A r \in Requests : <<"asked", r>> \in frames' => session'[SessionOf[r]] # "ended"
  BY <1>0 DEF OnceOK
<1> QED BY <1>0, <1>1, <1>2, OnceStep

\* The user answers, or stops the clock.
LEMMA UserStepsOnce ==
  ASSUME OnceInv, QuestionInv', (\E r \in Requests : RouteClaims(r)) \/ StopClock
  PROVE  WindowOK' /\ OnceOK' /\ Moves
<1>0. /\ QuestionInv /\ OnceOK /\ WindowOK /\ WorkOK /\ desk \in Desks /\ OwnDesk(desk)
      /\ Clocked(desk) /\ ClaimsFit(Resolving(desk), desk.window, route, batch)
  BY DEF OnceInv, WindowOK, QuestionInv, SoundDesk
<1>1. ASSUME NEW r \in Requests, RouteClaims(r)
      PROVE  WindowOK' /\ OnceOK' /\ Moves
  <2> DEFINE c == desk.window
  <2>1. /\ up /\ route.req = None /\ r \in OpenNow(desk) /\ desk.state[c][r] = "pending"
        /\ desk' = Put(desk, c, {r}, "resolving") /\ batch' = Disturbed(c, {r})
        /\ route' = [req |-> r, clock |-> c, holds |-> TRUE]
        /\ UNCHANGED <<remote, session, frames, up, closings, promised>>
    BY <1>1 DEF RouteClaims, daemon, history
  <2>2. c \in Clocks /\ r \notin Resolving(desk) /\ Resolving(desk) \subseteq Requests
    BY <1>0, <2>1, OpenNowFacts
  <2>3. desk'.saved = desk.saved /\ desk'.clock = desk.clock
    BY <1>0, <2>1 DEF Put, Desks
  <2>4. ~route.holds
    BY <1>0, <2>1, <2>2, QuestionAssumption DEF ClaimsFit
  <2> HIDE DEF c
  <2>5. /\ OwnDesk(desk') /\ OpenNow(desk') = OpenNow(desk) /\ desk'.window = c
        /\ Resolving(desk') = Resolving(desk) \cup {r} /\ Clocked(desk')
    <3> DEFINE q == Put(desk, desk.window, {r}, "resolving")
    <3>1. {r} \in SUBSET OpenNow(desk) /\ desk.window # None
      BY <1>0, <2>1, OpenNowFacts
    <3>2. /\ OwnDesk(q) /\ OpenNow(q) = OpenNow(desk) /\ q.window = desk.window
          /\ Resolving(q) = Resolving(desk) \cup {r} /\ Clocked(q)
      BY <1>0, <2>1, <3>1, PutOwn
    <3>3. desk' = q
      BY <2>1 DEF c
    <3> HIDE DEF q
    <3> QED BY <3>2, <3>3 DEF c
  <2>6. \A b \in Batches : batch[b].rest \cap {r} = {}
    BY <1>0, <2>2, RestIsClaimed
  <2>7. ClaimsFit(Resolving(desk) \ {r}, c, route, batch')
    BY <1>0, <2>1, <2>4, <2>6, FitShrinks DEF c
  <2>8. Resolving(desk) \ {r} = Resolving(desk)
    BY <2>2
  <2>9. ClaimsFit(Resolving(desk'), desk'.window, route', batch')
    BY <2>1, <2>2, <2>4, <2>5, <2>7, <2>8, FitClaims
  <2>10. WindowOK'
    BY <2>5, <2>9, NextWindow
  <2>11. OnceOK'
    BY <2>1, <2>3, <2>5, QuietStep
  <2>12. Moves
    BY <2>1, <2>3, <2>5, NothingMoves DEF SameClock, c
  <2> QED BY <2>10, <2>11, <2>12
<1>2. CASE StopClock
  <2> DEFINE clocks == [desk.clock EXCEPT ![desk.window] = [@ EXCEPT !.stopped = TRUE, !.armed = FALSE]]
  <2>1. /\ up /\ desk.window # None
        /\ UNCHANGED <<remote, session, frames, up, closings, route, batch>>
    BY <1>2 DEF StopClock, daemon
  <2>2. desk' = [desk EXCEPT !.clock = clocks, !.savedClock = desk.window]
    BY <1>0, <1>2, StoppedDesk
  <2>3. desk.window \in Clocks
    BY <1>0, <2>1, OpenNowFacts
  <2>4. /\ clocks[desk.window].stopped
        /\ \A k \in Clocks : k # desk.window => clocks[k] = desk.clock[k]
    BY <1>0, <2>3 DEF Desks
  <2> HIDE DEF clocks
  <2>5. /\ desk'.window = desk.window /\ desk'.depth = desk.depth /\ desk'.saved = desk.saved
        /\ desk'.state = desk.state /\ desk'.savedClock = desk.window /\ desk'.clock = clocks
    BY <1>0, <2>2 DEF Desks
  <2>6. OwnDesk(desk') /\ OpenNow(desk') = OpenNow(desk)
    <3>1. SoundDesk(desk')
      BY DEF QuestionInv, SoundDesk, OpenNow, OpenOn, Desks, RequestStates
    <3>2. \A k \in Clocks : k # desk'.window => ~desk'.clock[k].armed
      BY <1>0, <2>4, <2>5 DEF OwnDesk
    <3> QED BY <1>0, <2>5, <3>1, <3>2, SameQuestions
  <2>7. Clocked(desk') /\ Resolving(desk') = Resolving(desk)
    BY <2>4, <2>5 DEF Clocked, Resolving, InState
  <2>8. WindowOK'
    BY <1>0, <2>1, <2>5, <2>6, <2>7, NextWindow
  <2>9. OnceOK'
    BY <2>1, <2>5, <2>6, QuietStep
  <2>10. Moves
    <3>1. promised' = promised \cup OpenNow(desk)
      BY <1>2 DEF StopClock
    <3>2. desk'.clock[desk'.window].stopped
      BY <2>4, <2>5
    <3> QED BY <2>6, <3>1, <3>2 DEF Moves
  <2> QED BY <2>8, <2>9, <2>10
<1> QED BY <1>1, <1>2


\* A batch takes the questions D on the step's clock, which rings no more.
LEMMA SeizedFits ==
  ASSUME WorkOK, NEW d, OwnDesk(d), d.window # None, NEW b \in Batches,
         NEW D \in SUBSET OpenNow(d),
         NEW rt0, ClaimsFit(Resolving(d), d.window, rt0, batch),
         \A k \in Batches : batch[k].rest \cap D = {},
         NEW rt, rt.holds => rt0.holds /\ rt.req = rt0.req /\ rt.clock = rt0.clock
                               /\ rt0.req \notin D,
         rt0.holds /\ rt0.req \notin D => rt.holds,
         Started(b, d.window, D),
         desk' = Put([d EXCEPT !.clock[d.window].armed = FALSE], d.window, D, "resolving"),
         d.clock[d.window].stopped \/ InState(d, d.window, "pending") \subseteq D
  PROVE  /\ OwnDesk(desk') /\ Clocked(desk') /\ OpenNow(desk') = OpenNow(d)
         /\ desk'.saved = d.saved /\ SameClock(desk', d)
         /\ ClaimsFit(Resolving(desk'), desk'.window, rt, batch')
<1> DEFINE w == d.window
           clocks == [d.clock EXCEPT ![w].armed = FALSE]
           e == [d EXCEPT !.clock = clocks]
<1>0. /\ d \in Desks /\ SoundDesk(d) /\ w \in Clocks /\ D \in SUBSET Requests
      /\ Resolving(d) \subseteq Requests
  BY OpenNowFacts DEF OwnDesk, SoundDesk
<1>1. /\ clocks \in [Clocks -> ClockRecords] /\ clocks[w].stopped = d.clock[w].stopped
      /\ ~clocks[w].armed /\ \A k \in Clocks : k # w => clocks[k] = d.clock[k]
  <2>1. d.clock \in [Clocks -> ClockRecords]
    BY <1>0 DEF Desks, ClockRecords
  <2>2. clocks[w] = [d.clock[w] EXCEPT !.armed = FALSE] /\ \A k \in Clocks : k # w => clocks[k] = d.clock[k]
    BY <1>0, <2>1
  <2>3. /\ [d.clock[w] EXCEPT !.armed = FALSE] \in ClockRecords
        /\ [d.clock[w] EXCEPT !.armed = FALSE].stopped = d.clock[w].stopped
        /\ ~[d.clock[w] EXCEPT !.armed = FALSE].armed
    BY <1>0, <2>1 DEF ClockRecords
  <2>4. clocks \in [Clocks -> ClockRecords]
    BY <1>0, <2>1, <2>3
  <2> HIDE DEF clocks
  <2> QED BY <2>2, <2>3, <2>4
<1> HIDE DEF clocks
<1>2. /\ e \in Desks /\ e.window = w /\ e.depth = d.depth /\ e.saved = d.saved /\ e.state = d.state
      /\ e.savedClock = d.savedClock /\ e.clock = clocks /\ e.waitRow = d.waitRow
  BY <1>0, <1>1 DEF Desks, ClockRecords
<1>3. desk' = Put(e, w, D, "resolving")
  BY DEF clocks
<1> HIDE DEF e
<1>4. OwnDesk(e) /\ OpenNow(e) = OpenNow(d)
  <2>1. OpenNow(e) = OpenNow(d)
    BY <1>2 DEF OpenNow, OpenOn
  <2>2. SoundDesk(e)
    BY <1>0, <1>2, <2>1 DEF SoundDesk
  <2>3. \A k \in Clocks : k # e.window => ~e.clock[k].armed
    BY <1>1, <1>2 DEF OwnDesk
  <2>4. e.savedClock = e.window
    BY <1>2 DEF OwnDesk
  <2> QED BY <1>2, <2>2, <2>3, <2>4, SameQuestions
<1>5. Resolving(e) = Resolving(d)
  BY <1>2 DEF Resolving, InState
<1>6. /\ OwnDesk(desk') /\ OpenNow(desk') = OpenNow(d) /\ desk'.window = w /\ desk'.clock = clocks
      /\ Resolving(desk') = Resolving(d) \cup D
  <2> DEFINE q == Put(e, e.window, D, "resolving")
  <2>1. /\ OwnDesk(q) /\ OpenNow(q) = OpenNow(e) /\ q.window = e.window /\ q.clock = e.clock
        /\ Resolving(q) = Resolving(e) \cup D
    BY <1>2, <1>4, PutOwn
  <2>2. desk' = q
    BY <1>2, <1>3
  <2> HIDE DEF q
  <2> QED BY <1>2, <1>4, <1>5, <2>1, <2>2
<1>7. desk'.saved = d.saved
  <2> HIDE DEF w
  <2> QED BY <1>2, <1>3 DEF Put, Desks
<1>8. Clocked(desk')
  <2> SUFFICES ASSUME NEW r \in OpenNow(desk'), desk'.state[desk'.window][r] = "pending"
               PROVE  desk'.clock[desk'.window].stopped
    BY DEF Clocked
  <2>1. r \in Requests /\ r \in OpenNow(d)
    BY <1>0, <1>6, OpenNowFacts
  <2>2. r \notin D /\ d.state[w][r] = "pending"
    <3>1. w \in Clocks /\ w = desk'.window /\ D \in SUBSET Requests
      BY <1>0, <1>6
    <3> HIDE DEF w
    <3>2. desk'.state[w][r] = IF r \in D THEN "resolving" ELSE d.state[w][r]
      BY <1>2, <1>3, <2>1, <3>1, PutEffect
    <3> QED BY <3>1, <3>2
  <2>3. r \in InState(d, w, "pending")
    BY <2>1, <2>2 DEF InState
  <2> QED BY <1>1, <1>6, <2>2, <2>3
<1>9. ClaimsFit(Resolving(d) \ D, w, rt, Disturbed(w, D))
  BY <1>0, FitShrinks
<1>10. ClaimsFit(Resolving(d) \cup D, w, rt, batch')
  <2>1. CASE D = {}
    <3>1. Disturbed(w, D) = batch
      BY <2>1 DEF Disturbed, WorkOK
    <3>2. batch' = batch /\ Resolving(d) \ D = Resolving(d) \cup D
      BY <2>1 DEF Started
    <3> QED BY <1>9, <3>1, <3>2
  <2>2. CASE D # {}
    <3>1. (Resolving(d) \ D) \cup D = Resolving(d) \cup D /\ (Resolving(d) \ D) \cap D = {}
      BY <1>0
    <3>2. ClaimsFit((Resolving(d) \ D) \cup D, w, rt, batch')
      BY <1>0, <1>9, <2>2, <3>1, FitStarts
    <3> QED BY <3>1, <3>2
  <2> QED BY <2>1, <2>2
<1>11. SameClock(desk', d)
  BY <1>1, <1>6 DEF SameClock
<1> QED BY <1>6, <1>7, <1>8, <1>10, <1>11

\* An expiry takes every question nobody works on, unless the clock was stopped.
LEMMA ExpiredFits ==
  ASSUME WorkOK, NEW d, OwnDesk(d), d.window # None, NEW b \in Batches,
         NEW rt, ClaimsFit(Resolving(d), d.window, rt, batch), Expired(d, d.window, b)
  PROVE  /\ OwnDesk(desk') /\ Clocked(desk') /\ OpenNow(desk') = OpenNow(d)
         /\ desk'.saved = d.saved /\ SameClock(desk', d)
         /\ ClaimsFit(Resolving(desk'), desk'.window, rt, batch')
<1> DEFINE D == IF d.clock[d.window].stopped THEN {} ELSE InState(d, d.window, "pending")
<1>0. d \in Desks
  BY DEF OwnDesk, SoundDesk
<1>1. /\ desk' = Put([d EXCEPT !.clock[d.window].armed = FALSE], d.window, D, "resolving")
      /\ Started(b, d.window, D)
  BY DEF Expired
<1>2. D \in SUBSET OpenNow(d)
  BY DEF InState, OpenNow, OpenOn
<1>3. D \cap Resolving(d) = {}
  BY DEF InState, Resolving
<1>4. d.clock[d.window].stopped \/ InState(d, d.window, "pending") \subseteq D
  OBVIOUS
<1> HIDE DEF D
<1>5. \A k \in Batches : batch[k].rest \cap D = {}
  BY <1>3, RestIsClaimed
<1>6. rt.holds => rt.req \notin D
  BY <1>3 DEF ClaimsFit
<1> QED BY <1>1, <1>2, <1>4, <1>5, <1>6, SeizedFits


\* The clock: its deadline, its expiry, and a teardown.
LEMMA DeadlineOnce ==
  ASSUME OnceInv, QuestionInv', NEW c \in Clocks, DeadlinePasses(c)
  PROVE  WindowOK' /\ OnceOK' /\ Moves /\ up
<1>0. /\ OnceOK /\ desk \in Desks /\ OwnDesk(desk) /\ Clocked(desk)
      /\ ClaimsFit(Resolving(desk), desk.window, route, batch)
  BY DEF OnceInv, WindowOK, QuestionInv, SoundDesk
<1> DEFINE clocks == [desk.clock EXCEPT ![c].due = TRUE]
<1>1. /\ UNCHANGED <<remote, session, frames, up, closings, promised, route, batch>>
      /\ desk' = [desk EXCEPT !.clock = clocks]
  BY DEF DeadlinePasses, daemon, history
<1>2. c = desk.window
  BY <1>0 DEF DeadlinePasses, OwnDesk
<1>3. up
  BY <1>0, <1>2, QuestionAssumption DEF OnceOK
<1>4. \A k \in Clocks : /\ clocks[k].armed = desk.clock[k].armed
                        /\ clocks[k].stopped = desk.clock[k].stopped
  BY <1>0 DEF Desks
<1> HIDE DEF clocks
<1>5. /\ desk'.window = desk.window /\ desk'.depth = desk.depth /\ desk'.saved = desk.saved
      /\ desk'.state = desk.state /\ desk'.savedClock = desk.savedClock /\ desk'.clock = clocks
  BY <1>0, <1>1 DEF Desks
<1>6. OwnDesk(desk') /\ OpenNow(desk') = OpenNow(desk)
  <2>1. SoundDesk(desk')
    BY DEF QuestionInv, SoundDesk, OpenNow, OpenOn, Desks, RequestStates
  <2>2. \A k \in Clocks : k # desk'.window => ~desk'.clock[k].armed
    BY <1>0, <1>4, <1>5 DEF OwnDesk
  <2>3. desk'.window # None => desk'.savedClock = desk'.window
    BY <1>0, <1>5 DEF OwnDesk
  <2> QED BY <1>0, <1>5, <2>1, <2>2, <2>3, SameQuestions
<1>7. Clocked(desk') /\ Resolving(desk') = Resolving(desk)
  BY <1>0, <1>2, <1>4, <1>5, <1>6 DEF Clocked, Resolving, InState
<1>8. WindowOK'
  BY <1>0, <1>1, <1>5, <1>6, <1>7, NextWindow
<1>9. OnceOK'
  BY <1>1, <1>3, <1>5, <1>6, QuietStep
<1>10. Moves
  BY <1>0, <1>1, <1>2, <1>4, <1>5, <1>6, NothingMoves DEF SameClock
<1> QED BY <1>3, <1>8, <1>9, <1>10

LEMMA ClockStepsOnce ==
  ASSUME "late seizure" \notin Lapses, OnceInv, NEW b \in Batches,
         (\E c \in Clocks : Expire(c, b)) \/ Teardown(b)
  PROVE  WindowOK' /\ OnceOK' /\ Moves
<1>0. /\ WorkOK /\ desk \in Desks /\ OwnDesk(desk)
      /\ ClaimsFit(Resolving(desk), desk.window, route, batch)
  BY DEF OnceInv, WindowOK, QuestionInv, SoundDesk
<1>1. UNCHANGED <<remote, session, frames, up, closings, promised>> /\ up
  BY DEF Expire, Teardown, daemon, history
<1>2. /\ OwnDesk(desk') /\ Clocked(desk') /\ OpenNow(desk') = OpenNow(desk)
      /\ desk'.saved = desk.saved /\ SameClock(desk', desk)
      /\ ClaimsFit(Resolving(desk'), desk'.window, route', batch')
  <2>1. ASSUME NEW c \in Clocks, Expire(c, b)
        PROVE  /\ OwnDesk(desk') /\ Clocked(desk') /\ OpenNow(desk') = OpenNow(desk)
               /\ desk'.saved = desk.saved /\ SameClock(desk', desk)
               /\ ClaimsFit(Resolving(desk'), desk'.window, route', batch')
    <3>1. desk.window = c /\ desk.window # None
      BY <1>0, <2>1, QuestionAssumption DEF Expire, OwnDesk
    <3>2. Expired(desk, desk.window, b) /\ route' = route
      BY <2>1, <3>1 DEF Expire
    <3>3. desk.window # None
      BY <3>1
    <3> QED BY ONLY <1>0, <3>2, <3>3, ExpiredFits
  <2>2. CASE Teardown(b)
    <3> DEFINE D == OpenNow(desk)
    <3>1. /\ desk' = Put([desk EXCEPT !.clock[desk.window].armed = FALSE], desk.window, D, "resolving")
          /\ Started(b, desk.window, D) /\ desk.window # None /\ MaySeize(D)
          /\ route' = RouteAfter(desk.window, D)
      BY <2>2 DEF Teardown
    <3>2. D \in SUBSET OpenNow(desk) /\ InState(desk, desk.window, "pending") \subseteq D
      BY <3>1 DEF OpenNow, OpenOn, InState
    <3> HIDE DEF D
    <3>3. \A k \in Batches : batch[k].rest \cap D = {}
      BY <3>1, <3>2, SeizureFits
    <3>4. /\ route'.req = route.req /\ route'.clock = route.clock
          /\ route'.holds = (route.holds /\ ~(route.clock = desk.window /\ route.req \in D))
      BY <1>0, <3>1, RouteAfterFields
    <3>5. route.holds => route.clock = desk.window
      BY <1>0 DEF ClaimsFit
    <3>6. /\ route'.holds => route.holds /\ route.req \notin D
          /\ route.holds /\ route.req \notin D => route'.holds
      BY <3>4, <3>5
    <3> QED BY <1>0, <3>1, <3>2, <3>3, <3>4, <3>6, SeizedFits
  <2> QED BY <2>1, <2>2
<1>3. WindowOK'
  BY <1>2, NextWindow
<1>4. OnceOK'
  BY <1>1, <1>2, QuietStep
<1>5. Moves
  BY <1>1, <1>2, NothingMoves
<1> QED BY <1>3, <1>4, <1>5


\* A person's answer gives up its claim.
LEMMA FitGivesBack ==
  ASSUME NEW S, NEW w, NEW rt, NEW bs, ClaimsFit(S, w, rt, bs), rt.holds, NEW rt2, ~rt2.holds
  PROVE  ClaimsFit(S \ {rt.req}, w, rt2, bs)
BY DEF ClaimsFit

\* The end of an answer's call.
LEMMA RouteSucceedsOnce ==
  ASSUME OnceInv, RouteSucceeds
  PROVE  WindowOK' /\ OnceOK' /\ Moves
<1> DEFINE q == route.req
<1>0. /\ QuestionInv /\ OnceOK /\ WorkOK /\ HistoryOK /\ desk \in Desks /\ OwnDesk(desk)
      /\ Clocked(desk) /\ ClaimsFit(Resolving(desk), desk.window, route, batch)
      /\ remote \in [Requests -> {"unasked", "open", "closed"}]
  BY DEF OnceInv, WindowOK, QuestionInv, OutsideOK, SoundDesk
<1>1. /\ remote' = [remote EXCEPT ![q] = "closed"] /\ route' = NoRoute /\ ~NoRoute.holds
      /\ frames' \subseteq frames \cup {<<"closed", q>>}
      /\ up /\ UNCHANGED <<session, up>>
  BY DEF RouteSucceeds, daemon, NoRoute
<1>2. /\ \A r \in Requests : remote[r] = "closed" => remote'[r] = "closed"
      /\ \A r \in Requests : <<"asked", r>> \in frames' => <<"asked", r>> \in frames
  BY <1>0, <1>1
<1>3. CASE route.holds
  <2>1. /\ q \in Resolving(desk) /\ route.clock = desk.window
    BY <1>0, <1>3 DEF ClaimsFit
  <2>2. StillClaimed
    BY <1>3, <2>1 DEF StillClaimed
  <2>3. /\ desk' = Closed(desk, desk.window, {q}) /\ batch' = Disturbed(desk.window, {q})
        /\ closings' = Closings({q}) /\ promised' = promised \ {q}
    BY <2>1, <2>2 DEF RouteSucceeds, Counted
  <2>4. {q} \in SUBSET OpenNow(desk) /\ {q} \in SUBSET Requests
    BY <1>0, <2>1, OpenNowFacts
  <2>5. \A b \in Batches : batch[b].rest \cap {q} = {}
    <3>1. \A b \in Batches : batch[b].rest \subseteq Claimed(batch[b])
      BY <1>0 DEF WorkOK, BatchRecords, Claimed
    <3>2. \A b \in Batches : q \notin Claimed(batch[b])
      BY <1>0, <1>3 DEF ClaimsFit
    <3> QED BY <3>1, <3>2
  <2>6. /\ OwnDesk(desk') /\ Clocked(desk')
        /\ ClaimsFit(Resolving(desk'), desk'.window, NoRoute, batch')
        /\ OpenNow(desk') = OpenNow(desk) \ {q}
        /\ \A r \in Requests : desk'.saved[r] = IF r \in {q} THEN "resolved" ELSE desk.saved[r]
        /\ SameClock(desk', desk)
    <3> DEFINE e == Closed(desk, desk.window, {q})
    <3>1. /\ OwnDesk(e) /\ Clocked(e)
          /\ ClaimsFit(Resolving(e), e.window, NoRoute, Disturbed(desk.window, {q}))
          /\ OpenNow(e) = OpenNow(desk) \ {q}
          /\ \A r \in Requests : e.saved[r] = IF r \in {q} THEN "resolved" ELSE desk.saved[r]
          /\ SameClock(e, desk)
      BY <1>1, <2>4, <2>5, CloseFits
    <3>2. desk' = e
      BY <2>3
    <3> HIDE DEF e
    <3> QED BY <2>3, <3>1, <3>2
  <2>7. WindowOK'
    BY <1>1, <2>6, NextWindow
  <2>8. OnceOK'
    <3>1. \A r \in {q} : closings[r] = 0 /\ desk'.saved[r] = "resolved"
      BY <1>0, <2>4, <2>6 DEF OnceOK
    <3>2. \A r \in Requests : desk.saved[r] = "resolved" => desk'.saved[r] = "resolved"
      BY <2>6
    <3>3. \A r \in OpenNow(desk') : r \notin {q} /\ closings[r] = 0
      BY <1>0, <2>6 DEF OnceOK
    <3>4. \A r \in Requests : <<"asked", r>> \in frames' => session'[SessionOf[r]] # "ended"
      BY <1>0, <1>1, <1>2 DEF OnceOK
    <3> QED BY <1>0, <1>1, <1>2, <2>3, <2>4, <3>1, <3>2, <3>3, <3>4, OnceStep
  <2>9. Moves
    BY <2>3, <2>6, ClosedMoves
  <2> QED BY <2>7, <2>8, <2>9
<1>4. CASE ~route.holds
  <2>1. UNCHANGED <<desk, batch, closings, promised>>
    BY <1>4 DEF RouteSucceeds, StillClaimed
  <2>2. ClaimsFit(Resolving(desk'), desk'.window, route', batch')
    BY <1>0, <1>1, <1>4, <2>1, FitReleased
  <2>3. WindowOK'
    BY <1>0, <2>1, <2>2, NextWindow
  <2>4. OnceOK'
    BY <1>1, <1>2, <2>1, QuietStep
  <2>5. Moves
    BY <2>1, NothingMoves DEF SameClock
  <2> QED BY <2>3, <2>4, <2>5
<1> QED BY <1>3, <1>4 DEF WorkOK

LEMMA RouteFailsOnce ==
  ASSUME OnceInv, NEW b \in Batches, RouteFails(b)
  PROVE  WindowOK' /\ OnceOK' /\ Moves
<1> DEFINE q == route.req
<1>0. /\ OnceOK /\ WorkOK /\ desk \in Desks /\ OwnDesk(desk)
      /\ Clocked(desk) /\ ClaimsFit(Resolving(desk), desk.window, route, batch)
      /\ remote \in [Requests -> {"unasked", "open", "closed"}]
  BY DEF OnceInv, WindowOK, QuestionInv, OutsideOK, SoundDesk
<1>1. /\ route' = NoRoute /\ ~NoRoute.holds /\ up /\ UNCHANGED <<session, up, closings, promised>>
      /\ remote' = remote \/ remote' = [remote EXCEPT ![q] = "closed"]
      /\ frames' \subseteq frames \cup {<<"closed", q>>}
  BY DEF RouteFails, daemon, history, NoRoute
<1>2. /\ \A r \in Requests : remote[r] = "closed" => remote'[r] = "closed"
      /\ \A r \in Requests : <<"asked", r>> \in frames' => <<"asked", r>> \in frames
  BY <1>0, <1>1
<1>3. /\ OwnDesk(desk') /\ Clocked(desk') /\ OpenNow(desk') = OpenNow(desk)
      /\ desk'.saved = desk.saved /\ SameClock(desk', desk)
      /\ ClaimsFit(Resolving(desk'), desk'.window, NoRoute, batch')
  <2>1. CASE ~route.holds
    <3>1. UNCHANGED <<desk, batch>>
      BY <2>1 DEF RouteFails, StillClaimed
    <3> QED BY <1>0, <1>1, <2>1, <3>1, FitReleased DEF SameClock
  <2>2. CASE route.holds
    <3> DEFINE d == Put(desk, desk.window, {q}, "pending")
    <3>1. q \in Resolving(desk) /\ route.clock = desk.window
      BY <1>0, <2>2 DEF ClaimsFit
    <3>2. StillClaimed
      BY <2>2, <3>1 DEF StillClaimed
    <3>3. IF d.clock[desk.window].due /\ ~d.clock[desk.window].stopped
            THEN Expired(d, desk.window, b)
            ELSE /\ desk' = [d EXCEPT !.clock[desk.window].armed = ~d.clock[desk.window].stopped]
                 /\ UNCHANGED batch
      BY <3>1, <3>2 DEF RouteFails
    <3>4. {q} \in SUBSET OpenNow(desk) /\ desk.window # None
      BY <1>0, <3>1, OpenNowFacts
    <3>5. /\ OwnDesk(d) /\ OpenNow(d) = OpenNow(desk) /\ d.window = desk.window
          /\ Resolving(d) = Resolving(desk) \ {q}
      BY <1>0, <3>4, PutOwn
    <3>6. d.saved = desk.saved /\ d.clock = desk.clock
      BY <1>0 DEF Put, Desks
    <3> HIDE DEF d
    <3>7. ClaimsFit(Resolving(d), d.window, NoRoute, batch)
      BY <1>0, <1>1, <2>2, <3>5, FitGivesBack
    <3>8. CASE d.clock[desk.window].due /\ ~d.clock[desk.window].stopped
      <4>1. Expired(d, d.window, b) /\ d.window # None
        BY <3>3, <3>4, <3>5, <3>8
      <4>2. /\ OwnDesk(desk') /\ Clocked(desk') /\ OpenNow(desk') = OpenNow(d)
            /\ desk'.saved = d.saved /\ SameClock(desk', d)
            /\ ClaimsFit(Resolving(desk'), desk'.window, NoRoute, batch')
        BY <1>0, <3>5, <3>7, <4>1, ExpiredFits
      <4>3. SameClock(desk', desk)
        BY <3>5, <3>6, <4>2 DEF SameClock
      <4> QED BY <3>5, <3>6, <4>2, <4>3
    <3>9. CASE ~(d.clock[desk.window].due /\ ~d.clock[desk.window].stopped)
      <4> DEFINE w == d.window
                 clocks == [d.clock EXCEPT ![w].armed = ~d.clock[w].stopped]
      <4>0. d \in Desks /\ w \in Clocks /\ SoundDesk(d)
        BY <3>4, <3>5 DEF OwnDesk, SoundDesk, Desks
      <4>1. desk' = [d EXCEPT !.clock = clocks] /\ UNCHANGED batch
        BY <3>3, <3>5, <3>9
      <4>2. clocks \in [Clocks -> ClockRecords]
        <5>1. d.clock \in [Clocks -> ClockRecords]
          BY <4>0 DEF Desks, ClockRecords
        <5>2. [d.clock[w] EXCEPT !.armed = ~d.clock[w].stopped] \in ClockRecords
          BY <4>0, <5>1 DEF ClockRecords
        <5> QED BY <5>1, <5>2
      <4>3. /\ clocks[w].armed \/ clocks[w].stopped
            /\ clocks[w].stopped = d.clock[w].stopped
            /\ \A k \in Clocks : k # w => clocks[k] = d.clock[k]
        <5>1. d.clock \in [Clocks -> ClockRecords]
          BY <4>0 DEF Desks, ClockRecords
        <5>2. clocks[w] = [d.clock[w] EXCEPT !.armed = ~d.clock[w].stopped]
          BY <4>0, <5>1
        <5>3. d.clock[w] \in ClockRecords
          BY <4>0, <5>1
        <5>4. /\ clocks[w].armed = ~d.clock[w].stopped
              /\ clocks[w].stopped = d.clock[w].stopped
          BY <5>2, <5>3 DEF ClockRecords
        <5>5. \A k \in Clocks : k # w => clocks[k] = d.clock[k]
          BY <4>0, <5>1
        <5> HIDE DEF clocks
        <5> QED BY <5>3, <5>4, <5>5 DEF ClockRecords
      <4> HIDE DEF clocks
      <4>4. /\ desk' \in Desks /\ desk'.window = w /\ desk'.depth = d.depth /\ desk'.saved = d.saved
            /\ desk'.state = d.state /\ desk'.savedClock = d.savedClock /\ desk'.clock = clocks
            /\ desk'.waitRow = d.waitRow
        BY <4>0, <4>1, <4>2 DEF Desks, ClockRecords
      <4>5. SoundDesk(desk')
        BY <4>0, <4>4 DEF SoundDesk, OpenNow, OpenOn
      <4>6. \A k \in Clocks : k # desk'.window => ~desk'.clock[k].armed
        BY <3>5, <4>3, <4>4 DEF OwnDesk
      <4>7. desk'.window # None => desk'.savedClock = desk'.window
        BY <3>5, <4>4 DEF OwnDesk
      <4>8. OwnDesk(desk') /\ OpenNow(desk') = OpenNow(d)
        BY <3>5, <4>4, <4>5, <4>6, <4>7, SameQuestions
      <4>9. Clocked(desk') /\ Resolving(desk') = Resolving(d)
        BY <4>3, <4>4 DEF Clocked, Resolving, InState
      <4>10. SameClock(desk', desk)
        BY <3>5, <3>6, <4>3, <4>4 DEF SameClock
      <4> QED BY <3>5, <3>6, <3>7, <4>1, <4>4, <4>8, <4>9, <4>10
    <3> QED BY <3>8, <3>9
  <2> QED BY <2>1, <2>2 DEF WorkOK
<1>4. WindowOK'
  BY <1>1, <1>3, NextWindow
<1>5. OnceOK'
  BY <1>1, <1>2, <1>3, QuietStep
<1>6. Moves
  BY <1>1, <1>3, NothingMoves
<1> QED BY <1>4, <1>5, <1>6


\* A refusal ends, and its batch goes on.
LEMMA ConcludedFits ==
  ASSUME OnceInv, NEW b \in Batches, batch[b].req \in Requests, Concluded(b)
  PROVE  /\ OwnDesk(desk') /\ Clocked(desk')
         /\ ClaimsFit(Resolving(desk'), desk'.window, route', batch')
         /\ SameClock(desk', desk)
         /\ \E R \in SUBSET OpenNow(desk) :
              /\ closings' = Closings(R) /\ OpenNow(desk') = OpenNow(desk) \ R
              /\ promised' = promised \ R
              /\ \A q \in Requests : desk'.saved[q] = IF q \in R THEN "resolved" ELSE desk.saved[q]
<1> DEFINE r == batch[b].req
<1>0. /\ HistoryOK /\ WorkOK /\ desk \in Desks /\ OwnDesk(desk) /\ batch \in [Batches -> BatchRecords]
      /\ Clocked(desk) /\ ClaimsFit(Resolving(desk), desk.window, route, batch)
  BY DEF OnceInv, WindowOK, QuestionInv, SoundDesk, WorkOK
<1>1. CASE batch[b].intact
  <2>1. /\ r \in Resolving(desk) /\ batch[b].clock = desk.window
        /\ ~(route.holds /\ route.req = r) /\ \A k \in Batches : batch[k].rest \cap {r} = {}
    BY <1>0, <1>1, RestIsClaimed
  <2>2. /\ desk' = Closed(desk, desk.window, {r}) /\ closings' = Closings({r}) /\ promised' = promised \ {r}
        /\ route' = RouteAfter(desk.window, {r}) /\ Onward(Disturbed(desk.window, {r}), b)
    BY <1>1, <2>1 DEF Concluded, Counted
  <2>3. {r} \in SUBSET OpenNow(desk) /\ {r} \in SUBSET Requests
    BY <1>0, <2>1, OpenNowFacts
  <2>4. ~Disturbed(desk.window, {r})[b].intact /\ Disturbed(desk.window, {r}) \in [Batches -> BatchRecords]
    <3>1. Disturbed(desk.window, {r})[b] = [batch[b] EXCEPT !.intact = FALSE]
      BY <2>1 DEF Disturbed
    <3>2. batch[b] \in BatchRecords
      BY <1>0
    <3> QED BY <1>0, <3>1, <3>2, DisturbedTyped DEF BatchRecords
  <2>5. /\ route'.req = route.req /\ route'.clock = route.clock
        /\ route'.holds = (route.holds /\ ~(route.clock = desk.window /\ route.req \in {r}))
    BY <1>0, <2>2, RouteAfterFields
  <2>6. /\ route'.holds => route.holds /\ route.req \notin {r}
        /\ route.holds /\ route.req \notin {r} => route'.holds
    BY <2>1, <2>5
  <2> HIDE DEF r
  <2> DEFINE e == Closed(desk, desk.window, {r})
  <2>7. /\ OwnDesk(e) /\ Clocked(e)
        /\ ClaimsFit(Resolving(e), e.window, route', Disturbed(desk.window, {r}))
        /\ OpenNow(e) = OpenNow(desk) \ {r} /\ SameClock(e, desk)
        /\ \A q \in Requests : e.saved[q] = IF q \in {r} THEN "resolved" ELSE desk.saved[q]
    BY <2>1, <2>3, <2>5, <2>6, CloseFits
  <2> HIDE DEF e
  <2>8. desk' = e
    BY <2>2 DEF e
  <2>9. ClaimsFit(Resolving(e), e.window, route', batch')
    BY <2>2, <2>4, <2>7, FitOnward
  <2> QED BY <2>2, <2>3, <2>7, <2>8, <2>9
<1>2. CASE ~batch[b].intact
  <2>1. Onward(batch, b) /\ UNCHANGED <<desk, closings, promised, route>>
    BY <1>2 DEF Concluded
  <2>2. ClaimsFit(Resolving(desk), desk.window, route, batch')
    BY <1>0, <1>2, <2>1, FitOnward
  <2>3. /\ closings' = Closings({}) /\ OpenNow(desk') = OpenNow(desk) \ {}
        /\ promised' = promised \ {} /\ SameClock(desk', desk)
        /\ \A q \in Requests : desk'.saved[q] = IF q \in {} THEN "resolved" ELSE desk.saved[q]
    BY <1>0, <2>1, NothingClosed DEF SameClock
  <2> QED BY <1>0, <2>1, <2>2, <2>3
<1> QED BY <1>1, <1>2

\* Nothing is refused or aborted any more of a question that was closed.
LEMMA ConcludedOnce ==
  ASSUME OnceInv, NEW b \in Batches, RefusalLands(b) \/ AbortConfirmed(b)
  PROVE  WindowOK' /\ OnceOK' /\ Moves
<1> DEFINE q == batch[b].req
<1>0. /\ QuestionInv /\ OnceOK /\ desk \in Desks /\ HistoryOK
      /\ remote \in [Requests -> {"unasked", "open", "closed"}]
      /\ session \in [Sessions -> {"live", "stopped", "ended"}]
      /\ batch[b] \in BatchRecords
  BY DEF OnceInv, QuestionInv, OutsideOK, WorkOK, SoundDesk
<1>1. q \in Requests
  BY <1>0 DEF RefusalLands, AbortConfirmed, BatchRecords
<1>2. /\ Concluded(b) /\ up /\ UNCHANGED up
      /\ \A r \in Requests : remote[r] = "closed" => remote'[r] = "closed"
      /\ \A k \in Sessions : session'[k] = "ended" <=> session[k] = "ended"
      /\ \A r \in Requests : <<"asked", r>> \in frames' => <<"asked", r>> \in frames
  <2>1. CASE RefusalLands(b)
    BY <1>0, <2>1 DEF RefusalLands, daemon
  <2>2. CASE AbortConfirmed(b)
    <3>1. /\ session' = [session EXCEPT ![SessionOf[q]] = IF @ = "live" THEN "stopped" ELSE @]
          /\ remote' = [r \in Requests |-> IF SessionOf[r] = SessionOf[q] /\ remote[r] = "open"
                                             THEN "closed" ELSE remote[r]]
          /\ Concluded(b) /\ up /\ UNCHANGED <<frames, up>>
      BY <2>2 DEF AbortConfirmed, daemon
    <3>2. SessionOf[q] \in Sessions
      BY <1>1, QuestionAssumption
    <3> QED BY <1>0, <3>1, <3>2
  <2> QED BY <2>1, <2>2
<1>3. /\ OwnDesk(desk') /\ Clocked(desk')
      /\ ClaimsFit(Resolving(desk'), desk'.window, route', batch') /\ SameClock(desk', desk)
  BY <1>1, <1>2, ConcludedFits
<1>4. PICK R \in SUBSET OpenNow(desk) :
        /\ closings' = Closings(R) /\ OpenNow(desk') = OpenNow(desk) \ R
        /\ promised' = promised \ R
        /\ \A r \in Requests : desk'.saved[r] = IF r \in R THEN "resolved" ELSE desk.saved[r]
  BY <1>1, <1>2, ConcludedFits
<1>5. WindowOK'
  BY <1>3, NextWindow
<1>6. OnceOK'
  <2>0. R \in SUBSET Requests /\ \A r \in Requests : SessionOf[r] \in Sessions
    BY <1>0, OpenNowFacts, QuestionAssumption
  <2>1. \A r \in R : closings[r] = 0 /\ desk'.saved[r] = "resolved"
    BY <1>0, <1>4, <2>0 DEF OnceOK
  <2>2. \A r \in Requests : desk.saved[r] = "resolved" => desk'.saved[r] = "resolved"
    BY <1>4
  <2>3. \A r \in OpenNow(desk') : r \notin R /\ closings[r] = 0
    BY <1>0, <1>4 DEF OnceOK
  <2>4. \A r \in Requests : <<"asked", r>> \in frames' => session'[SessionOf[r]] # "ended"
    BY <1>0, <1>2, <2>0 DEF OnceOK
  <2> QED BY <1>0, <1>2, <1>4, <2>0, <2>1, <2>2, <2>3, <2>4, OnceStep
<1>7. Moves
  BY <1>3, <1>4, ClosedMoves
<1> QED BY <1>5, <1>6, <1>7


\* A refusal, or an abort, that was not confirmed.
LEMMA RefusalFailsOnce ==
  ASSUME OnceInv, NEW b \in Batches, RefusalFails(b)
  PROVE  WindowOK' /\ OnceOK' /\ Moves
<1>0. /\ desk \in Desks /\ OwnDesk(desk) /\ Clocked(desk) /\ batch \in [Batches -> BatchRecords]
      /\ ClaimsFit(Resolving(desk), desk.window, route, batch)
  BY DEF OnceInv, WindowOK, QuestionInv, SoundDesk, WorkOK
<1>1. up /\ UNCHANGED <<remote, session, frames, up, desk, route, closings, promised>>
  BY DEF RefusalFails, daemon, history
<1>2. ClaimsFit(Resolving(desk), desk.window, route, batch')
  <2>1. CASE batch[b].intact
    <3>1. batch' = [batch EXCEPT ![b] = [batch[b] EXCEPT !.step = "abort"]]
      BY <2>1 DEF RefusalFails
    <3>2. \A k \in Batches : /\ batch'[k].clock = batch[k].clock /\ batch'[k].req = batch[k].req
                             /\ batch'[k].rest = batch[k].rest /\ batch'[k].intact = batch[k].intact
      <4> SUFFICES ASSUME NEW k \in Batches
                   PROVE  /\ batch'[k].clock = batch[k].clock /\ batch'[k].req = batch[k].req
                          /\ batch'[k].rest = batch[k].rest /\ batch'[k].intact = batch[k].intact
        OBVIOUS
      <4>1. batch[k] \in BatchRecords
        BY <1>0
      <4>2. batch'[k] = batch[k] \/ batch'[k] = [batch[k] EXCEPT !.step = "abort"]
        BY <1>0, <3>1
      <4> QED BY <4>1, <4>2 DEF BatchRecords
    <3>3. \A k \in Batches : Claimed(batch'[k]) = Claimed(batch[k])
      BY <3>2 DEF Claimed
    <3> QED BY <1>0, <3>2, <3>3 DEF ClaimsFit
  <2>2. CASE ~batch[b].intact
    BY <1>0, <2>2, FitOnward DEF RefusalFails
  <2> QED BY <2>1, <2>2
<1>3. WindowOK'
  BY <1>0, <1>1, <1>2, NextWindow
<1>4. OnceOK'
  BY <1>1, QuietStep
<1>5. Moves
  BY <1>1, NothingMoves DEF SameClock
<1> QED BY <1>3, <1>4, <1>5

LEMMA AbortUnconfirmedOnce ==
  ASSUME OnceInv, QuestionInv', NEW b \in Batches, AbortUnconfirmed(b)
  PROVE  WindowOK' /\ OnceOK' /\ Moves
<1> DEFINE r == batch[b].req
           w == desk.window
<1>0. /\ WorkOK /\ desk \in Desks /\ OwnDesk(desk) /\ Clocked(desk)
      /\ ClaimsFit(Resolving(desk), w, route, batch) /\ batch \in [Batches -> BatchRecords]
  BY DEF OnceInv, WindowOK, QuestionInv, SoundDesk, WorkOK
<1>1. /\ up /\ UNCHANGED <<remote, session, frames, up, closings, promised>> /\ r # None
  BY DEF AbortUnconfirmed, daemon, history
<1>2. r \in Requests
  <2>1. batch[b] \in BatchRecords
    BY <1>0
  <2> QED BY <1>1, <2>1 DEF BatchRecords
<1>3. CASE batch[b].intact
  <2>1. /\ r \in Resolving(desk) /\ batch[b].clock = w
        /\ ~(route.holds /\ route.req = r) /\ \A k \in Batches : batch[k].rest \cap {r} = {}
    BY <1>0, <1>2, <1>3, RestIsClaimed
  <2>2. /\ r \in OpenNow(desk) /\ w \in Clocks /\ w # None /\ desk.saved[r] = "pending"
        /\ desk.state[w][r] = "resolving"
    <3>1. r \in OpenNow(desk) /\ w \in Clocks /\ w # None /\ desk.state[w][r] = "resolving"
      BY <1>0, <1>2, <2>1, OpenNowFacts
    <3> QED BY <1>0, <3>1 DEF OwnDesk
  <2> DEFINE row    == [desk.state[w] EXCEPT ![r] = "pending"]
             states == [desk.state EXCEPT ![w] = row]
             saved  == [desk.saved EXCEPT ![r] = "pending"]
             clocks == [desk.clock EXCEPT ![w] = IF @.stopped THEN @ ELSE FullClock]
  <2>3. /\ desk' = [desk EXCEPT !.state = states, !.saved = saved, !.clock = clocks, !.savedClock = w]
        /\ route' = RouteAfter(w, {r}) /\ Onward(Disturbed(w, {r}), b)
    BY <1>3, <2>1, <2>2 DEF AbortUnconfirmed
  <2>4. saved = desk.saved
    BY <1>0, <2>2 DEF Desks
  <2>5. /\ \A k \in Clocks, q \in Requests :
             states[k][q] = IF k = w /\ q = r THEN "pending" ELSE desk.state[k][q]
        /\ clocks[w].armed \/ clocks[w].stopped
        /\ clocks[w].stopped = desk.clock[w].stopped
        /\ \A k \in Clocks : k # w => clocks[k] = desk.clock[k]
    BY <1>0, <2>2 DEF Desks, FullClock
  <2> HIDE DEF states, saved, clocks, row
  <2>6. /\ desk'.window = w /\ desk'.depth = desk.depth /\ desk'.saved = desk.saved
        /\ desk'.state = states /\ desk'.savedClock = w /\ desk'.clock = clocks
    BY <1>0, <2>3, <2>4 DEF Desks
  <2>7. OwnDesk(desk') /\ OpenNow(desk') = OpenNow(desk)
    <3>1. SoundDesk(desk')
      BY DEF QuestionInv, SoundDesk, OpenNow, OpenOn, Desks, RequestStates
    <3>2. \A k \in Clocks : k # desk'.window => ~desk'.clock[k].armed
      BY <1>0, <2>5, <2>6 DEF OwnDesk
    <3>3. \A k \in Clocks, q \in Requests :
            desk'.state[k][q] = "absent" <=> desk.state[k][q] = "absent"
      BY <2>2, <2>5, <2>6
    <3> QED BY <1>0, <2>6, <3>1, <3>2, <3>3, SameQuestions
  <2>8. Clocked(desk')
    BY <2>5, <2>6 DEF Clocked
  <2>9. Resolving(desk') = Resolving(desk) \ {r}
    <3>1. \A q \in Requests : q \in Resolving(desk') <=> q \in Resolving(desk) /\ q # r
      BY <1>0, <2>2, <2>5, <2>6 DEF Resolving, InState
    <3>2. Resolving(desk') \subseteq Requests /\ Resolving(desk) \subseteq Requests
      BY DEF Resolving, InState
    <3> QED BY <3>1, <3>2
  <2>10. /\ route'.req = route.req /\ route'.clock = route.clock
         /\ route'.holds = (route.holds /\ ~(route.clock = w /\ route.req \in {r}))
    BY <1>0, <2>3, RouteAfterFields
  <2>11. /\ route'.holds => route.holds /\ route.req \notin {r}
         /\ route.holds /\ route.req \notin {r} => route'.holds
    BY <2>1, <2>10
  <2>12. ClaimsFit(Resolving(desk) \ {r}, w, route', Disturbed(w, {r}))
    BY <1>0, <1>2, <2>1, <2>10, <2>11, FitShrinks
  <2>13. ~Disturbed(w, {r})[b].intact /\ Disturbed(w, {r}) \in [Batches -> BatchRecords]
    <3>1. Disturbed(w, {r})[b] = [batch[b] EXCEPT !.intact = FALSE]
      BY <2>1 DEF Disturbed
    <3>2. batch[b] \in BatchRecords
      BY <1>0
    <3> QED BY <1>0, <3>1, <3>2, DisturbedTyped DEF BatchRecords
  <2>14. ClaimsFit(Resolving(desk') , desk'.window, route', batch')
    BY <2>3, <2>6, <2>9, <2>12, <2>13, FitOnward
  <2>15. WindowOK'
    BY <2>7, <2>8, <2>14, NextWindow
  <2>16. OnceOK'
    BY <1>1, <2>6, <2>7, QuietStep
  <2>17. Moves
    BY <1>1, <2>5, <2>6, <2>7, NothingMoves DEF SameClock
  <2> QED BY <2>15, <2>16, <2>17
<1>4. CASE ~batch[b].intact
  <2>1. UNCHANGED <<desk, route>> /\ Onward(batch, b)
    BY <1>4 DEF AbortUnconfirmed
  <2>2. ClaimsFit(Resolving(desk), desk.window, route, batch')
    BY <1>0, <1>4, <2>1, FitOnward
  <2>3. WindowOK'
    BY <1>0, <2>1, <2>2, NextWindow
  <2>4. OnceOK'
    BY <1>1, <2>1, QuietStep
  <2>5. Moves
    BY <1>1, <2>1, NothingMoves DEF SameClock
  <2> QED BY <2>3, <2>4, <2>5
<1> QED BY <1>3, <1>4


\* A list of questions arrives.
LEMMA PollOnce ==
  ASSUME OnceInv, NEW verified \in SUBSET Sessions, NEW listed \in SUBSET Requests,
         Poll(verified, listed)
  PROVE  WindowOK' /\ OnceOK' /\ Moves
<1> DEFINE active == {s \in Sessions : session[s] # "ended"}
           gone == Unlisted(verified, active, listed)
           kept == Closed(desk, desk.window, gone)
<1>0. /\ QuestionInv /\ OnceOK /\ WorkOK /\ HistoryOK /\ desk \in Desks /\ OwnDesk(desk)
      /\ Clocked(desk) /\ ClaimsFit(Resolving(desk), desk.window, route, batch)
      /\ FullClock \in ClockRecords /\ FullClock.armed
  BY DEF OnceInv, WindowOK, QuestionInv, SoundDesk, FullClock, ClockRecords
<1>1. /\ up /\ verified \subseteq active /\ HasClock(kept)
      /\ listed \subseteq {r \in Requests : SessionOf[r] \in verified /\ remote[r] # "unasked"}
      /\ desk' = Attached(kept, listed, FullClock, FALSE)
      /\ batch' = Disturbed(desk.window, gone) /\ closings' = Closings(gone)
      /\ UNCHANGED <<remote, session, frames, up, route>>
  BY DEF Poll, CountedAndJoined, daemon
<1>2. /\ gone \in SUBSET OpenNow(desk) /\ gone \in SUBSET Requests /\ gone \cap Resolving(desk) = {}
  BY <1>0, OpenNowFacts DEF Unlisted
<1>3. \A r \in listed : session[SessionOf[r]] # "ended"
  BY <1>1
<1> HIDE DEF gone
<1>4. \A b \in Batches : batch[b].rest \cap gone = {}
  BY <1>0, <1>2, RestIsClaimed
<1>5. route.holds => route.req \notin gone
  BY <1>0, <1>2 DEF ClaimsFit
<1>6. /\ OwnDesk(kept) /\ Clocked(kept)
      /\ ClaimsFit(Resolving(kept), kept.window, route, Disturbed(desk.window, gone))
      /\ OpenNow(kept) = OpenNow(desk) \ gone
      /\ \A r \in Requests : kept.saved[r] = IF r \in gone THEN "resolved" ELSE desk.saved[r]
      /\ SameClock(kept, desk)
  BY <1>2, <1>4, <1>5, CloseFits
<1> HIDE DEF kept
<1>7. /\ OwnDesk(desk') /\ Clocked(desk')
      /\ ClaimsFit(Resolving(desk'), desk'.window, route, batch')
      /\ OpenNow(desk') = OpenNow(kept) \cup Welcome(kept, listed)
      /\ \A r \in Requests : kept.saved[r] = "resolved" => desk'.saved[r] = "resolved"
  <2> HIDE DEF FullClock, HasClock, Attached
  <2>1. listed \in SUBSET Requests /\ FALSE \in BOOLEAN
    BY <1>1
  <2>2. ClaimsFit(Resolving(kept), kept.window, route, batch')
    BY <1>1, <1>6
  <2> DEFINE q == Attached(kept, listed, FullClock, FALSE)
  <2>3. /\ OwnDesk(q) /\ Clocked(q) /\ ClaimsFit(Resolving(q), q.window, route, batch')
        /\ OpenNow(q) = OpenNow(kept) \cup Welcome(kept, listed)
        /\ \A r \in Requests : kept.saved[r] = "resolved" => q.saved[r] = "resolved"
    <3>1. HasClock(kept)
      BY <1>1
    <3> QED BY <1>0, <1>6, <2>1, <2>2, <3>1, AttachFits
  <2>4. desk' = q
    BY <1>1
  <2> HIDE DEF q
  <2> QED BY <2>3, <2>4
<1>8. WindowOK'
  BY <1>1, <1>7, NextWindow
<1>9. OnceOK'
  <2>1. \A r \in gone : closings[r] = 0 /\ desk'.saved[r] = "resolved"
    BY <1>0, <1>2, <1>6, <1>7 DEF OnceOK
  <2>2. \A r \in Requests : desk.saved[r] = "resolved" => desk'.saved[r] = "resolved"
    BY <1>6, <1>7
  <2>3. \A r \in OpenNow(desk') : r \notin gone /\ closings[r] = 0
    <3>1. \A r \in OpenNow(kept) : r \notin gone /\ closings[r] = 0
      BY <1>0, <1>6 DEF OnceOK
    <3>2. ASSUME NEW r \in Welcome(kept, listed)
          PROVE  r \notin gone /\ closings[r] = 0
      <4>1. r \in listed /\ r \in Requests /\ kept.saved[r] # "resolved"
        BY DEF Welcome
      <4>2. r \notin gone /\ desk.saved[r] # "resolved"
        BY <1>6, <4>1
      <4> QED BY <1>0, <1>3, <4>1, <4>2 DEF OnceOK
    <3> QED BY <1>7, <3>1, <3>2
  <2>4. \A r \in Requests : <<"asked", r>> \in frames' => session'[SessionOf[r]] # "ended"
    BY <1>0, <1>1 DEF OnceOK
  <2> HIDE DEF HasClock
  <2> QED BY <1>0, <1>1, <1>2, <2>1, <2>2, <2>3, <2>4, OnceStep
<1>10. Moves
  <2>1. promised' = (promised \ gone) \cup {r \in OpenNow(desk') : desk'.clock[desk'.window].stopped}
    BY DEF Poll, CountedAndJoined, gone
  <2>2. kept.window # None /\ kept.clock[kept.window].stopped => desk'.clock[desk'.window].stopped
    <3>1. kept \in Desks
      BY <1>6 DEF OwnDesk, SoundDesk
    <3> HIDE DEF FullClock, HasClock
    <3> QED BY <1>0, <1>1, <3>1, AttachedClock
  <2>3. \A r \in OpenNow(kept) : kept.window # None
    BY DEF OpenNow
  <2>4. \A r \in OpenNow(desk) : desk.clock[desk.window].stopped /\ r \notin gone =>
          r \in OpenNow(desk') /\ desk'.clock[desk'.window].stopped
    BY <1>6, <1>7, <2>2, <2>3 DEF SameClock
  <2>5. \A r \in listed : /\ session[SessionOf[r]] # "ended"
                          /\ remote[r] = "open" \/ (ListsMayBeStale /\ remote[r] # "unasked")
    BY <1>1, <1>3 DEF Poll, ListsMayBeStale
  <2>6. \A r \in OpenNow(desk') : r \in OpenNow(desk) \/ r \in listed
    BY <1>6, <1>7 DEF Welcome
  <2> QED BY <2>1, <2>4, <2>5, <2>6 DEF Moves
<1> QED BY <1>8, <1>9, <1>10

\* The daemon dies.
LEMMA CrashOnce ==
  ASSUME OnceInv, QuestionInv', Crash
  PROVE  WindowOK' /\ OnceOK'
<1>0. QuestionInv /\ OnceOK /\ HistoryOK /\ desk \in Desks /\ Closings({}) = closings
  BY NothingClosed DEF OnceInv, QuestionInv, SoundDesk
<1>1. /\ UNCHANGED <<remote, session, closings>> /\ frames' = {} /\ route' = NoRoute
      /\ batch' = [b \in Batches |-> NoBatch] /\ ~up'
  BY DEF Crash, history
<1>2. /\ desk'.window = None /\ desk'.depth = 0 /\ desk'.saved = desk.saved
      /\ \A c \in Clocks : ~desk'.clock[c].armed
      /\ \A c \in Clocks, r \in Requests : desk'.state[c][r] = "absent"
  <2> DEFINE clocks == [c \in Clocks |-> IF c = desk.savedClock
                                           THEN [desk.clock[c] EXCEPT !.armed = FALSE] ELSE IdleClock]
             states == [c \in Clocks |-> [r \in Requests |-> "absent"]]
  <2>1. desk' = [desk EXCEPT !.window = None, !.depth = 0, !.state = states, !.clock = clocks]
    BY DEF Crash
  <2>2. \A c \in Clocks : ~clocks[c].armed
    <3>1. \A c \in Clocks : desk.clock[c] \in ClockRecords
      BY <1>0 DEF Desks, ClockRecords
    <3> QED BY <3>1 DEF IdleClock, ClockRecords
  <2>3. \A c \in Clocks, r \in Requests : states[c][r] = "absent"
    OBVIOUS
  <2> HIDE DEF clocks, states
  <2> QED BY <1>0, <2>1, <2>2, <2>3 DEF Desks
<1>3. OpenNow(desk') = {} /\ Resolving(desk') = {}
  BY <1>2 DEF OpenNow, Resolving
<1>4. OwnDesk(desk')
  <2>1. SoundDesk(desk')
    BY DEF QuestionInv, SoundDesk, OpenNow, OpenOn, Desks, RequestStates
  <2>2. \A c \in Clocks : OpenOn(desk', c) = {}
    BY <1>2 DEF OpenOn
  <2> QED BY <1>2, <1>3, <2>1, <2>2, FS_EmptySet DEF OwnDesk
<1>5. Clocked(desk')
  BY <1>3 DEF Clocked
<1>6. ClaimsFit(Resolving(desk'), desk'.window, route', batch')
  <2>1. \A b \in Batches : batch'[b] = NoBatch
    BY <1>1
  <2>2. \A b \in Batches : Claimed(batch'[b]) = {}
    BY <2>1, NothingClaimed
  <2>3. \A b \in Batches : batch'[b].req \notin batch'[b].rest /\ batch'[b].rest = {}
    BY <2>1 DEF NoBatch
  <2> QED BY <1>1, <1>3, <2>2, <2>3 DEF ClaimsFit, NoRoute
<1>7. WindowOK'
  BY <1>4, <1>5, <1>6, NextWindow
<1>8. OnceOK'
  BY <1>0, <1>1, <1>2, <1>3, OnceStep
<1> QED BY <1>7, <1>8


\* A start opens the questions of the sessions that are back, under the clock
\* that was saved.
BootBrings(back, heard) ==
  /\ OpenNow(desk') =
       Welcome(desk, {r \in Requests : remote[r] = "open" /\ SessionOf[r] \in heard \cap back})
  /\ OpenNow(desk') # {} =>
       (desk.savedClock # None /\ desk.clock[desk.savedClock].stopped
          => desk'.clock[desk'.window].stopped)

\* The daemon starts again.
LEMMA BootOnce ==
  ASSUME OnceInv, QuestionInv', NEW back \in SUBSET Sessions, NEW heard \in SUBSET Sessions,
         NEW refused \in SUBSET Requests, NEW late \in BOOLEAN, Boot(back, heard, refused, late)
  PROVE  WindowOK' /\ OnceOK' /\ BootBrings(back, heard)
<1> DEFINE open    == {r \in Requests : remote[r] = "open" /\ SessionOf[r] \in heard}
           lost    == {r \in open : SessionOf[r] \notin back}
           saved   == desk.savedClock
           restore == saved # None
           start   == IF restore THEN Restored(desk.clock[saved], late) ELSE FullClock
           d       == Attached(desk, open \ lost, start, restore)
           R       == {r \in refused : desk.saved[r] # "resolved"}
<1>0. /\ QuestionInv /\ OnceOK /\ WorkOK /\ HistoryOK /\ desk \in Desks /\ OwnDesk(desk)
      /\ Clocked(desk) /\ ClaimsFit(Resolving(desk), desk.window, route, batch)
      /\ remote \in [Requests -> {"unasked", "open", "closed"}]
      /\ session \in [Sessions -> {"live", "stopped", "ended"}]
  BY DEF OnceInv, WindowOK, QuestionInv, OutsideOK, SoundDesk
<1>1. /\ ~up /\ up' /\ HasClock(desk) /\ refused \subseteq lost
      /\ back \subseteq {s \in Sessions : session[s] = "live"}
      /\ session' = [s \in Sessions |-> IF s \in back THEN "live" ELSE "ended"]
      /\ remote' = [r \in Requests |-> IF r \in refused THEN "closed" ELSE remote[r]]
      /\ desk' = [d EXCEPT !.waitRow = RowAfterStart(d, heard # Sessions \/ refused # lost)]
      /\ closings' = Closings(R) /\ UNCHANGED <<frames, route, batch>>
  BY DEF Boot, Counted
<1>2. desk.window = None /\ frames = {} /\ OpenNow(desk) = {}
  BY <1>0, <1>1 DEF OnceOK, OpenNow
<1>3. start \in ClockRecords /\ (start.armed \/ start.stopped)
  <2>1. restore => desk.clock[saved] \in ClockRecords
    BY <1>0 DEF Desks, ClockRecords
  <2>2. restore => /\ Restored(desk.clock[saved], late) \in ClockRecords
                   /\ Restored(desk.clock[saved], late).armed \/ Restored(desk.clock[saved], late).stopped
    BY <2>1 DEF Restored, ClockRecords
  <2>3. FullClock \in ClockRecords /\ FullClock.armed
    BY DEF FullClock, ClockRecords
  <2> QED BY <2>2, <2>3
<1> HIDE DEF start
<1>4. /\ OwnDesk(d) /\ Clocked(d) /\ ClaimsFit(Resolving(d), d.window, route, batch)
      /\ OpenNow(d) = OpenNow(desk) \cup Welcome(desk, open \ lost)
      /\ \A r \in Requests : desk.saved[r] = "resolved" => d.saved[r] = "resolved"
  <2> DEFINE asked == open \ lost
  <2>1. asked \in SUBSET Requests
    OBVIOUS
  <2> HIDE DEF asked, HasClock
  <2> DEFINE Result == /\ OwnDesk(d) /\ Clocked(d)
                       /\ ClaimsFit(Resolving(d), d.window, route, batch)
                       /\ OpenNow(d) = OpenNow(desk) \cup Welcome(desk, asked)
                       /\ \A r \in Requests : desk.saved[r] = "resolved" => d.saved[r] = "resolved"
  <2>2. ASSUME restore PROVE Result
    <3>1. d = Attached(desk, asked, start, TRUE)
      BY <2>2 DEF asked
    <3> DEFINE e == Attached(desk, asked, start, TRUE)
    <3>2. /\ OwnDesk(e) /\ Clocked(e) /\ ClaimsFit(Resolving(e), e.window, route, batch)
          /\ OpenNow(e) = OpenNow(desk) \cup Welcome(desk, asked)
          /\ \A r \in Requests : desk.saved[r] = "resolved" => e.saved[r] = "resolved"
      BY <1>0, <1>1, <1>2, <1>3, <2>1, AttachFits
    <3> HIDE DEF d, e, restore
    <3> QED BY <3>1, <3>2 DEF e
  <2>3. ASSUME ~restore PROVE Result
    <3>1. d = Attached(desk, asked, start, FALSE)
      BY <2>3 DEF asked
    <3> DEFINE e == Attached(desk, asked, start, FALSE)
    <3>2. /\ OwnDesk(e) /\ Clocked(e) /\ ClaimsFit(Resolving(e), e.window, route, batch)
          /\ OpenNow(e) = OpenNow(desk) \cup Welcome(desk, asked)
          /\ \A r \in Requests : desk.saved[r] = "resolved" => e.saved[r] = "resolved"
      BY <1>0, <1>1, <1>2, <1>3, <2>1, AttachFits
    <3> HIDE DEF d, e, restore
    <3> QED BY <3>1, <3>2 DEF e
  <2> HIDE DEF d, restore
  <2>4. Result
    BY <2>2, <2>3
  <2> QED BY <2>4 DEF asked
<1> HIDE DEF d
<1>5. d \in Desks
  BY <1>4 DEF OwnDesk, SoundDesk
<1>6. /\ desk'.window = d.window /\ desk'.depth = d.depth /\ desk'.saved = d.saved
      /\ desk'.state = d.state /\ desk'.savedClock = d.savedClock /\ desk'.clock = d.clock
  BY <1>1, <1>5 DEF Desks
<1>7. OwnDesk(desk') /\ OpenNow(desk') = OpenNow(d)
  <2>1. SoundDesk(desk')
    BY DEF QuestionInv, SoundDesk, OpenNow, OpenOn, Desks, RequestStates
  <2>2. \A k \in Clocks : k # desk'.window => ~desk'.clock[k].armed
    BY <1>4, <1>6 DEF OwnDesk
  <2>3. desk'.window # None => desk'.savedClock = desk'.window
    BY <1>4, <1>6 DEF OwnDesk
  <2> QED BY <1>4, <1>6, <2>1, <2>2, <2>3, SameQuestions
<1>8. Clocked(desk') /\ Resolving(desk') = Resolving(d)
  BY <1>4, <1>6, <1>7 DEF Clocked, Resolving, InState
<1>9. ClaimsFit(Resolving(desk'), desk'.window, route', batch')
  BY <1>1, <1>4, <1>6, <1>8
<1>10. WindowOK'
  BY <1>7, <1>8, <1>9, NextWindow
<1>11. OnceOK'
  <2>1. \A r \in lost : /\ r \in Requests /\ remote[r] = "open" /\ SessionOf[r] \in Sessions
                        /\ SessionOf[r] \notin back
    BY QuestionAssumption
  <2>2. \A r \in open : desk.saved[r] # "resolved" => closings[r] = 0
    BY <1>0 DEF OnceOK
  <2>3. \A r \in R : r \in lost /\ closings[r] = 0
    BY <1>1, <2>2
  <2>4. \A r \in R : remote'[r] = "closed" /\ session'[SessionOf[r]] = "ended"
    BY <1>1, <2>1
  <2>5. /\ \A r \in Requests : remote[r] = "closed" => remote'[r] = "closed"
        /\ \A s \in Sessions : session[s] = "ended" => session'[s] = "ended"
    BY <1>0, <1>1
  <2>6. \A r \in OpenNow(desk') : r \notin R /\ closings[r] = 0
    <3>1. \A r \in Welcome(desk, open \ lost) : r \in open /\ r \notin lost /\ desk.saved[r] # "resolved"
      BY DEF Welcome
    <3> QED BY <1>2, <1>4, <1>7, <2>2, <2>3, <3>1
  <2>7. \A r \in Requests : desk.saved[r] = "resolved" => desk'.saved[r] = "resolved"
    BY <1>4, <1>6
  <2>8. \A r \in Requests : <<"asked", r>> \in frames' => session'[SessionOf[r]] # "ended"
    BY <1>1, <1>2
  <2>9. R \in SUBSET Requests
    OBVIOUS
  <2> HIDE DEF R, HasClock
  <2> QED BY <1>0, <1>1, <2>3, <2>4, <2>5, <2>6, <2>7, <2>8, <2>9, OnceStep
<1>12. OpenNow(desk') =
         Welcome(desk, {r \in Requests : remote[r] = "open" /\ SessionOf[r] \in heard \cap back})
  <2>1. open \ lost = {r \in Requests : remote[r] = "open" /\ SessionOf[r] \in heard \cap back}
    OBVIOUS
  <2> HIDE DEF open, lost
  <2>2. OpenNow(desk') = Welcome(desk, open \ lost)
    BY <1>2, <1>4, <1>7
  <2> QED BY <2>1, <2>2
<1>13. ASSUME saved # None, desk.clock[saved].stopped, OpenNow(desk') # {}
       PROVE  desk'.clock[desk'.window].stopped
  <2>1. start.stopped
    BY <1>13 DEF start, Restored
  <2> DEFINE asked == open \ lost
             e == Attached(desk, asked, start, TRUE)
  <2>2. asked \in SUBSET Requests /\ Welcome(desk, asked) # {}
    BY <1>2, <1>4, <1>7, <1>13
  <2>3. d = e
    BY <1>13 DEF d
  <2> HIDE DEF asked, HasClock
  <2>4. e.clock[e.window] = start
    BY <1>0, <1>1, <1>2, <1>3, <2>2, AttachedClock
  <2> HIDE DEF e
  <2> QED BY <1>6, <2>1, <2>3, <2>4
<1>14. BootBrings(back, heard)
  <2>1. OpenNow(desk') # {} =>
          (desk.savedClock # None /\ desk.clock[desk.savedClock].stopped
             => desk'.clock[desk'.window].stopped)
    BY <1>13
  <2> QED BY ONLY <1>12, <2>1 DEF BootBrings
<1> QED BY <1>10, <1>11, <1>14

LEMMA OnceInvInit == Init => OnceInv
<1> SUFFICES ASSUME Init PROVE OnceInv
  OBVIOUS
<1>1. QuestionInv
  BY InitSound
<1>2. /\ desk.window = None /\ desk.depth = 0 /\ up /\ frames = {}
      /\ \A c \in Clocks : ~desk.clock[c].armed
      /\ \A c \in Clocks, r \in Requests : desk.state[c][r] = "absent"
      /\ \A r \in Requests : closings[r] = 0
  BY DEF Init, IdleClock
<1>3. OpenNow(desk) = {} /\ Resolving(desk) = {} /\ \A c \in Clocks : OpenOn(desk, c) = {}
  BY <1>2 DEF OpenNow, Resolving, OpenOn
<1>4. OwnDesk(desk) /\ Clocked(desk)
  BY <1>1, <1>2, <1>3, FS_EmptySet DEF OwnDesk, Clocked, QuestionInv
<1>5. ClaimsFit(Resolving(desk), desk.window, route, batch)
  <2>1. \A b \in Batches : batch[b] = NoBatch
    BY DEF Init
  <2>2. \A b \in Batches : Claimed(batch[b]) = {}
    BY <2>1, NothingClaimed
  <2>3. \A b \in Batches : batch[b].req \notin batch[b].rest /\ batch[b].rest = {}
    BY <2>1 DEF NoBatch
  <2>4. ~route.holds
    BY DEF Init, NoRoute
  <2> QED BY <1>3, <2>2, <2>3, <2>4 DEF ClaimsFit
<1>6. OnceOK
  BY <1>2, <1>3 DEF OnceOK
<1> QED BY <1>1, <1>4, <1>5, <1>6 DEF OnceInv, WindowOK

LEMMA OnceInvStep ==
  ASSUME "late seizure" \notin Lapses
  PROVE  OnceInv /\ [Next]_vars => OnceInv'
<1> SUFFICES ASSUME OnceInv, [Next]_vars PROVE OnceInv'
  OBVIOUS
<1>1. QuestionInv'
  BY StepKeeps DEF OnceInv
<1>2. WindowOK' /\ OnceOK'
  <2>1. CASE Next
    <3>1. ASSUME NEW r \in Requests, \/ Ask(r) \/ AnsweredElsewhere(r) \/ AskedArrives(r)
                                     \/ ClosedArrives(r) \/ RouteClaims(r)
          PROVE  WindowOK' /\ OnceOK'
      BY <1>1, <3>1, OutsideStepsOnce, AskedArrivesOnce, UserStepsOnce
    <3>2. ASSUME NEW b \in Batches,
                 \/ Teardown(b) \/ BatchAnswered(b) \/ RouteFails(b)
                 \/ \E c \in Clocks : Expire(c, b)
          PROVE  WindowOK' /\ OnceOK'
      BY <1>1, <3>2, ClockStepsOnce, ConcludedOnce, RefusalFailsOnce, AbortUnconfirmedOnce,
         RouteFailsOnce DEF BatchAnswered
    <3>3. CASE StopClock \/ RouteSucceeds \/ Crash
      BY <1>1, <3>3, UserStepsOnce, RouteSucceedsOnce, CrashOnce
    <3> QED BY <1>1, <2>1, <3>1, <3>2, <3>3, SessionStepsOnce, DeadlineOnce, PollOnce, BootOnce
         DEF Next, RouteReturns
  <2>2. CASE UNCHANGED vars
    <3>1. UNCHANGED <<desk, route, batch, remote, session, frames, up, closings>>
      BY <2>2 DEF vars, daemon, history
    <3>2. WindowOK'
      BY <3>1, NextWindow DEF OnceInv, WindowOK
    <3>3. OnceOK'
      BY <3>1 DEF OnceInv, OnceOK, OpenNow, OpenOn
    <3> QED BY <3>2, <3>3
  <2> QED BY <2>1, <2>2
<1> QED BY <1>1, <1>2 DEF OnceInv

LEMMA OnceInvHolds == OnceInv => ClosedOnce
<1> SUFFICES ASSUME OnceInv, NEW r \in Requests
             PROVE  closings[r] <= 1
  BY DEF ClosedOnce
<1>1. closings[r] # 0 => closings[r] = 1
  BY DEF OnceInv, OnceOK
<1>2. closings[r] \in 0 .. 2
  BY DEF OnceInv, QuestionInv, HistoryOK
<1> QED BY <1>1, <1>2

\* As long as no question is seized while it waits its turn in a batch, each is
\* closed at most once, by whichever of an answer, a skip, an expiry, a teardown,
\* a poll, another client and a restart comes first (finish, rejectRecord).
THEOREM QuestionsCloseOnce ==
  ASSUME "late seizure" \notin Lapses
  PROVE  Spec => []ClosedOnce
BY OnceInvInit, OnceInvStep, OnceInvHolds, PTL DEF Spec


-----------------------------------------------------------------------------
(* The clock of every open question is right, and a stopped one stays so,   *)
(* also across restarts.                                                    *)

\* What was not asked in OpenCode is not open here.
AskedFirst ==
  \A r \in Requests : remote[r] = "unasked" => r \notin OpenNow(desk) /\ <<"asked", r>> \notin frames

\* Where a promise stands: the question is open under a stopped clock; or the
\* daemon is down, and the stop is saved with the question; or the question was
\* lost by a restart, and nothing will bring it back.
Standing(r) ==
  \/ up /\ r \in OpenNow(desk) /\ desk.clock[desk.window].stopped
  \/ /\ ~up /\ desk.savedClock # None /\ desk.clock[desk.savedClock].stopped
     /\ desk.saved[r] = "pending" /\ remote[r] # "unasked" /\ restarts # 0
  \/ /\ restarts # 0 /\ r \notin OpenNow(desk) /\ <<"asked", r>> \notin frames
     /\ remote[r] = "closed" \/ session[SessionOf[r]] = "ended"

PromisesStand == \A r \in promised : Standing(r)

\* A stale list would bring a question back that a restart has lost.
NoStaleRestart == ListsMayBeStale => MaxRestarts = 0

KeepInv == OnceInv /\ AskedFirst /\ PromisesStand

\* What a step of a running daemon, or one outside it, leaves of the world.
RemoteMoves ==
  /\ UNCHANGED <<up, restarts>> /\ (~up => UNCHANGED desk)
  /\ \A r \in Requests :
       /\ remote[r] = "closed" => remote'[r] = "closed"
       /\ remote'[r] = "unasked" => remote[r] = "unasked"
       /\ session[SessionOf[r]] = "ended" => session'[SessionOf[r]] = "ended"
       /\ <<"asked", r>> \in frames' =>
            \/ <<"asked", r>> \in frames
            \/ remote'[r] # "unasked" /\ remote[r] = "unasked" /\ session[SessionOf[r]] # "ended"

LEMMA PromisesKept ==
  ASSUME KeepInv, QuestionInv', NoStaleRestart, Moves, RemoteMoves
  PROVE  AskedFirst' /\ PromisesStand'
<1>0. /\ AskedFirst /\ PromisesStand /\ desk \in Desks /\ restarts \in 0 .. MaxRestarts
      /\ promised' \subseteq Requests /\ OpenNow(desk) \subseteq Requests
      /\ ~up => OpenNow(desk) = {}
  <2>1. ~up => OpenNow(desk) = {}
    BY DEF KeepInv, OnceInv, OnceOK, OpenNow
  <2>2. desk \in Desks /\ restarts \in 0 .. MaxRestarts /\ promised' \subseteq Requests
    BY DEF KeepInv, OnceInv, QuestionInv, SoundDesk, OutsideOK, HistoryOK
  <2> QED BY <2>1, <2>2, OpenNowFacts DEF KeepInv
<1>1. restarts # 0 => ~ListsMayBeStale
  BY <1>0 DEF NoStaleRestart
<1>2. \A r \in OpenNow(desk') : r \in Requests
  BY DEF OpenNow, OpenOn
<1>3. AskedFirst'
  <2>1. \A r \in Requests : remote'[r] = "unasked" =>
          r \notin OpenNow(desk') /\ <<"asked", r>> \notin frames'
    BY <1>0 DEF AskedFirst, Moves, RemoteMoves
  <2> QED BY <2>1 DEF AskedFirst, OpenNow, OpenOn
<1>4. ASSUME NEW r \in promised'
      PROVE  \/ up' /\ r \in OpenNow(desk') /\ desk'.clock[desk'.window].stopped
             \/ /\ ~up' /\ desk'.savedClock # None /\ desk'.clock[desk'.savedClock].stopped
                /\ desk'.saved[r] = "pending" /\ remote'[r] # "unasked" /\ restarts' # 0
             \/ /\ restarts' # 0 /\ r \notin OpenNow(desk') /\ <<"asked", r>> \notin frames'
                /\ remote'[r] = "closed" \/ session'[SessionOf[r]] = "ended"
  <2>0. r \in Requests
    BY <1>0
  <2>1. CASE r \notin promised
    <3>1. r \in OpenNow(desk') /\ desk'.clock[desk'.window].stopped
      BY <2>1 DEF Moves
    <3>2. up
      BY <1>0, <3>1 DEF RemoteMoves
    <3> QED BY <3>1, <3>2 DEF RemoteMoves
  <2>2. CASE r \in promised /\ up /\ r \in OpenNow(desk) /\ desk.clock[desk.window].stopped
    BY <2>2 DEF Moves, RemoteMoves
  <2>3. CASE /\ ~up /\ desk.savedClock # None /\ desk.clock[desk.savedClock].stopped
             /\ desk.saved[r] = "pending" /\ remote[r] # "unasked" /\ restarts # 0
    BY <2>0, <2>3 DEF RemoteMoves
  <2>4. CASE /\ restarts # 0 /\ r \notin OpenNow(desk) /\ <<"asked", r>> \notin frames
             /\ remote[r] = "closed" \/ session[SessionOf[r]] = "ended"
    <3>1. r \notin OpenNow(desk')
      BY <1>1, <2>4 DEF Moves
    <3>2. <<"asked", r>> \notin frames'
      BY <2>0, <2>4 DEF RemoteMoves
    <3> QED BY <2>0, <2>4, <3>1, <3>2 DEF RemoteMoves
  <2> QED BY <1>0, <2>1, <2>2, <2>3, <2>4 DEF PromisesStand, Standing
<1>5. PromisesStand'
  BY <1>4 DEF PromisesStand, Standing, OpenNow, OpenOn
<1> QED BY <1>3, <1>5


LEMMA RemoteMovesStep ==
  ASSUME OnceInv, Next, ~Crash,
         ~\E back, heard \in SUBSET Sessions, refused \in SUBSET Requests, late \in BOOLEAN :
            Boot(back, heard, refused, late)
  PROVE  RemoteMoves
<1>0. /\ remote \in [Requests -> {"unasked", "open", "closed"}]
      /\ session \in [Sessions -> {"live", "stopped", "ended"}]
      /\ \A r \in Requests : SessionOf[r] \in Sessions
      /\ batch \in [Batches -> BatchRecords]
  BY QuestionAssumption DEF OnceInv, QuestionInv, OutsideOK, WorkOK
<1>1. /\ UNCHANGED <<up, restarts>>
      /\ ~up => UNCHANGED desk
  <2>1. \A c \in Clocks : DeadlinePasses(c) => up
    <3>1. OwnDesk(desk) /\ (~up => desk.window = None)
      BY DEF OnceInv, WindowOK, OnceOK
    <3> QED BY <3>1, QuestionAssumption DEF DeadlinePasses, OwnDesk
  <2> QED BY <2>1 DEF Next, Ask, AnsweredElsewhere, AskedArrives, ClosedArrives, RouteClaims,
           SessionEnds, MemberStopped, StopClock, RouteReturns, RouteSucceeds, RouteFails,
           DeadlinePasses, Expire, Teardown, BatchAnswered, RefusalLands, RefusalFails,
           AbortConfirmed, AbortUnconfirmed, Poll, daemon
<1>2. ASSUME NEW r \in Requests
      PROVE  /\ remote[r] = "closed" => remote'[r] = "closed"
             /\ remote'[r] = "unasked" => remote[r] = "unasked"
             /\ session[SessionOf[r]] = "ended" => session'[SessionOf[r]] = "ended"
             /\ <<"asked", r>> \in frames' =>
                  \/ <<"asked", r>> \in frames
                  \/ /\ remote'[r] # "unasked" /\ remote[r] = "unasked"
                     /\ session[SessionOf[r]] # "ended"
  <2>1. ASSUME NEW q \in Requests, Ask(q) \/ AnsweredElsewhere(q) \/ AskedArrives(q)
                                   \/ ClosedArrives(q) \/ RouteClaims(q)
        PROVE  RemoteMoves
    BY <1>0, <1>1, <2>1 DEF RemoteMoves, Ask, AnsweredElsewhere, AskedArrives, ClosedArrives, RouteClaims
  <2>2. ASSUME NEW s \in Sessions, SessionEnds(s) \/ MemberStopped(s)
        PROVE  RemoteMoves
    BY <1>0, <1>1, <2>2 DEF RemoteMoves, SessionEnds, MemberStopped
  <2>3. ASSUME StopClock \/ (\E c \in Clocks : DeadlinePasses(c))
                 \/ (\E b \in Batches : \/ Teardown(b) \/ RefusalFails(b) \/ AbortUnconfirmed(b)
                                        \/ \E c \in Clocks : Expire(c, b))
                 \/ \E verified \in SUBSET Sessions, listed \in SUBSET Requests : Poll(verified, listed)
        PROVE  RemoteMoves
    <3>1. UNCHANGED <<remote, session, frames>>
      BY <2>3 DEF StopClock, DeadlinePasses, Teardown, RefusalFails, AbortUnconfirmed, Expire, Poll
    <3> QED BY <1>1, <3>1 DEF RemoteMoves
  <2>4. ASSUME NEW q \in Requests, UNCHANGED session, remote[q] # "unasked",
               remote' = remote \/ remote' = [remote EXCEPT ![q] = "closed"],
               frames' \subseteq frames \cup {<<"closed", q>>}
        PROVE  RemoteMoves
    <3>1. \A p \in Requests : <<"asked", p>> \in frames' => <<"asked", p>> \in frames
      BY <2>4
    <3> QED BY <1>0, <1>1, <2>4, <3>1 DEF RemoteMoves
  <2>5. ASSUME RouteReturns
        PROVE  RemoteMoves
    <3>1. CASE UNCHANGED <<remote, session, frames>>
      BY <1>1, <3>1 DEF RemoteMoves
    <3>2. CASE ~UNCHANGED <<remote, session, frames>>
      <4>1. /\ UNCHANGED session /\ route.req # None /\ remote[route.req] = "open"
            /\ remote' = [remote EXCEPT ![route.req] = "closed"]
            /\ frames' \subseteq frames \cup {<<"closed", route.req>>}
        BY <2>5, <3>2 DEF RouteReturns, RouteSucceeds, RouteFails
      <4>2. route.req \in Requests
        BY <4>1 DEF OnceInv, QuestionInv, WorkOK
      <4> QED BY <2>4, <4>1, <4>2
    <3> QED BY <3>1, <3>2
  <2>6. ASSUME NEW b \in Batches, RefusalLands(b) \/ AbortConfirmed(b)
        PROVE  RemoteMoves
    <3>0. batch[b].req \in Requests
      <4>1. batch[b] \in BatchRecords
        BY <1>0
      <4> QED BY <2>6, <4>1 DEF RefusalLands, AbortConfirmed, BatchRecords
    <3>1. CASE RefusalLands(b)
      BY <2>4, <3>0, <3>1 DEF RefusalLands
    <3>2. CASE AbortConfirmed(b)
      BY <1>0, <1>1, <3>0, <3>2 DEF RemoteMoves, AbortConfirmed
    <3> QED BY <2>6, <3>1, <3>2
  <2>7. RemoteMoves
    BY <2>1, <2>2, <2>3, <2>5, <2>6 DEF Next, BatchAnswered
  <2> QED BY <2>7 DEF RemoteMoves
<1> QED BY <1>1, <1>2 DEF RemoteMoves


LEMMA CrashKept ==
  ASSUME KeepInv, Crash, OnceInv'
  PROVE  AskedFirst' /\ PromisesStand'
<1>0. /\ AskedFirst /\ PromisesStand /\ desk \in Desks /\ OwnDesk(desk) /\ restarts \in Nat
      /\ OpenNow(desk) \subseteq Requests /\ promised \subseteq Requests
  <2>1. restarts \in 0 .. MaxRestarts /\ desk \in Desks /\ promised \subseteq Requests
    BY DEF KeepInv, OnceInv, QuestionInv, SoundDesk, OutsideOK, HistoryOK
  <2> QED BY <2>1, OpenNowFacts DEF KeepInv, OnceInv, WindowOK
<1>1. /\ up /\ ~up' /\ frames' = {} /\ restarts' # 0 /\ UNCHANGED <<remote, session, promised>>
  BY <1>0 DEF Crash, history
<1>2. /\ desk'.saved = desk.saved /\ desk'.savedClock = desk.savedClock /\ desk'.window = None
      /\ desk.savedClock \in Clocks =>
           desk'.clock[desk.savedClock].stopped = desk.clock[desk.savedClock].stopped
  <2> DEFINE c == desk.savedClock
             clocks == [k \in Clocks |-> IF k = c THEN [desk.clock[k] EXCEPT !.armed = FALSE]
                                         ELSE IdleClock]
             states == [k \in Clocks |-> [r \in Requests |-> "absent"]]
  <2>1. desk' = [desk EXCEPT !.window = None, !.depth = 0, !.state = states, !.clock = clocks]
    BY DEF Crash
  <2>2. c \in Clocks => clocks[c].stopped = desk.clock[c].stopped
    <3>1. c \in Clocks => desk.clock[c] \in ClockRecords
      BY <1>0 DEF Desks, ClockRecords
    <3> QED BY <3>1 DEF ClockRecords
  <2> HIDE DEF clocks, states
  <2> QED BY <1>0, <2>1, <2>2 DEF Desks
<1>3. OpenNow(desk') = {}
  BY <1>2 DEF OpenNow
<1>4. AskedFirst'
  BY <1>1, <1>3 DEF AskedFirst, OpenNow, OpenOn
<1>5. ASSUME NEW r \in promised'
      PROVE  \/ /\ desk'.savedClock # None /\ desk'.clock[desk'.savedClock].stopped
                /\ desk'.saved[r] = "pending" /\ remote'[r] # "unasked"
             \/ remote'[r] = "closed" \/ session'[SessionOf[r]] = "ended"
  <2>0. r \in promised /\ r \in Requests
    BY <1>0, <1>1
  <2>1. CASE r \in OpenNow(desk) /\ desk.clock[desk.window].stopped
    <3>1. /\ desk.window # None /\ desk.savedClock = desk.window /\ desk.savedClock \in Clocks
          /\ desk.saved[r] = "pending"
      BY <1>0, <2>1, OpenNowFacts DEF OwnDesk
    <3>2. remote[r] # "unasked"
      BY <1>0, <2>0, <2>1 DEF AskedFirst
    <3> QED BY <1>1, <1>2, <2>1, <3>1, <3>2
  <2>2. CASE remote[r] = "closed" \/ session[SessionOf[r]] = "ended"
    BY <1>1, <2>2
  <2> QED BY <1>0, <1>1, <2>0, <2>1, <2>2 DEF PromisesStand, Standing
<1>6. \A r \in promised' :
        \/ /\ ~up' /\ desk'.savedClock # None /\ desk'.clock[desk'.savedClock].stopped
           /\ desk'.saved[r] = "pending" /\ remote'[r] # "unasked" /\ restarts' # 0
        \/ /\ restarts' # 0 /\ r \notin OpenNow(desk') /\ <<"asked", r>> \notin frames'
           /\ remote'[r] = "closed" \/ session'[SessionOf[r]] = "ended"
  BY <1>1, <1>3, <1>5
<1>7. PromisesStand'
  BY <1>6 DEF PromisesStand, Standing, OpenNow, OpenOn
<1> QED BY <1>4, <1>7

LEMMA BootKept ==
  ASSUME KeepInv, NEW back \in SUBSET Sessions, NEW refused \in SUBSET Requests,
         NEW late \in BOOLEAN, Boot(back, Sessions, refused, late), BootBrings(back, Sessions)
  PROVE  AskedFirst' /\ PromisesStand'
<1> DEFINE named == {r \in Requests : remote[r] = "open" /\ SessionOf[r] \in back}
<1>0. /\ AskedFirst /\ PromisesStand /\ promised \subseteq Requests
      /\ remote \in [Requests -> {"unasked", "open", "closed"}]
      /\ \A r \in Requests : SessionOf[r] \in Sessions
      /\ (~up => frames = {} /\ OpenNow(desk) = {})
  <2>1. ~up => frames = {} /\ OpenNow(desk) = {}
    BY DEF KeepInv, OnceInv, OnceOK, OpenNow
  <2>2. promised \subseteq Requests /\ remote \in [Requests -> {"unasked", "open", "closed"}]
    BY DEF KeepInv, OnceInv, QuestionInv, OutsideOK, HistoryOK
  <2> QED BY <2>1, <2>2, QuestionAssumption DEF KeepInv
<1>1. /\ ~up /\ up' /\ UNCHANGED <<frames, restarts>>
      /\ back \subseteq {s \in Sessions : session[s] = "live"}
      /\ session' = [s \in Sessions |-> IF s \in back THEN "live" ELSE "ended"]
      /\ remote' = [r \in Requests |-> IF r \in refused THEN "closed" ELSE remote[r]]
      /\ promised' \subseteq promised
  BY DEF Boot, Counted
<1>2. /\ OpenNow(desk') = Welcome(desk, named)
      /\ OpenNow(desk') # {} =>
           (desk.savedClock # None /\ desk.clock[desk.savedClock].stopped
              => desk'.clock[desk'.window].stopped)
  <2>1. named = {r \in Requests : remote[r] = "open" /\ SessionOf[r] \in Sessions \cap back}
    BY <1>0
  <2> HIDE DEF named
  <2> QED BY <2>1 DEF BootBrings
<1>3. \A r \in OpenNow(desk') : r \in named
  BY <1>2 DEF Welcome
<1>4. AskedFirst'
  <2>1. \A r \in Requests : remote'[r] = "unasked" =>
          r \notin OpenNow(desk') /\ <<"asked", r>> \notin frames'
    BY <1>0, <1>1, <1>3
  <2> QED BY <2>1 DEF AskedFirst, OpenNow, OpenOn
<1>5. ASSUME NEW r \in promised'
      PROVE  \/ up' /\ r \in OpenNow(desk') /\ desk'.clock[desk'.window].stopped
             \/ /\ restarts' # 0 /\ r \notin OpenNow(desk') /\ <<"asked", r>> \notin frames'
                /\ remote'[r] = "closed" \/ session'[SessionOf[r]] = "ended"
  <2>0. r \in promised /\ r \in Requests /\ <<"asked", r>> \notin frames' /\ SessionOf[r] \in Sessions
    BY <1>0, <1>1
  <2>1. CASE /\ desk.savedClock # None /\ desk.clock[desk.savedClock].stopped
             /\ desk.saved[r] = "pending" /\ remote[r] # "unasked" /\ restarts # 0
    <3>1. CASE remote[r] = "open" /\ SessionOf[r] \in back
      <4>1. r \in Welcome(desk, named)
        BY <1>0, <1>1, <2>0, <2>1, <3>1 DEF Welcome
      <4> QED BY <1>1, <1>2, <2>1, <4>1
    <3>2. CASE ~(remote[r] = "open" /\ SessionOf[r] \in back)
      <4>1. r \notin OpenNow(desk')
        BY <1>3, <3>2
      <4>2. remote'[r] = "closed" \/ session'[SessionOf[r]] = "ended"
        BY <1>0, <1>1, <2>0, <2>1, <3>2
      <4> QED BY <1>1, <2>0, <2>1, <4>1, <4>2
    <3> QED BY <3>1, <3>2
  <2>2. CASE restarts # 0 /\ (remote[r] = "closed" \/ session[SessionOf[r]] = "ended")
    <3>1. ~(remote[r] = "open" /\ SessionOf[r] \in back)
      BY <1>1, <2>2
    <3>2. r \notin OpenNow(desk')
      BY <1>3, <3>1
    <3>3. remote'[r] = "closed" \/ session'[SessionOf[r]] = "ended"
      BY <1>0, <1>1, <2>0, <2>2
    <3> QED BY <1>1, <2>0, <2>2, <3>2, <3>3
  <2> QED BY <1>0, <1>1, <2>0, <2>1, <2>2 DEF PromisesStand, Standing
<1>6. PromisesStand'
  BY <1>5 DEF PromisesStand, Standing, OpenNow, OpenOn
<1> QED BY <1>4, <1>6


LEMMA MovesStep ==
  ASSUME "late seizure" \notin Lapses, OnceInv, QuestionInv', Next, ~Crash,
         ~\E back, heard \in SUBSET Sessions, refused \in SUBSET Requests, late \in BOOLEAN :
            Boot(back, heard, refused, late)
  PROVE  Moves
<1>1. ASSUME NEW r \in Requests, \/ Ask(r) \/ AnsweredElsewhere(r) \/ AskedArrives(r)
                                 \/ ClosedArrives(r) \/ RouteClaims(r)
      PROVE  Moves
  BY <1>1, OutsideStepsOnce, AskedArrivesOnce, UserStepsOnce
<1>2. ASSUME NEW b \in Batches, \/ Teardown(b) \/ BatchAnswered(b) \/ RouteFails(b)
                                \/ \E c \in Clocks : Expire(c, b)
      PROVE  Moves
  BY <1>2, ClockStepsOnce, ConcludedOnce, RefusalFailsOnce, AbortUnconfirmedOnce, RouteFailsOnce
     DEF BatchAnswered
<1>3. CASE StopClock \/ RouteSucceeds
  BY <1>3, UserStepsOnce, RouteSucceedsOnce
<1> QED BY <1>1, <1>2, <1>3, SessionStepsOnce, DeadlineOnce, PollOnce DEF Next, RouteReturns

LEMMA AllHeard ==
  ASSUME "failed list" \notin Lapses, NEW back, NEW heard, NEW refused, NEW late,
         Boot(back, heard, refused, late)
  PROVE  heard = Sessions
BY DEF Boot

LEMMA KeepInvInit == Init => KeepInv
<1> SUFFICES ASSUME Init PROVE KeepInv
  OBVIOUS
<1>1. OpenNow(desk) = {} /\ frames = {} /\ promised = {}
  BY DEF Init, OpenNow
<1> QED BY <1>1, OnceInvInit DEF KeepInv, AskedFirst, PromisesStand

LEMMA KeepInvStep ==
  ASSUME "late seizure" \notin Lapses, "failed list" \notin Lapses, NoStaleRestart
  PROVE  KeepInv /\ [Next]_vars => KeepInv'
<1> SUFFICES ASSUME KeepInv, [Next]_vars PROVE KeepInv'
  OBVIOUS
<1>1. OnceInv /\ OnceInv' /\ QuestionInv'
  BY OnceInvStep DEF KeepInv, OnceInv
<1>2. AskedFirst' /\ PromisesStand'
  <2>1. CASE Crash
    BY <1>1, <2>1, CrashKept
  <2>2. ASSUME NEW back \in SUBSET Sessions, NEW heard \in SUBSET Sessions,
               NEW refused \in SUBSET Requests, NEW late \in BOOLEAN,
               Boot(back, heard, refused, late)
        PROVE  AskedFirst' /\ PromisesStand'
    <3>1. heard = Sessions
      BY <2>2, AllHeard
    <3>2. BootBrings(back, heard)
      BY <1>1, <2>2, BootOnce
    <3> QED BY <2>2, <3>1, <3>2, BootKept
  <2>3. CASE /\ Next /\ ~Crash
             /\ ~\E back, heard \in SUBSET Sessions, refused \in SUBSET Requests, late \in BOOLEAN :
                    Boot(back, heard, refused, late)
    <3>1. Moves
      BY <1>1, <2>3, MovesStep
    <3>2. RemoteMoves
      BY <1>1, <2>3, RemoteMovesStep
    <3> QED BY <1>1, <3>1, <3>2, PromisesKept
  <2>4. CASE UNCHANGED vars
    <3>1. UNCHANGED <<remote, session, frames, up, restarts, desk, promised>>
      BY <2>4 DEF vars, daemon, history
    <3> QED BY <3>1 DEF KeepInv, AskedFirst, PromisesStand, Standing, OpenNow, OpenOn
  <2> QED BY <2>1, <2>2, <2>3, <2>4
<1> QED BY <1>1, <1>2 DEF KeepInv

LEMMA KeepInvHolds == KeepInv => ClocksAreRight
<1> SUFFICES ASSUME KeepInv PROVE ClocksAreRight
  OBVIOUS
<1>0. /\ OwnDesk(desk) /\ Clocked(desk) /\ desk \in Desks /\ WorkOK /\ PromisesStand
      /\ ClaimsFit(Resolving(desk), desk.window, route, batch)
  BY DEF KeepInv, OnceInv, WindowOK, QuestionInv, SoundDesk
<1>1. ClocksStandWhileAsked
  BY <1>0 DEF ClocksStandWhileAsked, OwnDesk
<1>2. NeverUnclocked
  <2> SUFFICES ASSUME NEW r \in OpenNow(desk)
               PROVE  IF desk.state[desk.window][r] = "resolving" THEN Held(r)
                      ELSE desk.clock[desk.window].armed \/ desk.clock[desk.window].stopped
    BY DEF NeverUnclocked
  <2>1. /\ r \in Requests /\ desk.window \in Clocks
        /\ desk.state[desk.window][r] \in RequestStates \ {"absent"}
    BY <1>0, OpenNowFacts DEF Desks
  <2>2. CASE desk.state[desk.window][r] = "resolving"
    <3>1. r \in Resolving(desk)
      BY <1>0, <2>1, <2>2, OpenNowFacts
    <3>2. CASE route.holds /\ route.req = r
      <4>1. route.clock = desk.window
        BY <1>0, <3>2 DEF ClaimsFit
      <4>2. Held(r)
        BY <3>2, <4>1 DEF Held, StillClaimed
      <4> QED BY <2>2, <4>2
    <3>3. CASE ~(route.holds /\ route.req = r)
      <4>1. PICK b \in Batches : r \in Claimed(batch[b])
        BY <1>0, <3>1, <3>3 DEF ClaimsFit
      <4>2. batch[b].clock = desk.window
        BY <1>0, <4>1 DEF ClaimsFit
      <4>3. r \in batch[b].rest \/ (batch[b].req = r /\ batch[b].intact)
        BY <2>1, <4>1 DEF Claimed
      <4>4. Held(r)
        BY <4>2, <4>3 DEF Held
      <4> QED BY <2>2, <4>4
    <3> QED BY <2>2, <3>2, <3>3
  <2>3. CASE desk.state[desk.window][r] # "resolving"
    <3>1. desk.state[desk.window][r] = "pending"
      BY <2>1, <2>3 DEF RequestStates
    <3> QED BY <1>0, <2>3, <3>1 DEF Clocked
  <2> QED BY <2>2, <2>3
<1>3. StopIsKept
  BY <1>0 DEF StopIsKept, PromisesStand, Standing
<1> QED BY <1>1, <1>2, <1>3 DEF ClocksAreRight

\* As long as no question is seized while it waits its turn, no list fails at a
\* start, and no stale list follows a restart: the budgets stand still once for
\* each open question, each is under a clock or in somebody's hands, and a clock
\* a person stopped stays stopped while its question is open, also across
\* restarts (suspendTicketWork, stopTicketTimers, armOrResetTimer).
THEOREM ClocksStayRight ==
  ASSUME "late seizure" \notin Lapses, "failed list" \notin Lapses,
         "stale list" \in Lapses => MaxRestarts = 0
  PROVE  Spec => []ClocksAreRight
<1>1. NoStaleRestart
  BY DEF NoStaleRestart, ListsMayBeStale
<1> QED BY <1>1, KeepInvInit, KeepInvStep, KeepInvHolds, PTL DEF Spec
=============================================================================
