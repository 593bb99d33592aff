--------------------------- MODULE QuestionWindows ---------------------------
(***************************************************************************)
(* The questions the AI asks the user within one workflow step.            *)
(*                                                                         *)
(* A question blocks the session that asked it, in OpenCode, until someone *)
(* answers or refuses it.  LoopTroop holds the step's work budgets still   *)
(* meanwhile, and bounds the wait: the step has one clock, shared by every *)
(* question open in it, and when it runs out all of them are refused.  A   *)
(* user who engages stops the clock for good.  Answers, skips, expiry, the *)
(* end of a session, a stopped council member, a cancel, the polls of the  *)
(* client and restarts all close questions, and each of them waits for     *)
(* OpenCode somewhere in between.                                          *)
(*                                                                         *)
(* Time is abstracted to whether the deadline of a clock has passed.  A    *)
(* clock object (QuestionTimer) outlives its entry in the step's table     *)
(* while a batch works through it, so clocks have identities.  Tombstones  *)
(* are part of the saved records, which outlast them.  Not modelled:       *)
(* records that cannot be saved, a ticket deleted under a refusal, the     *)
(* ownership test of a cleanup pass (it only makes a teardown end early),  *)
(* and the ledger of budgets being cleared under an open question.         *)
(***************************************************************************)
EXTENDS Naturals, FiniteSets

CONSTANTS
  Requests,      \* the questions that may be asked
  Sessions,      \* the OpenCode sessions of the step
  SessionOf,     \* the session that asks each question
  Clocks,        \* bound: clock objects alive at a time
  Batches,       \* bound: refusals under way at a time
  MaxRestarts,   \* bound: restarts of the daemon
  Lapses,        \* the circumstances, of those below, that may arise
  None

AllLapses ==
  {"late seizure",  \* a question is seized while it awaits its turn in a batch
   "stale list",    \* a list of questions is out of date when it arrives
   "failed list"}   \* a list of questions cannot be had at the start

ASSUME QuestionAssumption ==
  /\ IsFiniteSet(Requests)
  /\ SessionOf \in [Requests -> Sessions]
  /\ MaxRestarts \in Nat
  /\ Lapses \subseteq AllLapses
  /\ None \notin Requests \cup Clocks

VARIABLES
  remote,    \* OpenCode: each question is unasked, open or closed
  session,   \* each session: live, stopped (in OpenCode only) or ended
  frames,    \* stream frames on their way: <<"asked" or "closed", request>>
  up,        \* the daemon runs
  restarts,  \* restarts so far
  desk,      \* the windows: see Desks
  route,     \* the answer or skip being sent: [req, clock, holds]
  batch,     \* per batch, the refusals under way: see Batch
  closings,  \* history: how often each question was closed, up to twice
  givenUp,   \* history: the questions whose model a person stopped
  promised   \* history: the questions in a window whose clock was stopped

daemon == <<up, restarts>>
history == <<closings, givenUp, promised>>
vars == <<remote, session, frames, daemon, desk, route, batch, history>>

RequestStates == {"absent", "pending", "resolving"}
\* What questionWindows.ts, workBudget.ts and their artifacts hold.
Desks == [clock  : [Clocks -> [stopped : BOOLEAN, due : BOOLEAN, armed : BOOLEAN]],
          state  : [Clocks -> [Requests -> RequestStates]],
          window : Clocks \cup {None},       \* the step's entry in timersByTicket
          depth  : Nat,                      \* the work budget's suspensions
          saved  : [Requests -> {"none", "pending", "resolved"}],
          savedClock : Clocks \cup {None},   \* the clock the timer artifact describes
          waitRow : BOOLEAN]                 \* an open row in question_waits

NoRoute == [req |-> None, clock |-> None, holds |-> FALSE]
NoBatch == [clock |-> None, req |-> None, rest |-> {}, step |-> "refuse", intact |-> TRUE]
FullClock == [stopped |-> FALSE, due |-> FALSE, armed |-> TRUE]
IdleClock  == [stopped |-> FALSE, due |-> FALSE, armed |-> FALSE]

\* pendingRequests: everything not resolved on a clock.
OpenOn(d, c) == {r \in Requests : d.state[c][r] # "absent"}
InState(d, c, s) == {r \in Requests : d.state[c][r] = s}
OpenNow(d) == IF d.window = None THEN {} ELSE OpenOn(d, d.window)

Put(d, c, R, s) ==
  [d EXCEPT !.state[c] = [r \in Requests |-> IF r \in R THEN s ELSE @[r]]]

-----------------------------------------------------------------------------
(* Opening and closing windows.                                             *)

Busy(d, c) == \/ c \in {d.window, d.savedClock, route.clock}
              \/ \E b \in Batches : batch[b].clock = c
              \/ OpenOn(d, c) # {} \/ d.clock[c].armed
FreeClock(d) == CHOOSE c \in Clocks : ~Busy(d, c)
HasClock(d)  == d.window # None \/ \E c \in Clocks : ~Busy(d, c)

\* attachRequest: a duplicate, and one that was closed before, change nothing.
Welcome(d, R) == {r \in R : r \notin OpenNow(d) /\ d.saved[r] # "resolved"}

\* armOrResetTimer: a running clock starts over, a stopped one stays stopped,
\* and without one the step gets a clock: a new one, or what was restored.
Armed(d, start, restored) ==
  IF d.window = None
    THEN LET c == FreeClock(d)
         IN [d EXCEPT !.window = c,
                      !.clock = [k \in Clocks |-> IF k = c THEN start
                                                  ELSE IF Busy(d, k) THEN @[k] ELSE IdleClock]]
    ELSE IF restored \/ d.clock[d.window].stopped
      THEN d
      ELSE [d EXCEPT !.clock[d.window] = FullClock]

Attached(d, asked, start, restored) ==
  LET R == Welcome(d, asked)
      a == Armed(d, start, restored)
  IN IF R = {} THEN d
     ELSE [Put(a, a.window, R, "pending") EXCEPT
             !.depth = @ + Cardinality(R),
             !.saved = [r \in Requests |-> IF r \in R THEN "pending" ELSE @[r]],
             !.savedClock = a.window,
             !.waitRow = TRUE]

\* Mutant: the first answer lets the clocks run.
ResumedAltogether(depth, n) == 0

\* resumeTicketWork, n times.
Resumed(depth, n) == IF depth > n THEN depth - n ELSE 0

\* Mutant: the entry of an empty clock is left in the table.
ClosedKeepingEntry(d, c, R) ==
  [Put(d, c, R, "absent") EXCEPT
     !.depth = Resumed(@, Cardinality(R)),
     !.saved = [r \in Requests |-> IF r \in R THEN "resolved" ELSE @[r]],
     !.savedClock = c]

\* finish, for every request of R on clock c.  The last one takes the step's
\* entry with it, whichever clock is there.
Closed(d, c, R) ==
  LET f     == Put(d, c, R, "absent")
      empty == OpenOn(f, c) = {}
      g     == [f EXCEPT !.window = IF empty THEN None ELSE @,
                         !.clock[c].armed = @ /\ ~empty]
  IN IF R = {} THEN d
     ELSE [g EXCEPT
             !.depth = Resumed(@, Cardinality(R)),
             !.saved = [r \in Requests |-> IF r \in R THEN "resolved" ELSE @[r]],
             !.savedClock = c,
             !.waitRow = @ /\ OpenNow(g) # {}]

\* Mutant: the revision is not counted up.
DisturbedUnnoticed(c, R) == batch

\* Every change of a request takes it from whoever was working on it.
Disturbed(c, R) ==
  [b \in Batches |->
     IF batch[b].clock = c /\ batch[b].req \in R
       THEN [batch[b] EXCEPT !.intact = FALSE] ELSE batch[b]]

RouteAfter(c, R) ==
  IF route.clock = c /\ route.req \in R THEN [route EXCEPT !.holds = FALSE] ELSE route

\* History of a step that closes R: how often each was closed, and which of
\* those still open are on a clock somebody stopped.
Closings(R) == [r \in Requests |-> IF r \in R /\ closings[r] < 2
                                     THEN closings[r] + 1 ELSE closings[r]]
Counted(R) == closings' = Closings(R) /\ promised' = promised \ R

CountedAndJoined(R) ==
  /\ closings' = Closings(R)
  /\ promised' = (promised \ R) \cup
       {r \in OpenNow(desk') : desk'.clock[desk'.window].stopped}

\* The requests that wait their turn in a batch.
Queued(c) == UNION {batch[b].rest : b \in {x \in Batches : batch[x].clock = c}}
MaySeize(R) == "late seizure" \in Lapses \/ desk.window = None \/ R \cap Queued(desk.window) = {}

\* A pending request claimed and finished in one go (claim, then finish).
CloseAtOnce(r) ==
  IF r \in OpenNow(desk) /\ desk.state[desk.window][r] = "pending"
    THEN /\ desk' = Closed(desk, desk.window, {r})
         /\ batch' = Disturbed(desk.window, {r})
         /\ Counted({r})
    ELSE UNCHANGED <<desk, batch, closings, promised>>

-----------------------------------------------------------------------------
(* OpenCode and its stream.                                                 *)

\* A live session asks; the stream will say so, to a daemon that runs.
Ask(r) ==
  /\ remote[r] = "unasked" /\ session[SessionOf[r]] = "live"
  /\ remote' = [remote EXCEPT ![r] = "open"]
  /\ frames' = IF up THEN frames \cup {<<"asked", r>>} ELSE frames
  /\ UNCHANGED <<session, daemon, desk, route, batch, history>>

\* Another client answers or refuses.
AnsweredElsewhere(r) ==
  /\ remote[r] = "open"
  /\ remote' = [remote EXCEPT ![r] = "closed"]
  /\ frames' = IF up THEN frames \cup {<<"closed", r>>} ELSE frames
  /\ UNCHANGED <<session, daemon, desk, route, batch, history>>

\* The stream handler: a question's frames come in order, or never.
AskedArrives(r) ==
  /\ up /\ <<"asked", r>> \in frames /\ HasClock(desk)
  /\ frames' = frames \ {<<"asked", r>>}
  /\ desk' = Attached(desk, {r}, FullClock, FALSE)
  /\ CountedAndJoined({})
  /\ UNCHANGED <<remote, session, daemon, route, batch, givenUp>>

ClosedArrives(r) ==
  /\ up /\ <<"closed", r>> \in frames /\ <<"asked", r>> \notin frames
  /\ frames' = frames \ {<<"closed", r>>}
  /\ CloseAtOnce(r)
  /\ UNCHANGED <<remote, session, daemon, route, givenUp>>

\* A session is aborted and abandoned: OpenCode drops its questions, and the
\* listener closes them here, whoever is working on them.
SessionEnds(s) ==
  LET R == {r \in OpenNow(desk) : SessionOf[r] = s} IN
  /\ up /\ session[s] # "ended" /\ MaySeize(R)
  /\ session' = [session EXCEPT ![s] = "ended"]
  /\ remote' = [r \in Requests |-> IF SessionOf[r] = s /\ remote[r] = "open"
                                     THEN "closed" ELSE remote[r]]
  /\ frames' = {f \in frames : SessionOf[f[2]] # s}
  /\ desk' = Closed(desk, desk.window, R)
  /\ batch' = Disturbed(desk.window, R)
  /\ route' = RouteAfter(desk.window, R)
  /\ Counted(R)
  /\ UNCHANGED <<daemon, givenUp>>

\* closeMemberQuestions: a person stops or restarts a council member.  OpenCode
\* is not told; the session is stopped next, if OpenCode confirms it.
MemberStopped(s) ==
  LET R == {r \in OpenNow(desk) : SessionOf[r] = s} IN
  /\ up /\ R # {} /\ MaySeize(R)
  /\ desk' = Closed(desk, desk.window, R)
  /\ batch' = Disturbed(desk.window, R)
  /\ route' = RouteAfter(desk.window, R)
  /\ Counted(R) /\ givenUp' = givenUp \cup R
  /\ UNCHANGED <<remote, session, frames, daemon>>

-----------------------------------------------------------------------------
(* The user: the clock, answers and skips.                                  *)

\* stopTicketTimers.
StopClock ==
  /\ up /\ desk.window # None /\ ~desk.clock[desk.window].stopped
  /\ desk' = [desk EXCEPT !.clock[desk.window].stopped = TRUE,
                          !.clock[desk.window].armed = FALSE,
                          !.savedClock = desk.window]
  /\ promised' = promised \cup OpenNow(desk)
  /\ UNCHANGED <<remote, session, frames, daemon, route, batch, closings, givenUp>>

\* claimRequestForReply, with the call to OpenCode that follows.
RouteClaims(r) ==
  /\ up /\ route.req = None
  /\ r \in OpenNow(desk) /\ desk.state[desk.window][r] = "pending"
  /\ desk' = Put(desk, desk.window, {r}, "resolving")
  /\ batch' = Disturbed(desk.window, {r})
  /\ route' = [req |-> r, clock |-> desk.window, holds |-> TRUE]
  /\ UNCHANGED <<remote, session, frames, daemon, history>>

\* The claim is still the route's own, on a clock the step still has.
StillClaimed == route.holds /\ route.clock = desk.window

\* OpenCode took it.  A request seized meanwhile is left to whoever seized it,
\* and to the stream; otherwise the stream's echo finds nothing to close.
RouteSucceeds ==
  /\ up /\ route.req # None /\ remote[route.req] = "open"
  /\ remote' = [remote EXCEPT ![route.req] = "closed"]
  /\ frames' = IF StillClaimed THEN frames ELSE frames \cup {<<"closed", route.req>>}
  /\ IF StillClaimed
       THEN /\ desk' = Closed(desk, route.clock, {route.req})
            /\ batch' = Disturbed(route.clock, {route.req})
            /\ Counted({route.req})
       ELSE UNCHANGED <<desk, batch, closings, promised>>
  /\ route' = NoRoute
  /\ UNCHANGED <<session, daemon, givenUp>>

\* A batch working on its first request of D; nothing without any.
Started(b, c, D) ==
  IF D = {} THEN UNCHANGED batch
  ELSE /\ batch[b] = NoBatch
       /\ \E r \in D : batch' = [Disturbed(c, D) EXCEPT ![b] =
            [clock |-> c, req |-> r, rest |-> D \ {r},
             step |-> "refuse", intact |-> TRUE]]

\* expireTimer: every pending request on the clock is claimed before the first
\* refusal is sent.
Expired(d, c, b) ==
  LET D == IF d.clock[c].stopped THEN {} ELSE InState(d, c, "pending") IN
  /\ desk' = Put([d EXCEPT !.clock[c].armed = FALSE], c, D, "resolving")
  /\ Started(b, c, D)

\* The call failed, or its answer was lost: releaseRequestClaim.
RouteFails(b) ==
  /\ up /\ route.req # None
  /\ \/ UNCHANGED <<remote, frames>>
     \/ /\ remote[route.req] = "open"
        /\ remote' = [remote EXCEPT ![route.req] = "closed"]
        /\ frames' = frames \cup {<<"closed", route.req>>}
  /\ IF ~StillClaimed THEN UNCHANGED <<desk, batch>>
     ELSE LET c == route.clock
              d == Put(desk, c, {route.req}, "pending")
          IN IF d.clock[c].due /\ ~d.clock[c].stopped
               THEN Expired(d, c, b)
               ELSE /\ desk' = [d EXCEPT !.clock[c].armed = ~d.clock[c].stopped]
                    /\ UNCHANGED batch
  /\ route' = NoRoute
  /\ UNCHANGED <<session, daemon, history>>

-----------------------------------------------------------------------------
(* The clock and the refusals.                                              *)

DeadlinePasses(c) ==
  /\ ~desk.clock[c].due /\ ~desk.clock[c].stopped
  /\ c = desk.window \/ desk.clock[c].armed
  /\ desk' = [desk EXCEPT !.clock[c].due = TRUE]
  /\ UNCHANGED <<remote, session, frames, daemon, route, batch, history>>

Expire(c, b) ==
  /\ up /\ desk.clock[c].armed /\ desk.clock[c].due
  /\ Expired(desk, c, b)
  /\ UNCHANGED <<remote, session, frames, daemon, route, history>>

\* clearTicketWindows: seizes every open request, whatever is happening to it.
Teardown(b) ==
  LET c == desk.window
      D == OpenNow(desk)
  IN /\ up /\ c # None /\ MaySeize(D)
     /\ desk' = Put([desk EXCEPT !.clock[c].armed = FALSE], c, D, "resolving")
     /\ Started(b, c, D)
     /\ route' = RouteAfter(c, D)
     /\ UNCHANGED <<remote, session, frames, daemon, history>>

\* The batch's next request, whose refusal starts at once, or its end.
Onward(bs, b) ==
  IF bs[b].rest = {} THEN batch' = [bs EXCEPT ![b] = NoBatch]
  ELSE \E r \in bs[b].rest :
         batch' = [bs EXCEPT ![b] = [bs[b] EXCEPT !.req = r, !.rest = bs[b].rest \ {r},
                                                  !.step = "refuse", !.intact = TRUE]]

\* rejectRecord, once OpenCode is known to be finished with the request.  The
\* revision it compares is the one it started with: a request closed before its
\* turn came looks intact.
Concluded(b) ==
  LET r == batch[b].req
      c == batch[b].clock
  IN IF batch[b].intact
       THEN /\ desk' = Closed(desk, c, {r})
            /\ Counted({r})
            /\ route' = RouteAfter(c, {r})
            /\ Onward(Disturbed(c, {r}), b)
       ELSE Onward(batch, b) /\ UNCHANGED <<desk, closings, promised, route>>

RefusalLands(b) ==
  LET r == batch[b].req IN
  /\ up /\ r # None /\ batch[b].step = "refuse" /\ remote[r] = "open"
  /\ remote' = [remote EXCEPT ![r] = "closed"]
  /\ frames' = IF batch[b].intact THEN frames ELSE frames \cup {<<"closed", r>>}
  /\ Concluded(b)
  /\ UNCHANGED <<session, daemon, givenUp>>

\* rejectWithRetries gave up: the session is aborted instead.
RefusalFails(b) ==
  /\ up /\ batch[b].req # None /\ batch[b].step = "refuse"
  /\ IF batch[b].intact
       THEN batch' = [batch EXCEPT ![b].step = "abort"]
       ELSE Onward(batch, b)
  /\ UNCHANGED <<remote, session, frames, daemon, desk, route, history>>

AbortConfirmed(b) ==
  LET s == SessionOf[batch[b].req] IN
  /\ up /\ batch[b].req # None /\ batch[b].step = "abort"
  /\ session' = [session EXCEPT ![s] = IF @ = "live" THEN "stopped" ELSE @]
  /\ remote' = [r \in Requests |-> IF SessionOf[r] = s /\ remote[r] = "open"
                                     THEN "closed" ELSE remote[r]]
  /\ Concluded(b)
  /\ UNCHANGED <<frames, daemon, givenUp>>

\* Mutant: a refusal nobody confirmed closes the question all the same.
AbortUnconfirmedCloses(b) ==
  /\ up /\ batch[b].req # None /\ batch[b].step = "abort"
  /\ Concluded(b)
  /\ UNCHANGED <<remote, session, frames, daemon, givenUp>>

\* Mutant: it goes back without a new deadline.
AbortUnconfirmedUnarmed(b) ==
  LET r == batch[b].req
      c == batch[b].clock
  IN /\ up /\ r # None /\ batch[b].step = "abort"
     /\ IF batch[b].intact THEN desk' = Put(desk, c, {r}, "pending") ELSE UNCHANGED desk
     /\ Onward(batch, b)
     /\ UNCHANGED <<remote, session, frames, daemon, route, history>>

\* Neither was confirmed: the request goes back, with a short deadline.
AbortUnconfirmed(b) ==
  LET r == batch[b].req
      c == batch[b].clock
  IN /\ up /\ r # None /\ batch[b].step = "abort"
     /\ IF batch[b].intact
          THEN /\ desk' = [desk EXCEPT
                    !.state[c][r] = IF @ = "absent" THEN @ ELSE "pending",
                    !.saved[r] = "pending",
                    !.clock[c] = IF @.stopped THEN @ ELSE FullClock,
                    !.savedClock = c]
               /\ route' = RouteAfter(c, {r})
               /\ Onward(Disturbed(c, {r}), b)
          ELSE Onward(batch, b) /\ UNCHANGED <<desk, route>>
     /\ UNCHANGED <<remote, session, frames, daemon, history>>

-----------------------------------------------------------------------------
(* Polls: getTicketPendingOpenCodeQuestions.                                *)

\* reconcileAgainstPending: the pending questions of the sessions that could be
\* asked which the list does not name; with no session left, all of them.
Unlisted(verified, active, listed) ==
  {r \in OpenNow(desk) \ listed :
     /\ active = {} \/ SessionOf[r] \in verified
     /\ desk.state[desk.window][r] = "pending"}

\* A list arrives: what it does not name is dropped, then what no window has is
\* attached.  It may be as old as the call: then it may name questions closed
\* since, and miss those asked since.
Poll(verified, listed) ==
  LET active == {s \in Sessions : session[s] # "ended"}
      known  == {r \in Requests : SessionOf[r] \in verified /\ remote[r] # "unasked"}
      gone   == Unlisted(verified, active, listed)
      kept   == Closed(desk, desk.window, gone)
  IN /\ up /\ verified \subseteq active /\ listed \subseteq known
     /\ "stale list" \in Lapses \/ listed = {r \in known : remote[r] = "open"}
     /\ HasClock(kept)
     /\ desk' = Attached(kept, listed, FullClock, FALSE)
     /\ batch' = Disturbed(desk.window, gone)
     /\ CountedAndJoined(gone)
     /\ UNCHANGED <<remote, session, frames, daemon, route, givenUp>>

-----------------------------------------------------------------------------
(* Restarts.                                                                *)

\* Only the saved records, the saved clock and the wait rows survive.
Crash ==
  /\ up /\ restarts < MaxRestarts
  /\ up' = FALSE /\ restarts' = restarts + 1
  /\ desk' = [desk EXCEPT
       !.window = None, !.depth = 0,
       !.state = [c \in Clocks |-> [r \in Requests |-> "absent"]],
       !.clock = [c \in Clocks |-> IF c = desk.savedClock
                                     THEN [@[c] EXCEPT !.armed = FALSE] ELSE IdleClock]]
  /\ frames' = {} /\ route' = NoRoute
  /\ batch' = [b \in Batches |-> NoBatch]
  /\ UNCHANGED <<remote, session, history>>

\* Mutant: the stop is not read from the artifact.
RestoredRunning(clock, late) ==
  [stopped |-> FALSE, armed |-> TRUE, due |-> clock.due \/ late]

\* A stopped clock stays stopped; the deadline of another may have passed.
Restored(clock, late) ==
  IF clock.stopped THEN [clock EXCEPT !.armed = FALSE]
  ELSE [clock EXCEPT !.armed = TRUE, !.due = @ \/ late]

\* Mutant: the sweep does not ask what was put back on a clock.
RowSweptAlways(d, unverified) == d.waitRow /\ unverified

\* The wait rows of an earlier process are closed at the start, except where
\* something waits again, or OpenCode could not be asked.
RowAfterStart(d, unverified) == d.waitRow /\ (unverified \/ OpenNow(d) # {})

\* reconcilePendingQuestionsAfterRestart: of the sessions whose questions could
\* be listed (heard), those that reconnected (back) get theirs attached to the
\* restored clock; the others' are refused, where OpenCode takes it (refused).
Boot(back, heard, refused, late) ==
  LET open    == {r \in Requests : remote[r] = "open" /\ SessionOf[r] \in heard}
      lost    == {r \in open : SessionOf[r] \notin back}
      saved   == desk.savedClock
      restore == saved # None
      start   == IF restore THEN Restored(desk.clock[saved], late) ELSE FullClock
      d       == Attached(desk, open \ lost, start, restore)
  IN /\ ~up /\ HasClock(desk)
     /\ back \subseteq {s \in Sessions : session[s] = "live"}
     /\ refused \subseteq lost
     /\ "failed list" \in Lapses \/ heard = Sessions
     /\ up' = TRUE
     /\ session' = [s \in Sessions |-> IF s \in back THEN "live" ELSE "ended"]
     /\ remote' = [r \in Requests |-> IF r \in refused THEN "closed" ELSE remote[r]]
     /\ desk' = [d EXCEPT !.waitRow = RowAfterStart(d, heard # Sessions \/ refused # lost)]
     /\ Counted({r \in refused : desk.saved[r] # "resolved"})
     /\ UNCHANGED <<frames, restarts, route, batch, givenUp>>

-----------------------------------------------------------------------------

Init ==
  /\ remote = [r \in Requests |-> "unasked"]
  /\ session = [s \in Sessions |-> "live"]
  /\ frames = {} /\ up = TRUE /\ restarts = 0
  /\ desk = [clock |-> [c \in Clocks |-> IdleClock],
             state |-> [c \in Clocks |-> [r \in Requests |-> "absent"]],
             window |-> None, depth |-> 0,
             saved |-> [r \in Requests |-> "none"], savedClock |-> None,
             waitRow |-> FALSE]
  /\ route = NoRoute /\ batch = [b \in Batches |-> NoBatch]
  /\ closings = [r \in Requests |-> 0] /\ givenUp = {} /\ promised = {}

RouteReturns ==
  \/ RouteSucceeds
  \/ \E b \in Batches : RouteFails(b)

BatchAnswered(b) ==
  RefusalLands(b) \/ RefusalFails(b) \/ AbortConfirmed(b) \/ AbortUnconfirmed(b)

Next ==
  \/ \E r \in Requests : \/ Ask(r) \/ AnsweredElsewhere(r) \/ AskedArrives(r)
                         \/ ClosedArrives(r) \/ RouteClaims(r)
  \/ \E s \in Sessions : SessionEnds(s) \/ MemberStopped(s)
  \/ StopClock \/ RouteReturns \/ Crash
  \/ \E c \in Clocks : DeadlinePasses(c) \/ \E b \in Batches : Expire(c, b)
  \/ \E b \in Batches : Teardown(b) \/ BatchAnswered(b)
  \/ \E verified \in SUBSET Sessions, listed \in SUBSET Requests : Poll(verified, listed)
  \/ \E back, heard \in SUBSET Sessions, refused \in SUBSET Requests, late \in BOOLEAN :
       Boot(back, heard, refused, late)

Spec == Init /\ [][Next]_vars

\* Timers fire, and every call to OpenCode ends, one way or another.
FairSpec ==
  /\ Spec
  /\ \A c \in Clocks : /\ WF_vars(DeadlinePasses(c))
                       /\ WF_vars(\E b \in Batches : Expire(c, b))
  /\ WF_vars(RouteReturns)
  /\ \A b \in Batches : WF_vars(BatchAnswered(b))

-----------------------------------------------------------------------------

BatchRecords ==
  [clock : Clocks \cup {None}, req : Requests \cup {None},
   rest : SUBSET Requests, step : {"refuse", "abort"}, intact : BOOLEAN]

\* Every variable has its type, and the step's entry in timersByTicket never
\* outlasts its questions (finish).
TypeOK ==
  /\ remote \in [Requests -> {"unasked", "open", "closed"}]
  /\ session \in [Sessions -> {"live", "stopped", "ended"}]
  /\ frames \subseteq {"asked", "closed"} \X Requests
  /\ up \in BOOLEAN /\ restarts \in 0 .. MaxRestarts
  /\ desk \in Desks /\ (desk.window # None => OpenNow(desk) # {})
  /\ route \in [req : Requests \cup {None}, clock : Clocks \cup {None}, holds : BOOLEAN]
  /\ batch \in [Batches -> BatchRecords]
  /\ closings \in [Requests -> 0 .. 2]
  /\ givenUp \subseteq Requests /\ promised \subseteq Requests

\* The step's work budgets stand still exactly as often as questions are open:
\* one suspension per open question (suspendTicketWork, resumeTicketWork).
ClocksStandWhileAsked == up => desk.depth = Cardinality(OpenNow(desk))

Held(r) ==
  \/ route.req = r /\ StillClaimed
  \/ \E b \in Batches : /\ batch[b].clock = desk.window
                        /\ r \in batch[b].rest \/ (batch[b].req = r /\ batch[b].intact)

\* "A question with no clock on it": an open question is under a clock that
\* runs, or one a person stopped, or somebody is working on closing it.
NeverUnclocked ==
  up => \A r \in OpenNow(desk) :
          IF desk.state[desk.window][r] = "resolving" THEN Held(r)
          ELSE desk.clock[desk.window].armed \/ desk.clock[desk.window].stopped

\* The wait a person causes is on record while it lasts, across restarts too:
\* an open question has an open row in question_waits, which reports and
\* estimates subtract (openWaitInterval, closeWaitInterval, the startup sweep).
WaitIsOnRecord == up /\ OpenNow(desk) # {} => desk.waitRow

\* Each question is closed once: no answer, expiry, teardown, poll or
\* restart closes it again, whatever order they come in.
ClosedOnce == \A r \in Requests : closings[r] <= 1

\* A question recorded as resolved no longer blocks its session, unless a
\* person stopped the model that asked it; nothing here would offer it again.
ClosedMeansOver ==
  \A r \in Requests :
    desk.saved[r] = "resolved" /\ session[SessionOf[r]] = "live" =>
      remote[r] # "open" \/ r \in givenUp

\* "Stopping is a promise that the run waits for a person": while a question
\* stays open its stopped clock stays stopped, through late questions, failed
\* refusals, released claims and restarts.
StopIsKept == up => \A r \in promised \cap OpenNow(desk) : desk.clock[desk.window].stopped

\* Every clock of an open question is right: the budgets stand still, the
\* question's own clock runs unless it was stopped, and then it stays so.
ClocksAreRight == ClocksStandWhileAsked /\ NeverUnclocked /\ StopIsKept

\* The wait has an end: a question is closed, or its clock is stopped, or
\* answers or refusals of it are tried again and again.
RefusalIsTried ==
  \A r \in Requests :
    []<>(\/ ~up \/ r \notin OpenNow(desk)
         \/ desk.clock[desk.window].stopped
         \/ route.req = r
         \/ \E b \in Batches : batch[b].req = r)
=============================================================================
