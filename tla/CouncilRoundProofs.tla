------------------------- MODULE CouncilRoundProofs -------------------------
(***************************************************************************)
(* What CouncilRound keeps for any council, any number of attempts and any *)
(* ballots: the results are sound, the round implements its contract, and  *)
(* the draft that wins is the best one by the totals and the council order,*)
(* whatever order the drafts were scored in.                               *)
(***************************************************************************)
EXTENDS CouncilRound, FiniteSetTheorems, TLAPS

Places == Attempting \cup {"parked", "resumed", "leaving", "out"}

-----------------------------------------------------------------------------
(* The inductive invariant: the round as a whole, and each voter.          *)

\* The round is open as long as somebody runs; only a canceled ticket closes
\* it earlier.
RoundOpen ==
  /\ ~closed => \E m \in Members : slot[m] = "running"
  /\ closed /\ ~aborted => \A m \in Members : slot[m] # "running"

DecidedIsOver ==
  decided # "no" => \A m \in Members :
    at[m] = "out" /\ (decided = "counted" => slot[m] # "dead")

\* The slot a person sees follows the loop behind it, and a restart that was
\* accepted has an attempt left.
LoopOK(m) ==
  /\ slot[m] = "running" <=> at[m] \in Attempting \cup {"resumed"}
  /\ at[m] \in {"parked", "leaving"} => slot[m] = "settled"
  /\ at[m] \in {"stopping", "returned"} => end[m] \in Final \cup Thrown
  /\ asked[m] = "retry" /\ at[m] \in Attempting => attempts[m] < MaxAttempts
  /\ at[m] = "resumed" => attempts[m] < MaxAttempts

\* An accepted stop or restart is about the present attempt; what was told is
\* about it or an earlier one, and about it only once it is over.
PeopleOK(m) ==
  /\ call[m] # NoCall => call[m].attempt = attempts[m]
  /\ told[m].attempt <= attempts[m]
  /\ told[m].kind = "stopped" /\ told[m].attempt = attempts[m] => at[m] \notin Attempting
  /\ told[m].kind = "restarted" => attempts[m] > told[m].attempt \/ aborted

\* A ballot is the present attempt's, which is over and was not stopped.
VotesOK(m) ==
  \A v \in votes : v[1] = m =>
    /\ v[2] = attempts[m] /\ at[m] \notin Attempting
    /\ ~(told[m].kind = "stopped" /\ told[m].attempt = attempts[m])

\* One session, and one that is not kept works only under a loop that will
\* have it stopped, or the voter is lost.
SessionsOK(m) ==
  /\ \A t, u \in turns : t[1] = m /\ u[1] = m => t = u
  /\ at[m] = "prompting" => Turn(m) \in turns \ kept
  /\ \A t \in turns \ kept : t[1] = m =>
       \/ at[m] \in {"prompting", "stopping"}
       \/ at[m] = "returned" /\ end[m] = "unconfirmed"
       \/ slot[m] = "dead"

VoterOK(m) == LoopOK(m) /\ PeopleOK(m) /\ VotesOK(m) /\ SessionsOK(m)

IInv == TypeOK /\ RoundOpen /\ DecidedIsOver /\ \A m \in Members : VoterOK(m)

-----------------------------------------------------------------------------
(* What the step of one voter leaves alone.                                *)

LEMMA CouncilFacts ==
  /\ \E m \in Members : TRUE
  /\ MaxAttempts \in Nat /\ MaxAttempts >= 1 /\ MaxFaults \in Nat
  /\ Attempts \subseteq Nat /\ 0 \notin Attempts /\ 1 \in Attempts
<1>1. Council[1] \in Members
  BY CouncilAssumption DEF Members
<1> QED BY <1>1, CouncilAssumption DEF Attempts

\* A voter whose own part does not change, but that may be told to leave.
Frame(m) ==
  \A q \in Members \ {m} :
    /\ slot'[q] = slot[q] /\ attempts'[q] = attempts[q] /\ asked'[q] = asked[q]
    /\ end'[q] = end[q] /\ call'[q] = call[q] /\ told'[q] = told[q]
    /\ at'[q] = at[q] \/ (at[q] = "parked" /\ at'[q] = "leaving")
    /\ \A t \in Members \X Attempts : t[1] = q =>
         /\ t \in turns' <=> t \in turns
         /\ t \in kept' <=> t \in kept
         /\ t \in votes' <=> t \in votes

LEMMA FrameKeeps ==
  ASSUME IInv, TypeOK', NEW m \in Members, Frame(m), aborted => aborted'
  PROVE  \A q \in Members \ {m} : VoterOK(q)'
<1> SUFFICES ASSUME NEW q \in Members \ {m} PROVE VoterOK(q)'
  OBVIOUS
<1>1. /\ slot'[q] = slot[q] /\ attempts'[q] = attempts[q] /\ asked'[q] = asked[q]
      /\ end'[q] = end[q] /\ call'[q] = call[q] /\ told'[q] = told[q]
      /\ at'[q] = at[q] \/ (at[q] = "parked" /\ at'[q] = "leaving")
  BY DEF Frame
<1>2. \A t \in Members \X Attempts : t[1] = q =>
        /\ t \in turns' <=> t \in turns
        /\ t \in kept' <=> t \in kept
        /\ t \in votes' <=> t \in votes
  BY DEF Frame
<1>3. VoterOK(q) /\ TypeOK
  BY DEF IInv
<1>4. LoopOK(q)'
  BY <1>1, <1>3 DEF VoterOK, LoopOK, Attempting, Underway
<1>5. PeopleOK(q)'
  BY <1>1, <1>3 DEF VoterOK, PeopleOK, Attempting, Underway
<1>6. VotesOK(q)'
  <2>1. votes' \subseteq Members \X Attempts
    BY DEF TypeOK
  <2> QED BY <1>1, <1>2, <1>3, <2>1 DEF VoterOK, VotesOK, Attempting, Underway
<1>7. SessionsOK(q)'
  <2>1. turns' \subseteq Members \X Attempts /\ turns \subseteq Members \X Attempts
    BY <1>3 DEF TypeOK
  <2>2. \A t \in turns' : t[1] = q => t \in turns
    BY <1>2, <2>1
  <2>3. \A t \in turns' \ kept' : t[1] = q => t \in turns \ kept
    BY <1>2, <2>1
  <2>4. \A t \in turns \ kept : t[1] = q => t \in turns' \ kept'
    BY <1>2, <2>1
  <2>5. Turn(q)[1] = q /\ Turn(q)' = Turn(q)
    BY <1>1 DEF Turn
  <2>6. /\ \A t, u \in turns : t[1] = q /\ u[1] = q => t = u
        /\ at[q] = "prompting" => Turn(q) \in turns \ kept
        /\ \A t \in turns \ kept : t[1] = q =>
             \/ at[q] \in {"prompting", "stopping"}
             \/ at[q] = "returned" /\ end[q] = "unconfirmed"
             \/ slot[q] = "dead"
    BY <1>3 DEF VoterOK, SessionsOK
  <2> QED BY <1>1, <2>2, <2>3, <2>4, <2>5, <2>6 DEF SessionsOK
<1> QED BY <1>4, <1>5, <1>6, <1>7 DEF VoterOK

-----------------------------------------------------------------------------
(* An attempt: the voter's place, how it ends, and its sessions.           *)

LEMMA AttemptKeeps ==
  ASSUME IInv, NEW m \in Members, NEW w \in Attempting, at[m] \in Attempting, Goes(m, w),
         UNCHANGED <<slot, attempts, asked, results, closed, aborted, people, decision>>,
         end' \in [Members -> Final \cup Thrown \cup {None}],
         \A q \in Members \ {m} : end'[q] = end[q],
         w \in {"stopping", "returned"} => end'[m] \in Final \cup Thrown,
         faults' \in 0..MaxFaults,
         turns' \subseteq Members \X Attempts, kept' \subseteq turns',
         \A t \in Members \X Attempts : t[1] # m =>
           (t \in turns' <=> t \in turns) /\ (t \in kept' <=> t \in kept),
         SessionsOK(m)'
  PROVE  IInv'
<1>1. TypeOK /\ RoundOpen /\ DecidedIsOver /\ VoterOK(m)
  BY DEF IInv
<1>2. /\ slot' = slot /\ attempts' = attempts /\ asked' = asked /\ call' = call
      /\ told' = told /\ votes' = votes /\ outcomes' = outcomes /\ closed' = closed
      /\ aborted' = aborted /\ decided' = decided
  BY DEF results, people, decision
<1>3. /\ at' \in [Members -> Places] /\ at'[m] = w
      /\ \A q \in Members \ {m} : at'[q] = at[q]
  BY <1>1 DEF TypeOK, Goes, Places
<1>4. TypeOK'
  BY <1>1, <1>2, <1>3 DEF TypeOK, Places
<1>5. Frame(m)
  BY <1>2, <1>3 DEF Frame
<1>6. RoundOpen' /\ DecidedIsOver'
  <2>1. decided = "no"
    BY <1>1 DEF DecidedIsOver, Attempting, Underway
  <2> QED BY <1>1, <1>2, <2>1 DEF RoundOpen, DecidedIsOver
<1>7. VoterOK(m)'
  <2>1. LoopOK(m)'
    BY <1>1, <1>2, <1>3 DEF VoterOK, LoopOK, Attempting, Underway
  <2>2. PeopleOK(m)'
    BY <1>1, <1>2 DEF VoterOK, PeopleOK
  <2>3. VotesOK(m)'
    BY <1>1, <1>2 DEF VoterOK, VotesOK
  <2> QED BY <2>1, <2>2, <2>3 DEF VoterOK
<1> QED BY <1>2, <1>4, <1>5, <1>6, <1>7, FrameKeeps DEF IInv

LEMMA AttemptStep ==
  ASSUME IInv, NEW m \in Members, AttemptOf(m)
  PROVE  IInv'
<1>1. TypeOK /\ LoopOK(m) /\ SessionsOK(m)
  BY DEF IInv, VoterOK
<1>2. /\ turns \subseteq Members \X Attempts /\ kept \subseteq turns
      /\ attempts[m] \in Attempts /\ faults \in 0..MaxFaults
      /\ end \in [Members -> Final \cup Thrown \cup {None}]
  BY <1>1 DEF TypeOK
<1>3. Turn(m) \in Members \X Attempts /\ Turn(m)[1] = m
  BY <1>2 DEF Turn
<1>4. Fault => faults' \in 0..MaxFaults
  BY <1>2, CouncilFacts DEF Fault
<1>5. \A t \in TurnsOf(m) : t[1] = m
  BY DEF TurnsOf
<1>6. CASE Opened(m)
  <2>1. attempts' = attempts /\ end' = end /\ faults' = faults /\ at[m] = "opening"
    BY <1>6 DEF Opened
  <2>2. turns' \subseteq Members \X Attempts /\ kept' \subseteq turns'
    BY <1>2, <1>3, <1>6 DEF Opened
  <2>3. \A t \in turns' : t[1] = m => t = Turn(m)
    BY <1>2, <1>6 DEF Opened, TurnsOf
  <2>4. Turn(m)' = Turn(m) /\ Turn(m) \in turns' \ kept' /\ at'[m] = "prompting"
    BY <1>1, <1>3, <1>6, <2>1 DEF Opened, Turn, TypeOK, TurnsOf
  <2>5. SessionsOK(m)'
    BY <2>3, <2>4 DEF SessionsOK
  <2>6. \A t \in Members \X Attempts : t[1] # m =>
          (t \in turns' <=> t \in turns) /\ (t \in kept' <=> t \in kept)
    BY <1>3, <1>5, <1>6 DEF Opened
  <2> QED BY <1>2, <1>6, <2>1, <2>2, <2>5, <2>6, AttemptKeeps
          DEF Opened, Goes, Attempting, Underway
\* The sessions are left as they are, and the loop goes on to have them stopped.
<1>7. ASSUME at[m] \in Underway, Goes(m, "stopping"),
             NEW how \in Final \cup Thrown, Ends(m, how),
             UNCHANGED <<slot, attempts, asked, results, closed, aborted, people, remote, decision>>,
             faults' \in 0..MaxFaults
      PROVE  IInv'
  <2>1. turns' = turns /\ kept' = kept /\ slot' = slot
    BY <1>7 DEF remote
  <2>2. at'[m] = "stopping" /\ end'[m] = how
    BY <1>1, <1>2, <1>7 DEF Goes, Ends, TypeOK
  <2>3. SessionsOK(m)'
    BY <1>1, <2>1, <2>2 DEF SessionsOK
  <2>4. end' \in [Members -> Final \cup Thrown \cup {None}] /\ \A q \in Members \ {m} : end'[q] = end[q]
    BY <1>2, <1>7 DEF Ends
  <2> QED BY <1>2, <1>7, <2>1, <2>2, <2>3, <2>4, AttemptKeeps DEF Attempting, Underway
<1>8. CASE OpenFails(m)
  BY <1>4, <1>7, <1>8 DEF OpenFails, Underway, Final
<1>9. CASE Deadline(m)
  BY <1>2, <1>7, <1>9 DEF Deadline, Final
<1>10. CASE Interrupted(m)
  BY <1>2, <1>7, <1>10 DEF Interrupted, Final, Thrown
<1>11. ASSUME NEW how \in {"completed", "invalid_output"}, Answers(m, how) PROVE IInv'
  <2>1. how \in Final /\ at[m] = "prompting" /\ faults' = faults /\ kept' = kept /\ slot' = slot
    BY <1>11 DEF Answers, Final
  <2>2. \A t \in turns' : t[1] # m
    BY <1>1, <1>3, <1>11, <2>1 DEF Answers, SessionsOK
  <2>3. /\ turns' \subseteq Members \X Attempts
        /\ \A t \in Members \X Attempts : t[1] # m => (t \in turns' <=> t \in turns)
    BY <1>2, <1>3, <1>11 DEF Answers
  <2>4. at'[m] = "returned" /\ end'[m] = how
    BY <1>1, <1>2, <1>11 DEF Answers, Goes, Ends, TypeOK
  <2>5. kept' \subseteq turns'
    BY <1>1, <1>2, <1>11, <2>1 DEF Answers, SessionsOK
  <2>6. SessionsOK(m)'
    BY <2>2, <2>4 DEF SessionsOK
  <2>7. end' \in [Members -> Final \cup Thrown \cup {None}] /\ \A q \in Members \ {m} : end'[q] = end[q]
    BY <1>2, <1>11, <2>1 DEF Answers, Ends
  <2> QED BY <1>2, <1>11, <2>1, <2>3, <2>4, <2>5, <2>6, <2>7, AttemptKeeps
          DEF Answers, Attempting, Underway
<1>12. ASSUME PromptFails(m, TRUE) PROVE IInv'
  <2>1. /\ at[m] = "prompting" /\ slot' = slot /\ attempts' = attempts /\ turns' = turns
        /\ kept' = kept \cup {Turn(m)} /\ Goes(m, "returned") /\ Ends(m, "failed")
    BY <1>12 DEF PromptFails
  <2>2. at'[m] = "returned" /\ end'[m] = "failed"
    BY <1>1, <1>2, <2>1 DEF Goes, Ends, TypeOK
  <2>3. \A t \in turns' \ kept' : t[1] # m
    BY <1>1, <1>3, <2>1 DEF SessionsOK
  <2>4. SessionsOK(m)'
    BY <1>1, <2>1, <2>2, <2>3 DEF SessionsOK
  <2>5. kept' \subseteq turns' /\ \A t \in Members \X Attempts : t[1] # m => (t \in kept' <=> t \in kept)
    BY <1>1, <1>2, <1>3, <2>1 DEF SessionsOK
  <2>6. end' \in [Members -> Final \cup Thrown \cup {None}] /\ \A q \in Members \ {m} : end'[q] = end[q]
    BY <1>2, <2>1 DEF Ends, Final
  <2> QED BY <1>2, <1>4, <1>12, <2>1, <2>2, <2>4, <2>5, <2>6, AttemptKeeps
          DEF PromptFails, Attempting, Underway, Final
<1>13. ASSUME PromptFails(m, FALSE) PROVE IInv'
  BY <1>4, <1>7, <1>13 DEF PromptFails, Underway, Final, remote
<1>14. CASE Stopped(m)
  <2>1. /\ at[m] = "stopping" /\ end' = end /\ faults' = faults /\ Goes(m, "returned")
        /\ turns' = turns \ TurnsOf(m) /\ kept' = kept \ TurnsOf(m)
    BY <1>14 DEF Stopped
  <2>2. at'[m] = "returned"
    BY <1>1, <2>1 DEF Goes, TypeOK
  <2>3. \A t \in turns' : t[1] # m
    BY <2>1 DEF TurnsOf
  <2>4. SessionsOK(m)'
    BY <2>2, <2>3 DEF SessionsOK
  <2>5. /\ turns' \subseteq Members \X Attempts /\ kept' \subseteq turns'
        /\ \A t \in Members \X Attempts : t[1] # m =>
             (t \in turns' <=> t \in turns) /\ (t \in kept' <=> t \in kept)
    BY <1>2, <2>1 DEF TurnsOf
  <2>6. end'[m] \in Final \cup Thrown
    BY <1>1, <2>1 DEF LoopOK
  <2> QED BY <1>2, <1>14, <2>1, <2>4, <2>5, <2>6, AttemptKeeps DEF Stopped, Attempting
<1>15. CASE NotStopped(m)
  <2>1. /\ at[m] = "stopping" /\ turns' = turns /\ kept' = kept /\ slot' = slot
        /\ Goes(m, "returned") /\ Ends(m, "unconfirmed")
    BY <1>15 DEF NotStopped, remote
  <2>2. at'[m] = "returned" /\ end'[m] = "unconfirmed"
    BY <1>1, <1>2, <2>1 DEF Goes, Ends, TypeOK
  <2>3. SessionsOK(m)'
    BY <1>1, <2>1, <2>2 DEF SessionsOK
  <2>4. end' \in [Members -> Final \cup Thrown \cup {None}] /\ \A q \in Members \ {m} : end'[q] = end[q]
    BY <1>2, <2>1 DEF Ends, Thrown
  <2> QED BY <1>2, <1>4, <1>15, <2>1, <2>2, <2>3, <2>4, AttemptKeeps
          DEF NotStopped, Attempting, Thrown
<1> QED BY <1>6, <1>8, <1>9, <1>10, <1>11, <1>12, <1>13, <1>14, <1>15 DEF AttemptOf

-----------------------------------------------------------------------------
(* The loop around the attempts.                                           *)

LEMMA VoterStep ==
  ASSUME IInv, NEW m \in Members, TypeOK', Frame(m), VoterOK(m)', RoundOpen', DecidedIsOver',
         aborted' = aborted
  PROVE  IInv'
  BY FrameKeeps DEF IInv

LEMMA AnswerFrame ==
  ASSUME TypeOK, NEW m \in Members, NEW kind, Answer(m, kind)
  PROVE  /\ call' \in [Members -> [kind : {"none", "stop", "retry"}, attempt : {0} \cup Attempts]]
         /\ told' \in [Members -> [kind : {"none", "stopped", "restarted"}, attempt : {0} \cup Attempts]]
         /\ call'[m] = NoCall
         /\ \/ told'[m] = told[m]
            \/ /\ kind \in {"stopped", "restarted"} /\ call[m] # NoCall
               /\ told'[m].kind = kind /\ told'[m].attempt = call[m].attempt
         /\ \A q \in Members \ {m} : call'[q] = call[q] /\ told'[q] = told[q]
<1>1. call'[m] = NoCall /\ call' \in [Members -> [kind : {"none", "stop", "retry"}, attempt : {0} \cup Attempts]]
  <2>1. NoCall \in [kind : {"none", "stop", "retry"}, attempt : {0} \cup Attempts]
    BY DEF NoCall
  <2> QED BY <2>1 DEF Answer, TypeOK
<1>2. CASE kind \in {"stopped", "restarted"} /\ call[m] # NoCall
  <2>1. PICK r \in [kind : {"none", "stopped", "restarted"}, attempt : {0} \cup Attempts] :
          r = [kind |-> kind, attempt |-> call[m].attempt]
    BY <1>2 DEF TypeOK
  <2>2. told' = [told EXCEPT ![m] = r]
    BY <1>2, <2>1 DEF Answer
  <2> QED BY <1>1, <1>2, <2>1, <2>2 DEF Answer, TypeOK
<1>3. CASE ~(kind \in {"stopped", "restarted"} /\ call[m] # NoCall)
  BY <1>1, <1>3 DEF Answer, TypeOK
<1> QED BY <1>2, <1>3

\* Parked voters leave when nobody runs any more, and only then.
LEMMA ClosingFrame ==
  ASSUME TypeOK, NEW m \in Members, NEW where \in {"out", "parked"},
         CloseIfIdle([at EXCEPT ![m] = where]), slot[m] = "running", RoundOpen,
         aborted' = aborted
  PROVE  /\ at' \in [Members -> Places] /\ closed' \in BOOLEAN
         /\ at'[m] = where \/ (where = "parked" /\ at'[m] = "leaving")
         /\ \A q \in Members \ {m} : at'[q] = at[q] \/ (at[q] = "parked" /\ at'[q] = "leaving")
         /\ RoundOpen'
<1>1. closed' = (closed \/ Running(slot') = {}) /\ closed' \in BOOLEAN
  BY DEF CloseIfIdle, TypeOK
<1>2. PICK park \in [Members -> Places] :
        /\ park = [at EXCEPT ![m] = where]
        /\ at' = [q \in Members |-> IF closed' /\ park[q] = "parked" THEN "leaving" ELSE park[q]]
  <2>1. [at EXCEPT ![m] = where] \in [Members -> Places]
    BY DEF TypeOK, Places
  <2>2. PICK park : park = [at EXCEPT ![m] = where]
    OBVIOUS
  <2> QED BY <1>1, <2>1, <2>2 DEF CloseIfIdle
<1>3. park[m] = where /\ \A q \in Members \ {m} : park[q] = at[q]
  BY <1>2 DEF TypeOK
<1>4. at' \in [Members -> Places]
  BY <1>2 DEF Places
<1>5. RoundOpen'
  BY <1>1 DEF RoundOpen, Running
<1> QED BY <1>1, <1>2, <1>3, <1>4, <1>5

LEMMA DieStep ==
  ASSUME IInv, NEW m \in Members, NEW how, at[m] \in {"returned", "resumed"}, Die(m, how),
         UNCHANGED <<aborted, remote, decision>>, faults' \in 0..MaxFaults
  PROVE  IInv'
<1>1. TypeOK /\ RoundOpen /\ DecidedIsOver /\ VoterOK(m)
  BY DEF IInv
<1>2. slot[m] = "running"
  BY <1>1 DEF VoterOK, LoopOK, Attempting
<1>3. /\ attempts' = attempts /\ votes' = votes /\ turns' = turns /\ kept' = kept
      /\ decided' = decided /\ aborted' = aborted
  BY DEF Die, remote, decision
<1>4. /\ slot' \in [Members -> {"running", "settled", "dead"}] /\ slot'[m] = "dead"
      /\ \A q \in Members \ {m} : slot'[q] = slot[q]
  BY <1>1 DEF Die, TypeOK
<1>5. /\ at' \in [Members -> Places] /\ closed' \in BOOLEAN /\ at'[m] = "out" /\ RoundOpen'
      /\ \A q \in Members \ {m} : at'[q] = at[q] \/ (at[q] = "parked" /\ at'[q] = "leaving")
  BY <1>1, <1>2, <1>3, ClosingFrame DEF Die
<1>6. /\ end' \in [Members -> Final \cup Thrown \cup {None}]
      /\ asked' \in [Members -> {"no", "stop", "retry"}]
      /\ \A q \in Members \ {m} : end'[q] = end[q] /\ asked'[q] = asked[q]
  BY <1>1 DEF Die, Release, Ends, TypeOK
<1>7. /\ call' \in [Members -> [kind : {"none", "stop", "retry"}, attempt : {0} \cup Attempts]]
      /\ told' \in [Members -> [kind : {"none", "stopped", "restarted"}, attempt : {0} \cup Attempts]]
      /\ call'[m] = NoCall /\ told'[m] = told[m]
      /\ \A q \in Members \ {m} : call'[q] = call[q] /\ told'[q] = told[q]
  BY <1>1, AnswerFrame DEF Die
<1>8. outcomes' \in [Members -> Final \cup {"pending"}]
  BY <1>1 DEF Die, TypeOK, Final
<1>9. TypeOK'
  BY <1>1, <1>3, <1>4, <1>5, <1>6, <1>7, <1>8 DEF TypeOK, Places
<1>10. Frame(m)
  BY <1>3, <1>4, <1>5, <1>6, <1>7 DEF Frame
<1>11. VoterOK(m)'
  <2>1. LoopOK(m)'
    BY <1>4, <1>5 DEF LoopOK, Attempting, Underway
  <2>2. PeopleOK(m)'
    BY <1>1, <1>3, <1>5, <1>7 DEF VoterOK, PeopleOK, Attempting, Underway
  <2>3. VotesOK(m)'
    BY <1>1, <1>3, <1>5, <1>7 DEF VoterOK, VotesOK, Attempting, Underway
  <2>4. SessionsOK(m)'
    BY <1>1, <1>3, <1>4, <1>5 DEF VoterOK, SessionsOK
  <2> QED BY <2>1, <2>2, <2>3, <2>4 DEF VoterOK
<1>12. DecidedIsOver'
  BY <1>1, <1>3 DEF DecidedIsOver
<1> QED BY <1>3, <1>5, <1>9, <1>10, <1>11, <1>12, VoterStep

\* Nothing of a voter whose attempt ended otherwise than unconfirmed works on,
\* but what was kept.
LEMMA Rested ==
  ASSUME NEW m \in Members, LoopOK(m), SessionsOK(m),
         (at[m] = "returned" /\ end[m] \in Final) \/ at[m] = "resumed"
  PROVE  slot[m] = "running" /\ \A t \in turns \ kept : t[1] # m
  BY DEF LoopOK, SessionsOK, Attempting, Final

LEMMA BeginStep ==
  ASSUME IInv, NEW m \in Members, Begin(m), ~closed, attempts[m] < MaxAttempts,
         (at[m] = "returned" /\ end[m] \in Final) \/ at[m] = "resumed",
         UNCHANGED <<aborted, remote, decision>>, faults' \in 0..MaxFaults
  PROVE  IInv'
<1>1. TypeOK /\ RoundOpen /\ DecidedIsOver /\ VoterOK(m)
  BY DEF IInv
<1>2. slot[m] = "running" /\ \A t \in turns \ kept : t[1] # m
  BY <1>1, Rested DEF VoterOK
<1>3. /\ turns' = turns /\ kept' = kept /\ decided' = decided /\ aborted' = aborted
      /\ closed' = closed
  BY DEF Begin, remote, decision
<1>4. /\ slot' \in [Members -> {"running", "settled", "dead"}] /\ slot'[m] = "running"
      /\ at' \in [Members -> Places] /\ at'[m] = "opening"
      /\ \A q \in Members \ {m} : slot'[q] = slot[q] /\ at'[q] = at[q]
  BY <1>1 DEF Begin, Goes, TypeOK, Places, Attempting, Underway
<1>5. /\ attempts' \in [Members -> Attempts] /\ attempts'[m] = attempts[m] + 1
      /\ \A q \in Members \ {m} : attempts'[q] = attempts[q]
  <2>1. attempts[m] + 1 \in Attempts
    BY <1>1, CouncilFacts DEF TypeOK, Attempts
  <2> QED BY <1>1, <2>1 DEF Begin, TypeOK
<1>6. /\ end' \in [Members -> Final \cup Thrown \cup {None}]
      /\ asked' \in [Members -> {"no", "stop", "retry"}] /\ asked'[m] = "no"
      /\ \A q \in Members \ {m} : end'[q] = end[q] /\ asked'[q] = asked[q]
  BY <1>1 DEF Begin, Release, Ends, TypeOK
<1>7. /\ call' \in [Members -> [kind : {"none", "stop", "retry"}, attempt : {0} \cup Attempts]]
      /\ told' \in [Members -> [kind : {"none", "stopped", "restarted"}, attempt : {0} \cup Attempts]]
      /\ call'[m] = NoCall
      /\ \/ told'[m] = told[m]
         \/ /\ call[m] # NoCall
            /\ told'[m].kind = "restarted" /\ told'[m].attempt = call[m].attempt
      /\ \A q \in Members \ {m} : call'[q] = call[q] /\ told'[q] = told[q]
  BY <1>1, AnswerFrame DEF Begin
<1>8. /\ outcomes' \in [Members -> Final \cup {"pending"}] /\ votes' = {v \in votes : v[1] # m}
  BY <1>1 DEF Begin, TypeOK
<1>9. TypeOK'
  BY <1>1, <1>3, <1>4, <1>5, <1>6, <1>7, <1>8 DEF TypeOK, Places
<1>10. Frame(m)
  BY <1>3, <1>4, <1>5, <1>6, <1>7, <1>8 DEF Frame
<1>11. VoterOK(m)'
  <2>1. LoopOK(m)'
    BY <1>4, <1>6 DEF LoopOK, Attempting, Underway
  <2>2. PeopleOK(m)'
    <3>1. attempts[m] \in Nat /\ told[m].attempt \in Nat
      <4>1. attempts[m] \in Attempts /\ told[m].attempt \in {0} \cup Attempts
        BY <1>1 DEF TypeOK
      <4>2. \A n \in {0} \cup Attempts : n \in Nat
        BY CouncilFacts
      <4> QED BY <4>1, <4>2
    <3>2. told'[m].attempt <= attempts[m]
      BY <1>1, <1>7, <3>1 DEF VoterOK, PeopleOK
    <3>3. told'[m].attempt \in Nat
      BY <1>1, <1>7, <3>1, CouncilFacts DEF VoterOK, PeopleOK
    <3> QED BY <1>5, <1>7, <3>1, <3>2, <3>3 DEF PeopleOK
  <2>3. VotesOK(m)'
    BY <1>8 DEF VotesOK
  <2>4. SessionsOK(m)'
    BY <1>1, <1>2, <1>3, <1>4 DEF VoterOK, SessionsOK
  <2> QED BY <2>1, <2>2, <2>3, <2>4 DEF VoterOK
<1>12. DecidedIsOver' /\ RoundOpen'
  BY <1>1, <1>3, <1>4 DEF DecidedIsOver, RoundOpen
<1> QED BY <1>3, <1>9, <1>10, <1>11, <1>12, VoterStep

LEMMA SettleStep ==
  ASSUME IInv, NEW m \in Members, Settle(m), at[m] = "returned", end[m] \in Final,
         UNCHANGED <<aborted, remote, decision>>, faults' \in 0..MaxFaults
  PROVE  IInv'
<1>1. TypeOK /\ RoundOpen /\ DecidedIsOver /\ VoterOK(m)
  BY DEF IInv
<1>2. slot[m] = "running" /\ \A t \in turns \ kept : t[1] # m
  BY <1>1, Rested DEF VoterOK
<1>3. /\ turns' = turns /\ kept' = kept /\ decided' = decided /\ aborted' = aborted
      /\ attempts' = attempts
  BY DEF Settle, remote, decision
<1>4. /\ slot' \in [Members -> {"running", "settled", "dead"}] /\ slot'[m] = "settled"
      /\ \A q \in Members \ {m} : slot'[q] = slot[q]
  BY <1>1 DEF Settle, TypeOK
<1>5. /\ at' \in [Members -> Places] /\ closed' \in BOOLEAN /\ RoundOpen'
      /\ at'[m] \in {"parked", "leaving", "out"}
      /\ \A q \in Members \ {m} : at'[q] = at[q] \/ (at[q] = "parked" /\ at'[q] = "leaving")
  <2>1. CASE closed
    <3>1. aborted
      BY <1>1, <1>2, <2>1 DEF RoundOpen
    <3> QED BY <1>1, <1>3, <2>1, <3>1 DEF Settle, Goes, TypeOK, Places, RoundOpen
  <2>2. CASE ~closed
    BY <1>1, <1>2, <1>3, <2>2, ClosingFrame DEF Settle
  <2> QED BY <2>1, <2>2
<1>6. /\ end' \in [Members -> Final \cup Thrown \cup {None}]
      /\ asked' \in [Members -> {"no", "stop", "retry"}]
      /\ \A q \in Members \ {m} : end'[q] = end[q] /\ asked'[q] = asked[q]
  BY <1>1 DEF Settle, Release, Ends, TypeOK
<1>7. /\ call' \in [Members -> [kind : {"none", "stop", "retry"}, attempt : {0} \cup Attempts]]
      /\ told' \in [Members -> [kind : {"none", "stopped", "restarted"}, attempt : {0} \cup Attempts]]
      /\ call'[m] = NoCall
      /\ \/ told'[m] = told[m]
         \/ /\ end[m] = "stopped" /\ call[m] # NoCall
            /\ told'[m].kind = "stopped" /\ told'[m].attempt = call[m].attempt
      /\ \A q \in Members \ {m} : call'[q] = call[q] /\ told'[q] = told[q]
  BY <1>1, AnswerFrame DEF Settle, Final
<1>8. /\ outcomes' \in [Members -> Final \cup {"pending"}]
      /\ votes' = votes \cup Counted(m) /\ votes' \subseteq Members \X Attempts
  BY <1>1 DEF Settle, Counted, Turn, TypeOK
<1>9. TypeOK'
  BY <1>1, <1>3, <1>4, <1>5, <1>6, <1>7, <1>8 DEF TypeOK, Places
<1>10. Frame(m)
  BY <1>3, <1>4, <1>5, <1>6, <1>7, <1>8 DEF Frame, Counted, Turn
<1>11. VoterOK(m)'
  <2>1. LoopOK(m)'
    BY <1>4, <1>5 DEF LoopOK, Attempting, Underway
  <2>2. PeopleOK(m)'
    <3>1. attempts[m] \in Nat
      BY <1>1, CouncilFacts DEF TypeOK
    <3> QED BY <1>1, <1>3, <1>5, <1>7, <3>1 DEF VoterOK, PeopleOK, Attempting, Underway
  \* Its ballot is the only one, and is counted only if it was not stopped.
  <2>3. VotesOK(m)'
    <3>1. \A v \in votes : v[1] # m
      BY <1>1 DEF VoterOK, VotesOK, Attempting
    <3>2. told[m].kind = "stopped" => told[m].attempt # attempts[m]
      BY <1>1 DEF VoterOK, PeopleOK, Attempting
    <3>3. CASE end[m] = "completed"
      BY <1>3, <1>5, <1>7, <1>8, <3>1, <3>2, <3>3 DEF VotesOK, Counted, Turn, Attempting, Underway
    <3>4. CASE end[m] # "completed"
      BY <1>8, <3>1, <3>4 DEF VotesOK, Counted
    <3> QED BY <3>3, <3>4
  <2>4. SessionsOK(m)'
    BY <1>1, <1>2, <1>3, <1>5 DEF VoterOK, SessionsOK
  <2> QED BY <2>1, <2>2, <2>3, <2>4 DEF VoterOK
<1>12. DecidedIsOver'
  BY <1>1, <1>3 DEF DecidedIsOver
<1> QED BY <1>3, <1>5, <1>9, <1>10, <1>11, <1>12, VoterStep

LEMMA WakesStep ==
  ASSUME IInv, NEW m \in Members, Wakes(m)
  PROVE  IInv'
<1>1. TypeOK /\ LoopOK(m)
  BY DEF IInv, VoterOK
<1>2. at[m] = "returned" /\ UNCHANGED <<aborted, remote, decision>>
  BY DEF Wakes
<1>3. (NoFault \/ Fault) => faults' \in 0..MaxFaults
  <2>1. faults \in 0..MaxFaults
    BY <1>1 DEF TypeOK
  <2> QED BY <2>1, CouncilFacts DEF NoFault, Fault
<1>4. CASE end[m] \in Thrown /\ Die(m, end[m]) /\ NoFault
  BY <1>2, <1>3, <1>4, DieStep
<1>5. CASE end[m] \in Final /\ NoFault /\ asked[m] = "retry" /\ ~closed /\ Begin(m)
  <2>1. attempts[m] < MaxAttempts
    BY <1>1, <1>2, <1>5 DEF LoopOK, Attempting
  <2> QED BY <1>2, <1>3, <1>5, <2>1, BeginStep
<1>6. CASE end[m] \in Final /\ NoFault /\ Settle(m)
  BY <1>2, <1>3, <1>6, SettleStep
<1>7. CASE end[m] \in Final /\ Fault /\ Die(m, "unrecorded")
  BY <1>2, <1>3, <1>7, DieStep
<1> QED BY <1>4, <1>5, <1>6, <1>7 DEF Wakes

LEMMA ResumesStep ==
  ASSUME IInv, NEW m \in Members, Resumes(m)
  PROVE  IInv'
<1>1. TypeOK /\ RoundOpen /\ DecidedIsOver /\ VoterOK(m)
  BY DEF IInv
<1>2. at[m] = "resumed" /\ UNCHANGED <<aborted, remote, decision>>
  BY DEF Resumes
<1>3. (NoFault \/ Fault) => faults' \in 0..MaxFaults
  <2>1. faults \in 0..MaxFaults
    BY <1>1 DEF TypeOK
  <2> QED BY <2>1, CouncilFacts DEF NoFault, Fault
<1>4. CASE ~closed /\ NoFault /\ Begin(m)
  BY <1>1, <1>2, <1>3, <1>4, BeginStep DEF VoterOK, LoopOK
<1>5. CASE ~closed /\ Fault /\ Die(m, "unrecorded")
  BY <1>2, <1>3, <1>5, DieStep
<1>6. CASE closed
  <2>1. /\ slot' = [slot EXCEPT ![m] = "settled"] /\ Goes(m, "out")
        /\ Answer(m, "restarted") /\ NoFault
        /\ attempts' = attempts /\ asked' = asked /\ end' = end /\ closed' = closed
        /\ outcomes' = outcomes /\ votes' = votes /\ turns' = turns /\ kept' = kept
        /\ decided' = decided /\ aborted' = aborted
    BY <1>2, <1>6 DEF Resumes, results, remote, decision
  \* Only a canceled ticket closes the round under a restarted voter.
  <2>2. slot[m] = "running" /\ aborted
    BY <1>1, <1>2, <1>6 DEF VoterOK, LoopOK, RoundOpen
  <2>3. /\ slot' \in [Members -> {"running", "settled", "dead"}] /\ slot'[m] = "settled"
        /\ at' \in [Members -> Places] /\ at'[m] = "out"
        /\ \A q \in Members \ {m} : slot'[q] = slot[q] /\ at'[q] = at[q]
    BY <1>1, <2>1 DEF TypeOK, Goes, Places
  <2>4. /\ call' \in [Members -> [kind : {"none", "stop", "retry"}, attempt : {0} \cup Attempts]]
        /\ told' \in [Members -> [kind : {"none", "stopped", "restarted"}, attempt : {0} \cup Attempts]]
        /\ call'[m] = NoCall
        /\ told'[m] = told[m] \/ (told'[m].kind = "restarted" /\ told'[m].attempt = attempts[m])
        /\ \A q \in Members \ {m} : call'[q] = call[q] /\ told'[q] = told[q]
    BY <1>1, <2>1, AnswerFrame DEF VoterOK, PeopleOK
  <2>5. TypeOK'
    BY <1>1, <1>3, <2>1, <2>3, <2>4 DEF TypeOK, Places
  <2>6. Frame(m)
    BY <2>1, <2>3, <2>4 DEF Frame
  <2>7. VoterOK(m)'
    <3>1. LoopOK(m)' /\ SessionsOK(m)'
      BY <1>1, <1>2, <2>1, <2>3, Rested DEF VoterOK, LoopOK, SessionsOK, Attempting, Underway
    <3>2. PeopleOK(m)'
      <4>1. attempts[m] \in Nat
        BY <1>1, CouncilFacts DEF TypeOK
      <4> QED BY <1>1, <2>1, <2>2, <2>3, <2>4, <4>1 DEF VoterOK, PeopleOK, Attempting, Underway
    <3>3. VotesOK(m)'
      BY <1>1, <2>1, <2>3, <2>4 DEF VoterOK, VotesOK, Attempting, Underway
    <3> QED BY <3>1, <3>2, <3>3 DEF VoterOK
  <2>8. RoundOpen' /\ DecidedIsOver'
    BY <1>1, <1>2, <1>6, <2>1, <2>2 DEF RoundOpen, DecidedIsOver
  <2> QED BY <2>1, <2>5, <2>6, <2>7, <2>8, VoterStep
<1> QED BY <1>4, <1>5, <1>6 DEF Resumes

\* Steps of a route, or of the end of the loop: a voter's place, its slot, what
\* was asked of it and who waits.
LEMMA PressStep ==
  ASSUME IInv, NEW m \in Members,
         UNCHANGED <<attempts, end, results, closed, aborted, told, remote, decision, faults>>,
         slot' \in [Members -> {"running", "settled", "dead"}], at' \in [Members -> Places],
         asked' \in [Members -> {"no", "stop", "retry"}],
         call' \in [Members -> [kind : {"none", "stop", "retry"}, attempt : {0} \cup Attempts]],
         \A q \in Members \ {m} : /\ slot'[q] = slot[q] /\ at'[q] = at[q]
                                  /\ asked'[q] = asked[q] /\ call'[q] = call[q],
         call'[m] = call[m] \/ call'[m].attempt = attempts[m],
         slot'[m] = slot[m] \/ (~closed /\ slot'[m] = "running" /\ at[m] = "parked"),
         at'[m] = at[m] \/ (at[m] \in {"parked", "leaving"} /\ at'[m] \in {"resumed", "out"}),
         LoopOK(m)'
  PROVE  IInv'
<1>1. TypeOK /\ RoundOpen /\ DecidedIsOver /\ VoterOK(m)
  BY DEF IInv
<1>2. /\ attempts' = attempts /\ end' = end /\ outcomes' = outcomes /\ votes' = votes
      /\ closed' = closed /\ aborted' = aborted /\ told' = told /\ turns' = turns
      /\ kept' = kept /\ decided' = decided /\ faults' = faults
  BY DEF results, remote, decision
<1>3. TypeOK'
  BY <1>1, <1>2 DEF TypeOK, Places
<1>4. Frame(m)
  BY <1>2 DEF Frame
<1>5. VoterOK(m)'
  <2>1. PeopleOK(m)'
    BY <1>1, <1>2 DEF VoterOK, PeopleOK, Attempting, Underway
  <2>2. VotesOK(m)'
    BY <1>1, <1>2 DEF VoterOK, VotesOK, Attempting, Underway
  <2>3. SessionsOK(m)'
    <3>1. slot'[m] = slot[m] \/ slot[m] = "settled"
      BY <1>1 DEF VoterOK, LoopOK
    <3> QED BY <1>1, <1>2, <3>1 DEF VoterOK, SessionsOK, Turn
  <2> QED BY <2>1, <2>2, <2>3 DEF VoterOK
<1>6. RoundOpen' /\ DecidedIsOver'
  BY <1>1, <1>2 DEF RoundOpen, DecidedIsOver
<1> QED BY <1>2, <1>3, <1>4, <1>5, <1>6, VoterStep

LEMMA RoutesStep ==
  ASSUME IInv, NEW m \in Members, RoutesOf(m) \/ Leaves(m)
  PROVE  IInv'
<1>1. TypeOK /\ LoopOK(m)
  BY DEF IInv, VoterOK
<1>2. ASSUME NEW kind \in {"stop", "retry"}, Call(m, kind)
      PROVE  /\ call' \in [Members -> [kind : {"none", "stop", "retry"}, attempt : {0} \cup Attempts]]
             /\ call'[m].attempt = attempts[m]
             /\ \A q \in Members \ {m} : call'[q] = call[q]
  <2>1. PICK r \in [kind : {"none", "stop", "retry"}, attempt : {0} \cup Attempts] :
          r = [kind |-> kind, attempt |-> attempts[m]]
    BY <1>1 DEF TypeOK
  <2>2. call' = [call EXCEPT ![m] = r]
    BY <1>2, <2>1 DEF Call
  <2> QED BY <1>1, <2>1, <2>2 DEF TypeOK
<1>3. CASE Stop(m)
  <2>1. LoopOK(m)'
    BY <1>1, <1>3 DEF Stop, LoopOK, TypeOK
  <2> QED BY <1>1, <1>2, <1>3, <2>1, PressStep DEF Stop, TypeOK, Places
<1>4. CASE RetryWorking(m)
  <2>1. LoopOK(m)'
    BY <1>1, <1>4 DEF RetryWorking, LoopOK, TypeOK
  <2> QED BY <1>1, <1>2, <1>4, <2>1, PressStep DEF RetryWorking, TypeOK, Places
<1>5. CASE RetrySettled(m)
  <2>1. LoopOK(m)'
    BY <1>1, <1>5 DEF RetrySettled, Goes, LoopOK, TypeOK, Attempting, Underway
  <2> QED BY <1>1, <1>2, <1>5, <2>1, PressStep DEF RetrySettled, Goes, TypeOK, Places
<1>6. CASE Leaves(m)
  <2>1. LoopOK(m)'
    BY <1>1, <1>6 DEF Leaves, Goes, LoopOK, TypeOK, Attempting, Underway
  <2> QED BY <1>1, <1>6, <2>1, PressStep DEF Leaves, Goes, TypeOK, Places, people
<1> QED BY <1>3, <1>4, <1>5, <1>6 DEF RoutesOf

LEMMA AbortStep ==
  ASSUME IInv, Abort
  PROVE  IInv'
<1>1. TypeOK /\ RoundOpen /\ DecidedIsOver
  BY DEF IInv
<1>2. /\ slot' = slot /\ attempts' = attempts /\ asked' = asked /\ end' = end
      /\ outcomes' = outcomes /\ votes' = votes /\ call' = call /\ told' = told
      /\ turns' = turns /\ kept' = kept /\ decided' = decided /\ faults' = faults
      /\ aborted' = TRUE /\ closed' = TRUE /\ decided = "no"
  BY DEF Abort, results, people, remote, decision
<1>3. /\ at' \in [Members -> Places]
      /\ \A q \in Members : at'[q] = at[q] \/ (at[q] = "parked" /\ at'[q] = "leaving")
  BY <1>1 DEF Abort, TypeOK, Places
<1>4. TypeOK'
  BY <1>1, <1>2, <1>3 DEF TypeOK, Places
<1>5. RoundOpen' /\ DecidedIsOver'
  BY <1>2 DEF RoundOpen, DecidedIsOver
<1>6. \A m \in Members : Frame(m)
  BY <1>2, <1>3 DEF Frame
<1>7. ASSUME NEW m \in Members PROVE VoterOK(m)'
  <2>1. VoterOK(m)
    BY DEF IInv
  <2>2. LoopOK(m)' /\ PeopleOK(m)'
    BY <1>2, <1>3, <2>1 DEF VoterOK, LoopOK, PeopleOK, Attempting, Underway
  <2>3. VotesOK(m)'
    BY <1>2, <1>3, <2>1 DEF VoterOK, VotesOK, Attempting, Underway
  <2>4. SessionsOK(m)'
    BY <1>2, <1>3, <2>1 DEF VoterOK, SessionsOK, Turn
  <2> QED BY <2>2, <2>3, <2>4 DEF VoterOK
<1> QED BY <1>4, <1>5, <1>7 DEF IInv

LEMMA DecideStep ==
  ASSUME IInv, Decide
  PROVE  IInv'
<1>1. TypeOK /\ RoundOpen /\ \A m \in Members : VoterOK(m)
  BY DEF IInv
<1>2. /\ slot' = slot /\ at' = at /\ attempts' = attempts /\ asked' = asked /\ end' = end
      /\ outcomes' = outcomes /\ votes' = votes /\ call' = call /\ told' = told
      /\ turns' = turns /\ kept' = kept /\ faults' = faults /\ aborted' = aborted
      /\ closed' = TRUE /\ \A m \in Members : at[m] = "out"
  BY DEF Decide, loop, results, people, remote
<1>3. decided' \in {"no", "counted", "failed", "cancelled"}
  BY DEF Decide
<1>4. TypeOK'
  BY <1>1, <1>2, <1>3 DEF TypeOK
<1>5. \A m \in Members : slot[m] # "running"
  BY <1>1, <1>2 DEF VoterOK, LoopOK, Attempting, Underway
<1>6. RoundOpen' /\ DecidedIsOver'
  BY <1>2, <1>5 DEF RoundOpen, DecidedIsOver, Decide
<1>7. ASSUME NEW m \in Members PROVE VoterOK(m)'
  <2>1. VoterOK(m)
    BY <1>1
  <2>2. LoopOK(m)' /\ PeopleOK(m)'
    BY <1>2, <2>1 DEF VoterOK, LoopOK, PeopleOK
  <2>3. VotesOK(m)' /\ SessionsOK(m)'
    BY <1>2, <2>1 DEF VoterOK, VotesOK, SessionsOK, Turn
  <2> QED BY <2>2, <2>3 DEF VoterOK
<1> QED BY <1>4, <1>6, <1>7 DEF IInv

-----------------------------------------------------------------------------
(* The theorems.                                                           *)

LEMMA InitEstablishes == Init => IInv
<1> SUFFICES ASSUME Init PROVE IInv
  OBVIOUS
<1>1. /\ NoCall \in [kind : {"none", "stop", "retry"}, attempt : {0} \cup Attempts]
      /\ NoCall \in [kind : {"none", "stopped", "restarted"}, attempt : {0} \cup Attempts]
      /\ NoCall.kind = "none" /\ NoCall.attempt = 0
  BY DEF NoCall
<1>2. faults \in 0..MaxFaults
  BY CouncilFacts DEF Init
<1>3. TypeOK
  BY <1>1, <1>2, CouncilFacts DEF Init, TypeOK, Attempting, Underway
<1>4. RoundOpen /\ DecidedIsOver
  BY CouncilFacts DEF Init, RoundOpen, DecidedIsOver
<1>5. ASSUME NEW m \in Members PROVE VoterOK(m)
  <2>1. /\ slot[m] = "running" /\ at[m] = "opening" /\ attempts[m] = 1 /\ asked[m] = "no"
        /\ call[m] = NoCall /\ told[m] = NoCall /\ votes = {} /\ turns = {}
    BY DEF Init
  <2>2. LoopOK(m)
    BY <2>1 DEF LoopOK, Attempting, Underway
  <2>3. PeopleOK(m)
    BY <1>1, <2>1 DEF PeopleOK
  <2>4. VotesOK(m) /\ SessionsOK(m)
    BY <2>1 DEF VotesOK, SessionsOK
  <2> QED BY <2>2, <2>3, <2>4 DEF VoterOK
<1> QED BY <1>3, <1>4, <1>5 DEF IInv

LEMMA NextKeeps == IInv /\ [Next]_vars => IInv'
<1> SUFFICES ASSUME IInv, [Next]_vars PROVE IInv'
  OBVIOUS
<1>1. ASSUME NEW m \in Members, AttemptOf(m) \/ LoopOf(m) \/ RoutesOf(m) PROVE IInv'
  BY <1>1, AttemptStep, WakesStep, ResumesStep, RoutesStep DEF LoopOf
<1>2. CASE Abort \/ Decide
  BY <1>2, AbortStep, DecideStep
<1>3. CASE UNCHANGED vars
  <2>1. /\ slot' = slot /\ at' = at /\ attempts' = attempts /\ asked' = asked /\ end' = end
        /\ outcomes' = outcomes /\ votes' = votes /\ call' = call /\ told' = told
        /\ turns' = turns /\ kept' = kept /\ faults' = faults /\ aborted' = aborted
        /\ closed' = closed /\ decided' = decided
    BY <1>3 DEF vars, loop, results, people, remote, decision
  <2>2. TypeOK' /\ RoundOpen' /\ DecidedIsOver'
    BY <2>1 DEF IInv, TypeOK, RoundOpen, DecidedIsOver
  <2>3. ASSUME NEW m \in Members PROVE VoterOK(m)'
    <3>1. VoterOK(m)
      BY DEF IInv
    <3>2. LoopOK(m)' /\ PeopleOK(m)'
      BY <2>1, <3>1 DEF VoterOK, LoopOK, PeopleOK
    <3>3. VotesOK(m)' /\ SessionsOK(m)'
      BY <2>1, <3>1 DEF VoterOK, VotesOK, SessionsOK, Turn
    <3> QED BY <3>2, <3>3 DEF VoterOK
  <2> QED BY <2>2, <2>3 DEF IInv
<1> QED BY <1>1, <1>2, <1>3 DEF Next

LEMMA RoundInvariant == Spec => []IInv
  BY InitEstablishes, NextKeeps, PTL DEF Spec

\* Whoever stops and restarts voters, and whatever fails: no voter works in two
\* sessions, only ballots of present attempts that are over are counted, when
\* they are nobody works on unkept, and a person who was told that a voter was
\* stopped or restarted finds the results to say so.
THEOREM CountStaysSound == Spec => []CountIsSound
<1>1. IInv => CountIsSound
  <2> SUFFICES ASSUME IInv PROVE CountIsSound
    OBVIOUS
  <2>1. TypeOK /\ RoundOpen /\ DecidedIsOver /\ \A m \in Members : VoterOK(m)
    BY DEF IInv
  <2>2. ASSUME NEW m \in Members PROVE Cardinality(TurnsOf(m)) <= 1
    <3>1. \A t, u \in TurnsOf(m) : t = u
      BY <2>1 DEF TurnsOf, VoterOK, SessionsOK
    <3>2. CASE TurnsOf(m) = {}
      BY <3>2, FS_EmptySet
    <3>3. CASE TurnsOf(m) # {}
      <4>1. PICK t : TurnsOf(m) = {t}
        BY <3>1, <3>3
      <4>2. Cardinality({t}) = 1
        BY FS_Singleton
      <4> QED BY <4>1, <4>2
    <3> QED BY <3>2, <3>3
  <2>3. BallotsAreCurrent
    BY <2>1 DEF BallotsAreCurrent, VoterOK, VotesOK, TypeOK
  <2>4. CountedInSilence
    <3> SUFFICES ASSUME decided = "counted", NEW t \in turns PROVE t \in kept
      BY DEF CountedInSilence
    <3>1. t[1] \in Members
      BY <2>1 DEF TypeOK
    <3>2. at[t[1]] = "out" /\ slot[t[1]] # "dead"
      BY <2>1, <3>1 DEF DecidedIsOver
    <3> QED BY <2>1, <3>1, <3>2 DEF VoterOK, SessionsOK
  <2>5. StopIsTrue
    BY <2>1 DEF StopIsTrue, VoterOK, VotesOK
  <2>6. RestartIsTrue
    BY <2>1 DEF RestartIsTrue, VoterOK, PeopleOK
  <2> QED BY <2>1, <2>2, <2>3, <2>4, <2>5, <2>6 DEF CountIsSound, OneTurn
<1> QED BY <1>1, RoundInvariant, PTL

-----------------------------------------------------------------------------
(* The round implements its contract.                                      *)

LEMMA MemberOf ==
  ASSUME NEW m \in Members
  PROVE  /\ slot[m] = "running" <=> RoundMember[m] = "working"
         /\ slot[m] = "settled" <=> RoundMember[m] = "settled"
         /\ slot[m] \notin {"running", "settled"} <=> RoundMember[m] = "lost"
  BY DEF RoundMember

\* One slot changes, so one member does.
LEMMA MemberStep ==
  ASSUME TypeOK, NEW m \in Members, NEW s, slot' = [slot EXCEPT ![m] = s],
         NEW w,
         w = IF s = "running" THEN "working" ELSE IF s = "settled" THEN "settled" ELSE "lost"
  PROVE  RoundMember' = [RoundMember EXCEPT ![m] = w]
  BY DEF RoundMember, TypeOK

LEMMA StepsKeepRound ==
  ASSUME IInv, [Next]_vars
  PROVE  [Round!Next]_<<RoundMember, decided>>
<1>1. TypeOK /\ RoundOpen /\ DecidedIsOver /\ \A m \in Members : VoterOK(m)
  BY DEF IInv
<1>2. slot' = slot /\ decided' = decided => UNCHANGED <<RoundMember, decided>>
  BY DEF RoundMember
\* A voter that runs settles.
<1>3. ASSUME NEW m \in Members, slot[m] = "running", slot' = [slot EXCEPT ![m] = "settled"],
             decided' = decided
      PROVE  Round!Next
  <2>1. RoundMember' = [RoundMember EXCEPT ![m] = "settled"]
    BY <1>1, <1>3, MemberStep
  <2> QED BY <1>3, <2>1, MemberOf DEF Round!Next, Round!Settle
\* A voter that runs is lost.
<1>4. ASSUME NEW m \in Members, slot[m] = "running", slot' = [slot EXCEPT ![m] = "dead"],
             decided' = decided
      PROVE  Round!Next
  <2>1. "lost" = IF "dead" = "running" THEN "working" ELSE IF "dead" = "settled" THEN "settled" ELSE "lost"
    OBVIOUS
  <2>2. RoundMember' = [RoundMember EXCEPT ![m] = "lost"]
    BY <1>1, <1>4, <2>1, MemberStep
  <2> QED BY <1>4, <2>2, MemberOf DEF Round!Next, Round!Leave
<1>5. ASSUME NEW m \in Members, AttemptOf(m) \/ Leaves(m) \/ Stop(m) \/ RetryWorking(m)
      PROVE  slot' = slot /\ decided' = decided
  BY <1>5 DEF AttemptOf, Opened, OpenFails, Answers, Deadline, PromptFails, Interrupted, Stopped,
     NotStopped, Leaves, Stop, RetryWorking, decision
<1>6. ASSUME NEW m \in Members, Wakes(m) \/ Resumes(m)
      PROVE  [Round!Next]_<<RoundMember, decided>>
  <2>1. slot[m] = "running" /\ decided' = decided
    BY <1>1, <1>6 DEF Wakes, Resumes, decision, VoterOK, LoopOK, Attempting
  <2>2. \/ slot' = [slot EXCEPT ![m] = "running"]
        \/ slot' = [slot EXCEPT ![m] = "settled"]
        \/ slot' = [slot EXCEPT ![m] = "dead"]
    BY <1>6 DEF Wakes, Resumes, Die, Begin, Settle
  <2>3. slot' = [slot EXCEPT ![m] = "running"] => slot' = slot
    BY <1>1, <2>1 DEF TypeOK
  <2> QED BY <1>2, <1>3, <1>4, <2>1, <2>2, <2>3
\* A settled voter is restarted while the round is open: somebody runs.
<1>7. ASSUME NEW m \in Members, RetrySettled(m) PROVE Round!Next
  <2>1. slot[m] = "settled" /\ slot' = [slot EXCEPT ![m] = "running"] /\ decided' = decided
    BY <1>7 DEF RetrySettled, decision
  <2>2. PICK q \in Members : slot[q] = "running"
    BY <1>1, <1>7 DEF RetrySettled, RoundOpen
  <2>3. RoundMember' = [RoundMember EXCEPT ![m] = "working"]
    BY <1>1, <2>1, MemberStep
  <2>4. Round!Working # {}
    BY <2>2, MemberOf DEF Round!Working
  <2> QED BY <2>1, <2>3, <2>4, MemberOf DEF Round!Next, Round!Restart
\* The step decides when every loop is out, so nobody works.
<1>8. CASE Decide
  <2>1. slot' = slot /\ decided = "no" /\ \A m \in Members : at[m] = "out"
    BY <1>8 DEF Decide, loop
  <2>2. \A m \in Members : slot[m] # "running"
    BY <1>1, <2>1 DEF VoterOK, LoopOK, Attempting, Underway
  <2>3. Round!Working = {}
    BY <2>2, MemberOf DEF Round!Working
  <2>4. (\E m \in Members : slot[m] = "dead") <=> ~ \A m \in Members : RoundMember[m] = "settled"
    BY <1>1, <2>2, MemberOf DEF TypeOK
  <2>5. decided' \in (IF \A m \in Members : RoundMember[m] = "settled" THEN {"counted", "cancelled"}
                                                                      ELSE {"failed", "cancelled"})
    BY <1>8, <2>4 DEF Decide
  <2>6. RoundMember' = RoundMember
    BY <2>1 DEF RoundMember
  <2> QED BY <2>1, <2>3, <2>5, <2>6 DEF Round!Next, Round!Decide
<1>9. CASE Abort \/ UNCHANGED vars
  BY <1>2, <1>9 DEF Abort, vars, loop, decision
<1> QED BY <1>2, <1>5, <1>6, <1>7, <1>8, <1>9 DEF Next, LoopOf, RoutesOf

\* The closed flag, the parked loops, the resume callbacks and the early mark of
\* a restart implement the round's contract: a settled voter starts over only
\* while another works, and the step decides only when nobody does.
THEOREM RoundIsKept == Spec => KeepsRound
<1>1. Init => Round!Init
  BY DEF Init, Round!Init, RoundMember
<1>2. IInv /\ [Next]_vars => [Round!Next]_<<RoundMember, decided>>
  BY StepsKeepRound
<1> QED BY <1>1, <1>2, RoundInvariant, PTL DEF Spec, KeepsRound, Round!Spec

-----------------------------------------------------------------------------
(* Induction, and what folds compute.                                      *)

\* A set with 0 that contains n + 1 with every n holds all natural numbers.
LEMMA Induction ==
  ASSUME NEW P, 0 \in P, \A n \in Nat : n \in P => n + 1 \in P
  PROVE  Nat \subseteq P
<1> SUFFICES ASSUME NEW k \in Nat, k \notin P PROVE FALSE
  OBVIOUS
<1> DEFINE Q == {n \in Nat : n \notin P}
<1>1. PICK R : IsWellFoundedOn(R, Nat) /\ \A x, y \in Nat : y < x => <<y, x>> \in R
  BY NatLessThanWellFounded DEF OpToRel
<1>2. PICK n \in Q : \A m \in Q : <<m, n>> \notin R
  BY <1>1, WFMin
<1>3. n # 0 /\ n \in Nat /\ n \notin P
  BY <1>2
<1>4. n - 1 \in Nat /\ n - 1 < n /\ (n - 1) + 1 = n
  BY <1>3
<1> QED BY <1>1, <1>2, <1>3, <1>4

\* The equation of a fold over the set S: G chooses an element, H takes it in.
Folded(f, S, base, G, H) ==
  f = [s \in SUBSET S |-> IF s = {} THEN base ELSE H[G[s], f[s \ {G[s]}]]]

\* G and H are a choice from the subsets of S, and a step in V.
Foldable(S, V, base, G, H) ==
  /\ IsFiniteSet(S) /\ base \in V
  /\ \A s \in SUBSET S : s # {} => G[s] \in s
  /\ H \in [S \X V -> V]

LEMMA Smaller ==
  ASSUME NEW S, IsFiniteSet(S), NEW s \in SUBSET S, NEW x \in s
  PROVE  /\ Cardinality(s) \in Nat /\ Cardinality(s) # 0
         /\ s \ {x} \in SUBSET S /\ Cardinality(s \ {x}) = Cardinality(s) - 1
<1>1. IsFiniteSet(s)
  BY FS_Subset
<1> QED BY <1>1, FS_RemoveElement, FS_CardinalityType, FS_EmptySet

LEMMA Smallest ==
  ASSUME NEW S, IsFiniteSet(S), NEW s \in SUBSET S, Cardinality(s) <= 0
  PROVE  s = {}
<1>1. IsFiniteSet(s) /\ Cardinality(s) \in Nat
  BY FS_Subset, FS_CardinalityType
<1>2. Cardinality(s) = 0
  BY <1>1
<1> QED BY <1>1, <1>2, FS_EmptySet

LEMMA FoldExists ==
  ASSUME NEW S, NEW V, NEW base, NEW G, NEW H, Foldable(S, V, base, G, H)
  PROVE  \E f \in [SUBSET S -> V] : Folded(f, S, base, G, H)
<1> DEFINE Next1(f) == [s \in SUBSET S |-> IF s = {} THEN base ELSE H[G[s], f[s \ {G[s]}]]]
           Upto(f, n) == \A s \in SUBSET S : Cardinality(s) <= n => f[s] = Next1(f)[s]
           P == {n \in Nat : \E f \in [SUBSET S -> V] : Upto(f, n)}
<1>0. \A s \in SUBSET S : s # {} =>
        /\ G[s] \in s /\ s \ {G[s]} \in SUBSET S
        /\ Cardinality(s) \in Nat /\ Cardinality(s) # 0
        /\ Cardinality(s \ {G[s]}) = Cardinality(s) - 1
  BY Smaller DEF Foldable
<1>1. ASSUME NEW f \in [SUBSET S -> V] PROVE Next1(f) \in [SUBSET S -> V]
  <2> SUFFICES ASSUME NEW s \in SUBSET S
               PROVE  (IF s = {} THEN base ELSE H[G[s], f[s \ {G[s]}]]) \in V
    OBVIOUS
  <2>1. CASE s = {}
    BY <2>1 DEF Foldable
  <2>2. CASE s # {}
    <3>1. G[s] \in S /\ f[s \ {G[s]}] \in V
      BY <1>0, <2>2
    <3> QED BY <2>2, <3>1 DEF Foldable
  <2> QED BY <2>1, <2>2
<1>2. 0 \in P
  <2>1. [s \in SUBSET S |-> base] \in [SUBSET S -> V]
    BY DEF Foldable
  <2>2. \A s \in SUBSET S : Cardinality(s) <= 0 => s = {}
    BY Smallest DEF Foldable
  <2>3. Upto([s \in SUBSET S |-> base], 0)
    BY <2>2
  <2> QED BY <2>1, <2>3
<1>3. ASSUME NEW n \in Nat, n \in P PROVE n + 1 \in P
  <2>1. PICK f \in [SUBSET S -> V] : Upto(f, n)
    BY <1>3
  <2> DEFINE g == Next1(f)
  <2>2. \A s \in SUBSET S : Cardinality(s) <= n => g[s] = f[s]
    BY <2>1
  <2>3. ASSUME NEW s \in SUBSET S, Cardinality(s) <= n + 1 PROVE g[s] = Next1(g)[s]
    <3>1. CASE s = {}
      BY <3>1
    <3>2. CASE s # {}
      <4>1. Cardinality(s \ {G[s]}) <= n /\ s \ {G[s]} \in SUBSET S
        BY <1>0, <2>3, <3>2
      <4>2. g[s \ {G[s]}] = f[s \ {G[s]}]
        BY <2>2, <4>1
      <4>3. g[s] = H[G[s], f[s \ {G[s]}]]
        BY <3>2
      <4>4. Next1(g)[s] = H[G[s], g[s \ {G[s]}]]
        BY <3>2
      <4> QED BY <4>2, <4>3, <4>4
    <3> QED BY <3>1, <3>2
  <2>4. g \in [SUBSET S -> V]
    BY <1>1
  <2>5. Upto(g, n + 1)
    BY <2>3
  <2>6. n + 1 \in Nat
    OBVIOUS
  <2> HIDE DEF g, Upto
  <2> QED BY <2>4, <2>5, <2>6
<1>4. Cardinality(S) \in P
  <2>1. Nat \subseteq P
    <3> HIDE DEF P
    <3> QED BY <1>2, <1>3, Induction
  <2> QED BY <2>1, FS_CardinalityType DEF Foldable
<1>5. PICK f \in [SUBSET S -> V] : Upto(f, Cardinality(S))
  BY <1>4
<1>6. \A s \in SUBSET S : Cardinality(s) <= Cardinality(S)
  BY FS_Subset DEF Foldable
<1>7. f = Next1(f)
  <2>1. \A s \in SUBSET S : f[s] = Next1(f)[s]
    BY <1>5, <1>6
  <2>2. Next1(f) \in [SUBSET S -> V]
    BY <1>1
  <2> HIDE DEF Next1
  <2> QED BY <2>1, <2>2
<1> QED BY <1>7 DEF Folded

\* A fold has its type throughout if its start has, and each step keeps it.
LEMMA FoldTyped ==
  ASSUME NEW S, IsFiniteSet(S), NEW V, NEW f, f[{}] \in V,
         \A s \in SUBSET S : s # {} => \E x \in s : f[s \ {x}] \in V => f[s] \in V
  PROVE  \A s \in SUBSET S : f[s] \in V
<1> DEFINE P == {n \in Nat : \A s \in SUBSET S : Cardinality(s) <= n => f[s] \in V}
<1>1. 0 \in P
  BY Smallest
<1>2. ASSUME NEW n \in Nat, n \in P PROVE n + 1 \in P
  <2>1. ASSUME NEW s \in SUBSET S, Cardinality(s) <= n + 1, s # {} PROVE f[s] \in V
    <3>1. PICK x \in s : f[s \ {x}] \in V => f[s] \in V
      BY <2>1
    <3>2. s \ {x} \in SUBSET S /\ Cardinality(s \ {x}) <= n
      BY <2>1, Smaller
    <3>3. f[s \ {x}] \in V
      BY <1>2, <3>2
    <3> QED BY <3>1, <3>3
  <2>2. \A s \in SUBSET S : Cardinality(s) <= n + 1 => f[s] \in V
    BY <2>1
  <2>3. n + 1 \in Nat
    OBVIOUS
  <2> QED BY <2>2, <2>3
<1>3. Cardinality(S) \in P
  <2>1. Nat \subseteq P
    <3> HIDE DEF P
    <3> QED BY <1>1, <1>2, Induction
  <2> QED BY <2>1, FS_CardinalityType
<1>4. \A s \in SUBSET S : Cardinality(s) <= Cardinality(S)
  BY FS_Subset
<1> QED BY <1>3, <1>4

-----------------------------------------------------------------------------
(* The totals, and the draft that wins by them.                            *)

LEMMA FiniteMembers == IsFiniteSet(Members)
<1> DEFINE f == [i \in DOMAIN Council |-> Council[i]]
<1>1. DOMAIN Council = 1 .. Len(Council) /\ Len(Council) \in Nat
  BY CouncilAssumption
<1>2. IsFiniteSet(DOMAIN Council)
  BY <1>1, FS_Interval
<1>3. f \in Surjection(DOMAIN Council, Members)
  BY DEF Members, Surjection
<1> QED BY <1>2, <1>3, FS_Surjection

LEMMA FiniteVotes ==
  ASSUME TypeOK
  PROVE  IsFiniteSet(votes) /\ votes \subseteq Members \X Attempts
<1>1. IsFiniteSet(Members)
  BY FiniteMembers
<1>2. IsFiniteSet(Attempts)
  BY FS_Interval, CouncilAssumption DEF Attempts
<1>3. IsFiniteSet(Members \X Attempts)
  BY <1>1, <1>2, FS_Product
<1> QED BY <1>3, FS_Subset DEF TypeOK

\* The equation of the fold in Total.
Sums(f, d) ==
  f = [s \in SUBSET votes |->
         IF s = {} THEN 0
         ELSE f[s \ {CHOOSE x \in s : TRUE}] + Scores[CHOOSE x \in s : TRUE][d]]

LEMMA TotalSums ==
  ASSUME NEW d, \E f : Sums(f, d)
  PROVE  \E f : Sums(f, d) /\ Total(d) = f[votes]
BY Zenon DEF Total, FoldSet, MapThenFoldSet, Sums

LEMMA TotalType ==
  ASSUME TypeOK, NEW d \in Drafts
  PROVE  Total(d) \in Nat
<1> DEFINE G == [s \in SUBSET votes |-> CHOOSE x \in s : TRUE]
           H == [p \in votes \X Nat |-> p[2] + Scores[p[1]][d]]
<1>0. IsFiniteSet(votes) /\ \A v \in votes : Scores[v][d] \in Nat
  BY FiniteVotes, CouncilAssumption
<1>1. H \in [votes \X Nat -> Nat]
  BY <1>0
<1>2. Foldable(votes, Nat, 0, G, H)
  BY <1>0, <1>1 DEF Foldable
<1>3. \E f : Sums(f, d)
  <2>1. PICK f \in [SUBSET votes -> Nat] : Folded(f, votes, 0, G, H)
    <3> HIDE DEF G, H
    <3> QED BY <1>2, FoldExists
  <2>2. ASSUME NEW s \in SUBSET votes, s # {}
        PROVE  H[G[s], f[s \ {G[s]}]]
                 = f[s \ {CHOOSE x \in s : TRUE}] + Scores[CHOOSE x \in s : TRUE][d]
    <3>1. G[s] = (CHOOSE x \in s : TRUE) /\ G[s] \in votes
      BY <2>2
    <3>2. f[s \ {G[s]}] \in Nat
      BY <2>1
    <3> HIDE DEF G
    <3> QED BY <3>1, <3>2
  <2>3. Sums(f, d)
    BY <2>1, <2>2, Zenon DEF Folded, Sums
  <2> QED BY <2>3
<1>4. PICK f : Sums(f, d) /\ Total(d) = f[votes]
  BY <1>3, TotalSums
<1>5. f[{}] \in Nat
  BY <1>4 DEF Sums
<1>6. ASSUME NEW s \in SUBSET votes, s # {}
      PROVE  \E x \in s : f[s \ {x}] \in Nat => f[s] \in Nat
  <2>1. PICK x \in s : x = CHOOSE y \in s : TRUE
    BY <1>6
  <2>2. f[s] = f[s \ {x}] + Scores[x][d]
    BY <1>4, <1>6, <2>1 DEF Sums
  <2>3. Scores[x][d] \in Nat
    BY <1>0, <2>1
  <2>4. f[s \ {x}] \in Nat => f[s] \in Nat
    BY <2>2, <2>3
  <2> QED BY <2>1, <2>4
<1>7. \A s \in SUBSET votes : f[s] \in Nat
  <2> HIDE DEF G, H
  <2> QED BY <1>0, <1>5, <1>6, FoldTyped
<1> QED BY <1>4, <1>7

LEMMA MaxIs ==
  ASSUME NEW k \in Nat, NEW s \in SUBSET (1..k), s # {}
  PROVE  Max(s) \in s /\ \A y \in s : Max(s) >= y
<1> DEFINE P == {n \in Nat : \A t \in SUBSET (1..n) : t # {} => \E x \in t : \A y \in t : x >= y}
<1>1. 0 \in P
  <2>1. 1..0 = {}
    OBVIOUS
  <2>2. \A t \in SUBSET (1..0) : t = {}
    BY <2>1
  <2> QED BY <2>2
<1>2. ASSUME NEW n \in Nat, n \in P PROVE n + 1 \in P
  <2>1. ASSUME NEW t \in SUBSET (1 .. n + 1), t # {} PROVE \E x \in t : \A y \in t : x >= y
    <3>1. CASE n + 1 \in t
      BY <2>1, <3>1
    <3>2. CASE n + 1 \notin t
      <4>1. t \in SUBSET (1..n)
        BY <3>2
      <4> QED BY <1>2, <2>1, <4>1
    <3> QED BY <3>1, <3>2
  <2>2. n + 1 \in Nat
    OBVIOUS
  <2> QED BY <2>1, <2>2
<1>3. k \in P
  <2> HIDE DEF P
  <2> QED BY <1>1, <1>2, Induction
<1>4. \E x \in s : \A y \in s : x >= y
  BY <1>3
<1> QED BY <1>4, Zenon DEF Max

LEMMA Ranks ==
  /\ \A d \in Members : Rank(d) \in Nat /\ Rank(d) >= 1 /\ Council[Rank(d)] = d
  /\ Council[1] \in Members /\ Rank(Council[1]) = 1
<1>1. DOMAIN Council = 1 .. Len(Council) /\ Len(Council) \in Nat /\ 1 \in DOMAIN Council
  BY CouncilAssumption
<1>2. ASSUME NEW d \in Members PROVE Rank(d) \in DOMAIN Council /\ Council[Rank(d)] = d
  <2>1. \E i \in DOMAIN Council : Council[i] = d
    BY DEF Members
  <2> QED BY <2>1, Zenon DEF Rank
<1>3. Council[1] \in Members
  BY <1>1 DEF Members
<1>4. Rank(Council[1]) = 1
  BY <1>1, <1>2, <1>3, CouncilAssumption
<1> QED BY <1>1, <1>2, <1>3, <1>4

\* One draft stands before another in the totals and, if these are equal, in
\* council order.
Beats(w, d) == w = d \/ Total(w) > Total(d) \/ (Total(w) = Total(d) /\ Rank(w) < Rank(d))

LEMMA BetterBeats ==
  ASSUME TypeOK, NEW d \in Drafts, NEW best \in Drafts
  PROVE  /\ Better(d, best) => Beats(d, best)
         /\ ~Better(d, best) => Beats(best, d)
<1>1. d \in Members /\ best \in Members /\ best # None
  BY CouncilAssumption
<1>2. Total(d) \in Nat /\ Total(best) \in Nat
  BY TotalType
<1>3. /\ Rank(d) \in Nat /\ Rank(d) >= 1 /\ Rank(best) \in Nat /\ Rank(best) >= 1
      /\ Rank(d) = Rank(best) => d = best
      /\ d = Council[1] => Rank(d) = 1
      /\ best = Council[1] => Rank(best) = 1
  BY <1>1, Ranks
<1> HIDE DEF Rank
<1> QED BY <1>1, <1>2, <1>3 DEF Better, Beats

LEMMA BeatsAlong ==
  ASSUME TypeOK, NEW a \in Drafts, NEW b \in Drafts, NEW c \in Drafts, Beats(a, b), Beats(b, c)
  PROVE  Beats(a, c)
<1>1. Total(a) \in Nat /\ Total(b) \in Nat /\ Total(c) \in Nat
  BY TotalType
<1>2. Rank(a) \in Nat /\ Rank(b) \in Nat /\ Rank(c) \in Nat
  BY Ranks, CouncilAssumption
<1> QED BY <1>1, <1>2 DEF Beats

\* The equation of the fold in SelectWinner.
Scans(f, scanned) ==
  f = [s \in SUBSET DOMAIN scanned |->
         IF s = {} THEN None
         ELSE IF Better(scanned[Max(s)], f[s \ {Max(s)}]) THEN scanned[Max(s)] ELSE f[s \ {Max(s)}]]

LEMMA WinnerScans ==
  ASSUME NEW scanned, \E f : Scans(f, scanned)
  PROVE  \E f : Scans(f, scanned) /\ SelectWinner(scanned) = f[DOMAIN scanned]
BY Zenon DEF SelectWinner, FoldLeft, MapThenFoldSet, Scans

LEMMA ScanExists ==
  ASSUME NEW n \in Nat, NEW scanned \in [1..n -> Drafts]
  PROVE  \E f : Scans(f, scanned)
<1> DEFINE S == 1..n
           V == Drafts \cup {None}
           G == [s \in SUBSET S |-> Max(s)]
           H == [p \in S \X V |-> IF Better(scanned[p[1]], p[2]) THEN scanned[p[1]] ELSE p[2]]
<1>1. H \in [S \X V -> V]
  OBVIOUS
<1>2. \A s \in SUBSET S : s # {} => G[s] \in s /\ G[s] = Max(s)
  BY MaxIs
<1>3. Foldable(S, V, None, G, H)
  <2>1. IsFiniteSet(S)
    BY FS_Interval
  <2> HIDE DEF S, G, H
  <2> QED BY <1>1, <1>2, <2>1 DEF Foldable
<1>4. PICK f \in [SUBSET S -> V] : Folded(f, S, None, G, H)
  <2> HIDE DEF S, V, G, H
  <2> QED BY <1>3, FoldExists
<1>5. DOMAIN scanned = S
  OBVIOUS
<1>6. ASSUME NEW s \in SUBSET S, s # {}
      PROVE  H[G[s], f[s \ {G[s]}]]
               = IF Better(scanned[Max(s)], f[s \ {Max(s)}]) THEN scanned[Max(s)] ELSE f[s \ {Max(s)}]
  <2>1. G[s] = Max(s) /\ G[s] \in S
    BY <1>2, <1>6
  <2>2. f[s \ {Max(s)}] \in V
    BY <1>4
  <2> HIDE DEF S, V, G
  <2> QED BY <2>1, <2>2
<1>7. Scans(f, scanned)
  <2> HIDE DEF S, V, G, H
  <2> QED BY <1>4, <1>5, <1>6, Zenon DEF Folded, Scans
<1> QED BY <1>7

\* Whatever the order in which the drafts are scanned, the one that is left is
\* none, or beats every draft that was scanned.
LEMMA ScanBeats ==
  ASSUME TypeOK, NEW n \in Nat, n # 0, NEW scanned \in [1..n -> Drafts]
  PROVE  /\ SelectWinner(scanned) \in Drafts
         /\ \A i \in 1..n : Beats(SelectWinner(scanned), scanned[i])
<1>1. PICK f : Scans(f, scanned) /\ SelectWinner(scanned) = f[DOMAIN scanned]
  BY ScanExists, WinnerScans
<1>2. DOMAIN scanned = 1..n
  OBVIOUS
<1> DEFINE Left(k) == f[1..k] \in Drafts /\ \A i \in 1..k : Beats(f[1..k], scanned[i])
           P == {k \in Nat : k < n => Left(k + 1)}
\* The step from k drafts to k + 1.
<1>3. ASSUME NEW k \in Nat, k < n
      PROVE  f[1 .. k + 1] = IF Better(scanned[k + 1], f[1..k]) THEN scanned[k + 1] ELSE f[1..k]
  <2>1. 1 .. k + 1 \in SUBSET (1..n) /\ k + 1 \in 1 .. k + 1 /\ 1 .. k + 1 # {}
    <3>1. \A i \in 1 .. k + 1 : i \in 1..n
      BY <1>3
    <3>2. k + 1 \in 1 .. k + 1
      OBVIOUS
    <3> QED BY <3>1, <3>2
  <2>2. Max(1 .. k + 1) = k + 1
    <3> DEFINE s == 1 .. k + 1
    <3>1. Max(s) \in s /\ \A y \in s : Max(s) >= y
      <4> HIDE DEF s
      <4> QED BY <2>1, MaxIs DEF s
    <3>2. \A x \in 1 .. k + 1 : x >= k + 1 => x = k + 1
      OBVIOUS
    <3> QED BY <2>1, <3>1, <3>2
  <2>3. (1 .. k + 1) \ {k + 1} = 1..k
    OBVIOUS
  <2> QED BY <1>1, <1>2, <2>1, <2>2, <2>3 DEF Scans
<1>4. 0 \in P
  <2>1. f[1..0] = None
    BY <1>1 DEF Scans
  <2>2. Better(scanned[1], f[1..0])
    BY <2>1 DEF Better
  <2>3. f[1..1] = scanned[1] /\ scanned[1] \in Drafts
    <3>1. PICK k \in Nat : k = 0
      OBVIOUS
    <3>2. k < n /\ k + 1 = 1 /\ 1 \in 1..n
      BY <3>1
    <3>3. f[1..1] = IF Better(scanned[1], f[1..k]) THEN scanned[1] ELSE f[1..k]
      BY <1>3, <3>2, Zenon
    <3> QED BY <2>2, <3>1, <3>2, <3>3
  <2>4. Left(1)
    BY <2>3 DEF Beats
  <2> QED BY <2>4
<1>5. ASSUME NEW k \in Nat, k \in P PROVE k + 1 \in P
  <2> DEFINE j == k + 1
  <2> SUFFICES ASSUME j < n PROVE Left(j + 1)
    OBVIOUS
  <2>1. Left(j) /\ j \in Nat /\ j + 1 \in 1..n
    BY <1>5
  <2>2. f[1 .. j + 1] = IF Better(scanned[j + 1], f[1..j]) THEN scanned[j + 1] ELSE f[1..j]
    BY <1>3, <2>1
  <2>3. scanned[j + 1] \in Drafts /\ f[1..j] \in Drafts /\ \A i \in 1..j : scanned[i] \in Drafts
    BY <2>1
  <2>4. f[1 .. j + 1] \in Drafts /\ Beats(f[1 .. j + 1], scanned[j + 1]) /\ Beats(f[1 .. j + 1], f[1..j])
    BY <2>2, <2>3, BetterBeats DEF Beats
  <2>5. ASSUME NEW i \in 1 .. j + 1 PROVE Beats(f[1 .. j + 1], scanned[i])
    <3>1. CASE i = j + 1
      BY <2>4, <3>1
    <3>2. CASE i # j + 1
      <4>1. i \in 1..j
        BY <2>1, <3>2
      <4> HIDE DEF j
      <4> QED BY <2>1, <2>3, <2>4, <4>1, BeatsAlong
    <3> QED BY <3>1, <3>2
  <2> QED BY <2>4, <2>5
<1>6. n - 1 \in Nat /\ n - 1 < n /\ (n - 1) + 1 = n
  OBVIOUS
<1>7. n - 1 \in P
  <2> HIDE DEF P
  <2> QED BY <1>4, <1>5, <1>6, Induction
<1>8. Left(n)
  BY <1>6, <1>7
<1> QED BY <1>1, <1>2, <1>8

LEMMA EveryDraftScanned ==
  ASSUME NEW scanned \in SetToSeqs(Drafts)
  PROVE  /\ Cardinality(Drafts) \in Nat /\ Cardinality(Drafts) # 0
         /\ scanned \in [1..Cardinality(Drafts) -> Drafts]
         /\ \A d \in Drafts : \E i \in 1..Cardinality(Drafts) : scanned[i] = d
<1> DEFINE n == Cardinality(Drafts)
           D == 1..n
<1>1. IsFiniteSet(Members)
  BY FiniteMembers
<1>2. IsFiniteSet(Drafts)
  BY <1>1, FS_Subset, CouncilAssumption
<1>3. n \in Nat /\ n # 0
  BY <1>2, FS_CardinalityType, FS_EmptySet, CouncilAssumption
<1>4. scanned \in [D -> Drafts] /\ \A i, j \in D : i # j => scanned[i] # scanned[j]
  BY Zenon DEF SetToSeqs
<1>5. scanned \in Injection(D, Drafts)
  BY <1>4, Zenon DEF Injection, IsInjective
<1>6. Cardinality(D) = n
  BY <1>3, FS_Interval
<1>7. scanned \in Surjection(D, Drafts)
  <2> HIDE DEF D
  <2> QED BY <1>2, <1>5, <1>6, FS_Injection
<1>8. \A d \in Drafts : \E i \in D : scanned[i] = d
  BY <1>7, Zenon DEF Surjection
<1> QED BY <1>3, <1>4, <1>8

LEMMA SelectedStands ==
  ASSUME TypeOK, NEW scanned \in SetToSeqs(Drafts)
  PROVE  /\ SelectWinner(scanned) \in Drafts
         /\ \A d \in Drafts : Beats(SelectWinner(scanned), d)
BY EveryDraftScanned, ScanBeats

-----------------------------------------------------------------------------
(* The winner is chosen once, and nothing it rests on moves afterwards.    *)

\* Nobody has won while the round is undecided, and who has won stands.
WinnerInv == IInv /\ (decided = "no" => winner = None) /\ WinnerStands

\* What follows the decision touches neither the ballots nor the results.
LEMMA DecidedRests ==
  ASSUME IInv, decided # "no", [Next]_vars
  PROVE  decided' = decided /\ winner' = winner /\ votes' = votes /\ outcomes' = outcomes
<1>1. \A m \in Members : at[m] = "out"
  BY DEF IInv, DecidedIsOver
<1>2. \A m \in Members : slot[m] # "running"
  BY <1>1 DEF IInv, VoterOK, LoopOK, Attempting, Underway
<1>3. ASSUME NEW m \in Members, AttemptOf(m) PROVE FALSE
  BY <1>1, <1>3 DEF AttemptOf, Opened, OpenFails, Answers, Deadline, PromptFails, Interrupted, Stopped,
     NotStopped, Underway
<1>4. ASSUME NEW m \in Members, LoopOf(m) PROVE FALSE
  BY <1>1, <1>4 DEF LoopOf, Wakes, Resumes, Leaves
<1>5. ASSUME NEW m \in Members, RoutesOf(m) PROVE FALSE
  BY <1>1, <1>2, <1>5 DEF RoutesOf, Stop, RetryWorking, RetrySettled
<1>6. ~Abort /\ ~Decide
  BY DEF Abort, Decide
<1>7. UNCHANGED vars
  BY <1>3, <1>4, <1>5, <1>6 DEF Next
<1> QED BY <1>7 DEF vars, decision, results

LEMMA TotalsRest ==
  ASSUME votes' = votes
  PROVE  \A d \in Drafts : Total(d)' = Total(d)
BY Zenon DEF Total, FoldSet, MapThenFoldSet

LEMMA WinnerStep ==
  ASSUME WinnerInv, [Next]_vars
  PROVE  WinnerInv'
<1>1. IInv /\ IInv' /\ TypeOK
  BY NextKeeps DEF WinnerInv, IInv
<1>2. CASE decided # "no"
  <2>1. decided' = decided /\ winner' = winner /\ votes' = votes /\ outcomes' = outcomes
    BY <1>1, <1>2, DecidedRests
  <2>2. \A d \in Drafts : Total(d)' = Total(d)
    BY <2>1, TotalsRest
  <2>3. Completed' = Completed
    BY <2>1 DEF Completed
  <2>4. WinnerStands'
    BY <2>1, <2>2, <2>3 DEF WinnerInv, WinnerStands
  <2> QED BY <1>1, <1>2, <2>1, <2>4 DEF WinnerInv
<1>3. CASE decided = "no" /\ Decide
  <2>1. votes' = votes /\ outcomes' = outcomes /\ decided' # "no"
    BY <1>3 DEF Decide, results
  <2>2. \A d \in Drafts : Total(d)' = Total(d)
    BY <2>1, TotalsRest
  <2>3. Completed' = Completed
    BY <2>1 DEF Completed
  <2>4. CASE winner' = winner
    BY <1>1, <1>3, <2>1, <2>4 DEF WinnerInv, WinnerStands
  <2>5. CASE winner' # winner
    <3>1. decided' = "counted" /\ Cardinality(Completed) >= MinQuorum
      <4>1. Cardinality(Completed) \in Nat
        BY FiniteMembers, FS_Subset, FS_CardinalityType DEF Completed
      <4>2. decided' = "counted" /\ ~(Cardinality(Completed) < MinQuorum)
        BY <1>3, <2>5 DEF Decide
      <4> QED BY <4>1, <4>2, CouncilAssumption
    <3>2. PICK scanned \in SetToSeqs(Drafts) : winner' = SelectWinner(scanned)
      BY <1>3, <2>5 DEF Decide
    <3>3. winner' \in Drafts /\ \A d \in Drafts : Beats(winner', d)
      BY <1>1, <3>2, SelectedStands
    <3>4. WinnerStands'
      BY <2>2, <2>3, <3>1, <3>3 DEF WinnerStands, Beats
    <3> QED BY <1>1, <2>1, <3>4 DEF WinnerInv
  <2> QED BY <2>4, <2>5
<1>4. CASE decided = "no" /\ ~Decide
  <2>1. decided' = decided /\ winner' = winner
    BY <1>4 DEF Next, AttemptOf, LoopOf, RoutesOf, Opened, OpenFails, Answers, Deadline, PromptFails,
       Interrupted, Stopped, NotStopped, Wakes, Resumes, Leaves, Stop, RetryWorking, RetrySettled,
       Abort, decision, vars
  <2>2. winner' = None
    BY <1>4, <2>1 DEF WinnerInv
  <2> QED BY <1>1, <2>1, <2>2 DEF WinnerInv, WinnerStands
<1> QED BY <1>2, <1>3, <1>4

\* The winner does not depend on the order in which the ballots arrived: no
\* draft beats it, and of equal ones it is the main implementer's, else the
\* first in council order.
THEOREM WinnerIsFair == Spec => []WinnerStands
<1>1. Init => WinnerInv
  BY InitEstablishes DEF Init, WinnerInv, WinnerStands
<1>2. WinnerInv /\ [Next]_vars => WinnerInv'
  BY WinnerStep
<1>3. WinnerInv => WinnerStands
  BY DEF WinnerInv
<1> QED BY <1>1, <1>2, <1>3, PTL DEF Spec

=============================================================================
