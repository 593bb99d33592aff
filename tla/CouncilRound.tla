---------------------------- MODULE CouncilRound ----------------------------
(***************************************************************************)
(* One voting round of the LLM council: every voter runs in a loop of      *)
(* attempts (council/memberControl.ts) that each drive one OpenCode        *)
(* session (council/voter.ts), a person stops or restarts voters while the *)
(* round is open, and the step takes the ballots when the round is over.   *)
(* Drafting runs through the same loop with drafts instead of ballots.     *)
(*                                                                         *)
(* A promise that has settled and the code awaiting it are two steps here: *)
(* a route or another voter may run in between.                            *)
(*                                                                         *)
(* Bounds: MaxAttempts attempts of a voter, MaxFaults unconfirmed stops,   *)
(* refused sessions and failing writes.                                    *)
(***************************************************************************)
EXTENDS Naturals, Sequences, FiniteSets, SequencesExt, Functions

CONSTANTS
  Council,       \* the members in council order, the main implementer first
  Drafts,        \* the members whose draft is valid
  Scores,        \* [Members \X Attempts -> [Drafts -> Nat]]: what a ballot says
  MinQuorum,     \* completed answers a round needs
  MaxAttempts, MaxFaults,
  None

Members == {Council[i] : i \in DOMAIN Council}
Attempts == 1..MaxAttempts

ASSUME CouncilAssumption ==
  /\ Council \in Seq(Members) /\ Council # <<>>
  /\ \A i, j \in DOMAIN Council : Council[i] = Council[j] => i = j
  /\ Drafts \subseteq Members /\ Drafts # {}
  /\ Scores \in [Members \X Attempts -> [Drafts -> Nat]]
  /\ MinQuorum \in Nat \ {0} /\ MaxAttempts \in Nat \ {0} /\ MaxFaults \in Nat
  /\ None \notin Members

VARIABLES
  slot,       \* MemberSlot.state
  at,         \* where the voter's loop stands
  attempts,   \* MemberSlot.attempts
  asked,      \* AttemptControl.interruption
  end,        \* how the attempt ends, once that is decided
  outcomes,   \* memberOutcomes
  votes,      \* ballots counted so far: <<voter, attempt>>
  closed,     \* CouncilRound.closed
  aborted,    \* the ticket's abort signal
  call,       \* the stop or restart a person waits for
  told,       \* the last "stopped" or "restarted" a person got, and for which attempt
  turns,      \* sessions OpenCode is working in: <<voter, attempt>>
  kept,       \* sessions preserved for a continuation
  decided,    \* how the step took the results
  winner,
  faults

loop == <<slot, at, attempts, asked, end>>
results == <<outcomes, votes>>
people == <<call, told>>
remote == <<turns, kept>>
decision == <<decided, winner>>
vars == <<loop, results, closed, aborted, people, remote, decision, faults>>

Final == {"completed", "timed_out", "invalid_output", "failed", "stopped"}
Thrown == {"cancelled", "unconfirmed"}
NoCall == [kind |-> "none", attempt |-> 0]

\* An attempt whose session may be prompted or is; its control can be used.
Underway == {"opening", "prompting"}
Attempting == Underway \cup {"stopping", "returned"}

Fault == faults < MaxFaults /\ faults' = faults + 1
NoFault == faults' = faults

TurnsOf(m) == {t \in turns : t[1] = m}
Turn(m) == <<m, attempts[m]>>

-----------------------------------------------------------------------------
(* The attempt: one voter, one session.                                    *)

\* The session is there and the ballot is asked for.  A restart first has
\* the predecessor's session stopped (forceFresh).
Opened(m) ==
  /\ at[m] = "opening" /\ asked[m] = "no" /\ ~aborted
  /\ at' = [at EXCEPT ![m] = "prompting"]
  /\ turns' = (turns \ TurnsOf(m)) \cup {Turn(m)}
  /\ kept' = kept \ TurnsOf(m)
  /\ UNCHANGED <<slot, attempts, asked, end, results, closed, aborted, people, decision, faults>>

Ends(m, how) == end' = [end EXCEPT ![m] = how]
Goes(m, where) == at' = [at EXCEPT ![m] = where]

\* The session could not be created, or its predecessor not stopped.
OpenFails(m) ==
  /\ at[m] = "opening" /\ asked[m] = "no" /\ ~aborted
  /\ Fault /\ Goes(m, "stopping") /\ Ends(m, "failed")
  /\ UNCHANGED <<slot, attempts, asked, results, closed, aborted, people, remote, decision>>

\* The model's answer: a scorecard, or none after the last structured retry.
Answers(m, how) ==
  /\ at[m] = "prompting" /\ asked[m] = "no" /\ ~aborted
  /\ turns' = turns \ {Turn(m)}
  /\ Goes(m, "returned") /\ Ends(m, how)
  /\ UNCHANGED <<slot, attempts, asked, results, closed, aborted, people, kept, decision, faults>>

\* The budget runs out.
Deadline(m) ==
  /\ at[m] \in Underway /\ asked[m] = "no" /\ ~aborted
  /\ Goes(m, "stopping") /\ Ends(m, "timed_out")
  /\ UNCHANGED <<slot, attempts, asked, results, closed, aborted, people, remote, decision, faults>>

\* The prompt fails; a failure that may be continued keeps the session, and
\* OpenCode may still be working in it.
PromptFails(m, keep) ==
  /\ at[m] = "prompting" /\ asked[m] = "no" /\ ~aborted
  /\ Ends(m, "failed")
  /\ IF keep THEN Goes(m, "returned") /\ kept' = kept \cup {Turn(m)}
             ELSE Goes(m, "stopping") /\ UNCHANGED kept
  /\ Fault
  /\ UNCHANGED <<slot, attempts, asked, results, closed, aborted, people, turns, decision>>

\* The race is lost to the ticket's signal or to a person; the ticket's
\* signal is looked at first.
Interrupted(m) ==
  /\ at[m] \in Underway /\ (aborted \/ asked[m] # "no")
  /\ Goes(m, "stopping")
  /\ Ends(m, IF aborted THEN "cancelled" ELSE "stopped")
  /\ UNCHANGED <<slot, attempts, asked, results, closed, aborted, people, remote, decision, faults>>

\* ensureSessionStopped: OpenCode confirms, or refuses twice.
Stopped(m) ==
  /\ at[m] = "stopping"
  /\ Goes(m, "returned")
  /\ turns' = turns \ TurnsOf(m) /\ kept' = kept \ TurnsOf(m)
  /\ UNCHANGED <<slot, attempts, asked, end, results, closed, aborted, people, decision, faults>>

\* Mutant: the outcome stands although the stop was not confirmed.
NotStoppedIgnored(m) ==
  /\ at[m] = "stopping"
  /\ Fault /\ Goes(m, "returned")
  /\ UNCHANGED <<slot, attempts, asked, end, results, closed, aborted, people, remote, decision>>

NotStopped(m) ==
  /\ at[m] = "stopping"
  /\ Fault /\ Goes(m, "returned") /\ Ends(m, "unconfirmed")
  /\ UNCHANGED <<slot, attempts, asked, results, closed, aborted, people, remote, decision>>

-----------------------------------------------------------------------------
(* The loop around the attempts.                                           *)

Running(s) == {m \in Members : s[m] = "running"}

\* Mutant: a voter that left on an error holds the round open.
CloseWhenSettled(park) ==
  LET closing == closed \/ \A m \in Members : slot'[m] = "settled"
  IN /\ closed' = closing
     /\ at' = [m \in Members |-> IF closing /\ park[m] = "parked" THEN "leaving" ELSE park[m]]

\* close and closeIfIdle: every parked voter returns its result.  `park` is
\* the loops' position before the round closes.
CloseIfIdle(park) ==
  LET closing == closed \/ Running(slot') = {}
  IN /\ closed' = closing
     /\ at' = [m \in Members |-> IF closing /\ park[m] = "parked" THEN "leaving" ELSE park[m]]

Answer(m, kind) ==
  /\ call' = [call EXCEPT ![m] = NoCall]
  /\ told' = [told EXCEPT ![m] =
       IF kind \in {"stopped", "restarted"} /\ call[m] # NoCall
       THEN [kind |-> kind, attempt |-> call[m].attempt] ELSE @]

\* slot.attempt = null: there is nothing left to interrupt.
Release(m) == Ends(m, None) /\ asked' = [asked EXCEPT ![m] = "no"]

\* Mutant: nobody tells the person who waits.
DieSilently(m, how) ==
  /\ slot' = [slot EXCEPT ![m] = "dead"]
  /\ outcomes' = IF how = "cancelled" THEN outcomes ELSE [outcomes EXCEPT ![m] = "failed"]
  /\ CloseIfIdle([at EXCEPT ![m] = "out"])
  /\ Release(m)
  /\ UNCHANGED <<attempts, votes, people>>

\* failMember: the voter has left the round, and whoever waits is told.
Die(m, how) ==
  /\ slot' = [slot EXCEPT ![m] = "dead"]
  /\ outcomes' = IF how = "cancelled" THEN outcomes ELSE [outcomes EXCEPT ![m] = "failed"]
  /\ CloseIfIdle([at EXCEPT ![m] = "out"])
  /\ Release(m) /\ Answer(m, "refused")
  /\ UNCHANGED <<attempts, votes>>

\* onRestart and beginAttempt.
Begin(m) ==
  /\ slot' = [slot EXCEPT ![m] = "running"]
  /\ attempts' = [attempts EXCEPT ![m] = @ + 1]
  /\ Goes(m, "opening") /\ Release(m)
  /\ outcomes' = [outcomes EXCEPT ![m] = "pending"]
  /\ votes' = {v \in votes : v[1] # m}
  /\ Answer(m, "restarted")
  /\ UNCHANGED closed

Counted(m) == IF end[m] = "completed" THEN {Turn(m)} ELSE {}

\* onSettled, then waitForRetryOrClose.
Settle(m) ==
  /\ slot' = [slot EXCEPT ![m] = "settled"]
  /\ outcomes' = [outcomes EXCEPT ![m] = end[m]]
  /\ votes' = votes \cup Counted(m)
  /\ IF closed THEN Goes(m, "out") /\ UNCHANGED closed
               ELSE CloseIfIdle([at EXCEPT ![m] = "parked"])
  /\ Release(m) /\ Answer(m, end[m])
  /\ UNCHANGED attempts

\* The loop wakes with the attempt's result.  Recording it may fail.
Wakes(m) ==
  /\ at[m] = "returned"
  /\ \/ end[m] \in Thrown /\ Die(m, end[m]) /\ NoFault
     \/ /\ end[m] \in Final
        /\ \/ NoFault /\ IF asked[m] = "retry" /\ ~closed THEN Begin(m) ELSE Settle(m)
           \/ Fault /\ Die(m, "unrecorded")
  /\ UNCHANGED <<aborted, remote, decision>>

\* A parked voter was restarted; only a canceled ticket closes the round
\* under it.
Resumes(m) ==
  /\ at[m] = "resumed"
  /\ IF closed
     THEN /\ slot' = [slot EXCEPT ![m] = "settled"]
          /\ Goes(m, "out") /\ Answer(m, "restarted") /\ NoFault
          /\ UNCHANGED <<attempts, asked, end, results, closed>>
     ELSE \/ NoFault /\ Begin(m)
          \/ Fault /\ Die(m, "unrecorded")
  /\ UNCHANGED <<aborted, remote, decision>>

\* The round closed: the voter's last result stands.
Leaves(m) ==
  /\ at[m] = "leaving" /\ Goes(m, "out")
  /\ UNCHANGED <<slot, attempts, asked, end, results, closed, aborted, people, remote, decision, faults>>

-----------------------------------------------------------------------------
(* The routes and the ticket.                                              *)

Call(m, kind) == call' = [call EXCEPT ![m] = [kind |-> kind, attempt |-> attempts[m]]]

Stop(m) ==
  /\ ~closed /\ slot[m] = "running"
  /\ at[m] \in Attempting /\ asked[m] = "no"
  /\ asked' = [asked EXCEPT ![m] = "stop"]
  /\ Call(m, "stop")
  /\ UNCHANGED <<slot, at, attempts, end, results, closed, aborted, told, remote, decision, faults>>

RetryWorking(m) ==
  /\ ~closed /\ slot[m] = "running" /\ attempts[m] < MaxAttempts
  /\ at[m] \in Attempting /\ asked[m] = "no"
  /\ asked' = [asked EXCEPT ![m] = "retry"]
  /\ Call(m, "retry")
  /\ UNCHANGED <<slot, at, attempts, end, results, closed, aborted, told, remote, decision, faults>>

\* Mutant: marked only when the loop wakes.
RetrySettledLate(m) ==
  /\ ~closed /\ slot[m] = "settled" /\ at[m] = "parked" /\ attempts[m] < MaxAttempts
  /\ Goes(m, "resumed") /\ Call(m, "retry")
  /\ UNCHANGED <<slot, attempts, asked, end, results, closed, aborted, told, remote, decision, faults>>

\* Marked running before its loop wakes, so that nothing closes the round.
RetrySettled(m) ==
  /\ ~closed /\ slot[m] = "settled" /\ at[m] = "parked" /\ attempts[m] < MaxAttempts
  /\ slot' = [slot EXCEPT ![m] = "running"]
  /\ Goes(m, "resumed") /\ Call(m, "retry")
  /\ UNCHANGED <<attempts, asked, end, results, closed, aborted, told, remote, decision, faults>>

\* The ticket is canceled: the round closes at once.
Abort ==
  /\ ~aborted /\ decided = "no"
  /\ aborted' = TRUE
  /\ closed' = TRUE
  /\ at' = [m \in Members |-> IF at[m] = "parked" THEN "leaving" ELSE at[m]]
  /\ UNCHANGED <<slot, attempts, asked, end, results, people, remote, decision, faults>>

-----------------------------------------------------------------------------
(* The step takes the results.                                             *)

Total(d) == FoldSet(LAMBDA v, sum : sum + Scores[v][d], 0, votes)

Rank(m) == CHOOSE i \in DOMAIN Council : Council[i] = m

\* Mutant: of equal drafts the one that was scored first wins.
BetterByScore(d, best) == best = None \/ Total(d) > Total(best)

\* selectWinner: the totals in the order in which the drafts were first
\* scored, which depends on the order the ballots arrived in.
Better(d, best) ==
  \/ best = None
  \/ Total(d) > Total(best)
  \/ /\ Total(d) = Total(best)
     /\ d = Council[1] \/ (best # Council[1] /\ Rank(d) < Rank(best))

SelectWinner(scanned) ==
  FoldLeft(LAMBDA best, d : IF Better(d, best) THEN d ELSE best, None, scanned)

Completed == {m \in Members : outcomes[m] = "completed"}

Decide ==
  /\ decided = "no" /\ \A m \in Members : at[m] = "out"
  /\ IF aborted THEN decided' = "cancelled" /\ UNCHANGED winner
     ELSE IF \E m \in Members : slot[m] = "dead" THEN decided' = "failed" /\ UNCHANGED winner
     ELSE /\ decided' = "counted"
          /\ IF Cardinality(Completed) < MinQuorum THEN UNCHANGED winner
             ELSE \E scanned \in SetToSeqs(Drafts) : winner' = SelectWinner(scanned)
  /\ closed' = TRUE
  /\ UNCHANGED <<loop, results, aborted, people, remote, faults>>

-----------------------------------------------------------------------------
Init ==
  /\ slot = [m \in Members |-> "running"]
  /\ at = [m \in Members |-> "opening"]
  /\ attempts = [m \in Members |-> 1]
  /\ asked = [m \in Members |-> "no"]
  /\ end = [m \in Members |-> None]
  /\ outcomes = [m \in Members |-> "pending"]
  /\ votes = {} /\ turns = {} /\ kept = {}
  /\ closed = FALSE /\ aborted = FALSE
  /\ call = [m \in Members |-> NoCall] /\ told = [m \in Members |-> NoCall]
  /\ decided = "no" /\ winner = None /\ faults = 0

AttemptOf(m) ==
  \/ Opened(m) \/ OpenFails(m)
  \/ \E how \in {"completed", "invalid_output"} : Answers(m, how)
  \/ Deadline(m)
  \/ \E keep \in BOOLEAN : PromptFails(m, keep)
  \/ Interrupted(m) \/ Stopped(m) \/ NotStopped(m)

LoopOf(m) == Wakes(m) \/ Resumes(m) \/ Leaves(m)

RoutesOf(m) == Stop(m) \/ RetryWorking(m) \/ RetrySettled(m)

Next ==
  \/ \E m \in Members : AttemptOf(m) \/ LoopOf(m) \/ RoutesOf(m)
  \/ Abort \/ Decide

Spec == Init /\ [][Next]_vars

\* Timers fire, awaited code goes on.  Nobody has to press a button, and a
\* model need not answer.
Fairness ==
  /\ \A m \in Members :
       /\ WF_vars(Deadline(m)) /\ WF_vars(Interrupted(m))
       /\ WF_vars(Stopped(m) \/ NotStopped(m)) /\ WF_vars(LoopOf(m))
  /\ WF_vars(Decide)

FairSpec == Spec /\ Fairness

-----------------------------------------------------------------------------
TypeOK ==
  /\ slot \in [Members -> {"running", "settled", "dead"}]
  /\ at \in [Members -> Attempting \cup {"parked", "resumed", "leaving", "out"}]
  /\ attempts \in [Members -> Attempts]
  /\ asked \in [Members -> {"no", "stop", "retry"}]
  /\ end \in [Members -> Final \cup Thrown \cup {None}]
  /\ outcomes \in [Members -> Final \cup {"pending"}]
  /\ votes \subseteq Members \X Attempts
  /\ closed \in BOOLEAN /\ aborted \in BOOLEAN
  /\ call \in [Members -> [kind : {"none", "stop", "retry"}, attempt : {0} \cup Attempts]]
  /\ told \in [Members -> [kind : {"none", "stopped", "restarted"}, attempt : {0} \cup Attempts]]
  /\ turns \subseteq Members \X Attempts /\ kept \subseteq turns
  /\ decided \in {"no", "counted", "failed", "cancelled"}
  /\ faults \in 0..MaxFaults

\* A voter never works in two sessions, however it is stopped and restarted
\* (the restart waits for the confirmed stop of what it replaces).
OneTurn == \A m \in Members : Cardinality(TurnsOf(m)) <= 1

\* A ballot is counted once, from the voter's present attempt, and not while
\* that attempt still runs: whatever a replaced attempt said is gone.
BallotsAreCurrent ==
  \A v \in votes : v[2] = attempts[v[1]] /\ at[v[1]] \notin Attempting

\* When the results are counted, no voter works any more, except in a
\* session that was preserved for a continuation.
CountedInSilence == decided = "counted" => turns \subseteq kept

\* Who is told that a voter was stopped does not find its ballot counted,
\* unless the voter was restarted since.
StopIsTrue ==
  \A m \in Members :
    (told[m].kind = "stopped" /\ told[m].attempt = attempts[m]) => <<m, attempts[m]>> \notin votes

\* Who is told that a voter was restarted finds a new attempt, or the ticket
\* canceled.
RestartIsTrue ==
  \A m \in Members :
    told[m].kind = "restarted" => attempts[m] > told[m].attempt \/ aborted

\* The winner does not depend on the order in which the ballots arrived: no
\* draft beats it, and of equal ones it is the main implementer's, else the
\* first in council order.
WinnerStands ==
  winner # None =>
    /\ decided = "counted" /\ winner \in Drafts
    /\ Cardinality(Completed) >= MinQuorum
    /\ \A d \in Drafts \ {winner} :
         \/ Total(winner) > Total(d)
         \/ Total(winner) = Total(d) /\ Rank(winner) < Rank(d)

\* The count is sound: current ballots of voters at rest, and what a person is
\* told about a voter is what the results say of it.
CountIsSound ==
  TypeOK /\ OneTurn /\ BallotsAreCurrent /\ CountedInSilence /\ StopIsTrue /\ RestartIsTrue

\* What the contract sees of a voter.
RoundMember ==
  [m \in Members |-> CASE slot[m] = "running" -> "working"
                      [] slot[m] = "settled" -> "settled"
                      [] OTHER -> "lost"]

Round == INSTANCE CouncilContract WITH member <- RoundMember

\* The closed flag, the resume callbacks and the early mark of a restart
\* implement the round's contract.
KeepsRound == Round!Spec

\* Nobody waits for ever: the round ends, and a person who stops or restarts a
\* voter is answered.
RoundEnds ==
  /\ <>(decided # "no")
  /\ \A m \in Members : call[m] # NoCall ~> call[m] = NoCall
=============================================================================
