----------------------------- MODULE DaemonLock -----------------------------
(***************************************************************************)
(* The lock file that keeps a second daemon from the same databases and    *)
(* worktrees, file operation by file operation: the exclusive create and   *)
(* the rename that fills it, the claim that serialises the conversion of   *)
(* one generation of the file, the conversion, `stop` removing a lock, the *)
(* release.  A process may be killed between any two.  A heartbeat only    *)
(* renews the date in a record that is the process's own and is left out.  *)
(*                                                                         *)
(* A starter runs acquireDaemonLock and is the nonce of its own record; a  *)
(* stopper runs releaseStaleLock or clearLockOwnedBy.  All are on one host *)
(* whose start tokens can be read, so age judges only files that name no   *)
(* one.  Staging files have unique names and are not modelled.             *)
(*                                                                         *)
(* A start makes Attempts passes, reads the lock once more and gives up.   *)
(* Passes are not paced, but for the wait on a file that names no one, so  *)
(* a grace period may be longer than all of them.  MaxFaults bounds the    *)
(* failing writes, and the stalls that outlast a grace period.             *)
(***************************************************************************)
EXTENDS Naturals, FiniteSets

CONSTANTS
  Starters,    \* processes that start the daemon, again after a refusal
  Stoppers,    \* processes that clear a stale lock
  None,        \* no claim
  Attempts,    \* ACQUIRE_ATTEMPTS, eight in the code
  MaxFaults    \* bound on the failing writes and the stalls

Unparseable == "unparseable lock"
Unowned == {"absent", "young", "old"}

ASSUME ProcessesAssumption ==
  /\ Starters \cap Stoppers = {}
  /\ Starters \cap (Unowned \cup {Unparseable}) = {}
  /\ None \notin [by : Starters \cup Stoppers, record : {"empty", "old", "written"}]
  /\ Attempts \in Nat \ {0}
  /\ MaxFaults \in Nat

VARIABLES
  lock,      \* the lock file: who it names, or absent, or empty and how old
  claims,    \* the claim file of each generation of the lock
  pc,        \* where each process is
  gen,       \* the generation it converts or removes
  won,       \* it replaced or removed the lock
  passes,    \* passes the present start has used up
  lapse,     \* ghost: the first window that was hit (see README)
  faults

files == <<lock, claims>>
vars == <<files, pc, gen, won, passes, lapse, faults>>

Procs == Starters \cup Stoppers
Generations == Starters \cup {Unparseable}
Goto(p, l) == pc' = [pc EXCEPT ![p] = l]

\* isProcessAlive and matchProcess: the process still runs.
Alive(p) == pc[p] \notin {"dead", "over"}

\* A start or a stop is over, or the start holds the lock.
Ends(p, l) == Goto(p, l) /\ passes' = [passes EXCEPT ![p] = 0]

\* A pass that came to nothing: a start has one less, and looks for the last
\* time when none is left; a stop reports.
Rest(p) ==
  IF p \in Starters
  THEN /\ Goto(p, IF passes[p] + 1 < Attempts THEN "start" ELSE "last")
       /\ passes' = [passes EXCEPT ![p] = @ + 1]
  ELSE Ends(p, "idle")

\* A claim was given up: by the start that won, or at the end of a pass.
Over(p) == IF won[p] /\ p \in Starters THEN Ends(p, "holding") ELSE Rest(p)

\* The first window that is hit names the lapse.
Lapses(window, hit) ==
  lapse' = IF hit /\ lapse = "none" THEN window ELSE lapse

\* A daemon is started, or `stop` is run.
Begin(p) ==
  /\ pc[p] = "idle"
  /\ Goto(p, IF p \in Starters THEN "start" ELSE "look")
  /\ won' = [won EXCEPT ![p] = FALSE]
  /\ UNCHANGED <<files, gen, passes, lapse, faults>>

\* The exclusive create decides the winner.
Reserve(p) ==
  /\ pc[p] = "start"
  /\ \/ lock = "absent" /\ lock' = "young" /\ Goto(p, "reserved")
     \/ lock # "absent" /\ lock' = lock /\ Goto(p, "look")
  /\ UNCHANGED <<claims, gen, won, passes, lapse, faults>>

\* The staged record is renamed over whatever the path now holds.
Fill(p) ==
  /\ pc[p] = "reserved"
  /\ lock' = p
  /\ Ends(p, "holding")
  /\ UNCHANGED <<claims, gen, won, lapse, faults>>

\* The record cannot be written: the reservation is taken out again.
FillFails(p) ==
  /\ pc[p] = "reserved"
  /\ faults < MaxFaults /\ faults' = faults + 1
  /\ lock' = "absent"
  /\ Ends(p, "over")
  /\ UNCHANGED <<claims, gen, won, lapse>>

\* The generation a judged lock is converted as.
Generation == IF lock = "old" THEN Unparseable ELSE lock

\* The record is read and judged: a live owner ends the start or the stop, an
\* absent or young one is left to the next pass, and a dead owner's or old
\* debris is to be converted.
Look(p) ==
  /\ pc[p] = "look"
  /\ \/ /\ lock \in Starters /\ Alive(lock)
        /\ Ends(p, "idle") /\ gen' = gen
     \/ /\ lock \in {"absent", "young"}
        /\ Rest(p) /\ gen' = gen
     \/ /\ lock = "old" \/ (lock \in Starters /\ ~Alive(lock))
        /\ Goto(p, "claim") /\ gen' = [gen EXCEPT ![p] = Generation]
        /\ passes' = passes
  /\ UNCHANGED <<files, won, lapse, faults>>

\* The passes are used up.  The lock is read again: an owner is named in the
\* refusal, whether it runs or not, and without one the start just fails.
Last(p) ==
  /\ pc[p] = "last"
  /\ Ends(p, "idle")
  /\ UNCHANGED <<files, gen, won, lapse, faults>>

-----------------------------------------------------------------------------
(* The claim on one generation.                                            *)

Mine(p) == claims[gen[p]] = [by |-> p, record |-> "written"]

TakeClaim(p) ==
  /\ pc[p] = "claim"
  /\ \/ /\ claims[gen[p]] = None
        /\ claims' = [claims EXCEPT ![gen[p]] = [by |-> p, record |-> "empty"]]
        /\ Goto(p, "mark")
     \/ /\ claims[gen[p]] # None
        /\ Goto(p, "judge") /\ claims' = claims
  /\ UNCHANGED <<lock, gen, won, passes, lapse, faults>>

\* The record goes to the file the process created, on the path or not.
Mark(p) ==
  /\ pc[p] = "mark"
  /\ claims' =
       [claims EXCEPT ![gen[p]] =
          IF @ # None /\ @.by = p THEN [@ EXCEPT !.record = "written"] ELSE @]
  /\ Goto(p, "check")
  /\ UNCHANGED <<lock, gen, won, passes, lapse, faults>>

\* Mutant: a claim that names no one is never given up.
AbandonedLegible(c) == c # None /\ c.record = "written" /\ ~Alive(c.by)

Abandoned(c) ==
  /\ c # None
  /\ \/ c.record = "written" /\ ~Alive(c.by)
     \/ c.record = "old"

\* The claim exists: whether its holder is gone is judged first, and the file
\* that is on the path when that is known is removed.
Judge(p) ==
  /\ pc[p] = "judge"
  /\ IF Abandoned(claims[gen[p]])
     THEN Goto(p, "discard") /\ passes' = passes
     ELSE Rest(p)
  /\ UNCHANGED <<files, gen, won, lapse, faults>>

\* discardClaim, for an abandoned claim and for one's own.
Discard(p) ==
  /\ pc[p] = "discard"
  /\ claims' = [claims EXCEPT ![gen[p]] = None]
  /\ Over(p)
  /\ Lapses("claim lost",
       LET c == claims[gen[p]] IN c # None /\ c.by # p /\ Alive(c.by))
  /\ UNCHANGED <<lock, gen, won, faults>>

\* Only a claim that is still its own is removed.
Release(p) ==
  /\ pc[p] = "release"
  /\ IF Mine(p) THEN Goto(p, "discard") /\ passes' = passes ELSE Over(p)
  /\ UNCHANGED <<files, gen, won, lapse, faults>>

-----------------------------------------------------------------------------
(* The conversion under the claim.                                         *)

\* Mutant: the generation is not looked at again under the claim.
UnchangedGeneration(g) == TRUE

\* The record read again names the same owner, or still no one.
Unchanged(g) == IF g = Unparseable THEN lock \in Unowned ELSE lock = g

Check(p) ==
  /\ pc[p] = "check"
  /\ Goto(p, IF Unchanged(gen[p]) THEN "hold" ELSE "release")
  /\ UNCHANGED <<files, gen, won, passes, lapse, faults>>

\* The new record is staged; then the claim must still be held.
Hold(p) ==
  /\ pc[p] = "hold"
  /\ \/ Goto(p, IF Mine(p) THEN "swap" ELSE "release") /\ faults' = faults
     \/ /\ faults < MaxFaults /\ faults' = faults + 1
        /\ Goto(p, "release")
  /\ UNCHANGED <<files, gen, won, passes, lapse>>

\* A starter's record replaces the file, a stopper removes it.
Swap(p) ==
  /\ pc[p] = "swap"
  /\ lock' = IF p \in Starters THEN p ELSE "absent"
  /\ won' = [won EXCEPT ![p] = TRUE]
  /\ Goto(p, "release")
  /\ Lapses("debris replaced",
       gen[p] = Unparseable /\ lock \notin {"old", "absent"})
  /\ UNCHANGED <<claims, gen, passes, faults>>

-----------------------------------------------------------------------------
(* The daemon, and what happens to any process.                            *)

\* release() reads the record and then removes the file.
Quit(p) ==
  /\ pc[p] = "holding"
  /\ Goto(p, IF lock = p THEN "quitting" ELSE "over")
  /\ UNCHANGED <<files, gen, won, passes, lapse, faults>>

Remove(p) ==
  /\ pc[p] = "quitting"
  /\ lock' = "absent"
  /\ Goto(p, "over")
  /\ UNCHANGED <<claims, gen, won, passes, lapse, faults>>

Crash(p) ==
  /\ Alive(p) /\ pc[p] # "idle"
  /\ Ends(p, "dead")
  /\ UNCHANGED <<files, gen, won, lapse, faults>>

\* The grace passes; a writer that is not through by then is stalled.
Stalls(writing) ==
  /\ Lapses("stalled", writing)
  /\ writing => faults < MaxFaults
  /\ faults' = IF writing THEN faults + 1 ELSE faults

\* UNPARSEABLE_GRACE_MS pass; the process that reserved the file may still be
\* about to fill it.
LockAges ==
  /\ lock = "young"
  /\ lock' = "old"
  /\ Stalls(\E q \in Starters : pc[q] = "reserved")
  /\ UNCHANGED <<claims, pc, gen, won, passes>>

\* CLAIM_TTL_MS pass for a claim whose record is not written.
ClaimAges(g) ==
  /\ claims[g] # None /\ claims[g].record = "empty"
  /\ claims' = [claims EXCEPT ![g].record = "old"]
  /\ Stalls(Alive(claims[g].by))
  /\ UNCHANGED <<lock, pc, gen, won, passes>>

-----------------------------------------------------------------------------
Init ==
  /\ lock = "absent"
  /\ claims = [g \in Generations |-> None]
  /\ pc = [p \in Procs |-> "idle"]
  /\ gen = [p \in Procs |-> Unparseable]
  /\ won = [p \in Procs |-> FALSE]
  /\ passes = [p \in Procs |-> 0]
  /\ lapse = "none"
  /\ faults = 0

\* What a process does once it runs.
Step(p) ==
  \/ Reserve(p) \/ Fill(p) \/ Look(p) \/ Last(p)
  \/ TakeClaim(p) \/ Mark(p) \/ Judge(p) \/ Discard(p) \/ Release(p)
  \/ Check(p) \/ Hold(p) \/ Swap(p)

Time == LockAges \/ \E g \in Generations : ClaimAges(g)

Next ==
  \/ \E p \in Procs :
       Begin(p) \/ Step(p) \/ FillFails(p)
         \/ Quit(p) \/ Remove(p) \/ Crash(p)
  \/ Time

Spec == Init /\ [][Next]_vars

\* A process that is not killed goes on, and time passes.
FairSpec ==
  /\ Spec
  /\ \A p \in Procs : WF_vars(Step(p))
  /\ WF_vars(LockAges)
  /\ \A g \in Generations : WF_vars(ClaimAges(g))

-----------------------------------------------------------------------------
Labels ==
  {"idle", "start", "reserved", "look", "last", "claim", "mark", "judge", "discard",
   "check", "hold", "swap", "release", "holding", "quitting",
   "over", "dead"}

\* Every variable keeps its type.
TypeOK ==
  /\ lock \in Starters \cup Unowned
  /\ claims \in [Generations ->
       [by : Procs, record : {"empty", "old", "written"}] \cup {None}]
  /\ pc \in [Procs -> Labels]
  /\ gen \in [Procs -> Generations]
  /\ won \in [Procs -> BOOLEAN]
  /\ passes \in [Procs -> Nat]
  /\ lapse \in {"none", "stalled", "claim lost", "debris replaced"}
  /\ faults \in 0 .. MaxFaults

\* p has been told that it is the daemon, or is about to be.
Holds(p) ==
  \/ pc[p] \in {"holding", "quitting"}
  \/ p \in Starters /\ won[p] /\ pc[p] \in {"release", "discard"}

\* p is between taking the claim on g and giving it up.
Converting(p, g) ==
  /\ gen[p] = g
  /\ \/ pc[p] \in {"mark", "check", "hold", "swap", "release"}
     \/ pc[p] = "discard" /\ claims[g] # None /\ claims[g].by = p

\* Outside the three windows the lock file names every process that holds it,
\* so there is one, and nobody touches a reservation that is being filled.
LockStands ==
  lapse = "none" =>
    \A p \in Starters :
      /\ Holds(p) => lock = p
      /\ pc[p] = "reserved" => lock = "young"

\* Outside the windows a generation is converted by one process at a time.
OneConverter ==
  lapse = "none" =>
    \A g \in Generations : \A p, q \in Procs :
      Converting(p, g) /\ Converting(q, g) => p = q

\* A process that runs on leaves no claim behind: nobody could clear it, as a
\* live holder's claim is never judged abandoned.
ClaimsDoNotOutlive ==
  \A g \in Generations :
    claims[g] # None /\ Alive(claims[g].by) => Converting(claims[g].by, g)

\* The lock file and the claims on it say who owns what.
LockIsSafe == TypeOK /\ LockStands /\ OneConverter /\ ClaimsDoNotOutlive

\* Every start ends, and whatever killed processes left behind, starts do not
\* use up their passes for ever: who keeps starting the daemon comes to hold the
\* lock, or is refused because a live daemon holds it.
StartSettles ==
  \A p \in Starters :
    /\ pc[p] = "start" ~> pc[p] \in {"idle", "holding", "over", "dead"}
    /\ <>[](pc[p] # "last")

\* acquireDaemonLock throws DaemonLockedError, which names the owner it read.
Refused(p) ==
  /\ pc[p] \in {"look", "last"} /\ pc'[p] = "idle"
  /\ lock \in Starters

\* "throws DaemonLockedError when another live daemon holds it": a start is not
\* refused in favour of an owner whom it has itself found dead.
RefusedForLiveOwner ==
  [][\A p \in Starters : Refused(p) => lock # gen[p]]_vars

\* "Takes the single-instance daemon lock, or throws DaemonLockedError when
\* another live daemon holds it": two processes never both hold it.  No process
\* need be stalled past a grace period for two to.
OneDaemon ==
  lapse # "stalled" => \A p, q \in Starters : Holds(p) /\ Holds(q) => p = q
=============================================================================
