-------------------------- MODULE MergeCompletion --------------------------
(***************************************************************************)
(* One ticket that waits for the review of its pull request: the user's    *)
(* Merge, Close without merge and Cancel, the daemon's poller, and GitHub, *)
(* where other people act on the same pull request.                        *)
(*                                                                         *)
(* Merge, Close and the poller read GitHub outside the ticket's lock and   *)
(* decide under it.  A decision is a merge report written before the       *)
(* workflow event is sent, so that a later pass can send the event again.  *)
(* A step that writes and then dispatches without waiting is one action:   *)
(* a failure half way leaves what was written, and a crash there leaves    *)
(* the same rows as the failure followed by a crash.                       *)
(*                                                                         *)
(* The verdict of git on a merged pull request with another head           *)
(* (reconcileEarlyMergedPullRequest) is any of its outcomes.  Limits bounds *)
(* what people do on GitHub and in the worktree, the requests, the failures *)
(* and the crashes.                                                        *)
(***************************************************************************)
EXTENDS Naturals, Sequences, FiniteSets, SequencesExt

CONSTANTS
  Poller,                   \* the daemon's poller
  Merges, Closes, Cancels,  \* the requests of the user
  MaxPulls,                 \* bound: pull requests of the ticket
  Limits                    \* bound: moves, requests, faults, crashes

Requests == Merges \cup Closes \cup Cancels
Actors == {Poller} \cup Requests

ASSUME MergeAssumption ==
  /\ Poller \notin Requests
  /\ Merges \cap Closes = {} /\ Merges \cap Cancels = {} /\ Closes \cap Cancels = {}
  /\ MaxPulls \in Nat \ {0}
  /\ Limits \in [{"moves", "requests", "faults", "crashes"} -> Nat]

VARIABLES
  status,    \* the ticket's status
  github,    \* the pull requests on GitHub: state, whose head, into which base
  clean,     \* the ticket's worktree has no uncommitted changes
  report,    \* the ticket's pull request report
  decision,  \* the latest merge report of the review's attempt
  marked,    \* the cancellation marker
  task,      \* what each actor is doing, and what it saw on GitHub
  queue,     \* the ticket's merge lock: its holder and those who wait
  spent      \* how much of each limit is used

vars == <<status, github, clean, report, decision, marked, task, queue, spent>>

Waiting == "WAITING_PR_REVIEW"
Open == {Waiting, "RUNNING_FINAL_TEST", "BLOCKED_ERROR"}
Pulls == 1 .. MaxPulls
PullStates == {"draft", "open", "closed", "merged"}
Heads == {"candidate", "other"}
Bases == {"own", "other"}
NoDecision == [kind |-> "none", pr |-> 0, state |-> "none", proof |-> "none"]

\* What an actor knows of a pull request; before the answer, only its number.
Asking(p) == [pr |-> p, state |-> "unread", head |-> "unread", base |-> "unread"]
Seen(hub, p) ==
  [pr |-> p, state |-> hub[p].state, head |-> hub[p].head, base |-> hub[p].base]
Idle == [pc |-> "idle", seen |-> Asking(0)]

Spend(k) == spent[k] < Limits[k] /\ spent' = [spent EXCEPT ![k] = @ + 1]
Fault == Spend("faults")

-----------------------------------------------------------------------------
(* withTicketMergeLock: first come, first served.                          *)

Holds(a) == queue # << >> /\ Head(queue) = a
At(a, pc) == task[a].pc = pc
Goto(a, pc, o) == task' = [task EXCEPT ![a] = [pc |-> pc, seen |-> o]]

Request(a, pc, o) == Goto(a, pc, o) /\ queue' = Append(queue, a)
On(a, pc, o) == Goto(a, pc, o) /\ queue' = queue
Leave(a) == task' = [task EXCEPT ![a] = Idle] /\ queue' = Tail(queue)

\* readVerifiedMergeReport, readClosedUnmergedReport: a decision counts for the
\* pull request of the ticket's report.
Decided(k) == decision.kind = k /\ decision.pr = report.pr
Undecided == ~Decided("merged") /\ ~Decided("closed")

-----------------------------------------------------------------------------
(* Requests, before the lock.                                              *)

\* handleMergeTicket, handleCloseUnmergedTicket, handleCancelTicket.
Ask(r) ==
  /\ At(r, "idle")
  /\ Spend("requests")
  /\ \/ /\ r \in Merges /\ status = Waiting /\ ~Decided("closed")
        /\ On(r, "reading", Asking(report.pr))
     \/ /\ r \in Closes /\ status = Waiting /\ Undecided
        /\ On(r, "reading", Asking(report.pr))
     \/ r \in Cancels /\ Request(r, "waiting", Asking(0))
  /\ UNCHANGED <<status, github, clean, report, decision, marked>>

\* syncWaitingPullRequestTicket: the poller comes round.
Poll ==
  /\ At(Poller, "idle") /\ status = Waiting
  /\ Request(Poller, "looking", Asking(0))
  /\ UNCHANGED <<status, github, clean, report, decision, marked, spent>>

\* refreshPullRequestState, outside the lock.  When it fails nothing is decided.
Read(a) ==
  /\ At(a, "reading")
  /\ \/ UNCHANGED spent /\ Request(a, "waiting", Seen(github, task[a].seen.pr))
     \/ Fault /\ task' = [task EXCEPT ![a] = Idle] /\ queue' = queue
  /\ UNCHANGED <<status, github, report, decision, marked>>

-----------------------------------------------------------------------------
(* Under the lock.                                                         *)

\* The rest of a locked section that has written what it had to: the report is
\* refreshed to `rep' and the event that leads to `target' is sent.
Dispatch(a, rep, target) ==
  /\ Leave(a)
  /\ \/ /\ report' = rep /\ UNCHANGED spent
        /\ status' = IF status = Waiting THEN target ELSE status
     \/ Fault /\ report' \in {report, rep} /\ UNCHANGED status
  /\ UNCHANGED <<github, marked>>

\* What the checkpoint says of the pull request.
DecidedReport == [report EXCEPT !.state = decision.state]

\* Merge resumes a verified merge, the poller also a recorded close.
Resumable(a) == Decided("merged") \/ (a = Poller /\ Decided("closed"))

\* resumeVerifiedMerge, resumeClosedUnmerged: the event is sent again.
Resume(a) ==
  /\ Resumable(a)
  /\ Dispatch(a, DecidedReport, "CLEANING_ENV")
  /\ UNCHANGED decision

\* syncWaitingPullRequestTicket, first section.
Look ==
  /\ At(Poller, "looking") /\ Holds(Poller)
  /\ \/ /\ status # Waiting /\ Leave(Poller)
        /\ UNCHANGED <<status, github, report, decision, marked, spent>>
     \/ status = Waiting /\ Resume(Poller)
     \/ /\ status = Waiting /\ Undecided
        /\ Goto(Poller, "reading", Asking(report.pr)) /\ queue' = Tail(queue)
        /\ UNCHANGED <<status, github, report, decision, marked, spent>>

\* The base branch (and the head branch) are the ticket's.
OwnBranches(o) == o.base = "own"

\* Mutant: only the commit is compared.
SameCommit(o) == o.head = "candidate"

\* assertPullRequestMatchesExpected: the branches and the approved candidate.
Approved(o) == OwnBranches(o) /\ o.head = "candidate"

\* A merge that went in with another head is reconciled.
MergedEarly(o) == o.state = "merged" /\ o.head # "candidate"

\* completeTicketMerge, as far as its first wait.  What is not approved, and a
\* worktree that is not clean, is an error, which the ticket survives.
Complete(a, o) ==
  /\ report' = [report EXCEPT !.state = o.state]
  /\ \/ MergedEarly(o) /\ On(a, "reconciling", o) /\ UNCHANGED spent
     \/ ~MergedEarly(o) /\ ~(Approved(o) /\ clean) /\ Leave(a) /\ UNCHANGED spent
     \/ Approved(o) /\ clean /\ Leave(a) /\ Fault
     \/ /\ Approved(o) /\ clean /\ UNCHANGED spent
        /\ On(a, CASE o.state = "merged" -> "verifying"
                   [] o.state = "draft" -> "readying"
                   [] OTHER -> "merging", o)
  /\ UNCHANGED <<status, github, decision, marked>>

Refuse(a) ==
  /\ Leave(a)
  /\ UNCHANGED <<status, github, report, decision, marked, spent>>

\* Mutant: the number of the pull request is not compared again.
SameWhatever(o) == TRUE

\* The pull request that was read is still the ticket's.
Same(o) == o.pr = report.pr

\* Mutant: a merge that the report shows already is no news.
IsNews(o) == o.state = "merged" /\ report.state # "merged"

\* The poller completes every merge it sees, whatever the report says.
IsMerged(o) == o.state = "merged"

\* syncWaitingPullRequestTicket, second section.
PollerSettles ==
  LET o == task[Poller].seen IN
  /\ At(Poller, "waiting") /\ Holds(Poller)
  /\ \/ (status # Waiting \/ (Undecided /\ ~Same(o))) /\ Refuse(Poller)
     \/ status = Waiting /\ Resume(Poller)
     \/ /\ status = Waiting /\ Undecided /\ Same(o) /\ ~IsMerged(o)
        /\ report' = [report EXCEPT !.state = o.state] /\ Leave(Poller)
        /\ UNCHANGED <<status, github, decision, marked, spent>>
     \/ status = Waiting /\ Undecided /\ Same(o) /\ IsMerged(o) /\ Complete(Poller, o)

\* handleMergeTicketLocked.
MergeSettles(r) ==
  LET o == task[r].seen IN
  /\ r \in Merges /\ At(r, "waiting") /\ Holds(r)
  /\ \/ (status # Waiting \/ Decided("closed") \/ ~Same(o)) /\ Refuse(r)
     \/ status = Waiting /\ Same(o) /\ Resume(r)
     \/ status = Waiting /\ Undecided /\ Same(o) /\ Complete(r, o)

\* markPullRequestReady, and the look after it.
MarkReady(r) ==
  LET p == task[r].seen.pr
      ready == [github EXCEPT ![p].state = "open"] IN
  /\ At(r, "readying")
  /\ \/ /\ github[p].state \in {"draft", "open"} /\ github' = ready /\ UNCHANGED spent
        /\ report' = [report EXCEPT !.state = "open"]
        /\ IF Approved(Seen(ready, p)) THEN On(r, "merging", Seen(ready, p)) ELSE Leave(r)
     \/ /\ github[p].state \notin {"draft", "open"} /\ Leave(r)
        /\ UNCHANGED <<github, report, spent>>
     \/ /\ Fault /\ Leave(r) /\ UNCHANGED report
        /\ github' \in {github} \cup IF github[p].state = "draft" THEN {ready} ELSE {}
  /\ UNCHANGED <<status, decision, marked>>

\* GitHub merges an open pull request whose head is the one asked for, into
\* whichever base it has by now.
Accepts(p) == github[p].state = "open" /\ github[p].head = "candidate"

\* Mutant: a merge that GitHub refuses is tried again and again.
RefusedTriesAgain(r) == UNCHANGED <<task, queue>>

\* What GitHub refuses ends the request.
Refused(r) == Leave(r)

\* mergePullRequest, and the look after it.
MergeRemotely(r) ==
  LET p == task[r].seen.pr
      merged == [github EXCEPT ![p].state = "merged"] IN
  /\ At(r, "merging")
  /\ \/ /\ Accepts(p) /\ github' = merged /\ UNCHANGED spent
        /\ report' = [report EXCEPT !.state = "merged"]
        /\ IF Approved(Seen(merged, p)) THEN On(r, "verifying", Seen(merged, p)) ELSE Leave(r)
     \/ ~Accepts(p) /\ Refused(r) /\ UNCHANGED <<github, report, spent>>
     \/ /\ Fault /\ Leave(r) /\ UNCHANGED report
        /\ github' \in {github} \cup IF Accepts(p) THEN {merged} ELSE {}
  /\ UNCHANGED <<status, decision, marked>>

Merged(o, proof) == [kind |-> "merged", pr |-> o.pr, state |-> "merged", proof |-> proof]

\* verifyRemoteBaseContainsCommit, then the checkpoint and the event.
Verify(a) ==
  LET o == task[a].seen IN
  /\ At(a, "verifying")
  /\ \/ /\ decision' = Merged(o, "head")
        /\ Dispatch(a, [report EXCEPT !.state = "merged"], "CLEANING_ENV")
     \/ /\ Fault /\ Leave(a)
        /\ UNCHANGED <<status, github, report, decision, marked>>

\* reconcileEarlyMergedPullRequest: the candidate is there already, or what is
\* missing (or a newer candidate) goes through the final tests again, or the
\* ticket is blocked for a recovery by hand, as it is for other branches.
Reconcile(a) ==
  LET o == task[a].seen IN
  /\ At(a, "reconciling")
  /\ \/ /\ OwnBranches(o)
        /\ decision' = Merged(o, "git")
        /\ Dispatch(a, [report EXCEPT !.state = "merged"], "CLEANING_ENV")
     \/ /\ decision' = decision
        /\ \/ OwnBranches(o) /\ Dispatch(a, report, "RUNNING_FINAL_TEST")
           \/ Dispatch(a, report, "BLOCKED_ERROR")
     \/ /\ Fault /\ Leave(a)
        /\ UNCHANGED <<status, github, report, decision, marked>>

MayClose(o) == status = Waiting /\ Undecided /\ Same(o)

\* handleCloseUnmergedTicketLocked.
CloseSettles(r) ==
  LET o == task[r].seen IN
  /\ r \in Closes /\ At(r, "waiting") /\ Holds(r)
  /\ \/ ~MayClose(o) /\ Refuse(r)
     \/ /\ MayClose(o) /\ o.state = "merged"
        /\ report' = [report EXCEPT !.state = "merged"] /\ Leave(r)
        /\ UNCHANGED <<status, github, decision, marked, spent>>
     \/ MayClose(o) /\ o.state # "merged" /\ ~OwnBranches(o) /\ Refuse(r)
     \/ /\ MayClose(o) /\ o.state # "merged" /\ OwnBranches(o)
        /\ decision' = [kind |-> "closed", pr |-> o.pr, state |-> o.state, proof |-> "none"]
        /\ Dispatch(r, report, "CLEANING_ENV")

\* Mutant: Cancel does not ask whether the completion has started.
MayCancelAnyway == status \in Open

MayCancel == status \in Open /\ (status = Waiting => Undecided)

\* handleCancelTicketLocked, as far as its first wait.
CancelSettles(r) ==
  /\ r \in Cancels /\ At(r, "waiting") /\ Holds(r)
  /\ \/ ~MayCancel /\ Refuse(r)
     \/ /\ MayCancel /\ marked' = TRUE /\ On(r, "stopping", Asking(0))
        /\ UNCHANGED <<status, github, report, decision, spent>>

Canceled == IF status \in Open THEN "CANCELED" ELSE status

\* The stop is confirmed and CANCEL sent, or the marker stays for the redrive.
CancelStops(r) ==
  /\ At(r, "stopping") /\ Leave(r)
  /\ \/ status' = Canceled /\ marked' = FALSE /\ UNCHANGED spent
     \/ Fault /\ UNCHANGED <<status, marked>>
  /\ UNCHANGED <<github, report, decision>>

-----------------------------------------------------------------------------
(* Outside the lock.                                                       *)

\* attemptCancellationCleanup: CANCEL after a stop that was not confirmed.
Redrive ==
  /\ marked /\ status \in Open
  /\ \A r \in Cancels : ~At(r, "stopping")
  /\ status' = Canceled /\ marked' = FALSE
  /\ UNCHANGED <<github, clean, report, decision, task, queue, spent>>

\* handleRetryTicket: the review starts a new attempt.
Retry ==
  /\ status = "BLOCKED_ERROR"
  /\ Spend("requests")
  /\ status' = Waiting /\ marked' = FALSE /\ decision' = NoDecision
  /\ UNCHANGED <<github, clean, report, task, queue>>

\* Tested again, the candidate gets its own pull request (handleCreatePullRequest).
Redeliver ==
  /\ status = "RUNNING_FINAL_TEST" /\ ~marked
  /\ report.pr < MaxPulls
  /\ status' = Waiting
  /\ report' = [pr |-> report.pr + 1, state |-> "draft"]
  /\ clean' \in BOOLEAN
  /\ UNCHANGED <<github, decision, marked, task, queue, spent>>

\* People on GitHub.  A pull request can be retargeted until it is merged or
\* closed.
GitHubMoves ==
  /\ Spend("moves")
  /\ \E p \in 1 .. report.pr :
       \/ github[p].state # "merged" /\ github' = [github EXCEPT ![p].head = "other"]
       \/ github[p].state = "draft" /\ github' = [github EXCEPT ![p].state = "open"]
       \/ github[p].state = "open" /\ github' = [github EXCEPT ![p].state = "merged"]
       \/ github[p].state \in {"draft", "open"} /\ github' = [github EXCEPT ![p].state = "closed"]
       \/ github[p].state = "closed" /\ github' = [github EXCEPT ![p].state = "open"]
       \/ /\ github[p].state \in {"draft", "open"}
          /\ \E b \in Bases \ {github[p].base} : github' = [github EXCEPT ![p].base = b]
  /\ UNCHANGED <<status, clean, report, decision, marked, task, queue>>

\* Somebody edits the ticket's worktree, or puts it in order again.
WorktreeChanges ==
  /\ Spend("moves")
  /\ clean' = ~clean
  /\ UNCHANGED <<status, github, report, decision, marked, task, queue>>

\* The daemon dies and starts again: what was under way is gone.
Crash ==
  /\ Spend("crashes")
  /\ task' = [a \in Actors |-> Idle] /\ queue' = << >>
  /\ UNCHANGED <<status, github, clean, report, decision, marked>>

-----------------------------------------------------------------------------
Init ==
  /\ status   = Waiting
  /\ github   = [p \in Pulls |-> [state |-> "draft", head |-> "candidate", base |-> "own"]]
  /\ clean    \in BOOLEAN
  /\ report   = [pr |-> 1, state |-> "draft"]
  /\ decision = NoDecision
  /\ marked   = FALSE
  /\ task     = [a \in Actors |-> Idle]
  /\ queue    = << >>
  /\ spent    = [k \in DOMAIN Limits |-> 0]

\* What an actor does by itself once it has started.
Step(a) ==
  \/ Read(a)
  \/ Verify(a) \/ Reconcile(a)
  \/ MarkReady(a) \/ MergeRemotely(a)
  \/ a = Poller /\ (Look \/ PollerSettles)
  \/ MergeSettles(a) \/ CloseSettles(a)
  \/ CancelSettles(a) \/ CancelStops(a)

Next ==
  \/ Poll
  \/ \E r \in Requests : Ask(r)
  \/ (\E a \in Actors : Step(a)) /\ UNCHANGED clean
  \/ Redrive \/ Retry \/ Redeliver
  \/ GitHubMoves \/ WorktreeChanges \/ Crash

Spec == Init /\ [][Next]_vars

\* The process goes on with what it has started and the poller comes round.
Fairness ==
  /\ WF_vars(Poll)
  /\ \A a \in Actors : WF_vars(Step(a) /\ UNCHANGED clean)

FairSpec == Spec /\ Fairness

-----------------------------------------------------------------------------
Pcs == {"idle", "looking", "reading", "waiting", "reconciling", "readying",
        "merging", "verifying", "stopping"}
Locked == {"reconciling", "readying", "merging", "verifying", "stopping"}

\* Every variable has its type; the lock's queue names each actor at most once,
\* those that wait for the lock and the one in a locked section, who holds it.
TypeOK ==
  /\ status \in Open \cup {"CLEANING_ENV", "CANCELED"}
  /\ github \in [Pulls -> [state : PullStates, head : Heads, base : Bases]]
  /\ clean \in BOOLEAN
  /\ report \in [pr : Pulls, state : PullStates]
  /\ decision \in [kind : {"none", "closed", "merged"}, pr : 0 .. MaxPulls,
                   state : PullStates \cup {"none"}, proof : {"none", "head", "git"}]
  /\ marked \in BOOLEAN
  /\ task \in [Actors -> [pc : Pcs, seen : [pr : 0 .. MaxPulls,
                 state : PullStates \cup {"unread"}, head : Heads \cup {"unread"},
                 base : Bases \cup {"unread"}]]]
  /\ IsInjective(queue)
  /\ ToSet(queue) = {a \in Actors : task[a].pc \notin {"idle", "reading"}}
  /\ \A a \in Actors : task[a].pc \in Locked => Holds(a)
  /\ \A k \in DOMAIN Limits : spent[k] \in 0 .. Limits[k]

\* The checkpoint says merged only when GitHub has merged that pull request into
\* the ticket's base, with the approved candidate as its head unless git has
\* proved the candidate to be in the base anyway: no stale look, no push or new
\* base between the look and the merge, and no answer about an earlier pull
\* request passes.
MergedIsProven ==
  decision.kind = "merged" =>
    /\ github[decision.pr].state = "merged" /\ github[decision.pr].base = "own"
    /\ decision.proof = "head" => github[decision.pr].head = "candidate"

\* A decision is about the pull request the ticket now has, also when a request
\* or a poll read GitHub before the ticket got a new one.
DecisionIsCurrent ==
  decision.kind # "none" => decision.pr = report.pr

\* A ticket with a decision is not blocked: Retry would archive the decision.
BlockedIsUndecided ==
  status = "BLOCKED_ERROR" => Undecided

\* What is recorded is true, of this pull request, and not about to be lost.
DecisionIsSound == TypeOK /\ MergedIsProven /\ DecisionIsCurrent /\ BlockedIsUndecided

\* A recorded decision is neither replaced nor overtaken: the ticket waits on or
\* goes to its cleanup.  The one other way out is the CANCEL of a cancellation
\* that could not be confirmed before, which takes no lock.
DecisionStands ==
  [][decision.kind # "none" =>
       /\ decision' = decision
       /\ \/ status' \in {status, "CLEANING_ENV"}
          \/ marked /\ status' = "CANCELED" /\ \A r \in Cancels : ~At(r, "stopping")]_vars

\* A merge on GitHub that the ticket's checks let pass, or hand to git.
MergedAsChecked ==
  LET pr == github[report.pr] IN
  /\ pr.state = "merged"
  /\ pr.head = "candidate" => pr.base = "own" /\ clean

\* The review ends, without anybody asking: a decision is carried out whatever
\* failed when it was made, and a merge on GitHub is noticed, also one whose
\* checks passed only once the worktree had been put in order.  (The candidate
\* merged into another base is refused by every poll and every Merge: such a
\* ticket waits until it is canceled.)
ReviewEnds ==
  LET Due == status = Waiting /\ (~Undecided \/ MergedAsChecked)
  IN  Due ~> ~Due

\* Every request gets its answer: nobody waits for the lock for ever.
RequestsAreAnswered ==
  \A r \in Requests : ~At(r, "idle") ~> At(r, "idle")

\* A recorded close does not stand beside a pull request report that says
\* merged (the locked phase of Close is to check the state again).
CloseIsHonest ==
  decision.kind = "closed" => report.state # "merged"
=============================================================================
