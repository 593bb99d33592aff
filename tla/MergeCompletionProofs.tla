------------------------- MODULE MergeCompletionProofs -------------------------
(***************************************************************************)
(* What MergeCompletion keeps for any number of requests, pull requests,   *)
(* failures and crashes.                                                   *)
(***************************************************************************)
EXTENDS MergeCompletion, TLAPS

-----------------------------------------------------------------------------
(* The inductive invariant.                                                *)

\* The locked sections that end in a decision about the pull request.
Completing == {"reconciling", "readying", "merging", "verifying"}

\* What was read of a pull request; a merge, once seen, stays as it was seen.
Truthful(o) ==
  /\ o \in [pr : Pulls, state : PullStates, head : Heads, base : Bases]
  /\ o.state = "merged" =>
       /\ github[o.pr].state = "merged"
       /\ github[o.pr].head = o.head /\ github[o.pr].base = o.base

\* What an actor knows where it stands.
SeenOK(a) ==
  LET t == task[a] IN
  /\ a \in Cancels => t.pc \in {"idle", "waiting", "stopping"}
  /\ t.pc = "stopping" => a \in Cancels
  /\ t.pc = "reading" => t.seen.pr \in Pulls
  /\ a \notin Cancels /\ t.pc \in Completing \cup {"waiting"} => Truthful(t.seen)
  /\ t.pc \in {"reconciling", "verifying"} => t.seen.state = "merged"
  /\ t.pc = "verifying" => Approved(t.seen)

\* While one actor is in a locked section nothing is decided, and the ticket
\* does not move on but for a cancellation.
SectionOK(a) ==
  LET t == task[a] IN
  /\ t.pc \in Locked => decision.kind = "none"
  /\ t.pc \in Completing => t.seen.pr = report.pr /\ status \in {Waiting, "CANCELED"}
  /\ t.pc = "stopping" => status \in Open

\* A decision has been looked at; there is none where the review starts again.
DecisionOK ==
  /\ decision.kind # "none" => decision.state # "none"
  /\ status \in {"RUNNING_FINAL_TEST", "BLOCKED_ERROR"} => decision.kind = "none"

QueueOK ==
  /\ queue \in Seq(Actors) /\ IsInjective(queue)
  /\ ToSet(queue) = {a \in Actors : task[a].pc \notin {"idle", "reading"}}
  /\ \A a \in Actors : task[a].pc \in Locked => Holds(a)

RecordsOK ==
  /\ status \in Open \cup {"CLEANING_ENV", "CANCELED"}
  /\ github \in [Pulls -> [state : PullStates, head : Heads, base : Bases]]
  /\ report \in [pr : Pulls, state : PullStates]
  /\ decision \in [kind : {"none", "closed", "merged"}, pr : 0 .. MaxPulls,
                   state : PullStates \cup {"none"}, proof : {"none", "head", "git"}]
  /\ marked \in BOOLEAN

TasksOK ==
  task \in [Actors -> [pc : Pcs, seen : [pr : 0 .. MaxPulls,
              state : PullStates \cup {"unread"}, head : Heads \cup {"unread"},
              base : Bases \cup {"unread"}]]]

SpentOK ==
  /\ spent \in [DOMAIN Limits -> Nat]
  /\ \A k \in DOMAIN Limits : spent[k] \in 0 .. Limits[k]

IInv ==
  /\ RecordsOK /\ TasksOK /\ QueueOK /\ SpentOK
  /\ \A a \in Actors : SeenOK(a) /\ SectionOK(a)
  /\ DecisionOK /\ MergedIsProven /\ DecisionIsCurrent

-----------------------------------------------------------------------------
(* The queue of the lock.                                                   *)

LEMMA ActorsApart ==
  /\ Poller \in Actors /\ Requests \subseteq Actors
  /\ Poller \notin Cancels
  /\ \A r \in Merges \cup Closes : r \in Actors /\ r \notin Cancels
  BY MergeAssumption DEF Actors, Requests

LEMMA AppendQueue ==
  ASSUME NEW q \in Seq(Actors), IsInjective(q), NEW a \in Actors, a \notin ToSet(q)
  PROVE  /\ Append(q, a) \in Seq(Actors) /\ Append(q, a) # << >>
         /\ IsInjective(Append(q, a))
         /\ ToSet(Append(q, a)) = ToSet(q) \cup {a}
         /\ q # << >> => Head(Append(q, a)) = Head(q)
<1> DEFINE s == Append(q, a)
<1>1. /\ s \in Seq(Actors) /\ s # << >> /\ Len(s) = Len(q) + 1 /\ Len(q) \in Nat
      /\ \A i \in 1 .. Len(q) : s[i] = q[i]
      /\ s[Len(q) + 1] = a
      /\ DOMAIN s = 1 .. Len(q) + 1 /\ DOMAIN q = 1 .. Len(q)
  OBVIOUS
<1>2. q # << >> => Head(s) = Head(q)
  OBVIOUS
<1> HIDE DEF s
<1>3. \A i \in 1 .. Len(q) : q[i] # a
  BY <1>1 DEF ToSet
<1>4. IsInjective(s)
  BY <1>1, <1>3 DEF IsInjective
<1>5. ASSUME NEW x \in ToSet(s) PROVE x \in ToSet(q) \cup {a}
  <2>1. PICK i \in 1 .. Len(q) + 1 : x = s[i]
    BY <1>1 DEF ToSet
  <2> QED BY <1>1, <2>1 DEF ToSet
<1>6. ASSUME NEW x \in ToSet(q) \cup {a} PROVE x \in ToSet(s)
  BY <1>1 DEF ToSet
<1> QED BY <1>1, <1>2, <1>4, <1>5, <1>6 DEF s

LEMMA TailQueue ==
  ASSUME NEW q \in Seq(Actors), IsInjective(q), q # << >>
  PROVE  /\ Tail(q) \in Seq(Actors)
         /\ IsInjective(Tail(q))
         /\ ToSet(Tail(q)) = ToSet(q) \ {Head(q)}
<1>1. /\ Len(Tail(q)) = Len(q) - 1 /\ Tail(q) \in Seq(Actors)
      /\ \A i \in 1 .. Len(Tail(q)) : Tail(q)[i] = q[i + 1]
      /\ Head(q) = q[1]
  OBVIOUS
<1>2. IsInjective(Tail(q))
  BY <1>1 DEF IsInjective
<1>3. ASSUME NEW x \in ToSet(Tail(q)) PROVE x \in ToSet(q) \ {Head(q)}
  <2>1. PICK i \in 1 .. Len(Tail(q)) : x = Tail(q)[i]
    BY DEF ToSet
  <2>2. /\ i + 1 \in 1 .. Len(q) /\ x = q[i + 1] /\ i + 1 # 1
        /\ 1 \in 1 .. Len(q) /\ DOMAIN q = 1 .. Len(q)
    BY <1>1, <2>1
  <2>3. x # q[1]
    BY <2>2 DEF IsInjective
  <2> QED BY <1>1, <2>2, <2>3 DEF ToSet
<1>4. ASSUME NEW x \in ToSet(q) \ {Head(q)} PROVE x \in ToSet(Tail(q))
  <2>1. PICK i \in 1 .. Len(q) : x = q[i]
    BY DEF ToSet
  <2>2. i # 1 /\ i - 1 \in 1 .. Len(Tail(q)) /\ Tail(q)[i - 1] = x
    BY <1>1, <1>4, <2>1
  <2>3. DOMAIN Tail(q) = 1 .. Len(Tail(q))
    OBVIOUS
  <2> QED BY <2>2, <2>3 DEF ToSet
<1> QED BY <1>1, <1>2, <1>3, <1>4

\* Who holds the lock is alone in a locked section.
LEMMA HolderIsAlone ==
  ASSUME QueueOK, NEW a \in Actors, Holds(a), NEW b \in Actors, b # a
  PROVE  task[b].pc \notin Locked
  BY DEF QueueOK, Holds

LEMMA RequestQueue ==
  ASSUME TasksOK, QueueOK, NEW a \in Actors, task[a].pc \in {"idle", "reading"},
         NEW pc \in {"looking", "waiting"}, NEW o, Request(a, pc, o)
  PROVE  QueueOK'
<1>1. a \notin ToSet(queue)
  BY DEF QueueOK
<1>2. task' = [task EXCEPT ![a] = [pc |-> pc, seen |-> o]] /\ queue' = Append(queue, a)
  BY DEF Request, Goto
<1>3. /\ queue' \in Seq(Actors) /\ IsInjective(queue') /\ queue' # << >>
      /\ ToSet(queue') = ToSet(queue) \cup {a}
      /\ queue # << >> => Head(queue') = Head(queue)
  BY <1>1, <1>2, AppendQueue DEF QueueOK
<1>4. ToSet(queue') = {b \in Actors : task'[b].pc \notin {"idle", "reading"}}
  BY <1>2, <1>3 DEF QueueOK, TasksOK
<1>5. ASSUME NEW b \in Actors, task'[b].pc \in Locked PROVE Holds(b)'
  BY <1>2, <1>3, <1>5 DEF QueueOK, TasksOK, Holds, Locked
<1> QED BY <1>3, <1>4, <1>5 DEF QueueOK

\* An actor goes on where it stands with the lock.
LEMMA OnQueue ==
  ASSUME TasksOK, QueueOK, NEW a \in Actors, NEW pc, NEW o, On(a, pc, o),
         \/ task[a].pc = "idle" /\ pc = "reading"
         \/ Holds(a) /\ task[a].pc \notin {"idle", "reading"} /\ pc \in Locked
  PROVE  QueueOK'
  BY DEF TasksOK, QueueOK, On, Goto, Holds, Locked

\* Who holds the lock goes, to rest or to read.
LEMMA LeaveQueue ==
  ASSUME TasksOK, QueueOK, NEW a \in Actors, Holds(a),
         NEW pc \in {"idle", "reading"}, NEW o, Goto(a, pc, o), queue' = Tail(queue)
  PROVE  QueueOK'
<1>1. queue # << >> /\ Head(queue) = a
  BY DEF Holds
<1>2. /\ queue' \in Seq(Actors) /\ IsInjective(queue')
      /\ ToSet(queue') = ToSet(queue) \ {a}
  BY <1>1, TailQueue DEF QueueOK
<1>3. ToSet(queue') = {b \in Actors : task'[b].pc \notin {"idle", "reading"}}
  BY <1>2 DEF QueueOK, TasksOK, Goto
<1>4. \A b \in Actors : task'[b].pc \notin Locked
  BY HolderIsAlone DEF TasksOK, Locked, Goto
<1> QED BY <1>2, <1>3, <1>4 DEF QueueOK

LEMMA SpendOK ==
  ASSUME SpentOK, NEW k \in {"moves", "requests", "faults", "crashes"}, Spend(k)
  PROVE  SpentOK'
<1>1. DOMAIN Limits = {"moves", "requests", "faults", "crashes"}
      /\ \A j \in DOMAIN Limits : Limits[j] \in Nat
  BY MergeAssumption
<1>2. spent' = [spent EXCEPT ![k] = spent[k] + 1] /\ spent[k] < Limits[k]
  BY DEF Spend
<1> QED BY <1>1, <1>2 DEF SpentOK

-----------------------------------------------------------------------------
(* What a step leaves to the others.                                        *)

\* A merge on GitHub is final.
GitHubGrows ==
  /\ github' \in [Pulls -> [state : PullStates, head : Heads, base : Bases]]
  /\ \A p \in Pulls : github[p].state = "merged" => github'[p] = github[p]

Others(a) == \A b \in Actors \ {a} : task'[b] = task[b]

LEMMA OthersSee ==
  ASSUME IInv, GitHubGrows, NEW b \in Actors, task'[b] = task[b]
  PROVE  SeenOK(b)'
<1>1. SeenOK(b)
  BY DEF IInv
<1>2. ASSUME NEW o, Truthful(o) PROVE Truthful(o)'
  BY <1>2 DEF Truthful, GitHubGrows
<1> QED BY <1>1, <1>2 DEF SeenOK

LEMMA GitHubStays ==
  ASSUME IInv, github' = github
  PROVE  GitHubGrows
  BY DEF IInv, RecordsOK, GitHubGrows

\* A step of the actor who holds the lock: the others are outside their
\* sections, so only its own has to be looked at.
LEMMA HolderStep ==
  ASSUME IInv, NEW a \in Actors, Holds(a), GitHubGrows, Others(a),
         RecordsOK', TasksOK', QueueOK', SpentOK', SeenOK(a)', SectionOK(a)',
         DecisionOK', MergedIsProven', DecisionIsCurrent'
  PROVE  IInv'
<1>1. ASSUME NEW b \in Actors \ {a} PROVE SeenOK(b)' /\ SectionOK(b)'
  <2>1. task'[b] = task[b]
    BY DEF Others
  <2>2. task[b].pc \notin Locked
    BY HolderIsAlone DEF IInv
  <2>3. SectionOK(b)'
    BY <2>1, <2>2 DEF SectionOK, Locked, Completing
  <2> QED BY <2>1, <2>3, OthersSee
<1> QED BY <1>1 DEF IInv

\* A step that changes nothing but one actor's own state.
LEMMA OwnStep ==
  ASSUME IInv, NEW a \in Actors, Others(a),
         UNCHANGED <<status, github, report, decision, marked>>,
         TasksOK', QueueOK', SpentOK', SeenOK(a)', SectionOK(a)'
  PROVE  IInv'
<1>1. \A b \in Actors : SeenOK(b)'
  BY GitHubStays, OthersSee DEF Others
<1>2. \A b \in Actors \ {a} : SectionOK(b)'
  BY DEF Others, IInv, SectionOK
<1>3. RecordsOK' /\ DecisionOK' /\ MergedIsProven' /\ DecisionIsCurrent'
  BY DEF IInv, RecordsOK, DecisionOK, MergedIsProven, DecisionIsCurrent
<1> QED BY <1>1, <1>2, <1>3 DEF IInv

\* Who leaves is idle, and idle is all right.
LEMMA LeaveStep ==
  ASSUME IInv, NEW a \in Actors, Holds(a), Leave(a)
  PROVE  TasksOK' /\ QueueOK' /\ SeenOK(a)' /\ SectionOK(a)' /\ Others(a)
<1>1. Idle.pc = "idle" /\ Idle.seen = Asking(0)
  BY DEF Idle
<1>2. QueueOK'
  <2>1. Goto(a, "idle", Asking(0)) /\ queue' = Tail(queue)
    BY DEF Leave, Idle, Goto
  <2> QED BY <2>1, LeaveQueue DEF IInv
<1>3. TasksOK' /\ Others(a) /\ task'[a] = Idle
  BY <1>1, MergeAssumption DEF IInv, TasksOK, Leave, Others, Asking, Pcs, Pulls, Idle
<1>4. SeenOK(a)' /\ SectionOK(a)'
  BY <1>1, <1>3 DEF SeenOK, SectionOK, Completing, Locked
<1> QED BY <1>2, <1>3, <1>4

\* The end of a section that has decided or leaves things as they are.
LEMMA DispatchStep ==
  ASSUME IInv, NEW a \in Actors, Holds(a),
         NEW rep \in [pr : Pulls, state : PullStates], rep.pr = report.pr,
         NEW target \in {"CLEANING_ENV", "RUNNING_FINAL_TEST", "BLOCKED_ERROR"},
         Dispatch(a, rep, target),
         decision' \in [kind : {"none", "closed", "merged"}, pr : 0 .. MaxPulls,
                        state : PullStates \cup {"none"}, proof : {"none", "head", "git"}],
         decision'.kind # "none" =>
           /\ decision'.pr = report.pr /\ decision'.state # "none"
           /\ target = "CLEANING_ENV"
           /\ status \notin {"RUNNING_FINAL_TEST", "BLOCKED_ERROR"},
         MergedIsProven'
  PROVE  IInv'
<1>1. Leave(a) /\ UNCHANGED <<github, marked>>
  BY DEF Dispatch
<1>2. SpentOK'
  BY SpendOK DEF Dispatch, Fault, IInv, SpentOK
<1>3. /\ report' \in [pr : Pulls, state : PullStates] /\ report'.pr = report.pr
      /\ status' \in {status, target}
  BY DEF Dispatch, IInv, RecordsOK
<1>4. RecordsOK'
  BY <1>1, <1>3 DEF IInv, RecordsOK, Open
<1>5. DecisionOK' /\ DecisionIsCurrent'
  BY <1>3 DEF DecisionOK, DecisionIsCurrent, Open, Waiting
<1>6. GitHubGrows
  BY <1>1, GitHubStays
<1> QED BY <1>1, <1>2, <1>4, <1>5, <1>6, LeaveStep, HolderStep

-----------------------------------------------------------------------------
(* Before the lock.                                                         *)

\* What is read of a pull request is true when it is read.
LEMMA SeenTruthful ==
  ASSUME IInv, NEW p \in Pulls
  PROVE  Truthful(Seen(github, p))
  BY DEF IInv, RecordsOK, Truthful, Seen, Pulls

LEMMA SeenTyped ==
  ASSUME NEW o, Truthful(o)
  PROVE  o \in [pr : 0 .. MaxPulls, state : PullStates \cup {"unread"},
                head : Heads \cup {"unread"}, base : Bases \cup {"unread"}]
  BY MergeAssumption DEF Truthful, Pulls

LEMMA AskingTyped ==
  ASSUME NEW n \in 0 .. MaxPulls
  PROVE  /\ Asking(n) \in [pr : 0 .. MaxPulls, state : PullStates \cup {"unread"},
                           head : Heads \cup {"unread"}, base : Bases \cup {"unread"}]
         /\ Asking(n).pr = n
  BY DEF Asking

LEMMA GotoTyped ==
  ASSUME TasksOK, NEW a \in Actors, NEW pc \in Pcs,
         NEW o \in [pr : 0 .. MaxPulls, state : PullStates \cup {"unread"},
                    head : Heads \cup {"unread"}, base : Bases \cup {"unread"}],
         Goto(a, pc, o)
  PROVE  TasksOK' /\ Others(a) /\ task'[a].pc = pc /\ task'[a].seen = o
  BY DEF TasksOK, Goto, Others

LEMMA AskStep ==
  ASSUME IInv, NEW r \in Requests, Ask(r)
  PROVE  IInv'
<1>1. /\ r \in Actors /\ task[r].pc = "idle" /\ TasksOK /\ QueueOK
      /\ UNCHANGED <<status, github, report, decision, marked>>
  BY ActorsApart DEF Ask, At, IInv
<1>2. SpentOK'
  BY SpendOK DEF Ask, IInv
<1>3. ASSUME On(r, "reading", Asking(report.pr)), r \in Merges \cup Closes
      PROVE  IInv'
  <2>1. report.pr \in Pulls /\ report.pr \in 0 .. MaxPulls
    BY MergeAssumption DEF IInv, RecordsOK, Pulls
  <2>2. /\ TasksOK' /\ Others(r) /\ task'[r].pc = "reading"
        /\ task'[r].seen = Asking(report.pr)
    BY <1>1, <1>3, <2>1, AskingTyped, GotoTyped DEF On, Pcs
  <2>3. QueueOK'
    BY <1>1, <1>3, OnQueue
  <2>4. SeenOK(r)' /\ SectionOK(r)'
    BY <1>3, <2>1, <2>2, AskingTyped, ActorsApart
       DEF SeenOK, SectionOK, Completing, Locked
  <2> QED BY <1>1, <1>2, <2>2, <2>3, <2>4, OwnStep
<1>4. ASSUME Request(r, "waiting", Asking(0)), r \in Cancels
      PROVE  IInv'
  <2>1. 0 \in 0 .. MaxPulls
    BY MergeAssumption
  <2>2. /\ TasksOK' /\ Others(r) /\ task'[r].pc = "waiting"
        /\ task'[r].seen = Asking(0)
    BY <1>1, <1>4, <2>1, AskingTyped, GotoTyped DEF Request, Pcs
  <2>3. QueueOK'
    BY <1>1, <1>4, RequestQueue
  <2>4. SeenOK(r)' /\ SectionOK(r)'
    BY <1>4, <2>2 DEF SeenOK, SectionOK, Completing, Locked
  <2> QED BY <1>1, <1>2, <2>2, <2>3, <2>4, OwnStep
<1> QED BY <1>3, <1>4 DEF Ask

LEMMA PollStep ==
  ASSUME IInv, Poll
  PROVE  IInv'
<1>1. /\ task[Poller].pc = "idle" /\ TasksOK /\ QueueOK /\ SpentOK'
      /\ Request(Poller, "looking", Asking(0))
      /\ UNCHANGED <<status, github, report, decision, marked>>
  BY DEF Poll, At, IInv, SpentOK
<1>2. 0 \in 0 .. MaxPulls
  BY MergeAssumption
<1>3. /\ TasksOK' /\ Others(Poller) /\ task'[Poller].pc = "looking"
      /\ task'[Poller].seen = Asking(0)
  BY <1>1, <1>2, ActorsApart, AskingTyped, GotoTyped DEF Request, Pcs
<1>4. QueueOK'
  BY <1>1, ActorsApart, RequestQueue
<1>5. SeenOK(Poller)' /\ SectionOK(Poller)'
  BY <1>3, ActorsApart DEF SeenOK, SectionOK, Completing, Locked
<1> QED BY <1>1, <1>3, <1>4, <1>5, ActorsApart, OwnStep

LEMMA ReadStep ==
  ASSUME IInv, NEW a \in Actors, Read(a)
  PROVE  IInv'
<1>1. /\ task[a].pc = "reading" /\ TasksOK /\ QueueOK /\ SpentOK
      /\ task[a].seen.pr \in Pulls /\ a \notin Cancels
      /\ UNCHANGED <<status, github, report, decision, marked>>
  BY DEF Read, At, IInv, SeenOK
<1>2. CASE UNCHANGED spent /\ Request(a, "waiting", Seen(github, task[a].seen.pr))
  <2>1. PICK o : o = Seen(github, task[a].seen.pr)
    OBVIOUS
  <2>2. Truthful(o) /\ Truthful(o)'
    BY <1>1, <2>1, SeenTruthful DEF Truthful
  <2>3. TasksOK' /\ Others(a) /\ task'[a].pc = "waiting" /\ task'[a].seen = o
    BY <1>1, <1>2, <2>1, <2>2, SeenTyped, GotoTyped DEF Request, Pcs
  <2>4. QueueOK'
    BY <1>1, <1>2, RequestQueue
  <2>5. SeenOK(a)' /\ SectionOK(a)'
    BY <1>1, <2>2, <2>3 DEF SeenOK, SectionOK, Completing, Locked
  <2>6. SpentOK'
    BY <1>1, <1>2 DEF SpentOK
  <2> QED BY <1>1, <2>3, <2>4, <2>5, <2>6, OwnStep
<1>3. CASE Fault /\ task' = [task EXCEPT ![a] = Idle] /\ queue' = queue
  <2>1. TasksOK' /\ Others(a) /\ task'[a].pc = "idle"
    BY <1>1, <1>3, MergeAssumption DEF TasksOK, Idle, Asking, Pcs, Others
  <2>2. QueueOK'
    BY <1>1, <1>3, <2>1 DEF QueueOK, TasksOK, Others, Holds, Locked
  <2>3. SeenOK(a)' /\ SectionOK(a)'
    BY <2>1 DEF SeenOK, SectionOK, Completing, Locked
  <2>4. SpentOK'
    BY <1>1, <1>3, SpendOK DEF Fault
  <2> QED BY <1>1, <2>1, <2>2, <2>3, <2>4, OwnStep
<1> QED BY <1>2, <1>3 DEF Read

-----------------------------------------------------------------------------
(* Under the lock.                                                         *)

\* A section that only leaves.
LEMMA LeaveOnlyStep ==
  ASSUME IInv, NEW a \in Actors, Holds(a), Leave(a), SpentOK', GitHubGrows,
         NEW st \in PullStates, report' \in {report, [report EXCEPT !.state = st]},
         UNCHANGED <<status, decision, marked>>
  PROVE  IInv'
<1>1. RecordsOK' /\ DecisionOK' /\ DecisionIsCurrent'
  BY DEF IInv, RecordsOK, DecisionOK, DecisionIsCurrent, GitHubGrows
<1>2. MergedIsProven'
  BY MergeAssumption DEF IInv, RecordsOK, DecisionIsCurrent, MergedIsProven, GitHubGrows
<1> QED BY <1>1, <1>2, LeaveStep, HolderStep

LEMMA RefuseStep ==
  ASSUME IInv, NEW a \in Actors, Holds(a), Refuse(a)
  PROVE  IInv'
<1>1. GitHubGrows /\ SpentOK'
  BY GitHubStays DEF Refuse, IInv, SpentOK
<1>2. report.state \in PullStates
  BY DEF IInv, RecordsOK
<1> QED BY <1>1, <1>2, LeaveOnlyStep DEF Refuse

\* A section goes on after a wait, with the pull request it decided about.
LEMMA SectionStep ==
  ASSUME IInv, NEW a \in Actors \ Cancels, Holds(a), task[a].pc \notin {"idle", "reading"},
         NEW pc \in Completing, NEW o, On(a, pc, o), SpentOK', GitHubGrows,
         Truthful(o)', o.pr = report.pr,
         pc \in {"reconciling", "verifying"} => o.state = "merged",
         pc = "verifying" => Approved(o),
         report' = [report EXCEPT !.state = o.state],
         decision.kind = "none", status \in {Waiting, "CANCELED"},
         UNCHANGED <<status, decision, marked>>
  PROVE  IInv'
<1>1. o \in [pr : Pulls, state : PullStates, head : Heads, base : Bases]
  BY DEF Truthful
<1>2. /\ TasksOK' /\ Others(a) /\ task'[a].pc = pc /\ task'[a].seen = o
  <2>1. o \in [pr : 0 .. MaxPulls, state : PullStates \cup {"unread"},
               head : Heads \cup {"unread"}, base : Bases \cup {"unread"}]
    BY <1>1, MergeAssumption DEF Pulls
  <2> QED BY <2>1, GotoTyped DEF On, IInv, Completing, Pcs
<1>3. QueueOK'
  BY OnQueue DEF IInv, Completing, Locked
<1>4. RecordsOK' /\ report'.pr = report.pr
  BY <1>1 DEF IInv, RecordsOK, GitHubGrows
<1>5. DecisionOK' /\ DecisionIsCurrent' /\ MergedIsProven'
  BY DEF IInv, DecisionOK, DecisionIsCurrent, MergedIsProven
<1>6. SeenOK(a)'
  BY <1>2 DEF SeenOK, Completing
<1>7. SectionOK(a)'
  BY <1>2, <1>4 DEF SectionOK, Completing
<1> QED BY <1>2, <1>3, <1>4, <1>5, <1>6, <1>7, HolderStep

LEMMA ResumeStep ==
  ASSUME IInv, NEW a \in Actors, Holds(a), Resume(a)
  PROVE  IInv'
<1>1. decision' = decision /\ decision.kind # "none" /\ decision.pr = report.pr
  BY DEF Resume, Resumable, Decided
<1>2. DecidedReport \in [pr : Pulls, state : PullStates] /\ DecidedReport.pr = report.pr
  BY <1>1 DEF DecidedReport, IInv, RecordsOK, DecisionOK
<1>3. Dispatch(a, DecidedReport, "CLEANING_ENV")
  BY DEF Resume
<1>4. MergedIsProven' /\ status \notin {"RUNNING_FINAL_TEST", "BLOCKED_ERROR"}
  BY <1>1, <1>3 DEF IInv, MergedIsProven, Dispatch, DecisionOK
<1>5. /\ decision' \in [kind : {"none", "closed", "merged"}, pr : 0 .. MaxPulls,
           state : PullStates \cup {"none"}, proof : {"none", "head", "git"}]
      /\ decision'.state # "none"
  BY <1>1 DEF IInv, RecordsOK, DecisionOK
<1> QED BY <1>1, <1>2, <1>3, <1>4, <1>5, DispatchStep

\* With nothing decided about this pull request there is no decision at all.
LEMMA UndecidedMeansNone ==
  ASSUME IInv, Undecided
  PROVE  decision.kind = "none"
  BY DEF IInv, RecordsOK, Undecided, Decided, DecisionIsCurrent

LEMMA CompleteStep ==
  ASSUME IInv, NEW a \in Actors \ Cancels, Holds(a), task[a].pc = "waiting",
         NEW o, o = task[a].seen, Same(o), status = Waiting, Undecided, Complete(a, o)
  PROVE  IInv'
<1>1. /\ decision.kind = "none" /\ github' = github /\ GitHubGrows
      /\ report' = [report EXCEPT !.state = o.state] /\ o.pr = report.pr
      /\ UNCHANGED <<status, decision, marked>>
  BY UndecidedMeansNone, GitHubStays DEF Complete, Same
<1>2. Truthful(o) /\ Truthful(o)' /\ o.state \in PullStates
  BY <1>1 DEF IInv, SeenOK, Truthful
<1>3. SpentOK'
  BY SpendOK DEF Complete, Fault, IInv, SpentOK
<1>4. CASE Leave(a)
  BY <1>1, <1>2, <1>3, <1>4, LeaveOnlyStep
<1>5. CASE MergedEarly(o) /\ On(a, "reconciling", o)
  BY <1>1, <1>2, <1>3, <1>5, SectionStep DEF Completing, MergedEarly
<1>6. ASSUME Approved(o),
             On(a, CASE o.state = "merged" -> "verifying"
                     [] o.state = "draft" -> "readying"
                     [] OTHER -> "merging", o)
      PROVE  IInv'
  <2>1. PICK pc : /\ pc = CASE o.state = "merged" -> "verifying"
                            [] o.state = "draft" -> "readying"
                            [] OTHER -> "merging"
                  /\ On(a, pc, o)
    BY <1>6
  <2>2. pc \in Completing \ {"reconciling"} /\ (pc = "verifying" => o.state = "merged")
    BY <2>1 DEF Completing
  <2>3. Approved(o) /\ On(a, pc, o)
    BY <1>6, <2>1
  <2> HIDE <2>1
  <2> QED BY <1>1, <1>2, <1>3, <2>2, <2>3, SectionStep DEF Completing
<1> QED BY <1>4, <1>5, <1>6 DEF Complete

LEMMA LookStep ==
  ASSUME IInv, Look
  PROVE  IInv'
<1>1. /\ Poller \in Actors /\ Holds(Poller) /\ task[Poller].pc = "looking"
      /\ TasksOK /\ QueueOK
  BY ActorsApart DEF Look, At, IInv
<1>2. CASE Leave(Poller) /\ UNCHANGED <<status, github, report, decision, marked, spent>>
  BY <1>1, <1>2, RefuseStep DEF Refuse
<1>3. CASE Resume(Poller)
  BY <1>1, <1>3, ResumeStep
<1>4. CASE /\ Goto(Poller, "reading", Asking(report.pr)) /\ queue' = Tail(queue)
           /\ UNCHANGED <<status, github, report, decision, marked, spent>>
  <2>1. report.pr \in Pulls /\ report.pr \in 0 .. MaxPulls
    BY MergeAssumption DEF IInv, RecordsOK, Pulls
  <2>2. /\ TasksOK' /\ Others(Poller) /\ task'[Poller].pc = "reading"
        /\ task'[Poller].seen = Asking(report.pr)
    BY <1>1, <1>4, <2>1, AskingTyped, GotoTyped DEF Pcs
  <2>3. QueueOK'
    BY <1>1, <1>4, LeaveQueue
  <2>4. SeenOK(Poller)' /\ SectionOK(Poller)'
    BY <2>1, <2>2, AskingTyped, ActorsApart DEF SeenOK, SectionOK, Completing, Locked
  <2>5. SpentOK'
    BY <1>4 DEF IInv, SpentOK
  <2> QED BY <1>1, <1>4, <2>2, <2>3, <2>4, <2>5, OwnStep
<1> QED BY <1>2, <1>3, <1>4 DEF Look

LEMMA PollerSettlesStep ==
  ASSUME IInv, PollerSettles
  PROVE  IInv'
<1> DEFINE o == task[Poller].seen
<1>1. /\ Poller \in Actors \ Cancels /\ Holds(Poller) /\ task[Poller].pc = "waiting"
      /\ Truthful(o)
  BY ActorsApart DEF PollerSettles, At, IInv, SeenOK
<1>2. CASE Refuse(Poller)
  BY <1>1, <1>2, RefuseStep
<1>3. CASE Resume(Poller)
  BY <1>1, <1>3, ResumeStep
<1>4. CASE /\ report' = [report EXCEPT !.state = o.state] /\ Leave(Poller)
           /\ UNCHANGED <<status, github, decision, marked, spent>>
  <2>1. GitHubGrows /\ SpentOK' /\ o.state \in PullStates
    BY <1>1, <1>4, GitHubStays DEF IInv, SpentOK, Truthful
  <2> HIDE DEF o
  <2> QED BY <1>1, <1>4, <2>1, LeaveOnlyStep
<1>5. CASE status = Waiting /\ Undecided /\ Same(o) /\ Complete(Poller, o)
  BY <1>1, <1>5, CompleteStep
<1> QED BY <1>2, <1>3, <1>4, <1>5 DEF PollerSettles

LEMMA MergeSettlesStep ==
  ASSUME IInv, NEW r \in Actors, MergeSettles(r)
  PROVE  IInv'
<1> DEFINE o == task[r].seen
<1>1. r \in Actors \ Cancels /\ Holds(r) /\ task[r].pc = "waiting"
  BY ActorsApart DEF MergeSettles, At
<1>2. CASE Refuse(r)
  BY <1>1, <1>2, RefuseStep
<1>3. CASE Resume(r)
  BY <1>1, <1>3, ResumeStep
<1>4. CASE status = Waiting /\ Undecided /\ Same(o) /\ Complete(r, o)
  BY <1>1, <1>4, CompleteStep
<1> QED BY <1>2, <1>3, <1>4 DEF MergeSettles

\* Who is in the completing part of a section.
LEMMA CompletingSection ==
  ASSUME IInv, NEW a \in Actors, task[a].pc \in Completing
  PROVE  /\ a \in Actors \ Cancels /\ Holds(a) /\ Truthful(task[a].seen)
         /\ task[a].seen.pr = report.pr /\ report.pr \in Pulls
         /\ decision.kind = "none" /\ status \in {Waiting, "CANCELED"}
  BY DEF IInv, QueueOK, SeenOK, SectionOK, Completing, Locked, RecordsOK

\* What the actor itself did on GitHub to pull request p.
LEMMA GitHubMoved ==
  ASSUME IInv, NEW p \in Pulls, github[p].state # "merged", NEW s \in PullStates,
         github' = [github EXCEPT ![p].state = s]
  PROVE  GitHubGrows
  BY DEF IInv, RecordsOK, GitHubGrows

LEMMA MarkReadyStep ==
  ASSUME IInv, NEW r \in Actors, MarkReady(r)
  PROVE  IInv'
<1> DEFINE p == task[r].seen.pr
           ready == [github EXCEPT ![p].state = "open"]
<1>1. /\ task[r].pc = "readying" /\ p \in Pulls /\ UNCHANGED <<status, decision, marked>>
      /\ r \in Actors \ Cancels /\ Holds(r) /\ p = report.pr
      /\ decision.kind = "none" /\ status \in {Waiting, "CANCELED"}
      /\ "open" \in PullStates
  BY CompletingSection DEF MarkReady, At, Completing, PullStates
<1>2. ASSUME github[p].state \in {"draft", "open"}, github' = ready, UNCHANGED spent,
             report' = [report EXCEPT !.state = "open"],
             IF Approved(Seen(ready, p)) THEN On(r, "merging", Seen(ready, p)) ELSE Leave(r)
      PROVE  IInv'
  <2>1. GitHubGrows /\ SpentOK'
    BY <1>1, <1>2, GitHubMoved DEF IInv, SpentOK
  <2>2. CASE Leave(r)
    BY <1>1, <1>2, <2>1, <2>2, LeaveOnlyStep
  <2>3. ASSUME On(r, "merging", Seen(ready, p)) PROVE IInv'
    <3>1. PICK o : o = Seen(ready, p)
      OBVIOUS
    <3>2. /\ Truthful(o)' /\ o.pr = report.pr /\ o.state = "open"
      BY <1>1, <1>2, <3>1 DEF IInv, RecordsOK, Truthful, Seen, Pulls
    <3> QED BY <1>1, <1>2, <2>1, <2>3, <3>1, <3>2, SectionStep DEF Completing
  <2> QED BY <1>2, <2>2, <2>3
<1>3. CASE Leave(r) /\ UNCHANGED <<github, report, spent>>
  BY <1>1, <1>3, RefuseStep DEF Refuse
<1>4. ASSUME Fault, Leave(r), UNCHANGED report,
             github' \in {github} \cup IF github[p].state = "draft" THEN {ready} ELSE {}
      PROVE  IInv'
  <2>1. SpentOK'
    BY <1>4, SpendOK DEF Fault, IInv
  <2>2. GitHubGrows
    BY <1>1, <1>4, GitHubStays, GitHubMoved
  <2> QED BY <1>1, <1>4, <2>1, <2>2, LeaveOnlyStep
<1> QED BY <1>2, <1>3, <1>4 DEF MarkReady

LEMMA MergeRemotelyStep ==
  ASSUME IInv, NEW r \in Actors, MergeRemotely(r)
  PROVE  IInv'
<1> DEFINE p == task[r].seen.pr
           merged == [github EXCEPT ![p].state = "merged"]
<1>1. /\ task[r].pc = "merging" /\ p \in Pulls /\ UNCHANGED <<status, decision, marked>>
      /\ r \in Actors \ Cancels /\ Holds(r) /\ p = report.pr
      /\ decision.kind = "none" /\ status \in {Waiting, "CANCELED"}
      /\ "merged" \in PullStates
  BY CompletingSection DEF MergeRemotely, At, Completing, PullStates
<1>2. Accepts(p) => github[p].state # "merged"
  BY DEF Accepts
<1>3. ASSUME Accepts(p), github' = merged, UNCHANGED spent,
             report' = [report EXCEPT !.state = "merged"],
             IF Approved(Seen(merged, p)) THEN On(r, "verifying", Seen(merged, p)) ELSE Leave(r)
      PROVE  IInv'
  <2>1. GitHubGrows /\ SpentOK'
    BY <1>1, <1>2, <1>3, GitHubMoved DEF IInv, SpentOK
  <2>2. CASE Leave(r)
    BY <1>1, <1>3, <2>1, <2>2, LeaveOnlyStep
  <2>3. ASSUME Approved(Seen(merged, p)), On(r, "verifying", Seen(merged, p)) PROVE IInv'
    <3>1. PICK o : o = Seen(merged, p)
      OBVIOUS
    <3>2. /\ Truthful(o)' /\ o.pr = report.pr /\ o.state = "merged" /\ Approved(o)
      BY <1>1, <1>2, <1>3, <2>3, <3>1 DEF IInv, RecordsOK, Truthful, Seen, Pulls
    <3> QED BY <1>1, <1>3, <2>1, <2>3, <3>1, <3>2, SectionStep DEF Completing
  <2> QED BY <1>3, <2>2, <2>3
<1>4. CASE ~Accepts(p) /\ Refused(r) /\ UNCHANGED <<github, report, spent>>
  BY <1>1, <1>4, RefuseStep DEF Refuse, Refused
<1>5. ASSUME Fault, Leave(r), UNCHANGED report,
             github' \in {github} \cup IF Accepts(p) THEN {merged} ELSE {}
      PROVE  IInv'
  <2>1. SpentOK'
    BY <1>5, SpendOK DEF Fault, IInv
  <2>2. GitHubGrows
    BY <1>1, <1>2, <1>5, GitHubStays, GitHubMoved
  <2> QED BY <1>1, <1>5, <2>1, <2>2, LeaveOnlyStep
<1> QED BY <1>3, <1>4, <1>5 DEF MergeRemotely

\* The checkpoint of a merge that was seen, with its head or with git's word.
LEMMA MergedDecision ==
  ASSUME IInv, NEW a \in Actors, task[a].pc \in {"verifying", "reconciling"},
         NEW proof \in {"head", "git"}, proof = "head" => task[a].pc = "verifying",
         proof = "git" => OwnBranches(task[a].seen),
         decision' = Merged(task[a].seen, proof),
         Dispatch(a, [report EXCEPT !.state = "merged"], "CLEANING_ENV")
  PROVE  IInv'
<1>1. /\ a \in Actors \ Cancels /\ Holds(a) /\ Truthful(task[a].seen)
      /\ task[a].seen.pr = report.pr /\ report.pr \in Pulls
      /\ decision.kind = "none" /\ status \in {Waiting, "CANCELED"}
  BY CompletingSection DEF Completing
<1>2. /\ task[a].seen.state = "merged" /\ task[a].seen.base = "own"
      /\ proof = "head" => task[a].seen.head = "candidate"
  BY DEF IInv, SeenOK, Approved, OwnBranches
<1>3. decision' = [kind |-> "merged", pr |-> report.pr, state |-> "merged", proof |-> proof]
  BY <1>1 DEF Merged
<1>4. github' = github
  BY DEF Dispatch
<1>5. MergedIsProven'
  BY <1>1, <1>2, <1>3, <1>4 DEF MergedIsProven, Truthful
<1>6. /\ [report EXCEPT !.state = "merged"] \in [pr : Pulls, state : PullStates]
      /\ [report EXCEPT !.state = "merged"].pr = report.pr
  BY DEF IInv, RecordsOK, PullStates
<1>7. decision' \in [kind : {"none", "closed", "merged"}, pr : 0 .. MaxPulls,
                     state : PullStates \cup {"none"}, proof : {"none", "head", "git"}]
  BY <1>1, <1>3, MergeAssumption DEF PullStates, Pulls
<1>8. status \notin {"RUNNING_FINAL_TEST", "BLOCKED_ERROR"}
  BY <1>1 DEF Waiting
<1> QED BY <1>1, <1>3, <1>5, <1>6, <1>7, <1>8, DispatchStep

LEMMA VerifyStep ==
  ASSUME IInv, NEW a \in Actors, Verify(a)
  PROVE  IInv'
<1>1. task[a].pc = "verifying" /\ Holds(a)
  BY CompletingSection DEF Verify, At, Completing
<1>2. CASE /\ decision' = Merged(task[a].seen, "head")
           /\ Dispatch(a, [report EXCEPT !.state = "merged"], "CLEANING_ENV")
  BY <1>1, <1>2, MergedDecision
<1>3. CASE Fault /\ Leave(a) /\ UNCHANGED <<status, github, report, decision, marked>>
  <2>1. SpentOK' /\ GitHubGrows /\ report.state \in PullStates
    BY <1>3, SpendOK, GitHubStays DEF Fault, IInv, RecordsOK
  <2> QED BY <1>1, <1>3, <2>1, LeaveOnlyStep
<1> QED BY <1>2, <1>3 DEF Verify

LEMMA ReconcileStep ==
  ASSUME IInv, NEW a \in Actors, Reconcile(a)
  PROVE  IInv'
<1>1. task[a].pc = "reconciling" /\ Holds(a) /\ decision.kind = "none"
  BY CompletingSection DEF Reconcile, At, Completing
<1>2. CASE /\ OwnBranches(task[a].seen)
           /\ decision' = Merged(task[a].seen, "git")
           /\ Dispatch(a, [report EXCEPT !.state = "merged"], "CLEANING_ENV")
  BY <1>1, <1>2, MergedDecision
<1>3. CASE /\ decision' = decision
           /\ \/ OwnBranches(task[a].seen) /\ Dispatch(a, report, "RUNNING_FINAL_TEST")
              \/ Dispatch(a, report, "BLOCKED_ERROR")
  <2>1. PICK t \in {"RUNNING_FINAL_TEST", "BLOCKED_ERROR"} : Dispatch(a, report, t)
    BY <1>3
  <2>2. MergedIsProven' /\ report \in [pr : Pulls, state : PullStates]
        /\ decision' \in [kind : {"none", "closed", "merged"}, pr : 0 .. MaxPulls,
             state : PullStates \cup {"none"}, proof : {"none", "head", "git"}]
    BY <1>1, <1>3 DEF IInv, RecordsOK, MergedIsProven
  <2> QED BY <1>1, <1>3, <2>1, <2>2, DispatchStep
<1>4. CASE Fault /\ Leave(a) /\ UNCHANGED <<status, github, report, decision, marked>>
  <2>1. SpentOK' /\ GitHubGrows /\ report.state \in PullStates
    BY <1>4, SpendOK, GitHubStays DEF Fault, IInv, RecordsOK
  <2> QED BY <1>1, <1>4, <2>1, LeaveOnlyStep
<1> QED BY <1>2, <1>3, <1>4 DEF Reconcile

LEMMA CloseSettlesStep ==
  ASSUME IInv, NEW r \in Actors, CloseSettles(r)
  PROVE  IInv'
<1> DEFINE o == task[r].seen
<1>1. /\ r \in Actors \ Cancels /\ Holds(r) /\ task[r].pc = "waiting" /\ Truthful(o)
  BY ActorsApart DEF CloseSettles, At, IInv, SeenOK
<1>2. CASE Refuse(r)
  BY <1>1, <1>2, RefuseStep
<1>3. CASE /\ report' = [report EXCEPT !.state = "merged"] /\ Leave(r)
           /\ UNCHANGED <<status, github, decision, marked, spent>>
  <2>1. GitHubGrows /\ SpentOK' /\ "merged" \in PullStates
    BY <1>3, GitHubStays DEF IInv, SpentOK, PullStates
  <2> QED BY <1>1, <1>3, <2>1, LeaveOnlyStep
<1>4. ASSUME MayClose(o), o.state # "merged",
             decision' = [kind |-> "closed", pr |-> o.pr, state |-> o.state, proof |-> "none"],
             Dispatch(r, report, "CLEANING_ENV")
      PROVE  IInv'
  <2>1. /\ status = Waiting /\ o.pr = report.pr /\ o.state \in PullStates
        /\ report \in [pr : Pulls, state : PullStates]
    BY <1>1, <1>4 DEF MayClose, Same, Truthful, IInv, RecordsOK
  <2>2. decision' \in [kind : {"none", "closed", "merged"}, pr : 0 .. MaxPulls,
                       state : PullStates \cup {"none"}, proof : {"none", "head", "git"}]
    BY <1>4, <2>1, MergeAssumption DEF Pulls
  <2>3. MergedIsProven' /\ decision'.state # "none" /\ decision'.pr = report.pr
    BY <1>4, <2>1 DEF MergedIsProven, PullStates
  <2>4. status \notin {"RUNNING_FINAL_TEST", "BLOCKED_ERROR"}
    BY <2>1 DEF Waiting
  <2> QED BY <1>1, <1>4, <2>1, <2>2, <2>3, <2>4, DispatchStep
<1> QED BY <1>2, <1>3, <1>4 DEF CloseSettles

LEMMA CancelSettlesStep ==
  ASSUME IInv, NEW r \in Actors, CancelSettles(r)
  PROVE  IInv'
<1>1. r \in Cancels /\ Holds(r) /\ task[r].pc = "waiting" /\ TasksOK /\ QueueOK
  BY DEF CancelSettles, At, IInv
<1>2. CASE Refuse(r)
  BY <1>1, <1>2, RefuseStep
<1>3. ASSUME MayCancel, marked' = TRUE, On(r, "stopping", Asking(0)),
             UNCHANGED <<status, github, report, decision, spent>>
      PROVE  IInv'
  <2>1. 0 \in 0 .. MaxPulls
    BY MergeAssumption
  <2>2. /\ TasksOK' /\ Others(r) /\ task'[r].pc = "stopping"
        /\ task'[r].seen = Asking(0)
    BY <1>1, <1>3, <2>1, AskingTyped, GotoTyped DEF On, Pcs
  <2>3. QueueOK'
    BY <1>1, <1>3, OnQueue DEF Locked
  <2>4. decision.kind = "none" /\ status \in Open
    <3>1. CASE status = Waiting
      BY <1>3, <3>1, UndecidedMeansNone DEF MayCancel
    <3>2. CASE status # Waiting
      BY <1>3, <3>2 DEF MayCancel, Open, IInv, DecisionOK
    <3> QED BY <1>3, <3>1, <3>2 DEF MayCancel
  <2>5. SeenOK(r)' /\ SectionOK(r)'
    BY <1>1, <1>3, <2>2, <2>4 DEF SeenOK, SectionOK, Completing, Locked
  <2>6. RecordsOK' /\ SpentOK' /\ DecisionOK' /\ MergedIsProven' /\ DecisionIsCurrent'
    BY <1>3 DEF IInv, RecordsOK, SpentOK, DecisionOK, MergedIsProven, DecisionIsCurrent
  <2>7. GitHubGrows
    BY <1>3, GitHubStays
  <2> QED BY <1>1, <2>2, <2>3, <2>5, <2>6, <2>7, HolderStep
<1> QED BY <1>2, <1>3 DEF CancelSettles

LEMMA CancelStopsStep ==
  ASSUME IInv, NEW r \in Actors, CancelStops(r)
  PROVE  IInv'
<1>1. /\ task[r].pc = "stopping" /\ Holds(r) /\ Leave(r) /\ decision.kind = "none"
      /\ UNCHANGED <<github, report, decision>>
  BY DEF CancelStops, At, IInv, QueueOK, SectionOK, Locked
<1>2. SpentOK' /\ GitHubGrows
  BY <1>1, SpendOK, GitHubStays DEF CancelStops, Fault, IInv, SpentOK
<1>3. status' \in {status, "CANCELED"} /\ marked' \in {marked, FALSE}
  BY DEF CancelStops, Canceled
<1>4. RecordsOK' /\ DecisionOK' /\ MergedIsProven' /\ DecisionIsCurrent'
  BY <1>1, <1>3 DEF IInv, RecordsOK, DecisionOK, MergedIsProven, DecisionIsCurrent
<1> QED BY <1>1, <1>2, <1>4, LeaveStep, HolderStep

-----------------------------------------------------------------------------
(* Outside the lock.                                                        *)

LEMMA RedriveStep ==
  ASSUME IInv, Redrive
  PROVE  IInv'
<1>1. /\ status \in Open /\ status' = "CANCELED" /\ marked' = FALSE
      /\ UNCHANGED <<github, report, decision, task, queue, spent>>
  BY DEF Redrive, Canceled
<1>2. \A a \in Actors : task[a].pc # "stopping"
  BY DEF IInv, SeenOK, Redrive, At
<1>3. RecordsOK' /\ TasksOK' /\ QueueOK' /\ SpentOK'
  BY <1>1 DEF IInv, RecordsOK, TasksOK, QueueOK, SpentOK, Holds
<1>4. ASSUME NEW a \in Actors PROVE SeenOK(a)' /\ SectionOK(a)'
  BY <1>1, <1>2 DEF IInv, SeenOK, Truthful, SectionOK
<1>5. DecisionOK' /\ MergedIsProven' /\ DecisionIsCurrent'
  BY <1>1 DEF IInv, DecisionOK, MergedIsProven, DecisionIsCurrent
<1> QED BY <1>3, <1>4, <1>5 DEF IInv

\* No completion is under way for a ticket that is blocked or tested again.
LEMMA RetryStep ==
  ASSUME IInv, Retry
  PROVE  IInv'
<1>1. /\ status = "BLOCKED_ERROR" /\ status' = Waiting /\ marked' = FALSE
      /\ decision' = NoDecision /\ UNCHANGED <<github, report, task, queue>>
  BY DEF Retry
<1>2. SpentOK'
  BY SpendOK DEF Retry, IInv
<1>3. RecordsOK'
  <2>1. decision' \in [kind : {"none", "closed", "merged"}, pr : 0 .. MaxPulls,
             state : PullStates \cup {"none"}, proof : {"none", "head", "git"}]
    BY <1>1, MergeAssumption DEF NoDecision
  <2>2. status' \in Open /\ marked' \in BOOLEAN
    BY <1>1 DEF Open
  <2> QED BY <1>1, <2>1, <2>2 DEF IInv, RecordsOK
<1>4. TasksOK' /\ QueueOK'
  BY <1>1 DEF IInv, TasksOK, QueueOK, Holds
<1>5. ASSUME NEW a \in Actors PROVE SeenOK(a)' /\ SectionOK(a)'
  BY <1>1 DEF IInv, SeenOK, Truthful, SectionOK, NoDecision, Open, Waiting
<1>6. DecisionOK' /\ MergedIsProven' /\ DecisionIsCurrent'
  BY <1>1 DEF DecisionOK, MergedIsProven, DecisionIsCurrent, NoDecision, Waiting
<1> QED BY <1>2, <1>3, <1>4, <1>5, <1>6 DEF IInv

LEMMA RedeliverStep ==
  ASSUME IInv, Redeliver
  PROVE  IInv'
<1>1. /\ status = "RUNNING_FINAL_TEST" /\ status' = Waiting /\ decision.kind = "none"
      /\ report.pr < MaxPulls /\ report' = [pr |-> report.pr + 1, state |-> "draft"]
      /\ UNCHANGED <<github, decision, marked, task, queue, spent>>
  BY DEF Redeliver, IInv, DecisionOK
<1>2. RecordsOK'
  <2>1. report.pr \in 1 .. MaxPulls /\ MaxPulls \in Nat
    BY MergeAssumption DEF IInv, RecordsOK, Pulls
  <2>2. report' \in [pr : Pulls, state : PullStates]
    BY <1>1, <2>1 DEF Pulls, PullStates
  <2>3. RecordsOK /\ status' \in Open
    BY <1>1 DEF IInv, Open
  <2>4. github' = github /\ decision' = decision /\ marked' = marked
    BY <1>1
  <2> QED BY <2>2, <2>3, <2>4 DEF RecordsOK
<1>3. TasksOK' /\ QueueOK' /\ SpentOK'
  BY <1>1 DEF IInv, TasksOK, QueueOK, SpentOK, Holds
<1>4. ASSUME NEW a \in Actors PROVE SeenOK(a)' /\ SectionOK(a)'
  BY <1>1 DEF IInv, SeenOK, Truthful, SectionOK, Open, Waiting
<1>5. DecisionOK' /\ MergedIsProven' /\ DecisionIsCurrent'
  BY <1>1 DEF IInv, DecisionOK, MergedIsProven, DecisionIsCurrent
<1> QED BY <1>2, <1>3, <1>4, <1>5 DEF IInv

LEMMA GitHubMovesStep ==
  ASSUME IInv, GitHubMoves
  PROVE  IInv'
<1>1. UNCHANGED <<status, report, decision, marked, task, queue>> /\ SpentOK'
  BY SpendOK DEF GitHubMoves, IInv
<1>2. GitHubGrows
  <2>1. PICK p \in 1 .. report.pr :
       \/ github[p].state # "merged" /\ github' = [github EXCEPT ![p].head = "other"]
       \/ github[p].state = "draft" /\ github' = [github EXCEPT ![p].state = "open"]
       \/ github[p].state = "open" /\ github' = [github EXCEPT ![p].state = "merged"]
       \/ github[p].state \in {"draft", "open"} /\ github' = [github EXCEPT ![p].state = "closed"]
       \/ github[p].state = "closed" /\ github' = [github EXCEPT ![p].state = "open"]
       \/ /\ github[p].state \in {"draft", "open"}
          /\ \E b \in Bases \ {github[p].base} : github' = [github EXCEPT ![p].base = b]
    BY DEF GitHubMoves
  <2>2. p \in Pulls /\ github[p].state # "merged"
    BY <2>1, MergeAssumption DEF IInv, RecordsOK, Pulls
  <2> QED BY <2>1, <2>2 DEF IInv, RecordsOK, GitHubGrows, PullStates, Heads
<1>3. TasksOK' /\ QueueOK' /\ DecisionOK' /\ DecisionIsCurrent'
  BY <1>1 DEF IInv, TasksOK, QueueOK, Holds, DecisionOK, DecisionIsCurrent
<1>4. RecordsOK'
  BY <1>1, <1>2 DEF IInv, RecordsOK, GitHubGrows
<1>5. MergedIsProven'
  BY <1>1, <1>2, MergeAssumption DEF IInv, RecordsOK, DecisionIsCurrent, MergedIsProven, GitHubGrows
<1>6. ASSUME NEW a \in Actors PROVE SeenOK(a)' /\ SectionOK(a)'
  BY <1>1, <1>2, OthersSee DEF IInv, SectionOK
<1> QED BY <1>1, <1>3, <1>4, <1>5, <1>6 DEF IInv

\* A state in which nobody does anything.
LEMMA AllIdle ==
  task = [a \in Actors |-> Idle] /\ queue = << >> =>
    TasksOK /\ QueueOK /\ \A a \in Actors : SeenOK(a) /\ SectionOK(a)
<1> SUFFICES ASSUME task = [a \in Actors |-> Idle], queue = << >>
             PROVE  TasksOK /\ QueueOK /\ \A a \in Actors : SeenOK(a) /\ SectionOK(a)
  OBVIOUS
<1>1. Idle.pc = "idle" /\ \A a \in Actors : task[a].pc = "idle"
  BY DEF Idle
<1>2. TasksOK
  BY MergeAssumption DEF TasksOK, Idle, Asking, Pcs
<1>3. QueueOK
  BY <1>1 DEF QueueOK, IsInjective, ToSet, Locked
<1>4. \A a \in Actors : SeenOK(a) /\ SectionOK(a)
  BY <1>1 DEF SeenOK, SectionOK, Completing, Locked
<1> QED BY <1>2, <1>3, <1>4

LEMMA CrashStep ==
  ASSUME IInv, Crash
  PROVE  IInv'
<1>1. UNCHANGED <<status, github, report, decision, marked>> /\ SpentOK'
  BY SpendOK DEF Crash, IInv
<1>2. (TasksOK /\ QueueOK /\ \A a \in Actors : SeenOK(a) /\ SectionOK(a))'
  <2>1. (task = [a \in Actors |-> Idle] /\ queue = << >>)'
    BY DEF Crash
  <2> QED BY <2>1, AllIdle, PTL
<1>3. RecordsOK' /\ DecisionOK' /\ MergedIsProven' /\ DecisionIsCurrent'
  BY <1>1 DEF IInv, RecordsOK, DecisionOK, MergedIsProven, DecisionIsCurrent
<1> QED BY <1>1, <1>2, <1>3 DEF IInv

\* Edits in the worktree touch nothing else.
LEMMA WorktreeChangesStep ==
  ASSUME IInv, WorktreeChanges
  PROVE  IInv'
<1>1. UNCHANGED <<status, github, report, decision, marked, task, queue>> /\ SpentOK'
  BY SpendOK DEF WorktreeChanges, IInv
<1> QED BY <1>1 DEF IInv, RecordsOK, TasksOK, QueueOK, Holds, SeenOK, Truthful, SectionOK,
           DecisionOK, MergedIsProven, DecisionIsCurrent

-----------------------------------------------------------------------------
(* The theorems.                                                            *)

LEMMA InitEstablishes == Init => IInv
<1> SUFFICES ASSUME Init PROVE IInv
  OBVIOUS
<1>1. TasksOK /\ QueueOK /\ \A a \in Actors : SeenOK(a) /\ SectionOK(a)
  BY AllIdle DEF Init
<1>2. RecordsOK
  <2>1. status \in Open /\ marked \in BOOLEAN
    BY DEF Init, Open
  <2>2. github \in [Pulls -> [state : PullStates, head : Heads, base : Bases]]
    BY DEF Init, PullStates, Heads, Bases
  <2>3. report \in [pr : Pulls, state : PullStates]
    BY MergeAssumption DEF Init, Pulls, PullStates
  <2>4. decision \in [kind : {"none", "closed", "merged"}, pr : 0 .. MaxPulls,
             state : PullStates \cup {"none"}, proof : {"none", "head", "git"}]
    BY MergeAssumption DEF Init, NoDecision
  <2> QED BY <2>1, <2>2, <2>3, <2>4 DEF RecordsOK
<1>3. SpentOK
  BY MergeAssumption DEF Init, SpentOK
<1>4. DecisionOK /\ MergedIsProven /\ DecisionIsCurrent
  BY DEF Init, DecisionOK, MergedIsProven, DecisionIsCurrent, NoDecision
<1> QED BY <1>1, <1>2, <1>3, <1>4 DEF IInv

LEMMA NextKeeps == IInv /\ [Next]_vars => IInv'
<1> SUFFICES ASSUME IInv, [Next]_vars PROVE IInv'
  OBVIOUS
<1>1. ASSUME NEW a \in Actors, Step(a) PROVE IInv'
  BY <1>1, ReadStep, VerifyStep, ReconcileStep, MarkReadyStep, MergeRemotelyStep,
     LookStep, PollerSettlesStep, MergeSettlesStep, CloseSettlesStep,
     CancelSettlesStep, CancelStopsStep DEF Step
<1>2. CASE UNCHANGED vars
  BY <1>2 DEF vars, IInv, RecordsOK, TasksOK, QueueOK, SpentOK, Holds, SeenOK, Truthful,
     SectionOK, DecisionOK, MergedIsProven, DecisionIsCurrent
<1> QED BY <1>1, <1>2, PollStep, AskStep, RedriveStep, RetryStep, RedeliverStep,
           GitHubMovesStep, WorktreeChangesStep, CrashStep DEF Next

LEMMA MergeInvariant == Spec => []IInv
  BY InitEstablishes, NextKeeps, PTL DEF Spec

LEMMA CleanTyped == Spec => [](clean \in BOOLEAN)
<1>1. clean \in BOOLEAN /\ [Next]_vars => (clean \in BOOLEAN)'
  BY DEF Next, vars, Poll, Ask, Redrive, Retry, Redeliver, GitHubMoves, WorktreeChanges, Crash
<1>2. Init => clean \in BOOLEAN
  BY DEF Init
<1> QED BY <1>1, <1>2, PTL DEF Spec

\* What is recorded of a review is true of GitHub and about the ticket's present
\* pull request, and is never about to be lost to a Retry: for any number of
\* requests, new pull requests, failing calls and crashes
\* (completeTicketMerge, handleCloseUnmergedTicketLocked, the merge poller).
THEOREM DecisionsSound == Spec => []DecisionIsSound
<1>1. IInv /\ clean \in BOOLEAN => DecisionIsSound
  <2> SUFFICES ASSUME IInv, clean \in BOOLEAN PROVE DecisionIsSound
    OBVIOUS
  <2>1. TypeOK
    BY DEF IInv, RecordsOK, TasksOK, QueueOK, SpentOK, TypeOK
  <2>2. MergedIsProven /\ DecisionIsCurrent
    BY DEF IInv
  <2>3. BlockedIsUndecided
    BY DEF IInv, DecisionOK, BlockedIsUndecided, Undecided, Decided
  <2> QED BY <2>1, <2>2, <2>3 DEF DecisionIsSound
<1> QED BY <1>1, MergeInvariant, CleanTyped, PTL

\* The exits from a decision: its event, or a cancellation begun before it.
LEMMA DecidedStep ==
  ASSUME IInv, Next, decision.kind # "none"
  PROVE  /\ decision' = decision
         /\ \/ status' \in {status, "CLEANING_ENV"}
            \/ marked /\ status' = "CANCELED" /\ \A r \in Cancels : ~At(r, "stopping")
<1>1. status \notin {"RUNNING_FINAL_TEST", "BLOCKED_ERROR"} /\ ~Undecided
  BY UndecidedMeansNone DEF IInv, DecisionOK
<1>2. \A a \in Actors : task[a].pc \notin Locked
  BY DEF IInv, SectionOK
<1>3. ASSUME NEW a \in Actors, Step(a)
      PROVE  decision' = decision /\ status' \in {status, "CLEANING_ENV"}
  <2>1. ~Verify(a) /\ ~Reconcile(a) /\ ~MarkReady(a) /\ ~MergeRemotely(a) /\ ~CancelStops(a)
    BY <1>2 DEF Verify, Reconcile, MarkReady, MergeRemotely, CancelStops, At, Locked
  <2>2. ASSUME Resume(a) PROVE decision' = decision /\ status' \in {status, "CLEANING_ENV"}
    BY <2>2 DEF Resume, Dispatch
  <2>3. CASE Read(a)
    BY <2>3 DEF Read
  <2>4. CASE a = Poller /\ Look
    BY <1>1, <2>2, <2>4 DEF Look
  <2>5. CASE a = Poller /\ PollerSettles
    BY <1>1, <2>2, <2>5 DEF PollerSettles, Refuse
  <2>6. CASE MergeSettles(a)
    BY <1>1, <2>2, <2>6 DEF MergeSettles, Refuse
  <2>7. CASE CloseSettles(a)
    BY <1>1, <2>7 DEF CloseSettles, Refuse, MayClose
  <2>8. CASE CancelSettles(a)
    BY <2>8 DEF CancelSettles, Refuse
  <2> QED BY <1>3, <2>1, <2>3, <2>4, <2>5, <2>6, <2>7, <2>8 DEF Step
<1>4. CASE Redrive
  BY <1>4 DEF Redrive, Canceled
<1>5. CASE Poll \/ (\E r \in Requests : Ask(r)) \/ GitHubMoves \/ WorktreeChanges \/ Crash
  BY <1>5 DEF Poll, Ask, GitHubMoves, WorktreeChanges, Crash
<1>6. ~Retry /\ ~Redeliver
  BY <1>1 DEF Retry, Redeliver
<1> QED BY <1>3, <1>4, <1>5, <1>6 DEF Next

\* A recorded decision is neither replaced nor overtaken, whatever requests,
\* polls, failures and crashes come in between.
THEOREM DecisionsStand == Spec => DecisionStands
<1>1. IInv /\ [Next]_vars =>
        [decision.kind # "none" =>
           /\ decision' = decision
           /\ \/ status' \in {status, "CLEANING_ENV"}
              \/ marked /\ status' = "CANCELED" /\ \A r \in Cancels : ~At(r, "stopping")]_vars
  BY DecidedStep
<1> QED BY <1>1, MergeInvariant, PTL DEF Spec, DecisionStands
=============================================================================
