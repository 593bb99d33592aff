---------------------------- MODULE EventStream ----------------------------
(***************************************************************************)
(* The event stream of one ticket: the broadcaster with its replay buffer, *)
(* the stream route, and browser tabs that listen, lose the connection,    *)
(* reconnect with a cursor, and share the stored cursor.                   *)
(*                                                                         *)
(* Event n is the n-th broadcast: `plain`, a streaming `upsert` of a log   *)
(* entry, or the `final` form of that entry, which stands for its upserts. *)
(* What a tab shows is the set of events its caches reflect.  A refetch    *)
(* reflects all events so far (what an event tells is stored before it is  *)
(* broadcast).  The ticket's own row, which is polled too, is left out.    *)
(*                                                                         *)
(* Bounds: MaxEvents, MaxDrops lost connections, MaxLeaves departures from *)
(* the ticket, MaxRestarts of the server.                                  *)
(***************************************************************************)
EXTENDS Naturals, Sequences, FiniteSets

CONSTANTS
  Tabs,         \* browser tabs
  BufferSize,   \* maxBufferSize
  MaxStreams,   \* MAX_SSE_CONNECTIONS_PER_TICKET
  MaxEvents, MaxDrops, MaxLeaves, MaxRestarts

ASSUME StreamAssumption ==
  /\ BufferSize \in Nat \ {0} /\ MaxStreams \in Nat \ {0}
  /\ {MaxEvents, MaxDrops, MaxLeaves, MaxRestarts} \subseteq Nat

VARIABLES
  events,    \* the kind of every event broadcast
  buffer,    \* the events that can be replayed, oldest first
  live,      \* tabs whose connection the server serves
  stale,     \* connections lost that the server has not noticed yet
  channel,   \* what is on its way to each tab
  stored,    \* the cursor in the browser's storage
  pc,        \* new, away, waiting to connect, asking, or open
  cursor,    \* the last event a tab has handled, 0 for none
  recover,   \* the tab refetches when the stream opens
  fresh,     \* it has refetched on this connection
  asked,     \* a refetch is under way
  known,     \* events a tab's caches reflect
  drops, leaves, restarts,
  last,      \* ghost: the latest event a tab received since it came
  blind,     \* ghost: events before a connection without a cursor, after its fetch
  skipped    \* ghost: events before a cursor that another tab had stored

server == <<events, buffer, live, stale, channel>>
tab == <<pc, cursor, recover, fresh, asked, known, stored>>
counts == <<drops, leaves, restarts>>
ghost == <<last, blind, skipped>>
vars == <<server, tab, counts, ghost>>

-----------------------------------------------------------------------------
Sent == 1 .. Len(events)
Gap == 0
In(n, b) == \E i \in DOMAIN b : b[i] = n

\* The entries of b that are in S, in their order.
Filter(b, S) ==
  LET kept[i \in 0 .. Len(b)] ==
        IF i = 0 THEN <<>>
        ELSE IF b[i] \in S THEN Append(kept[i - 1], b[i]) ELSE kept[i - 1]
  IN kept[Len(b)]

IsUpsert(n) == events[n] = "upsert"
Upserts == {n \in Sent : IsUpsert(n)}
Streams == stale + Cardinality(live)
Away(t) == pc[t] \in {"new", "away"}

-----------------------------------------------------------------------------
(* broadcaster.ts                                                          *)

\* trimBuffer: the oldest events go.
Trim(b) == IF Len(b) > BufferSize THEN SubSeq(b, Len(b) + 1 - BufferSize, Len(b)) ELSE b

\* Mutant: an upsert takes the place of the one before it.
BufferedInPlace(n, kind) ==
  LET at == {i \in DOMAIN buffer : IsUpsert(buffer[i])} IN
  IF kind = "upsert" /\ at # {}
    THEN [i \in DOMAIN buffer |-> IF i \in at THEN n ELSE buffer[i]]
    ELSE Trim(Append(Filter(buffer, IF kind = "plain" THEN Sent ELSE Sent \ Upserts), n))

\* bufferEvent: a form of the entry removes the upsert before it, and is put
\* at the end.
Buffered(n, kind) ==
  Trim(Append(Filter(buffer, IF kind = "plain" THEN Sent ELSE Sent \ Upserts), n))

Broadcast(kind) ==
  LET n == Len(events) + 1 IN
  /\ Len(events) < MaxEvents
  /\ events' = Append(events, kind)
  /\ buffer' = Buffered(n, kind)
  /\ channel' = [t \in Tabs |-> IF t \in live THEN Append(channel[t], n) ELSE channel[t]]
  /\ UNCHANGED <<live, stale, tab, counts, ghost>>

\* cleanup: the oldest event has expired.
Expire ==
  /\ buffer # <<>>
  /\ buffer' = Tail(buffer)
  /\ UNCHANGED <<events, live, stale, channel, tab, counts, ghost>>

\* Mutant: the event of the cursor is replayed again.
ReplayFromCursor(n) ==
  IF In(n, buffer) THEN Filter(buffer, n .. Len(events)) ELSE <<Gap>>

\* getEventsSince: without the cursor's event continuity cannot be shown.
Replay(n) ==
  IF In(n, buffer) THEN Filter(buffer, n + 1 .. Len(events)) ELSE <<Gap>>

\* Mutant: a connection that is lost keeps its place.
NoticeNothing == FALSE /\ UNCHANGED vars

\* A write to a lost connection, or its heartbeat, fails.
Notice ==
  /\ stale > 0
  /\ stale' = stale - 1
  /\ UNCHANGED <<events, buffer, live, channel, tab, counts, ghost>>

\* The server ends and starts: buffer and connections are gone.
Restart ==
  /\ restarts < MaxRestarts
  /\ restarts' = restarts + 1
  /\ buffer' = <<>> /\ live' = {} /\ stale' = 0
  /\ UNCHANGED <<events, channel, tab, drops, leaves, ghost>>

-----------------------------------------------------------------------------
(* useSSE.ts                                                               *)

\* The ticket is opened in a tab.  What is not in its caches is fetched, as is
\* what has become stale there by its age.
Come(t) ==
  /\ Away(t)
  /\ pc' = [pc EXCEPT ![t] = "waiting"]
  /\ cursor' = [cursor EXCEPT ![t] = stored]
  /\ recover' = [recover EXCEPT ![t] = stored # 0]
  /\ \E old \in BOOLEAN : asked' = [asked EXCEPT ![t] = @ \/ old \/ pc[t] = "new"]
  /\ last' = [last EXCEPT ![t] = 0]
  /\ UNCHANGED <<server, fresh, known, stored, counts, blind, skipped>>

\* The stream is asked for, with the cursor if there is one: the reservation,
\* the queued replay and the activation are one turn of the server.
Connect(t) ==
  /\ pc[t] = "waiting" /\ Streams < MaxStreams
  /\ pc' = [pc EXCEPT ![t] = "asking"]
  /\ live' = live \cup {t}
  /\ channel' = [channel EXCEPT ![t] = IF cursor[t] = 0 THEN <<>> ELSE Replay(cursor[t])]
  /\ fresh' = [fresh EXCEPT ![t] = FALSE]
  /\ blind' = [blind EXCEPT ![t] =
       IF cursor[t] = 0 /\ ~recover[t] THEN @ \cup (Sent \ known[t]) ELSE @]
  /\ UNCHANGED <<events, buffer, stale, cursor, recover, asked, known, stored,
                 counts, last, skipped>>

\* onerror: the next open refetches only if there is no cursor to replay from.
Again(t) ==
  /\ pc' = [pc EXCEPT ![t] = "waiting"]
  /\ recover' = [recover EXCEPT ![t] = cursor[t] = 0]
  /\ skipped' = [skipped EXCEPT ![t] =
       IF recover[t] THEN @ \cup {n \in Sent : n <= cursor[t] /\ n \notin known[t]} ELSE @]

\* Too many streams.
Refuse(t) ==
  /\ pc[t] = "waiting" /\ Streams >= MaxStreams
  /\ Again(t)
  /\ UNCHANGED <<server, cursor, fresh, asked, known, stored, counts, last, blind>>

Open(t) ==
  /\ pc[t] = "asking"
  /\ pc' = [pc EXCEPT ![t] = "open"]
  /\ recover' = [recover EXCEPT ![t] = FALSE]
  /\ asked' = [asked EXCEPT ![t] = @ \/ recover[t]]
  /\ fresh' = [fresh EXCEPT ![t] = recover[t]]
  /\ UNCHANGED <<server, cursor, known, stored, counts, ghost>>

\* An event is taken in and becomes the cursor.
Receive(t) ==
  /\ pc[t] = "open" /\ channel[t] # <<>> /\ Head(channel[t]) # Gap
  /\ LET n == Head(channel[t]) IN
       /\ cursor' = [cursor EXCEPT ![t] = n]
       /\ stored' = n
       /\ known' = [known EXCEPT ![t] = @ \cup {n}]
       /\ last' = [last EXCEPT ![t] = n]
  /\ channel' = [channel EXCEPT ![t] = Tail(@)]
  /\ UNCHANGED <<events, buffer, live, stale, pc, recover, fresh, asked, counts,
                 blind, skipped>>

\* replay_gap: the cursor is given up and all of the ticket refetched.
ReceiveGap(t) ==
  /\ pc[t] = "open" /\ channel[t] # <<>> /\ Head(channel[t]) = Gap
  /\ cursor' = [cursor EXCEPT ![t] = 0] /\ stored' = 0
  /\ recover' = [recover EXCEPT ![t] = FALSE]
  /\ asked' = [asked EXCEPT ![t] = @ \/ ~fresh[t]]
  /\ fresh' = [fresh EXCEPT ![t] = TRUE]
  /\ channel' = [channel EXCEPT ![t] = Tail(@)]
  /\ UNCHANGED <<events, buffer, live, stale, pc, known, counts, ghost>>

Refetched(t) ==
  /\ asked[t] /\ ~Away(t)
  /\ asked' = [asked EXCEPT ![t] = FALSE]
  /\ known' = [known EXCEPT ![t] = Sent]
  /\ UNCHANGED <<server, pc, cursor, recover, fresh, stored, counts, ghost>>

\* The server's end of a connection stays until it notices.
Hangs(t) ==
  /\ stale' = IF t \in live THEN stale + 1 ELSE stale
  /\ live' = live \ {t}
  /\ channel' = [channel EXCEPT ![t] = <<>>]

\* The connection is lost, by the server's end too.
Drop(t) ==
  /\ pc[t] \in {"asking", "open"}
  /\ t \in live => drops < MaxDrops
  /\ drops' = IF t \in live THEN drops + 1 ELSE drops
  /\ Hangs(t)
  /\ Again(t)
  /\ UNCHANGED <<events, buffer, cursor, fresh, asked, known, stored, leaves, restarts,
                 last, blind>>

\* The user goes to another ticket.  The caches stay.
Leave(t) ==
  /\ ~Away(t) /\ leaves < MaxLeaves
  /\ leaves' = leaves + 1
  /\ pc' = [pc EXCEPT ![t] = "away"]
  /\ Hangs(t)
  /\ UNCHANGED <<events, buffer, cursor, recover, fresh, asked, known, stored,
                 drops, restarts, ghost>>

-----------------------------------------------------------------------------
Init ==
  /\ events = <<>> /\ buffer = <<>> /\ live = {} /\ stale = 0
  /\ channel = [t \in Tabs |-> <<>>]
  /\ stored = 0
  /\ pc = [t \in Tabs |-> "new"]
  /\ cursor = [t \in Tabs |-> 0]
  /\ recover = [t \in Tabs |-> FALSE]
  /\ fresh = [t \in Tabs |-> FALSE]
  /\ asked = [t \in Tabs |-> FALSE]
  /\ known = [t \in Tabs |-> {}]
  /\ drops = 0 /\ leaves = 0 /\ restarts = 0
  /\ last = [t \in Tabs |-> 0]
  /\ blind = [t \in Tabs |-> {}]
  /\ skipped = [t \in Tabs |-> {}]

Next ==
  \/ \E kind \in {"plain", "upsert", "final"} : Broadcast(kind)
  \/ Expire \/ Notice \/ Restart
  \/ \E t \in Tabs :
       \/ Come(t) \/ Connect(t) \/ Refuse(t) \/ Open(t) \/ Receive(t) \/ ReceiveGap(t)
       \/ Refetched(t) \/ Drop(t) \/ Leave(t)

Fairness ==
  /\ WF_vars(Notice)
  /\ \A t \in Tabs :
       /\ WF_vars(Open(t) \/ Receive(t) \/ ReceiveGap(t))
       /\ WF_vars(Refetched(t))
       /\ WF_vars(t \notin live /\ Drop(t))
       /\ WF_vars(Connect(t))

Spec == Init /\ [][Next]_vars
FairSpec == Spec /\ Fairness

-----------------------------------------------------------------------------
\* Every variable keeps its type, and the buffer and the number of streams
\* their limits.
TypeOK ==
  /\ events \in Seq({"plain", "upsert", "final"})
  /\ buffer \in Seq(Sent) /\ Len(buffer) <= BufferSize
  /\ live \subseteq Tabs /\ stale \in Nat /\ Streams <= MaxStreams
  /\ channel \in [Tabs -> Seq({Gap} \cup Sent)]
  /\ stored \in {0} \cup Sent
  /\ pc \in [Tabs -> {"new", "away", "waiting", "asking", "open"}]
  /\ cursor \in [Tabs -> {0} \cup Sent]
  /\ {recover, fresh, asked} \subseteq [Tabs -> BOOLEAN]
  /\ known \in [Tabs -> SUBSET Sent]
  /\ last \in [Tabs -> {0} \cup Sent]
  /\ {blind, skipped} \subseteq [Tabs -> SUBSET Sent]

\* A later form of the same entry.
Supersedes(m, n) == m > n /\ IsUpsert(n) /\ events[m] # "plain"

\* What event n told is on the screen, or comes with an event after the cursor.
Reflected(t, n) ==
  n \in known[t] \/ \E m \in Sent : Supersedes(m, n) /\ (m \in known[t] \/ m > cursor[t])

\* A cursor is honest: whatever lies before it is reflected, or a refetch is
\* under way or due at the next open.
CursorIsHonest ==
  \A t \in Tabs : \A n \in Sent :
    ~Away(t) /\ n <= cursor[t] =>
      Reflected(t, n) \/ asked[t] \/ recover[t] \/ n \in blind[t] \cup skipped[t]

CaughtUp(t) ==
  pc[t] = "open" /\ t \in live /\ channel[t] = <<>> /\ ~asked[t]

\* Nothing is lost in silence: a tab that has taken in all it was sent reflects
\* every event, through drops, evictions, expiry, restarts and coalescing.
NothingLost ==
  \A t \in Tabs : CaughtUp(t) =>
    \A n \in Sent \ (blind[t] \cup skipped[t]) :
      n \in known[t] \/ \E m \in known[t] : Supersedes(m, n)

\* "a non-zero cursor still bridges the outage quietly through the server's
\* replay buffer": a tab that reconnects with a cursor misses nothing.
CursorBridges ==
  \A t \in Tabs : CaughtUp(t) =>
    \A n \in Sent \ blind[t] :
      n \in known[t] \/ \E m \in known[t] : Supersedes(m, n)

\* While a ticket is on screen its events arrive in order and none twice: live
\* events follow the replay, a replay begins after the cursor, and a gap comes
\* before all of them.
ArrivesInOrder ==
  \A t \in Tabs : \A i \in DOMAIN channel[t] :
    LET n == channel[t][i] IN
    IF n = Gap THEN i = 1
    ELSE n > cursor[t] /\ n > last[t] /\ \A j \in 1 .. i - 1 : channel[t][j] < n

\* Replay and live events join as one: nothing twice, nothing out of order, and
\* no cursor that claims more than was shown.
ReplayIsHonest == TypeOK /\ CursorIsHonest /\ ArrivesInOrder

\* A tab that stays on the ticket is connected again and has all it was sent.
StreamRecovers == \A t \in Tabs : <>[](Away(t) \/ CaughtUp(t))
=============================================================================
