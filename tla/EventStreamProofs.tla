------------------------- MODULE EventStreamProofs -------------------------
(***************************************************************************)
(* What EventStream keeps for any number of tabs, events, lost connections *)
(* and restarts, and any size of the buffer: what is replayed and what     *)
(* comes live join as one, and a tab that has taken in what it was sent    *)
(* reflects every event.                                                   *)
(***************************************************************************)
EXTENDS EventStream, SequenceTheorems, FiniteSetTheorems, TLAPS

-----------------------------------------------------------------------------
(* The inductive invariant.                                                *)

Ascending(b) == \A i, j \in DOMAIN b : i < j => b[i] < b[j]

\* What is in the buffer, or a later form of it that is.
BufferCovers ==
  \A n, m \in Sent : In(n, buffer) /\ n < m =>
    \E k \in Sent : In(k, buffer) /\ (k = m \/ Supersedes(k, m))

Connecting(t) == pc[t] \in {"asking", "open"}

\* Events that are on their way to the tab, as far as its connection reaches.
InReach(t, m) == t \in live \/ \E j \in DOMAIN channel[t] : m <= channel[t][j]

\* The tab reflects m, or will when it has taken in what is on its way.
Covered(t, m) ==
  \E k \in Sent : (k = m \/ Supersedes(k, m)) /\ (k \in known[t] \/ In(k, channel[t]))

\* A first connection does not ask for what came before it.
BeforeFirst(t, m) ==
  cursor[t] = 0 /\ m \in blind[t] /\ \A j \in DOMAIN channel[t] : m < channel[t][j]

\* What comes after the cursor is covered, or a refetch is under way or due.
AfterCursor(t) ==
  Connecting(t) /\ ~In(Gap, channel[t]) =>
    \A m \in Sent : m > cursor[t] /\ InReach(t, m) =>
      Covered(t, m) \/ asked[t] \/ recover[t] \/ BeforeFirst(t, m)

\* A tab that has refetched on this connection lacks only what is on its way.
FreshKnows(t) ==
  pc[t] = "open" /\ fresh[t] /\ ~asked[t] =>
    \A m \in Sent : InReach(t, m) => m \in known[t] \/ In(m, channel[t])

\* What CursorIsHonest and ArrivesInOrder say of one tab.
Honest(t) ==
  ~Away(t) => \A n \in Sent : n <= cursor[t] =>
    Reflected(t, n) \/ asked[t] \/ recover[t] \/ n \in blind[t] \cup skipped[t]

InOrder(t) ==
  \A i \in DOMAIN channel[t] :
    IF channel[t][i] = Gap THEN i = 1
    ELSE /\ channel[t][i] > cursor[t] /\ channel[t][i] > last[t]
         /\ \A j \in 1 .. i - 1 : channel[t][j] < channel[t][i]

TabOK(t) ==
  /\ ~Connecting(t) => t \notin live /\ channel[t] = <<>>
  /\ cursor[t] # 0 => last[t] <= cursor[t]
  /\ pc[t] = "open" => ~recover[t]
  /\ InOrder(t) /\ Honest(t) /\ FreshKnows(t) /\ AfterCursor(t)

IInv ==
  /\ TypeOK /\ IsFiniteSet(live)
  /\ Ascending(buffer) /\ BufferCovers
  /\ \A t \in Tabs : TabOK(t)

-----------------------------------------------------------------------------
(* Sequences of event numbers.                                             *)

LEMMA Appended ==
  ASSUME NEW T, NEW s \in Seq(T), NEW x \in T
  PROVE  /\ Append(s, x) \in Seq(T) /\ Len(s) \in Nat
         /\ DOMAIN s = 1 .. Len(s) /\ DOMAIN Append(s, x) = 1 .. Len(s) + 1
         /\ Len(Append(s, x)) = Len(s) + 1
         /\ \A k \in 1 .. Len(s) : Append(s, x)[k] = s[k]
         /\ Append(s, x)[Len(s) + 1] = x
         /\ \A n : In(n, Append(s, x)) <=> In(n, s) \/ n = x
<1>1. /\ Append(s, x) \in Seq(T) /\ Len(s) \in Nat
      /\ DOMAIN s = 1 .. Len(s) /\ Len(Append(s, x)) = Len(s) + 1
      /\ \A k \in 1 .. Len(s) : Append(s, x)[k] = s[k]
      /\ Append(s, x)[Len(s) + 1] = x
  BY AppendProperties
<1>2. DOMAIN Append(s, x) = 1 .. Len(s) + 1
  BY <1>1
<1>3. \A k : k \in 1 .. Len(s) + 1 <=> k \in 1 .. Len(s) \/ k = Len(s) + 1
  BY <1>1
<1> QED BY <1>1, <1>2, <1>3, Zenon DEF In

LEMMA SeqGrows ==
  ASSUME NEW S, NEW T, S \subseteq T, NEW s \in Seq(S)
  PROVE  s \in Seq(T)
OBVIOUS

LEMMA AppendAscends ==
  ASSUME NEW s \in Seq(Nat), NEW x \in Nat, Ascending(s), \A k \in DOMAIN s : s[k] < x
  PROVE  Ascending(Append(s, x))
<1> DEFINE r == Append(s, x)
<1>1. /\ Len(s) \in Nat /\ DOMAIN s = 1 .. Len(s) /\ DOMAIN r = 1 .. Len(s) + 1
      /\ \A k \in 1 .. Len(s) : r[k] = s[k]
      /\ r[Len(s) + 1] = x
  BY Appended
<1> HIDE DEF r
<1>2. ASSUME NEW i \in DOMAIN r, NEW j \in DOMAIN r, i < j PROVE r[i] < r[j]
  <2>1. i \in DOMAIN s
    BY <1>1, <1>2
  <2>2. CASE j \in DOMAIN s
    BY <1>1, <1>2, <2>1, <2>2 DEF Ascending
  <2>3. CASE j \notin DOMAIN s
    <3>1. j = Len(s) + 1
      BY <1>1, <2>3
    <3> QED BY <1>1, <2>1, <3>1
  <2> QED BY <2>2, <2>3
<1> QED BY <1>2 DEF Ascending, r

-----------------------------------------------------------------------------
(* Filtering a buffer.                                                     *)

\* A set with 0 that contains n + 1 with every n holds all natural numbers.
LEMMA Induction ==
  ASSUME NEW P, 0 \in P, \A n \in Nat : n \in P => n + 1 \in P
  PROVE  Nat \subseteq P
<1> SUFFICES ASSUME NEW k \in Nat, k \notin P PROVE FALSE
  OBVIOUS
<1> DEFINE Q == {n \in Nat : n \notin P}
<1>1. PICK R : IsWellFoundedOn(R, Nat) /\ \A x, y \in Nat : y < x => <<y, x>> \in R
  BY NatLessThanWellFounded DEF OpToRel
<1>2. PICK n \in Q : \A m \in Q : <<m, n>> \notin R
  BY <1>1, WFMin
<1>3. n # 0 /\ n \in Nat /\ n \notin P
  BY <1>2
<1>4. n - 1 \in Nat /\ n - 1 < n /\ (n - 1) + 1 = n
  BY <1>3
<1> QED BY <1>1, <1>2, <1>3, <1>4

\* The equation of the function in Filter.
Filters(f, b, S) ==
  f = [i \in 0 .. Len(b) |->
         IF i = 0 THEN <<>>
         ELSE IF b[i] \in S THEN Append(f[i - 1], b[i]) ELSE f[i - 1]]

LEMMA FilterExists ==
  ASSUME NEW b \in Seq(Nat), NEW S
  PROVE  \E f : Filters(f, b, S)
<1> DEFINE Next1(f) == [i \in 0 .. Len(b) |->
                          IF i = 0 THEN <<>>
                          ELSE IF b[i] \in S THEN Append(f[i - 1], b[i]) ELSE f[i - 1]]
           Upto(f, n) == \A i \in 0 .. Len(b) : i <= n => f[i] = Next1(f)[i]
           P == {n \in Nat : \E f : Upto(f, n)}
<1>0. Len(b) \in Nat
  OBVIOUS
<1>1. 0 \in P
  <2>1. Upto([i \in 0 .. Len(b) |-> <<>>], 0)
    BY <1>0
  <2> QED BY <2>1
<1>2. ASSUME NEW n \in Nat, n \in P PROVE n + 1 \in P
  <2>1. PICK f : Upto(f, n)
    BY <1>2
  <2> DEFINE g == Next1(f)
  <2>2. ASSUME NEW i \in 0 .. Len(b), i <= n + 1 PROVE g[i] = Next1(g)[i]
    <3>1. CASE i = 0
      BY <3>1
    <3>2. CASE i # 0
      <4>1. i - 1 \in 0 .. Len(b) /\ i - 1 <= n
        BY <1>0, <2>2, <3>2
      <4>2. g[i - 1] = f[i - 1]
        BY <2>1, <4>1
      <4> QED BY <3>2, <4>2
    <3> QED BY <3>1, <3>2
  <2>3. Upto(g, n + 1)
    BY <2>2
  <2>4. n + 1 \in Nat
    OBVIOUS
  <2> HIDE DEF g, Upto
  <2> QED BY <2>3, <2>4
<1>3. Len(b) \in P
  <2> HIDE DEF P
  <2> QED BY <1>0, <1>1, <1>2, Induction
<1>4. PICK f : Upto(f, Len(b))
  BY <1>3
<1>5. \A i \in 0 .. Len(b) : f[i] = Next1(f)[i]
  BY <1>0, <1>4
<1>6. \A i \in 0 .. Len(b) : Next1(f)[i] = Next1(Next1(f))[i]
  <2> SUFFICES ASSUME NEW i \in 0 .. Len(b) PROVE Next1(f)[i] = Next1(Next1(f))[i]
    OBVIOUS
  <2>1. CASE i = 0
    BY <2>1
  <2>2. CASE i # 0
    <3>1. i - 1 \in 0 .. Len(b)
      BY <1>0, <2>2
    <3>2. Next1(f)[i - 1] = f[i - 1]
      BY <1>5, <3>1
    <3> QED BY <2>2, <3>2
  <2> QED BY <2>1, <2>2
<1>7. Filters(Next1(f), b, S)
  BY <1>6, Zenon DEF Filters
<1> QED BY <1>7

LEMMA FilterIs ==
  ASSUME NEW b, NEW S, \E f : Filters(f, b, S)
  PROVE  \E f : Filters(f, b, S) /\ Filter(b, S) = f[Len(b)]
BY Zenon DEF Filter, Filters

\* What is filtered is in S, is all of b that is, and stays in order.
LEMMA FilterKeeps ==
  ASSUME NEW b \in Seq(Nat), Ascending(b), NEW S
  PROVE  /\ Filter(b, S) \in Seq(Nat) /\ Len(Filter(b, S)) <= Len(b)
         /\ Ascending(Filter(b, S))
         /\ \A n : In(n, Filter(b, S)) <=> In(n, b) /\ n \in S
<1>1. PICK f : Filters(f, b, S) /\ Filter(b, S) = f[Len(b)]
  BY FilterExists, FilterIs
<1> DEFINE Good(i) == /\ f[i] \in Seq(Nat) /\ Len(f[i]) <= i /\ Ascending(f[i])
                      /\ \A n : In(n, f[i]) <=> \E j \in 1..i : b[j] = n /\ n \in S
           P == {i \in Nat : i <= Len(b) => Good(i)}
<1>2. 0 \in P
  <2>1. f[0] = <<>>
    BY <1>1 DEF Filters
  <2>2. Good(0)
    BY <2>1 DEF Ascending, In
  <2> QED BY <2>2
<1>3. ASSUME NEW i \in Nat, i \in P PROVE i + 1 \in P
  <2> SUFFICES ASSUME i + 1 <= Len(b) PROVE Good(i + 1)
    OBVIOUS
  <2> DEFINE x == b[i + 1]
  <2>1. Good(i) /\ x \in Nat
    <3>1. i <= Len(b) /\ i + 1 \in 1 .. Len(b)
      OBVIOUS
    <3>2. x \in Nat
      BY <3>1
    <3>3. Good(i)
      <4> HIDE DEF Good
      <4> QED BY <1>3, <3>1
    <3> QED BY <3>2, <3>3
  <2>2. f[i + 1] = IF x \in S THEN Append(f[i], x) ELSE f[i]
    <3>1. i + 1 \in 0 .. Len(b) /\ i + 1 # 0 /\ (i + 1) - 1 = i
      OBVIOUS
    <3> QED BY <1>1, <3>1 DEF Filters
  <2>3. \A k \in DOMAIN f[i] : f[i][k] < x
    <3> SUFFICES ASSUME NEW k \in DOMAIN f[i] PROVE f[i][k] < x
      OBVIOUS
    <3>1. In(f[i][k], f[i])
      BY DEF In
    <3>2. PICK j \in 1..i : b[j] = f[i][k]
      BY <2>1, <3>1
    <3>3. j \in DOMAIN b /\ i + 1 \in DOMAIN b /\ j < i + 1
      OBVIOUS
    <3> QED BY <3>2, <3>3 DEF Ascending
  <2>4. CASE x \in S
    <3>1. f[i + 1] = Append(f[i], x)
      BY <2>2, <2>4
    <3>2. f[i + 1] \in Seq(Nat) /\ Len(f[i + 1]) = Len(f[i]) + 1
      BY <2>1, <3>1, Appended
    <3>3. Ascending(f[i + 1])
      BY <2>1, <2>3, <3>1, AppendAscends
    <3>4. \A n : In(n, f[i + 1]) <=> In(n, f[i]) \/ n = x
      BY <2>1, <3>1, Appended
    <3>5. \A n : (\E j \in 1 .. i + 1 : b[j] = n /\ n \in S)
                   <=> (\E j \in 1..i : b[j] = n /\ n \in S) \/ n = x
      BY <2>4
    <3>6. Len(f[i + 1]) <= i + 1
      BY <2>1, <3>2
    <3> QED BY <2>1, <3>2, <3>3, <3>4, <3>5, <3>6
  <2>5. CASE x \notin S
    <3>1. f[i + 1] = f[i]
      BY <2>2, <2>5
    <3>2. \A n : (\E j \in 1 .. i + 1 : b[j] = n /\ n \in S)
                   <=> (\E j \in 1..i : b[j] = n /\ n \in S)
      BY <2>5
    <3>3. Len(f[i + 1]) <= i + 1
      BY <2>1, <3>1
    <3> QED BY <2>1, <3>1, <3>2, <3>3
  <2> QED BY <2>4, <2>5
<1>4. Len(b) \in Nat /\ DOMAIN b = 1 .. Len(b)
  OBVIOUS
<1>5. Len(b) \in P
  <2> HIDE DEF P
  <2> QED BY <1>2, <1>3, <1>4, Induction
<1>6. Good(Len(b))
  BY <1>4, <1>5
<1>7. \A n : In(n, b) <=> \E j \in 1 .. Len(b) : b[j] = n
  BY <1>4 DEF In
<1> QED BY <1>1, <1>6, <1>7

-----------------------------------------------------------------------------
(* Cutting a buffer from the front.                                        *)

\* r is b without its first d entries.
Cut(r, b, d) ==
  Len(r) = Len(b) - d /\ \A i \in 1 .. Len(r) : r[i] = b[i + d]

LEMMA CutKeeps ==
  ASSUME NEW b \in Seq(Nat), NEW r \in Seq(Nat), NEW d \in 0 .. Len(b), Cut(r, b, d), Ascending(b)
  PROVE  /\ Ascending(r) /\ Len(r) <= Len(b)
         /\ \A n : In(n, r) => In(n, b)
         /\ \A n, k \in Nat : In(n, r) /\ In(k, b) /\ n < k => In(k, r)
         /\ d < Len(b) => In(b[Len(b)], r)
<1>1. /\ Len(b) \in Nat /\ Len(r) \in Nat /\ Len(r) = Len(b) - d /\ d \in Nat
      /\ DOMAIN b = 1 .. Len(b) /\ DOMAIN r = 1 .. Len(r)
      /\ \A i \in 1 .. Len(r) : r[i] = b[i + d] /\ i + d \in 1 .. Len(b)
  BY DEF Cut
<1>2. Ascending(r)
  <2> SUFFICES ASSUME NEW i \in 1 .. Len(r), NEW j \in 1 .. Len(r), i < j PROVE r[i] < r[j]
    BY <1>1 DEF Ascending
  <2>1. i + d \in DOMAIN b /\ j + d \in DOMAIN b /\ i + d < j + d
    BY <1>1
  <2> QED BY <1>1, <2>1 DEF Ascending
<1>3. \A n : In(n, r) => In(n, b)
  BY <1>1 DEF In
<1>4. ASSUME NEW n \in Nat, NEW k \in Nat, In(n, r), In(k, b), n < k PROVE In(k, r)
  <2>1. PICK i \in 1 .. Len(r) : r[i] = n
    BY <1>1, <1>4 DEF In
  <2>2. PICK j \in 1 .. Len(b) : b[j] = k
    BY <1>1, <1>4 DEF In
  <2>3. b[i + d] = n /\ i + d \in 1 .. Len(b)
    BY <1>1, <2>1
  <2>4. ~(j <= i + d)
    <3>1. CASE j = i + d
      BY <1>4, <2>2, <2>3, <3>1
    <3>2. CASE j < i + d
      <4>1. b[j] < b[i + d]
        BY <1>1, <2>2, <2>3, <3>2 DEF Ascending
      <4> QED BY <1>4, <2>2, <2>3, <4>1
    <3> QED BY <1>1, <2>2, <2>3, <3>1, <3>2
  <2> DEFINE m == j - d
  <2>5. m \in 1 .. Len(r) /\ m + d = j
    <3>1. j \in Nat /\ i \in Nat /\ 1 <= i /\ j <= Len(b)
      BY <1>1
    <3>2. /\ Len(b) \in Nat /\ Len(r) \in Nat /\ d \in Nat
          /\ Len(r) = Len(b) - d
      BY <1>1
    <3> QED BY <2>4, <3>1, <3>2
  <2>6. r[m] = b[m + d]
    <3> HIDE DEF m
    <3> QED BY <1>1, <2>5
  <2>7. r[m] = k
    <3> HIDE DEF m
    <3> QED BY <2>2, <2>5, <2>6
  <2> HIDE DEF m
  <2> QED BY <1>1, <2>5, <2>7 DEF In
<1>5. ASSUME d < Len(b) PROVE In(b[Len(b)], r)
  <2>1. Len(r) \in 1 .. Len(r) /\ Len(r) + d = Len(b)
    BY <1>1, <1>5
  <2>2. r[Len(r)] = b[Len(b)]
    BY <1>1, <2>1
  <2> QED BY <1>1, <2>1, <2>2 DEF In
<1>6. Len(r) <= Len(b)
  BY <1>1
<1> QED BY <1>2, <1>3, <1>4, <1>5, <1>6

LEMMA TrimCuts ==
  ASSUME NEW T, NEW b \in Seq(T)
  PROVE  /\ Trim(b) \in Seq(T) /\ Len(Trim(b)) <= BufferSize
         /\ \E d \in 0 .. Len(b) : Cut(Trim(b), b, d) /\ (b # <<>> => d < Len(b))
<1>1. BufferSize \in Nat /\ BufferSize # 0 /\ Len(b) \in Nat
  BY StreamAssumption
<1>2. CASE Len(b) > BufferSize
  <2> DEFINE m == Len(b) + 1 - BufferSize
  <2>1. m \in 1 .. Len(b) + 1 /\ Len(b) \in m - 1 .. Len(b) /\ m <= Len(b)
    BY <1>1, <1>2
  <2>2. Trim(b) = SubSeq(b, m, Len(b))
    BY <1>2 DEF Trim
  <2>3. /\ SubSeq(b, m, Len(b)) \in Seq(T)
        /\ Len(SubSeq(b, m, Len(b))) = IF m <= Len(b) THEN Len(b) - m + 1 ELSE 0
        /\ \A i \in 1 .. Len(b) - m + 1 : SubSeq(b, m, Len(b))[i] = b[m + i - 1]
    <3> HIDE DEF m
    <3> QED BY <2>1, SubSeqProperties
  <2>4. Len(b) - m + 1 = BufferSize /\ m \in Nat
    BY <1>1, <2>1
  <2>6. \A i \in 1 .. BufferSize : m + i - 1 = i + (Len(b) - BufferSize)
    BY <1>1
  <2>7. Len(Trim(b)) = BufferSize /\ \A i \in 1 .. BufferSize : Trim(b)[i] = b[i + (Len(b) - BufferSize)]
    <3> HIDE DEF m
    <3> QED BY <2>1, <2>2, <2>3, <2>4, <2>6
  <2>5. Cut(Trim(b), b, Len(b) - BufferSize) /\ Len(b) - BufferSize \in 0 .. Len(b)
        /\ Len(b) - BufferSize < Len(b)
    BY <1>1, <1>2, <2>7 DEF Cut
  <2> QED BY <1>1, <2>2, <2>3, <2>5, <2>7
<1>3. CASE ~(Len(b) > BufferSize)
  <2>1. Trim(b) = b
    BY <1>3 DEF Trim
  <2>2. Cut(b, b, 0) /\ 0 \in 0 .. Len(b)
    BY <1>1 DEF Cut
  <2>3. b # <<>> => 0 < Len(b)
    BY <1>1
  <2> QED BY <1>1, <1>3, <2>1, <2>2, <2>3
<1> QED BY <1>2, <1>3

\* What is in the buffer after event n.
LEMMA BufferedKeeps ==
  ASSUME NEW N \in Nat, Sent = 1 .. N, buffer \in Seq(Sent), Ascending(buffer), NEW kind
  PROVE  LET b == Buffered(N + 1, kind) IN
         /\ b \in Seq(1 .. N + 1) /\ Len(b) <= BufferSize /\ Ascending(b)
         /\ In(N + 1, b)
         /\ \A m : In(m, b) => m = N + 1 \/ In(m, buffer)
         /\ \A m, k \in Nat :
              In(m, b) /\ In(k, buffer) /\ m < k /\ (kind = "plain" \/ ~IsUpsert(k)) => In(k, b)
<1> DEFINE S == IF kind = "plain" THEN Sent ELSE Sent \ Upserts
           f == Filter(buffer, S)
           a == Append(f, N + 1)
           b == Trim(a)
<1>1. buffer \in Seq(Nat) /\ \A n : In(n, buffer) => n \in Sent
  BY DEF In
<1>2. /\ f \in Seq(Nat) /\ Ascending(f)
      /\ \A n : In(n, f) <=> In(n, buffer) /\ n \in S
  <2> HIDE DEF S
  <2> QED BY <1>1, FilterKeeps
<1>3. f \in Seq(Sent) /\ \A k \in DOMAIN f : f[k] < N + 1
  <2>1. \A k \in DOMAIN f : In(f[k], f)
    BY DEF In
  <2>2. \A k \in DOMAIN f : f[k] \in Sent
    BY <1>1, <1>2, <2>1
  <2>3. ASSUME NEW g \in Seq(Nat), \A k \in DOMAIN g : g[k] \in Sent PROVE g \in Seq(Sent)
    BY <2>3
  <2>4. f \in Seq(Sent)
    <3> HIDE DEF f
    <3> QED BY <1>2, <2>2, <2>3
  <2> HIDE DEF f
  <2> QED BY <2>2, <2>4
<1>4. a \in Seq(1 .. N + 1) /\ a \in Seq(Nat) /\ a # <<>>
      /\ Len(f) \in Nat /\ Len(a) = Len(f) + 1 /\ a[Len(f) + 1] = N + 1
      /\ \A n : In(n, a) <=> In(n, f) \/ n = N + 1
  <2>1. \A k \in 1 .. N : k \in 1 .. N + 1
    OBVIOUS
  <2>2. f \in Seq(1 .. N + 1) /\ f \in Seq(Nat) /\ N + 1 \in 1 .. N + 1 /\ N + 1 \in Nat
    <3> HIDE DEF f
    <3> QED BY <1>2, <1>3, <2>1
  <2> HIDE DEF f
  <2>3. a \in Seq(Nat) /\ a # <<>>
    BY <2>2, AppendProperties
  <2>4. a \in Seq(1 .. N + 1)
    BY <2>2, AppendProperties
  <2> QED BY <2>2, <2>3, <2>4, Appended
<1>5. Ascending(a)
  <2> HIDE DEF f
  <2> QED BY <1>2, <1>3, AppendAscends
<1>6. b \in Seq(1 .. N + 1) /\ b \in Seq(Nat) /\ Len(b) <= BufferSize
  <2> HIDE DEF a
  <2> QED BY <1>4, TrimCuts
<1>7. PICK d \in 0 .. Len(a) : Cut(b, a, d) /\ d < Len(a)
  <2> HIDE DEF a
  <2> QED BY <1>4, TrimCuts
<1>8. /\ Ascending(b) /\ \A n : In(n, b) => In(n, a)
      /\ \A n, k \in Nat : In(n, b) /\ In(k, a) /\ n < k => In(k, b)
      /\ In(a[Len(a)], b)
  <2> HIDE DEF a, b
  <2> QED BY <1>4, <1>5, <1>6, <1>7, CutKeeps
<1>9. \A k : In(k, buffer) /\ (kind = "plain" \/ ~IsUpsert(k)) => In(k, f)
  BY <1>1, <1>2 DEF Upserts
<1>10. Buffered(N + 1, kind) = b
  BY DEF Buffered
<1> HIDE DEF S, f, a, b
<1>11. In(N + 1, b)
  BY <1>4, <1>8
<1>12. \A m : In(m, b) => m = N + 1 \/ In(m, buffer)
  BY <1>2, <1>4, <1>8
<1>13. \A m, k \in Nat :
         In(m, b) /\ In(k, buffer) /\ m < k /\ (kind = "plain" \/ ~IsUpsert(k)) => In(k, b)
  BY <1>4, <1>8, <1>9
<1> QED BY <1>6, <1>8, <1>10, <1>11, <1>12, <1>13

-----------------------------------------------------------------------------
(* Initial states, and the parts of a state that a step leaves alone.      *)

LEMMA Numbers ==
  ASSUME TypeOK
  PROVE  /\ Len(events) \in Nat /\ Sent = 1 .. Len(events) /\ DOMAIN events = Sent
         /\ Gap \notin Sent /\ Sent \subseteq Nat
BY DEF TypeOK, Sent, Gap

LEMMA StreamInit == Init => IInv
<1> SUFFICES ASSUME Init PROVE IInv
  OBVIOUS
<1>1. Len(events) = 0 /\ Sent = {}
  BY DEF Init, Sent
<1>2. IsFiniteSet(live) /\ Cardinality(live) = 0 /\ BufferSize \in Nat /\ MaxStreams \in Nat
  BY FS_EmptySet, StreamAssumption DEF Init
<1>3. TypeOK
  BY <1>1, <1>2 DEF Init, TypeOK, Streams, Gap
<1>4. Ascending(buffer) /\ BufferCovers
  BY <1>1 DEF Init, Ascending, BufferCovers
<1>5. ASSUME NEW t \in Tabs PROVE TabOK(t)
  BY <1>1, <1>5 DEF Init, TabOK, Connecting, InOrder, Honest, FreshKnows, AfterCursor
<1> QED BY <1>2, <1>3, <1>4, <1>5 DEF IInv

\* The part of the tab q that its invariant looks at.
Untouched(q) ==
  /\ q \in live' <=> q \in live
  /\ channel'[q] = channel[q] /\ pc'[q] = pc[q] /\ cursor'[q] = cursor[q]
  /\ recover'[q] = recover[q] /\ fresh'[q] = fresh[q] /\ asked'[q] = asked[q]
  /\ known'[q] = known[q] /\ last'[q] = last[q]
  /\ blind'[q] = blind[q] /\ skipped'[q] = skipped[q]

LEMMA TabRests ==
  ASSUME NEW q \in Tabs, TabOK(q), events' = events, Untouched(q)
  PROVE  TabOK(q)'
<1>1. Sent' = Sent /\ \A m, n \in Sent : Supersedes(m, n)' <=> Supersedes(m, n)
  BY DEF Sent, Supersedes, IsUpsert
<1>2. InOrder(q)'
  BY DEF TabOK, InOrder, Untouched
<1>3. Honest(q)'
  BY <1>1 DEF TabOK, Honest, Untouched, Reflected, Away
<1>4. FreshKnows(q)'
  BY <1>1 DEF TabOK, FreshKnows, Untouched, InReach, In
<1>5. AfterCursor(q)'
  BY <1>1 DEF TabOK, AfterCursor, Untouched, InReach, In, Covered, BeforeFirst, Connecting
<1> QED BY <1>2, <1>3, <1>4, <1>5 DEF TabOK, Untouched, Connecting

LEMMA BufferRests ==
  ASSUME BufferCovers, Ascending(buffer), events' = events, buffer' = buffer
  PROVE  BufferCovers' /\ Ascending(buffer')
<1>1. Sent' = Sent /\ \A m, n \in Sent : Supersedes(m, n)' <=> Supersedes(m, n)
  BY DEF Sent, Supersedes, IsUpsert
<1> QED BY <1>1 DEF BufferCovers

\* A step of one tab, of which the buffer and the other tabs know nothing.
LEMMA TabStep ==
  ASSUME IInv, NEW t \in Tabs, TypeOK', IsFiniteSet(live'), TabOK(t)',
         events' = events, buffer' = buffer, \A q \in Tabs \ {t} : Untouched(q)
  PROVE  IInv'
<1>1. \A q \in Tabs : TabOK(q)'
  BY TabRests DEF IInv
<1> QED BY <1>1, BufferRests DEF IInv

-----------------------------------------------------------------------------
(* The server's steps.                                                     *)

LEMMA BroadcastStep ==
  ASSUME IInv, NEW kind \in {"plain", "upsert", "final"}, Broadcast(kind)
  PROVE  IInv'
<1> DEFINE N == Len(events)
<1>0. TypeOK /\ IsFiniteSet(live)
  BY DEF IInv
<1>1. N \in Nat /\ Sent = 1..N /\ N + 1 \in Nat
  BY <1>0, Numbers
<1>2. /\ events' = Append(events, kind) /\ buffer' = Buffered(N + 1, kind)
      /\ channel' = [t \in Tabs |-> IF t \in live THEN Append(channel[t], N + 1) ELSE channel[t]]
      /\ UNCHANGED <<live, stale, tab, counts, ghost>>
  BY DEF Broadcast
<1>3. /\ events' \in Seq({"plain", "upsert", "final"}) /\ Len(events') = N + 1
      /\ \A n \in 1..N : events'[n] = events[n]
      /\ events'[N + 1] = kind
  BY <1>0, <1>2, AppendProperties DEF TypeOK
<1>4. Sent' = 1 .. N + 1 /\ Sent \subseteq Sent' /\ N + 1 \in Sent' /\ N + 1 \notin Sent
      /\ \A n \in Sent' : n \in Sent \/ n = N + 1
  BY <1>1, <1>3 DEF Sent
<1>5. /\ buffer' \in Seq(1 .. N + 1) /\ Len(buffer') <= BufferSize /\ Ascending(buffer')
      /\ In(N + 1, buffer')
      /\ \A m : In(m, buffer') => m = N + 1 \/ In(m, buffer)
      /\ \A m, k \in Nat :
           In(m, buffer') /\ In(k, buffer) /\ m < k /\ (kind = "plain" \/ ~IsUpsert(k)) => In(k, buffer')
  <2>1. buffer \in Seq(Sent) /\ Ascending(buffer)
    BY <1>0 DEF TypeOK, IInv
  <2> HIDE DEF N
  <2> QED BY <1>1, <1>2, <2>1, BufferedKeeps
<1>6. /\ \A m, n \in Sent : Supersedes(m, n) => Supersedes(m, n)'
      /\ \A m, n : m = N + 1 /\ n \in Sent /\ kind # "plain" /\ IsUpsert(n) => Supersedes(m, n)'
  <2> HIDE DEF N
  <2> QED BY <1>1, <1>3 DEF Supersedes, IsUpsert
<1> HIDE DEF N
<1>7. ASSUME NEW t \in Tabs
      PROVE  /\ channel[t] \in Seq({Gap} \cup Sent) /\ channel'[t] \in Seq({Gap} \cup Sent')
             /\ t \notin live => channel'[t] = channel[t]
             /\ t \in live => /\ DOMAIN channel[t] = 1 .. Len(channel[t])
                              /\ DOMAIN channel'[t] = 1 .. Len(channel[t]) + 1
                              /\ Len(channel[t]) \in Nat
                              /\ \A i \in 1 .. Len(channel[t]) : channel'[t][i] = channel[t][i]
                              /\ channel'[t][Len(channel[t]) + 1] = N + 1
                              /\ \A n : In(n, channel'[t]) <=> In(n, channel[t]) \/ n = N + 1
  <2>1. channel[t] \in Seq({Gap} \cup Sent)
    BY <1>0 DEF TypeOK
  <2>2. channel[t] \in Seq({Gap} \cup Sent') /\ N + 1 \in {Gap} \cup Sent'
    BY <1>4, <2>1, SeqGrows
  <2>3. CASE t \in live
    <3>1. channel'[t] = Append(channel[t], N + 1)
      BY <1>2, <2>3
    <3> QED BY <2>1, <2>2, <2>3, <3>1, Appended
  <2>4. CASE t \notin live
    BY <1>2, <2>1, <2>2, <2>4
  <2> QED BY <2>3, <2>4
<1>8. TypeOK'
  <2>1. channel' \in [Tabs -> Seq({Gap} \cup Sent')]
    BY <1>2, <1>7
  <2>2. Streams' = Streams
    BY <1>2 DEF Streams
  <2>3. events' \in Seq({"plain", "upsert", "final"})
    BY <1>0, <1>2 DEF TypeOK
  <2>4. buffer' \in Seq(Sent') /\ Len(buffer') <= BufferSize
    <3>1. 1 .. N + 1 = Sent'
      BY <1>4
    <3> QED BY <1>5, <3>1
  <2>5. /\ live' \subseteq Tabs /\ stale' \in Nat /\ Streams' <= MaxStreams
        /\ stored' \in {0} \cup Sent'
    BY <1>0, <1>2, <1>4, <2>2 DEF TypeOK, tab
  <2>6. /\ pc' \in [Tabs -> {"new", "away", "waiting", "asking", "open"}]
        /\ {recover', fresh', asked'} \subseteq [Tabs -> BOOLEAN]
    BY <1>0, <1>2 DEF TypeOK, tab, ghost
  <2>7. /\ cursor' \in [Tabs -> {0} \cup Sent']
        /\ last' \in [Tabs -> {0} \cup Sent']
    BY <1>0, <1>2, <1>4 DEF TypeOK, tab, ghost
  <2>8. /\ known' \in [Tabs -> SUBSET Sent']
        /\ {blind', skipped'} \subseteq [Tabs -> SUBSET Sent']
    BY <1>0, <1>2, <1>4 DEF TypeOK, tab, ghost
  <2> QED BY <2>1, <2>3, <2>4, <2>5, <2>6, <2>7, <2>8 DEF TypeOK
<1>9. BufferCovers'
  <2> SUFFICES ASSUME NEW n \in Sent', NEW m \in Sent', In(n, buffer'), n < m
               PROVE  \E k \in Sent' : In(k, buffer') /\ (k = m \/ Supersedes(k, m)')
    BY DEF BufferCovers
  <2>1. CASE m = N + 1
    BY <1>5, <2>1
  <2>2. CASE m # N + 1
    <3>1. m \in Sent /\ n \in Sent /\ In(n, buffer)
      BY <1>1, <1>4, <1>5, <2>2
    <3>2. PICK k \in Sent : In(k, buffer) /\ (k = m \/ Supersedes(k, m))
      BY <3>1 DEF IInv, BufferCovers
    <3>3. k \in Nat /\ n \in Nat /\ n < k
      BY <1>1, <3>1, <3>2 DEF Supersedes
    <3>4. CASE kind = "plain" \/ ~IsUpsert(k)
      <4>1. In(k, buffer')
        BY <1>5, <3>2, <3>3, <3>4
      <4>2. k \in Sent' /\ (k = m \/ Supersedes(k, m)')
        BY <1>4, <1>6, <3>1, <3>2
      <4> QED BY <4>1, <4>2
    <3>5. CASE ~(kind = "plain" \/ ~IsUpsert(k))
      <4>1. IsUpsert(m)
        BY <3>2, <3>5 DEF Supersedes
      <4>2. PICK l \in Sent' : l = N + 1
        BY <1>4
      <4>3. Supersedes(l, m)' /\ In(l, buffer')
        BY <1>5, <1>6, <3>1, <3>5, <4>1, <4>2
      <4> QED BY <4>3
    <3> QED BY <3>4, <3>5
  <2> QED BY <2>1, <2>2
<1>10. ASSUME NEW t \in Tabs PROVE TabOK(t)'
  <2>0. TabOK(t)
    BY DEF IInv
  <2>1. /\ cursor[t] \in {0} \cup Sent /\ last[t] \in {0} \cup Sent
        /\ live' = live /\ pc' = pc /\ cursor' = cursor /\ recover' = recover /\ fresh' = fresh
        /\ asked' = asked /\ known' = known /\ last' = last /\ blind' = blind /\ skipped' = skipped
    BY <1>0, <1>2 DEF TypeOK, tab, ghost
  <2>2. InOrder(t)'
    <3>1. CASE t \notin live
      BY <1>7, <2>0, <2>1, <3>1 DEF TabOK, InOrder
    <3>2. CASE t \in live
      <4>1. \A i \in 1 .. Len(channel[t]) : channel[t][i] \in {Gap} \cup Sent
        BY <1>7
      <4> SUFFICES ASSUME NEW i \in 1 .. Len(channel[t]) + 1
                   PROVE  IF channel'[t][i] = Gap THEN i = 1
                          ELSE /\ channel'[t][i] > cursor[t] /\ channel'[t][i] > last[t]
                               /\ \A j \in 1 .. i - 1 : channel'[t][j] < channel'[t][i]
        BY <1>7, <2>1, <3>2 DEF InOrder
      <4>2. CASE i \in 1 .. Len(channel[t])
        <5>1. channel'[t][i] = channel[t][i] /\ \A j \in 1 .. i - 1 : channel'[t][j] = channel[t][j]
          BY <1>7, <3>2, <4>2
        <5> QED BY <1>7, <2>0, <3>2, <4>2, <5>1 DEF TabOK, InOrder
      <4>3. CASE i = Len(channel[t]) + 1
        <5>1. channel'[t][i] = N + 1 /\ N + 1 # Gap
          BY <1>1, <1>7, <3>2, <4>3 DEF Gap
        <5>2. \A j \in 1 .. i - 1 : channel'[t][j] \in {Gap} \cup Sent
          BY <1>7, <3>2, <4>1, <4>3
        <5> QED BY <1>1, <2>1, <5>1, <5>2 DEF Gap
      <4> QED BY <1>7, <3>2, <4>2, <4>3
    <3> QED BY <3>1, <3>2
  <2>3. Honest(t)'
    <3> SUFFICES ASSUME ~Away(t), NEW n \in Sent', n <= cursor[t], ~asked[t], ~recover[t],
                        n \notin blind[t] \cup skipped[t]
                 PROVE  Reflected(t, n)'
      BY <2>1 DEF Honest, Away
    <3>1. n \in Sent
      BY <1>1, <1>4, <2>1
    <3>2. Reflected(t, n)
      BY <2>0, <3>1 DEF TabOK, Honest
    <3> QED BY <1>4, <1>6, <2>1, <3>1, <3>2 DEF Reflected
  <2>4. \A m \in Sent : InReach(t, m)' => InReach(t, m)
    BY <1>7, <2>1 DEF InReach
  <2>5. \A m : m = N + 1 /\ InReach(t, m)' => t \in live
    <3>1. ASSUME t \notin live, NEW j \in DOMAIN channel[t] PROVE ~(N + 1 <= channel[t][j])
      <4>1. channel[t][j] \in {Gap} \cup Sent
        BY <1>7
      <4> QED BY <1>1, <4>1 DEF Gap
    <3> QED BY <1>7, <2>1, <3>1 DEF InReach
  <2>6. \A n : In(n, channel[t]) => In(n, channel'[t])
    BY <1>7
  <2>7. FreshKnows(t)'
    <3> SUFFICES ASSUME pc[t] = "open", fresh[t], ~asked[t], NEW m \in Sent', InReach(t, m)'
                 PROVE  m \in known[t] \/ In(m, channel'[t])
      BY <2>1 DEF FreshKnows
    <3>1. CASE m = N + 1
      BY <1>7, <2>5, <3>1
    <3>2. CASE m \in Sent
      BY <2>0, <2>4, <2>6, <3>2 DEF TabOK, FreshKnows
    <3> QED BY <1>4, <3>1, <3>2
  <2>8. AfterCursor(t)'
    <3> SUFFICES ASSUME Connecting(t), ~In(Gap, channel'[t]), NEW m \in Sent', m > cursor[t],
                        InReach(t, m)', ~asked[t], ~recover[t]
                 PROVE  Covered(t, m)' \/ BeforeFirst(t, m)'
      BY <2>1 DEF AfterCursor, Connecting
    <3>1. CASE m = N + 1
      <4>1. In(m, channel'[t])
        BY <1>7, <2>5, <3>1
      <4> QED BY <4>1 DEF Covered
    <3>2. CASE m \in Sent
      <4>1. Covered(t, m) \/ BeforeFirst(t, m)
        BY <2>0, <2>4, <2>6, <3>2 DEF TabOK, AfterCursor
      <4>2. CASE Covered(t, m)
        <5>1. PICK k \in Sent : (k = m \/ Supersedes(k, m)) /\ (k \in known[t] \/ In(k, channel[t]))
          BY <4>2 DEF Covered
        <5>2. k \in Sent' /\ (k = m \/ Supersedes(k, m)') /\ (k \in known'[t] \/ In(k, channel'[t]))
          BY <1>4, <1>6, <2>1, <2>6, <3>2, <5>1
        <5> QED BY <5>2 DEF Covered
      <4>3. CASE BeforeFirst(t, m)
        <5>0. \A j \in DOMAIN channel[t] : m < channel[t][j]
          BY <4>3 DEF BeforeFirst
        <5>1. \A j \in DOMAIN channel'[t] : m < channel'[t][j]
          <6>1. CASE t \notin live
            BY <1>7, <5>0, <6>1
          <6>2. CASE t \in live
            <7>1. m < N + 1
              BY <1>1, <3>2
            <7>2. \A j \in 1 .. Len(channel[t]) + 1 : j \in 1 .. Len(channel[t]) \/ j = Len(channel[t]) + 1
              BY <1>7, <6>2
            <7> QED BY <1>7, <5>0, <6>2, <7>1, <7>2
          <6> QED BY <6>1, <6>2
        <5> QED BY <2>1, <4>3, <5>1 DEF BeforeFirst
      <4> QED BY <4>1, <4>2, <4>3
    <3> QED BY <1>4, <3>1, <3>2
  <2>9. ~Connecting(t)' => t \notin live' /\ channel'[t] = <<>>
    BY <1>7, <2>0, <2>1 DEF TabOK, Connecting
  <2> QED BY <2>0, <2>1, <2>2, <2>3, <2>7, <2>8, <2>9 DEF TabOK
<1> QED BY <1>0, <1>2, <1>5, <1>8, <1>9, <1>10 DEF IInv

\* Only the server's own state changes, and at most connections are gone.
LEMMA ServerStep ==
  ASSUME IInv, events' = events, live' \subseteq live, UNCHANGED <<channel, tab, ghost>>
  PROVE  \A t \in Tabs : TabOK(t)'
<1> SUFFICES ASSUME NEW t \in Tabs PROVE TabOK(t)'
  OBVIOUS
<1>0. TabOK(t)
  BY DEF IInv
<1>1. /\ Sent' = Sent /\ (\A m, n \in Sent : Supersedes(m, n)' <=> Supersedes(m, n))
      /\ channel' = channel /\ pc' = pc /\ cursor' = cursor /\ recover' = recover /\ fresh' = fresh
      /\ asked' = asked /\ known' = known /\ last' = last /\ blind' = blind /\ skipped' = skipped
  BY DEF Sent, Supersedes, IsUpsert, tab, ghost
<1>2. \A m : InReach(t, m)' => InReach(t, m)
  BY <1>1 DEF InReach
<1>3. InOrder(t)'
  BY <1>0, <1>1 DEF TabOK, InOrder
<1>4. Honest(t)'
  BY <1>0, <1>1 DEF TabOK, Honest, Reflected, Away
<1>5. FreshKnows(t)'
  BY <1>0, <1>1, <1>2 DEF TabOK, FreshKnows, In
<1>6. AfterCursor(t)'
  BY <1>0, <1>1, <1>2 DEF TabOK, AfterCursor, In, Covered, BeforeFirst, Connecting
<1> QED BY <1>0, <1>1, <1>3, <1>4, <1>5, <1>6 DEF TabOK, Connecting

LEMMA ExpireStep ==
  ASSUME IInv, Expire
  PROVE  IInv'
<1>0. TypeOK /\ IsFiniteSet(live) /\ Ascending(buffer) /\ BufferCovers
  BY DEF IInv
<1>1. /\ buffer # <<>> /\ buffer' = Tail(buffer) /\ events' = events
      /\ UNCHANGED <<events, live, stale, channel, tab, counts, ghost>>
  BY DEF Expire
<1>2. Sent' = Sent /\ \A m, n \in Sent : Supersedes(m, n)' <=> Supersedes(m, n)
  BY <1>1 DEF Sent, Supersedes, IsUpsert
<1>3. buffer \in Seq(Sent) /\ buffer \in Seq(Nat) /\ Len(buffer) <= BufferSize /\ BufferSize \in Nat
  BY <1>0, Numbers, SeqGrows, StreamAssumption DEF TypeOK
<1>4. /\ buffer' \in Seq(Sent) /\ buffer' \in Seq(Nat) /\ Len(buffer') = Len(buffer) - 1
      /\ Len(buffer) \in Nat /\ Len(buffer) # 0
      /\ \A i \in 1 .. Len(buffer') : buffer'[i] = buffer[i + 1]
  BY <1>1, <1>3, HeadTailProperties
<1>5. Cut(buffer', buffer, 1) /\ 1 \in 0 .. Len(buffer)
  BY <1>4 DEF Cut
<1>6. /\ Ascending(buffer') /\ Len(buffer') <= Len(buffer)
      /\ \A n : In(n, buffer') => In(n, buffer)
      /\ \A n, k \in Nat : In(n, buffer') /\ In(k, buffer) /\ n < k => In(k, buffer')
  BY <1>0, <1>3, <1>4, <1>5, CutKeeps
<1>7. TypeOK'
  BY <1>0, <1>1, <1>2, <1>3, <1>4 DEF TypeOK, tab, ghost, Streams
<1>8. BufferCovers'
  <2> SUFFICES ASSUME NEW n \in Sent, NEW m \in Sent, In(n, buffer'), n < m
               PROVE  \E k \in Sent : In(k, buffer') /\ (k = m \/ Supersedes(k, m))
    BY <1>2 DEF BufferCovers
  <2>1. PICK k \in Sent : In(k, buffer) /\ (k = m \/ Supersedes(k, m))
    BY <1>0, <1>6 DEF BufferCovers
  <2>2. n \in Nat /\ k \in Nat /\ n < k
    BY <1>0, <2>1, Numbers DEF Supersedes
  <2> QED BY <1>6, <2>1, <2>2
<1> QED BY <1>0, <1>1, <1>6, <1>7, <1>8, ServerStep DEF IInv

LEMMA NoticeStep ==
  ASSUME IInv, Notice
  PROVE  IInv'
<1>0. TypeOK /\ IsFiniteSet(live)
  BY DEF IInv
<1>1. stale > 0 /\ stale' = stale - 1 /\ UNCHANGED <<events, buffer, live, channel, tab, counts, ghost>>
  BY DEF Notice
<1>2. Sent' = Sent /\ Cardinality(live) \in Nat /\ MaxStreams \in Nat
  BY <1>0, <1>1, FS_CardinalityType, StreamAssumption DEF Sent
<1>3. TypeOK'
  BY <1>0, <1>1, <1>2 DEF TypeOK, tab, ghost, Streams
<1> QED BY <1>0, <1>1, <1>3, ServerStep, BufferRests DEF IInv

LEMMA RestartStep ==
  ASSUME IInv, Restart
  PROVE  IInv'
<1>0. TypeOK
  BY DEF IInv
<1>1. /\ buffer' = <<>> /\ live' = {} /\ stale' = 0
      /\ UNCHANGED <<events, channel, tab, drops, leaves, ghost>>
  BY DEF Restart
<1>2. /\ Sent' = Sent /\ IsFiniteSet(live') /\ Cardinality(live') = 0
      /\ MaxStreams \in Nat /\ BufferSize \in Nat
  BY <1>1, FS_EmptySet, StreamAssumption DEF Sent
<1>3. TypeOK'
  BY <1>0, <1>1, <1>2 DEF TypeOK, tab, ghost, Streams
<1>4. Ascending(buffer') /\ BufferCovers'
  BY <1>1 DEF Ascending, BufferCovers, In
<1> QED BY <1>1, <1>2, <1>3, <1>4, ServerStep DEF IInv

-----------------------------------------------------------------------------
(* The steps of a tab.                                                     *)

\* What a step of the tab t rests on.
LEMMA TabFacts ==
  ASSUME IInv, NEW t \in Tabs
  PROVE  /\ TypeOK /\ TabOK(t) /\ IsFiniteSet(live) /\ Cardinality(live) \in Nat
         /\ stale \in Nat /\ MaxStreams \in Nat /\ stale + Cardinality(live) <= MaxStreams
         /\ Len(events) \in Nat /\ Sent = 1 .. Len(events) /\ Gap \notin Sent /\ Gap = 0
         /\ channel[t] \in Seq({Gap} \cup Sent)
         /\ Len(channel[t]) \in Nat /\ DOMAIN channel[t] = 1 .. Len(channel[t])
         /\ \A i \in DOMAIN channel[t] : channel[t][i] \in {Gap} \cup Sent
         /\ cursor[t] \in {0} \cup Sent /\ last[t] \in {0} \cup Sent /\ known[t] \subseteq Sent
<1>1. TypeOK /\ TabOK(t) /\ IsFiniteSet(live)
  BY DEF IInv
<1>2. Cardinality(live) \in Nat
  BY <1>1, FS_CardinalityType
<1>3. channel[t] \in Seq({Gap} \cup Sent)
  BY <1>1 DEF TypeOK
<1>4. /\ stale \in Nat /\ stale + Cardinality(live) <= MaxStreams
      /\ cursor[t] \in {0} \cup Sent /\ last[t] \in {0} \cup Sent /\ known[t] \subseteq Sent
  BY <1>1 DEF TypeOK, Streams
<1> QED BY <1>1, <1>2, <1>3, <1>4, Numbers, StreamAssumption DEF Gap

\* A step of a tab does not add to the events.
LEMMA SameEvents ==
  ASSUME events' = events
  PROVE  Sent' = Sent /\ \A m, n : Supersedes(m, n)' <=> Supersedes(m, n)
BY DEF Sent, Supersedes, IsUpsert

\* A tab that has no connection has nothing on its way.
LEMMA NotConnected ==
  ASSUME NEW t \in Tabs, ~Connecting(t)', t \notin live', channel'[t] = <<>>,
         (cursor[t] # 0 => last[t] <= cursor[t])', Honest(t)'
  PROVE  TabOK(t)'
<1>1. InOrder(t)'
  BY DEF InOrder
<1>2. FreshKnows(t)' /\ AfterCursor(t)' /\ pc'[t] # "open"
  BY DEF FreshKnows, AfterCursor, Connecting
<1> QED BY <1>1, <1>2 DEF TabOK

LEMMA ComeStep ==
  ASSUME IInv, NEW t \in Tabs, Come(t)
  PROVE  IInv'
<1>0. TypeOK /\ TabOK(t) /\ IsFiniteSet(live) /\ Sent' = Sent
  BY TabFacts, SameEvents DEF Come, server
<1>1. /\ pc[t] \in {"new", "away"} /\ pc' = [pc EXCEPT ![t] = "waiting"]
      /\ cursor' = [cursor EXCEPT ![t] = stored]
      /\ recover' = [recover EXCEPT ![t] = stored # 0]
      /\ last' = [last EXCEPT ![t] = 0]
      /\ UNCHANGED <<server, fresh, known, stored, counts, blind, skipped>>
  BY DEF Come, Away
<1>2. PICK old \in BOOLEAN : asked' = [asked EXCEPT ![t] = @ \/ old \/ pc[t] = "new"]
  BY DEF Come
<1>3. \A q \in Tabs \ {t} : Untouched(q)
  BY <1>0, <1>1, <1>2 DEF TypeOK, Untouched, server
<1>4. TypeOK'
  BY <1>0, <1>1, <1>2 DEF TypeOK, server, Streams
<1>5. TabOK(t)'
  <2>1. ~Connecting(t)' /\ t \notin live' /\ channel'[t] = <<>>
    BY <1>0, <1>1 DEF TypeOK, TabOK, Connecting, server
  <2>2. cursor'[t] = stored /\ last'[t] = 0 /\ (recover'[t] <=> stored # 0) /\ stored \in {0} \cup Sent
    BY <1>0, <1>1 DEF TypeOK
  <2>3. Sent \subseteq Nat /\ 0 \notin Sent
    BY <1>0, Numbers DEF Gap
  <2>4. Honest(t)'
    BY <1>0, <2>2, <2>3 DEF Honest
  <2> QED BY <2>1, <2>2, <2>3, <2>4, NotConnected
<1> QED BY <1>0, <1>1, <1>3, <1>4, <1>5, TabStep DEF server

LEMMA AgainFacts ==
  ASSUME IInv, NEW t \in Tabs, ~Away(t), Again(t), events' = events,
         cursor' = cursor, known' = known, asked' = asked, last' = last, blind' = blind,
         t \notin live', channel'[t] = <<>>
  PROVE  /\ TabOK(t)'
         /\ pc' \in [Tabs -> {"new", "away", "waiting", "asking", "open"}]
         /\ recover' \in [Tabs -> BOOLEAN] /\ skipped' \in [Tabs -> SUBSET Sent]
         /\ \A q \in Tabs \ {t} : pc'[q] = pc[q] /\ recover'[q] = recover[q] /\ skipped'[q] = skipped[q]
<1>0. TypeOK /\ TabOK(t) /\ cursor[t] \in {0} \cup Sent /\ Sent \subseteq Nat /\ 0 \notin Sent
  BY TabFacts, Numbers DEF Gap
<1>1. /\ pc' = [pc EXCEPT ![t] = "waiting"]
      /\ recover' = [recover EXCEPT ![t] = cursor[t] = 0]
      /\ skipped' = [skipped EXCEPT ![t] =
           IF recover[t] THEN @ \cup {n \in Sent : n <= cursor[t] /\ n \notin known[t]} ELSE @]
  BY DEF Again
<1>2. pc' \in [Tabs -> {"new", "away", "waiting", "asking", "open"}]
      /\ recover' \in [Tabs -> BOOLEAN] /\ skipped' \in [Tabs -> SUBSET Sent]
  BY <1>0, <1>1 DEF TypeOK
<1>3. ~Connecting(t)'
  BY <1>0, <1>1 DEF TypeOK, Connecting
<1>4. Honest(t)'
  <2> SUFFICES ASSUME NEW n \in Sent, n <= cursor[t]
               PROVE  Reflected(t, n)' \/ asked[t] \/ recover'[t] \/ n \in blind[t] \cup skipped'[t]
    BY SameEvents DEF Honest
  <2>1. Reflected(t, n) <=> Reflected(t, n)'
    BY SameEvents DEF Reflected
  <2>2. CASE recover[t]
    <3>1. n \in known[t] => Reflected(t, n)
      BY DEF Reflected
    <3>2. n \notin known[t] => n \in skipped'[t]
      BY <1>0, <1>1, <2>2 DEF TypeOK
    <3> QED BY <2>1, <3>1, <3>2
  <2>3. CASE ~recover[t]
    <3>1. Reflected(t, n) \/ asked[t] \/ n \in blind[t] \cup skipped[t]
      BY <1>0, <2>3 DEF TabOK, Honest
    <3>2. skipped'[t] = skipped[t]
      BY <1>0, <1>1, <2>3 DEF TypeOK
    <3> QED BY <2>1, <3>1, <3>2
  <2> QED BY <2>2, <2>3
<1>5. (cursor[t] # 0 => last[t] <= cursor[t])'
  BY <1>0 DEF TabOK
<1>6. TabOK(t)'
  BY <1>3, <1>4, <1>5, NotConnected
<1> QED BY <1>0, <1>1, <1>2, <1>6 DEF TypeOK

LEMMA RefuseStep ==
  ASSUME IInv, NEW t \in Tabs, Refuse(t)
  PROVE  IInv'
<1>0. TypeOK /\ TabOK(t) /\ IsFiniteSet(live)
  BY TabFacts
<1>1. /\ pc[t] = "waiting" /\ Again(t) /\ ~Away(t)
      /\ UNCHANGED <<server, cursor, fresh, asked, known, stored, counts, last, blind>>
  BY DEF Refuse, Away
<1>2. t \notin live' /\ channel'[t] = <<>> /\ Sent' = Sent
  BY <1>0, <1>1, SameEvents DEF TabOK, Connecting, server
<1>3. /\ TabOK(t)'
      /\ pc' \in [Tabs -> {"new", "away", "waiting", "asking", "open"}]
      /\ recover' \in [Tabs -> BOOLEAN] /\ skipped' \in [Tabs -> SUBSET Sent]
      /\ \A q \in Tabs \ {t} : pc'[q] = pc[q] /\ recover'[q] = recover[q] /\ skipped'[q] = skipped[q]
  BY <1>1, <1>2, AgainFacts DEF server
<1>4. \A q \in Tabs \ {t} : Untouched(q)
  BY <1>1, <1>3 DEF Untouched, server
<1>5. TypeOK'
  BY <1>0, <1>1, <1>2, <1>3 DEF TypeOK, server, Streams
<1> QED BY <1>0, <1>1, <1>3, <1>4, <1>5, TabStep DEF server

\* The server's end of a connection that is lost goes over to those it has not
\* noticed.
LEMMA HangsFacts ==
  ASSUME IInv, NEW t \in Tabs, Hangs(t), events' = events
  PROVE  /\ IsFiniteSet(live') /\ live' \subseteq Tabs /\ t \notin live'
         /\ stale' \in Nat /\ stale' + Cardinality(live') <= MaxStreams
         /\ channel' \in [Tabs -> Seq({Gap} \cup Sent)] /\ channel'[t] = <<>>
         /\ \A q \in Tabs \ {t} : channel'[q] = channel[q] /\ (q \in live' <=> q \in live)
<1>0. /\ TypeOK /\ IsFiniteSet(live) /\ Cardinality(live) \in Nat
      /\ stale \in Nat /\ MaxStreams \in Nat /\ stale + Cardinality(live) <= MaxStreams
  BY TabFacts
<1>1. /\ stale' = (IF t \in live THEN stale + 1 ELSE stale)
      /\ live' = live \ {t} /\ channel' = [channel EXCEPT ![t] = <<>>]
  BY DEF Hangs
<1>2. IsFiniteSet(live') /\ Cardinality(live') = IF t \in live THEN Cardinality(live) - 1 ELSE Cardinality(live)
  BY <1>0, <1>1, FS_RemoveElement
<1>3. stale' \in Nat /\ stale' + Cardinality(live') <= MaxStreams
  BY <1>0, <1>1, <1>2
<1>4. <<>> \in Seq({Gap} \cup Sent)
  OBVIOUS
<1> QED BY <1>0, <1>1, <1>2, <1>3, <1>4 DEF TypeOK

LEMMA DropStep ==
  ASSUME IInv, NEW t \in Tabs, Drop(t)
  PROVE  IInv'
<1>0. TypeOK /\ TabOK(t)
  BY TabFacts
<1>1. /\ pc[t] \in {"asking", "open"} /\ Again(t) /\ Hangs(t) /\ ~Away(t)
      /\ UNCHANGED <<events, buffer, cursor, fresh, asked, known, stored, leaves, restarts, last, blind>>
  BY DEF Drop, Away
<1>2. /\ IsFiniteSet(live') /\ live' \subseteq Tabs /\ t \notin live'
      /\ stale' \in Nat /\ stale' + Cardinality(live') <= MaxStreams
      /\ channel' \in [Tabs -> Seq({Gap} \cup Sent)] /\ channel'[t] = <<>>
      /\ \A q \in Tabs \ {t} : channel'[q] = channel[q] /\ (q \in live' <=> q \in live)
  BY <1>1, HangsFacts
<1>3. /\ TabOK(t)'
      /\ pc' \in [Tabs -> {"new", "away", "waiting", "asking", "open"}]
      /\ recover' \in [Tabs -> BOOLEAN] /\ skipped' \in [Tabs -> SUBSET Sent]
      /\ \A q \in Tabs \ {t} : pc'[q] = pc[q] /\ recover'[q] = recover[q] /\ skipped'[q] = skipped[q]
  BY <1>1, <1>2, AgainFacts
<1>4. \A q \in Tabs \ {t} : Untouched(q)
  BY <1>1, <1>2, <1>3 DEF Untouched
<1>5. Sent' = Sent
  BY <1>1, SameEvents
<1>6. TypeOK'
  BY <1>0, <1>1, <1>2, <1>3, <1>5 DEF TypeOK, Streams
<1> QED BY <1>1, <1>2, <1>3, <1>4, <1>6, TabStep

LEMMA LeaveStep ==
  ASSUME IInv, NEW t \in Tabs, Leave(t)
  PROVE  IInv'
<1>0. TypeOK /\ TabOK(t)
  BY TabFacts
<1>1. /\ pc' = [pc EXCEPT ![t] = "away"] /\ Hangs(t)
      /\ UNCHANGED <<events, buffer, cursor, recover, fresh, asked, known, stored, drops, restarts, ghost>>
  BY DEF Leave
<1>2. /\ IsFiniteSet(live') /\ live' \subseteq Tabs /\ t \notin live'
      /\ stale' \in Nat /\ stale' + Cardinality(live') <= MaxStreams
      /\ channel' \in [Tabs -> Seq({Gap} \cup Sent)] /\ channel'[t] = <<>>
      /\ \A q \in Tabs \ {t} : channel'[q] = channel[q] /\ (q \in live' <=> q \in live)
  BY <1>1, HangsFacts
<1>3. Sent' = Sent /\ pc'[t] = "away"
  BY <1>0, <1>1, SameEvents DEF TypeOK
<1>4. TabOK(t)'
  <2>1. Honest(t)' /\ ~Connecting(t)'
    BY <1>3 DEF Honest, Away, Connecting
  <2>2. (cursor[t] # 0 => last[t] <= cursor[t])'
    BY <1>0, <1>1 DEF TabOK, ghost
  <2> QED BY <1>2, <2>1, <2>2, NotConnected
<1>5. \A q \in Tabs \ {t} : Untouched(q)
  BY <1>0, <1>1, <1>2 DEF Untouched, ghost, TypeOK
<1>6. TypeOK'
  BY <1>0, <1>1, <1>2, <1>3 DEF TypeOK, Streams, ghost
<1> QED BY <1>1, <1>2, <1>4, <1>5, <1>6, TabStep

\* What a connection with a cursor begins with.
LEMMA ReplayFacts ==
  ASSUME IInv, NEW n \in Sent
  PROVE  /\ Replay(n) \in Seq({Gap} \cup Sent)
         /\ ~In(n, buffer) => Replay(n) = <<Gap>>
         /\ In(n, buffer) =>
              /\ Replay(n) \in Seq(Sent) /\ Ascending(Replay(n))
              /\ \A k : In(k, Replay(n)) <=> In(k, buffer) /\ k \in n + 1 .. Len(events)
<1>0. TypeOK /\ Ascending(buffer) /\ Sent = 1 .. Len(events) /\ Len(events) \in Nat
  BY Numbers DEF IInv
<1>1. CASE ~In(n, buffer)
  <2>1. <<Gap>> \in Seq({Gap} \cup Sent)
    OBVIOUS
  <2> QED BY <1>1, <2>1 DEF Replay
<1>2. CASE In(n, buffer)
  <2> DEFINE S == n + 1 .. Len(events)
             r == Filter(buffer, S)
  <2>1. Replay(n) = r
    BY <1>2 DEF Replay
  <2>2. buffer \in Seq(Nat)
    BY <1>0, SeqGrows DEF TypeOK
  <2>3. r \in Seq(Nat) /\ Ascending(r) /\ \A k : In(k, r) <=> In(k, buffer) /\ k \in S
    <3> HIDE DEF S
    <3> QED BY <1>0, <2>2, FilterKeeps
  <2>4. \A i \in DOMAIN r : r[i] \in Sent
    <3>1. \A i \in DOMAIN r : In(r[i], r)
      BY DEF In
    <3>2. \A k \in S : k \in Sent
      BY <1>0
    <3> HIDE DEF r, S
    <3> QED BY <2>3, <3>1, <3>2
  <2>5. ASSUME NEW g \in Seq(Nat), \A k \in DOMAIN g : g[k] \in Sent PROVE g \in Seq(Sent)
    BY <2>5
  <2>6. r \in Seq(Sent)
    <3> HIDE DEF r
    <3> QED BY <2>3, <2>4, <2>5
  <2>7. r \in Seq({Gap} \cup Sent)
    <3> HIDE DEF r
    <3> QED BY <2>6, SeqGrows
  <2> HIDE DEF r
  <2> QED BY <1>2, <2>1, <2>3, <2>6, <2>7
<1> QED BY <1>1, <1>2

LEMMA ConnectStep ==
  ASSUME IInv, NEW t \in Tabs, Connect(t)
  PROVE  IInv'
<1>0. /\ TypeOK /\ TabOK(t) /\ IsFiniteSet(live) /\ Cardinality(live) \in Nat
      /\ stale \in Nat /\ MaxStreams \in Nat /\ Len(events) \in Nat /\ Sent = 1 .. Len(events)
      /\ Gap = 0 /\ cursor[t] \in {0} \cup Sent /\ last[t] \in {0} \cup Sent
  BY TabFacts
<1>1. /\ pc[t] = "waiting" /\ stale + Cardinality(live) < MaxStreams
      /\ pc' = [pc EXCEPT ![t] = "asking"] /\ live' = live \cup {t}
      /\ channel' = [channel EXCEPT ![t] = IF cursor[t] = 0 THEN <<>> ELSE Replay(cursor[t])]
      /\ fresh' = [fresh EXCEPT ![t] = FALSE]
      /\ blind' = [blind EXCEPT ![t] =
           IF cursor[t] = 0 /\ ~recover[t] THEN @ \cup (Sent \ known[t]) ELSE @]
      /\ UNCHANGED <<events, buffer, stale, cursor, recover, asked, known, stored, counts, last, skipped>>
  BY DEF Connect, Streams
<1>2. /\ channel'[t] \in Seq({Gap} \cup Sent)
      /\ cursor[t] = 0 => channel'[t] = <<>>
      /\ cursor[t] # 0 => cursor[t] \in Sent /\ channel'[t] = Replay(cursor[t])
  <2>1. <<>> \in Seq({Gap} \cup Sent)
    OBVIOUS
  <2> QED BY <1>0, <1>1, <2>1, ReplayFacts DEF TypeOK
<1>3. IsFiniteSet(live') /\ stale' + Cardinality(live') <= MaxStreams
  <2>1. /\ IsFiniteSet(live \cup {t})
        /\ Cardinality(live \cup {t}) = IF t \in live THEN Cardinality(live) ELSE Cardinality(live) + 1
    BY <1>0, FS_AddElement
  <2> QED BY <1>0, <1>1, <2>1
<1>4. Sent' = Sent /\ \A m, n : Supersedes(m, n)' <=> Supersedes(m, n)
  BY <1>1, SameEvents
<1>5. TypeOK'
  <2>1. channel' \in [Tabs -> Seq({Gap} \cup Sent)]
    BY <1>0, <1>1, <1>2 DEF TypeOK
  <2>2. blind' \in [Tabs -> SUBSET Sent]
    BY <1>0, <1>1 DEF TypeOK
  <2>3. pc' \in [Tabs -> {"new", "away", "waiting", "asking", "open"}] /\ fresh' \in [Tabs -> BOOLEAN]
    BY <1>0, <1>1 DEF TypeOK
  <2> QED BY <1>0, <1>1, <1>3, <1>4, <2>1, <2>2, <2>3 DEF TypeOK, Streams
<1>6. \A q \in Tabs \ {t} : Untouched(q)
  BY <1>0, <1>1 DEF Untouched, TypeOK
<1>7. TabOK(t)'
  <2>0. /\ pc'[t] = "asking" /\ t \in live' /\ cursor' = cursor /\ recover' = recover
        /\ asked' = asked /\ known' = known /\ last' = last /\ skipped' = skipped
        /\ blind[t] \subseteq blind'[t]
        /\ cursor[t] = 0 /\ ~recover[t] => Sent \ known[t] \subseteq blind'[t]
    BY <1>0, <1>1 DEF TypeOK
  <2>1. InOrder(t)'
    <3>1. CASE cursor[t] = 0
      BY <1>2, <3>1 DEF InOrder
    <3>2. CASE cursor[t] # 0 /\ ~In(cursor[t], buffer)
      BY <1>2, <3>2, ReplayFacts DEF InOrder
    <3>3. CASE cursor[t] # 0 /\ In(cursor[t], buffer)
      <4> DEFINE r == Replay(cursor[t])
      <4>1. /\ cursor[t] \in Sent /\ channel'[t] = r /\ r \in Seq(Sent) /\ Ascending(r)
            /\ \A k : In(k, r) => k \in cursor[t] + 1 .. Len(events)
        BY <1>2, <3>3, ReplayFacts
      <4> HIDE DEF r
      <4>2. \A i \in DOMAIN r : r[i] \in cursor[t] + 1 .. Len(events)
        BY <4>1 DEF In
      <4>3. last[t] <= cursor[t]
        BY <1>0, <3>3 DEF TabOK
      <4>4. \A i \in DOMAIN r : r[i] # Gap /\ r[i] > cursor[t] /\ r[i] > last[t]
        BY <1>0, <4>1, <4>2, <4>3
      <4>5. \A i \in DOMAIN r : \A j \in 1 .. i - 1 : j \in DOMAIN r /\ j < i
        BY <4>1
      <4> QED BY <2>0, <4>1, <4>4, <4>5 DEF InOrder, Ascending
    <3> QED BY <3>1, <3>2, <3>3
  <2>2. Honest(t)'
    BY <1>0, <1>1, <1>4, <2>0 DEF TabOK, Honest, Reflected, Away
  <2>3. FreshKnows(t)'
    BY <2>0 DEF FreshKnows
  <2>4. AfterCursor(t)'
    <3> SUFFICES ASSUME ~In(Gap, channel'[t]), NEW m \in Sent, m > cursor[t], ~recover[t]
                 PROVE  Covered(t, m)' \/ BeforeFirst(t, m)'
      BY <1>4, <2>0 DEF AfterCursor
    <3>1. CASE cursor[t] = 0
      <4>1. m \in known[t] => Covered(t, m)'
        BY <1>4, <2>0 DEF Covered
      <4>2. m \notin known[t] => BeforeFirst(t, m)'
        BY <1>2, <2>0, <3>1 DEF BeforeFirst
      <4> QED BY <4>1, <4>2
    <3>2. CASE cursor[t] # 0
      <4>1. In(cursor[t], buffer)
        <5>1. SUFFICES ASSUME ~In(cursor[t], buffer) PROVE FALSE
          OBVIOUS
        <5>2. channel'[t] = <<Gap>>
          BY <1>2, <3>2, <5>1, ReplayFacts
        <5> QED BY <5>2 DEF In
      <4>2. PICK k \in Sent : In(k, buffer) /\ (k = m \/ Supersedes(k, m))
        BY <1>0, <1>2, <3>2, <4>1 DEF IInv, BufferCovers
      <4>3. k \in cursor[t] + 1 .. Len(events)
        BY <1>0, <4>2 DEF Supersedes
      <4>4. In(k, channel'[t])
        BY <1>2, <3>2, <4>1, <4>2, <4>3, ReplayFacts
      <4> QED BY <1>4, <4>2, <4>4 DEF Covered
    <3> QED BY <3>1, <3>2
  <2> QED BY <1>0, <2>0, <2>1, <2>2, <2>3, <2>4 DEF TabOK, Connecting
<1> QED BY <1>1, <1>3, <1>5, <1>6, <1>7, TabStep

LEMMA OpenStep ==
  ASSUME IInv, NEW t \in Tabs, Open(t)
  PROVE  IInv'
<1>0. TypeOK /\ TabOK(t) /\ IsFiniteSet(live)
  BY TabFacts
<1>1. /\ pc[t] = "asking" /\ pc' = [pc EXCEPT ![t] = "open"]
      /\ recover' = [recover EXCEPT ![t] = FALSE]
      /\ asked' = [asked EXCEPT ![t] = @ \/ recover[t]]
      /\ fresh' = [fresh EXCEPT ![t] = recover[t]]
      /\ UNCHANGED <<server, cursor, known, stored, counts, ghost>>
  BY DEF Open
<1>2. Sent' = Sent /\ \A m, n : Supersedes(m, n)' <=> Supersedes(m, n)
  BY <1>1, SameEvents DEF server
<1>3. TypeOK'
  BY <1>0, <1>1, <1>2 DEF TypeOK, server, ghost, Streams
<1>4. \A q \in Tabs \ {t} : Untouched(q)
  BY <1>0, <1>1 DEF Untouched, TypeOK, server, ghost
<1>5. TabOK(t)'
  <2>0. /\ pc'[t] = "open" /\ recover'[t] = FALSE /\ (asked'[t] <=> asked[t] \/ recover[t])
        /\ fresh'[t] = recover[t] /\ channel' = channel /\ live' = live /\ cursor' = cursor
        /\ known' = known /\ last' = last /\ blind' = blind /\ skipped' = skipped
    BY <1>0, <1>1 DEF TypeOK, server, ghost
  <2>1. InOrder(t)'
    BY <1>0, <2>0 DEF TabOK, InOrder
  <2>2. Honest(t)'
    BY <1>0, <1>1, <1>2, <2>0 DEF TabOK, Honest, Reflected, Away
  <2>3. FreshKnows(t)'
    BY <2>0 DEF FreshKnows
  <2>4. AfterCursor(t)'
    BY <1>0, <1>1, <1>2, <2>0 DEF TabOK, AfterCursor, InReach, In, Covered, BeforeFirst, Connecting
  <2> QED BY <1>0, <2>0, <2>1, <2>2, <2>3, <2>4 DEF TabOK, Connecting
<1> QED BY <1>0, <1>1, <1>3, <1>4, <1>5, TabStep DEF server

LEMMA RefetchedStep ==
  ASSUME IInv, NEW t \in Tabs, Refetched(t)
  PROVE  IInv'
<1>0. TypeOK /\ TabOK(t) /\ IsFiniteSet(live)
  BY TabFacts
<1>1. /\ asked' = [asked EXCEPT ![t] = FALSE] /\ known' = [known EXCEPT ![t] = Sent]
      /\ UNCHANGED <<server, pc, cursor, recover, fresh, stored, counts, ghost>>
  BY DEF Refetched
<1>2. Sent' = Sent /\ \A m, n : Supersedes(m, n)' <=> Supersedes(m, n)
  BY <1>1, SameEvents DEF server
<1>3. TypeOK'
  BY <1>0, <1>1, <1>2 DEF TypeOK, server, ghost, Streams
<1>4. \A q \in Tabs \ {t} : Untouched(q)
  BY <1>0, <1>1 DEF Untouched, TypeOK, server, ghost
<1>5. TabOK(t)'
  <2>0. /\ known'[t] = Sent /\ channel' = channel /\ live' = live /\ cursor' = cursor /\ pc' = pc
        /\ recover' = recover /\ last' = last
    BY <1>0, <1>1 DEF TypeOK, server, ghost
  <2>1. InOrder(t)'
    BY <1>0, <2>0 DEF TabOK, InOrder
  <2>2. Honest(t)' /\ FreshKnows(t)' /\ AfterCursor(t)'
    BY <1>2, <2>0 DEF Honest, Reflected, FreshKnows, AfterCursor, Covered
  <2> QED BY <1>0, <2>0, <2>1, <2>2 DEF TabOK, Connecting
<1> QED BY <1>0, <1>1, <1>3, <1>4, <1>5, TabStep DEF server

\* What has been taken in from the channel, and what is left there.
LEMMA TakenIn ==
  ASSUME IInv, NEW t \in Tabs, channel[t] # <<>>, channel' = [channel EXCEPT ![t] = Tail(@)]
  PROVE  /\ channel' \in [Tabs -> Seq({Gap} \cup Sent)]
         /\ channel[t][1] = Head(channel[t]) /\ Len(channel[t]) # 0
         /\ Head(channel[t]) \in {Gap} \cup Sent
         /\ DOMAIN channel'[t] = 1 .. Len(channel[t]) - 1
         /\ \A i \in DOMAIN channel'[t] : /\ i \in Nat /\ i + 1 \in DOMAIN channel[t] /\ i + 1 # 1
                                          /\ \A j \in 1 .. i - 1 : j \in DOMAIN channel'[t]
                                          /\ channel'[t][i] = channel[t][i + 1]
                                          /\ channel'[t][i] \in Sent
                                          /\ channel'[t][i] > Head(channel[t])
         /\ \A n : In(n, channel[t]) <=> n = Head(channel[t]) \/ In(n, channel'[t])
         /\ \A q \in Tabs \ {t} : channel'[q] = channel[q]
<1> DEFINE c == channel[t]
           r == channel'[t]
<1>0. /\ TypeOK /\ TabOK(t) /\ c \in Seq({Gap} \cup Sent) /\ Gap = 0 /\ Sent \subseteq Nat /\ Gap \notin Sent
      /\ Len(c) \in Nat /\ DOMAIN c = 1 .. Len(c) /\ \A i \in DOMAIN c : c[i] \in {Gap} \cup Sent
  BY TabFacts, Numbers
<1>1. /\ r = Tail(c) /\ Head(c) = c[1] /\ r \in Seq({Gap} \cup Sent) /\ Len(r) = Len(c) - 1 /\ Len(c) # 0
      /\ \A i \in 1 .. Len(r) : r[i] = c[i + 1]
  <2>1. r = Tail(c)
    BY <1>0 DEF TypeOK
  <2> HIDE DEF r, c
  <2> QED BY <1>0, <2>1, HeadTailProperties DEF c
<1>2. channel' \in [Tabs -> Seq({Gap} \cup Sent)] /\ \A q \in Tabs \ {t} : channel'[q] = channel[q]
  BY <1>0, <1>1 DEF TypeOK
<1>3. DOMAIN r = 1 .. Len(c) - 1
  BY <1>1
<1> HIDE DEF r
<1>4. ASSUME NEW i \in DOMAIN r
      PROVE  /\ i \in Nat /\ i + 1 \in DOMAIN c /\ i + 1 # 1
             /\ \A j \in 1 .. i - 1 : j \in DOMAIN r
             /\ r[i] = c[i + 1] /\ r[i] \in Sent /\ r[i] > Head(c)
  <2>1. i + 1 \in DOMAIN c /\ i + 1 # 1 /\ r[i] = c[i + 1] /\ 1 \in 1 .. (i + 1) - 1
    BY <1>0, <1>1, <1>3
  <2>2. c[i + 1] # Gap /\ c[1] < c[i + 1]
    BY <1>0, <2>1 DEF TabOK, InOrder
  <2>3. c[1] \in Nat /\ c[i + 1] \in Sent /\ c[i + 1] \in Nat
    <3>1. 1 \in DOMAIN c
      BY <1>0, <1>1
    <3>2. c[1] \in {Gap} \cup Sent /\ c[i + 1] \in {Gap} \cup Sent
      BY <1>0, <2>1, <3>1
    <3>3. \A x \in {Gap} \cup Sent : x \in Nat /\ (x # Gap => x \in Sent)
      BY <1>0
    <3> QED BY <2>2, <3>2, <3>3
  <2>4. i \in Nat /\ \A j \in 1 .. i - 1 : j \in DOMAIN r
    BY <1>1, <1>3
  <2> QED BY <1>0, <1>1, <2>1, <2>2, <2>3, <2>4
<1>5. \A n : In(n, c) <=> n = Head(c) \/ In(n, r)
  <2>1. \A i \in 1 .. Len(c) : i = 1 \/ (i - 1 \in DOMAIN r /\ r[i - 1] = c[i])
    BY <1>0, <1>1, <1>3
  <2>2. \A n : In(n, c) => n = Head(c) \/ In(n, r)
    BY <1>0, <1>1, <2>1 DEF In
  <2>3. \A n : In(n, r) => In(n, c)
    BY <1>4 DEF In
  <2>4. In(Head(c), c)
    BY <1>0, <1>1 DEF In
  <2> QED BY <2>2, <2>3, <2>4
<1>6. Head(c) \in {Gap} \cup Sent
  BY <1>0, <1>1
<1> QED BY <1>1, <1>2, <1>3, <1>4, <1>5, <1>6 DEF r

LEMMA ReceiveGapStep ==
  ASSUME IInv, NEW t \in Tabs, ReceiveGap(t)
  PROVE  IInv'
<1>0. /\ TypeOK /\ TabOK(t) /\ IsFiniteSet(live) /\ Gap = 0 /\ Gap \notin Sent
      /\ Sent = 1 .. Len(events) /\ Len(events) \in Nat
  BY TabFacts
<1>1. /\ pc[t] = "open" /\ channel[t] # <<>> /\ Head(channel[t]) = Gap
      /\ cursor' = [cursor EXCEPT ![t] = 0] /\ stored' = 0
      /\ recover' = [recover EXCEPT ![t] = FALSE]
      /\ asked' = [asked EXCEPT ![t] = @ \/ ~fresh[t]]
      /\ fresh' = [fresh EXCEPT ![t] = TRUE]
      /\ channel' = [channel EXCEPT ![t] = Tail(@)]
      /\ UNCHANGED <<events, buffer, live, stale, pc, known, counts, ghost>>
  BY DEF ReceiveGap
<1>2. Sent' = Sent /\ \A m, n : Supersedes(m, n)' <=> Supersedes(m, n)
  BY <1>1, SameEvents
<1>3. /\ channel' \in [Tabs -> Seq({Gap} \cup Sent)]
      /\ \A i \in DOMAIN channel'[t] : /\ i + 1 \in DOMAIN channel[t] /\ i + 1 # 1 /\ i \in Nat
                                       /\ channel'[t][i] = channel[t][i + 1] /\ channel'[t][i] \in Sent
      /\ \A n : In(n, channel[t]) <=> n = Gap \/ In(n, channel'[t])
      /\ \A q \in Tabs \ {t} : channel'[q] = channel[q]
  BY <1>1, TakenIn
<1>4. TypeOK'
  BY <1>0, <1>1, <1>2, <1>3 DEF TypeOK, ghost, Streams
<1>5. \A q \in Tabs \ {t} : Untouched(q)
  BY <1>0, <1>1, <1>3 DEF Untouched, TypeOK, ghost
<1>6. TabOK(t)'
  <2>0. /\ cursor'[t] = 0 /\ recover'[t] = FALSE /\ (asked'[t] <=> asked[t] \/ ~fresh[t])
        /\ live' = live /\ pc' = pc /\ known' = known /\ last' = last
    BY <1>0, <1>1 DEF TypeOK, ghost
  <2>1. InOrder(t)'
    <3> SUFFICES ASSUME NEW i \in DOMAIN channel'[t]
                 PROVE  /\ channel'[t][i] > 0 /\ channel'[t][i] > last[t]
                        /\ \A j \in 1 .. i - 1 : channel'[t][j] < channel'[t][i]
      BY <1>0, <1>3, <2>0 DEF InOrder
    <3>1. /\ i + 1 \in DOMAIN channel[t] /\ i \in Nat /\ channel'[t][i] = channel[t][i + 1]
          /\ channel[t][i + 1] \in Sent /\ channel[t][i + 1] # Gap
      BY <1>0, <1>3
    <3>2. /\ channel[t][i + 1] > last[t]
          /\ \A j \in 1 .. i : channel[t][j] < channel[t][i + 1]
      BY <1>0, <3>1 DEF TabOK, InOrder
    <3>3. \A j \in 1 .. i - 1 : j \in DOMAIN channel'[t]
      BY <1>1, TakenIn
    <3>4. \A j \in 1 .. i - 1 : channel'[t][j] = channel[t][j + 1] /\ j + 1 \in 1 .. i
      BY <1>3, <3>1, <3>3
    <3> QED BY <1>0, <3>1, <3>2, <3>4
  <2>2. Honest(t)'
    BY <1>0, <1>2, <2>0 DEF Honest
  <2>3. \A m \in Sent : InReach(t, m)' => InReach(t, m)
    BY <1>3, <2>0 DEF InReach
  <2>4. ASSUME NEW m \in Sent, InReach(t, m)', ~asked'[t] PROVE m \in known[t] \/ In(m, channel'[t])
    <3>1. m \in known[t] \/ In(m, channel[t])
      BY <1>0, <1>1, <2>0, <2>3, <2>4 DEF TabOK, FreshKnows
    <3> QED BY <1>0, <1>3, <3>1
  <2>5. FreshKnows(t)'
    BY <1>2, <2>0, <2>4 DEF FreshKnows
  <2>6. AfterCursor(t)'
    BY <1>2, <2>0, <2>4 DEF AfterCursor, Covered
  <2> QED BY <1>1, <2>0, <2>1, <2>2, <2>5, <2>6 DEF TabOK, Connecting
<1> QED BY <1>0, <1>1, <1>4, <1>5, <1>6, TabStep

LEMMA ReceiveStep ==
  ASSUME IInv, NEW t \in Tabs, Receive(t)
  PROVE  IInv'
<1> DEFINE n == Head(channel[t])
<1>0. /\ TypeOK /\ TabOK(t) /\ IsFiniteSet(live) /\ Gap = 0 /\ Gap \notin Sent
      /\ Sent = 1 .. Len(events) /\ Len(events) \in Nat /\ cursor[t] \in {0} \cup Sent
  BY TabFacts
<1>1. /\ pc[t] = "open" /\ channel[t] # <<>> /\ n # Gap
      /\ cursor' = [cursor EXCEPT ![t] = n] /\ stored' = n
      /\ known' = [known EXCEPT ![t] = @ \cup {n}]
      /\ last' = [last EXCEPT ![t] = n]
      /\ channel' = [channel EXCEPT ![t] = Tail(@)]
      /\ UNCHANGED <<events, buffer, live, stale, pc, recover, fresh, asked, counts, blind, skipped>>
  BY DEF Receive
<1>2. Sent' = Sent /\ \A m, k : Supersedes(m, k)' <=> Supersedes(m, k)
  BY <1>1, SameEvents
<1>3. /\ channel' \in [Tabs -> Seq({Gap} \cup Sent)]
      /\ channel[t][1] = n /\ 1 \in DOMAIN channel[t] /\ n \in Sent
      /\ \A i \in DOMAIN channel'[t] : /\ i + 1 \in DOMAIN channel[t] /\ i \in Nat
                                       /\ channel'[t][i] = channel[t][i + 1]
                                       /\ channel'[t][i] \in Sent /\ channel'[t][i] > n
      /\ \A m : In(m, channel[t]) <=> m = n \/ In(m, channel'[t])
      /\ \A i \in DOMAIN channel'[t] : \A j \in 1 .. i - 1 : j \in DOMAIN channel'[t]
      /\ \A q \in Tabs \ {t} : channel'[q] = channel[q]
  <2>1. Len(channel[t]) \in Nat /\ DOMAIN channel[t] = 1 .. Len(channel[t])
    BY TabFacts
  <2>2. channel[t][1] = n /\ Len(channel[t]) # 0 /\ n \in {Gap} \cup Sent
    BY <1>1, TakenIn
  <2>3. 1 \in DOMAIN channel[t] /\ n \in Sent
    BY <1>1, <2>1, <2>2
  <2> QED BY <1>1, <2>2, <2>3, TakenIn
<1> HIDE DEF n
<1>4. TypeOK'
  BY <1>0, <1>1, <1>2, <1>3 DEF TypeOK, Streams
<1>5. \A q \in Tabs \ {t} : Untouched(q)
  BY <1>0, <1>1, <1>3 DEF Untouched, TypeOK
<1>6. TabOK(t)'
  <2>0. /\ cursor'[t] = n /\ last'[t] = n /\ known'[t] = known[t] \cup {n}
        /\ live' = live /\ pc' = pc /\ recover' = recover /\ fresh' = fresh /\ asked' = asked
        /\ blind' = blind /\ skipped' = skipped /\ ~recover[t]
    BY <1>0, <1>1 DEF TypeOK, TabOK
  <2>1. ~In(Gap, channel[t]) /\ cursor[t] < n
    <3>1. ~In(Gap, channel'[t])
      BY <1>0, <1>3 DEF In
    <3>2. cursor[t] < n
      BY <1>0, <1>1, <1>3 DEF TabOK, InOrder
    <3> QED BY <1>1, <1>3, <3>1, <3>2
  <2>2. InOrder(t)'
    <3> SUFFICES ASSUME NEW i \in DOMAIN channel'[t], NEW j \in 1 .. i - 1
                 PROVE  channel'[t][j] < channel'[t][i]
      BY <1>0, <1>3, <2>0 DEF InOrder
    <3>1. /\ channel'[t][i] = channel[t][i + 1] /\ channel'[t][j] = channel[t][j + 1]
          /\ i + 1 \in DOMAIN channel[t] /\ i \in Nat /\ channel[t][i + 1] # Gap
      BY <1>0, <1>3
    <3>2. j + 1 \in 1 .. (i + 1) - 1
      BY <3>1
    <3> QED BY <1>0, <3>1, <3>2 DEF TabOK, InOrder
  <2>3. \A m \in Sent : InReach(t, m)' => InReach(t, m)
    BY <1>3, <2>0 DEF InReach
  <2>4. FreshKnows(t)'
    <3> SUFFICES ASSUME fresh[t], ~asked[t], NEW m \in Sent, InReach(t, m)'
                 PROVE  m \in known'[t] \/ In(m, channel'[t])
      BY <1>2, <2>0 DEF FreshKnows
    <3>1. m \in known[t] \/ In(m, channel[t])
      BY <1>0, <1>1, <2>3 DEF TabOK, FreshKnows
    <3> QED BY <1>3, <2>0, <3>1
\* What comes up to n after the cursor is n, or has a later form.
  <2>5. ASSUME NEW m \in Sent, m > cursor[t], InReach(t, m), ~asked[t]
        PROVE  \/ \E k \in Sent : (k = m \/ Supersedes(k, m)) /\ (k \in known'[t] \/ In(k, channel'[t]))
               \/ BeforeFirst(t, m)
    <3>1. Covered(t, m) \/ BeforeFirst(t, m)
      BY <1>0, <1>1, <2>0, <2>1, <2>5 DEF TabOK, AfterCursor, Connecting
    <3>2. CASE Covered(t, m)
      BY <1>3, <2>0, <3>2 DEF Covered
    <3> QED BY <3>1, <3>2
  <2>6. \A m : m <= n => InReach(t, m)
    BY <1>3 DEF InReach
  <2>7. \A k : In(k, channel'[t]) => k \in Sent /\ k > n
    BY <1>3 DEF In
  <2>8. \A m : BeforeFirst(t, m) => cursor[t] = 0 /\ m \in blind[t] /\ m < n
    BY <1>3 DEF BeforeFirst
  <2>9. AfterCursor(t)'
    <3> SUFFICES ASSUME NEW m \in Sent, m > n, InReach(t, m)', ~asked[t]
                 PROVE  Covered(t, m)'
      BY <1>2, <2>0 DEF AfterCursor
    <3>1. m > cursor[t] /\ ~BeforeFirst(t, m)
      BY <1>0, <1>3, <2>1, <2>8
    <3> QED BY <1>2, <2>3, <2>5, <3>1 DEF Covered
  <2>10. Honest(t)'
    <3> SUFFICES ASSUME NEW m \in Sent, m <= n, ~asked[t], m \notin blind[t] \cup skipped[t]
                 PROVE  Reflected(t, m)'
      BY <1>2, <2>0 DEF Honest
    <3>1. ASSUME NEW k \in Sent, k = m \/ Supersedes(k, m), k \in known'[t] \/ In(k, channel'[t])
          PROVE  Reflected(t, m)'
      <4>1. CASE k \in known'[t]
        BY <1>2, <3>1, <4>1 DEF Reflected
      <4>2. CASE In(k, channel'[t])
        <5>1. k > n
          BY <2>7, <4>2
        <5>2. k # m
          BY <1>0, <1>3, <5>1
        <5> QED BY <1>2, <2>0, <3>1, <5>1, <5>2 DEF Reflected
      <4> QED BY <3>1, <4>1, <4>2
    <3>2. CASE m > cursor[t]
      <4>1. ~BeforeFirst(t, m)
        BY <2>8
      <4> QED BY <2>5, <2>6, <3>1, <3>2, <4>1
    <3>3. CASE m <= cursor[t]
      <4>1. cursor[t] # 0
        BY <1>0, <3>3
      <4>2. Reflected(t, m)
        BY <1>0, <1>1, <2>0, <3>3 DEF TabOK, Honest, Away
      <4>3. CASE m \in known[t]
        BY <2>0, <4>3 DEF Reflected
      <4>4. CASE m \notin known[t]
        <5>1. PICK k \in Sent : Supersedes(k, m) /\ (k \in known[t] \/ k > cursor[t])
          BY <4>2, <4>4 DEF Reflected
        <5>2. CASE k \in known[t]
          BY <2>0, <3>1, <5>1, <5>2
        <5>3. CASE k > n
          BY <1>2, <2>0, <5>1, <5>3 DEF Reflected
        <5>4. CASE k \notin known[t] /\ ~(k > n)
          <6>1. k > cursor[t] /\ k <= n /\ ~BeforeFirst(t, k)
            BY <1>0, <1>3, <2>8, <4>1, <5>1, <5>4
          <6>2. PICK l \in Sent : (l = k \/ Supersedes(l, k)) /\ (l \in known'[t] \/ In(l, channel'[t]))
            BY <2>5, <2>6, <6>1
          <6>3. Supersedes(l, m)
            BY <1>0, <5>1, <6>2 DEF Supersedes
          <6> QED BY <3>1, <6>2, <6>3
        <5> QED BY <5>2, <5>3, <5>4
      <4> QED BY <4>3, <4>4
    <3> QED BY <1>0, <1>3, <3>2, <3>3
  <2>11. (cursor[t] # 0 => last[t] <= cursor[t])'
    BY <1>0, <1>3, <2>0
  <2> QED BY <1>1, <2>0, <2>2, <2>4, <2>9, <2>10, <2>11 DEF TabOK, Connecting
<1> QED BY <1>0, <1>1, <1>4, <1>5, <1>6, TabStep

-----------------------------------------------------------------------------
(* The theorems.                                                           *)

LEMMA StreamStep == IInv /\ [Next]_vars => IInv'
<1> SUFFICES ASSUME IInv, [Next]_vars PROVE IInv'
  OBVIOUS
<1>1. CASE UNCHANGED vars
  <2>1. UNCHANGED <<events, buffer, live, stale, channel, tab, ghost>> /\ stored' = stored
    BY <1>1 DEF vars, server, tab
  <2>2. TypeOK' /\ IsFiniteSet(live')
    BY <2>1 DEF IInv, TypeOK, Sent, tab, ghost, Streams
  <2> QED BY <2>1, <2>2, ServerStep, BufferRests DEF IInv
<1>2. ASSUME NEW t \in Tabs, Come(t) \/ Connect(t) \/ Refuse(t) \/ Open(t) \/ Receive(t)
                               \/ ReceiveGap(t) \/ Refetched(t) \/ Drop(t) \/ Leave(t)
      PROVE  IInv'
  BY <1>2, ComeStep, ConnectStep, RefuseStep, OpenStep, ReceiveStep, ReceiveGapStep,
     RefetchedStep, DropStep, LeaveStep
<1> QED BY <1>1, <1>2, BroadcastStep, ExpireStep, NoticeStep, RestartStep DEF Next

LEMMA StreamInvariant == Spec => []IInv
BY StreamInit, StreamStep, PTL DEF Spec

\* Replay and live events join as one, for any buffer and any number of tabs:
\* nothing twice, nothing out of order, and no cursor that claims more than was
\* shown.
THEOREM ReplayStaysHonest == Spec => []ReplayIsHonest
<1>1. IInv => ReplayIsHonest
  BY DEF IInv, TabOK, ReplayIsHonest, CursorIsHonest, Honest, ArrivesInOrder, InOrder
<1> QED BY <1>1, StreamInvariant, PTL

\* Whatever is dropped, evicted, expired, coalesced or lost with a restart, a
\* tab that has taken in all it was sent reflects every event.
THEOREM NothingIsLost == Spec => []NothingLost
<1>1. ASSUME IInv PROVE NothingLost
  <2> SUFFICES ASSUME NEW t \in Tabs, CaughtUp(t), NEW n \in Sent, n \notin blind[t] \cup skipped[t]
               PROVE  n \in known[t] \/ \E m \in known[t] : Supersedes(m, n)
    BY DEF NothingLost
  <2>0. /\ TabOK(t) /\ pc[t] = "open" /\ t \in live /\ channel[t] = <<>> /\ ~asked[t] /\ ~recover[t]
        /\ known[t] \subseteq Sent /\ Sent \subseteq Nat /\ cursor[t] \in {0} \cup Sent /\ 0 \notin Sent
    BY <1>1, TabFacts, Numbers DEF TabOK, CaughtUp, Gap
  <2>1. ASSUME NEW m \in Sent, m > cursor[t]
        PROVE  \/ \E k \in known[t] : k = m \/ Supersedes(k, m)
               \/ cursor[t] = 0 /\ m \in blind[t]
    <3>1. ~In(Gap, channel[t]) /\ \A k : ~In(k, channel[t])
      BY <2>0 DEF In
    <3>2. Covered(t, m) \/ BeforeFirst(t, m)
      BY <2>0, <2>1, <3>1 DEF TabOK, AfterCursor, Connecting, InReach
    <3> QED BY <3>1, <3>2 DEF Covered, BeforeFirst
  <2>2. CASE n > cursor[t]
    BY <2>1, <2>2
  <2>3. CASE ~(n > cursor[t])
    <3>1. n <= cursor[t] /\ cursor[t] # 0
      BY <2>0, <2>3
    <3>2. Reflected(t, n)
      BY <2>0, <3>1 DEF TabOK, Honest, Away
    <3>3. CASE n \notin known[t]
      <4>1. PICK k \in Sent : Supersedes(k, n) /\ (k \in known[t] \/ k > cursor[t])
        BY <3>2, <3>3 DEF Reflected
      <4>2. CASE k \notin known[t]
        <5>1. PICK l \in known[t] : l = k \/ Supersedes(l, k)
          BY <2>1, <3>1, <4>1, <4>2
        <5>2. l > n /\ IsUpsert(n) /\ events[l] # "plain"
          <6>1. l \in Nat /\ k \in Nat /\ n \in Nat
            BY <2>0, <5>1
          <6> QED BY <4>1, <5>1, <6>1 DEF Supersedes
        <5>3. Supersedes(l, n)
          BY <5>2 DEF Supersedes
        <5> QED BY <5>3
      <4> QED BY <4>1, <4>2
    <3> QED BY <3>3
  <2> QED BY <2>2, <2>3
<1> QED BY <1>1, StreamInvariant, PTL

=============================================================================
