------------------------------ MODULE FileProofs ------------------------------
(***************************************************************************)
(* What DaemonLock and AtomicFile, the two specifications of files that    *)
(* several processes share, keep for any number of starts, stops, writes,  *)
(* kills, stalls and failures.                                             *)
(***************************************************************************)
EXTENDS DaemonLock, AtomicFile, TLAPS

-----------------------------------------------------------------------------
(* The inductive invariant.                                                *)

\* Only what a dead process left is converted; the dead do not come back.
ConvertsTheDead ==
  \A p \in Procs : \A q \in Starters : gen[p] = q => ~Alive(q)

\* A start that has replaced the lock does not try again.
WonIsOver ==
  \A p \in Starters :
    won[p] => pc[p] \in {"release", "discard", "holding", "quitting", "over", "dead"}

\* A claim says whose it is by the time its holder looks at the lock again.
ClaimIsWritten ==
  \A p \in Procs :
    /\ pc[p] \in {"check", "hold", "swap", "release"}
    /\ claims[gen[p]] # None /\ claims[gen[p]].by = p
    => claims[gen[p]].record = "written"

\* Whoever converts a generation has the claim on it.
ConverterClaims ==
  \A p \in Procs : \A g \in Generations :
    Converting(p, g) => claims[g] # None /\ claims[g].by = p

\* A record found unchanged under the claim stays until it is replaced.
RecordStays ==
  \A p \in Procs :
    pc[p] \in {"hold", "swap"} /\ gen[p] \in Starters => lock = gen[p]

OneReserves ==
  \A p, q \in Starters : pc[p] = "reserved" /\ pc[q] = "reserved" => p = q

LockNames ==
  \A p \in Starters :
    /\ Holds(p) => lock = p
    /\ pc[p] = "reserved" => lock = "young"

\* A stop neither reserves the file nor holds the lock.
StartersHold ==
  \A p \in Procs :
    pc[p] \in {"start", "reserved", "holding", "quitting"} => p \in Starters

IInv ==
  /\ TypeOK /\ StartersHold
  /\ ConvertsTheDead /\ WonIsOver /\ ClaimIsWritten /\ ClaimsDoNotOutlive
  /\ lapse = "none" => ConverterClaims /\ RecordStays /\ OneReserves /\ LockNames

-----------------------------------------------------------------------------
(* What a step of one process leaves alone.                                 *)

LEMMA NamesApart ==
  /\ Starters \subseteq Procs /\ Unparseable \notin Starters
  /\ \A q \in Starters : q \notin Unowned
  /\ MaxFaults \in Nat
  BY ProcessesAssumption DEF Procs

Others(p) ==
  \A q \in Procs \ {p} : pc'[q] = pc[q] /\ gen'[q] = gen[q] /\ won'[q] = won[q]

LEMMA ClaimType ==
  ASSUME TypeOK, NEW g \in Generations, claims[g] # None
  PROVE  claims[g] \in [by : Procs, record : {"empty", "old", "written"}]
  BY DEF TypeOK

\* A claim is never mistaken for none.
LEMMA ClaimsAreSome ==
  ASSUME NEW c \in [by : Procs, record : {"empty", "old", "written"}]
  PROVE  c # None
  BY ProcessesAssumption DEF Procs

LEMMA GotoFrame ==
  ASSUME TypeOK, NEW p \in Procs, NEW l \in Labels, Goto(p, l)
  PROVE  /\ pc' \in [Procs -> Labels] /\ pc'[p] = l
         /\ \A q \in Procs \ {p} : pc'[q] = pc[q] /\ (Alive(q)' <=> Alive(q))
  BY DEF TypeOK, Goto, Alive

LEMMA PassesFrame ==
  ASSUME TypeOK, NEW p \in Procs, NEW l,
         Ends(p, l) \/ Rest(p) \/ Over(p)
  PROVE  passes' \in [Procs -> Nat]
<1>1. passes \in [Procs -> Nat]
  BY DEF TypeOK
<1> QED BY <1>1 DEF Ends, Rest, Over

\* Where a pass that is over leads.
LEMMA RestGoes ==
  ASSUME NEW p \in Procs, Rest(p)
  PROVE  \E l \in {"start", "last", "idle"} :
           Goto(p, l) /\ (l = "start" => p \in Starters)
  BY DEF Rest, Ends

LEMMA OverGoes ==
  ASSUME TypeOK, NEW p \in Procs, Over(p)
  PROVE  \E l \in {"start", "last", "idle", "holding"} :
           /\ Goto(p, l)
           /\ l \in {"start", "holding"} => p \in Starters
           /\ p \in Starters => (won[p] <=> l = "holding")
<1>1. CASE won[p] /\ p \in Starters
  BY <1>1 DEF Over, Ends
<1>2. CASE ~(won[p] /\ p \in Starters)
  BY <1>2, RestGoes DEF Over
<1> QED BY <1>1, <1>2

\* The dead stay dead.
LEMMA DeadStay ==
  ASSUME TypeOK, ConvertsTheDead, NEW p \in Procs, Alive(p), NEW l \in Labels,
         Goto(p, l), gen' = gen
  PROVE  ConvertsTheDead'
<1>1. ASSUME NEW r \in Procs, NEW q \in Starters, gen'[r] = q PROVE ~Alive(q)'
  <2>1. q \in Procs /\ ~Alive(q) /\ q # p
    BY <1>1 DEF ConvertsTheDead, Procs
  <2> QED BY <2>1, GotoFrame
<1> QED BY <1>1 DEF ConvertsTheDead

\* A process writes and removes no claim but its own and those of the dead.
OthersClaims(p) ==
  \A g \in Generations : \A q \in Procs \ {p} :
    claims'[g] # None /\ claims'[g].by = q => claims'[g] = claims[g]

LEMMA ClaimsFrame ==
  ASSUME TypeOK', ClaimsDoNotOutlive, NEW p \in Procs, Others(p), OthersClaims(p),
         \A g \in Generations :
           claims'[g] # None /\ claims'[g].by = p /\ Alive(p)' => Converting(p, g)'
  PROVE  ClaimsDoNotOutlive'
<1>1. ASSUME NEW g \in Generations, NEW q \in Procs \ {p},
             claims'[g] # None, claims'[g].by = q, Alive(q)'
      PROVE  Converting(q, g)'
  <2>1. claims'[g] = claims[g] /\ pc'[q] = pc[q] /\ gen'[q] = gen[q]
    BY <1>1 DEF Others, OthersClaims
  <2>2. Converting(q, g)
    BY <1>1, <2>1 DEF ClaimsDoNotOutlive, Alive
  <2> QED BY <1>1, <2>1, <2>2 DEF Converting
<1>2. ASSUME NEW g \in Generations, NEW q, claims'[g] # None, claims'[g].by = q, Alive(q)'
      PROVE  Converting(q, g)'
  BY <1>1, <1>2 DEF TypeOK
<1> QED BY <1>2 DEF ClaimsDoNotOutlive

\* A process that is not converting has no claim.
LEMMA NoClaims ==
  ASSUME ClaimsDoNotOutlive, NEW p \in Procs, Others(p), TypeOK',
         Alive(p), claims' = claims,
         pc[p] \notin {"mark", "check", "hold", "swap", "release", "discard"}
  PROVE  ClaimsDoNotOutlive'
<1>1. \A g \in Generations : claims[g] # None => claims[g].by # p
  BY DEF ClaimsDoNotOutlive, Converting
<1> QED BY <1>1, ClaimsFrame DEF OthersClaims

LEMMA WrittenFrame ==
  ASSUME TypeOK, ClaimIsWritten, NEW p \in Procs, Others(p), OthersClaims(p),
         /\ pc'[p] \in {"check", "hold", "swap", "release"}
         /\ claims'[gen'[p]] # None /\ claims'[gen'[p]].by = p
         => claims'[gen'[p]].record = "written"
  PROVE  ClaimIsWritten'
<1>1. ASSUME NEW q \in Procs \ {p}, pc'[q] \in {"check", "hold", "swap", "release"},
             claims'[gen'[q]] # None, claims'[gen'[q]].by = q
      PROVE  claims'[gen'[q]].record = "written"
  <2>1. gen[q] \in Generations /\ gen'[q] = gen[q] /\ pc'[q] = pc[q]
    BY DEF TypeOK, Others
  <2>2. claims'[gen[q]] = claims[gen[q]]
    BY <1>1, <2>1 DEF OthersClaims
  <2> QED BY <1>1, <2>1, <2>2 DEF ClaimIsWritten
<1> QED BY <1>1 DEF ClaimIsWritten

LEMMA ConverterFrame ==
  ASSUME ConverterClaims, NEW p \in Procs, Others(p), OthersClaims(p),
         \A g \in Generations : \A q \in Procs \ {p} :
           claims[g] # None /\ claims[g].by = q /\ Alive(q) => claims'[g] = claims[g],
         \A g \in Generations : Converting(p, g)' => claims'[g] # None /\ claims'[g].by = p
  PROVE  ConverterClaims'
<1>1. ASSUME NEW q \in Procs \ {p}, NEW g \in Generations, Converting(q, g)'
      PROVE  claims'[g] # None /\ claims'[g].by = q
  <2>1. pc'[q] = pc[q] /\ gen'[q] = gen[q]
    BY DEF Others
  <2>2. CASE pc[q] = "discard"
    BY <1>1, <2>1, <2>2 DEF Converting
  <2>3. CASE pc[q] # "discard"
    <3>1. Converting(q, g) /\ Alive(q)
      BY <1>1, <2>1, <2>3 DEF Converting, Alive
    <3> QED BY <3>1 DEF ConverterClaims
  <2> QED BY <2>2, <2>3
<1> QED BY <1>1 DEF ConverterClaims

LEMMA BeginStep ==
  ASSUME IInv, NEW p \in Procs, Begin(p)
  PROVE  IInv'
<1>1. /\ TypeOK /\ StartersHold /\ ConvertsTheDead /\ WonIsOver /\ ClaimIsWritten
      /\ ClaimsDoNotOutlive
  BY DEF IInv
<1>2. PICK l \in Labels : Goto(p, l)
  BY <1>1 DEF Labels, Begin
<1>3. /\ pc' \in [Procs -> Labels] /\ pc'[p] = l
      /\ \A q \in Procs \ {p} : pc'[q] = pc[q] /\ (Alive(q)' <=> Alive(q))
  BY <1>1, <1>2, GotoFrame
<1>4. Others(p) /\ Alive(p)
  BY <1>1, <1>3 DEF Others, TypeOK, Alive, Begin
<1>5. TypeOK' /\ StartersHold'
  BY <1>1, <1>3 DEF TypeOK, StartersHold, files, Goto, Begin
<1>6. ConvertsTheDead'
  BY <1>1, <1>2, <1>4, DeadStay DEF files, Begin
<1>7. WonIsOver'
  BY <1>1 DEF WonIsOver, Goto, Begin
<1>8. ClaimIsWritten'
  BY <1>1 DEF ClaimIsWritten, files, Goto, Begin
<1>9. ClaimsDoNotOutlive'
  BY <1>1, <1>4, <1>5, NoClaims DEF files, Begin
<1>10. ASSUME lapse' = "none"
       PROVE  ConverterClaims' /\ RecordStays' /\ OneReserves' /\ LockNames'
  <2>1. lapse = "none" /\ ConverterClaims /\ RecordStays /\ OneReserves /\ LockNames
    BY <1>10 DEF IInv, Begin
  <2>2. ConverterClaims'
    BY <2>1 DEF ConverterClaims, Converting, files, Goto, Begin
  <2>3. RecordStays'
    BY <2>1 DEF RecordStays, files, Goto, Begin
  <2>4. OneReserves'
    BY <2>1 DEF OneReserves, Goto, Begin
  <2>5. LockNames'
    BY <2>1 DEF LockNames, Holds, files, Goto, Begin
  <2> QED BY <2>2, <2>3, <2>4, <2>5
<1> QED BY <1>5, <1>6, <1>7, <1>8, <1>9, <1>10 DEF IInv

LEMMA ReserveStep ==
  ASSUME IInv, NEW p \in Procs, Reserve(p)
  PROVE  IInv'
<1>1. /\ TypeOK /\ StartersHold /\ ConvertsTheDead /\ WonIsOver /\ ClaimIsWritten
      /\ ClaimsDoNotOutlive
  BY DEF IInv
<1>2. PICK l \in Labels : Goto(p, l)
  BY <1>1 DEF Labels, Reserve
<1>3. /\ pc' \in [Procs -> Labels] /\ pc'[p] = l
      /\ \A q \in Procs \ {p} : pc'[q] = pc[q] /\ (Alive(q)' <=> Alive(q))
  BY <1>1, <1>2, GotoFrame
<1>4. Others(p) /\ Alive(p)
  BY <1>1, <1>3 DEF Others, TypeOK, Alive, Reserve
<1>5. TypeOK' /\ StartersHold'
  BY <1>1, <1>3 DEF TypeOK, StartersHold, Unowned, Reserve
<1>6. ConvertsTheDead'
  BY <1>1, <1>2, <1>4, DeadStay DEF files, Reserve
<1>7. WonIsOver'
  BY <1>1, <1>2 DEF WonIsOver, Goto, Reserve
<1>8. ClaimIsWritten'
  BY <1>1, <1>2 DEF ClaimIsWritten, Goto, Reserve
<1>9. ClaimsDoNotOutlive'
  BY <1>1, <1>4, <1>5, NoClaims DEF files, Reserve
<1>10. ASSUME lapse' = "none"
       PROVE  ConverterClaims' /\ RecordStays' /\ OneReserves' /\ LockNames'
  <2>1. lapse = "none" /\ ConverterClaims /\ RecordStays /\ OneReserves /\ LockNames
    BY <1>10 DEF IInv, Reserve
  <2>2. ConverterClaims'
    BY <1>3, <2>1 DEF ConverterClaims, Converting, Goto, Reserve
  <2>3. RecordStays'
    BY <1>3, <2>1, ProcessesAssumption DEF RecordStays, Unowned, Goto, Reserve
  <2>4. OneReserves'
    BY <1>3, <2>1 DEF OneReserves, LockNames, Procs, Goto, Reserve
  <2>5. LockNames'
    BY <1>3, <2>1, ProcessesAssumption
       DEF LockNames, Holds, Unowned, Procs, Goto, Reserve
  <2> QED BY <2>2, <2>3, <2>4, <2>5
<1> QED BY <1>5, <1>6, <1>7, <1>8, <1>9, <1>10 DEF IInv

LEMMA FillStep ==
  ASSUME IInv, NEW p \in Procs, Fill(p)
  PROVE  IInv'
<1>1. /\ TypeOK /\ StartersHold /\ ConvertsTheDead /\ WonIsOver /\ ClaimIsWritten
      /\ ClaimsDoNotOutlive
  BY DEF IInv
<1>2. PICK l \in Labels : Goto(p, l)
  BY <1>1 DEF Labels, Fill, Ends
<1>3. /\ pc' \in [Procs -> Labels] /\ pc'[p] = l
      /\ \A q \in Procs \ {p} : pc'[q] = pc[q] /\ (Alive(q)' <=> Alive(q))
  BY <1>1, <1>2, GotoFrame
<1>4. Others(p) /\ Alive(p)
  BY <1>1, <1>3 DEF Others, TypeOK, Alive, Fill, Ends
<1>5. TypeOK' /\ StartersHold'
  <2>1. p \in Starters /\ lock' \in Starters \cup Unowned
    BY <1>1 DEF Fill, StartersHold, Unowned, Ends
  <2>2. gen' \in [Procs -> Generations]
    BY <1>1 DEF Fill, TypeOK, files, Ends
  <2>3. claims' = claims
    BY DEF Fill, files, Ends
  <2>4. lapse' = lapse /\ won' = won /\ faults' \in 0 .. MaxFaults
    BY <1>1, NamesApart DEF Fill, TypeOK, Ends
  <2>5. StartersHold'
    BY <1>1, <1>2, <1>3 DEF StartersHold, Fill, Goto, TypeOK, Ends
  <2>6. passes' \in [Procs -> Nat]
    BY <1>1, PassesFrame DEF TypeOK, Fill
  <2> QED BY <1>1, <1>3, <2>1, <2>2, <2>3, <2>4, <2>5, <2>6 DEF TypeOK
<1>6. ConvertsTheDead'
  BY <1>1, <1>2, <1>4, DeadStay DEF files, Fill, Ends
<1>7. WonIsOver'
  BY <1>1 DEF WonIsOver, Goto, Fill, Ends
<1>8. ClaimIsWritten'
  BY <1>1 DEF ClaimIsWritten, Goto, Fill, Ends
<1>9. ClaimsDoNotOutlive'
  BY <1>1, <1>4, <1>5, NoClaims DEF files, Fill, Ends
<1>10. ASSUME lapse' = "none"
       PROVE  ConverterClaims' /\ RecordStays' /\ OneReserves' /\ LockNames'
  <2>1. lapse = "none" /\ ConverterClaims /\ RecordStays /\ OneReserves /\ LockNames
    BY <1>10 DEF IInv, Fill, Ends
  <2>2. ConverterClaims'
    BY <2>1 DEF ConverterClaims, Converting, Goto, Fill, Ends
  <2>3. RecordStays'
    <3>1. p \in Starters /\ lock = "young"
      BY <1>1, <2>1 DEF Fill, StartersHold, LockNames, Ends
    <3>2. \A r \in Procs : ~(pc[r] \in {"hold", "swap"} /\ gen[r] \in Starters)
      BY <2>1, <3>1, NamesApart DEF RecordStays, Unowned
    <3>3. pc'[p] \notin {"hold", "swap"}
      BY <1>1 DEF Fill, Goto, TypeOK, Ends
    <3> QED BY <1>4, <3>2, <3>3 DEF RecordStays, Others, Fill, Ends
  <2>4. OneReserves'
    BY <2>1 DEF OneReserves, Goto, Fill, Ends
  <2>5. LockNames'
    <3>1. p \in Starters /\ lock = "young" /\ pc[p] = "reserved"
      BY <1>1, <2>1 DEF Fill, StartersHold, LockNames, Ends
    <3>2. \A r \in Starters \ {p} : ~Holds(r) /\ pc[r] # "reserved"
      BY <2>1, <3>1, NamesApart DEF LockNames, OneReserves, Unowned
    <3>3. \A r \in Starters \ {p} : ~Holds(r)' /\ pc'[r] # "reserved"
      BY <1>3, <1>4, <3>2, NamesApart DEF Holds, Others
    <3>4. pc'[p] # "reserved" /\ (Holds(p)' => lock' = p)
      BY <1>3 DEF Fill, Goto, Ends
    <3> QED BY <3>3, <3>4 DEF LockNames
  <2> QED BY <2>2, <2>3, <2>4, <2>5
<1> QED BY <1>5, <1>6, <1>7, <1>8, <1>9, <1>10 DEF IInv

LEMMA FillFailsStep ==
  ASSUME IInv, NEW p \in Procs, FillFails(p)
  PROVE  IInv'
<1>1. /\ TypeOK /\ StartersHold /\ ConvertsTheDead /\ WonIsOver /\ ClaimIsWritten
      /\ ClaimsDoNotOutlive
  BY DEF IInv
<1>2. PICK l \in Labels : Goto(p, l)
  BY <1>1 DEF Labels, FillFails, Ends
<1>3. /\ pc' \in [Procs -> Labels] /\ pc'[p] = l
      /\ \A q \in Procs \ {p} : pc'[q] = pc[q] /\ (Alive(q)' <=> Alive(q))
  BY <1>1, <1>2, GotoFrame
<1>4. Others(p) /\ Alive(p)
  BY <1>1, <1>3 DEF Others, TypeOK, Alive, FillFails, Ends
<1>5. TypeOK' /\ StartersHold'
  <2>1. p \in Starters /\ lock' \in Starters \cup Unowned
    BY <1>1 DEF FillFails, StartersHold, Unowned, Ends
  <2>2. gen' \in [Procs -> Generations]
    BY <1>1 DEF FillFails, TypeOK, files, Ends
  <2>3. claims' = claims
    BY DEF FillFails, files, Ends
  <2>4. lapse' = lapse /\ won' = won /\ faults' \in 0 .. MaxFaults
    <3>1. faults \in 0 .. MaxFaults
      BY <1>1 DEF TypeOK
    <3> QED BY <3>1, NamesApart DEF FillFails, Ends
  <2>5. StartersHold'
    BY <1>1, <1>2, <1>3 DEF StartersHold, FillFails, Goto, TypeOK, Ends
  <2>6. passes' \in [Procs -> Nat]
    BY <1>1, PassesFrame DEF TypeOK, FillFails
  <2> QED BY <1>1, <1>3, <2>1, <2>2, <2>3, <2>4, <2>5, <2>6 DEF TypeOK
<1>6. ConvertsTheDead'
  BY <1>1, <1>2, <1>4, DeadStay DEF files, FillFails, Ends
<1>7. WonIsOver'
  BY <1>1 DEF WonIsOver, Goto, FillFails, Ends
<1>8. ClaimIsWritten'
  BY <1>1 DEF ClaimIsWritten, Goto, FillFails, Ends
<1>9. ClaimsDoNotOutlive'
  BY <1>1, <1>4, <1>5, NoClaims DEF files, FillFails, Ends
<1>10. ASSUME lapse' = "none"
       PROVE  ConverterClaims' /\ RecordStays' /\ OneReserves' /\ LockNames'
  <2>1. lapse = "none" /\ ConverterClaims /\ RecordStays /\ OneReserves /\ LockNames
    BY <1>10 DEF IInv, FillFails, Ends
  <2>2. ConverterClaims'
    BY <2>1 DEF ConverterClaims, Converting, Goto, FillFails, Ends
  <2>3. RecordStays'
    <3>1. p \in Starters /\ lock = "young"
      BY <1>1, <2>1 DEF FillFails, StartersHold, LockNames, Ends
    <3>2. \A r \in Procs : ~(pc[r] \in {"hold", "swap"} /\ gen[r] \in Starters)
      BY <2>1, <3>1, NamesApart DEF RecordStays, Unowned
    <3>3. pc'[p] \notin {"hold", "swap"}
      BY <1>1 DEF FillFails, Goto, TypeOK, Ends
    <3> QED BY <1>4, <3>2, <3>3 DEF RecordStays, Others, FillFails, Ends
  <2>4. OneReserves'
    BY <2>1 DEF OneReserves, Goto, FillFails, Ends
  <2>5. LockNames'
    <3>1. p \in Starters /\ lock = "young" /\ pc[p] = "reserved"
      BY <1>1, <2>1 DEF FillFails, StartersHold, LockNames, Ends
    <3>2. \A r \in Starters \ {p} : ~Holds(r) /\ pc[r] # "reserved"
      BY <2>1, <3>1, NamesApart DEF LockNames, OneReserves, Unowned
    <3>3. \A r \in Starters \ {p} : ~Holds(r)' /\ pc'[r] # "reserved"
      BY <1>3, <1>4, <3>2, NamesApart DEF Holds, Others
    <3>4. pc'[p] # "reserved" /\ (Holds(p)' => lock' = p)
      BY <1>3 DEF FillFails, Holds, Goto, Ends
    <3> QED BY <3>3, <3>4 DEF LockNames
  <2> QED BY <2>2, <2>3, <2>4, <2>5
<1> QED BY <1>5, <1>6, <1>7, <1>8, <1>9, <1>10 DEF IInv

LEMMA LookStep ==
  ASSUME IInv, NEW p \in Procs, Look(p)
  PROVE  IInv'
<1>1. /\ TypeOK /\ StartersHold /\ ConvertsTheDead /\ WonIsOver /\ ClaimIsWritten
      /\ ClaimsDoNotOutlive
  BY DEF IInv
<1>2. PICK l \in Labels : Goto(p, l)
  BY <1>1 DEF Labels, Look, Rest, Generation, Ends
<1>3. /\ pc' \in [Procs -> Labels] /\ pc'[p] = l
      /\ \A q \in Procs \ {p} : pc'[q] = pc[q] /\ (Alive(q)' <=> Alive(q))
  BY <1>1, <1>2, GotoFrame
<1>4. Others(p) /\ Alive(p)
  BY <1>1, <1>3 DEF Others, TypeOK, Alive, Look, Ends, Rest
<1>5. TypeOK' /\ StartersHold'
  <2>1. lock' \in Starters \cup Unowned
    BY <1>1 DEF Look, TypeOK, files, Ends, Rest
  <2>2. gen' \in [Procs -> Generations]
    BY <1>1, NamesApart DEF Look, Generation, TypeOK, Generations, Unowned, Ends, Rest
  <2>3. claims' = claims
    BY DEF Look, files, Ends, Rest
  <2>4. lapse' = lapse /\ won' = won /\ faults' \in 0 .. MaxFaults
    BY <1>1, NamesApart DEF Look, TypeOK, Ends, Rest
  <2>5. StartersHold'
    BY <1>1 DEF StartersHold, Look, Rest, Goto, TypeOK, Ends
  <2>6. passes' \in [Procs -> Nat]
    BY <1>1, PassesFrame DEF TypeOK, Look
  <2> QED BY <1>1, <1>3, <2>1, <2>2, <2>3, <2>4, <2>5, <2>6 DEF TypeOK
<1>6. ConvertsTheDead'
  <2>1. \A r \in Procs : gen'[r] = gen[r] \/ (r = p /\ gen'[r] = Generation)
    BY <1>1 DEF Look, TypeOK, Ends, Rest
  <2>2. gen'[p] = gen[p] \/ (gen'[p] = Generation /\ (lock = "old" \/ ~Alive(lock)))
    BY <1>1 DEF Look, TypeOK, Ends, Rest
  <2>3. Generation \in Starters => Generation = lock /\ lock # "old"
    BY NamesApart DEF Generation, Unowned
  <2>4. \A q \in Procs : ~Alive(q) => ~Alive(q)'
    BY <1>3, <1>4
  <2> QED BY <1>1, <2>1, <2>2, <2>3, <2>4, NamesApart DEF ConvertsTheDead
<1>7. WonIsOver'
  BY <1>1 DEF WonIsOver, TypeOK, Procs, Goto, Look, Ends, Rest
<1>8. ClaimIsWritten'
  BY <1>1, <1>3, <1>4 DEF ClaimIsWritten, Others, files, Goto, Look, Rest, Ends
<1>9. ClaimsDoNotOutlive'
  BY <1>1, <1>4, <1>5, NoClaims DEF files, Look, Ends, Rest
<1>10. ASSUME lapse' = "none"
       PROVE  ConverterClaims' /\ RecordStays' /\ OneReserves' /\ LockNames'
  <2>1. lapse = "none" /\ ConverterClaims /\ RecordStays /\ OneReserves /\ LockNames
    BY <1>10 DEF IInv, Look, Rest, Generation, Ends
  <2>2. ConverterClaims'
    BY <1>3, <1>4, <2>1 DEF ConverterClaims, Converting, files, Others, Goto, Look, Rest, Ends
  <2>3. RecordStays'
    BY <1>1, <2>1 DEF RecordStays, TypeOK, files, Goto, Look, Rest, Ends
  <2>4. OneReserves'
    BY <1>3, <2>1 DEF OneReserves, Procs, Goto, Look, Rest, Ends
  <2>5. LockNames'
    BY <1>3, <2>1 DEF LockNames, Holds, files, Procs, Goto, Look, Rest, Ends
  <2> QED BY <2>2, <2>3, <2>4, <2>5
<1> QED BY <1>5, <1>6, <1>7, <1>8, <1>9, <1>10 DEF IInv

LEMMA LastStep ==
  ASSUME IInv, NEW p \in Procs, Last(p)
  PROVE  IInv'
<1>1. /\ TypeOK /\ StartersHold /\ ConvertsTheDead /\ WonIsOver /\ ClaimIsWritten
      /\ ClaimsDoNotOutlive
  BY DEF IInv
<1>2. Goto(p, "idle") /\ "idle" \in Labels /\ passes' \in [Procs -> Nat]
  BY <1>1, PassesFrame DEF Labels, Last, Ends
<1>3. /\ pc' \in [Procs -> Labels] /\ pc'[p] = "idle"
      /\ \A q \in Procs \ {p} : pc'[q] = pc[q] /\ (Alive(q)' <=> Alive(q))
  BY <1>1, <1>2, GotoFrame
<1>4. Others(p) /\ Alive(p)
  BY <1>1, <1>3 DEF Others, TypeOK, Alive, Last
<1>5. TypeOK' /\ StartersHold'
  BY <1>1, <1>2, <1>3 DEF TypeOK, StartersHold, files, Goto, Last
<1>6. ConvertsTheDead'
  BY <1>1, <1>2, <1>4, DeadStay DEF files, Last
<1>7. WonIsOver'
  BY <1>1, <1>2 DEF WonIsOver, Goto, Last
<1>8. ClaimIsWritten'
  BY <1>1, <1>2 DEF ClaimIsWritten, files, Goto, Last
<1>9. ClaimsDoNotOutlive'
  BY <1>1, <1>4, <1>5, NoClaims DEF files, Last
<1>10. ASSUME lapse' = "none"
       PROVE  ConverterClaims' /\ RecordStays' /\ OneReserves' /\ LockNames'
  <2>1. lapse = "none" /\ ConverterClaims /\ RecordStays /\ OneReserves /\ LockNames
    BY <1>10 DEF IInv, Last
  <2>2. ConverterClaims'
    BY <1>2, <2>1 DEF ConverterClaims, Converting, files, Goto, Last
  <2>3. RecordStays'
    BY <1>2, <2>1 DEF RecordStays, files, Goto, Last
  <2>4. OneReserves'
    BY <1>2, <2>1 DEF OneReserves, Goto, Last
  <2>5. LockNames'
    BY <1>1, <1>2, <2>1 DEF LockNames, WonIsOver, Holds, files, Goto, Last
  <2> QED BY <2>2, <2>3, <2>4, <2>5
<1> QED BY <1>5, <1>6, <1>7, <1>8, <1>9, <1>10 DEF IInv

LEMMA TakeClaimStep ==
  ASSUME IInv, NEW p \in Procs, TakeClaim(p)
  PROVE  IInv'
<1>1. /\ TypeOK /\ StartersHold /\ ConvertsTheDead /\ WonIsOver /\ ClaimIsWritten
      /\ ClaimsDoNotOutlive
  BY DEF IInv
<1>2. PICK l \in Labels : Goto(p, l)
  BY <1>1 DEF Labels, TakeClaim
<1>3. /\ pc' \in [Procs -> Labels] /\ pc'[p] = l
      /\ \A q \in Procs \ {p} : pc'[q] = pc[q] /\ (Alive(q)' <=> Alive(q))
  BY <1>1, <1>2, GotoFrame
<1>4. Others(p) /\ Alive(p)
  BY <1>1, <1>3 DEF Others, TypeOK, Alive, TakeClaim
<1>5. TypeOK' /\ StartersHold'
  <2>1. [by |-> p, record |-> "empty"] \in [by : Procs, record : {"empty", "old", "written"}]
    OBVIOUS
  <2>2. claims' \in [Generations ->
          [by : Procs, record : {"empty", "old", "written"}] \cup {None}]
    <3>1. \/ claims' = claims
          \/ claims' = [claims EXCEPT ![gen[p]] = [by |-> p, record |-> "empty"]]
      BY DEF TakeClaim
    <3> QED BY <1>1, <2>1, <3>1 DEF TypeOK
  <2>3. StartersHold'
    BY <1>1, <1>2, <1>3 DEF StartersHold, TakeClaim, Goto, TypeOK
  <2> QED BY <1>1, <1>3, <2>2, <2>3 DEF TypeOK, TakeClaim
<1>6. ConvertsTheDead'
  BY <1>1, <1>2, <1>4, DeadStay DEF files, TakeClaim
<1>7. WonIsOver'
  BY <1>1, <1>2 DEF WonIsOver, Goto, TakeClaim
<1>8. \/ claims' = claims /\ pc'[p] = "judge"
      \/ /\ claims[gen[p]] = None /\ pc'[p] = "mark"
         /\ \A g \in Generations \ {gen[p]} : claims'[g] = claims[g]
         /\ claims'[gen[p]].by = p /\ claims'[gen[p]] # None
  <2>1. CASE claims[gen[p]] = None
    <3>1. PICK c : c = [by |-> p, record |-> "empty"]
      OBVIOUS
    <3>2. c \in [by : Procs, record : {"empty", "old", "written"}] /\ c.by = p
      BY <3>1
    <3>3. c # None /\ claims' = [claims EXCEPT ![gen[p]] = c] /\ pc'[p] = "mark"
      BY <1>1, <2>1, <3>1, ClaimsAreSome DEF TakeClaim, Goto, TypeOK
    <3> QED BY <1>1, <2>1, <3>2, <3>3 DEF TypeOK
  <2>2. CASE claims[gen[p]] # None
    BY <1>1, <2>2 DEF TakeClaim, Goto, TypeOK
  <2> QED BY <2>1, <2>2
<1>9. gen' = gen /\ pc[p] = "claim" /\ OthersClaims(p)
  BY <1>8 DEF TakeClaim, OthersClaims
<1>11. ClaimIsWritten'
  BY <1>1, <1>4, <1>8, <1>9, WrittenFrame
<1>12. \A g \in Generations : claims[g] # None => claims[g].by # p
  BY <1>1, <1>4, <1>9 DEF ClaimsDoNotOutlive, Converting
<1>13. ClaimsDoNotOutlive'
  BY <1>1, <1>4, <1>5, <1>8, <1>9, <1>12, ClaimsFrame DEF Converting
<1>10. ASSUME lapse' = "none"
       PROVE  ConverterClaims' /\ RecordStays' /\ OneReserves' /\ LockNames'
  <2>1. lapse = "none" /\ ConverterClaims /\ RecordStays /\ OneReserves /\ LockNames
    BY <1>10 DEF IInv, TakeClaim
  <2>2. ConverterClaims'
    <3>1. \A g \in Generations : Converting(p, g)' => claims'[g] # None /\ claims'[g].by = p
      BY <1>8, <1>9 DEF Converting
    <3> QED BY <1>4, <1>8, <1>9, <2>1, <3>1, ConverterFrame
  <2>3. RecordStays'
    BY <1>3, <2>1 DEF RecordStays, Goto, TakeClaim
  <2>4. OneReserves'
    BY <1>3, <2>1 DEF OneReserves, Procs, Goto, TakeClaim
  <2>5. LockNames'
    BY <1>2, <2>1 DEF LockNames, Holds, Goto, TakeClaim
  <2> QED BY <2>2, <2>3, <2>4, <2>5
<1> QED BY <1>5, <1>6, <1>7, <1>10, <1>11, <1>13 DEF IInv

LEMMA MarkStep ==
  ASSUME IInv, NEW p \in Procs, Mark(p)
  PROVE  IInv'
<1>1. /\ TypeOK /\ StartersHold /\ ConvertsTheDead /\ WonIsOver /\ ClaimIsWritten
      /\ ClaimsDoNotOutlive
  BY DEF IInv
<1>2. PICK l \in Labels : Goto(p, l)
  BY <1>1 DEF Labels, Mark
<1>3. /\ pc' \in [Procs -> Labels] /\ pc'[p] = l
      /\ \A q \in Procs \ {p} : pc'[q] = pc[q] /\ (Alive(q)' <=> Alive(q))
  BY <1>1, <1>2, GotoFrame
<1>4. Others(p) /\ Alive(p)
  BY <1>1, <1>3 DEF Others, TypeOK, Alive, Mark
<1>5. TypeOK' /\ StartersHold'
  <2>1. lock' \in Starters \cup Unowned
    BY <1>1 DEF Mark, TypeOK, files
  <2>2. gen' \in [Procs -> Generations]
    BY <1>1 DEF Mark, TypeOK, files
  <2>3. claims' \in [Generations ->
          [by : Procs, record : {"empty", "old", "written"}] \cup {None}]
    <3>1. PICK c : c = claims[gen[p]]
      OBVIOUS
    <3>2. claims' = [claims EXCEPT ![gen[p]] =
             IF c # None /\ c.by = p THEN [c EXCEPT !.record = "written"] ELSE c]
      BY <3>1 DEF Mark
    <3>3. c \in [by : Procs, record : {"empty", "old", "written"}] \cup {None}
      BY <1>1, <3>1 DEF TypeOK
    <3> QED BY <1>1, <3>2, <3>3 DEF TypeOK
  <2>4. lapse' = lapse /\ won' = won /\ faults' \in 0 .. MaxFaults
    BY <1>1, NamesApart DEF Mark, TypeOK
  <2>5. StartersHold'
    BY <1>1, <1>2, <1>3 DEF StartersHold, Mark, Goto, TypeOK
  <2>6. passes' \in [Procs -> Nat]
    BY <1>1 DEF TypeOK, Mark
  <2> QED BY <1>1, <1>3, <2>1, <2>2, <2>3, <2>4, <2>5, <2>6 DEF TypeOK
<1>6. ConvertsTheDead'
  BY <1>1, <1>2, <1>4, DeadStay DEF files, Mark
<1>7. WonIsOver'
  BY <1>1 DEF WonIsOver, Goto, Mark
<1>8. PICK c : c = claims[gen[p]]
  OBVIOUS
<1>9. /\ c \in [by : Procs, record : {"empty", "old", "written"}] \cup {None}
      /\ \A g \in Generations \ {gen[p]} : claims'[g] = claims[g]
      /\ claims'[gen[p]] = IF c # None /\ c.by = p THEN [c EXCEPT !.record = "written"] ELSE c
      /\ gen' = gen /\ pc[p] = "mark" /\ pc'[p] = "check" /\ gen[p] \in Generations
  BY <1>1, <1>8 DEF TypeOK, Mark, Goto
<1>11. /\ c # None /\ c.by = p
           => /\ claims'[gen[p]] # None
              /\ claims'[gen[p]].by = p /\ claims'[gen[p]].record = "written"
       /\ ~(c # None /\ c.by = p) => claims'[gen[p]] = c
  <2>1. CASE c # None /\ c.by = p
    <3>1. c \in [by : Procs, record : {"empty", "old", "written"}]
      BY <1>9, <2>1
    <3>2. PICK d \in [by : Procs, record : {"empty", "old", "written"}] :
            d = claims'[gen[p]] /\ d.by = p /\ d.record = "written"
      BY <1>9, <2>1, <3>1
    <3> QED BY <2>1, <3>2, ClaimsAreSome
  <2> QED BY <1>9, <2>1
<1>12. OthersClaims(p)
  BY <1>8, <1>9, <1>11 DEF OthersClaims
<1>13. ClaimIsWritten'
  BY <1>1, <1>4, <1>9, <1>11, <1>12, WrittenFrame
<1>14. \A g \in Generations : (claims'[g] # None /\ claims'[g].by = p) <=> (claims[g] # None /\ claims[g].by = p)
  BY <1>8, <1>9, <1>11
<1>15. ClaimsDoNotOutlive'
  <2>1. \A g \in Generations :
          claims'[g] # None /\ claims'[g].by = p => Converting(p, g)'
    BY <1>1, <1>4, <1>9, <1>14 DEF ClaimsDoNotOutlive, Converting
  <2> QED BY <1>1, <1>4, <1>5, <1>12, <2>1, ClaimsFrame
<1>10. ASSUME lapse' = "none"
       PROVE  ConverterClaims' /\ RecordStays' /\ OneReserves' /\ LockNames'
  <2>1. lapse = "none" /\ ConverterClaims /\ RecordStays /\ OneReserves /\ LockNames
    BY <1>10 DEF IInv, Mark
  <2>2. ConverterClaims'
    <3>1. \A g \in Generations : \A q \in Procs \ {p} :
            claims[g] # None /\ claims[g].by = q => claims'[g] = claims[g]
      BY <1>8, <1>9, <1>11
    <3>2. \A g \in Generations : Converting(p, g)' => claims'[g] # None /\ claims'[g].by = p
      BY <1>9, <1>14, <2>1 DEF ConverterClaims, Converting
    <3> QED BY <1>4, <1>12, <2>1, <3>1, <3>2, ConverterFrame
  <2>3. RecordStays'
    BY <2>1 DEF RecordStays, Goto, Mark
  <2>4. OneReserves'
    BY <2>1 DEF OneReserves, Goto, Mark
  <2>5. LockNames'
    BY <2>1 DEF LockNames, Holds, Goto, Mark
  <2> QED BY <2>2, <2>3, <2>4, <2>5
<1> QED BY <1>5, <1>6, <1>7, <1>10, <1>13, <1>15 DEF IInv

LEMMA JudgeStep ==
  ASSUME IInv, NEW p \in Procs, Judge(p)
  PROVE  IInv'
<1>1. /\ TypeOK /\ StartersHold /\ ConvertsTheDead /\ WonIsOver /\ ClaimIsWritten
      /\ ClaimsDoNotOutlive
  BY DEF IInv
<1>2. PICK l \in Labels :
        /\ Goto(p, l) /\ l \in {"discard", "start", "last", "idle"}
        /\ l = "start" => p \in Starters
  <2>1. CASE Abandoned(claims[gen[p]])
    BY <2>1 DEF Judge, Labels
  <2>2. CASE ~Abandoned(claims[gen[p]])
    BY <2>2, RestGoes DEF Judge, Labels
  <2> QED BY <2>1, <2>2
<1>3. /\ pc' \in [Procs -> Labels] /\ pc'[p] = l
      /\ \A q \in Procs \ {p} : pc'[q] = pc[q] /\ (Alive(q)' <=> Alive(q))
  BY <1>1, <1>2, GotoFrame
<1>4. Others(p) /\ Alive(p)
  BY <1>1, <1>3 DEF Others, TypeOK, Alive, Judge
<1>5. TypeOK' /\ StartersHold'
  <2>1. passes' \in [Procs -> Nat]
    BY <1>1, PassesFrame DEF TypeOK, Judge
  <2> QED BY <1>1, <1>2, <1>3, <2>1 DEF TypeOK, StartersHold, files, Judge
<1>6. ConvertsTheDead'
  BY <1>1, <1>2, <1>4, DeadStay DEF files, Judge
<1>7. WonIsOver'
  BY <1>1, <1>2 DEF WonIsOver, Goto, Judge
<1>8. ClaimIsWritten'
  BY <1>1, <1>2 DEF ClaimIsWritten, files, Goto, Judge
<1>9. ClaimsDoNotOutlive'
  BY <1>1, <1>4, <1>5, NoClaims DEF files, Judge
<1>10. ASSUME lapse' = "none"
       PROVE  ConverterClaims' /\ RecordStays' /\ OneReserves' /\ LockNames'
  <2>1. lapse = "none" /\ ConverterClaims /\ RecordStays /\ OneReserves /\ LockNames
    BY <1>10 DEF IInv, Judge
  <2>2. ConverterClaims'
    BY <1>2, <2>1 DEF ConverterClaims, Converting, files, Goto, Judge
  <2>3. RecordStays'
    BY <1>2, <2>1 DEF RecordStays, files, Goto, Judge
  <2>4. OneReserves'
    BY <1>2, <2>1 DEF OneReserves, Goto, Judge
  <2>5. LockNames'
    BY <1>2, <1>1, <2>1 DEF LockNames, WonIsOver, Holds, files, Goto, Judge
  <2> QED BY <2>2, <2>3, <2>4, <2>5
<1> QED BY <1>5, <1>6, <1>7, <1>8, <1>9, <1>10 DEF IInv

LEMMA DiscardStep ==
  ASSUME IInv, NEW p \in Procs, Discard(p)
  PROVE  IInv'
<1>1. /\ TypeOK /\ StartersHold /\ ConvertsTheDead /\ WonIsOver /\ ClaimIsWritten
      /\ ClaimsDoNotOutlive
  BY DEF IInv
<1>2. PICK l \in Labels :
        /\ Goto(p, l) /\ l \in {"start", "last", "idle", "holding"}
        /\ l \in {"start", "holding"} => p \in Starters
        /\ p \in Starters => (won[p] <=> l = "holding")
  BY <1>1, OverGoes DEF Labels, Discard
<1>3. /\ pc' \in [Procs -> Labels] /\ pc'[p] = l
      /\ \A q \in Procs \ {p} : pc'[q] = pc[q] /\ (Alive(q)' <=> Alive(q))
  BY <1>1, <1>2, GotoFrame
<1>4. Others(p) /\ Alive(p)
  BY <1>3 DEF Others, Alive, Discard
<1>5. TypeOK' /\ StartersHold'
  <2>1. passes' \in [Procs -> Nat]
    BY <1>1, PassesFrame DEF Discard
  <2> QED BY <1>1, <1>2, <1>3, <2>1 DEF TypeOK, StartersHold, Discard, Lapses
<1>6. ConvertsTheDead'
  BY <1>1, <1>2, <1>4, DeadStay DEF Discard
<1>7. WonIsOver'
  BY <1>1, <1>2 DEF WonIsOver, TypeOK, Procs, Goto, Discard
<1>8. ClaimIsWritten'
  BY <1>1, <1>2 DEF ClaimIsWritten, TypeOK, Goto, Discard
<1>9. ClaimsDoNotOutlive'
  <2>1. /\ \A g \in Generations \ {gen[p]} : claims'[g] = claims[g]
        /\ claims'[gen[p]] = None
    BY <1>1 DEF Discard, TypeOK
  <2>2. OthersClaims(p)
    BY <2>1 DEF OthersClaims
  <2>3. \A g \in Generations : claims'[g] # None => claims'[g].by # p
    BY <1>1, <1>4, <2>1 DEF ClaimsDoNotOutlive, Converting
  <2> QED BY <1>1, <1>4, <1>5, <2>2, <2>3, ClaimsFrame
<1>10. ASSUME lapse' = "none"
       PROVE  ConverterClaims' /\ RecordStays' /\ OneReserves' /\ LockNames'
  <2>1. lapse = "none" /\ ConverterClaims /\ RecordStays /\ OneReserves /\ LockNames
    BY <1>10 DEF IInv, Discard, Lapses
  <2>2. ConverterClaims'
    BY <1>2, <1>10, <2>1 DEF ConverterClaims, Converting, Alive, Goto, Discard, Lapses
  <2>3. RecordStays'
    BY <1>2, <1>10, <2>1 DEF RecordStays, Goto, Discard, Lapses
  <2>4. OneReserves'
    BY <1>2, <1>10, <2>1 DEF OneReserves, Goto, Discard, Lapses
  <2>5. LockNames'
    BY <1>2, <1>10, <2>1 DEF LockNames, Holds, Goto, Discard, Lapses
  <2> QED BY <2>2, <2>3, <2>4, <2>5
<1> QED BY <1>5, <1>6, <1>7, <1>8, <1>9, <1>10 DEF IInv

LEMMA ReleaseStep ==
  ASSUME IInv, NEW p \in Procs, Release(p)
  PROVE  IInv'
<1>1. /\ TypeOK /\ StartersHold /\ ConvertsTheDead /\ WonIsOver /\ ClaimIsWritten
      /\ ClaimsDoNotOutlive
  BY DEF IInv
<1>2. PICK l \in Labels :
        /\ Goto(p, l) /\ l \in {"discard", "start", "last", "idle", "holding"}
        /\ l \in {"start", "holding"} => p \in Starters
        /\ p \in Starters => (l # "discard" => (won[p] <=> l = "holding"))
        /\ Mine(p) <=> l = "discard"
  <2>1. CASE Mine(p)
    BY <2>1 DEF Release, Labels
  <2>2. CASE ~Mine(p)
    BY <1>1, <2>2, OverGoes DEF Release, Labels
  <2> QED BY <2>1, <2>2
<1>3. /\ pc' \in [Procs -> Labels] /\ pc'[p] = l
      /\ \A q \in Procs \ {p} : pc'[q] = pc[q] /\ (Alive(q)' <=> Alive(q))
  BY <1>1, <1>2, GotoFrame
<1>4. Others(p) /\ Alive(p)
  BY <1>3 DEF Others, Alive, Release
<1>5. TypeOK' /\ StartersHold'
  <2>1. passes' \in [Procs -> Nat]
    BY <1>1, PassesFrame DEF TypeOK, Release
  <2> QED BY <1>1, <1>2, <1>3, <2>1 DEF TypeOK, StartersHold, files, Release
<1>6. ConvertsTheDead'
  BY <1>1, <1>2, <1>4, DeadStay DEF Release
<1>7. WonIsOver'
  BY <1>1, <1>2 DEF WonIsOver, Goto, Release
<1>8. ClaimIsWritten'
  BY <1>1, <1>2 DEF ClaimIsWritten, files, Goto, Release
<1>9. ClaimsDoNotOutlive'
  <2>1. OthersClaims(p)
    BY DEF OthersClaims, files, Release
  <2>2. ASSUME NEW g \in Generations, claims'[g] # None, claims'[g].by = p
        PROVE  Converting(p, g)'
    <3>1. claims' = claims /\ gen' = gen /\ pc[p] = "release"
      BY DEF files, Release
    <3>2. gen[p] = g
      BY <1>1, <1>4, <2>2, <3>1 DEF ClaimsDoNotOutlive, Converting
    <3>3. claims[g].record = "written"
      BY <1>1, <2>2, <3>1, <3>2 DEF ClaimIsWritten
    <3>4. Mine(p)
      BY <1>1, <2>2, <3>1, <3>2, <3>3, ClaimType DEF Mine
    <3>5. pc'[p] = "discard"
      BY <1>2, <1>3, <3>4
    <3> QED BY <2>2, <3>1, <3>2, <3>5 DEF Converting
  <2> QED BY <1>1, <1>4, <1>5, <2>1, <2>2, ClaimsFrame
<1>10. ASSUME lapse' = "none"
       PROVE  ConverterClaims' /\ RecordStays' /\ OneReserves' /\ LockNames'
  <2>1. lapse = "none" /\ ConverterClaims /\ RecordStays /\ OneReserves /\ LockNames
    BY <1>10 DEF IInv, Release, Mine
  <2>2. ConverterClaims'
    BY <1>2, <2>1 DEF ConverterClaims, Converting, files, Goto, Release
  <2>3. RecordStays'
    BY <1>2, <2>1 DEF RecordStays, files, Goto, Release
  <2>4. OneReserves'
    BY <1>2, <2>1 DEF OneReserves, Goto, Release
  <2>5. LockNames'
    BY <1>2, <2>1 DEF LockNames, Holds, files, Goto, Release
  <2> QED BY <2>2, <2>3, <2>4, <2>5
<1> QED BY <1>5, <1>6, <1>7, <1>8, <1>9, <1>10 DEF IInv

LEMMA CheckStep ==
  ASSUME IInv, NEW p \in Procs, Check(p)
  PROVE  IInv'
<1>1. /\ TypeOK /\ StartersHold /\ ConvertsTheDead /\ WonIsOver /\ ClaimIsWritten
      /\ ClaimsDoNotOutlive
  BY DEF IInv
<1>2. PICK l \in Labels : Goto(p, l)
  BY <1>1 DEF Labels, Check, Unchanged
<1>3. /\ pc' \in [Procs -> Labels] /\ pc'[p] = l
      /\ \A q \in Procs \ {p} : pc'[q] = pc[q] /\ (Alive(q)' <=> Alive(q))
  BY <1>1, <1>2, GotoFrame
<1>4. Others(p) /\ Alive(p)
  BY <1>1, <1>3 DEF Others, TypeOK, Alive, Check, Unchanged
<1>5. TypeOK' /\ StartersHold'
  BY <1>1, <1>3 DEF TypeOK, StartersHold, files, Goto, Check
<1>6. ConvertsTheDead'
  BY <1>1, <1>2, <1>4, DeadStay DEF files, Check, Unchanged
<1>7. WonIsOver'
  BY <1>1 DEF WonIsOver, Goto, Check
<1>8. ClaimIsWritten'
  BY <1>1 DEF ClaimIsWritten, files, Goto, Check
<1>9. ClaimsDoNotOutlive'
  <2>1. OthersClaims(p)
    BY DEF OthersClaims, files, Check
  <2>2. \A g \in Generations :
          claims'[g] # None /\ claims'[g].by = p /\ Alive(p)' => Converting(p, g)'
    BY <1>1 DEF files, ClaimsDoNotOutlive, Converting, Alive, Goto, Check
  <2> QED BY <1>1, <1>4, <1>5, <2>1, <2>2, ClaimsFrame
<1>10. ASSUME lapse' = "none"
       PROVE  ConverterClaims' /\ RecordStays' /\ OneReserves' /\ LockNames'
  <2>1. lapse = "none" /\ ConverterClaims /\ RecordStays /\ OneReserves /\ LockNames
    BY <1>10 DEF IInv, Check, Unchanged
  <2>2. ConverterClaims'
    BY <2>1 DEF ConverterClaims, Converting, files, Goto, Check
  <2>3. RecordStays'
    BY <2>1, ProcessesAssumption DEF RecordStays, files, Goto, Check, Unchanged
  <2>4. OneReserves'
    BY <2>1 DEF OneReserves, Goto, Check
  <2>5. LockNames'
    BY <1>1, <2>1 DEF LockNames, WonIsOver, Holds, files, Goto, Check
  <2> QED BY <2>2, <2>3, <2>4, <2>5
<1> QED BY <1>5, <1>6, <1>7, <1>8, <1>9, <1>10 DEF IInv

LEMMA HoldStep ==
  ASSUME IInv, NEW p \in Procs, Hold(p)
  PROVE  IInv'
<1>1. /\ TypeOK /\ StartersHold /\ ConvertsTheDead /\ WonIsOver /\ ClaimIsWritten
      /\ ClaimsDoNotOutlive
  BY DEF IInv
<1>2. PICK l \in Labels : Goto(p, l)
  BY <1>1 DEF Labels, Hold, Mine
<1>3. /\ pc' \in [Procs -> Labels] /\ pc'[p] = l
      /\ \A q \in Procs \ {p} : pc'[q] = pc[q] /\ (Alive(q)' <=> Alive(q))
  BY <1>1, <1>2, GotoFrame
<1>4. Others(p) /\ Alive(p)
  BY <1>1, <1>3 DEF Others, TypeOK, Alive, Hold, Mine
<1>5. TypeOK' /\ StartersHold'
  <2>1. lock' \in Starters \cup Unowned
    BY <1>1 DEF Hold, TypeOK, files
  <2>2. gen' \in [Procs -> Generations]
    BY <1>1 DEF Hold, TypeOK, files
  <2>3. claims' = claims
    BY DEF Hold, files
  <2>4. lapse' = lapse /\ won' = won /\ faults' \in 0 .. MaxFaults
    <3>1. faults \in 0 .. MaxFaults
      BY <1>1 DEF TypeOK
    <3> QED BY <3>1, NamesApart DEF Hold
  <2>5. StartersHold'
    BY <1>1, <1>2, <1>3 DEF StartersHold, Hold, Goto, TypeOK
  <2>6. passes' \in [Procs -> Nat]
    BY <1>1 DEF TypeOK, Hold
  <2> QED BY <1>1, <1>3, <2>1, <2>2, <2>3, <2>4, <2>5, <2>6 DEF TypeOK
<1>6. ConvertsTheDead'
  BY <1>1, <1>2, <1>4, DeadStay DEF files, Hold, Mine
<1>7. WonIsOver'
  BY <1>1, <1>2 DEF WonIsOver, Goto, Hold
<1>8. ClaimIsWritten'
  BY <1>1, <1>2 DEF ClaimIsWritten, files, Goto, Hold
<1>9. ClaimsDoNotOutlive'
  <2>1. OthersClaims(p)
    BY DEF OthersClaims, files, Hold
  <2>2. \A g \in Generations :
          claims'[g] # None /\ claims'[g].by = p /\ Alive(p)' => Converting(p, g)'
    BY <1>1, <1>2 DEF files, ClaimsDoNotOutlive, Converting, Alive, Goto, Hold
  <2> QED BY <1>1, <1>4, <1>5, <2>1, <2>2, ClaimsFrame
<1>10. ASSUME lapse' = "none"
       PROVE  ConverterClaims' /\ RecordStays' /\ OneReserves' /\ LockNames'
  <2>1. lapse = "none" /\ ConverterClaims /\ RecordStays /\ OneReserves /\ LockNames
    BY <1>10 DEF IInv, Hold, Mine
  <2>2. ConverterClaims'
    BY <1>3, <2>1 DEF ConverterClaims, Converting, files, Hold
  <2>3. RecordStays'
    BY <1>4, <2>1 DEF RecordStays, files, Others, Hold
  <2>4. OneReserves'
    BY <1>3, <2>1 DEF OneReserves, Procs, Goto, Hold
  <2>5. LockNames'
    BY <1>1, <1>2, <2>1 DEF LockNames, WonIsOver, Holds, files, Goto, Hold
  <2> QED BY <2>2, <2>3, <2>4, <2>5
<1> QED BY <1>5, <1>6, <1>7, <1>8, <1>9, <1>10 DEF IInv

LEMMA SwapStep ==
  ASSUME IInv, NEW p \in Procs, Swap(p)
  PROVE  IInv'
<1>1. /\ TypeOK /\ StartersHold /\ ConvertsTheDead /\ WonIsOver /\ ClaimIsWritten
      /\ ClaimsDoNotOutlive
  BY DEF IInv
<1>2. PICK l \in Labels : Goto(p, l)
  BY <1>1 DEF Labels, Swap, Lapses
<1>3. /\ pc' \in [Procs -> Labels] /\ pc'[p] = l
      /\ \A q \in Procs \ {p} : pc'[q] = pc[q] /\ (Alive(q)' <=> Alive(q))
  BY <1>1, <1>2, GotoFrame
<1>4. Others(p) /\ Alive(p)
  BY <1>1, <1>3 DEF Others, TypeOK, Alive, Swap, Lapses
<1>5. TypeOK' /\ StartersHold'
  BY <1>1, <1>3 DEF TypeOK, StartersHold, Unowned, Goto, Swap, Lapses
<1>6. ConvertsTheDead'
  BY <1>1, <1>2, <1>4, DeadStay DEF files, Swap, Lapses
<1>7. WonIsOver'
  BY <1>1 DEF WonIsOver, TypeOK, Procs, Goto, Swap
<1>8. ClaimIsWritten'
  BY <1>1, <1>3 DEF ClaimIsWritten, Swap
<1>9. ClaimsDoNotOutlive'
  <2>1. OthersClaims(p)
    BY DEF OthersClaims, files, Swap
  <2>2. \A g \in Generations :
          claims'[g] # None /\ claims'[g].by = p /\ Alive(p)' => Converting(p, g)'
    BY <1>1 DEF TypeOK, ClaimsDoNotOutlive, Converting, Alive, Goto, Swap
  <2> QED BY <1>1, <1>4, <1>5, <2>1, <2>2, ClaimsFrame
<1>10. ASSUME lapse' = "none"
       PROVE  ConverterClaims' /\ RecordStays' /\ OneReserves' /\ LockNames'
  <2>1. lapse = "none" /\ ConverterClaims /\ RecordStays /\ OneReserves /\ LockNames
    BY <1>10 DEF IInv, Swap, Lapses
  <2>2. ConverterClaims'
    BY <1>10, <2>1 DEF ConverterClaims, Converting, Goto, Swap, Lapses
  <2>3. RecordStays'
    BY <1>1, <1>10, <2>1, ProcessesAssumption
       DEF RecordStays, ConverterClaims, Converting, TypeOK, Unowned, Generations, Goto,
         Swap, Lapses
  <2>4. OneReserves'
    BY <1>10, <2>1 DEF OneReserves, Goto, Swap, Lapses
  <2>5. LockNames'
    BY <1>1, <1>10, <2>1, ProcessesAssumption
       DEF LockNames, RecordStays, ConvertsTheDead, Holds, Alive, TypeOK, Unowned,
         Generations, Goto, Swap, Lapses
  <2> QED BY <2>2, <2>3, <2>4, <2>5
<1> QED BY <1>5, <1>6, <1>7, <1>8, <1>9, <1>10 DEF IInv

LEMMA QuitStep ==
  ASSUME IInv, NEW p \in Procs, Quit(p)
  PROVE  IInv'
<1>1. /\ TypeOK /\ StartersHold /\ ConvertsTheDead /\ WonIsOver /\ ClaimIsWritten
      /\ ClaimsDoNotOutlive
  BY DEF IInv
<1>2. PICK l \in Labels : Goto(p, l)
  BY <1>1 DEF Labels, Quit
<1>3. /\ pc' \in [Procs -> Labels] /\ pc'[p] = l
      /\ \A q \in Procs \ {p} : pc'[q] = pc[q] /\ (Alive(q)' <=> Alive(q))
  BY <1>1, <1>2, GotoFrame
<1>4. Others(p) /\ Alive(p)
  BY <1>1, <1>3 DEF Others, TypeOK, Alive, Quit
<1>5. TypeOK' /\ StartersHold'
  BY <1>1, <1>3 DEF TypeOK, StartersHold, files, Quit
<1>6. ConvertsTheDead'
  BY <1>1, <1>2, <1>4, DeadStay DEF files, Quit
<1>7. WonIsOver'
  BY <1>1 DEF WonIsOver, Goto, Quit
<1>8. ClaimIsWritten'
  BY <1>1 DEF ClaimIsWritten, files, Goto, Quit
<1>9. ClaimsDoNotOutlive'
  BY <1>1, <1>4, <1>5, NoClaims DEF files, Quit
<1>10. ASSUME lapse' = "none"
       PROVE  ConverterClaims' /\ RecordStays' /\ OneReserves' /\ LockNames'
  <2>1. lapse = "none" /\ ConverterClaims /\ RecordStays /\ OneReserves /\ LockNames
    BY <1>10 DEF IInv, Quit
  <2>2. ConverterClaims'
    BY <2>1 DEF ConverterClaims, Converting, files, Goto, Quit
  <2>3. RecordStays'
    BY <2>1 DEF RecordStays, files, Goto, Quit
  <2>4. OneReserves'
    BY <2>1 DEF OneReserves, Goto, Quit
  <2>5. LockNames'
    BY <2>1 DEF LockNames, Holds, files, Goto, Quit
  <2> QED BY <2>2, <2>3, <2>4, <2>5
<1> QED BY <1>5, <1>6, <1>7, <1>8, <1>9, <1>10 DEF IInv

LEMMA RemoveStep ==
  ASSUME IInv, NEW p \in Procs, Remove(p)
  PROVE  IInv'
<1>1. /\ TypeOK /\ StartersHold /\ ConvertsTheDead /\ WonIsOver /\ ClaimIsWritten
      /\ ClaimsDoNotOutlive
  BY DEF IInv
<1>2. PICK l \in Labels : Goto(p, l)
  BY <1>1 DEF Labels, Remove
<1>3. /\ pc' \in [Procs -> Labels] /\ pc'[p] = l
      /\ \A q \in Procs \ {p} : pc'[q] = pc[q] /\ (Alive(q)' <=> Alive(q))
  BY <1>1, <1>2, GotoFrame
<1>4. Others(p) /\ Alive(p)
  BY <1>1, <1>3 DEF Others, TypeOK, Alive, Remove
<1>5. TypeOK' /\ StartersHold'
  BY <1>1, <1>3 DEF TypeOK, StartersHold, Unowned, Remove
<1>6. ConvertsTheDead'
  BY <1>1, <1>2, <1>4, DeadStay DEF files, Remove
<1>7. WonIsOver'
  BY <1>1 DEF WonIsOver, Goto, Remove
<1>8. ClaimIsWritten'
  BY <1>1 DEF ClaimIsWritten, Goto, Remove
<1>9. ClaimsDoNotOutlive'
  BY <1>1, <1>4, <1>5, NoClaims DEF files, Remove
<1>10. ASSUME lapse' = "none"
       PROVE  ConverterClaims' /\ RecordStays' /\ OneReserves' /\ LockNames'
  <2>1. lapse = "none" /\ ConverterClaims /\ RecordStays /\ OneReserves /\ LockNames
    BY <1>10 DEF IInv, Remove
  <2>2. ConverterClaims'
    BY <2>1 DEF ConverterClaims, Converting, Goto, Remove
  <2>3. RecordStays'
    <3>1. p \in Starters /\ lock = p /\ Alive(p)
      BY <1>1, <1>4, <2>1 DEF Remove, StartersHold, LockNames, Holds
    <3>2. \A r \in Procs : ~(pc[r] \in {"hold", "swap"} /\ gen[r] \in Starters)
      BY <1>1, <2>1, <3>1 DEF RecordStays, ConvertsTheDead
    <3>3. pc'[p] \notin {"hold", "swap"}
      BY <1>1 DEF Remove, Goto, TypeOK
    <3> QED BY <1>4, <3>2, <3>3 DEF RecordStays, Others, Remove
  <2>4. OneReserves'
    BY <2>1 DEF OneReserves, Goto, Remove
  <2>5. LockNames'
    <3>1. p \in Starters /\ lock = p
      BY <1>1, <2>1 DEF Remove, StartersHold, LockNames, Holds
    <3>2. \A r \in Starters \ {p} : ~Holds(r) /\ pc[r] # "reserved"
      BY <2>1, <3>1, NamesApart DEF LockNames, Unowned
    <3>3. \A r \in Starters \ {p} : ~Holds(r)' /\ pc'[r] # "reserved"
      BY <1>3, <1>4, <3>2, NamesApart DEF Holds, Others
    <3>4. pc'[p] # "reserved" /\ ~Holds(p)'
      BY <1>2, <1>3, <1>1 DEF Remove, Holds, Goto, TypeOK
    <3> QED BY <3>3, <3>4 DEF LockNames
  <2> QED BY <2>2, <2>3, <2>4, <2>5
<1> QED BY <1>5, <1>6, <1>7, <1>8, <1>9, <1>10 DEF IInv

LEMMA CrashStep ==
  ASSUME IInv, NEW p \in Procs, Crash(p)
  PROVE  IInv'
<1>1. /\ TypeOK /\ StartersHold /\ ConvertsTheDead /\ WonIsOver /\ ClaimIsWritten
      /\ ClaimsDoNotOutlive
  BY DEF IInv
<1>2. PICK l \in Labels : Goto(p, l)
  BY <1>1 DEF Labels, Crash, Ends
<1>3. /\ pc' \in [Procs -> Labels] /\ pc'[p] = l
      /\ \A q \in Procs \ {p} : pc'[q] = pc[q] /\ (Alive(q)' <=> Alive(q))
  BY <1>1, <1>2, GotoFrame
<1>4. Others(p) /\ Alive(p)
  BY <1>1, <1>3 DEF Others, TypeOK, Alive, Crash, Ends
<1>5. TypeOK' /\ StartersHold'
  BY <1>1, <1>3 DEF TypeOK, StartersHold, files, Goto, Crash, Ends
<1>6. ConvertsTheDead'
  BY <1>1, <1>2, <1>4, DeadStay DEF files, Crash, Ends
<1>7. WonIsOver'
  BY <1>1 DEF WonIsOver, Goto, Crash, Ends
<1>8. ClaimIsWritten'
  BY <1>1 DEF ClaimIsWritten, files, Goto, Crash, Ends
<1>9. ClaimsDoNotOutlive'
  <2>1. OthersClaims(p)
    BY DEF OthersClaims, files, Crash, Ends
  <2>2. \A g \in Generations :
          claims'[g] # None /\ claims'[g].by = p /\ Alive(p)' => Converting(p, g)'
    BY <1>3 DEF Alive, Goto, Crash, Ends
  <2> QED BY <1>1, <1>4, <1>5, <2>1, <2>2, ClaimsFrame
<1>10. ASSUME lapse' = "none"
       PROVE  ConverterClaims' /\ RecordStays' /\ OneReserves' /\ LockNames'
  <2>1. lapse = "none" /\ ConverterClaims /\ RecordStays /\ OneReserves /\ LockNames
    BY <1>10 DEF IInv, Crash, Ends
  <2>2. ConverterClaims'
    BY <2>1 DEF ConverterClaims, Converting, files, Goto, Crash, Ends
  <2>3. RecordStays'
    BY <2>1 DEF RecordStays, files, Goto, Crash, Ends
  <2>4. OneReserves'
    BY <2>1 DEF OneReserves, Goto, Crash, Ends
  <2>5. LockNames'
    BY <2>1 DEF LockNames, Holds, files, Goto, Crash, Ends
  <2> QED BY <2>2, <2>3, <2>4, <2>5
<1> QED BY <1>5, <1>6, <1>7, <1>8, <1>9, <1>10 DEF IInv

-----------------------------------------------------------------------------
(* The passing of a grace period, and the theorem.                          *)

LEMMA StallsFaults ==
  ASSUME TypeOK, NEW writing \in BOOLEAN, Stalls(writing)
  PROVE  /\ lapse' \in {"none", "stalled", "claim lost", "debris replaced"}
         /\ faults' \in 0 .. MaxFaults
         /\ lapse' = "none" => lapse = "none" /\ ~writing
<1>1. faults \in 0 .. MaxFaults
  BY DEF TypeOK
<1>2. faults' \in 0 .. MaxFaults
  <2>1. CASE writing
    BY <1>1, <2>1, NamesApart DEF Stalls
  <2>2. CASE ~writing
    BY <1>1, <2>2 DEF Stalls
  <2> QED BY <2>1, <2>2
<1>3. /\ lapse' \in {"none", "stalled", "claim lost", "debris replaced"}
      /\ lapse' = "none" => lapse = "none" /\ ~writing
  <2>1. CASE writing /\ lapse = "none"
    BY <2>1 DEF Stalls, Lapses
  <2>2. CASE ~(writing /\ lapse = "none")
    BY <2>2 DEF Stalls, Lapses, TypeOK
  <2> QED BY <2>1, <2>2
<1> QED BY <1>2, <1>3

LEMMA LockAgesStep ==
  ASSUME IInv, LockAges
  PROVE  IInv'
<1>1. /\ TypeOK /\ StartersHold /\ ConvertsTheDead /\ WonIsOver /\ ClaimIsWritten
      /\ ClaimsDoNotOutlive
  BY DEF IInv
<1>2. /\ lock = "young" /\ lock' = "old"
      /\ claims' = claims /\ pc' = pc /\ gen' = gen /\ won' = won
      /\ passes' = passes
  BY DEF LockAges
<1>3. /\ lapse' \in {"none", "stalled", "claim lost", "debris replaced"}
      /\ faults' \in 0 .. MaxFaults
      /\ lapse' = "none" => lapse = "none" /\ \A q \in Starters : pc[q] # "reserved"
  BY <1>1, StallsFaults DEF LockAges
<1>4. TypeOK' /\ StartersHold' /\ WonIsOver'
  BY <1>1, <1>2, <1>3 DEF TypeOK, Unowned, StartersHold, WonIsOver
<1>5. ConvertsTheDead' /\ ClaimIsWritten' /\ ClaimsDoNotOutlive'
  BY <1>1, <1>2
     DEF ConvertsTheDead, ClaimIsWritten, ClaimsDoNotOutlive, Alive, Converting
<1>6. ASSUME lapse' = "none"
      PROVE  ConverterClaims' /\ RecordStays' /\ OneReserves' /\ LockNames'
  <2>1. /\ ConverterClaims /\ RecordStays /\ OneReserves /\ LockNames
        /\ \A q \in Starters : pc[q] # "reserved"
    BY <1>3, <1>6 DEF IInv
  <2>2. lock \notin Starters
    BY <1>2, NamesApart DEF Unowned
  <2>3. ConverterClaims' /\ OneReserves'
    BY <1>2, <2>1 DEF ConverterClaims, OneReserves, Converting
  <2>4. RecordStays' /\ LockNames'
    BY <1>2, <2>1, <2>2 DEF RecordStays, LockNames, Holds
  <2> QED BY <2>3, <2>4
<1> QED BY <1>4, <1>5, <1>6 DEF IInv

LEMMA ClaimAgesStep ==
  ASSUME IInv, NEW g \in Generations, ClaimAges(g)
  PROVE  IInv'
<1>1. /\ TypeOK /\ StartersHold /\ ConvertsTheDead /\ WonIsOver /\ ClaimIsWritten
      /\ ClaimsDoNotOutlive
  BY DEF IInv
<1>2. PICK c \in [by : Procs, record : {"empty", "old", "written"}] :
        c = claims[g] /\ c.record = "empty"
  BY <1>1, ClaimType DEF ClaimAges
<1>3. PICK d \in [by : Procs, record : {"empty", "old", "written"}] :
        /\ claims' = [claims EXCEPT ![g] = d]
        /\ d.by = c.by /\ d.record = "old"
  <2>1. claims' = [claims EXCEPT ![g] = [c EXCEPT !.record = "old"]]
    BY <1>1, <1>2 DEF ClaimAges, TypeOK
  <2>2. [c EXCEPT !.record = "old"] \in [by : Procs, record : {"empty", "old", "written"}]
    BY <1>2
  <2> QED BY <1>2, <2>1, <2>2
<1>4. /\ d # None /\ c # None
      /\ lock' = lock /\ pc' = pc /\ gen' = gen /\ won' = won
      /\ passes' = passes
  BY ClaimsAreSome DEF ClaimAges
<1>5. /\ lapse' \in {"none", "stalled", "claim lost", "debris replaced"}
      /\ faults' \in 0 .. MaxFaults
      /\ lapse' = "none" => lapse = "none"
  <2>1. Alive(claims[g].by) \in BOOLEAN
    BY DEF Alive
  <2> QED BY <1>1, <2>1, StallsFaults DEF ClaimAges
<1>6. TypeOK' /\ StartersHold' /\ WonIsOver' /\ ConvertsTheDead'
  BY <1>1, <1>3, <1>4, <1>5 DEF TypeOK, StartersHold, WonIsOver, ConvertsTheDead, Alive
<1>7. \A h \in Generations :
        /\ claims'[h] # None <=> claims[h] # None
        /\ claims[h] # None => claims'[h].by = claims[h].by
  BY <1>1, <1>2, <1>3, <1>4 DEF TypeOK
\* A claim that is not written yet belongs to nobody who has got further.
<1>8. ClaimIsWritten'
  <2>1. ASSUME NEW p \in Procs, pc[p] \in {"check", "hold", "swap", "release"},
               claims'[gen[p]] # None, claims'[gen[p]].by = p
        PROVE  claims'[gen[p]].record = "written"
    <3>1. gen[p] \in Generations /\ claims[gen[p]] # None /\ claims[gen[p]].by = p
      BY <1>1, <1>7, <2>1 DEF TypeOK
    <3>2. claims[gen[p]].record = "written"
      BY <1>1, <2>1, <3>1 DEF ClaimIsWritten
    <3>3. gen[p] # g
      BY <1>2, <3>2
    <3> QED BY <1>1, <1>3, <3>1, <3>2, <3>3 DEF TypeOK
  <2> QED BY <1>4, <2>1 DEF ClaimIsWritten
<1>9. ClaimsDoNotOutlive'
  BY <1>1, <1>4, <1>7 DEF ClaimsDoNotOutlive, Alive, Converting
<1>10. ASSUME lapse' = "none"
       PROVE  ConverterClaims' /\ RecordStays' /\ OneReserves' /\ LockNames'
  <2>1. ConverterClaims /\ RecordStays /\ OneReserves /\ LockNames
    BY <1>5, <1>10 DEF IInv
  <2>2. ConverterClaims'
    BY <1>4, <1>7, <2>1 DEF ConverterClaims, Converting
  <2>3. RecordStays' /\ OneReserves' /\ LockNames'
    BY <1>4, <2>1 DEF RecordStays, OneReserves, LockNames, Holds
  <2> QED BY <2>2, <2>3
<1> QED BY <1>6, <1>8, <1>9, <1>10 DEF IInv

LEMMA InitEstablishes == Init => IInv
<1> SUFFICES ASSUME Init PROVE IInv
  OBVIOUS
<1>1. TypeOK /\ \A p \in Procs : pc[p] = "idle" /\ ~won[p] /\ gen[p] = Unparseable
  BY NamesApart DEF Init, TypeOK, Labels, Unowned, Generations
<1>2. \A g \in Generations : claims[g] = None
  BY DEF Init
<1>3. ConvertsTheDead /\ WonIsOver /\ StartersHold
  BY <1>1, NamesApart DEF ConvertsTheDead, WonIsOver, StartersHold
<1>4. ClaimIsWritten /\ ClaimsDoNotOutlive
  BY <1>1, <1>2 DEF ClaimIsWritten, ClaimsDoNotOutlive
<1>5. ConverterClaims /\ RecordStays /\ OneReserves /\ LockNames
  BY <1>1, NamesApart
     DEF ConverterClaims, Converting, RecordStays, OneReserves, LockNames, Holds
<1> QED BY <1>1, <1>3, <1>4, <1>5 DEF IInv

LEMMA NextKeeps == IInv /\ [Next]_vars => IInv'
<1> SUFFICES ASSUME IInv, [Next]_vars PROVE IInv'
  OBVIOUS
<1>1. ASSUME NEW p \in Procs, Step(p) PROVE IInv'
  BY <1>1, ReserveStep, FillStep, LookStep, LastStep, TakeClaimStep, MarkStep, JudgeStep,
     DiscardStep, ReleaseStep, CheckStep, HoldStep, SwapStep
     DEF Step
<1>2. ASSUME NEW p \in Procs,
             Begin(p) \/ FillFails(p) \/ Quit(p) \/ Remove(p) \/ Crash(p)
      PROVE  IInv'
  BY <1>2, BeginStep, FillFailsStep, QuitStep, RemoveStep, CrashStep
<1>3. CASE Time
  BY <1>3, LockAgesStep, ClaimAgesStep DEF Time
<1>4. CASE UNCHANGED vars
  <2>1. /\ lock' = lock /\ claims' = claims /\ pc' = pc /\ gen' = gen
        /\ won' = won /\ passes' = passes /\ lapse' = lapse /\ faults' = faults
    BY <1>4 DEF vars, files
  <2>2. TypeOK' /\ StartersHold' /\ ConvertsTheDead' /\ WonIsOver'
    BY <2>1 DEF IInv, TypeOK, StartersHold, ConvertsTheDead, WonIsOver, Alive
  <2>3. ClaimIsWritten' /\ ClaimsDoNotOutlive'
    BY <2>1 DEF IInv, ClaimIsWritten, ClaimsDoNotOutlive, Alive, Converting
  <2>4. lapse' = "none" => ConverterClaims' /\ RecordStays' /\ OneReserves'
    BY <2>1 DEF IInv, ConverterClaims, RecordStays, OneReserves, Converting
  <2>5. lapse' = "none" => LockNames'
    BY <2>1 DEF IInv, LockNames, Holds
  <2> QED BY <2>2, <2>3, <2>4, <2>5 DEF IInv
<1> QED BY <1>1, <1>2, <1>3, <1>4 DEF Next

\* Whatever starts, stops, kills and stalls there are, and however many: the
\* lock file names every process that holds it, a generation of it is converted
\* by one process at a time (both until one of the three windows was hit), and
\* no running process has left a claim behind that nobody could clear.
THEOREM LockStaysSafe == Spec => []LockIsSafe
<1>1. IInv => LockIsSafe
  <2> SUFFICES ASSUME IInv PROVE LockIsSafe
    OBVIOUS
  <2>1. TypeOK /\ ClaimsDoNotOutlive
    BY DEF IInv
  <2>2. LockStands
    BY DEF IInv, LockStands, LockNames
  <2>3. OneConverter
    BY DEF IInv, OneConverter, ConverterClaims
  <2> QED BY <2>1, <2>2, <2>3 DEF LockIsSafe
<1> QED BY <1>1, InitEstablishes, NextKeeps, PTL DEF Spec


-----------------------------------------------------------------------------
(* AtomicFile.  The inductive invariant.                                   *)

\* Recovery has created or taken over a copy and works on it.
Copying == {"own", "copy", "truncate", "recopy", "complete"}
RecoveryPcs == {"scan", "promote", "discard", "clean", "mark", "create", "proof", "marker"}
  \cup Copying

\* FileTypeOK, and the types of what it leaves out.
FileTypes ==
  /\ FileTypeOK
  /\ rec \in [pc : RecoveryPcs, gen : 0 .. MaxWrites, bytes : 0 .. Whole]
  /\ begun \in 0 .. MaxWrites /\ crashes \in Nat /\ failures \in Nat

\* There is nothing of a write that was not begun.
Unbegun ==
  /\ \A n \in FileGenerations : n > begun =>
       tmps[n] = NoFile /\ proofs[n] = "none" /\ markers[n] = "none" /\ n \notin todo
  /\ target # NoFile => target.gen <= begun
  /\ \A a \in Actors : write[a].gen <= begun

\* A temp file is whole before its proof is written and it is renamed, unless
\* recovery has taken it away, and a .gitignore is written by one call; the two
\* writers write different generations.
WritersApart ==
  /\ kind = "ignore" => \A n \in FileGenerations : tmps[n] # 1
  /\ \A a \in Actors :
       /\ write[a].pc = "idle" <=> write[a].gen = 0
       /\ write[a].pc = "filling" => tmps[write[a].gen] # Whole
       /\ write[a].pc \in {"proving", "renaming"} => tmps[write[a].gen] \in {NoFile, Whole}
  /\ write["server"].gen = write["cli"].gen => write["cli"].gen = 0

\* Where recovery is and what it has done until then, whoever meddles.
RecoveryState ==
  /\ up # "recovering" => rec.pc = "scan" /\ todo = {}
  /\ rec.pc # "scan" => rec.gen \in todo
  /\ rec.pc \in {"promote", "mark", "create"} => rec.bytes = Whole
  /\ rec.pc = "create" => markers[rec.gen] \in {"source", "copying", "complete"}
  /\ rec.pc \in Copying \cup {"clean"} => target # NoFile
  /\ Names("copy", rec.gen) =>
       /\ rec.pc = "own" => target.bytes = 0
       /\ rec.pc \in {"copy", "recopy"} => target.bytes = rec.bytes
       /\ rec.pc = "complete" => target.bytes = Whole
  /\ rec.pc \in {"proof", "marker"} => tmps[rec.gen] = NoFile
  /\ \A m \in FileGenerations : markers[m] \in {"copying", "complete"} => target # NoFile
  /\ links => /\ \A m \in FileGenerations : markers[m] = "none"
              /\ rec.pc \notin Copying \cup {"mark", "create"}

\* What recovery judged is still so: nobody else has come to the name, the temp
\* file it copies from is there, and the marker is the one it wrote.
Promotes ==
  ~meddled =>
    /\ rec.pc \in {"promote", "mark", "create"} => target = NoFile
    /\ rec.pc \in {"promote", "mark", "create"} \cup Copying => tmps[rec.gen] = Whole
    /\ rec.pc \in Copying => Names("copy", rec.gen)
    /\ rec.pc = "own" => markers[rec.gen] = "source"
    /\ rec.pc \in Copying \ {"own"} => markers[rec.gen] = "copying"
    /\ rec.pc = "clean" =>
         (Names("tmp", rec.gen) \/ Names("copy", rec.gen)) /\ WholeFile(target)
    /\ rec.pc = "discard" => target = NoFile \/ markers[rec.gen] = "none"

\* A document that is not whole is recovery's own copy.  It can be made again from
\* its temp file, its marker says so, and the pass that is running has yet to
\* deal with it or could not read that temp file.  A file that a writer renamed has no marker.
WholeOrMarked ==
  ~meddled /\ target # NoFile =>
    /\ target.inode = "copy" => tmps[target.gen] \in {NoFile, Whole}
    /\ markers[target.gen] # "none" => target.inode = "copy" /\ markers[target.gen] # "torn"
    /\ target.bytes # Whole =>
         /\ target.inode = "copy" /\ tmps[target.gen] = Whole
         /\ markers[target.gen] \in {"source", "copying"}
         /\ up = "recovering" => target.gen \in todo \cup unread
         /\ up = "running" => target.gen \in unread

FileInv ==
  /\ FileTypes /\ Unbegun /\ WritersApart /\ RecoveryState
  /\ Promotes /\ WholeOrMarked /\ CommittedStays

USE FileAssumption, NoFileAssumption DEF FileGenerations, Actors, Whole

WriterPcs == {"idle", "filling", "proving", "renaming", "tidying", "failing"}

\* Who is not idle writes a generation that was begun.
LEMMA WriterBegun ==
  ASSUME FileInv, NEW a \in Actors, write[a].pc # "idle"
  PROVE  /\ write[a].gen \in FileGenerations /\ write[a].gen <= begun
         /\ \A b \in Actors \ {a} : write[b].gen # write[a].gen
  BY DEF FileInv, FileTypes, FileTypeOK, WritersApart, Unbegun

\* A writer's turn changes where it is and nothing else.
LEMMA TurnFrame ==
  ASSUME FileInv, NEW a \in Actors, NEW place \in WriterPcs, Turn(a, place)
  PROVE  /\ write' \in [Actors -> [pc : WriterPcs, gen : 0 .. MaxWrites]]
         /\ \A b \in Actors : write'[b].gen = write[b].gen
         /\ write'[a].pc = place
         /\ \A b \in Actors \ {a} : write'[b].pc = write[b].pc
  BY DEF FileInv, FileTypes, FileTypeOK, Turn, WriterPcs

\* A writer that is done.
LEMMA DoneFrame ==
  ASSUME FileInv, NEW a \in Actors, write' = [write EXCEPT ![a] = Done]
  PROVE  /\ write' \in [Actors -> [pc : WriterPcs, gen : 0 .. MaxWrites]]
         /\ write'[a].gen = 0 /\ write'[a].pc = "idle"
         /\ \A b \in Actors \ {a} : write'[b] = write[b]
  BY DEF FileInv, FileTypes, FileTypeOK, WriterPcs, Done, Writing

\* What recovery does about a temp file it looks at.
LEMMA ScanOutcome ==
  ASSUME FileInv, NEW n \in FileGenerations, Scan(n)
  PROVE  /\ up = "recovering" /\ rec.pc = "scan" /\ n \in todo /\ tmps[n] # NoFile
         /\ UNCHANGED <<fixed, store, write, unread, counts, ghost>>
         /\ \/ Block /\ target # NoFile /\ markers[n] # "none" /\ Resume(n) = "block"
            \/ Pass(n) /\ target = NoFile /\ Verdict(n) = "leave"
            \/ /\ UNCHANGED <<todo, up>>
               /\ \E act \in {"promote", "discard", "clean", "truncate"} :
                    /\ rec' = [pc |-> act, gen |-> n, bytes |-> tmps[n]]
                    /\ act = "promote" => target = NoFile /\ tmps[n] = Whole
                    /\ act = "discard" => \/ target # NoFile /\ markers[n] = "none"
                                          \/ target = NoFile /\ Verdict(n) = "discard"
                    /\ act = "clean" =>
                         /\ target # NoFile
                         /\ \/ target.bytes = Whole /\ target.gen = n
                            \/ markers[n] = "complete" /\ Names("copy", n)
                    /\ act = "truncate" => markers[n] = "copying" /\ Names("copy", n)
<1> DEFINE act == IF target = NoFile THEN Verdict(n)
                  ELSE IF markers[n] = "none" THEN "discard" ELSE Resume(n)
<1>1. /\ up = "recovering" /\ rec.pc = "scan" /\ n \in todo /\ tmps[n] # NoFile
      /\ UNCHANGED <<fixed, store, write, unread, counts, ghost>>
      /\ \/ act = "block" /\ Block
         \/ act = "leave" /\ Pass(n)
         \/ /\ act \in {"promote", "discard", "clean", "truncate"}
            /\ rec' = [At(act, n) EXCEPT !.bytes = tmps[n]]
            /\ UNCHANGED <<todo, up>>
  BY Zenon DEF Scan
<1>2. /\ Verdict(n) \in {"promote", "discard", "leave"}
      /\ Verdict(n) = "promote" => tmps[n] = Whole
  BY <1>1 DEF Verdict, FileInv, FileTypes, FileTypeOK, WritersApart
<1>3. /\ Resume(n) \in {"clean", "truncate", "block"}
      /\ Resume(n) = "truncate" => markers[n] = "copying" /\ Names("copy", n)
      /\ Resume(n) = "clean" =>
           \/ target.bytes = Whole /\ target.gen = n
           \/ markers[n] = "complete" /\ Names("copy", n)
  BY DEF Resume, WholeFile
<1>4. CASE act = "block" /\ Block
  BY <1>1, <1>2, <1>3, <1>4
<1>5. CASE act = "leave" /\ Pass(n)
  BY <1>1, <1>2, <1>3, <1>5
<1>6. CASE /\ act \in {"promote", "discard", "clean", "truncate"}
           /\ rec' = [At(act, n) EXCEPT !.bytes = tmps[n]] /\ UNCHANGED <<todo, up>>
  <2>1. rec' = [pc |-> act, gen |-> n, bytes |-> tmps[n]]
    BY <1>6 DEF At
  <2>2. /\ act = "promote" => target = NoFile /\ tmps[n] = Whole
        /\ act = "discard" => \/ target # NoFile /\ markers[n] = "none"
                              \/ target = NoFile /\ Verdict(n) = "discard"
        /\ act = "clean" =>
             /\ target # NoFile
             /\ \/ target.bytes = Whole /\ target.gen = n
                \/ markers[n] = "complete" /\ Names("copy", n)
        /\ act = "truncate" => markers[n] = "copying" /\ Names("copy", n)
    BY <1>2, <1>3
  <2> HIDE DEF act
  <2> QED BY <1>1, <1>6, <2>1, <2>2
<1> QED BY <1>1, <1>4, <1>5, <1>6

LEMMA BeginWriteKeeps ==
  ASSUME FileInv, NEW a \in Actors, BeginWrite(a)
  PROVE  FileInv'
<1>1. FileTypes'
  BY DEF FileInv, FileTypes, FileTypeOK, fixed, ghost, BeginWrite, Writing, Rests
<1>2. Unbegun'
  BY DEF FileInv, FileTypes, FileTypeOK, Unbegun, BeginWrite, Writing, Rests
<1>3. WritersApart'
  BY DEF FileInv, fixed, FileTypes, FileTypeOK, WritersApart, Unbegun,
     BeginWrite, Writing, Rests
<1>4. RecoveryState'
  BY DEF FileInv, FileTypes, fixed, RecoveryState, Names, Unbegun, BeginWrite, Rests
<1>5. Promotes'
  BY DEF FileInv, FileTypes, ghost, Promotes, Names, Unbegun, BeginWrite, Rests
<1>6. WholeOrMarked'
  BY DEF FileInv, FileTypes, ghost, WholeOrMarked, Unbegun, BeginWrite, Rests
<1>7. CommittedStays'
  BY DEF FileInv, ghost, CommittedStays, BeginWrite
<1> QED BY <1>1, <1>2, <1>3, <1>4, <1>5, <1>6, <1>7 DEF FileInv

LEMMA FillTmpKeeps ==
  ASSUME FileInv, NEW a \in Actors, FillTmp(a)
  PROVE  FileInv'
<1>1. FileTypes'
  <2>1. write[a].gen \in FileGenerations
    BY WriterBegun DEF FillTmp
  <2>2. tmps[write[a].gen] \in (0 .. 1) \cup {NoFile}
    BY <2>1 DEF FileInv, FileTypes, FileTypeOK, WritersApart, FillTmp
  <2>3. tmps' \in [FileGenerations -> (0 .. Whole) \cup {NoFile}]
    BY <2>1, <2>2 DEF FileInv, FileTypes, FileTypeOK, FillTmp
  <2>4. write' \in [Actors -> [pc : WriterPcs, gen : 0 .. MaxWrites]]
    BY TurnFrame DEF FileInv, FileTypes, FileTypeOK, WriterPcs, FillTmp
  <2> QED BY <2>3, <2>4
       DEF FileInv, FileTypes, FileTypeOK, WriterPcs, FillTmp, Rests, fixed, counts, ghost
<1>2. Unbegun'
  <2>1. write[a].gen \in FileGenerations /\ write[a].gen <= begun
    BY WriterBegun DEF FillTmp
  <2>2. \A b \in Actors : write'[b].gen = write[b].gen
    BY TurnFrame DEF FillTmp, WriterPcs
  <2>3. \A m \in FileGenerations \ {write[a].gen} : tmps'[m] = tmps[m]
    BY DEF FileInv, FillTmp
  <2> QED BY <2>1, <2>2, <2>3
       DEF FileInv, FileTypes, FileTypeOK, Unbegun, FillTmp, Rests, counts
<1>3. WritersApart'
  BY DEF FileInv, fixed, FileTypes, FileTypeOK, WritersApart, Unbegun,
     FillTmp, Turn, Rests
<1>4. RecoveryState'
  BY DEF FileInv, fixed, RecoveryState, Names, FillTmp, Rests
<1>5. Promotes'
  BY DEF FileInv, ghost, Promotes, Names, WritersApart, FillTmp, Rests
<1>6. WholeOrMarked'
  BY DEF FileInv, ghost, WholeOrMarked, WritersApart, FillTmp, Rests
<1>7. CommittedStays'
  BY DEF FileInv, ghost, CommittedStays, FillTmp
<1> QED BY <1>1, <1>2, <1>3, <1>4, <1>5, <1>6, <1>7 DEF FileInv

LEMMA ProveKeeps ==
  ASSUME FileInv, NEW a \in Actors, Prove(a)
  PROVE  FileInv'
<1>1. FileTypes'
  <2>1. write[a].gen \in FileGenerations /\ write[a].gen <= begun
    BY WriterBegun DEF Prove
  <2>2. proofs' \in [FileGenerations -> {"none", "torn", "whole"}]
    <3>1. \/ proofs' = [proofs EXCEPT ![write[a].gen] = "torn"]
          \/ proofs' = [proofs EXCEPT ![write[a].gen] = "whole"]
      BY DEF Prove
    <3> QED BY <2>1, <3>1 DEF FileInv, FileTypes, FileTypeOK
  <2>3. write' \in [Actors -> [pc : WriterPcs, gen : 0 .. MaxWrites]]
    BY TurnFrame DEF FileInv, FileTypes, FileTypeOK, WriterPcs, Prove
  <2> QED BY <2>2, <2>3
       DEF FileInv, FileTypes, FileTypeOK, WriterPcs, Prove, Rests, fixed, counts, ghost
<1>2. Unbegun'
  <2>1. write[a].gen \in FileGenerations /\ write[a].gen <= begun
    BY WriterBegun DEF Prove
  <2>2. \A b \in Actors : write'[b].gen = write[b].gen
    BY TurnFrame DEF Prove, WriterPcs
  <2>3. \A m \in FileGenerations \ {write[a].gen} : proofs'[m] = proofs[m]
    BY DEF FileInv, FileTypes, FileTypeOK, Prove
  <2> QED BY <2>1, <2>2, <2>3
       DEF FileInv, FileTypes, FileTypeOK, Unbegun, Prove, Rests, counts
<1>3. WritersApart'
  <2>1. CASE write' = write
    BY <2>1 DEF FileInv, WritersApart, Prove, Rests, fixed
  <2>2. CASE Turn(a, "renaming")
    BY <2>2, TurnFrame DEF FileInv, WritersApart, WriterPcs, Prove, Rests, fixed
  <2> QED BY <2>1, <2>2 DEF Prove
<1>4. RecoveryState'
  BY DEF FileInv, fixed, RecoveryState, Names, Prove, Rests
<1>5. Promotes'
  BY DEF FileInv, ghost, Promotes, Names, Prove, Rests
<1>6. WholeOrMarked'
  BY DEF FileInv, ghost, WholeOrMarked, Prove, Rests
<1>7. CommittedStays'
  BY DEF FileInv, ghost, CommittedStays, Prove
<1> QED BY <1>1, <1>2, <1>3, <1>4, <1>5, <1>6, <1>7 DEF FileInv

LEMMA RenameKeeps ==
  ASSUME FileInv, NEW a \in Actors, Rename(a)
  PROVE  FileInv'
<1>0. /\ write[a].gen \in FileGenerations /\ write[a].gen <= begun
      /\ \A b \in Actors \ {a} : write[b].gen # write[a].gen
      /\ tmps[write[a].gen] \in {NoFile, Whole}
      /\ write[a].gen # 0
  BY WriterBegun DEF Rename, FileInv, WritersApart
<1>a. /\ write' \in [Actors -> [pc : WriterPcs, gen : 0 .. MaxWrites]]
      /\ \A b \in Actors : write'[b].gen = write[b].gen
      /\ write'[a].pc \in {"failing", "tidying"}
      /\ \A b \in Actors \ {a} : write'[b].pc = write[b].pc
  BY TurnFrame DEF Rename, WriterPcs
<1>b. \/ UNCHANGED <<store, ghost>>
      \/ /\ Names("tmp", write[a].gen) /\ UNCHANGED store
         /\ committed' = write[a].gen /\ Interferes
      \/ /\ tmps[write[a].gen] = Whole /\ target' = File("tmp", write[a].gen, Whole)
         /\ tmps' = [tmps EXCEPT ![write[a].gen] = NoFile]
         /\ UNCHANGED <<proofs, markers>>
         /\ committed' = write[a].gen /\ Interferes
  BY <1>0 DEF Rename, store
<1>c. UNCHANGED <<counts, fixed, up, rec, todo, unread>>
  BY DEF Rename, Rests
<1>d. /\ target' # NoFile =>
           \/ target # NoFile /\ target' = target
           \/ /\ target' \in [inode : {"tmp", "copy"}, gen : FileGenerations, bytes : 0 .. Whole]
              /\ target'.inode = "tmp" /\ target'.gen = write[a].gen /\ target'.bytes = Whole
      /\ tmps' \in [FileGenerations -> (0 .. Whole) \cup {NoFile}]
      /\ \A m \in FileGenerations : tmps'[m] # tmps[m] =>
           m = write[a].gen /\ tmps'[m] = NoFile /\ tmps[m] = Whole
  <2>1. CASE UNCHANGED <<target, tmps>>
    BY <2>1 DEF FileInv, FileTypes, FileTypeOK
  <2>2. CASE /\ tmps[write[a].gen] = Whole /\ target' = File("tmp", write[a].gen, Whole)
             /\ tmps' = [tmps EXCEPT ![write[a].gen] = NoFile]
    <3>1. /\ target' \in [inode : {"tmp", "copy"}, gen : FileGenerations, bytes : 0 .. Whole]
          /\ target'.inode = "tmp" /\ target'.gen = write[a].gen /\ target'.bytes = Whole
      BY <1>0, <2>2 DEF File
    <3>2. tmps' \in [FileGenerations -> (0 .. Whole) \cup {NoFile}]
      BY <1>0, <2>2 DEF FileInv, FileTypes, FileTypeOK
    <3>3. \A m \in FileGenerations : tmps'[m] # tmps[m] =>
             m = write[a].gen /\ tmps'[m] = NoFile /\ tmps[m] = Whole
      BY <1>0, <2>2 DEF FileInv, FileTypes, FileTypeOK
    <3> QED BY <3>1, <3>2, <3>3
  <2> QED BY <1>b, <2>1, <2>2 DEF store
<1>1. FileTypes'
  <2>1. committed' \in 0 .. MaxWrites
    BY <1>0, <1>b DEF FileInv, FileTypes, FileTypeOK, ghost
  <2>0. meddled' \in BOOLEAN
    BY <1>b DEF FileInv, FileTypes, FileTypeOK, ghost, Interferes
  <2>2. proofs' = proofs /\ markers' = markers
    BY <1>b DEF store
  <2> QED BY <1>a, <1>c, <1>d, <2>0, <2>1, <2>2
       DEF FileInv, FileTypes, FileTypeOK, WriterPcs, fixed, counts
<1>2. Unbegun'
  <2>1. proofs' = proofs /\ markers' = markers
    BY <1>b DEF store
  <2> QED BY <1>0, <1>a, <1>c, <1>d, <2>1
       DEF FileInv, FileTypes, FileTypeOK, Unbegun, counts
<1>3. WritersApart'
  BY <1>0, <1>a, <1>c, <1>d DEF FileInv, fixed, WritersApart
<1>4. RecoveryState'
  BY <1>0, <1>b, <1>c DEF FileInv, FileTypes, FileTypeOK, store, fixed,
     RecoveryState, Names, File
<1>5. Promotes'
  BY <1>0, <1>b, <1>c DEF FileInv, FileTypes, FileTypeOK, store, ghost, Promotes,
     Interferes, Names
<1>6. WholeOrMarked'
  <2> SUFFICES ASSUME ~meddled', target' # NoFile
               PROVE  WholeOrMarked'
    BY DEF WholeOrMarked
  <2>1. CASE UNCHANGED <<store, ghost>>
    BY <1>c, <2>1 DEF FileInv, WholeOrMarked, store, ghost
  <2>2. CASE Interferes /\ UNCHANGED store
    BY <1>c, <2>2 DEF FileInv, WholeOrMarked, Interferes, store
  <2>3. CASE /\ target' = File("tmp", write[a].gen, Whole)
             /\ UNCHANGED <<proofs, markers>> /\ Interferes
    BY <1>0, <2>3 DEF WholeOrMarked, Interferes, File
  <2> QED BY <1>b, <2>1, <2>2, <2>3
<1>7. CommittedStays'
  BY <1>0, <1>b, <1>c DEF FileInv, store, ghost, CommittedStays, Names, File
<1> QED BY <1>1, <1>2, <1>3, <1>4, <1>5, <1>6, <1>7 DEF FileInv

LEMMA TidyKeeps ==
  ASSUME FileInv, NEW a \in Actors, Tidy(a)
  PROVE  FileInv'
<1>1. FileTypes'
  <2>1. write[a].gen \in FileGenerations /\ write[a].gen <= begun
    BY WriterBegun DEF Tidy
  <2>2. proofs' \in [FileGenerations -> {"none", "torn", "whole"}]
    BY <2>1 DEF FileInv, FileTypes, FileTypeOK, Tidy
  <2>3. write' \in [Actors -> [pc : WriterPcs, gen : 0 .. MaxWrites]]
    BY DoneFrame DEF Tidy
  <2> QED BY <2>2, <2>3
       DEF FileInv, FileTypes, FileTypeOK, WriterPcs, Tidy, Failure, Rests, fixed, counts, ghost
<1>2. Unbegun'
  BY DEF FileInv, FileTypes, FileTypeOK, counts, Unbegun, Tidy, Done, Writing,
     Failure, Rests
<1>3. WritersApart'
  BY DEF FileInv, fixed, WritersApart, Tidy, Done, Writing, Rests
<1>4. RecoveryState'
  BY DEF FileInv, fixed, RecoveryState, Names, Tidy, Rests
<1>5. Promotes'
  BY DEF FileInv, ghost, Promotes, Names, Tidy, Rests
<1>6. WholeOrMarked'
  BY DEF FileInv, ghost, WholeOrMarked, Tidy, Rests
<1>7. CommittedStays'
  BY DEF FileInv, ghost, CommittedStays, Tidy
<1> QED BY <1>1, <1>2, <1>3, <1>4, <1>5, <1>6, <1>7 DEF FileInv

LEMMA WriteFailsKeeps ==
  ASSUME FileInv, NEW a \in Actors, WriteFails(a)
  PROVE  FileInv'
<1>1. FileTypes'
  BY DEF FileInv, FileTypes, FileTypeOK, store, fixed, ghost, WritersApart,
     WriteFails, Turn, Failure, Rests
<1>2. Unbegun'
  BY DEF FileInv, store, Unbegun, WriteFails, Turn, Failure, Rests
<1>3. WritersApart'
  BY DEF FileInv, fixed, store, WritersApart, WriteFails, Turn, Rests
<1>4. RecoveryState'
  BY DEF FileInv, store, fixed, RecoveryState, Names, WriteFails, Rests
<1>5. Promotes'
  BY DEF FileInv, store, ghost, Promotes, Names, WriteFails, Rests
<1>6. WholeOrMarked'
  BY DEF FileInv, store, ghost, WholeOrMarked, WriteFails, Rests
<1>7. CommittedStays'
  BY DEF FileInv, store, ghost, CommittedStays, WriteFails
<1> QED BY <1>1, <1>2, <1>3, <1>4, <1>5, <1>6, <1>7 DEF FileInv

LEMMA TakeBackKeeps ==
  ASSUME FileInv, NEW a \in Actors, TakeBack(a)
  PROVE  FileInv'
<1>1. FileTypes'
  BY DEF FileInv, FileTypes, FileTypeOK, fixed, counts, WritersApart, TakeBack,
     Done, Writing, Interferes, Rests
<1>2. Unbegun'
  BY DEF FileInv, FileTypes, counts, Unbegun, TakeBack, Done, Writing, Rests
<1>3. WritersApart'
  BY DEF FileInv, fixed, WritersApart, TakeBack, Done, Writing, Rests
<1>4. RecoveryState'
  BY DEF FileInv, fixed, RecoveryState, Names, TakeBack, Rests
<1>5. Promotes'
  BY DEF FileInv, Promotes, Copying, TakeBack, Interferes, Rests
<1>6. WholeOrMarked'
  <2>1. /\ UNCHANGED <<target, markers, todo, unread, up>>
        /\ tmps' = [tmps EXCEPT ![write[a].gen] = NoFile]
        /\ ~meddled' => ~meddled /\ \A m \in FileGenerations : markers[m] = "none"
    BY DEF TakeBack, Rests, Interferes
  <2> QED BY <2>1 DEF FileInv, FileTypes, FileTypeOK, WholeOrMarked
<1>7. CommittedStays'
  BY DEF FileInv, CommittedStays, TakeBack
<1> QED BY <1>1, <1>2, <1>3, <1>4, <1>5, <1>6, <1>7 DEF FileInv

LEMMA BootKeeps ==
  ASSUME FileInv, Boot
  PROVE  FileInv'
<1>0. /\ up' = "recovering" /\ rec' = [pc |-> "scan", gen |-> 0, bytes |-> 0]
      /\ UNCHANGED <<fixed, store, write, ghost>>
      /\ todo' \cup unread' = Leftovers
      /\ begun' = begun /\ crashes' = crashes /\ failures' \in Nat
  BY DEF FileInv, FileTypes, Boot, At, Failure, counts
<1>1. FileTypes'
  BY <1>0 DEF FileInv, FileTypes, FileTypeOK, store, fixed, ghost, RecoveryState,
     Leftovers, RecoveryPcs
<1>2. Unbegun'
  BY <1>0 DEF FileInv, store, Unbegun, Leftovers
<1>3. WritersApart'
  BY <1>0 DEF FileInv, fixed, store, WritersApart
<1>4. RecoveryState'
  BY <1>0 DEF FileInv, store, fixed, RecoveryState, Copying
<1>5. Promotes'
  BY <1>0 DEF FileInv, Promotes, Copying
<1>6. WholeOrMarked'
  BY <1>0 DEF FileInv, FileTypes, FileTypeOK, store, ghost, WholeOrMarked, Leftovers
<1>7. CommittedStays'
  BY <1>0 DEF FileInv, store, ghost, CommittedStays
<1> QED BY <1>1, <1>2, <1>3, <1>4, <1>5, <1>6, <1>7 DEF FileInv

LEMMA RecoveredKeeps ==
  ASSUME FileInv, Recovered
  PROVE  FileInv'
<1>1. FileTypes'
  BY DEF FileInv, FileTypes, FileTypeOK, store, fixed, counts, ghost, Recovered
<1>2. Unbegun'
  BY DEF FileInv, store, counts, Unbegun, Recovered
<1>3. WritersApart'
  BY DEF FileInv, fixed, store, WritersApart, Recovered
<1>4. RecoveryState'
  BY DEF FileInv, store, fixed, RecoveryState, Recovered
<1>5. Promotes'
  BY DEF FileInv, Promotes, Copying, Recovered
<1>6. WholeOrMarked'
  BY DEF FileInv, store, ghost, WholeOrMarked, Recovered
<1>7. CommittedStays'
  BY DEF FileInv, store, ghost, CommittedStays, Recovered
<1> QED BY <1>1, <1>2, <1>3, <1>4, <1>5, <1>6, <1>7 DEF FileInv

LEMMA CrashServerKeeps ==
  ASSUME FileInv, CrashServer
  PROVE  FileInv'
<1>1. FileTypes'
  BY DEF FileInv, FileTypes, FileTypeOK, store, fixed, ghost, RecoveryPcs,
     CrashServer, At, Done, Writing
<1>2. Unbegun'
  BY DEF FileInv, FileTypes, store, Unbegun, CrashServer, Done, Writing
<1>3. WritersApart'
  BY DEF FileInv, fixed, store, WritersApart, CrashServer, Done, Writing
<1>4. RecoveryState'
  BY DEF FileInv, store, fixed, RecoveryState, Copying, CrashServer, At
<1>5. Promotes'
  BY DEF FileInv, Promotes, Copying, CrashServer, At
<1>6. WholeOrMarked'
  BY DEF FileInv, store, ghost, WholeOrMarked, CrashServer
<1>7. CommittedStays'
  BY DEF FileInv, store, ghost, CommittedStays, CrashServer
<1> QED BY <1>1, <1>2, <1>3, <1>4, <1>5, <1>6, <1>7 DEF FileInv

LEMMA CrashCliKeeps ==
  ASSUME FileInv, CrashCli
  PROVE  FileInv'
<1>1. FileTypes'
  BY DEF FileInv, FileTypes, FileTypeOK, store, fixed, ghost, CrashCli, Done, Writing
<1>2. Unbegun'
  BY DEF FileInv, FileTypes, store, Unbegun, CrashCli, Done, Writing
<1>3. WritersApart'
  BY DEF FileInv, fixed, store, WritersApart, CrashCli, Done, Writing
<1>4. RecoveryState'
  BY DEF FileInv, store, fixed, RecoveryState, Names, CrashCli
<1>5. Promotes'
  BY DEF FileInv, store, ghost, Promotes, Names, CrashCli
<1>6. WholeOrMarked'
  BY DEF FileInv, store, ghost, WholeOrMarked, CrashCli
<1>7. CommittedStays'
  BY DEF FileInv, store, ghost, CommittedStays, CrashCli
<1> QED BY <1>1, <1>2, <1>3, <1>4, <1>5, <1>6, <1>7 DEF FileInv

LEMMA ScanKeeps ==
  ASSUME FileInv, NEW n \in FileGenerations, Scan(n)
  PROVE  FileInv'
<1>1. FileTypes'
  <2>1. rec' \in [pc : RecoveryPcs, gen : 0 .. MaxWrites, bytes : 0 .. Whole]
    BY ScanOutcome DEF FileInv, FileTypes, FileTypeOK, Block, Pass, At, RecoveryPcs,
       Copying
  <2>2. todo' \subseteq FileGenerations /\ up' \in {"recovering", "blocked"}
    BY ScanOutcome DEF FileInv, FileTypes, FileTypeOK, Block, Pass
  <2>3. UNCHANGED <<kind, links, target, tmps, proofs, markers, write, unread, begun,
                    crashes, failures, committed, meddled>>
    BY ScanOutcome DEF store, fixed, counts, ghost
  <2> QED BY <2>1, <2>2, <2>3 DEF FileInv, FileTypes, FileTypeOK
<1>2. Unbegun'
  BY ScanOutcome DEF FileInv, store, counts, Block, Pass, At, Unbegun
<1>3. WritersApart'
  BY ScanOutcome DEF FileInv, fixed, store, WritersApart
<1>4. RecoveryState'
  BY ScanOutcome DEF FileInv, store, fixed, Block, Pass, At, RecoveryState,
     Copying, Names
<1>5. Promotes'
  BY ScanOutcome DEF FileInv, FileTypes, FileTypeOK, store, ghost, Block, Pass,
     At, Promotes, WholeOrMarked, WholeFile, Copying, Names
<1>6. WholeOrMarked'
  BY ScanOutcome DEF FileInv, store, ghost, Block, WholeOrMarked
<1>7. CommittedStays'
  BY ScanOutcome DEF FileInv, store, ghost, CommittedStays
<1> QED BY <1>1, <1>2, <1>3, <1>4, <1>5, <1>6, <1>7 DEF FileInv

LEMMA ScanFailsKeeps ==
  ASSUME FileInv, NEW n \in FileGenerations, ScanFails(n)
  PROVE  FileInv'
<1>0. /\ up = "recovering" /\ rec' = [pc |-> "scan", gen |-> 0, bytes |-> 0]
      /\ UNCHANGED <<fixed, store, write, ghost>>
      /\ \/ /\ up' = "recovering" /\ todo' = todo \ {n} /\ unread' = unread \cup {n}
         \/ /\ up' = "blocked" /\ todo' = {} /\ unread' = unread
      /\ begun' = begun /\ crashes' = crashes /\ failures' \in Nat
  BY DEF FileInv, FileTypes, ScanFails, Pass, Block, At, Failure
<1>1. FileTypes'
  <2>1. todo' \subseteq FileGenerations /\ unread' \subseteq FileGenerations
    BY <1>0 DEF FileInv, FileTypes, FileTypeOK
  <2>2. rec' \in [pc : RecoveryPcs, gen : 0 .. MaxWrites, bytes : 0 .. Whole]
    BY <1>0 DEF RecoveryPcs
  <2>3. up' \in {"down", "recovering", "running", "blocked"}
    BY <1>0
  <2> QED BY <1>0, <2>1, <2>2, <2>3 DEF FileInv, FileTypes, FileTypeOK, store, fixed, ghost
<1>2. Unbegun'
  BY <1>0 DEF FileInv, store, Unbegun
<1>3. WritersApart'
  BY <1>0 DEF FileInv, fixed, store, WritersApart
<1>4. RecoveryState'
  BY <1>0 DEF FileInv, store, fixed, RecoveryState, Copying
<1>5. Promotes'
  BY <1>0 DEF FileInv, Promotes, Copying
<1>6. WholeOrMarked'
  BY <1>0 DEF FileInv, store, ghost, WholeOrMarked
<1>7. CommittedStays'
  BY <1>0 DEF FileInv, store, ghost, CommittedStays
<1> QED BY <1>1, <1>2, <1>3, <1>4, <1>5, <1>6, <1>7 DEF FileInv

LEMMA SweepProofKeeps ==
  ASSUME FileInv, NEW n \in FileGenerations, SweepProof(n)
  PROVE  FileInv'
<1>0. /\ up = "recovering" /\ tmps[n] = NoFile
      /\ up' = "recovering" /\ rec' = [pc |-> "scan", gen |-> 0, bytes |-> 0]
      /\ todo' = todo \ {n}
      /\ UNCHANGED <<fixed, target, tmps, markers, write, unread, ghost>>
      /\ proofs' = proofs \/ proofs' = [proofs EXCEPT ![n] = "none"]
      /\ begun' = begun /\ crashes' = crashes /\ failures' \in Nat
  BY DEF FileInv, FileTypes, SweepProof, Pass, At, Failure, counts
<1>1. FileTypes'
  BY <1>0 DEF FileInv, FileTypes, FileTypeOK, fixed, ghost, RecoveryPcs
<1>2. Unbegun'
  BY <1>0 DEF FileInv, FileTypes, FileTypeOK, Unbegun
<1>3. WritersApart'
  BY <1>0 DEF FileInv, fixed, WritersApart
<1>4. RecoveryState'
  BY <1>0 DEF FileInv, fixed, RecoveryState, Copying
<1>5. Promotes'
  BY <1>0 DEF FileInv, Promotes, Copying
<1>6. WholeOrMarked'
  BY <1>0 DEF FileInv, ghost, WholeOrMarked
<1>7. CommittedStays'
  BY <1>0 DEF FileInv, ghost, CommittedStays
<1> QED BY <1>1, <1>2, <1>3, <1>4, <1>5, <1>6, <1>7 DEF FileInv

LEMMA PublishKeeps ==
  ASSUME FileInv, NEW n \in FileGenerations, up = "recovering", rec.gen = n, Publish(n),
         UNCHANGED <<fixed, write, unread>>, UNCHANGED counts
  PROVE  FileInv'
<1>1. FileTypes'
  <2>1. target' = target \/ target' = File("tmp", n, rec.bytes)
    BY DEF Publish, store
  <2>2. target' \in [inode : {"tmp", "copy"}, gen : FileGenerations, bytes : 0 .. Whole]
                      \cup {NoFile}
    BY <2>1 DEF FileInv, FileTypes, FileTypeOK, File
  <2>3. rec' = [rec EXCEPT !.pc = "clean"] \/ rec' = [pc |-> "scan", gen |-> 0, bytes |-> 0]
    BY DEF Publish, Proceed, Pass, Block, At
  <2>4. rec' \in [pc : RecoveryPcs, gen : 0 .. MaxWrites, bytes : 0 .. Whole]
    BY <2>3 DEF FileInv, FileTypes, RecoveryPcs
  <2>5. /\ committed' \in {n, committed} /\ meddled' = meddled
        /\ todo' \subseteq todo /\ up' \in {up, "blocked"}
    BY DEF Publish, Published, Pass, Block, ghost
  <2> QED BY <2>2, <2>4, <2>5
       DEF FileInv, FileTypes, FileTypeOK, Publish, fixed, counts
<1>2. Unbegun'
  BY DEF FileInv, FileTypes, counts, Unbegun, File, Publish, Published, Pass, Block
<1>3. WritersApart'
  BY DEF FileInv, fixed, WritersApart, Publish
<1>4. RecoveryState'
  BY DEF FileInv, FileTypes, fixed, RecoveryState, Copying, Names, File, Publish,
     Proceed, Published, Pass, Block, At
<1>5. Promotes'
  BY DEF FileInv, FileTypes, ghost, Promotes, RecoveryState, Copying, Names,
     WholeFile, File, Publish, Proceed
<1>6. WholeOrMarked'
  BY DEF FileInv, ghost, WholeOrMarked, Promotes, RecoveryState, File, Publish
<1>7. CommittedStays'
  BY DEF FileInv, ghost, CommittedStays, Publish, Published
<1> QED BY <1>1, <1>2, <1>3, <1>4, <1>5, <1>6, <1>7 DEF FileInv

LEMMA MarkTmpKeeps ==
  ASSUME FileInv, NEW n \in FileGenerations, up = "recovering", rec.gen = n, MarkTmp(n),
         UNCHANGED <<fixed, write, unread>>, UNCHANGED <<counts, ghost>>
  PROVE  FileInv'
<1>1. FileTypes'
  <2>1. markers' \in [FileGenerations -> {"none", "torn", "source", "copying", "complete"}]
    BY DEF FileInv, FileTypes, FileTypeOK, MarkTmp
  <2>2. rec' \in [pc : RecoveryPcs, gen : 0 .. MaxWrites, bytes : 0 .. Whole]
    <3>1. rec' = rec \/ rec' = [rec EXCEPT !.pc = "mark"] \/ rec' = [rec EXCEPT !.pc = "create"]
      BY DEF MarkTmp, Proceed
    <3> QED BY <3>1 DEF FileInv, FileTypes, RecoveryPcs
  <2>3. UNCHANGED <<target, tmps, proofs, todo, up>>
    BY DEF MarkTmp
  <2> QED BY <2>1, <2>2, <2>3 DEF FileInv, FileTypes, FileTypeOK, fixed, counts, ghost
<1>2. Unbegun'
  <2>1. n <= begun
    BY DEF FileInv, FileTypes, RecoveryState, Unbegun, MarkTmp
  <2>2. \A m \in FileGenerations \ {n} : markers'[m] = markers[m]
    BY DEF FileInv, FileTypes, FileTypeOK, MarkTmp
  <2> QED BY <2>1, <2>2 DEF FileInv, FileTypes, Unbegun, MarkTmp, counts
<1>3. WritersApart'
  BY DEF FileInv, fixed, WritersApart, MarkTmp
<1>4. RecoveryState'
  <2>1. /\ ~links /\ UNCHANGED <<target, tmps, todo, up, links>>
        /\ rec.pc = "promote" /\ rec'.pc \in {"promote", "mark", "create"}
        /\ rec'.gen = n /\ rec'.bytes = rec.bytes
        /\ rec'.pc = "create" => markers'[n] \in {"source", "copying", "complete"}
    BY DEF FileInv, FileTypes, MarkTmp, Proceed, fixed
  <2>2. \A m \in FileGenerations : markers'[m] \in {markers[m], "torn", "none"}
    BY DEF FileInv, FileTypes, FileTypeOK, MarkTmp
  <2> QED BY <2>1, <2>2 DEF FileInv, RecoveryState, Copying
<1>5. Promotes'
  BY DEF FileInv, FileTypes, ghost, Promotes, Copying, MarkTmp, Proceed
<1>6. WholeOrMarked'
  BY DEF FileInv, WholeOrMarked, MarkTmp
<1>7. CommittedStays'
  BY DEF FileInv, ghost, CommittedStays, MarkTmp
<1> QED BY <1>1, <1>2, <1>3, <1>4, <1>5, <1>6, <1>7 DEF FileInv

LEMMA MarkSourceKeeps ==
  ASSUME FileInv, NEW n \in FileGenerations, up = "recovering", rec.gen = n, MarkSource(n),
         UNCHANGED <<fixed, write, unread>>, UNCHANGED <<counts, ghost>>
  PROVE  FileInv'
<1>1. FileTypes'
  BY DEF FileInv, FileTypes, FileTypeOK, fixed, counts, ghost, RecoveryPcs,
     MarkSource, Proceed
<1>2. Unbegun'
  BY DEF FileInv, counts, Unbegun, RecoveryState, MarkSource
<1>3. WritersApart'
  BY DEF FileInv, fixed, WritersApart, MarkSource
<1>4. RecoveryState'
  BY DEF FileInv, FileTypes, FileTypeOK, fixed, RecoveryState, Copying,
     MarkSource, Proceed
<1>5. Promotes'
  BY DEF FileInv, ghost, Promotes, Copying, MarkSource, Proceed
<1>6. WholeOrMarked'
  BY DEF FileInv, ghost, WholeOrMarked, Promotes, MarkSource
<1>7. CommittedStays'
  BY DEF FileInv, ghost, CommittedStays, MarkSource
<1> QED BY <1>1, <1>2, <1>3, <1>4, <1>5, <1>6, <1>7 DEF FileInv

LEMMA CreateCopyKeeps ==
  ASSUME FileInv, NEW n \in FileGenerations, up = "recovering", rec.gen = n, CreateCopy(n),
         UNCHANGED <<fixed, write, unread>>, UNCHANGED <<counts, ghost>>
  PROVE  FileInv'
<1>1. FileTypes'
  BY DEF FileInv, FileTypes, FileTypeOK, fixed, counts, ghost, RecoveryPcs,
     Copying, File, CreateCopy, Proceed, Block, At
<1>2. Unbegun'
  BY DEF FileInv, FileTypes, counts, Unbegun, RecoveryState, File, CreateCopy, Block
<1>3. WritersApart'
  BY DEF FileInv, fixed, WritersApart, CreateCopy
<1>4. RecoveryState'
  BY DEF FileInv, FileTypes, fixed, RecoveryState, Names, File, CreateCopy,
     Proceed, Block, At
<1>5. Promotes'
  BY DEF FileInv, FileTypes, fixed, ghost, Promotes, RecoveryState, Names, File,
     CreateCopy, Proceed
<1>6. WholeOrMarked'
  BY DEF FileInv, ghost, WholeOrMarked, Promotes, RecoveryState, File, CreateCopy
<1>7. CommittedStays'
  BY DEF FileInv, ghost, CommittedStays, CreateCopy
<1> QED BY <1>1, <1>2, <1>3, <1>4, <1>5, <1>6, <1>7 DEF FileInv

LEMMA OwnCopyKeeps ==
  ASSUME FileInv, NEW n \in FileGenerations, up = "recovering", rec.gen = n, OwnCopy(n),
         UNCHANGED <<fixed, write, unread>>, UNCHANGED <<counts, ghost>>
  PROVE  FileInv'
<1>1. FileTypes'
  <2>1. markers' \in [FileGenerations -> {"none", "torn", "source", "copying", "complete"}]
    BY DEF FileInv, FileTypes, FileTypeOK, OwnCopy
  <2>2. rec' \in [pc : RecoveryPcs, gen : 0 .. MaxWrites, bytes : 0 .. Whole]
    <3>1. rec' = [pc |-> "copy", gen |-> rec.gen, bytes |-> 0]
      BY DEF FileInv, FileTypes, OwnCopy
    <3> QED BY <3>1 DEF FileInv, FileTypes, RecoveryPcs, Copying
  <2> QED BY <2>1, <2>2 DEF FileInv, FileTypes, FileTypeOK, OwnCopy, fixed, counts, ghost
<1>2. Unbegun'
  BY DEF FileInv, counts, Unbegun, RecoveryState, OwnCopy
<1>3. WritersApart'
  BY DEF FileInv, fixed, WritersApart, OwnCopy
<1>4. RecoveryState'
  BY DEF FileInv, fixed, RecoveryState, Copying, Names, OwnCopy
<1>5. Promotes'
  BY DEF FileInv, FileTypes, FileTypeOK, ghost, Promotes, Copying, Names, OwnCopy
<1>6. WholeOrMarked'
  BY DEF FileInv, ghost, WholeOrMarked, Promotes, OwnCopy
<1>7. CommittedStays'
  BY DEF FileInv, ghost, CommittedStays, OwnCopy
<1> QED BY <1>1, <1>2, <1>3, <1>4, <1>5, <1>6, <1>7 DEF FileInv

LEMMA TruncateKeeps ==
  ASSUME FileInv, NEW n \in FileGenerations, up = "recovering", rec.gen = n, Truncate(n),
         UNCHANGED <<fixed, write, unread>>, UNCHANGED <<counts, ghost>>
  PROVE  FileInv'
<1>1. FileTypes'
  <2>1. target' \in [inode : {"tmp", "copy"}, gen : FileGenerations, bytes : 0 .. Whole]
                      \cup {NoFile}
    BY DEF FileInv, FileTypes, FileTypeOK, Truncate, Names
  <2>2. rec' \in [pc : RecoveryPcs, gen : 0 .. MaxWrites, bytes : 0 .. Whole]
    <3>1. rec' = [pc |-> "recopy", gen |-> rec.gen, bytes |-> 0]
      BY DEF FileInv, FileTypes, Truncate
    <3> QED BY <3>1 DEF FileInv, FileTypes, RecoveryPcs, Copying
  <2> QED BY <2>1, <2>2 DEF FileInv, FileTypes, FileTypeOK, Truncate, fixed, counts, ghost
<1>2. Unbegun'
  <2>1. target' # NoFile => target # NoFile /\ target'.gen = target.gen
    BY DEF FileInv, Truncate, Names
  <2> QED BY <2>1 DEF FileInv, Unbegun, Truncate, counts
<1>3. WritersApart'
  BY DEF FileInv, fixed, WritersApart, Truncate
<1>4. RecoveryState'
  BY DEF FileInv, FileTypes, FileTypeOK, fixed, RecoveryState, Copying, Names, Truncate
<1>5. Promotes'
  BY DEF FileInv, FileTypes, FileTypeOK, ghost, Promotes, Copying, Names, Truncate
<1>6. WholeOrMarked'
  BY DEF FileInv, ghost, WholeOrMarked, Promotes, RecoveryState, Copying, Names,
     Truncate
<1>7. CommittedStays'
  BY DEF FileInv, FileTypes, FileTypeOK, ghost, CommittedStays, Names, Truncate
<1> QED BY <1>1, <1>2, <1>3, <1>4, <1>5, <1>6, <1>7 DEF FileInv

LEMMA CopyKeeps ==
  ASSUME FileInv, NEW n \in FileGenerations, up = "recovering", rec.gen = n, Copy(n),
         UNCHANGED <<fixed, write, unread>>, UNCHANGED <<counts, ghost>>
  PROVE  FileInv'
<1>1. FileTypes'
  BY DEF FileInv, FileTypes, FileTypeOK, fixed, counts, ghost, RecoveryPcs,
     Copying, RecoveryState, WritersApart, Names, Copy
<1>2. Unbegun'
  <2>1. target' # NoFile => target # NoFile /\ target'.gen = target.gen
    BY DEF FileInv, Copy, Names
  <2> QED BY <2>1 DEF FileInv, Unbegun, Copy, counts
<1>3. WritersApart'
  BY DEF FileInv, fixed, WritersApart, Copy
<1>4. RecoveryState'
  BY DEF FileInv, FileTypes, FileTypeOK, fixed, RecoveryState, Names, Copy
<1>5. Promotes'
  BY DEF FileInv, FileTypes, FileTypeOK, ghost, Promotes, Names, Copy
<1>6. WholeOrMarked'
  BY DEF FileInv, ghost, WholeOrMarked, RecoveryState, Copying, Copy
<1>7. CommittedStays'
  BY DEF FileInv, FileTypes, FileTypeOK, ghost, CommittedStays, Names, Copy
<1> QED BY <1>1, <1>2, <1>3, <1>4, <1>5, <1>6, <1>7 DEF FileInv

LEMMA CopiedKeeps ==
  ASSUME FileInv, NEW n \in FileGenerations, up = "recovering", rec.gen = n, Copied(n),
         UNCHANGED <<fixed, write, unread>>, UNCHANGED counts
  PROVE  FileInv'
<1>1. FileTypes'
  BY DEF FileInv, FileTypes, FileTypeOK, store, fixed, counts, ghost, RecoveryPcs,
     Copying, WritersApart, Copied, Proceed, Published, Pass, Block, At
<1>2. Unbegun'
  BY DEF FileInv, store, counts, Unbegun, Copied, Published, Pass, Block
<1>3. WritersApart'
  BY DEF FileInv, fixed, store, WritersApart, Copied
<1>4. RecoveryState'
  BY DEF FileInv, FileTypes, store, fixed, RecoveryState, Copying, Names, File,
     Copied, Proceed, Published, Pass, Block, At
<1>5. Promotes'
  BY DEF FileInv, FileTypes, store, ghost, Promotes, RecoveryState, Copying,
     Names, WholeFile, Copied, Proceed, Block
<1>6. WholeOrMarked'
  BY DEF FileInv, store, ghost, WholeOrMarked, Promotes, Copying, Copied, Published
<1>7. CommittedStays'
  BY DEF FileInv, store, ghost, CommittedStays, Copied, Published
<1> QED BY <1>1, <1>2, <1>3, <1>4, <1>5, <1>6, <1>7 DEF FileInv

LEMMA MarkCompleteKeeps ==
  ASSUME FileInv, NEW n \in FileGenerations, up = "recovering", rec.gen = n, MarkComplete(n),
         UNCHANGED <<fixed, write, unread>>, UNCHANGED counts
  PROVE  FileInv'
<1>1. FileTypes'
  BY DEF FileInv, FileTypes, FileTypeOK, fixed, counts, RecoveryPcs, MarkComplete,
     Proceed, Published
<1>2. Unbegun'
  BY DEF FileInv, counts, Unbegun, RecoveryState, MarkComplete, Published
<1>3. WritersApart'
  BY DEF FileInv, fixed, WritersApart, MarkComplete
<1>4. RecoveryState'
  BY DEF FileInv, fixed, RecoveryState, Copying, MarkComplete, Proceed, Published
<1>5. Promotes'
  BY DEF FileInv, Promotes, RecoveryState, Copying, Names, WholeFile,
     MarkComplete, Proceed, Published
<1>6. WholeOrMarked'
  BY DEF FileInv, WholeOrMarked, Promotes, RecoveryState, Copying, MarkComplete,
     Published
<1>7. CommittedStays'
  BY DEF FileInv, CommittedStays, MarkComplete, Published
<1> QED BY <1>1, <1>2, <1>3, <1>4, <1>5, <1>6, <1>7 DEF FileInv

LEMMA CleanKeeps ==
  ASSUME FileInv, NEW n \in FileGenerations, up = "recovering", rec.gen = n, Clean(n),
         UNCHANGED <<fixed, write, unread>>, UNCHANGED <<counts, ghost>>
  PROVE  FileInv'
<1>1. FileTypes'
  <2>1. tmps' \in [FileGenerations -> (0 .. Whole) \cup {NoFile}]
    <3>1. tmps' = tmps \/ tmps' = [tmps EXCEPT ![n] = NoFile]
      BY DEF Clean
    <3> QED BY <3>1 DEF FileInv, FileTypes, FileTypeOK
  <2>2. rec' \in [pc : RecoveryPcs, gen : 0 .. MaxWrites, bytes : 0 .. Whole]
    BY DEF FileInv, FileTypes, Clean, Proceed, Pass, At, RecoveryPcs
  <2> QED BY <2>1, <2>2
       DEF FileInv, FileTypes, FileTypeOK, Clean, Pass, fixed, counts, ghost
<1>2. Unbegun'
  BY DEF FileInv, FileTypes, FileTypeOK, counts, Unbegun, Clean, Pass
<1>3. WritersApart'
  <2>1. \A m \in FileGenerations : tmps'[m] \in {tmps[m], NoFile}
    BY DEF FileInv, FileTypes, FileTypeOK, Clean
  <2> QED BY <2>1 DEF FileInv, FileTypes, FileTypeOK, WritersApart, fixed
<1>4. RecoveryState'
  BY DEF FileInv, FileTypes, FileTypeOK, fixed, RecoveryState, Copying, Clean,
     Proceed, Pass, At
<1>5. Promotes'
  BY DEF FileInv, FileTypes, ghost, Promotes, Copying, Clean, Proceed
<1>6. WholeOrMarked'
  BY DEF FileInv, FileTypes, FileTypeOK, ghost, WholeOrMarked, Promotes,
     WholeFile, Clean
<1>7. CommittedStays'
  BY DEF FileInv, ghost, CommittedStays, Clean
<1> QED BY <1>1, <1>2, <1>3, <1>4, <1>5, <1>6, <1>7 DEF FileInv

LEMMA DiscardTmpKeeps ==
  ASSUME FileInv, NEW n \in FileGenerations, up = "recovering", rec.gen = n, DiscardTmp(n),
         UNCHANGED <<fixed, write, unread>>, UNCHANGED <<counts, ghost>>
  PROVE  FileInv'
<1>1. FileTypes'
  <2>1. tmps' \in [FileGenerations -> (0 .. Whole) \cup {NoFile}]
    <3>1. tmps' = tmps \/ tmps' = [tmps EXCEPT ![n] = NoFile]
      BY DEF DiscardTmp
    <3> QED BY <3>1 DEF FileInv, FileTypes, FileTypeOK
  <2>2. rec' \in [pc : RecoveryPcs, gen : 0 .. MaxWrites, bytes : 0 .. Whole]
    BY DEF FileInv, FileTypes, DiscardTmp, Proceed, Pass, At, RecoveryPcs
  <2> QED BY <2>1, <2>2
       DEF FileInv, FileTypes, FileTypeOK, DiscardTmp, Pass, fixed, counts, ghost
<1>2. Unbegun'
  BY DEF FileInv, FileTypes, FileTypeOK, counts, Unbegun, DiscardTmp, Pass
<1>3. WritersApart'
  <2>1. \A m \in FileGenerations : tmps'[m] \in {tmps[m], NoFile}
    BY DEF FileInv, FileTypes, FileTypeOK, DiscardTmp
  <2> QED BY <2>1 DEF FileInv, FileTypes, FileTypeOK, WritersApart, fixed
<1>4. RecoveryState'
  BY DEF FileInv, FileTypes, FileTypeOK, fixed, RecoveryState, Copying,
     DiscardTmp, Proceed, Pass, At
<1>5. Promotes'
  BY DEF FileInv, FileTypes, Promotes, Copying, DiscardTmp, Proceed, Pass, At
<1>6. WholeOrMarked'
  BY DEF FileInv, FileTypes, FileTypeOK, ghost, WholeOrMarked, Promotes,
     DiscardTmp, Pass, At
<1>7. CommittedStays'
  BY DEF FileInv, ghost, CommittedStays, DiscardTmp
<1> QED BY <1>1, <1>2, <1>3, <1>4, <1>5, <1>6, <1>7 DEF FileInv

LEMMA CleanProofKeeps ==
  ASSUME FileInv, NEW n \in FileGenerations, up = "recovering", rec.gen = n, CleanProof(n),
         UNCHANGED <<fixed, write, unread>>, UNCHANGED <<counts, ghost>>
  PROVE  FileInv'
<1>1. FileTypes'
  BY DEF FileInv, FileTypes, FileTypeOK, fixed, counts, ghost, RecoveryPcs,
     CleanProof, Proceed
<1>2. Unbegun'
  BY DEF FileInv, counts, Unbegun, CleanProof
<1>3. WritersApart'
  BY DEF FileInv, fixed, WritersApart, CleanProof
<1>4. RecoveryState'
  BY DEF FileInv, fixed, RecoveryState, Copying, CleanProof, Proceed
<1>5. Promotes'
  BY DEF FileInv, Promotes, Copying, CleanProof, Proceed
<1>6. WholeOrMarked'
  BY DEF FileInv, ghost, WholeOrMarked, CleanProof
<1>7. CommittedStays'
  BY DEF FileInv, ghost, CommittedStays, CleanProof
<1> QED BY <1>1, <1>2, <1>3, <1>4, <1>5, <1>6, <1>7 DEF FileInv

LEMMA CleanMarkerKeeps ==
  ASSUME FileInv, NEW n \in FileGenerations, up = "recovering", rec.gen = n, CleanMarker(n),
         UNCHANGED <<fixed, write, unread>>, UNCHANGED <<counts, ghost>>
  PROVE  FileInv'
<1>1. FileTypes'
  BY DEF FileInv, FileTypes, FileTypeOK, fixed, counts, ghost, RecoveryPcs,
     RecoveryState, CleanMarker, Pass, At
<1>2. Unbegun'
  BY DEF FileInv, counts, Unbegun, CleanMarker, Pass
<1>3. WritersApart'
  BY DEF FileInv, fixed, WritersApart, CleanMarker
<1>4. RecoveryState'
  BY DEF FileInv, fixed, RecoveryState, Copying, CleanMarker, Pass, At
<1>5. Promotes'
  BY DEF FileInv, Promotes, Copying, CleanMarker, Pass, At
<1>6. WholeOrMarked'
  BY DEF FileInv, ghost, WholeOrMarked, RecoveryState, CleanMarker, Pass
<1>7. CommittedStays'
  BY DEF FileInv, ghost, CommittedStays, CleanMarker
<1> QED BY <1>1, <1>2, <1>3, <1>4, <1>5, <1>6, <1>7 DEF FileInv

LEMMA RecoveryFailsKeeps ==
  ASSUME FileInv, NEW n \in FileGenerations, up = "recovering", rec.gen = n, RecoveryFails(n),
         UNCHANGED <<fixed, write, unread>>, UNCHANGED ghost
  PROVE  FileInv'
<1>1. FileTypes'
  <2>1. \/ rec' = [rec EXCEPT !.pc = "marker"]
        \/ rec' = [pc |-> "scan", gen |-> 0, bytes |-> 0]
    BY DEF RecoveryFails, Proceed, Pass, Block, At
  <2>2. rec' \in [pc : RecoveryPcs, gen : 0 .. MaxWrites, bytes : 0 .. Whole]
    BY <2>1 DEF FileInv, FileTypes, RecoveryPcs
  <2>3. /\ todo' \subseteq todo /\ up' \in {up, "blocked"}
        /\ UNCHANGED <<kind, links, target, tmps, proofs, markers, write, unread,
                       committed, meddled>>
    BY DEF RecoveryFails, Pass, Block, store, fixed, ghost
  <2>4. begun' = begun /\ crashes' = crashes /\ failures' = failures + 1
    BY DEF RecoveryFails, Failure
  <2> QED BY <2>2, <2>3, <2>4 DEF FileInv, FileTypes, FileTypeOK
<1>2. Unbegun'
  BY DEF FileInv, store, Unbegun, RecoveryFails, Pass, Block, Failure
<1>3. WritersApart'
  BY DEF FileInv, fixed, store, WritersApart, RecoveryFails
<1>4. RecoveryState'
  BY DEF FileInv, FileTypes, store, fixed, ghost, RecoveryState, Copying, Names,
     RecoveryFails, Proceed, Pass, Block, At
<1>5. Promotes'
  BY DEF FileInv, FileTypes, Promotes, Copying, RecoveryFails, Proceed, Pass, Block, At
<1>6. WholeOrMarked'
  BY DEF FileInv, store, ghost, WholeOrMarked, Promotes, RecoveryState, Copying,
     WholeFile, RecoveryFails, Pass, Block
<1>7. CommittedStays'
  BY DEF FileInv, store, ghost, CommittedStays, RecoveryFails
<1> QED BY <1>1, <1>2, <1>3, <1>4, <1>5, <1>6, <1>7 DEF FileInv

-----------------------------------------------------------------------------
(* Every behaviour.                                                        *)

LEMMA FileInitInv == FileInit => FileInv
<1> SUFFICES ASSUME FileInit PROVE FileInv
  OBVIOUS
<1>1. /\ \A n \in FileGenerations :
           tmps[n] = NoFile /\ proofs[n] = "none" /\ markers[n] = "none"
      /\ \A a \in Actors : write[a] = [pc |-> "idle", gen |-> 0]
      /\ rec = [pc |-> "scan", gen |-> 0, bytes |-> 0]
  BY DEF FileInit, At, Done, Writing
<1>2. FileTypes
  <2>1. write \in [Actors -> [pc : WriterPcs, gen : 0 .. MaxWrites]]
    BY DEF FileInit, WriterPcs, Done, Writing
  <2>2. tmps \in [FileGenerations -> (0 .. Whole) \cup {NoFile}]
    BY DEF FileInit
  <2>3. proofs \in [FileGenerations -> {"none", "torn", "whole"}]
    BY DEF FileInit
  <2>4. markers \in [FileGenerations -> {"none", "torn", "source", "copying", "complete"}]
    BY DEF FileInit
  <2>5. rec \in [pc : RecoveryPcs, gen : 0 .. MaxWrites, bytes : 0 .. Whole]
    BY <1>1 DEF RecoveryPcs
  <2>6. kind \in Kinds /\ links \in BOOLEAN /\ meddled \in BOOLEAN /\ target = NoFile
    BY DEF FileInit
  <2>7. /\ todo \subseteq FileGenerations /\ unread \subseteq FileGenerations
        /\ up = "down"
        /\ begun \in 0 .. MaxWrites /\ committed \in 0 .. MaxWrites
        /\ crashes \in Nat /\ failures \in Nat
    BY DEF FileInit
  <2> HIDE DEF FileGenerations, Actors, Whole
  <2> QED BY <2>1, <2>2, <2>3, <2>4, <2>5, <2>6, <2>7 DEF FileTypes, FileTypeOK, WriterPcs
<1>3. Unbegun /\ WritersApart
  BY <1>1 DEF FileInit, Unbegun, WritersApart
<1>4. RecoveryState
  BY <1>1 DEF FileInit, RecoveryState, Copying, Names
<1> QED BY <1>1, <1>2, <1>3, <1>4
     DEF FileInit, FileInv, Promotes, WholeOrMarked, CommittedStays, Copying

LEMMA FileStepInv ==
  ASSUME FileInv, [FileNext]_fileVars
  PROVE  FileInv'
<1>1. ASSUME NEW a \in Actors,
             BeginWrite(a) \/ FillTmp(a) \/ Prove(a) \/ Rename(a) \/ Tidy(a)
               \/ WriteFails(a) \/ TakeBack(a)
      PROVE  FileInv'
  BY <1>1, BeginWriteKeeps, FillTmpKeeps, ProveKeeps, RenameKeeps, TidyKeeps,
     WriteFailsKeeps, TakeBackKeeps
<1>2. CASE Boot \/ Recovered \/ CrashServer \/ CrashCli
  BY <1>2, BootKeeps, RecoveredKeeps, CrashServerKeeps, CrashCliKeeps
<1>3. ASSUME NEW n \in FileGenerations, RecoveryStep(n)
      PROVE  FileInv'
  <2>1. /\ up = "recovering" /\ rec.gen = n
        /\ UNCHANGED <<fixed, write, unread>>
    BY <1>3 DEF RecoveryStep
  <2>2. CASE /\ Publish(n) \/ Copied(n) \/ MarkComplete(n)
             /\ UNCHANGED counts
    BY <2>1, <2>2, PublishKeeps, CopiedKeeps, MarkCompleteKeeps
  <2>3. CASE /\ \/ MarkTmp(n) \/ MarkSource(n) \/ CreateCopy(n) \/ OwnCopy(n)
                \/ Truncate(n) \/ Copy(n)
             /\ UNCHANGED <<counts, ghost>>
    BY <2>1, <2>3, MarkTmpKeeps, MarkSourceKeeps, CreateCopyKeeps, OwnCopyKeeps,
       TruncateKeeps, CopyKeeps
  <2>4. CASE /\ Clean(n) \/ DiscardTmp(n) \/ CleanProof(n) \/ CleanMarker(n)
             /\ UNCHANGED <<counts, ghost>>
    BY <2>1, <2>4, CleanKeeps, DiscardTmpKeeps, CleanProofKeeps, CleanMarkerKeeps
  <2>5. CASE RecoveryFails(n) /\ UNCHANGED ghost
    BY <2>1, <2>5, RecoveryFailsKeeps
  <2> QED BY <1>3, <2>2, <2>3, <2>4, <2>5 DEF RecoveryStep
<1>4. CASE UNCHANGED fileVars
  BY <1>4 DEF fileVars, store, fixed, counts, ghost, FileInv, FileTypes, FileTypeOK,
     Unbegun, WritersApart, RecoveryState, Promotes, WholeOrMarked, CommittedStays,
     Names, WholeFile
<1> QED BY <1>1, <1>2, <1>3, <1>4, ScanKeeps, ScanFailsKeeps, SweepProofKeeps DEF FileNext

LEMMA FileInvariant == FileSpec => []FileInv
<1>1. FileInv /\ [FileNext]_fileVars => FileInv'
  BY FileStepInv
<1> QED BY FileInitInv, <1>1, PTL DEF FileSpec

\* Whatever is killed or fails, and however often: the file keeps what was last
\* published, and once the server runs it is whole, unless a writer fell into a
\* promotion or the start could not read the temp file of an interrupted copy.
THEOREM DocumentStaysSafe == FileSpec => []DocumentIsSafe
<1>1. FileInv => DocumentIsSafe
  BY DEF FileInv, FileTypes, WholeOrMarked, DocumentIsSafe, TargetIsWhole, WholeFile
<1> QED BY FileInvariant, <1>1, PTL

\* Startup never stops over a document that is whole, unless an operation
\* failed, a writer meddled or another generation was left marked.
THEOREM BlocksForCause == FileSpec => BlockedForCause
<1> DEFINE Cause == \/ ~WholeFile(target) \/ failures' > failures \/ meddled
                    \/ \E m \in FileGenerations : m # target.gen /\ markers[m] # "none"
           StepHolds == up # "blocked" /\ up' = "blocked" => Cause
<1>1. ASSUME FileInv, [FileNext]_fileVars
      PROVE  StepHolds
  <2> SUFFICES ASSUME up # "blocked", up' = "blocked", ~meddled, WholeFile(target),
                      \A m \in FileGenerations : markers[m] # "none" => m = target.gen
               PROVE  failures' > failures
    OBVIOUS
  <2>0. /\ target # NoFile /\ target.bytes = Whole
        /\ \A m \in FileGenerations : markers[m] # "none" =>
             /\ target.gen = m /\ target.inode = "copy" /\ markers[m] # "torn"
    BY <1>1 DEF FileInv, FileTypes, FileTypeOK, WholeOrMarked, WholeFile
  <2>1. ASSUME NEW n \in FileGenerations, Scan(n) PROVE FALSE
    <3>1. markers[n] # "none" /\ Resume(n) = "block"
      BY <1>1, <2>1, ScanOutcome DEF Pass
    <3>2. markers[n] \in {"source", "copying", "complete"}
      BY <1>1, <2>0, <3>1 DEF FileInv, FileTypes, FileTypeOK
    <3> QED BY <2>0, <3>1, <3>2 DEF Resume, Names, WholeFile
  <2>2. ASSUME NEW n \in FileGenerations, RecoveryStep(n) PROVE failures' > failures
    <3>1. /\ up = "recovering" /\ rec.gen = n
      BY <2>2 DEF RecoveryStep
    <3>2. ~Publish(n) /\ ~CreateCopy(n)
      BY <1>1, <2>0, <3>1 DEF Publish, CreateCopy, Pass, Published, FileInv, Promotes
    <3>3. ~Copied(n)
      BY <1>1, <2>0, <3>1 DEF Copied, Pass, Published, FileInv, Promotes, Copying
    <3>4. CASE RecoveryFails(n)
      BY <1>1, <3>4 DEF RecoveryFails, Failure, FileInv, FileTypes
    <3> QED BY <2>2, <3>1, <3>2, <3>3, <3>4 DEF RecoveryStep, MarkComplete, Published,
               MarkTmp, MarkSource, OwnCopy, Truncate, Copy, Clean, DiscardTmp,
               CleanProof, CleanMarker, Pass
  <2>3. /\ ~UNCHANGED fileVars /\ ~Boot /\ ~Recovered /\ ~CrashServer /\ ~CrashCli
        /\ \A n \in FileGenerations : ~SweepProof(n)
    BY DEF fileVars, Boot, Recovered, CrashServer, CrashCli, SweepProof, Pass
  <2>4. \A a \in Actors : /\ ~BeginWrite(a) /\ ~FillTmp(a) /\ ~Prove(a) /\ ~Rename(a)
                          /\ ~Tidy(a) /\ ~WriteFails(a) /\ ~TakeBack(a)
    BY DEF BeginWrite, FillTmp, Prove, Rename, Tidy, WriteFails, TakeBack, Rests
  <2>5. ASSUME NEW n \in FileGenerations, ScanFails(n) PROVE failures' > failures
    BY <1>1, <2>5 DEF ScanFails, Failure, FileInv, FileTypes
  <2> QED BY <1>1, <2>1, <2>2, <2>3, <2>4, <2>5 DEF FileNext
<1>2. FileInv /\ [FileNext]_fileVars => [StepHolds]_fileVars
  BY <1>1
<1> QED BY FileInvariant, <1>2, PTL DEF FileSpec, BlockedForCause

\* Recovery passes over a temp file nobody writes only for a reason, however
\* many files there are and whatever is killed.
THEOREM RecoveryStaysComplete == FileSpec => RecoveryIsComplete
<1> DEFINE StepHolds == \A n \in todo \ todo' :
                     /\ up' = "recovering" /\ failures' = failures
                     /\ target' = NoFile /\ Orphan(n)'
                     /\ (rec.pc = "scan" \/ tmps[n] = rec.bytes)
                     => ~Provable(n)'
<1>1. ASSUME FileInv, [FileNext]_fileVars
      PROVE  StepHolds
  <2> SUFFICES ASSUME NEW n \in todo \ todo',
                      up' = "recovering", failures' = failures, target' = NoFile,
                      tmps'[n] # NoFile, rec.pc = "scan" \/ tmps[n] = rec.bytes
               PROVE  ~Provable(n)'
    BY DEF Orphan
  <2>0. n \in FileGenerations /\ up = "recovering"
    BY <1>1 DEF FileInv, FileTypes, FileTypeOK, RecoveryState
  <2>1. ASSUME NEW m \in FileGenerations, Scan(m) PROVE ~Provable(n)'
    <3>1. m = n /\ Verdict(n) = "leave" /\ UNCHANGED <<fixed, store>>
      BY <1>1, <2>1, ScanOutcome DEF Block, Pass
    <3>2. /\ kind \in {"json", "jsonl", "yaml", "ignore"}
          /\ UNCHANGED <<kind, tmps, proofs>>
      BY <1>1, <3>1 DEF fixed, store, FileInv, FileTypes, FileTypeOK
    <3> QED BY <3>1, <3>2 DEF Verdict, Provable, NeedsProof
  <2>2. ASSUME NEW m \in FileGenerations, SweepProof(m) \/ ScanFails(m) PROVE FALSE
    <3>1. ~SweepProof(m)
      BY DEF SweepProof, Pass
    <3>2. ~ScanFails(m)
      BY <1>1 DEF ScanFails, Failure, FileInv, FileTypes
    <3> QED BY <2>2, <3>1, <3>2
  <2>3. ASSUME NEW m \in FileGenerations, RecoveryStep(m) PROVE FALSE
    <3>1. /\ rec.gen = m
          /\ UNCHANGED todo \/ (Pass(m) /\ m = n)
      BY <2>3 DEF RecoveryStep, Publish, Copied, MarkComplete, MarkTmp, MarkSource,
         CreateCopy,
         OwnCopy, Truncate, Copy, Clean, DiscardTmp, CleanProof, CleanMarker, RecoveryFails,
         Published, Block, Pass
    <3>2. Pass(n) /\ m = n
      BY <3>1
    <3>3. ~RecoveryFails(n)
      BY <1>1 DEF RecoveryFails, Failure, FileInv, FileTypes
    <3>4. ~Publish(n)
      BY <2>0, <3>2 DEF Publish, Published, store
    <3>5. ~Copied(n) /\ ~Clean(n) /\ ~DiscardTmp(n) /\ ~CleanMarker(n)
      BY <1>1, <3>1, <3>2 DEF Copied, Published, Clean, DiscardTmp, CleanMarker, store,
         FileInv, RecoveryState, Copying
    <3> QED BY <2>3, <3>2, <3>3, <3>4, <3>5 DEF RecoveryStep, MarkComplete, Published, MarkTmp,
               MarkSource, CreateCopy, Block, OwnCopy, Truncate, Copy, CleanProof
  <2>4. /\ ~UNCHANGED fileVars /\ ~Boot /\ ~Recovered /\ ~CrashServer /\ ~CrashCli
    BY <2>0 DEF fileVars, Boot, Recovered, CrashServer, CrashCli
  <2>5. \A a \in Actors : /\ ~BeginWrite(a) /\ ~FillTmp(a) /\ ~Prove(a) /\ ~Rename(a)
                          /\ ~Tidy(a) /\ ~WriteFails(a) /\ ~TakeBack(a)
    BY DEF BeginWrite, FillTmp, Prove, Rename, Tidy, WriteFails, TakeBack, Rests
  <2> QED BY <1>1, <2>1, <2>2, <2>3, <2>4, <2>5 DEF FileNext
<1>2. FileInv /\ [FileNext]_fileVars => [StepHolds]_fileVars
  BY <1>1
<1> QED BY FileInvariant, <1>2, PTL DEF FileSpec, RecoveryIsComplete


=============================================================================
