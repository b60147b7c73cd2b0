------------------------ MODULE FreePageAllocatorProofs ------------------------
(***************************************************************************)
(* PageIdsUnique, EveryPageHasOneOwner and FreelistIsCoalesced for any     *)
(* number of threads on any number of shards, any pages and bucket sizes,  *)
(* up to the first step at which two threads of one shard cross: the last  *)
(* steps of allocate_page, the refill lock, the count of the free pages,   *)
(* and what the invariant of FreePageAllocatorSteps says of one page.      *)
(***************************************************************************)
EXTENDS FreePageAllocatorSteps

\* Comparing the claimed page with the end of the reservation keeps the
\* invariant.
LEMMA CheckEndStep ==
    ASSUME IInv, NEW t \in Threads, CheckEnd(t)
    PROVE  IInv'
<1> DEFINE s == Home[t]
           a == hand[t].start
<1>1. /\ pc[t] \in {"check", "recheck"}
      /\ UNCHANGED <<globalNext, next, end, live, probe, reuseVars>>
  BY DEF CheckEnd
<1>2. /\ s \in Shards /\ a \in Nat /\ end[s] \in Nat /\ next[s] \in Nat
      /\ (pc[t] = "recheck" => a < next[s])
  BY <1>1, ShardsAssumption, Zenon DEF IInv, Types, HandOk
<1>3. Held(t) = {a} \cap 0..(end[s] - 1)
  BY <1>1, HeldCases, Zenon
<1>4. CASE a + 1 <= end[s]
  <2> DEFINE h == Extent(a, 1)
  <2>1. /\ pc' = [pc EXCEPT ![t] = "return"] /\ hand' = [hand EXCEPT ![t] = h]
        /\ refillLock' = [refillLock EXCEPT ![s] =
                            IF pc[t] = "recheck" THEN NoThread ELSE refillLock[s]]
    BY <1>2, <1>4 DEF CheckEnd, Return, Goto, Hold
  <2>2. refillLock' = [r \in Shards |-> refillLock'[r]]
    BY <2>1, Zenon DEF IInv, Types
  <2>3. h \in [start : Nat, len : Nat] /\ h.len = 1 /\ PagesOf(h) = {a}
    BY <1>2, OnePage, Zenon
  <2>. HIDE DEF h
  <2>4. Turn(t, "return", h)
    BY <1>1, <2>1, <2>2, <2>3, Zenon DEF Turn, IInv, Types
  <2>5. pc'[t] = "return" /\ hand'[t] = h
    BY <2>4, Turns
  <2>6. HandOk(t)'
    BY <2>3, <2>5 DEF HandOk
  <2>7. Held(t)' = Held(t)
    <3>1. Held(t)' = {a}
      BY <2>3, <2>5, HeldCasesNext, Zenon
    <3>2. {a} \cap 0..(end[s] - 1) = {a}
      BY <1>2, <1>4
    <3>. QED
      BY <1>3, <3>1, <3>2
  <2>8. pc[t] # "storeNext" /\ UNCHANGED <<live, reuseVars>>
    BY <1>1
  <2>. QED
    BY <2>4, <2>6, <2>7, <2>8, TurnStays
<1>5. CASE ~(a + 1 <= end[s])
  <2> DEFINE to == IF pc[t] = "check" THEN "lock" ELSE "reserve"
             h == hand[t]
  <2>1. pc' = [pc EXCEPT ![t] = to] /\ UNCHANGED <<hand, refillLock>>
    BY <1>2, <1>5, Zenon DEF CheckEnd, Goto
  <2>2. to \in {"lock", "reserve"}
    OBVIOUS
  <2>3. hand' = [hand EXCEPT ![t] = h] /\ h \in [start : Nat, len : Nat]
    BY <2>1 DEF IInv, Types
  <2>. HIDE DEF to, h
  <2>4. Turn(t, to, h)
    BY <1>1, <2>1, <2>3, Zenon DEF Turn, IInv, Types
  <2>5. pc'[t] = to
    BY <2>4, Turns
  <2>6. to = "reserve" => next'[s] >= end'[s] /\ next'[s] # 0
    BY <1>1, <1>2, <1>5 DEF to
  <2>7. HandOk(t)'
    BY <2>2, <2>5, <2>6, Zenon DEF HandOk
  <2>8. Held(t)' = Held(t)
    <3>1. Held(t)' = {}
      BY <2>2, <2>5, HeldCasesNext
    <3>2. {a} \cap 0..(end[s] - 1) = {}
      BY <1>2, <1>5
    <3>. QED
      BY <1>3, <3>1, <3>2
  <2>9. pc[t] # "storeNext" /\ to # "storeNext" /\ UNCHANGED <<live, reuseVars>>
    BY <1>1, <2>2
  <2>. QED
    BY <2>4, <2>7, <2>8, <2>9, TurnStays
<1>. QED
  BY <1>4, <1>5

\* Fresh pages go to a place that was empty.
LEMMA FreshParts ==
    ASSUME NEW A, NEW B, NEW n \in Nat, NEW k \in Nat, FirstPage <= n, Parted(A, n),
           NEW o \in Places, A[o] = {}, B[o] = n..(n + k - 1),
           \A x \in Places : x # o => B[x] = A[x]
    PROVE  Parted(B, n + k)
<1>0. FirstPage \in Nat
  BY PagesAssumption
<1>1. \A x \in Places : B[x] \subseteq FirstPage..(n + k - 1)
  <2>. SUFFICES ASSUME NEW x \in Places PROVE B[x] \subseteq FirstPage..(n + k - 1)
    OBVIOUS
  <2>1. CASE x = o
    BY <1>0, <2>1
  <2>2. CASE x # o
    <3>1. B[x] \subseteq FirstPage..(n - 1)
      BY <2>2 DEF Parted
    <3>2. FirstPage..(n - 1) \subseteq FirstPage..(n + k - 1)
      BY <1>0
    <3>. QED
      BY <3>1, <3>2
  <2>. QED
    BY <2>1, <2>2
<1>2. \A p \in FirstPage..(n + k - 1) : \E x \in Places : p \in B[x]
  <2>. SUFFICES ASSUME NEW p \in FirstPage..(n + k - 1) PROVE \E x \in Places : p \in B[x]
    OBVIOUS
  <2>1. CASE p < n
    <3>1. p \in FirstPage..(n - 1)
      BY <1>0, <2>1
    <3>2. PICK x \in Places : p \in A[x]
      BY <3>1 DEF Parted
    <3>3. x # o
      BY <3>2
    <3>. QED
      BY <3>2, <3>3
  <2>2. CASE ~(p < n)
    <3>1. p \in n..(n + k - 1)
      BY <1>0, <2>2
    <3>. QED
      BY <3>1
  <2>. QED
    BY <2>1, <2>2
<1>3. ASSUME NEW x \in Places, x # o PROVE B[x] \cap B[o] = {}
  <2>1. B[x] \subseteq FirstPage..(n - 1)
    BY <1>3 DEF Parted
  <2>2. (FirstPage..(n - 1)) \cap (n..(n + k - 1)) = {}
    BY <1>0
  <2>. QED
    BY <2>1, <2>2
<1>4. \A x, y \in Places : x # y => B[x] \cap B[y] = {}
  <2>1. \A x, y \in Places : x # y => A[x] \cap A[y] = {}
    BY DEF Parted
  <2>. QED
    BY <1>3, <2>1
<1>. QED
  BY <1>1, <1>2, <1>4 DEF Parted

\* No two threads are inside the refill of one shard.
LEMMA OneRefill ==
    ASSUME Locked, NEW t \in Threads, NEW u \in Threads, Home[t] = Home[u],
           pc[t] \in Refilling, pc[u] \in Refilling
    PROVE  t = u
BY DEF Locked

\* A thread inside a refill is the only one that can be between its two stores,
\* before and after its step.
LEMMA RefillIsSole ==
    ASSUME Locked, NEW t \in Threads, StepOf(t), pc[t] \in Refilling
    PROVE  Sole(pc, t) /\ Sole(pc', t)
<1>1. \A u \in Threads : u # t /\ Home[u] = Home[t] => pc[u] # "storeNext"
  BY OneRefill DEF Refilling
<1>. QED
  BY <1>1 DEF Sole, StepOf

\* Reserving a range at the global cursor, under the refill lock, keeps the
\* invariant.
LEMMA ReserveStep ==
    ASSUME IInv, Locked, NEW t \in Threads, Reserve(t)
    PROVE  IInv'
<1> DEFINE s == Home[t]
           g == globalNext
           h == Extent(g, ReserveLen)
           n == next[s]
           z == end[s]
           o == Hands(t)
<1>1. /\ pc[t] = "reserve" /\ globalNext' = g + ReserveLen
      /\ hand' = [hand EXCEPT ![t] = h] /\ pc' = [pc EXCEPT ![t] = "storeEnd"]
      /\ UNCHANGED <<next, end, refillLock, live, probe, reuseVars>>
  BY DEF Reserve, Goto, Hold
<1>2. /\ s \in Shards /\ n \in Nat /\ z \in Nat /\ n >= z /\ n # 0
      /\ g \in Nat /\ FirstPage <= g /\ ReserveLen \in Nat \ {0} /\ z <= g
  BY <1>1, ShardsAssumption, PagesAssumption, Zenon DEF IInv, Types, HandOk, RangeOk
<1>3. IsExtent(h) /\ h.start = g /\ h.len = ReserveLen
  BY <1>2, ExtentFacts
<1>4. next' = [next EXCEPT ![s] = n] /\ end' = [end EXCEPT ![s] = z]
  BY <1>1, <1>2, Zenon DEF IInv, Types
<1>5. Grows(t, "storeEnd", h, n, z)
  BY <1>1, <1>2, <1>3, <1>4, Zenon DEF Grows, IsExtent, IInv, Types
<1>. HIDE DEF h
<1>6. /\ StepOf(t) /\ pc'[t] = "storeEnd" /\ hand'[t] = h /\ next'[s] = n /\ end'[s] = z
      /\ Queues' /\ Freelist'
  BY <1>5, GrowsStep, SMTT(30), ZenonT(30)
<1>7. Types'
  <2>1. globalNext' \in Nat /\ globalNext <= globalNext'
    BY <1>1, <1>2
  <2>. QED
    BY <1>5, <2>1, GrowsStep, SMTT(30), ZenonT(30)
<1>8. HandOk(t)'
  BY <1>2, <1>3, <1>6 DEF HandOk
<1>9. Held(t) = {} /\ Held(t)' = g..(g + ReserveLen - 1)
  <2>1. PagesOf(h) = g..(g + ReserveLen - 1)
    BY <1>2, <1>3 DEF PagesOf, EndOf
  <2>. QED
    BY <1>1, <1>6, <2>1, HeldCases, HeldCasesNext, Zenon
<1>10. Alone(t) /\ ReservedTail(s)' = ReservedTail(s)
  <2>1. pc[t] # "storeNext" /\ pc'[t] # "storeNext" /\ next'[s] = next[s] /\ end'[s] = end[s]
    BY <1>1, <1>6
  <2>. QED
    BY <1>2, <1>6, <2>1, KeepsRange, TailsKeep
<1>11. Owned'
  <2>1. ChangesOnly(t, {o})
    BY <1>1, <1>10 DEF ChangesOnly, reuseVars
  <2>2. \A x \in Places : x \notin {o} => Areas'[x] = Areas[x]
    BY <1>6, <1>10, <2>1, Elsewhere
  <2>3. o \in Places /\ Areas[o] = {} /\ Areas'[o] = g..(g + ReserveLen - 1)
    BY <1>9, PlaceAreas, PlaceAreasNext, Zenon
  <2>4. Parted(Areas, g)
    BY DEF IInv, Owned
  <2>5. \A x \in Places : x # o => Areas'[x] = Areas[x]
    BY <2>2
  <2>. HIDE DEF g, o
  <2>6. Parted(Areas', g + ReserveLen)
    BY <1>2, <2>3, <2>4, <2>5, FreshParts, Zenon
  <2>. QED
    BY <1>1, <2>6 DEF Owned
<1>12. RangeOk(s)' /\ globalNext <= globalNext'
  BY <1>1, <1>2, <1>6 DEF RangeOk
<1>. QED
  BY <1>6, <1>7, <1>8, <1>10, <1>11, <1>12, Assemble, Zenon

\* Storing the new end of the shard's range keeps the invariant although next
\* is still the old one, unless another thread of the shard still has a page
\* number to compare with the old end and finds the new one.
LEMMA StoreEndStep ==
    ASSUME IInv, Locked, NEW t \in Threads, StoreEnd(t), ~crossed'
    PROVE  IInv'
<1> DEFINE s == Home[t]
           h == hand[t]
           n == next[s]
           z == EndOf(h)
           from == Hands(t)
           dest == Reservation(s)
           M == PagesOf(h) \ {h.start}
<1>1. /\ pc[t] = "storeEnd" /\ end' = [end EXCEPT ![s] = z] /\ pc' = [pc EXCEPT ![t] = "storeNext"]
      /\ UNCHANGED <<globalNext, next, refillLock, hand, live, probe, reuseVars>>
  BY DEF StoreEnd, Goto
<1>2. /\ s \in Shards /\ n \in Nat /\ end[s] \in Nat /\ n >= end[s] /\ n # 0
      /\ h \in [start : Nat, len : Nat] /\ h.len >= 1 /\ end[s] <= h.start
  BY <1>1, ShardsAssumption, Zenon DEF IInv, Types, HandOk
<1>3. IsExtent(h)
  BY <1>2 DEF IsExtent
<1>4. next' = [next EXCEPT ![s] = n] /\ hand' = [hand EXCEPT ![t] = h]
  BY <1>1, <1>2, Zenon DEF IInv, Types
<1>. HIDE DEF h
<1>5. /\ h.start \in Nat /\ h.len \in Nat /\ z = h.start + h.len /\ z \in Nat
      /\ \A p : p \in PagesOf(h) <=> p \in Nat /\ h.start <= p /\ p < h.start + h.len
  BY <1>3, ExtentPages
<1>. HIDE DEF z
<1>6. Grows(t, "storeNext", h, n, z)
  <2>1. refillLock' = [r \in Shards |-> refillLock'[r]]
    BY <1>1 DEF IInv, Types
  <2>2. UNCHANGED <<live, probe, reuseVars>>
    BY <1>1
  <2>. QED
    BY <1>1, <1>2, <1>4, <1>5, <2>1, <2>2, Zenon DEF Grows
<1>7. StepOf(t) /\ pc'[t] = "storeNext" /\ hand'[t] = h /\ next'[s] = n /\ end'[s] = z
  BY <1>6, GrowsStep, SMTT(30), ZenonT(30)
<1>14. pc[t] \in Refilling /\ Sole(pc, t) /\ Sole(pc', t)
  <2>1. pc[t] \in Refilling
    BY <1>1 DEF Refilling
  <2>. QED
    BY <1>7, <2>1, RefillIsSole
<1>13. Alone(t)
  <2>1. ASSUME NEW u \in Threads, u # t, Home[u] = Home[t]
        PROVE  /\ pc'[u] = pc[u] /\ hand'[u] = hand[u] /\ pc[u] \notin Refilling
               /\ hand[u].start \in Nat /\ (pc[u] = "check" => hand[u].start < end[s])
    <3>1. pc'[u] = pc[u] /\ hand'[u] = hand[u]
      BY <1>7, <2>1 DEF StepOf
    <3>2. pc[u] \notin Refilling
      BY <1>14, <2>1, OneRefill
    <3>3. hand[u].start \in Nat
      BY DEF IInv, Types
    <3>4. ~(pc[u] = "check" /\ hand[u].start >= end[s])
      BY <2>1 DEF StoreEnd, OthersAtHome
    <3>. QED
      BY <1>2, <3>1, <3>2, <3>3, <3>4
  <2>2. ASSUME NEW u \in Threads, u # t, Home[u] = Home[t] PROVE Held(u)' = Held(u)
    <3>1. CASE pc[u] = "check"
      <4>1. Held(u) = {hand[u].start} \cap 0..(end[s] - 1)
        BY <2>2, <3>1, HeldCases, Zenon
      <4>2. Held(u)' = {hand[u].start} \cap 0..(z - 1)
        <5>1. pc'[u] = "check" /\ hand'[u] = hand[u]
          BY <2>1, <2>2, <3>1
        <5>. QED
          BY <1>7, <2>2, <5>1, HeldCasesNext, Zenon
      <4>3. hand[u].start \in Nat /\ hand[u].start < end[s]
        BY <2>1, <2>2, <3>1
      <4>4. {hand[u].start} \cap 0..(end[s] - 1) = {hand[u].start} \cap 0..(z - 1)
        BY <1>2, <1>5, <4>3
      <4>. QED
        BY <4>1, <4>2, <4>4
    <3>2. CASE pc[u] # "check"
      <4>1. pc'[u] = pc[u] /\ hand'[u] = hand[u] /\ pc[u] \notin {"check", "recheck"}
        BY <2>1, <2>2, <3>2 DEF Refilling
      <4>2. HeldFrom(pc', hand', end', u) = HeldFrom(pc, hand, end, u)
        BY <4>1 DEF HeldFrom
      <4>. QED
        BY <4>2, HeldIs
    <3>. QED
      BY <3>1, <3>2
  <2>3. ASSUME NEW u \in Threads, u # t, Home[u] = Home[t], HandOk(u) PROVE HandOk(u)'
    <3>1. pc'[u] = pc[u] /\ hand'[u] = hand[u] /\ pc[u] \notin Refilling
      BY <2>1, <2>3
    <3>. QED
      BY <2>3, <3>1 DEF HandOk, Refilling
  <2>4. ASSUME NEW u \in Threads, Home[u] # Home[t]
        PROVE  Held(u)' = Held(u) /\ (HandOk(u) => HandOk(u)')
    <3>1. /\ pc'[u] = pc[u] /\ hand'[u] = hand[u]
          /\ next'[Home[u]] = next[Home[u]] /\ end'[Home[u]] = end[Home[u]]
      BY <1>7, <2>4, ShardsAssumption DEF StepOf
    <3>2. HeldFrom(pc', hand', end', u) = HeldFrom(pc, hand, end, u)
      BY <3>1 DEF HeldFrom
    <3>3. HandOk(u) => HandOk(u)'
      BY <3>1 DEF HandOk
    <3>. QED
      BY <3>2, <3>3, HeldIs
  <2>. QED
    BY <2>2, <2>3, <2>4 DEF Alone
<1>8. HandOk(t)'
  BY <1>2, <1>7, Zenon DEF HandOk
<1>9. Held(t) = PagesOf(h) /\ Held(t)' = {h.start}
  BY <1>1, <1>7, HeldCases, HeldCasesNext, Zenon DEF h
<1>10. ReservedTail(s) = {} /\ ReservedTail(s)' = (h.start + 1)..(z - 1)
  <2>1. ReservedTail(s) = n..(end[s] - 1)
    BY <1>1, <1>14, OwnTail, Zenon
  <2>2. n..(end[s] - 1) = {}
    BY <1>2
  <2>3. ReservedTail(s)' = (hand'[t].start + 1)..(end'[s] - 1)
    BY <1>7, <1>14, OwnTail, Zenon
  <2>. QED
    BY <1>7, <2>1, <2>2, <2>3, Zenon
<1>11. Carried(from, dest, M)
  <2>1. from \in Places /\ dest \in Places /\ from # dest
    BY <1>2, PlaceAreas, Zenon
  <2>2. /\ Areas[from] = PagesOf(h) /\ Areas[dest] = {}
        /\ Areas'[from] = {h.start} /\ Areas'[dest] = (h.start + 1)..(z - 1)
    BY <1>2, <1>9, <1>10, PlaceAreas, PlaceAreasNext, Zenon
  <2>3. PagesOf(h) \ M = {h.start}
    BY <1>2, <1>5
  <2>4. M = (h.start + 1)..(z - 1)
    BY <1>2, <1>5
  <2>. QED
    BY <2>1, <2>2, <2>3, <2>4, Zenon DEF Carried
<1>12. globalNext' = globalNext /\ n # 0 /\ {from, dest} = {Hands(t), Reservation(Home[t])}
  BY <1>1, <1>2, Zenon
<1>15. z <= globalNext
  <2>1. z - 1 \in PagesOf(h)
    BY <1>2, <1>5
  <2>2. /\ Hands(t) \in Places /\ Areas[Hands(t)] = PagesOf(h)
        /\ Areas[Hands(t)] \subseteq FirstPage..(globalNext - 1)
    BY <1>9, PlaceAreas, Zenon DEF IInv, Owned, Parted
  <2>3. FirstPage \in Nat /\ globalNext \in Nat
    BY PagesAssumption DEF IInv, Types
  <2>. QED
    BY <1>5, <2>1, <2>2, <2>3
<1>. HIDE DEF from, dest, M
<1>. QED
  BY <1>6, <1>8, <1>11, <1>12, <1>13, <1>15, GrowsCarries, Zenon

\* Storing the new next of the shard's range and releasing the refill lock
\* keeps the invariant.
LEMMA StoreNextStep ==
    ASSUME IInv, Locked, NEW t \in Threads, StoreNext(t)
    PROVE  IInv'
<1> DEFINE s == Home[t]
           a == hand[t].start
           h == Extent(a, 1)
           z == end[s]
           from == Hands(t)
           dest == Reservation(s)
<1>1. /\ pc[t] = "storeNext" /\ next' = [next EXCEPT ![s] = a + 1]
      /\ hand' = [hand EXCEPT ![t] = h] /\ pc' = [pc EXCEPT ![t] = "return"]
      /\ refillLock' = [refillLock EXCEPT ![s] = NoThread]
      /\ UNCHANGED <<globalNext, end, live, probe, reuseVars>>
  BY DEF StoreNext, Return, Goto, Hold
<1>2. s \in Shards /\ z \in Nat /\ a \in Nat /\ z <= globalNext
  BY <1>1, ShardsAssumption, Zenon DEF IInv, Types, RangeOk
<1>3. h \in [start : Nat, len : Nat] /\ h.len = 1 /\ PagesOf(h) = {a}
  BY <1>2, OnePage, Zenon
<1>4. end' = [end EXCEPT ![s] = z] /\ refillLock' = [r \in Shards |-> refillLock'[r]]
  BY <1>1, <1>2, Zenon DEF IInv, Types
<1>. HIDE DEF h
<1>5. Grows(t, "return", h, a + 1, z)
  <2>1. UNCHANGED <<live, probe, reuseVars>> /\ a + 1 \in Nat
    BY <1>1, <1>2
  <2>. QED
    BY <1>1, <1>2, <1>3, <1>4, <2>1, Zenon DEF Grows
<1>6. StepOf(t) /\ pc'[t] = "return" /\ hand'[t] = h /\ next'[s] = a + 1 /\ end'[s] = z
  BY <1>5, GrowsStep, SMTT(30), ZenonT(30)
<1>14. pc[t] \in Refilling /\ Sole(pc, t) /\ Sole(pc', t)
  <2>1. pc[t] \in Refilling
    BY <1>1 DEF Refilling
  <2>. QED
    BY <1>6, <2>1, RefillIsSole
<1>13. Alone(t)
  <2>1. \A u \in Threads : u # t => Held(u)' = Held(u)
    BY <1>6, HeldKept
  <2>2. ASSUME NEW u \in Threads, u # t, HandOk(u) PROVE HandOk(u)'
    <3>1. pc'[u] = pc[u] /\ hand'[u] = hand[u]
      BY <1>6, <2>2 DEF StepOf
    <3>2. CASE Home[u] = Home[t]
      <4>1. pc[u] \notin Refilling
        BY <1>14, <2>2, <3>2, OneRefill
      <4>. QED
        BY <2>2, <3>1, <4>1 DEF HandOk, Refilling
    <3>3. CASE Home[u] # Home[t]
      <4>1. next'[Home[u]] = next[Home[u]] /\ end'[Home[u]] = end[Home[u]]
        BY <1>6, <3>3, ShardsAssumption DEF StepOf
      <4>. QED
        BY <2>2, <3>1, <4>1 DEF HandOk
    <3>. QED
      BY <3>2, <3>3
  <2>. QED
    BY <2>1, <2>2 DEF Alone
<1>7. HandOk(t)'
  BY <1>3, <1>6 DEF HandOk
<1>8. Held(t) = {a} /\ Held(t)' = {a}
  BY <1>1, <1>3, <1>6, HeldCases, HeldCasesNext, Zenon
<1>9. ReservedTail(s) = (a + 1)..(z - 1) /\ ReservedTail(s)' = (a + 1)..(z - 1)
  <2>1. ReservedTail(s) = (a + 1)..(z - 1)
    BY <1>1, <1>14, OwnTail, Zenon
  <2>2. ReservedTail(s)' = next'[s]..(end'[s] - 1)
    BY <1>6, <1>14, OwnTail, Zenon
  <2>. QED
    BY <1>6, <2>1, <2>2
<1>10. Carried(from, dest, {})
  <2>1. from \in Places /\ dest \in Places /\ from # dest
    BY <1>2, PlaceAreas, Zenon
  <2>2. Areas'[from] = Areas[from] /\ Areas'[dest] = Areas[dest]
    BY <1>2, <1>8, <1>9, PlaceAreas, PlaceAreasNext, Zenon
  <2>. QED
    BY <2>1, <2>2 DEF Carried
<1>11. globalNext' = globalNext /\ a + 1 # 0 /\ {from, dest} = {Hands(t), Reservation(Home[t])}
  <2>1. a + 1 # 0
    BY <1>2
  <2>. QED
    BY <1>1, <2>1, Zenon
<1> DEFINE M == {}
<1>12. Carried(from, dest, M)
  BY <1>10
<1>. HIDE DEF from, dest, M
<1>. QED
  BY <1>2, <1>5, <1>7, <1>11, <1>12, <1>13, GrowsCarries, Zenon

\* A page in use is not in the freelist.
LEMMA LiveIsNotFree ==
    ASSUME IInv, NEW p \in live
    PROVE  p \in Nat /\ p \notin PagesIn(central)
<1>1. /\ Live \in Places /\ Central \in Places /\ Live # Central
      /\ Areas[Live] = live /\ Areas[Central] = PagesIn(central)
  BY PlaceAreas
<1>2. live \cap PagesIn(central) = {} /\ live \subseteq FirstPage..(globalNext - 1)
  BY <1>1 DEF IInv, Owned, Parted
<1>3. FirstPage..(globalNext - 1) \subseteq Nat
  BY PagesAssumption DEF IInv, Types
<1>. QED
  BY <1>2, <1>3

\* promote_reusable_extent moves one page from live to the freelist.
LEMMA PromoteStep ==
    ASSUME IInv, NEW p \in live, PromoteReusableExtent(p)
    PROVE  IInv'
<1> DEFINE d == CentralInsert(central, Extent(p, 1))
<1>1. /\ live' = live \ {p} /\ central' = d
      /\ UNCHANGED <<buckets, pc, probe, hand, globalNext, next, end, refillLock>>
  BY DEF PromoteReusableExtent, monotonicVars
<1>2. /\ Live \in Places /\ Central \in Places /\ Live # Central
      /\ Areas[Live] = live /\ Areas[Central] = PagesIn(central)
      /\ Areas'[Live] = live' /\ Areas'[Central] = PagesIn(central')
  BY PlaceAreas, PlaceAreasNext, Zenon
<1>3. p \in Nat /\ p \notin PagesIn(central)
  BY LiveIsNotFree
<1>4. (\A e \in d : IsExtent(e)) /\ Coalesced(d) /\ PagesIn(d) = PagesIn(central) \cup {p}
  BY <1>3, InsertKeeps DEF IInv, Freelist
<1>. HIDE DEF d
<1>5. Freelist'
  BY <1>1, <1>4 DEF Freelist
<1>6. \A o \in Places : o \notin {Live, Central} => Areas'[o] = Areas[o]
  <2>. SUFFICES ASSUME NEW o \in Places, o # Live, o # Central PROVE Areas'[o] = Areas[o]
    OBVIOUS
  <2>1. ASSUME NEW s \in Shards, NEW b \in Buckets, o = Bucket(s, b) PROVE Areas'[o] = Areas[o]
    BY <1>1, <2>1, PlaceAreas, PlaceAreasNext, Zenon
  <2>2. ASSUME NEW u \in Threads, o = Hands(u) PROVE Areas'[o] = Areas[o]
    <3>1. Held(u)' = Held(u)
      BY <1>1 DEF Held
    <3>. QED
      BY <2>2, <3>1, PlaceAreas, PlaceAreasNext, Zenon
  <2>3. ASSUME NEW s \in Shards, o = Reservation(s) PROVE Areas'[o] = Areas[o]
    <3>1. ReservedTail(s)' = ReservedTail(s)
      BY <1>1 DEF ReservedTail
    <3>. QED
      BY <2>3, <3>1, PlaceAreas, PlaceAreasNext, Zenon
  <2>. QED
    BY <2>1, <2>2, <2>3, PlaceKinds
<1>7. Owned'
  <2> DEFINE M == {p}
             from == Live
             dest == Central
  <2>1. /\ from \in Places /\ dest \in Places /\ from # dest /\ M \subseteq Areas[from]
        /\ Areas'[from] = Areas[from] \ M /\ Areas'[dest] = Areas[dest] \cup M
    BY <1>1, <1>2, <1>4
  <2>2. \A o \in Places : o \notin {from, dest} => Areas'[o] = Areas[o]
    BY <1>6
  <2>3. Owned /\ globalNext' = globalNext
    BY <1>1 DEF IInv
  <2>. HIDE DEF M, from, dest
  <2>. QED
    BY <2>1, <2>2, <2>3, Moves
<1>8. Types' /\ Queues'
  BY <1>1, Zenon DEF IInv, Types, Queues
<1>9. \A u \in Threads : HandOk(u)'
  BY <1>1, Zenon DEF IInv, HandOk
<1>10. \A s \in Shards : RangeOk(s)'
  BY <1>1 DEF IInv, RangeOk
<1>. QED
  BY <1>5, <1>7, <1>8, <1>9, <1>10 DEF IInv

-----------------------------------------------------------------------------
(* The invariant *)

\* A new allocator satisfies the invariant.
LEMMA InitStep == Init => IInv
<1>. SUFFICES ASSUME Init PROVE IInv
  OBVIOUS
<1>1. /\ FirstPage \in Nat /\ FirstProbe \in [offset : Nat, bucket : Buckets]
      /\ NoExtent \in [start : Nat, len : Nat]
  BY PagesAssumption, BucketsAssumption DEF FirstProbe, Buckets, NoExtent, Extent
<1>2. Types
  BY <1>1 DEF Init, Types
<1>3. Queues
  <2>1. \A b \in Buckets : QueueOk(<<>>, b)
    BY DEF QueueOk
  <2>. QED
    BY <2>1 DEF Init, Queues
<1>4. Freelist
  <2>1. PagesIn({}) = {}
    BY DEF PagesIn
  <2>. QED
    BY <2>1 DEF Init, Freelist, Coalesced
<1>5. \A o \in Places : Areas[o] = {}
  <2>. SUFFICES ASSUME NEW o \in Places PROVE Areas[o] = {}
    OBVIOUS
  <2>1. CASE o = Live
    BY <2>1, PlaceAreas, Zenon DEF Init
  <2>2. CASE o = Central
    <3>1. PagesIn(central) = {}
      BY DEF Init, PagesIn
    <3>. QED
      BY <2>2, <3>1, PlaceAreas
  <2>3. ASSUME NEW s \in Shards, NEW b \in Buckets, o = Bucket(s, b) PROVE Areas[o] = {}
    <3>1. QueuePages(buckets[s][b]) = {}
      BY DEF Init, QueuePages
    <3>. QED
      BY <2>3, <3>1, PlaceAreas, Zenon
  <2>4. ASSUME NEW t \in Threads, o = Hands(t) PROVE Areas[o] = {}
    <3>1. Held(t) = {}
      BY HeldCases DEF Init
    <3>. QED
      BY <2>4, <3>1, PlaceAreas
  <2>5. ASSUME NEW s \in Shards, o = Reservation(s) PROVE Areas[o] = {}
    <3>1. Installing(pc, s) = {}
      BY DEF Init, Installing
    <3>2. ReservedTail(s) = 0..(0 - 1)
      BY <3>1, TailIs, Zenon DEF Init, TailFrom
    <3>3. ReservedTail(s) = {}
      BY <3>2
    <3>. QED
      BY <2>5, <3>3, PlaceAreas
  <2>. QED
    BY <2>1, <2>2, <2>3, <2>4, <2>5, PlaceKinds
<1>6. Owned
  <2>1. FirstPage..(globalNext - 1) = {}
    BY <1>1 DEF Init
  <2>. QED
    BY <1>5, <2>1 DEF Owned, Parted
<1>7. \A t \in Threads : HandOk(t)
  BY DEF Init, HandOk
<1>8. \A s \in Shards : RangeOk(s)
  BY <1>1 DEF Init, RangeOk
<1>. QED
  BY <1>2, <1>3, <1>4, <1>6, <1>7, <1>8 DEF IInv

\* Every step of every thread keeps the refill lock with the thread inside the
\* refill.
LEMMA LockKept ==
    ASSUME Locked, [Next]_vars
    PROVE  Locked'
<1>0. \A t \in Threads : Home[t] \in Shards
  BY ShardsAssumption
<1>1. ASSUME NEW t \in Threads, NEW to, pc' = [pc EXCEPT ![t] = to], to \notin Refilling,
             refillLock' = refillLock
      PROVE  Locked'
  BY <1>1 DEF Locked
<1>2. ASSUME NEW t \in Threads, NEW to, pc' = [pc EXCEPT ![t] = to],
             pc[t] \in Refilling, refillLock' = refillLock
      PROVE  Locked'
  BY <1>2 DEF Locked
<1>3. ASSUME NEW t \in Threads, NEW to, pc' = [pc EXCEPT ![t] = to], to \notin Refilling,
             pc[t] \in Refilling, refillLock' = [refillLock EXCEPT ![Home[t]] = NoThread]
      PROVE  Locked'
  BY <1>0, <1>3 DEF Locked
<1>4. ASSUME NEW t \in Threads, LockRefill(t) PROVE Locked'
  BY <1>0, <1>4, NoThreadAssumption DEF LockRefill, Goto, Locked
<1>5. ASSUME NEW t \in Threads, CheckEnd(t) PROVE Locked'
  <2>1. CASE pc[t] = "check" /\ refillLock' = refillLock
    <3>1. \E to \in {"return", "lock"} : pc' = [pc EXCEPT ![t] = to]
      BY <1>5, <2>1 DEF CheckEnd, Return, Goto
    <3>. QED
      BY <1>1, <2>1, <3>1 DEF Refilling
  <2>2. CASE pc[t] = "recheck" /\ refillLock' = refillLock
    <3>1. \E to : pc' = [pc EXCEPT ![t] = to]
      BY <1>5 DEF CheckEnd, Return, Goto
    <3>. QED
      BY <1>2, <2>2, <3>1 DEF Refilling
  <2>3. CASE pc[t] = "recheck" /\ refillLock' = [refillLock EXCEPT ![Home[t]] = NoThread]
             /\ pc' = [pc EXCEPT ![t] = "return"]
    BY <1>3, <2>3 DEF Refilling
  <2>4. pc[t] = "check" => refillLock' = refillLock
    BY <1>0, <1>5 DEF CheckEnd, Locked
  <2>. QED
    BY <1>5, <2>1, <2>2, <2>3, <2>4 DEF CheckEnd, Return, Goto
<1>6. ASSUME NEW t \in Threads, FetchNext(t) PROVE Locked'
  <2>1. CASE pc[t] = "try"
    <3>1. \E to \in {"check", "lock"} : pc' = [pc EXCEPT ![t] = to]
      BY <1>6, <2>1 DEF FetchNext, Goto
    <3>. QED
      BY <1>1, <1>6, <3>1 DEF Refilling, FetchNext
  <2>2. CASE pc[t] = "retry"
    BY <1>2, <1>6, <2>2 DEF Refilling, FetchNext, Goto
  <2>. QED
    BY <1>6, <2>1, <2>2 DEF FetchNext
<1>7. ASSUME NEW t \in Threads, Reserve(t) \/ StoreEnd(t) PROVE Locked'
  BY <1>2, <1>7 DEF Reserve, StoreEnd, Goto, Refilling
<1>8. ASSUME NEW t \in Threads, StoreNext(t) PROVE Locked'
  BY <1>3, <1>8 DEF StoreNext, Return, Goto, Refilling
<1>9. ASSUME NEW t \in Threads, PopMisses(t) PROVE Locked'
  <2>1. CASE pc' = pc
    BY <1>9, <2>1 DEF PopMisses, monotonicVars, Locked
  <2>2. CASE pc' # pc
    <3>1. \E to \in {"refillBatch", "steal", "bestFit"} : pc' = [pc EXCEPT ![t] = to]
      BY <1>9, <2>2, Zenon DEF PopMisses, Goto
    <3>. QED
      BY <1>1, <1>9, <3>1 DEF PopMisses, monotonicVars, Refilling
  <2>. QED
    BY <2>1, <2>2
<1>10. ASSUME NEW t \in Threads,
              \/ AllocatePage(t) \/ Pop(t) \/ ReturnRemainder(t) \/ RefillShard(t)
              \/ RefillPush(t) \/ AllocateBestFit(t) \/ Deliver(t)
       PROVE  Locked'
  <2>1. /\ refillLock' = refillLock
        /\ \E to \in {"popOwn", "return", "remainder", "refillPush", "refillOne", "popAgain",
                      "try", "idle"} : pc' = [pc EXCEPT ![t] = to]
    BY <1>10, Zenon DEF AllocatePage, Pop, ReturnRemainder, RefillShard, RefillPush,
       AllocateBestFit, Deliver, Return, Goto, monotonicVars
  <2>. QED
    BY <1>1, <2>1 DEF Refilling
<1>11. ASSUME UNCHANGED <<pc, refillLock>> PROVE Locked'
  BY <1>11 DEF Locked
<1>. QED
  BY <1>4, <1>5, <1>6, <1>7, <1>8, <1>9, <1>10, <1>11, Zenon
     DEF Next, Allocate, PromoteReusableExtent, Exhausted, monotonicVars, vars

\* crossed is never reset.
LEMMA CrossedStays ==
    ASSUME crossed, [Next]_vars
    PROVE  crossed'
BY Zenon DEF Next, Allocate, AllocatePage, Pop, PopMisses, ReturnRemainder, RefillShard, RefillPush,
   AllocateBestFit, FetchNext, CheckEnd, LockRefill, Reserve, StoreEnd, StoreNext, Deliver,
   PromoteReusableExtent, Exhausted, monotonicVars, vars

\* Every step of every thread keeps the invariant, unless two threads cross.
LEMMA NextStep ==
    ASSUME LeastNumber, IInv, Locked, [Next]_vars, ~crossed'
    PROVE  IInv'
<1>1. ASSUME NEW t \in Threads, Allocate(t) PROVE IInv'
  BY <1>1, AllocatePageStep, PopStep, PopMissesStep, ReturnRemainderStep, RefillShardStep,
     RefillPushStep, AllocateBestFitStep, FetchNextStep, CheckEndStep, LockRefillStep,
     ReserveStep, StoreEndStep, StoreNextStep, DeliverStep, Zenon DEF Allocate
<1>2. ASSUME NEW p \in live, PromoteReusableExtent(p) PROVE IInv'
  BY <1>2, PromoteStep
<1>3. CASE UNCHANGED vars
  <2>1. Types' /\ Queues' /\ Freelist'
    BY <1>3, Zenon DEF IInv, Types, Queues, Freelist, vars
  <2>2. Areas' = Areas
    BY <1>3 DEF vars, Areas, Area, Held, ReservedTail
  <2>3. Owned'
    BY <1>3, <2>2 DEF IInv, Owned, vars
  <2>4. (\A t \in Threads : HandOk(t)') /\ \A s \in Shards : RangeOk(s)'
    BY <1>3, Zenon DEF IInv, HandOk, RangeOk, vars
  <2>. QED
    BY <2>1, <2>3, <2>4 DEF IInv
<1>. QED
  BY <1>1, <1>2, <1>3 DEF Next, Exhausted

-----------------------------------------------------------------------------
(* What the invariant says of one page *)

\* Different places have no page in common.
LEMMA Apart ==
    ASSUME IInv, NEW o1 \in Places, NEW o2 \in Places, NEW p, p \in Areas[o1], p \in Areas[o2]
    PROVE  o1 = o2
BY DEF IInv, Owned, Parted

\* A page in two extents of the freelist is in one.
LEMMA CentralOnce ==
    ASSUME IInv, NEW p, NEW x \in central, NEW y \in central, p \in PagesOf(x), p \in PagesOf(y)
    PROVE  x = y
<1>1. IsExtent(x) /\ IsExtent(y) /\ (x # y => EndOf(x) < y.start \/ EndOf(y) < x.start)
  BY DEF IInv, Freelist, Coalesced
<1>2. /\ x.start \in Nat /\ x.len \in Nat /\ EndOf(x) = x.start + x.len
      /\ p \in Nat /\ x.start <= p /\ p < x.start + x.len
  BY <1>1, ExtentPages
<1>3. /\ y.start \in Nat /\ y.len \in Nat /\ EndOf(y) = y.start + y.len
      /\ y.start <= p /\ p < y.start + y.len
  BY <1>1, ExtentPages
<1>. QED
  BY <1>1, <1>2, <1>3

\* The entries of the hot buckets that hold a page.
QueueEntries(p) == {x \in Queued : p \in PagesOf(buckets[x[1]][x[2]][x[3]])}

\* An entry is a place and a position in it.
LEMMA EntryPlace ==
    ASSUME NEW p, NEW x \in QueueEntries(p)
    PROVE  \E s \in Shards, b \in Buckets : \E i \in DOMAIN buckets[s][b] :
              x = <<s, b, i>> /\ p \in PagesOf(buckets[s][b][i]) /\ p \in Areas[Bucket(s, b)]
<1>1. x \in Queued /\ p \in PagesOf(buckets[x[1]][x[2]][x[3]])
  BY Zenon DEF QueueEntries
<1>2. PICK s \in Shards, b \in Buckets : x \in {<<s, b, i>> : i \in DOMAIN buckets[s][b]}
  BY <1>1 DEF Queued
<1>3. PICK i \in DOMAIN buckets[s][b] : x = <<s, b, i>>
  BY <1>2
<1>4. p \in PagesOf(buckets[s][b][i])
  BY <1>1, <1>3
<1>5. p \in Areas[Bucket(s, b)]
  BY <1>4, PlaceAreas DEF QueuePages
<1>. QED
  BY <1>3, <1>4, <1>5

\* Each kind of place, for one page.
LEMMA OneKind ==
    ASSUME IInv, NEW p \in Nat
    PROVE  LET a == p \in live
               c == p \in PagesIn(central)
               q == \E s \in Shards, b \in Buckets : p \in Areas[Bucket(s, b)]
               h == \E t \in Threads : p \in Areas[Hands(t)]
               r == \E s \in Shards : p \in Areas[Reservation(s)]
           IN  /\ ~(a /\ c) /\ ~(a /\ q) /\ ~(a /\ h) /\ ~(a /\ r) /\ ~(c /\ q) /\ ~(c /\ h)
               /\ ~(c /\ r) /\ ~(q /\ h) /\ ~(q /\ r) /\ ~(h /\ r)
               /\ (a \/ c \/ q \/ h \/ r <=> p \in FirstPage..(globalNext - 1))
<1>1. /\ Areas[Live] = live /\ Areas[Central] = PagesIn(central)
      /\ Live \in Places /\ Central \in Places
      /\ \A s \in Shards, b \in Buckets : Bucket(s, b) \in Places
      /\ \A t \in Threads : Hands(t) \in Places
      /\ \A s \in Shards : Reservation(s) \in Places
  BY PlaceAreas
<1>2. /\ Live # Central
      /\ \A s \in Shards, b \in Buckets : Bucket(s, b) # Live /\ Bucket(s, b) # Central
      /\ \A t \in Threads : Hands(t) # Live /\ Hands(t) # Central
      /\ \A s \in Shards : Reservation(s) # Live /\ Reservation(s) # Central
      /\ \A s \in Shards, b \in Buckets : \A t \in Threads : Bucket(s, b) # Hands(t)
      /\ \A s, k \in Shards, b \in Buckets : Bucket(s, b) # Reservation(k)
      /\ \A t \in Threads, s \in Shards : Hands(t) # Reservation(s)
  BY DEF Live, Central, Bucket, Hands, Reservation
<1>3. \A o1, o2 \in Places : p \in Areas[o1] /\ p \in Areas[o2] => o1 = o2
  BY Apart
<1>4. \A o \in Places : p \in Areas[o] => p \in FirstPage..(globalNext - 1)
  BY DEF IInv, Owned, Parted
<1>5. p \in FirstPage..(globalNext - 1) => \E o \in Places : p \in Areas[o]
  BY DEF IInv, Owned, Parted
<1>. HIDE DEF Areas, Places, Live, Central, Bucket, Hands, Reservation
<1>6. /\ ~(p \in live /\ p \in PagesIn(central))
      /\ ~(p \in live /\ \E s \in Shards, b \in Buckets : p \in Areas[Bucket(s, b)])
      /\ ~(p \in live /\ \E t \in Threads : p \in Areas[Hands(t)])
      /\ ~(p \in live /\ \E s \in Shards : p \in Areas[Reservation(s)])
  BY <1>1, <1>2, <1>3, Zenon
<1>7. /\ ~(p \in PagesIn(central) /\ \E s \in Shards, b \in Buckets : p \in Areas[Bucket(s, b)])
      /\ ~(p \in PagesIn(central) /\ \E t \in Threads : p \in Areas[Hands(t)])
      /\ ~(p \in PagesIn(central) /\ \E s \in Shards : p \in Areas[Reservation(s)])
  BY <1>1, <1>2, <1>3, Zenon
<1>8. ~(/\ \E s \in Shards, b \in Buckets : p \in Areas[Bucket(s, b)]
        /\ \E t \in Threads : p \in Areas[Hands(t)])
  BY <1>1, <1>2, <1>3
<1>9. ~(/\ \E s \in Shards, b \in Buckets : p \in Areas[Bucket(s, b)]
        /\ \E s \in Shards : p \in Areas[Reservation(s)])
  BY <1>1, <1>2, <1>3
<1>10. ~(/\ \E t \in Threads : p \in Areas[Hands(t)]
         /\ \E s \in Shards : p \in Areas[Reservation(s)])
  BY <1>1, <1>2, <1>3
<1>11. \/ p \in live \/ p \in PagesIn(central)
       \/ \E s \in Shards, b \in Buckets : p \in Areas[Bucket(s, b)]
       \/ \E t \in Threads : p \in Areas[Hands(t)]
       \/ \E s \in Shards : p \in Areas[Reservation(s)]
       <=> p \in FirstPage..(globalNext - 1)
  <2>1. ASSUME p \in FirstPage..(globalNext - 1)
        PROVE  \/ p \in live \/ p \in PagesIn(central)
               \/ \E s \in Shards, b \in Buckets : p \in Areas[Bucket(s, b)]
               \/ \E t \in Threads : p \in Areas[Hands(t)]
               \/ \E s \in Shards : p \in Areas[Reservation(s)]
    <3>1. PICK o \in Places : p \in Areas[o]
      BY <1>5, <2>1
    <3>2. \/ o = Live \/ o = Central
          \/ \E s \in Shards, b \in Buckets : o = Bucket(s, b)
          \/ \E t \in Threads : o = Hands(t)
          \/ \E s \in Shards : o = Reservation(s)
      BY PlaceKinds
    <3>. QED
      BY <1>1, <3>1, <3>2
  <2>. QED
    BY <1>1, <1>4, <2>1
<1>. QED
  BY <1>6, <1>7, <1>8, <1>9, <1>10, <1>11, Zenon

\* A page about to be returned is nobody else's.
LEMMA ReturnedOnce ==
    ASSUME IInv
    PROVE  PageIdsUnique
<1>1. ASSUME NEW t \in Threads, pc[t] = "return" PROVE hand[t].start \in Areas[Hands(t)]
  <2>1. hand[t] \in [start : Nat, len : Nat] /\ hand[t].len = 1
    BY <1>1 DEF IInv, Types, HandOk
  <2>2. IsExtent(hand[t])
    BY <2>1 DEF IsExtent
  <2>3. hand[t].start \in PagesOf(hand[t])
    BY <2>1, <2>2, ExtentPages
  <2>. QED
    BY <1>1, <2>3, HeldCases, PlaceAreas, Zenon
<1>2. \A t \in Threads : pc[t] = "return" => hand[t].start \notin live
  BY <1>1, PlaceAreas, Apart, Zenon
<1>3. ASSUME NEW t \in Threads, NEW u \in Threads, t # u, pc[t] = "return", pc[u] = "return"
      PROVE  hand[u].start # hand[t].start
  <2>1. Hands(t) # Hands(u)
    BY <1>3 DEF Hands
  <2>. QED
    BY <1>1, <1>3, <2>1, PlaceAreas, Apart, Zenon
<1>. QED
  BY <1>2, <1>3 DEF PageIdsUnique

-----------------------------------------------------------------------------
(* The count of the freelist *)

INSTANCE FiniteSetTheorems
INSTANCE WellFoundedInduction

\* The least-number principle that FreePageAllocatorSteps assumes.
LEMMA LeastNumberHolds == LeastNumber
<1>. SUFFICES ASSUME NEW T \in SUBSET Nat, T # {} PROVE \E x \in T : \A y \in T : x <= y
  BY DEF LeastNumber
<1> DEFINE R == OpToRel(<, Nat)
<1>1. IsWellFoundedOn(R, Nat)
  BY NatLessThanWellFounded, Zenon
<1>2. \A x, y \in Nat : y < x => <<y, x>> \in R
  BY DEF OpToRel
<1>. HIDE DEF R
<1>3. PICK x \in T : \A y \in T : ~ (<<y, x>> \in R)
  BY <1>1, WFMin, Zenon
<1>4. ASSUME NEW y \in T PROVE x <= y
  <2>1. x \in Nat /\ y \in Nat
    OBVIOUS
  <2>2. ~(y < x)
    BY <1>2, <1>3, <2>1, Zenon
  <2>. QED
    BY <2>1, <2>2
<1>. QED
  BY <1>4

\* free_base_pages is the number of pages of the freelist.
Counted == freeBasePages = Cardinality(PagesIn(central))

\* How many pages an extent has.
LEMMA ExtentSize ==
    ASSUME NEW e, IsExtent(e)
    PROVE  IsFiniteSet(PagesOf(e)) /\ Cardinality(PagesOf(e)) = e.len
<1>1. e.start \in Int /\ e.len \in Nat /\ e.len >= 1 /\ EndOf(e) = e.start + e.len
  BY ExtentPages
<1>2. PagesOf(e) = e.start..(e.start + e.len - 1) /\ e.start + e.len - 1 \in Int
  BY <1>1 DEF PagesOf
<1>3. IsFiniteSet(PagesOf(e))
  BY <1>1, <1>2, FS_Interval, Zenon
<1>4. Cardinality(PagesOf(e)) = (e.start + e.len - 1) - e.start + 1
  <2> DEFINE a == e.start
             z == e.start + e.len - 1
  <2>1. a \in Int /\ z \in Int /\ ~(a > z) /\ PagesOf(e) = a..z
    BY <1>1, <1>2
  <2>. HIDE DEF a, z
  <2>2. Cardinality(a..z) = IF a > z THEN 0 ELSE z - a + 1
    BY <2>1, FS_Interval
  <2>3. Cardinality(PagesOf(e)) = z - a + 1
    BY <2>1, <2>2
  <2>. QED
    BY <2>3 DEF a, z
<1>. QED
  BY <1>1, <1>3, <1>4

\* The freelist is a finite set of pages.
LEMMA FreelistFinite ==
    ASSUME Types, Owned
    PROVE  IsFiniteSet(PagesIn(central)) /\ PagesIn(central) \subseteq FirstPage..(globalNext - 1)
<1>1. PagesIn(central) \subseteq FirstPage..(globalNext - 1)
  BY PlaceAreas DEF Owned, Parted
<1>2. FirstPage \in Int /\ globalNext - 1 \in Int
  BY PagesAssumption DEF Types
<1>3. IsFiniteSet(FirstPage..(globalNext - 1))
  BY <1>2, FS_Interval
<1>. QED
  BY <1>1, <1>3, FS_Subset, Zenon

\* allocate_best_fit subtracts what it takes.
LEMMA CountTaken ==
    ASSUME LeastNumber, IInv, Counted, NEW n, Takes(n), freeBasePages' = freeBasePages - n
    PROVE  Counted'
<1> DEFINE e == Extent(BestFit(central, n).start, n)
<1>1. /\ IsExtent(e) /\ e.len = n /\ PagesOf(e) \subseteq PagesIn(central)
      /\ PagesIn(central') = PagesIn(central) \ PagesOf(e)
  BY FreelistTake, Zenon DEF IInv, Takes
<1>. HIDE DEF e
<1>2. IsFiniteSet(PagesOf(e)) /\ Cardinality(PagesOf(e)) = n
  BY <1>1, ExtentSize
<1>3. Cardinality(PagesIn(central) \ PagesOf(e))
        = Cardinality(PagesIn(central)) - Cardinality(PagesIn(central) \cap PagesOf(e))
  BY FreelistFinite, FS_Difference, Zenon DEF IInv
<1>4. PagesIn(central) \cap PagesOf(e) = PagesOf(e)
  BY <1>1
<1>. QED
  BY <1>1, <1>2, <1>3, <1>4 DEF Counted

\* insert adds the one page it is given.
LEMMA CountMerged ==
    ASSUME IInv, Counted, NEW p \in live, PromoteReusableExtent(p)
    PROVE  Counted'
<1>1. p \in Nat /\ p \notin PagesIn(central)
  BY LiveIsNotFree
<1>2. PagesIn(central') = PagesIn(central) \cup {p}
  BY <1>1, InsertKeeps DEF IInv, Freelist, PromoteReusableExtent
<1>3. IsFiniteSet(PagesIn(central))
  BY FreelistFinite DEF IInv
<1>4. Cardinality(PagesIn(central) \cup {p}) = Cardinality(PagesIn(central)) + 1
  BY <1>1, <1>3, FS_AddElement
<1>5. freeBasePages' = freeBasePages + 1
  BY DEF PromoteReusableExtent
<1>. QED
  BY <1>2, <1>4, <1>5 DEF Counted

\* No other step changes the freelist or its count.
LEMMA CountKept ==
    ASSUME LeastNumber, IInv, Counted, [Next]_vars
    PROVE  Counted'
<1>1. ASSUME NEW t \in Threads, RefillShard(t) PROVE Counted'
  <2> DEFINE n == RefillLen(pc[t])
  <2>1. n \in Nat \ {0} /\ n <= LongestHot
    BY LongestHotType, BucketsAssumption DEF RefillLen
  <2>2. CASE Fits(central, n) # {}
    <3>1. Takes(n) /\ freeBasePages' = freeBasePages - n
      BY <1>1, <2>1, <2>2, Zenon DEF RefillShard, Takes
    <3>. QED
      BY <3>1, CountTaken
  <2>3. CASE Fits(central, n) = {}
    BY <1>1, <2>3 DEF RefillShard, Counted
  <2>. QED
    BY <2>2, <2>3
<1>2. ASSUME NEW t \in Threads, AllocateBestFit(t) PROVE Counted'
  <2>1. CASE Fits(central, 1) # {}
    <3>1. Takes(1) /\ freeBasePages' = freeBasePages - 1
      BY <1>2, <2>1 DEF AllocateBestFit, Takes
    <3>. QED
      BY <3>1, CountTaken
  <2>2. CASE Fits(central, 1) = {}
    BY <1>2, <2>2 DEF AllocateBestFit, Counted
  <2>. QED
    BY <2>1, <2>2
<1>3. ASSUME NEW t \in Threads, Allocate(t), ~RefillShard(t), ~AllocateBestFit(t)
      PROVE  UNCHANGED <<central, freeBasePages>>
  BY <1>3, Zenon DEF Allocate, AllocatePage, Pop, PopMisses, ReturnRemainder, RefillPush, FetchNext,
     CheckEnd, LockRefill, Reserve, StoreEnd, StoreNext, Deliver, Push, reuseVars
<1>4. ASSUME NEW p \in live, PromoteReusableExtent(p) PROVE Counted'
  BY <1>4, CountMerged
<1>5. ASSUME UNCHANGED <<central, freeBasePages>> PROVE Counted'
  BY <1>5 DEF Counted
<1>6. UNCHANGED vars => UNCHANGED <<central, freeBasePages>>
  BY DEF vars
<1>. QED
  BY <1>1, <1>2, <1>3, <1>4, <1>5, <1>6 DEF Next, Exhausted

\* The refill lock excludes threads from one shard's refill, and until two
\* threads cross every step keeps the areas parted, the freelist coalesced and
\* counted, and the queues in shape.
THEOREM AllocatorInvariant == Spec => [](Locked /\ (~crossed => IInv /\ Counted))
<1>0. Init => Locked
  BY DEF Init, Locked, Refilling
<1>1. Init => IInv /\ Counted
  <2>1. Init => PagesIn(central) = {} /\ freeBasePages = 0
    BY DEF Init, PagesIn
  <2>. QED
    BY <2>1, InitStep, FS_EmptySet DEF Counted
<1>2. /\ Locked /\ (~crossed => IInv /\ Counted) /\ [Next]_vars
      => (Locked /\ (~crossed => IInv /\ Counted))'
  BY LockKept, CrossedStays, NextStep, CountKept, LeastNumberHolds
<1>. QED
  BY <1>0, <1>1, <1>2, PTL DEF Spec

-----------------------------------------------------------------------------
(* The properties *)

\* A set without two different members has none or one.
LEMMA OneOrNone ==
    ASSUME NEW S, \A x, y \in S : x = y
    PROVE  Cardinality(S) = IF S = {} THEN 0 ELSE 1
<1>1. CASE S = {}
  BY <1>1, FS_EmptySet
<1>2. CASE S # {}
  <2>1. PICK x : S = {x}
    BY <1>2
  <2>. QED
    BY <1>2, <2>1, FS_Singleton
<1>. QED
  BY <1>1, <1>2

\* The five terms of OwnersOf are none or one.
LEMMA OwnerTerms ==
    ASSUME IInv, NEW p \in Nat \ {0}
    PROVE  /\ Cardinality({q \in live : q = p}) = IF p \in live THEN 1 ELSE 0
           /\ Cardinality({e \in central : p \in PagesOf(e)})
                = IF p \in PagesIn(central) THEN 1 ELSE 0
           /\ Cardinality(QueueEntries(p))
                = IF \E s \in Shards, b \in Buckets : p \in Areas[Bucket(s, b)] THEN 1 ELSE 0
           /\ Cardinality({t \in Threads : p \in Held(t)})
                = IF \E t \in Threads : p \in Areas[Hands(t)] THEN 1 ELSE 0
           /\ Cardinality({s \in Shards : p \in ReservedTail(s) /\ p > 0})
                = IF \E s \in Shards : p \in Areas[Reservation(s)] THEN 1 ELSE 0
<1>1. Cardinality({q \in live : q = p}) = IF p \in live THEN 1 ELSE 0
  <2> DEFINE S == {q \in live : q = p}
  <2>1. (\A x, y \in S : x = y) /\ (S = {} <=> p \notin live)
    OBVIOUS
  <2>. HIDE DEF S
  <2>2. Cardinality(S) = IF S = {} THEN 0 ELSE 1
    BY <2>1, OneOrNone
  <2>3. Cardinality(S) = IF p \in live THEN 1 ELSE 0
    BY <2>1, <2>2
  <2>. QED
    BY <2>3 DEF S
<1>2. Cardinality({e \in central : p \in PagesOf(e)}) = IF p \in PagesIn(central) THEN 1 ELSE 0
  <2> DEFINE S == {e \in central : p \in PagesOf(e)}
  <2>1. \A x, y \in S : x = y
    BY CentralOnce
  <2>2. S = {} <=> p \notin PagesIn(central)
    BY DEF PagesIn
  <2>. HIDE DEF S
  <2>3. Cardinality(S) = IF S = {} THEN 0 ELSE 1
    BY <2>1, OneOrNone
  <2>4. Cardinality(S) = IF p \in PagesIn(central) THEN 1 ELSE 0
    BY <2>2, <2>3
  <2>. QED
    BY <2>4 DEF S
<1>3. Cardinality(QueueEntries(p))
        = IF \E s \in Shards, b \in Buckets : p \in Areas[Bucket(s, b)] THEN 1 ELSE 0
  <2> DEFINE S == QueueEntries(p)
  <2>1. ASSUME NEW x \in S, NEW y \in S PROVE x = y
    <3>1. PICK s \in Shards, b \in Buckets : \E i \in DOMAIN buckets[s][b] :
             x = <<s, b, i>> /\ p \in PagesOf(buckets[s][b][i]) /\ p \in Areas[Bucket(s, b)]
      BY EntryPlace
    <3>2. PICK i \in DOMAIN buckets[s][b] :
             x = <<s, b, i>> /\ p \in PagesOf(buckets[s][b][i]) /\ p \in Areas[Bucket(s, b)]
      BY <3>1
    <3>3. PICK r \in Shards, a \in Buckets : \E j \in DOMAIN buckets[r][a] :
             y = <<r, a, j>> /\ p \in PagesOf(buckets[r][a][j]) /\ p \in Areas[Bucket(r, a)]
      BY EntryPlace
    <3>4. PICK j \in DOMAIN buckets[r][a] :
             y = <<r, a, j>> /\ p \in PagesOf(buckets[r][a][j]) /\ p \in Areas[Bucket(r, a)]
      BY <3>3
    <3>5. Bucket(s, b) = Bucket(r, a)
      BY <3>2, <3>4, PlaceAreas, Apart, Zenon
    <3>6. s = r /\ b = a
      BY <3>5 DEF Bucket
    <3>7. \A k, l \in DOMAIN buckets[s][b] :
             k # l => PagesOf(buckets[s][b][k]) \cap PagesOf(buckets[s][b][l]) = {}
      BY Zenon DEF IInv, Queues, QueueOk
    <3>8. i = j
      BY <3>2, <3>4, <3>6, <3>7, Zenon
    <3>. QED
      BY <3>2, <3>4, <3>6, <3>8
  <2>2. ASSUME NEW s \in Shards, NEW b \in Buckets, p \in Areas[Bucket(s, b)] PROVE S # {}
    <3>1. p \in QueuePages(buckets[s][b])
      BY <2>2, PlaceAreas
    <3>2. PICK i \in DOMAIN buckets[s][b] : p \in PagesOf(buckets[s][b][i])
      BY <3>1 DEF QueuePages
    <3>3. <<s, b, i>> \in Queued
      <4> DEFINE R == {<<s, b, j>> : j \in DOMAIN buckets[s][b]}
                 W == {{<<r, a, j>> : j \in DOMAIN buckets[r][a]} : r \in Shards, a \in Buckets}
      <4>1. <<s, b, i>> \in R
        OBVIOUS
      <4>2. R \in W
        OBVIOUS
      <4>3. Queued = UNION W
        BY DEF Queued
      <4>. HIDE DEF R, W
      <4>. QED
        BY <4>1, <4>2, <4>3
    <3>. QED
      BY <3>2, <3>3 DEF QueueEntries
  <2>3. S # {} => \E s \in Shards, b \in Buckets : p \in Areas[Bucket(s, b)]
    BY EntryPlace
  <2>. HIDE DEF S
  <2>4. Cardinality(S) = IF S = {} THEN 0 ELSE 1
    BY <2>1, OneOrNone
  <2>5. Cardinality(S) = IF \E s \in Shards, b \in Buckets : p \in Areas[Bucket(s, b)] THEN 1 ELSE 0
    BY <2>2, <2>3, <2>4
  <2>. QED
    BY <2>5 DEF S
<1>4. Cardinality({t \in Threads : p \in Held(t)})
        = IF \E t \in Threads : p \in Areas[Hands(t)] THEN 1 ELSE 0
  <2> DEFINE S == {t \in Threads : p \in Held(t)}
  <2>1. \A t \in Threads : t \in S <=> p \in Areas[Hands(t)]
    BY PlaceAreas
  <2>2. ASSUME NEW x \in S, NEW y \in S PROVE x = y
    <3>1. Hands(x) = Hands(y)
      BY <2>1, PlaceAreas, Apart, Zenon
    <3>. QED
      BY <3>1 DEF Hands
  <2>3. S \subseteq Threads
    OBVIOUS
  <2>. HIDE DEF S
  <2>4. Cardinality(S) = IF S = {} THEN 0 ELSE 1
    BY <2>2, OneOrNone
  <2>5. Cardinality(S) = IF \E t \in Threads : p \in Areas[Hands(t)] THEN 1 ELSE 0
    BY <2>1, <2>3, <2>4
  <2>. QED
    BY <2>5 DEF S
<1>5. Cardinality({s \in Shards : p \in ReservedTail(s) /\ p > 0})
        = IF \E s \in Shards : p \in Areas[Reservation(s)] THEN 1 ELSE 0
  <2> DEFINE S == {s \in Shards : p \in ReservedTail(s) /\ p > 0}
  <2>1. \A s \in Shards : s \in S <=> p \in Areas[Reservation(s)]
    BY PlaceAreas
  <2>2. ASSUME NEW x \in S, NEW y \in S PROVE x = y
    <3>1. Reservation(x) = Reservation(y)
      BY <2>1, PlaceAreas, Apart, Zenon
    <3>. QED
      BY <3>1 DEF Reservation
  <2>3. S \subseteq Shards
    OBVIOUS
  <2>. HIDE DEF S
  <2>4. Cardinality(S) = IF S = {} THEN 0 ELSE 1
    BY <2>2, OneOrNone
  <2>5. Cardinality(S) = IF \E s \in Shards : p \in Areas[Reservation(s)] THEN 1 ELSE 0
    BY <2>1, <2>3, <2>4
  <2>. QED
    BY <2>5 DEF S
<1>. QED
  BY <1>1, <1>2, <1>3, <1>4, <1>5

\* What the invariant says of one page: it has one owner when the cursor has
\* passed it and none otherwise.
LEMMA OwnersCounted ==
    ASSUME IInv
    PROVE  EveryPageHasOneOwner
<1>. SUFFICES ASSUME NEW p \in Pages PROVE OwnersOf(p) = IF p < globalNext THEN 1 ELSE 0
  BY DEF EveryPageHasOneOwner
<1>1. p \in Nat \ {0} /\ FirstPage <= p /\ FirstPage \in Nat /\ globalNext \in Nat
  BY PagesAssumption DEF Pages, IInv, Types
<1>2. p \in FirstPage..(globalNext - 1) <=> p < globalNext
  BY <1>1
<1> DEFINE a == p \in live
           c == p \in PagesIn(central)
           q == \E s \in Shards, b \in Buckets : p \in Areas[Bucket(s, b)]
           h == \E t \in Threads : p \in Areas[Hands(t)]
           r == \E s \in Shards : p \in Areas[Reservation(s)]
<1>3. /\ ~(a /\ c) /\ ~(a /\ q) /\ ~(a /\ h) /\ ~(a /\ r) /\ ~(c /\ q) /\ ~(c /\ h)
      /\ ~(c /\ r) /\ ~(q /\ h) /\ ~(q /\ r) /\ ~(h /\ r)
      /\ (a \/ c \/ q \/ h \/ r <=> p \in FirstPage..(globalNext - 1))
  BY <1>1, OneKind, ZenonT(30)
<1>4. OwnersOf(p) = (IF a THEN 1 ELSE 0) + (IF c THEN 1 ELSE 0) + (IF q THEN 1 ELSE 0)
                      + (IF h THEN 1 ELSE 0) + (IF r THEN 1 ELSE 0)
  <2>1. OwnersOf(p) = Cardinality({k \in live : k = p})
                        + Cardinality({e \in central : p \in PagesOf(e)})
                        + Cardinality(QueueEntries(p))
                        + Cardinality({t \in Threads : p \in Held(t)})
                        + Cardinality({s \in Shards : p \in ReservedTail(s) /\ p > 0})
    BY DEF OwnersOf, QueueEntries
  <2>. QED
    BY <1>1, <2>1, OwnerTerms, ZenonT(30)
<1>. HIDE DEF a, c, q, h, r
<1>. QED
  BY <1>2, <1>3, <1>4

-----------------------------------------------------------------------------
\* Page ids that allocate_page returns are unique, not live and in no other
\* thread's hands, until two threads of one shard cross.
THEOREM PageIdsStayUnique == Spec => [](~crossed => PageIdsUnique)
<1>1. IInv => PageIdsUnique
  BY ReturnedOnce
<1>. QED
  BY <1>1, AllocatorInvariant, PTL

\* Until two threads cross no page is lost and none has two owners: each page
\* the global cursor has passed is live, in the freelist, in one hot bucket, in
\* one thread's hands or in one shard's reservation.
THEOREM PagesKeepOneOwner == Spec => []EveryPageHasOneOwner
<1>1. (~crossed => IInv) => EveryPageHasOneOwner
  BY OwnersCounted DEF EveryPageHasOneOwner
<1>. QED
  BY <1>1, AllocatorInvariant, PTL

\* Until two threads cross insert and allocate_best_fit leave no two free
\* extents that overlap or touch, and free_base_pages is their total.
THEOREM FreelistStaysCoalesced == Spec => []FreelistIsCoalesced
<1>1. (~crossed => IInv /\ Counted) => FreelistIsCoalesced
  BY DEF IInv, Freelist, Coalesced, PagesIn, Counted, FreelistIsCoalesced
<1>. QED
  BY <1>1, AllocatorInvariant, PTL

\* Threads cross only where they share a home shard: with one thread to a shard
\* the three properties above hold throughout.
THEOREM OwnShardsNeverCross ==
    ASSUME \A t, u \in Threads : Home[t] = Home[u] => t = u
    PROVE  Spec => []~crossed
<1>1. Init => ~crossed
  BY DEF Init
<1>2. \A t \in Threads : OthersAtHome(t) = {}
  BY DEF OthersAtHome
<1>3. ~crossed /\ [Next]_vars => ~crossed'
  BY <1>2, Zenon DEF Next, Allocate, AllocatePage, Pop, PopMisses, ReturnRemainder, RefillShard,
     RefillPush, AllocateBestFit, FetchNext, CheckEnd, LockRefill, Reserve, StoreEnd, StoreNext,
     Deliver, PromoteReusableExtent, Exhausted, monotonicVars, vars
<1>. QED
  BY <1>1, <1>3, PTL DEF Spec
================================================================================
