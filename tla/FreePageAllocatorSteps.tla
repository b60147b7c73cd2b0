------------------------ MODULE FreePageAllocatorSteps ------------------------
(***************************************************************************)
(* The inductive invariant of the allocator and the steps of allocate_page *)
(* that keep it, for any number of threads on any number of shards, any    *)
(* pages and any bucket sizes, up to the first step at which two threads   *)
(* of one shard cross (finding F1 is what happens then).                   *)
(* FreePageAllocatorProofs has the other steps and the theorems.           *)
(*                                                                         *)
(* The argument: name the places a page can be in (live, the freelist, one *)
(* hot bucket, one thread's hands, one shard's reservation).  Their areas  *)
(* part the pages that the global cursor has passed, and every step moves  *)
(* some pages from one place to another.                                   *)
(***************************************************************************)
EXTENDS FreePageAllocator, TLAPS

\* Every set of natural numbers has a least element: a hypothesis of the lemmas
\* here, a lemma of FreePageAllocatorProofs.
LeastNumber == \A T \in SUBSET Nat : T # {} => \E x \in T : \A y \in T : x <= y

-----------------------------------------------------------------------------
(* The inductive invariant *)

IsExtent(e) == e \in [start : Nat, len : Nat \ {0}]

PagesIn(c) == UNION {PagesOf(e) : e \in c}
QueuePages(q) == UNION {PagesOf(q[i]) : i \in DOMAIN q}

Coalesced(c) == \A x, y \in c : x # y => EndOf(x) < y.start \/ EndOf(y) < x.start

\* The places a page can be in.
Live == <<"live", 0, 0>>
Central == <<"central", 0, 0>>
Bucket(s, b) == <<"bucket", s, b>>
Hands(t) == <<"hands", t, 0>>
Reservation(s) == <<"reservation", s, 0>>
Places ==
    {Live, Central} \cup {Bucket(s, b) : s \in Shards, b \in Buckets}
        \cup {Hands(t) : t \in Threads} \cup {Reservation(s) : s \in Shards}

Area(o) ==
    CASE o[1] = "live"        -> live
      [] o[1] = "central"     -> PagesIn(central)
      [] o[1] = "bucket"      -> QueuePages(buckets[o[2]][o[3]])
      [] o[1] = "hands"       -> Held(o[2])
      [] o[1] = "reservation" -> ReservedTail(o[2])

\* The areas part the pages up to n.
Parted(A, n) ==
    /\ \A o \in Places : A[o] \subseteq FirstPage..(n - 1)
    /\ \A p \in FirstPage..(n - 1) : \E o \in Places : p \in A[o]
    /\ \A o1, o2 \in Places : o1 # o2 => A[o1] \cap A[o2] = {}

Areas == [o \in Places |-> Area(o)]
Owned == Parted(Areas, globalNext)

Types ==
    /\ globalNext \in Nat /\ FirstPage <= globalNext
    /\ next \in [Shards -> Nat] /\ end \in [Shards -> Nat]
    /\ pc = [t \in Threads |-> pc[t]]
    /\ probe \in [Threads -> [offset : Nat, bucket : Buckets]]
    /\ hand \in [Threads -> [start : Nat, len : Nat]]
    /\ refillLock = [s \in Shards |-> refillLock[s]]

\* The extents of a hot bucket are short enough for it and do not overlap.
QueueOk(q, b) ==
    /\ q \in Seq([start : Nat, len : Nat \ {0}])
    /\ \A i \in DOMAIN q : q[i].len <= BucketLimits[b]
    /\ \A i, j \in DOMAIN q : i # j => PagesOf(q[i]) \cap PagesOf(q[j]) = {}

Queues ==
    /\ buckets = [s \in Shards |-> [b \in Buckets |-> buckets[s][b]]]
    /\ \A s \in Shards, b \in Buckets : QueueOk(buckets[s][b], b)

Freelist ==
    /\ \A e \in central : IsExtent(e)
    /\ Coalesced(central)

\* What a thread has in hand at each step, and that a reservation is used up
\* when a new one is made.
HandOk(t) ==
    /\ pc[t] = "remainder" =>
         hand[t].len >= 2 /\ \E b \in Buckets : hand[t].len <= BucketLimits[b]
    /\ pc[t] = "refillPush" => hand[t].len >= 1 /\ hand[t].len <= LongestHot
    /\ pc[t] = "return" => hand[t].len = 1
    /\ pc[t] \in {"storeEnd", "storeNext"} => hand[t].len >= 1
    /\ pc[t] = "recheck" => hand[t].start < next[Home[t]]
    /\ pc[t] \in {"reserve", "storeEnd"} =>
         next[Home[t]] >= end[Home[t]] /\ next[Home[t]] # 0
    /\ pc[t] = "storeEnd" => end[Home[t]] <= hand[t].start

\* A shard that never reserved has no range; no reservation is ahead of the
\* global cursor.
RangeOk(s) == (next[s] = 0 => end[s] = 0) /\ end[s] <= globalNext

IInv ==
    /\ Types /\ Queues /\ Freelist /\ Owned
    /\ \A t \in Threads : HandOk(t)
    /\ \A s \in Shards : RangeOk(s)

\* A thread inside the refill of its shard holds the shard's refill_lock.
Refilling == {"retry", "recheck", "reserve", "storeEnd", "storeNext"}
Locked ==
    /\ pc = [t \in Threads |-> pc[t]] /\ refillLock = [s \in Shards |-> refillLock[s]]
    /\ \A t \in Threads : pc[t] \in Refilling => refillLock[Home[t]] = t

-----------------------------------------------------------------------------
(* Extents *)

\* What an extent is, and its pages.
LEMMA ExtentFacts ==
    ASSUME NEW a \in Nat, NEW n \in Nat \ {0}
    PROVE  /\ IsExtent(Extent(a, n)) /\ Extent(a, n).start = a /\ Extent(a, n).len = n
           /\ EndOf(Extent(a, n)) = a + n
BY DEF IsExtent, Extent, EndOf

\* Membership in an extent as bounds.
LEMMA ExtentPages ==
    ASSUME NEW e, IsExtent(e)
    PROVE  /\ e.start \in Nat /\ e.len \in Nat /\ e.len >= 1 /\ EndOf(e) = e.start + e.len
           /\ \A p : p \in PagesOf(e) <=> p \in Nat /\ e.start <= p /\ p < e.start + e.len
<1>1. e.start \in Nat /\ e.len \in Nat /\ e.len >= 1 /\ EndOf(e) = e.start + e.len
  BY DEF IsExtent, EndOf
<1>2. PagesOf(e) = e.start..(e.start + e.len - 1)
  BY <1>1 DEF PagesOf
<1>. QED
  BY <1>1, <1>2

\* allocate_best_fit finds an extent whenever one fits.
LEMMA BestFitFits ==
    ASSUME LeastNumber, NEW c, \A e \in c : IsExtent(e), NEW n \in Nat \ {0}, Fits(c, n) # {}
    PROVE  BestFit(c, n) \in c /\ BestFit(c, n).len >= n
<1> DEFINE S == Fits(c, n)
           L == {e.len : e \in S}
<1>1. \A e \in S : e \in c /\ e.len >= n /\ e.len \in Nat /\ e.start \in Nat
  BY DEF Fits, IsExtent
<1>. HIDE DEF S
<1>2. PICK m \in L : \A k \in L : m <= k
  <2>1. L \subseteq Nat /\ L # {}
    BY <1>1 DEF S
  <2>. QED
    BY <2>1, Zenon DEF LeastNumber
<1> DEFINE T == {e.start : e \in {x \in S : x.len = m}}
<1>3. PICK a \in T : \A k \in T : a <= k
  <2>1. T \subseteq Nat /\ T # {}
    BY <1>1, <1>2
  <2>. QED
    BY <2>1, Zenon DEF LeastNumber
<1>4. PICK x \in S : x.len = m /\ x.start = a
  BY <1>3
<1>5. \A y \in S : x.len < y.len \/ (x.len = y.len /\ x.start <= y.start)
  <2>. SUFFICES ASSUME NEW y \in S PROVE x.len < y.len \/ (x.len = y.len /\ x.start <= y.start)
    OBVIOUS
  <2>1. m <= y.len /\ m \in Nat /\ y.len \in Nat
    BY <1>1, <1>2
  <2>2. y.len = m => a <= y.start
    BY <1>3
  <2>. QED
    BY <1>4, <2>1, <2>2
<1>6. BestFit(c, n) \in S
  BY <1>5 DEF BestFit, S
<1>. QED
  BY <1>1, <1>6

\* allocate_best_fit takes the head of an extent; the rest stays coalesced.
LEMMA TakeKeeps ==
    ASSUME LeastNumber, NEW c, \A e \in c : IsExtent(e), Coalesced(c), NEW n \in Nat \ {0}, Fits(c, n) # {}
    PROVE  LET x == BestFit(c, n)
               d == CentralTake(c, n)
           IN  /\ x.start \in Nat /\ \A e \in d : IsExtent(e)
               /\ Coalesced(d)
               /\ PagesOf(Extent(x.start, n)) \subseteq PagesIn(c)
               /\ PagesIn(d) = PagesIn(c) \ PagesOf(Extent(x.start, n))
<1> DEFINE x == BestFit(c, n)
           d == CentralTake(c, n)
           rest == Extent(x.start + n, x.len - n)
<1>1. x \in c /\ x.len >= n /\ x.len \in Nat /\ x.start \in Nat /\ IsExtent(x)
  BY BestFitFits DEF IsExtent
<1>2. d = (c \ {x}) \cup (IF x.len > n THEN {rest} ELSE {})
  BY DEF CentralTake
<1>. HIDE DEF x, d
<1>3. EndOf(x) = x.start + x.len /\ \A p : p \in PagesOf(x) <=> p \in Nat /\ x.start <= p /\ p < x.start + x.len
  BY <1>1, ExtentPages
<1>4. \A p : p \in PagesOf(Extent(x.start, n)) <=> p \in Nat /\ x.start <= p /\ p < x.start + n
  BY <1>1, ExtentFacts, ExtentPages, ZenonT(30)
<1>5. x.len > n =>
        /\ IsExtent(rest) /\ rest.start = x.start + n /\ EndOf(rest) = x.start + x.len
        /\ \A p : p \in PagesOf(rest) <=> p \in Nat /\ x.start + n <= p /\ p < x.start + x.len
  <2>. SUFFICES ASSUME x.len > n
                PROVE  /\ IsExtent(rest) /\ rest.start = x.start + n /\ EndOf(rest) = x.start + x.len
                       /\ \A p : p \in PagesOf(rest) <=> p \in Nat /\ x.start + n <= p /\ p < x.start + x.len
    OBVIOUS
  <2>1. x.start + n \in Nat /\ x.len - n \in Nat \ {0} /\ x.start + n + (x.len - n) = x.start + x.len
    BY <1>1
  <2>2. IsExtent(rest) /\ rest.start = x.start + n /\ rest.len = x.len - n /\ EndOf(rest) = x.start + x.len
    BY <2>1, ExtentFacts, Zenon
  <2>. HIDE DEF rest
  <2>. QED
    BY <2>1, <2>2, ExtentPages, Zenon
<1>. HIDE DEF rest
<1>6. \A e \in d : IsExtent(e)
  BY <1>2, <1>5
<1>7. \A e \in c \ {x} : /\ EndOf(e) < x.start \/ x.start + x.len < e.start
                         /\ e.start \in Nat /\ e.len \in Nat /\ EndOf(e) = e.start + e.len
                         /\ \A p : p \in PagesOf(e) <=> p \in Nat /\ e.start <= p /\ p < e.start + e.len
  BY <1>1, <1>3, ExtentPages, Zenon DEF Coalesced
<1>8. Coalesced(d)
  <2>1. x.len > n => \A e \in c \ {x} : EndOf(e) < rest.start \/ EndOf(rest) < e.start
    BY <1>1, <1>5, <1>7
  <2>. QED
    BY <1>2, <2>1 DEF Coalesced
<1>9. PagesOf(Extent(x.start, n)) \subseteq PagesIn(c)
  <2>1. PagesOf(Extent(x.start, n)) \subseteq PagesOf(x)
    BY <1>1, <1>3, <1>4
  <2>. QED
    BY <1>1, <2>1 DEF PagesIn
<1>10. PagesIn(d) = PagesIn(c) \ PagesOf(Extent(x.start, n))
  <2>1. ASSUME NEW e \in c \ {x}, NEW p \in PagesOf(e) PROVE p \notin PagesOf(Extent(x.start, n))
    BY <1>1, <1>4, <1>7
  <2>2. ASSUME NEW p
        PROVE  p \in PagesOf(x) /\ p \notin PagesOf(Extent(x.start, n)) <=> x.len > n /\ p \in PagesOf(rest)
    <3>1. CASE x.len > n
      BY <1>1, <1>3, <1>4, <1>5, <3>1
    <3>2. CASE ~(x.len > n)
      BY <1>1, <1>3, <1>4, <3>2
    <3>. QED
      BY <3>1, <3>2
  <2>3. ASSUME NEW p PROVE p \in PagesIn(d) <=> p \in PagesIn(c) /\ p \notin PagesOf(Extent(x.start, n))
    <3>1. p \in PagesIn(d) <=> (\E e \in c \ {x} : p \in PagesOf(e)) \/ (x.len > n /\ p \in PagesOf(rest))
      BY <1>2 DEF PagesIn
    <3>2. p \in PagesIn(c) <=> (\E e \in c \ {x} : p \in PagesOf(e)) \/ p \in PagesOf(x)
      BY <1>1 DEF PagesIn
    <3>. QED
      BY <2>1, <2>2, <3>1, <3>2
  <2>. QED
    BY <2>3
<1>. QED
  BY <1>1, <1>6, <1>8, <1>9, <1>10, Zenon DEF x, d

\* insert merges a freed page with its neighbours.
LEMMA InsertKeeps ==
    ASSUME NEW c, \A e \in c : IsExtent(e), Coalesced(c), NEW p \in Nat, p \notin PagesIn(c)
    PROVE  LET d == CentralInsert(c, Extent(p, 1))
           IN  (\A e \in d : IsExtent(e)) /\ Coalesced(d) /\ PagesIn(d) = PagesIn(c) \cup {p}
<1> DEFINE left == {x \in c : EndOf(x) = p}
           right == {x \in c : x.start = p + 1}
           l == CHOOSE x \in left : TRUE
           r == CHOOSE x \in right : TRUE
           start == IF left = {} THEN p ELSE l.start
           stop == IF right = {} THEN p + 1 ELSE EndOf(r)
           new == Extent(start, stop - start)
           d == CentralInsert(c, Extent(p, 1))
<1>1. d = (c \ (left \cup right)) \cup {new}
  <2>1. Extent(p, 1).start = p /\ EndOf(Extent(p, 1)) = p + 1
    BY ExtentFacts
  <2> DEFINE L == {x \in c : EndOf(x) = Extent(p, 1).start}
             R == {x \in c : x.start = EndOf(Extent(p, 1))}
  <2>2. L = left /\ R = right
    BY <2>1
  <2>3. d = (c \ (L \cup R))
              \cup {Extent(IF L = {} THEN Extent(p, 1).start ELSE (CHOOSE x \in L : TRUE).start,
                           (IF R = {} THEN EndOf(Extent(p, 1)) ELSE EndOf(CHOOSE x \in R : TRUE))
                             - (IF L = {} THEN Extent(p, 1).start
                                          ELSE (CHOOSE x \in L : TRUE).start))}
    BY Zenon DEF CentralInsert
  <2>. HIDE DEF L, R, left, right, d
  <2>. QED
    BY <2>1, <2>2, <2>3
<1>2. \A e \in c : /\ e.start \in Nat /\ e.len \in Nat /\ e.len >= 1 /\ EndOf(e) = e.start + e.len
                   /\ \A q : q \in PagesOf(e) <=> q \in Nat /\ e.start <= q /\ q < e.start + e.len
  BY ExtentPages
<1>3. \A e \in c : p < e.start \/ EndOf(e) <= p
  <2>1. \A e \in c : p \notin PagesOf(e)
    BY DEF PagesIn
  <2>. QED
    BY <1>2, <2>1
<1>4. \A x, y \in c : x # y => EndOf(x) < y.start \/ EndOf(y) < x.start
  BY DEF Coalesced
<1>5. left # {} => left = {l} /\ l \in c /\ EndOf(l) = p
  <2>1. left # {} => l \in left
    OBVIOUS
  <2>2. \A x, y \in left : x = y
    BY <1>2, <1>4
  <2>. QED
    BY <2>1, <2>2
<1>6. right # {} => right = {r} /\ r \in c /\ r.start = p + 1
  <2>1. right # {} => r \in right
    OBVIOUS
  <2>2. \A x, y \in right : x = y
    BY <1>2, <1>4
  <2>. QED
    BY <2>1, <2>2
<1>. HIDE DEF l, r, d
<1>7. /\ start \in Nat /\ stop \in Nat /\ start <= p /\ p + 1 <= stop /\ stop - start \in Nat \ {0}
      /\ start + (stop - start) = stop
  BY <1>2, <1>5, <1>6
<1>8. /\ \A q : q \in Nat /\ start <= q /\ q < p <=> left # {} /\ q \in PagesOf(l)
      /\ \A q : q \in Nat /\ p < q /\ q < stop <=> right # {} /\ q \in PagesOf(r)
  BY <1>2, <1>5, <1>6
<1>9. \A e \in c \ (left \cup right) : EndOf(e) < start \/ stop < e.start
  <2>. SUFFICES ASSUME NEW e \in c, e \notin left, e \notin right PROVE EndOf(e) < start \/ stop < e.start
    OBVIOUS
  <2>1. EndOf(e) # p /\ e.start # p + 1 /\ (p < e.start \/ EndOf(e) <= p)
    BY <1>3
  <2>2. left # {} => EndOf(e) < l.start \/ p < e.start
    BY <1>4, <1>5
  <2>3. right # {} => EndOf(e) < p + 1 \/ EndOf(r) < e.start
    BY <1>4, <1>6
  <2>. QED
    BY <1>2, <1>5, <1>6, <2>1, <2>2, <2>3
<1>. HIDE DEF start, stop, left, right
<1>10. /\ IsExtent(new) /\ new.start = start /\ EndOf(new) = stop
       /\ \A q : q \in PagesOf(new) <=> q \in Nat /\ start <= q /\ q < stop
  <2>1. IsExtent(new) /\ new.start = start /\ EndOf(new) = stop /\ new.len = stop - start
    BY <1>7, ExtentFacts, Zenon
  <2>. HIDE DEF new
  <2>. QED
    BY <1>7, <2>1, ExtentPages
<1>. HIDE DEF new
<1>11. \A e \in d : IsExtent(e)
  BY <1>1, <1>10
<1>12. Coalesced(d)
  BY <1>1, <1>4, <1>9, <1>10 DEF Coalesced
<1>13. ASSUME NEW q PROVE q \in PagesIn(d) <=> q \in PagesIn(c) \/ q = p
  <2>1. q \in PagesIn(d) <=> (\E e \in c \ (left \cup right) : q \in PagesOf(e)) \/ q \in PagesOf(new)
    BY <1>1 DEF PagesIn
  <2>2. q \in PagesIn(c) <=> \/ \E e \in c \ (left \cup right) : q \in PagesOf(e)
                             \/ left # {} /\ q \in PagesOf(l)
                             \/ right # {} /\ q \in PagesOf(r)
    BY <1>5, <1>6 DEF PagesIn
  <2>3. q \in PagesOf(new) <=> q = p \/ (left # {} /\ q \in PagesOf(l)) \/ (right # {} /\ q \in PagesOf(r))
    BY <1>7, <1>8, <1>10
  <2>. QED
    BY <2>1, <2>2, <2>3
<1>. QED
  BY <1>11, <1>12, <1>13 DEF d

-----------------------------------------------------------------------------
(* Hot buckets *)

\* An extent no longer than some bucket's limit has a bucket.
LEMMA BucketFound ==
    ASSUME LeastNumber, NEW n \in Nat, NEW b \in Buckets, n <= BucketLimits[b]
    PROVE  HotBucketForLen(n) \in Buckets /\ n <= BucketLimits[HotBucketForLen(n)]
<1> DEFINE T == {a \in Buckets : n <= BucketLimits[a]}
<1>1. Buckets \subseteq Nat
  BY BucketsAssumption DEF Buckets
<1>2. PICK a \in T : \A k \in T : a <= k
  <2>1. T \subseteq Nat /\ T # {}
    BY <1>1, Zenon
  <2>. QED
    BY <2>1, Zenon DEF LeastNumber
<1>3. a \in Buckets /\ n <= BucketLimits[a] /\ \A k \in Buckets : n <= BucketLimits[k] => a <= k
  BY <1>2
<1>. QED
  BY <1>3 DEF HotBucketForLen

\* An extent is queued that overlaps none in the queue.
LEMMA QueueAppend ==
    ASSUME NEW q, NEW b, QueueOk(q, b), NEW e, IsExtent(e), e.len <= BucketLimits[b],
           PagesOf(e) \cap QueuePages(q) = {}
    PROVE  QueueOk(Append(q, e), b) /\ QueuePages(Append(q, e)) = QueuePages(q) \cup PagesOf(e)
<1> DEFINE k == Append(q, e)
<1>1. /\ k \in Seq([start : Nat, len : Nat \ {0}]) /\ DOMAIN k = DOMAIN q \cup {Len(q) + 1}
      /\ Len(q) + 1 \notin DOMAIN q /\ (\A i \in DOMAIN q : k[i] = q[i]) /\ k[Len(q) + 1] = e
  BY DEF QueueOk, IsExtent
<1>. HIDE DEF k
<1>2. QueuePages(k) = QueuePages(q) \cup PagesOf(e)
  BY <1>1 DEF QueuePages
<1>3. \A i \in DOMAIN k : k[i].len <= BucketLimits[b]
  BY <1>1, Zenon DEF QueueOk
<1>4. \A i \in DOMAIN q : PagesOf(q[i]) \cap PagesOf(e) = {}
  BY DEF QueuePages
<1>5. \A i, j \in DOMAIN k : i # j => PagesOf(k[i]) \cap PagesOf(k[j]) = {}
  BY <1>1, <1>4, Zenon DEF QueueOk
<1>. QED
  BY <1>1, <1>2, <1>3, <1>5, Zenon DEF QueueOk, k

\* The first extent of a queue is taken.
LEMMA QueueTail ==
    ASSUME NEW q, NEW b, QueueOk(q, b), q # <<>>
    PROVE  /\ QueueOk(Tail(q), b) /\ IsExtent(Head(q)) /\ Head(q).len <= BucketLimits[b]
           /\ PagesOf(Head(q)) \subseteq QueuePages(q)
           /\ QueuePages(Tail(q)) = QueuePages(q) \ PagesOf(Head(q))
<1> DEFINE k == Tail(q)
           E == [start : Nat, len : Nat \ {0}]
<1>0. q \in Seq(E) /\ \A e \in E : IsExtent(e)
  BY DEF QueueOk, IsExtent
<1>. HIDE DEF E
<1>1. q \in Seq(E) /\ Len(q) \in Nat /\ Len(q) >= 1 /\ DOMAIN q = 1..Len(q) /\ Head(q) = q[1]
  BY <1>0
<1>2. /\ k \in Seq(E) /\ Len(k) = Len(q) - 1 /\ DOMAIN k = 1..Len(k)
      /\ \A i \in 1..Len(k) : k[i] = q[i + 1]
  BY <1>1
<1>. HIDE DEF k
<1>3. \A i \in DOMAIN k : i + 1 \in DOMAIN q /\ i + 1 # 1 /\ k[i] = q[i + 1]
  BY <1>1, <1>2
<1>4. \A j \in DOMAIN q : j = 1 \/ (j - 1 \in DOMAIN k /\ q[j] = k[j - 1])
  BY <1>1, <1>2
<1>5. 1 \in DOMAIN q /\ IsExtent(q[1]) /\ q[1].len <= BucketLimits[b]
  <2>1. 1 \in DOMAIN q /\ q[1] \in E
    BY <1>1
  <2>. QED
    BY <1>0, <2>1 DEF QueueOk
<1>6. \A i, j \in DOMAIN q : i # j => PagesOf(q[i]) \cap PagesOf(q[j]) = {}
  BY DEF QueueOk
<1>7. PagesOf(q[1]) \subseteq QueuePages(q)
  BY <1>5 DEF QueuePages
<1>8. ASSUME NEW p PROVE p \in QueuePages(k) <=> p \in QueuePages(q) /\ p \notin PagesOf(q[1])
  <2>1. ASSUME p \in QueuePages(k) PROVE p \in QueuePages(q) /\ p \notin PagesOf(q[1])
    <3>1. PICK i \in DOMAIN k : p \in PagesOf(k[i])
      BY <2>1 DEF QueuePages
    <3>2. i + 1 \in DOMAIN q /\ i + 1 # 1 /\ p \in PagesOf(q[i + 1])
      BY <1>3, <3>1
    <3>. QED
      BY <1>5, <1>6, <3>2 DEF QueuePages
  <2>2. ASSUME p \in QueuePages(q), p \notin PagesOf(q[1]) PROVE p \in QueuePages(k)
    <3>1. PICK j \in DOMAIN q : p \in PagesOf(q[j])
      BY <2>2 DEF QueuePages
    <3>2. j - 1 \in DOMAIN k /\ p \in PagesOf(k[j - 1])
      BY <1>4, <2>2, <3>1
    <3>. QED
      BY <3>2 DEF QueuePages
  <2>. QED
    BY <2>1, <2>2
<1>9. QueueOk(k, b)
  <2>1. \A i \in DOMAIN k : k[i].len <= BucketLimits[b]
    BY <1>3, Zenon DEF QueueOk
  <2>2. \A i, j \in DOMAIN k : i # j => PagesOf(k[i]) \cap PagesOf(k[j]) = {}
    <3>. SUFFICES ASSUME NEW i \in DOMAIN k, NEW j \in DOMAIN k, i # j
                  PROVE  PagesOf(k[i]) \cap PagesOf(k[j]) = {}
      OBVIOUS
    <3>1. i + 1 # j + 1 /\ i + 1 \in DOMAIN q /\ j + 1 \in DOMAIN q
      BY <1>2, <1>3
    <3>. QED
      BY <1>3, <1>6, <3>1
  <2>. QED
    BY <1>2, <2>1, <2>2, Zenon DEF QueueOk, E
<1>. QED
  BY <1>1, <1>5, <1>7, <1>8, <1>9 DEF k

-----------------------------------------------------------------------------
(* Areas *)

\* Pages that move from one place to another stay parted.
LEMMA MoveParts ==
    ASSUME NEW A, NEW B, NEW n, Parted(A, n), NEW from \in Places, NEW to \in Places, from # to,
           NEW M, M \subseteq A[from],
           B[from] = A[from] \ M, B[to] = A[to] \cup M,
           \A o \in Places : o # from /\ o # to => B[o] = A[o]
    PROVE  Parted(B, n)
<1>1. \A o \in Places : B[o] \subseteq FirstPage..(n - 1)
  BY DEF Parted
<1>2. \A p \in FirstPage..(n - 1) : \E o \in Places : p \in B[o]
  <2>. SUFFICES ASSUME NEW p \in FirstPage..(n - 1) PROVE \E o \in Places : p \in B[o]
    OBVIOUS
  <2>1. PICK o \in Places : p \in A[o]
    BY DEF Parted
  <2>2. CASE p \in M
    BY <2>2
  <2>3. CASE p \notin M
    BY <2>1, <2>3
  <2>. QED
    BY <2>2, <2>3
<1>3. ASSUME NEW o1 \in Places, NEW o2 \in Places, o1 # o2 PROVE B[o1] \cap B[o2] = {}
  <2>1. \A x, y \in Places : x # y => A[x] \cap A[y] = {}
    BY DEF Parted
  <2>2. \A x \in Places : x # from /\ x # to => B[x] \cap B[from] = {} /\ B[x] \cap B[to] = {}
    BY <2>1
  <2>3. B[from] \cap B[to] = {}
    BY <2>1
  <2>. QED
    BY <1>3, <2>1, <2>2, <2>3
<1>. QED
  BY <1>1, <1>2, <1>3, Zenon DEF Parted

\* The places are different, and each has its area.
LEMMA PlaceAreas ==
    /\ Live \in Places /\ Central \in Places /\ Areas[Live] = live
    /\ Areas[Central] = PagesIn(central) /\ Live # Central
    /\ \A s \in Shards, b \in Buckets :
          /\ Bucket(s, b) \in Places /\ Areas[Bucket(s, b)] = QueuePages(buckets[s][b])
          /\ Bucket(s, b) # Live /\ Bucket(s, b) # Central
          /\ \A t \in Threads : Bucket(s, b) # Hands(t)
    /\ \A t \in Threads : /\ Hands(t) \in Places /\ Areas[Hands(t)] = Held(t)
                          /\ Hands(t) # Live /\ Hands(t) # Central
                          /\ \A s \in Shards : Hands(t) # Reservation(s)
    /\ \A s \in Shards : Reservation(s) \in Places /\ Areas[Reservation(s)] = ReservedTail(s)
BY DEF Places, Areas, Area, Live, Central, Bucket, Hands, Reservation

\* The same after a step.
LEMMA PlaceAreasNext ==
    /\ Areas'[Live] = live' /\ Areas'[Central] = PagesIn(central')
    /\ \A s \in Shards, b \in Buckets : Areas'[Bucket(s, b)] = QueuePages(buckets'[s][b])
    /\ \A t \in Threads : Areas'[Hands(t)] = Held(t)'
    /\ \A s \in Shards : Areas'[Reservation(s)] = ReservedTail(s)'
BY DEF Places, Areas, Area, Live, Central, Bucket, Hands, Reservation

\* Every place is one of the five kinds.
LEMMA PlaceKinds ==
    ASSUME NEW o \in Places
    PROVE  \/ o = Live \/ o = Central
           \/ \E s \in Shards, b \in Buckets : o = Bucket(s, b)
           \/ \E t \in Threads : o = Hands(t)
           \/ \E s \in Shards : o = Reservation(s)
BY DEF Places

-----------------------------------------------------------------------------
(* What a thread's step leaves alone *)

\* Held and ReservedTail as functions of the state they read.
HeldFrom(P, H, E, t) ==
    CASE P[t] \in {"remainder", "refillPush", "storeEnd", "return"} -> PagesOf(H[t])
      [] P[t] = "storeNext" -> {H[t].start}
      [] P[t] \in {"check", "recheck"} -> {H[t].start} \cap 0..(E[Home[t]] - 1)
      [] OTHER -> {}
Installing(P, s) == {t \in Threads : P[t] = "storeNext" /\ Home[t] = s}
TailFrom(P, H, n, s) ==
    IF Installing(P, s) = {} THEN n[s] ELSE H[CHOOSE t \in Installing(P, s) : TRUE].start + 1

\* What a thread holds, before and after a step, as a function of the four
\* variables it is read from.
LEMMA HeldIs ==
    ASSUME NEW t \in Threads
    PROVE  Held(t) = HeldFrom(pc, hand, end, t) /\ Held(t)' = HeldFrom(pc', hand', end', t)
BY DEF Held, HeldFrom

\* What a shard has reserved, before and after a step, as a range of page ids.
LEMMA TailIs ==
    ASSUME NEW s \in Shards
    PROVE  /\ ReservedTail(s) = TailFrom(pc, hand, next, s)..(end[s] - 1)
           /\ ReservedTail(s)' = TailFrom(pc', hand', next', s)..(end'[s] - 1)
BY DEF ReservedTail, TailFrom, Installing

\* No thread but t is between the two stores of a refill of t's home shard.
Sole(P, t) == \A u \in Threads : P[u] = "storeNext" /\ Home[u] = Home[t] => u = t

\* Then the tail of t's home shard is what t's step says.
LEMMA TailOfHome ==
    ASSUME NEW t \in Threads, NEW P, NEW H, NEW n, Sole(P, t)
    PROVE  TailFrom(P, H, n, Home[t]) =
             IF P[t] = "storeNext" THEN H[t].start + 1 ELSE n[Home[t]]
<1>1. CASE P[t] = "storeNext"
  <2>1. Installing(P, Home[t]) = {t}
    BY <1>1 DEF Installing, Sole
  <2>2. Installing(P, Home[t]) # {} /\ (CHOOSE u \in Installing(P, Home[t]) : TRUE) = t
    BY <2>1
  <2>. QED
    BY <1>1, <2>2, Zenon DEF TailFrom
<1>2. CASE P[t] # "storeNext"
  <2>1. Installing(P, Home[t]) = {}
    BY <1>2 DEF Installing, Sole
  <2>. QED
    BY <1>2, <2>1 DEF TailFrom
<1>. QED
  BY <1>1, <1>2

\* What the shard of a thread has left, before and after a step.
LEMMA OwnTail ==
    ASSUME NEW t \in Threads, Sole(pc, t), Sole(pc', t)
    PROVE  /\ ReservedTail(Home[t]) =
                (IF pc[t] = "storeNext" THEN hand[t].start + 1 ELSE next[Home[t]])
                  ..(end[Home[t]] - 1)
           /\ ReservedTail(Home[t])' =
                (IF pc'[t] = "storeNext" THEN hand'[t].start + 1 ELSE next'[Home[t]])
                  ..(end'[Home[t]] - 1)
<1>1. Home[t] \in Shards
  BY ShardsAssumption
<1>2. TailFrom(pc, hand, next, Home[t])
        = IF pc[t] = "storeNext" THEN hand[t].start + 1 ELSE next[Home[t]]
  BY TailOfHome
<1>3. TailFrom(pc', hand', next', Home[t])
        = IF pc'[t] = "storeNext" THEN hand'[t].start + 1 ELSE next'[Home[t]]
  BY TailOfHome
<1>4. ReservedTail(Home[t]) = TailFrom(pc, hand, next, Home[t])..(end[Home[t]] - 1)
  BY <1>1, TailIs
<1>5. ReservedTail(Home[t])' = TailFrom(pc', hand', next', Home[t])..(end'[Home[t]] - 1)
  BY <1>1, TailIs
<1>. QED
  BY <1>2, <1>3, <1>4, <1>5, Zenon

\* A step of t changes the program counter and the hand of no other thread and
\* the range of no shard but its home.
StepOf(t) ==
    /\ \A u \in Threads : u # t => pc'[u] = pc[u] /\ hand'[u] = hand[u]
    /\ \A s \in Shards : s # Home[t] => next'[s] = next[s] /\ end'[s] = end[s]

\* A step of t disturbs nothing that another thread holds or relies on.
Alone(t) == \A u \in Threads : u # t => Held(u)' = Held(u) /\ (HandOk(u) => HandOk(u)')

\* A thread's step touches no other shard's reservation, nor its own when it
\* leaves the range alone and is not between the two stores of a refill.
LEMMA TailsKeep ==
    ASSUME NEW t \in Threads, StepOf(t), NEW s \in Shards,
           \/ s # Home[t]
           \/ pc[t] # "storeNext" /\ pc'[t] # "storeNext" /\ next'[s] = next[s] /\ end'[s] = end[s]
    PROVE  ReservedTail(s)' = ReservedTail(s)
<1>1. Installing(pc', s) = Installing(pc, s)
  BY DEF Installing, StepOf
<1>2. \A u \in Installing(pc, s) : hand'[u] = hand[u]
  BY DEF Installing, StepOf
<1>3. next'[s] = next[s] /\ end'[s] = end[s]
  BY DEF StepOf
<1>4. TailFrom(pc', hand', next', s) = TailFrom(pc, hand, next, s)
  <2>1. CASE Installing(pc, s) = {}
    BY <1>1, <1>3, <2>1 DEF TailFrom
  <2>2. CASE Installing(pc, s) # {}
    <3>1. (CHOOSE u \in Installing(pc, s) : TRUE) \in Installing(pc, s)
      BY <2>2
    <3>. QED
      BY <1>1, <1>2, <2>2, <3>1 DEF TailFrom
  <2>. QED
    BY <2>1, <2>2
<1>5. /\ ReservedTail(s) = TailFrom(pc, hand, next, s)..(end[s] - 1)
      /\ ReservedTail(s)' = TailFrom(pc', hand', next', s)..(end'[s] - 1)
  BY TailIs
<1>. QED
  BY <1>3, <1>4, <1>5

\* A step that leaves the end of its shard's range alone leaves every other
\* thread what it holds.
LEMMA HeldKept ==
    ASSUME NEW t \in Threads, StepOf(t), end'[Home[t]] = end[Home[t]]
    PROVE  \A u \in Threads : u # t => Held(u)' = Held(u)
<1>. SUFFICES ASSUME NEW u \in Threads, u # t PROVE Held(u)' = Held(u)
  OBVIOUS
<1>1. Home[u] \in Shards /\ Home[t] \in Shards
  BY ShardsAssumption
<1>2. pc'[u] = pc[u] /\ hand'[u] = hand[u] /\ end'[Home[u]] = end[Home[u]]
  BY <1>1 DEF StepOf
<1>3. HeldFrom(pc', hand', end', u) = HeldFrom(pc, hand, end, u)
  BY <1>2 DEF HeldFrom
<1>4. Held(u) = HeldFrom(pc, hand, end, u) /\ Held(u)' = HeldFrom(pc', hand', end', u)
  BY HeldIs
<1>. QED
  BY <1>3, <1>4

\* A step that leaves its shard's range alone disturbs no other thread.
LEMMA KeepsRange ==
    ASSUME NEW t \in Threads, StepOf(t),
           next'[Home[t]] = next[Home[t]], end'[Home[t]] = end[Home[t]]
    PROVE  Alone(t)
<1>1. \A u \in Threads : u # t => Held(u)' = Held(u)
  BY HeldKept
<1>2. ASSUME NEW u \in Threads, u # t, HandOk(u) PROVE HandOk(u)'
  <2>1. Home[u] \in Shards /\ Home[t] \in Shards
    BY ShardsAssumption
  <2>2. /\ pc'[u] = pc[u] /\ hand'[u] = hand[u]
        /\ next'[Home[u]] = next[Home[u]] /\ end'[Home[u]] = end[Home[u]]
    BY <1>2, <2>1 DEF StepOf
  <2>. QED
    BY <1>2, <2>2 DEF HandOk
<1>. QED
  BY <1>1, <1>2 DEF Alone

\* A step of t changes only the areas in S.
ChangesOnly(t, S) ==
    /\ live' = live \/ Live \in S
    /\ central' = central \/ Central \in S
    /\ \A s \in Shards, b \in Buckets : buckets'[s][b] = buckets[s][b] \/ Bucket(s, b) \in S
    /\ Held(t)' = Held(t) \/ Hands(t) \in S
    /\ ReservedTail(Home[t])' = ReservedTail(Home[t]) \/ Reservation(Home[t]) \in S

\* A step that changes only the places of S leaves the pages of every other
\* place alone.
LEMMA Elsewhere ==
    ASSUME NEW t \in Threads, StepOf(t), Alone(t), NEW S, ChangesOnly(t, S)
    PROVE  \A o \in Places : o \notin S => Areas'[o] = Areas[o]
<1>. SUFFICES ASSUME NEW o \in Places, o \notin S PROVE Areas'[o] = Areas[o]
  OBVIOUS
<1>1. CASE o = Live
  BY <1>1, PlaceAreas, PlaceAreasNext, Zenon DEF ChangesOnly
<1>2. CASE o = Central
  BY <1>2, PlaceAreas, PlaceAreasNext, Zenon DEF ChangesOnly
<1>3. ASSUME NEW s \in Shards, NEW b \in Buckets, o = Bucket(s, b) PROVE Areas'[o] = Areas[o]
  <2>1. buckets'[s][b] = buckets[s][b]
    BY <1>3 DEF ChangesOnly
  <2>2. /\ Areas[Bucket(s, b)] = QueuePages(buckets[s][b])
        /\ Areas'[Bucket(s, b)] = QueuePages(buckets'[s][b])
    BY PlaceAreas, PlaceAreasNext, Zenon
  <2>. QED
    BY <1>3, <2>1, <2>2
<1>4. ASSUME NEW u \in Threads, o = Hands(u) PROVE Areas'[o] = Areas[o]
  <2>1. Held(u)' = Held(u)
    <3>1. CASE u = t
      BY <1>4, <3>1 DEF ChangesOnly
    <3>2. CASE u # t
      BY <3>2 DEF Alone
    <3>. QED
      BY <3>1, <3>2
  <2>2. Areas[Hands(u)] = Held(u) /\ Areas'[Hands(u)] = Held(u)'
    BY PlaceAreas, PlaceAreasNext, Zenon
  <2>. QED
    BY <1>4, <2>1, <2>2
<1>5. ASSUME NEW s \in Shards, o = Reservation(s) PROVE Areas'[o] = Areas[o]
  <2>1. ReservedTail(s)' = ReservedTail(s)
    <3>1. CASE s = Home[t]
      BY <1>5, <3>1 DEF ChangesOnly
    <3>2. CASE s # Home[t]
      BY <3>2, TailsKeep
    <3>. QED
      BY <3>1, <3>2
  <2>2. Areas[Reservation(s)] = ReservedTail(s) /\ Areas'[Reservation(s)] = ReservedTail(s)'
    BY PlaceAreas, PlaceAreasNext, Zenon
  <2>. QED
    BY <1>5, <2>1, <2>2
<1>. QED
  BY <1>1, <1>2, <1>3, <1>4, <1>5, PlaceKinds

\* A step that changes no area keeps the pages parted.
LEMMA StillParted ==
    ASSUME Owned, globalNext' = globalNext, \A o \in Places : Areas'[o] = Areas[o]
    PROVE  Owned'
<1>1. Parted(Areas, globalNext)
  BY DEF Owned
<1>2. Parted(Areas', globalNext)
  BY <1>1 DEF Parted
<1>. QED
  BY <1>2 DEF Owned

\* A step that moves pages from one place to another keeps the pages parted.
LEMMA Moves ==
    ASSUME Owned, globalNext' = globalNext, NEW from \in Places, NEW to \in Places, from # to,
           NEW M, M \subseteq Areas[from],
           Areas'[from] = Areas[from] \ M, Areas'[to] = Areas[to] \cup M,
           \A o \in Places : o \notin {from, to} => Areas'[o] = Areas[o]
    PROVE  Owned'
<1>1. Parted(Areas, globalNext)
  BY DEF Owned
<1>2. \A o \in Places : o # from /\ o # to => Areas'[o] = Areas[o]
  OBVIOUS
<1>. HIDE DEF Areas
<1>3. Parted(Areas', globalNext)
  BY <1>1, <1>2, MoveParts
<1>. QED
  BY <1>3 DEF Owned

\* What a thread holds at each step, before and after a step.
LEMMA HeldCases ==
    ASSUME NEW t \in Threads
    PROVE  /\ pc[t] \in {"remainder", "refillPush", "storeEnd", "return"} => Held(t) = PagesOf(hand[t])
           /\ pc[t] = "storeNext" => Held(t) = {hand[t].start}
           /\ pc[t] \in {"check", "recheck"} => Held(t) = {hand[t].start} \cap 0..(end[Home[t]] - 1)
           /\ pc[t] \in {"idle", "popOwn", "popAgain", "steal", "refillBatch", "refillOne",
                         "bestFit", "try", "retry", "lock", "reserve"} => Held(t) = {}
BY Zenon DEF Held

\* What a thread holds after a step, by where it then stands in allocate_page.
LEMMA HeldCasesNext ==
    ASSUME NEW t \in Threads
    PROVE  /\ pc'[t] \in {"remainder", "refillPush", "storeEnd", "return"} =>
                Held(t)' = PagesOf(hand'[t])
           /\ pc'[t] = "storeNext" => Held(t)' = {hand'[t].start}
           /\ pc'[t] \in {"check", "recheck"} =>
                Held(t)' = {hand'[t].start} \cap 0..(end'[Home[t]] - 1)
           /\ pc'[t] \in {"idle", "popOwn", "popAgain", "steal", "refillBatch", "refillOne",
                          "bestFit", "try", "retry", "lock", "reserve"} => Held(t)' = {}
BY Zenon DEF Held

\* One hot bucket changes.
SetBucket(s, b, q) == buckets' = [buckets EXCEPT ![s][b] = q]

\* A push or a pop on one hot bucket leaves the other buckets and their shape
\* alone.
LEMMA BucketSet ==
    ASSUME Queues, NEW s \in Shards, NEW b \in Buckets, NEW q, QueueOk(q, b), SetBucket(s, b, q)
    PROVE  /\ Queues' /\ buckets'[s][b] = q
           /\ \A r \in Shards, a \in Buckets : buckets'[r][a] = buckets[r][a] \/ (r = s /\ a = b)
<1>1. /\ buckets = [r \in Shards |-> [a \in Buckets |-> buckets[r][a]]]
      /\ \A r \in Shards, a \in Buckets : QueueOk(buckets[r][a], a)
  BY DEF Queues
<1> DEFINE row == [buckets[s] EXCEPT ![b] = q]
<1>2. buckets' = [buckets EXCEPT ![s] = row]
  BY DEF SetBucket
<1>3. row = [a \in Buckets |-> IF a = b THEN q ELSE buckets[s][a]]
  <2>1. buckets[s] = [a \in Buckets |-> buckets[s][a]]
    BY <1>1
  <2>. QED
    BY <2>1
<1>. HIDE DEF row
<1>4. buckets' = [r \in Shards |-> IF r = s THEN row ELSE buckets[r]]
  BY <1>1, <1>2, Zenon
<1>5. \A r \in Shards, a \in Buckets :
        buckets'[r][a] = IF r = s /\ a = b THEN q ELSE buckets[r][a]
  BY <1>3, <1>4
<1>6. buckets' = [r \in Shards |-> [a \in Buckets |-> buckets'[r][a]]]
  <2>1. \A r \in Shards : buckets'[r] = [a \in Buckets |-> buckets'[r][a]]
    BY <1>1, <1>3, <1>4, Zenon
  <2>. QED
    BY <1>4, <2>1
<1>7. \A r \in Shards, a \in Buckets : QueueOk(buckets'[r][a], a)
  BY <1>1, <1>5
<1>. QED
  BY <1>5, <1>6, <1>7 DEF Queues

\* The bucket a thread looks at is one of the shard's.
LEMMA Probed ==
    ASSUME Types, NEW t \in Threads
    PROVE  ProbedShard(t) \in Shards /\ probe[t].bucket \in Buckets
<1>1. Home[t] \in Nat /\ probe[t].offset \in Nat /\ probe[t].bucket \in Buckets
  BY ShardsAssumption DEF Types, Shards
<1>2. Home[t] + probe[t].offset \in Nat
  BY <1>1
<1>3. \A a \in Nat, n \in Nat \ {0} : a % n \in 0..(n - 1)
  OBVIOUS
<1>. QED
  BY <1>1, <1>2, <1>3, ShardsAssumption, Zenon DEF ProbedShard, Shards

\* A single page as an extent.
LEMMA OnePage ==
    ASSUME NEW p \in Nat
    PROVE  /\ PagesOf(Extent(p, 1)) = {p} /\ Extent(p, 1) \in [start : Nat, len : Nat]
           /\ Extent(p, 1).len = 1 /\ Extent(p, 1).start = p
<1>1. IsExtent(Extent(p, 1)) /\ Extent(p, 1).start = p /\ Extent(p, 1).len = 1
  BY ExtentFacts
<1>2. \A q : q \in PagesOf(Extent(p, 1)) <=> q \in Nat /\ p <= q /\ q < p + 1
  BY <1>1, ExtentPages
<1>3. PagesOf(Extent(p, 1)) = {p}
  BY <1>2
<1>. QED
  BY <1>1, <1>3 DEF IsExtent

\* allocate_best_fit: what is left of the freelist.
LEMMA FreelistTake ==
    ASSUME LeastNumber, Freelist, NEW n \in Nat \ {0}, Fits(central, n) # {},
           central' = CentralTake(central, n)
    PROVE  LET e == Extent(BestFit(central, n).start, n)
           IN  /\ Freelist' /\ IsExtent(e) /\ e.len = n /\ PagesOf(e) \subseteq PagesIn(central)
               /\ PagesIn(central') = PagesIn(central) \ PagesOf(e)
<1> DEFINE e == Extent(BestFit(central, n).start, n)
<1>1. /\ BestFit(central, n).start \in Nat /\ (\A x \in central' : IsExtent(x))
      /\ Coalesced(central') /\ PagesOf(e) \subseteq PagesIn(central)
      /\ PagesIn(central') = PagesIn(central) \ PagesOf(e)
  BY TakeKeeps, Zenon DEF Freelist
<1>2. IsExtent(e) /\ e.len = n
  BY <1>1, ExtentFacts, Zenon
<1>. QED
  BY <1>1, <1>2, Zenon DEF Freelist

-----------------------------------------------------------------------------
(* One lemma per action *)

\* The parts of the invariant that an action changes together.
LEMMA Assemble ==
    ASSUME IInv, NEW t \in Threads, StepOf(t), Alone(t),
           Types', Queues', Freelist', Owned', HandOk(t)', RangeOk(Home[t])',
           globalNext <= globalNext'
    PROVE  IInv'
<1>1. \A u \in Threads : HandOk(u)'
  BY DEF IInv, Alone
<1>2. ASSUME NEW s \in Shards PROVE RangeOk(s)'
  <2>1. CASE s = Home[t]
    BY <2>1
  <2>2. CASE s # Home[t]
    <3>1. next'[s] = next[s] /\ end'[s] = end[s] /\ RangeOk(s)
      BY <2>2 DEF IInv, StepOf
    <3>2. end[s] \in Nat /\ globalNext \in Nat /\ globalNext' \in Nat
      BY DEF IInv, Types
    <3>. QED
      BY <3>1, <3>2 DEF RangeOk
  <2>. QED
    BY <2>1, <2>2
<1>. QED
  BY <1>1, <1>2 DEF IInv

\* A step that only moves t's program counter and probe, between steps at which
\* it holds nothing.
Walk(t, to) ==
    /\ pc[t] \in {"idle", "popOwn", "popAgain", "steal", "refillBatch", "refillOne",
                  "bestFit", "lock"}
    /\ to \in {"popOwn", "popAgain", "steal", "refillBatch", "refillOne", "bestFit",
               "try", "retry"}
    /\ pc' = [pc EXCEPT ![t] = to]
    /\ probe' \in [Threads -> [offset : Nat, bucket : Buckets]]
    /\ refillLock' = [s \in Shards |-> refillLock'[s]]
    /\ UNCHANGED <<hand, live, reuseVars, globalNext, next, end>>

\* A step that only moves a thread on in allocate_page keeps the invariant.
LEMMA Walks ==
    ASSUME IInv, NEW t \in Threads, NEW to, Walk(t, to)
    PROVE  IInv'
<1>1. pc' = [u \in Threads |-> pc'[u]] /\ pc'[t] = to /\ \A u \in Threads : u # t => pc'[u] = pc[u]
  BY Zenon DEF IInv, Types, Walk
<1>2. StepOf(t)
  BY <1>1 DEF StepOf, Walk
<1>3. Types'
  BY <1>1, Zenon DEF IInv, Types, Walk
<1>4. Queues'
  BY Zenon DEF IInv, Queues, reuseVars, Walk
<1>5. Freelist'
  BY DEF IInv, Freelist, reuseVars, Walk
<1>6. HandOk(t)'
  BY <1>1, Zenon DEF HandOk, Walk
<1>7. Held(t)' = Held(t)
  <2>1. Held(t) = {}
    BY HeldCases, Zenon DEF Walk
  <2>2. Held(t)' = {}
    BY <1>1, HeldCasesNext DEF Walk
  <2>. QED
    BY <2>1, <2>2
<1>8. Alone(t) /\ ReservedTail(Home[t])' = ReservedTail(Home[t])
  <2>1. /\ Home[t] \in Shards /\ next' = next /\ end' = end
        /\ pc[t] # "storeNext" /\ pc'[t] # "storeNext"
    BY <1>1, ShardsAssumption DEF Walk
  <2>. QED
    BY <1>2, <2>1, KeepsRange, TailsKeep
<1>9. Owned'
  <2>1. live' = live /\ central' = central /\ globalNext' = globalNext
        /\ \A s \in Shards, b \in Buckets : buckets'[s][b] = buckets[s][b]
    BY DEF reuseVars, Walk
  <2> DEFINE S == {}
  <2>2. \A o : o \notin S
    OBVIOUS
  <2>. HIDE DEF S
  <2>3. \A o \in Places : o \notin S => Areas'[o] = Areas[o]
    <3>1. ChangesOnly(t, S)
      BY <1>7, <1>8, <2>1 DEF ChangesOnly
    <3>. QED
      BY <1>2, <1>8, <3>1, Elsewhere
  <2>4. Owned
    BY DEF IInv
  <2>. QED
    BY <2>1, <2>2, <2>3, <2>4, StillParted
<1>10. RangeOk(Home[t])' /\ globalNext <= globalNext'
  BY ShardsAssumption DEF IInv, Types, RangeOk, Walk
<1>. QED
  BY <1>2, <1>3, <1>4, <1>5, <1>6, <1>8, <1>9, <1>10, Assemble

\* Entering allocate_page keeps the invariant.
LEMMA AllocatePageStep ==
    ASSUME IInv, NEW t \in Threads, AllocatePage(t)
    PROVE  IInv'
<1>1. Walk(t, "popOwn")
  BY Zenon DEF AllocatePage, Goto, monotonicVars, IInv, Types, Walk
<1>. QED
  BY <1>1, Walks

\* Taking the shard's refill lock keeps the invariant.
LEMMA LockRefillStep ==
    ASSUME IInv, NEW t \in Threads, LockRefill(t)
    PROVE  IInv'
<1>1. refillLock' = [s \in Shards |-> refillLock'[s]]
  BY Zenon DEF LockRefill, IInv, Types
<1>2. probe' \in [Threads -> [offset : Nat, bucket : Buckets]]
  BY Zenon DEF LockRefill, IInv, Types
<1>3. Walk(t, "retry")
  BY <1>1, <1>2 DEF LockRefill, Goto, Walk
<1>. QED
  BY <1>3, Walks

\* A pop that finds its bucket empty and probes the next bucket or shard keeps
\* the invariant.
LEMMA PopMissesStep ==
    ASSUME IInv, NEW t \in Threads, PopMisses(t)
    PROVE  IInv'
<1>1. probe \in [Threads -> [offset : Nat, bucket : Buckets]]
  BY DEF IInv, Types
<1>2. /\ probe[t].offset \in Nat /\ probe[t].bucket \in 1..Len(BucketLimits)
      /\ FirstProbe \in [offset : Nat, bucket : Buckets]
      /\ Len(BucketLimits) \in Nat
  BY <1>1, BucketsAssumption DEF Buckets, FirstProbe
<1>3. probe' \in [Threads -> [offset : Nat, bucket : Buckets]]
  <2>1. CASE probe[t].bucket < Len(BucketLimits) /\ probe' = [probe EXCEPT ![t].bucket = @ + 1]
    <3> DEFINE r == [probe[t] EXCEPT !.bucket = probe[t].bucket + 1]
    <3>1. probe' = [probe EXCEPT ![t] = r]
      BY <2>1
    <3>2. r \in [offset : Nat, bucket : Buckets]
      <4>1. probe[t].bucket + 1 \in Buckets
        BY <1>2, <2>1 DEF Buckets
      <4>. QED
        BY <1>1, <4>1
    <3>. HIDE DEF r
    <3>. QED
      BY <1>1, <3>1, <3>2
  <2>2. CASE probe' = [probe EXCEPT ![t] = FirstProbe]
    BY <1>1, <1>2, <2>2
  <2>3. CASE probe' = [probe EXCEPT ![t] = [offset |-> @.offset + 1, bucket |-> 1]]
    <3>1. [offset |-> probe[t].offset + 1, bucket |-> 1] \in [offset : Nat, bucket : Buckets]
      BY <1>2 DEF Buckets
    <3>. QED
      BY <1>1, <2>3, <3>1
  <2>. QED
    BY <2>1, <2>2, <2>3, Zenon DEF PopMisses
<1>4. \E to \in {"popOwn", "popAgain", "steal", "refillBatch", "bestFit"} :
         pc' = [pc EXCEPT ![t] = to]
  <2>1. CASE pc' = pc
    <3>1. pc' = [pc EXCEPT ![t] = pc[t]]
      BY <2>1 DEF IInv, Types
    <3>. QED
      BY <3>1, Zenon DEF PopMisses, Popping
  <2>2. CASE pc' # pc
    BY <2>2, Zenon DEF PopMisses, Goto
  <2>. QED
    BY <2>1, <2>2
<1>5. PICK to \in {"popOwn", "popAgain", "steal", "refillBatch", "bestFit"} :
         pc' = [pc EXCEPT ![t] = to]
  BY <1>4, Zenon
<1>6. /\ pc[t] \in {"popOwn", "popAgain", "steal"}
      /\ UNCHANGED <<hand, live, reuseVars, globalNext, next, end>>
      /\ refillLock' = [s \in Shards |-> refillLock'[s]]
  BY Zenon DEF PopMisses, Popping, monotonicVars, IInv, Types
<1>7. Walk(t, to)
  BY <1>3, <1>5, <1>6 DEF Walk
<1>. QED
  BY <1>7, Walks

\* A step of t that leaves the monotonic ranges alone: t goes to `to' with h in
\* hand.
Turn(t, to, h) ==
    /\ pc' = [pc EXCEPT ![t] = to]
    /\ hand' = [hand EXCEPT ![t] = h]
    /\ h \in [start : Nat, len : Nat]
    /\ probe' \in [Threads -> [offset : Nat, bucket : Buckets]]
    /\ refillLock' = [s \in Shards |-> refillLock'[s]]
    /\ UNCHANGED <<globalNext, next, end>>

\* What a step has done that sets a thread's place and hand and moves pages
\* between two places.
LEMMA Turns ==
    ASSUME IInv, NEW t \in Threads, NEW to, NEW h, Turn(t, to, h)
    PROVE  /\ StepOf(t) /\ Alone(t) /\ Types' /\ pc'[t] = to /\ hand'[t] = h
           /\ RangeOk(Home[t])' /\ globalNext <= globalNext'
           /\ (pc[t] # "storeNext" /\ to # "storeNext" =>
                 ReservedTail(Home[t])' = ReservedTail(Home[t]))
<1>1. /\ pc' = [u \in Threads |-> pc'[u]] /\ pc'[t] = to
      /\ \A u \in Threads : u # t => pc'[u] = pc[u]
  BY Zenon DEF IInv, Types, Turn
<1>2. /\ hand' \in [Threads -> [start : Nat, len : Nat]] /\ hand'[t] = h
      /\ \A u \in Threads : u # t => hand'[u] = hand[u]
  <2>1. hand \in [Threads -> [start : Nat, len : Nat]]
    BY DEF IInv, Types
  <2>. QED
    BY <2>1 DEF Turn
<1>3. StepOf(t)
  BY <1>1, <1>2 DEF StepOf, Turn
<1>4. Types'
  BY <1>1, <1>2, Zenon DEF IInv, Types, Turn
<1>5. RangeOk(Home[t])' /\ globalNext <= globalNext'
  BY ShardsAssumption DEF IInv, Types, RangeOk, Turn
<1>0. Home[t] \in Shards /\ next' = next /\ end' = end
  BY ShardsAssumption DEF Turn
<1>6. ASSUME pc[t] # "storeNext", to # "storeNext"
      PROVE  ReservedTail(Home[t])' = ReservedTail(Home[t])
  BY <1>0, <1>1, <1>3, <1>6, TailsKeep
<1>7. Alone(t)
  BY <1>0, <1>3, KeepsRange
<1>. QED
  BY <1>1, <1>2, <1>3, <1>4, <1>5, <1>6, <1>7

\* The pages M go from one place to another.
Carried(from, dest, M) ==
    /\ from \in Places /\ dest \in Places /\ from # dest
    /\ M \subseteq Areas[from]
    /\ Areas'[from] = Areas[from] \ M
    /\ Areas'[dest] = Areas[dest] \cup M

\* Such a step keeps the invariant when it carries the pages from one place to
\* the other.
LEMMA TurnCarries ==
    ASSUME IInv, NEW t \in Threads, NEW to, NEW h, Turn(t, to, h),
           Queues', Freelist', HandOk(t)', NEW from, NEW dest, NEW M, Carried(from, dest, M),
           ChangesOnly(t, {from, dest})
    PROVE  IInv'
<1>1. StepOf(t) /\ Alone(t) /\ Types' /\ RangeOk(Home[t])' /\ globalNext <= globalNext'
  BY Turns
<1>2. globalNext' = globalNext /\ Owned
  BY DEF Turn, IInv
<1>3. \A o \in Places : o \notin {from, dest} => Areas'[o] = Areas[o]
  BY <1>1, Elsewhere
<1>4. Owned'
  BY <1>2, <1>3, Moves DEF Carried
<1>. QED
  BY <1>1, <1>4, Assemble

\* Popping an extent of a hot bucket, the own shard's or a stolen one, keeps
\* the invariant.
LEMMA PopStep ==
    ASSUME IInv, NEW t \in Threads, Pop(t)
    PROVE  IInv'
<1> DEFINE s == ProbedShard(t)
           b == probe[t].bucket
           q == buckets[s][b]
           e == Head(q)
           from == Bucket(s, b)
           dest == Hands(t)
           to == IF e.len = 1 THEN "return" ELSE "remainder"
           h == IF e.len = 1 THEN Extent(e.start, 1) ELSE e
<1>1. s \in Shards /\ b \in Buckets /\ QueueOk(q, b) /\ q # <<>>
  <2>1. s \in Shards /\ b \in Buckets
    BY Probed DEF IInv
  <2>. QED
    BY <2>1, Zenon DEF Pop, ProbedQueue, IInv, Queues
<1>2. /\ QueueOk(Tail(q), b) /\ IsExtent(e) /\ e.len <= BucketLimits[b]
      /\ PagesOf(e) \subseteq QueuePages(q)
      /\ QueuePages(Tail(q)) = QueuePages(q) \ PagesOf(e)
  BY <1>1, QueueTail, Zenon
<1>3. SetBucket(s, b, Tail(q))
  BY Zenon DEF Pop, SetBucket
<1>4. /\ pc[t] \in {"popOwn", "popAgain", "steal"}
      /\ pc' = [pc EXCEPT ![t] = to] /\ hand' = [hand EXCEPT ![t] = h]
      /\ UNCHANGED <<probe, central, freeBasePages, live, globalNext, next, end, refillLock>>
  BY Zenon DEF Pop, Popping, ProbedQueue, Return, Goto, Hold, monotonicVars
<1>. HIDE DEF s, b, q
<1>5. /\ Queues' /\ buckets'[s][b] = Tail(q)
      /\ \A r \in Shards, a \in Buckets : buckets'[r][a] = buckets[r][a] \/ (r = s /\ a = b)
  <2>1. Queues
    BY DEF IInv
  <2>. QED
    BY <1>1, <1>2, <1>3, <2>1, BucketSet, ZenonT(30)
<1>. HIDE DEF e
<1>6. e.start \in Nat /\ e.len \in Nat /\ e.len >= 1
  BY <1>2, ExtentPages
<1>7. h \in [start : Nat, len : Nat] /\ h.len = e.len /\ PagesOf(h) = PagesOf(e)
  <2>1. CASE e.len = 1
    <3>1. \A p : p \in PagesOf(e) <=> p \in Nat /\ e.start <= p /\ p < e.start + e.len
      BY <1>2, ExtentPages
    <3>2. PagesOf(e) = {e.start}
      BY <1>6, <2>1, <3>1
    <3>. QED
      BY <1>6, <2>1, <3>2, OnePage
  <2>2. CASE e.len # 1
    BY <1>2, <2>2 DEF IsExtent
  <2>. QED
    BY <2>1, <2>2, Zenon
<1>8. to \in {"return", "remainder"} /\ (to = "return" => e.len = 1) /\ (to = "remainder" => e.len # 1)
  OBVIOUS
<1>. HIDE DEF h, to
<1>9. Turn(t, to, h)
  BY <1>4, <1>7, Zenon DEF Turn, IInv, Types
<1>10. /\ pc'[t] = to /\ hand'[t] = h /\ ReservedTail(Home[t])' = ReservedTail(Home[t])
  BY <1>4, <1>8, <1>9, Turns
<1>11. HandOk(t)'
  <2>1. to = "remainder" => h.len >= 2 /\ \E a \in Buckets : h.len <= BucketLimits[a]
    BY <1>1, <1>2, <1>6, <1>7, <1>8
  <2>2. to = "return" => h.len = 1
    BY <1>7, <1>8
  <2>. QED
    BY <1>8, <1>10, <2>1, <2>2, Zenon DEF HandOk
<1>12. Freelist'
  BY <1>4 DEF IInv, Freelist
<1>13. Held(t) = {} /\ Held(t)' = PagesOf(e)
  BY <1>4, <1>7, <1>8, <1>10, HeldCases, HeldCasesNext, Zenon
<1>14. Carried(from, dest, PagesOf(e))
  <2>1. from \in Places /\ dest \in Places /\ from # dest
    BY <1>1, PlaceAreas, Zenon
  <2>2. Areas[from] = QueuePages(q) /\ Areas[dest] = {}
    BY <1>1, <1>13, PlaceAreas, Zenon DEF q
  <2>3. Areas'[from] = QueuePages(Tail(q)) /\ Areas'[dest] = PagesOf(e)
    BY <1>1, <1>5, <1>13, PlaceAreasNext, Zenon
  <2>. QED
    BY <1>2, <2>1, <2>2, <2>3, Zenon DEF Carried
<1>15. ChangesOnly(t, {from, dest})
  BY <1>4, <1>5, <1>10, Zenon DEF ChangesOnly
<1>. QED
  BY <1>5, <1>9, <1>11, <1>12, <1>14, <1>15, TurnCarries, Zenon

\* push of pages that t holds.
LEMMA Pushes ==
    ASSUME LeastNumber, IInv, NEW t \in Threads, NEW s \in Shards, NEW x, IsExtent(x),
           NEW c \in Buckets, x.len <= BucketLimits[c], PagesOf(x) \subseteq Held(t), Push(s, x)
    PROVE  LET b == HotBucketForLen(x.len)
           IN  /\ b \in Buckets /\ Queues'
               /\ QueuePages(buckets'[s][b]) = QueuePages(buckets[s][b]) \cup PagesOf(x)
               /\ \A r \in Shards, a \in Buckets :
                    buckets'[r][a] = buckets[r][a] \/ (r = s /\ a = b)
<1> DEFINE b == HotBucketForLen(x.len)
           q == buckets[s][b]
<1>1. x.len \in Nat
  BY DEF IsExtent
<1>2. b \in Buckets /\ x.len <= BucketLimits[b]
  BY <1>1, BucketFound
<1>3. SetBucket(s, b, Append(q, x))
  BY Zenon DEF Push, SetBucket
<1>. HIDE DEF b
<1>4. QueueOk(q, b) /\ Queues
  BY <1>2 DEF IInv, Queues
<1>5. PagesOf(x) \cap QueuePages(q) = {}
  <2>1. /\ Bucket(s, b) \in Places /\ Hands(t) \in Places /\ Bucket(s, b) # Hands(t)
        /\ Areas[Bucket(s, b)] = QueuePages(q) /\ Areas[Hands(t)] = Held(t)
    BY <1>2, PlaceAreas, Zenon
  <2>2. \A o1, o2 \in Places : o1 # o2 => Areas[o1] \cap Areas[o2] = {}
    BY DEF IInv, Owned, Parted
  <2>3. QueuePages(q) \cap Held(t) = {}
    BY <2>1, <2>2
  <2>. QED
    BY <2>3
<1>. HIDE DEF q
<1>6. QueueOk(Append(q, x), b) /\ QueuePages(Append(q, x)) = QueuePages(q) \cup PagesOf(x)
  BY <1>2, <1>4, <1>5, QueueAppend
<1>7. /\ Queues' /\ buckets'[s][b] = Append(q, x)
      /\ \A r \in Shards, a \in Buckets : buckets'[r][a] = buckets[r][a] \/ (r = s /\ a = b)
  BY <1>2, <1>3, <1>4, <1>6, BucketSet, ZenonT(30)
<1>. QED
  BY <1>2, <1>6, <1>7, Zenon DEF b, q

\* t pushes x and goes on with the rest of what it holds.
LEMMA PushTurns ==
    ASSUME LeastNumber, IInv, NEW t \in Threads, NEW s \in Shards, NEW x, IsExtent(x),
           NEW c \in Buckets, x.len <= BucketLimits[c], PagesOf(x) \subseteq Held(t), Push(s, x),
           NEW to, NEW h, Turn(t, to, h), pc[t] # "storeNext", to # "storeNext",
           UNCHANGED <<central, freeBasePages, live>>,
           HandOk(t)', Held(t)' = Held(t) \ PagesOf(x)
    PROVE  IInv'
<1> DEFINE b == HotBucketForLen(x.len)
           from == Hands(t)
           dest == Bucket(s, b)
<1>1. /\ b \in Buckets /\ Queues'
      /\ QueuePages(buckets'[s][b]) = QueuePages(buckets[s][b]) \cup PagesOf(x)
      /\ \A r \in Shards, a \in Buckets : buckets'[r][a] = buckets[r][a] \/ (r = s /\ a = b)
  BY Pushes, Zenon
<1>. HIDE DEF b
<1>2. Freelist'
  BY DEF IInv, Freelist
<1>3. Carried(from, dest, PagesOf(x))
  <2>1. from \in Places /\ dest \in Places /\ from # dest
    BY <1>1, PlaceAreas, Zenon
  <2>2. Areas[from] = Held(t) /\ Areas[dest] = QueuePages(buckets[s][b])
    BY <1>1, PlaceAreas, Zenon
  <2>3. Areas'[from] = Held(t)' /\ Areas'[dest] = QueuePages(buckets'[s][b])
    BY <1>1, PlaceAreasNext, Zenon
  <2>. QED
    BY <1>1, <2>1, <2>2, <2>3, Zenon DEF Carried
<1>4. ReservedTail(Home[t])' = ReservedTail(Home[t])
  BY Turns, Zenon
<1>5. ChangesOnly(t, {from, dest})
  BY <1>1, <1>4, Zenon DEF ChangesOnly
<1>. QED
  BY <1>1, <1>2, <1>3, <1>5, TurnCarries, Zenon

\* Pushing back the rest of a stolen or refilled extent keeps the invariant.
LEMMA ReturnRemainderStep ==
    ASSUME LeastNumber, IInv, NEW t \in Threads, ReturnRemainder(t)
    PROVE  IInv'
<1> DEFINE g == hand[t]
           x == Extent(g.start + 1, g.len - 1)
           h == Extent(g.start, 1)
           s == ProbedShard(t)
<1>1. /\ pc[t] = "remainder" /\ pc' = [pc EXCEPT ![t] = "return"]
      /\ hand' = [hand EXCEPT ![t] = h] /\ Push(s, x)
      /\ UNCHANGED <<probe, central, freeBasePages, live, globalNext, next, end, refillLock>>
  BY DEF ReturnRemainder, Return, Goto, Hold, monotonicVars
<1>2. g \in [start : Nat, len : Nat] /\ g.len >= 2 /\ s \in Shards
  BY <1>1, Probed, Zenon DEF IInv, Types, HandOk
<1>3. PICK c \in Buckets : g.len <= BucketLimits[c]
  BY <1>1, Zenon DEF IInv, HandOk
<1>. HIDE DEF g, s
<1>4. g.start + 1 \in Nat /\ g.len - 1 \in Nat \ {0} /\ g.start \in Nat /\ g.len \in Nat
  BY <1>2
<1>5. IsExtent(x) /\ x.start = g.start + 1 /\ x.len = g.len - 1
  BY <1>4, ExtentFacts, Zenon
<1>6. IsExtent(g)
  BY <1>2 DEF IsExtent
<1>7. h \in [start : Nat, len : Nat] /\ h.len = 1 /\ PagesOf(h) = {g.start}
  BY <1>4, OnePage
<1>. HIDE DEF x, h
<1>8. PagesOf(x) \subseteq PagesOf(g) /\ PagesOf(g) \ PagesOf(x) = {g.start}
  <2>1. \A p : p \in PagesOf(x) <=> p \in Nat /\ g.start + 1 <= p /\ p < (g.start + 1) + (g.len - 1)
    BY <1>5, ExtentPages
  <2>2. \A p : p \in PagesOf(g) <=> p \in Nat /\ g.start <= p /\ p < g.start + g.len
    BY <1>6, ExtentPages
  <2>. QED
    BY <1>2, <1>4, <2>1, <2>2
<1>9. Turn(t, "return", h)
  BY <1>1, <1>7, Zenon DEF Turn, IInv, Types
<1>10. pc'[t] = "return" /\ hand'[t] = h
  BY <1>9, Turns
<1>11. Held(t) = PagesOf(g) /\ Held(t)' = {g.start}
  BY <1>1, <1>7, <1>10, HeldCases, HeldCasesNext, Zenon DEF g
<1>12. HandOk(t)'
  BY <1>7, <1>10 DEF HandOk
<1>13. x.len <= BucketLimits[c]
  <2>1. BucketLimits[c] \in Nat
    BY BucketsAssumption DEF Buckets
  <2>. QED
    BY <1>3, <1>4, <1>5, <2>1
<1>14. Held(t)' = Held(t) \ PagesOf(x) /\ PagesOf(x) \subseteq Held(t)
  BY <1>8, <1>11
<1>15. UNCHANGED <<central, freeBasePages, live>> /\ Push(s, x) /\ pc[t] # "storeNext"
  BY <1>1
<1>. QED
  BY <1>2, <1>5, <1>9, <1>12, <1>13, <1>14, <1>15, PushTurns, Zenon

\* Pushing an extent taken from the freelist to the home shard's bucket keeps
\* the invariant.
LEMMA RefillPushStep ==
    ASSUME LeastNumber, IInv, NEW t \in Threads, RefillPush(t)
    PROVE  IInv'
<1> DEFINE x == hand[t]
           s == Home[t]
           c == Len(BucketLimits)
<1>1. /\ pc[t] = "refillPush" /\ pc' = [pc EXCEPT ![t] = "popAgain"]
      /\ hand' = [hand EXCEPT ![t] = NoExtent] /\ Push(s, x)
      /\ UNCHANGED <<probe, central, freeBasePages, live, globalNext, next, end, refillLock>>
  BY DEF RefillPush, Goto, Hold, monotonicVars
<1>2. x \in [start : Nat, len : Nat] /\ x.len >= 1 /\ x.len <= BucketLimits[c] /\ s \in Shards
  BY <1>1, ShardsAssumption, Zenon DEF IInv, Types, HandOk, LongestHot
<1>3. c \in Buckets
  BY BucketsAssumption DEF Buckets
<1>4. NoExtent \in [start : Nat, len : Nat]
  BY DEF NoExtent, Extent
<1>5. Turn(t, "popAgain", NoExtent)
  BY <1>1, <1>4, Zenon DEF Turn, IInv, Types
<1>6. pc'[t] = "popAgain"
  BY <1>5, Turns
<1>7. Held(t) = PagesOf(x) /\ Held(t)' = {}
  BY <1>1, <1>6, HeldCases, HeldCasesNext, Zenon
<1>8. HandOk(t)'
  BY <1>6 DEF HandOk
<1>. HIDE DEF x, s, c
<1>9. IsExtent(x)
  BY <1>2 DEF IsExtent
<1>10. Held(t)' = Held(t) \ PagesOf(x) /\ PagesOf(x) \subseteq Held(t)
  BY <1>7
<1>11. UNCHANGED <<central, freeBasePages, live>> /\ Push(s, x) /\ pc[t] # "storeNext"
  BY <1>1
<1>. QED
  BY <1>2, <1>3, <1>5, <1>8, <1>9, <1>10, <1>11, PushTurns, Zenon

\* t takes n pages off the freelist.
Takes(n) ==
    /\ n \in Nat \ {0} /\ Fits(central, n) # {}
    /\ central' = CentralTake(central, n)
    /\ UNCHANGED <<buckets, live>>

\* allocate_best_fit moves the pages it takes from the freelist to the hands of
\* its caller.
LEMMA TakeTurns ==
    ASSUME LeastNumber, IInv, NEW t \in Threads, NEW n, Takes(n), NEW to, NEW h,
           h = Extent(BestFit(central, n).start, n),
           pc[t] \in {"refillBatch", "refillOne", "bestFit"},
           pc' = [pc EXCEPT ![t] = to], hand' = [hand EXCEPT ![t] = h],
           UNCHANGED <<probe, globalNext, next, end, refillLock>>,
           \/ to = "refillPush" /\ n <= LongestHot
           \/ to = "return" /\ n = 1
    PROVE  IInv'
<1> DEFINE from == Central
           dest == Hands(t)
<1>1. /\ Freelist' /\ IsExtent(h) /\ h.len = n /\ PagesOf(h) \subseteq PagesIn(central)
      /\ PagesIn(central') = PagesIn(central) \ PagesOf(h)
  BY FreelistTake, Zenon DEF IInv, Takes
<1>2. Turn(t, to, h)
  BY <1>1, Zenon DEF Turn, IInv, Types, IsExtent
<1>3. pc'[t] = to /\ hand'[t] = h /\ ReservedTail(Home[t])' = ReservedTail(Home[t])
  BY <1>2, Turns
<1>4. Queues'
  BY DEF IInv, Queues, Takes
<1>5. HandOk(t)'
  <2>1. h.len \in Nat /\ h.len >= 1
    BY <1>1 DEF IsExtent
  <2>2. CASE to = "refillPush" /\ n <= LongestHot
    BY <1>1, <1>3, <2>1, <2>2, Zenon DEF HandOk
  <2>3. CASE to = "return" /\ n = 1
    BY <1>1, <1>3, <2>1, <2>3, Zenon DEF HandOk
  <2>. QED
    BY <2>2, <2>3
<1>6. Held(t) = {} /\ Held(t)' = PagesOf(h)
  BY <1>3, HeldCases, HeldCasesNext, Zenon
<1>7. Carried(from, dest, PagesOf(h))
  <2>1. from \in Places /\ dest \in Places /\ from # dest
    BY PlaceAreas, Zenon
  <2>2. Areas[from] = PagesIn(central) /\ Areas[dest] = {}
    BY <1>6, PlaceAreas, Zenon
  <2>3. Areas'[from] = PagesIn(central') /\ Areas'[dest] = PagesOf(h)
    BY <1>6, PlaceAreasNext, Zenon
  <2>. QED
    BY <1>1, <2>1, <2>2, <2>3, Zenon DEF Carried
<1>8. ChangesOnly(t, {from, dest})
  BY <1>3, Zenon DEF ChangesOnly, Takes
<1>. QED
  BY <1>1, <1>2, <1>4, <1>5, <1>7, <1>8, TurnCarries, Zenon

\* The longest hot extent has a positive length.
LEMMA LongestHotType == LongestHot \in Nat \ {0}
<1>1. Len(BucketLimits) \in DOMAIN BucketLimits
  BY BucketsAssumption
<1>. QED
  BY <1>1, BucketsAssumption DEF LongestHot

\* Refilling a shard from the freelist keeps the invariant.
LEMMA RefillShardStep ==
    ASSUME LeastNumber, IInv, NEW t \in Threads, RefillShard(t)
    PROVE  IInv'
<1> DEFINE n == RefillLen(pc[t])
<1>1. n \in Nat \ {0} /\ n <= LongestHot
  BY LongestHotType, BucketsAssumption DEF RefillLen
<1>2. /\ pc[t] \in {"refillBatch", "refillOne"}
      /\ UNCHANGED <<probe, buckets, live, globalNext, next, end, refillLock>>
  BY DEF RefillShard, monotonicVars
<1>3. CASE Fits(central, n) # {}
  <2> DEFINE h == Extent(BestFit(central, n).start, n)
             to == "refillPush"
  <2>1. /\ Takes(n) /\ pc' = [pc EXCEPT ![t] = to] /\ hand' = [hand EXCEPT ![t] = h]
    BY <1>1, <1>2, <1>3, Zenon DEF RefillShard, Takes, Goto, Hold
  <2>2. h = Extent(BestFit(central, n).start, n) /\ to = "refillPush"
    OBVIOUS
  <2>. HIDE DEF h, to, n
  <2>. QED
    BY <1>1, <1>2, <2>1, <2>2, TakeTurns, Zenon
<1>4. CASE Fits(central, n) = {}
  <2> DEFINE to == IF pc[t] = "refillBatch" THEN "refillOne" ELSE "popAgain"
  <2>1. pc' = [pc EXCEPT ![t] = to] /\ UNCHANGED <<hand, central, freeBasePages>>
    BY <1>4 DEF RefillShard, Goto
  <2>2. to \in {"refillOne", "popAgain"}
    OBVIOUS
  <2>. HIDE DEF to
  <2>3. Walk(t, to)
    BY <1>2, <2>1, <2>2, Zenon DEF Walk, IInv, Types, reuseVars
  <2>. QED
    BY <2>3, Walks
<1>. QED
  BY <1>3, <1>4

\* Taking one page from the freelist keeps the invariant.
LEMMA AllocateBestFitStep ==
    ASSUME LeastNumber, IInv, NEW t \in Threads, AllocateBestFit(t)
    PROVE  IInv'
<1>1. /\ pc[t] = "bestFit"
      /\ UNCHANGED <<probe, buckets, live, globalNext, next, end, refillLock>>
  BY DEF AllocateBestFit, monotonicVars
<1>2. CASE Fits(central, 1) # {}
  <2> DEFINE h == Extent(BestFit(central, 1).start, 1)
             to == "return"
             n == 1
  <2>1. /\ Takes(n) /\ pc' = [pc EXCEPT ![t] = to] /\ hand' = [hand EXCEPT ![t] = h]
    BY <1>1, <1>2 DEF AllocateBestFit, Takes, Goto, Hold, Return
  <2>2. h = Extent(BestFit(central, n).start, n) /\ to = "return" /\ n = 1
    OBVIOUS
  <2>. HIDE DEF h, to, n
  <2>. QED
    BY <1>1, <2>1, <2>2, TakeTurns, Zenon
<1>3. CASE Fits(central, 1) = {}
  <2>1. pc' = [pc EXCEPT ![t] = "try"] /\ UNCHANGED <<hand, central, freeBasePages>>
    BY <1>3 DEF AllocateBestFit, Goto
  <2>2. Walk(t, "try")
    BY <1>1, <2>1 DEF Walk, IInv, Types, reuseVars
  <2>. QED
    BY <2>2, Walks
<1>. QED
  BY <1>2, <1>3

\* Returning a page id to the caller keeps the invariant.
LEMMA DeliverStep ==
    ASSUME IInv, NEW t \in Threads, Deliver(t)
    PROVE  IInv'
<1> DEFINE p == hand[t].start
           from == Hands(t)
           dest == Live
<1>1. /\ pc[t] = "return" /\ pc' = [pc EXCEPT ![t] = "idle"] /\ live' = live \cup {p}
      /\ hand' = [hand EXCEPT ![t] = NoExtent] /\ probe' = [probe EXCEPT ![t] = FirstProbe]
      /\ UNCHANGED <<buckets, central, freeBasePages, globalNext, next, end, refillLock>>
  BY DEF Deliver, Goto, Hold, reuseVars, monotonicVars
<1>2. hand[t] \in [start : Nat, len : Nat] /\ hand[t].len = 1
  BY <1>1, Zenon DEF IInv, Types, HandOk
<1>3. PagesOf(hand[t]) = {p} /\ p \in Nat
  <2>1. IsExtent(hand[t])
    BY <1>2 DEF IsExtent
  <2>2. \A k : k \in PagesOf(hand[t]) <=> k \in Nat /\ p <= k /\ k < p + hand[t].len
    BY <2>1, ExtentPages
  <2>. QED
    BY <1>2, <2>2
<1>4. NoExtent \in [start : Nat, len : Nat] /\ FirstProbe \in [offset : Nat, bucket : Buckets]
  BY BucketsAssumption DEF NoExtent, Extent, FirstProbe, Buckets
<1>5. Turn(t, "idle", NoExtent)
  <2>1. probe' \in [Threads -> [offset : Nat, bucket : Buckets]]
    BY <1>1, <1>4, Zenon DEF IInv, Types
  <2>. QED
    BY <1>1, <1>4, <2>1, Zenon DEF Turn, IInv, Types
<1>6. pc'[t] = "idle" /\ ReservedTail(Home[t])' = ReservedTail(Home[t])
  BY <1>1, <1>5, Turns
<1>7. Held(t) = {p} /\ Held(t)' = {}
  BY <1>1, <1>3, <1>6, HeldCases, HeldCasesNext, Zenon
<1>8. HandOk(t)'
  BY <1>6 DEF HandOk
<1>9. Queues' /\ Freelist'
  BY <1>1, Zenon DEF IInv, Queues, Freelist
<1>10. Carried(from, dest, {p})
  <2>1. from \in Places /\ dest \in Places /\ from # dest
    BY PlaceAreas
  <2>2. Areas[from] = {p} /\ Areas[dest] = live /\ Areas'[from] = {} /\ Areas'[dest] = live \cup {p}
    BY <1>1, <1>7, PlaceAreas, PlaceAreasNext, Zenon
  <2>. QED
    BY <2>1, <2>2 DEF Carried
<1>11. ChangesOnly(t, {from, dest})
  BY <1>1, <1>6 DEF ChangesOnly
<1>. QED
  BY <1>5, <1>8, <1>9, <1>10, <1>11, TurnCarries

\* A step of t in the monotonic part: t goes to `to' with h in hand, and only
\* its own shard's range moves.
Grows(t, to, h, n, z) ==
    /\ pc' = [pc EXCEPT ![t] = to]
    /\ hand' = [hand EXCEPT ![t] = h]
    /\ h \in [start : Nat, len : Nat]
    /\ next' = [next EXCEPT ![Home[t]] = n] /\ n \in Nat
    /\ end' = [end EXCEPT ![Home[t]] = z] /\ z \in Nat
    /\ refillLock' = [s \in Shards |-> refillLock'[s]]
    /\ UNCHANGED <<live, probe, reuseVars>>

\* What the steps of the monotonic path leave alone and what they set in the
\* home shard.
LEMMA GrowsStep ==
    ASSUME IInv, NEW t \in Threads, NEW to, NEW h, NEW n, NEW z, Grows(t, to, h, n, z)
    PROVE  /\ StepOf(t) /\ pc'[t] = to /\ hand'[t] = h
           /\ next'[Home[t]] = n /\ end'[Home[t]] = z
           /\ Queues' /\ Freelist'
           /\ (globalNext' \in Nat /\ globalNext <= globalNext' => Types')
<1>0. Home[t] \in Shards
  BY ShardsAssumption
<1>1. /\ pc' = [u \in Threads |-> pc'[u]] /\ pc'[t] = to
      /\ \A u \in Threads : u # t => pc'[u] = pc[u]
  BY Zenon DEF IInv, Types, Grows
<1>2. /\ hand' \in [Threads -> [start : Nat, len : Nat]] /\ hand'[t] = h
      /\ \A u \in Threads : u # t => hand'[u] = hand[u]
  <2>1. hand \in [Threads -> [start : Nat, len : Nat]]
    BY DEF IInv, Types
  <2>. QED
    BY <2>1 DEF Grows
<1>3. /\ next' \in [Shards -> Nat] /\ next'[Home[t]] = n
      /\ \A s \in Shards : s # Home[t] => next'[s] = next[s]
  <2>1. next \in [Shards -> Nat]
    BY DEF IInv, Types
  <2>. QED
    BY <1>0, <2>1 DEF Grows
<1>4. /\ end' \in [Shards -> Nat] /\ end'[Home[t]] = z
      /\ \A s \in Shards : s # Home[t] => end'[s] = end[s]
  <2>1. end \in [Shards -> Nat]
    BY DEF IInv, Types
  <2>. QED
    BY <1>0, <2>1 DEF Grows
<1>5. StepOf(t)
  BY <1>1, <1>2, <1>3, <1>4 DEF StepOf
<1>6. ASSUME globalNext' \in Nat, globalNext <= globalNext' PROVE Types'
  <2>1. globalNext \in Nat /\ FirstPage <= globalNext /\ FirstPage \in Nat
    BY PagesAssumption DEF IInv, Types
  <2>2. FirstPage <= globalNext'
    BY <1>6, <2>1
  <2>. QED
    BY <1>1, <1>2, <1>3, <1>4, <1>6, <2>2, Zenon DEF IInv, Types, Grows
<1>7. Queues'
  BY Zenon DEF IInv, Queues, Grows, reuseVars
<1>8. Freelist'
  BY DEF IInv, Freelist, Grows, reuseVars
<1>. QED
  BY <1>1, <1>2, <1>3, <1>4, <1>5, <1>6, <1>7, <1>8, Zenon

\* A step in the monotonic part that moves pages.
LEMMA GrowsCarries ==
    ASSUME IInv, NEW t \in Threads, NEW to, NEW h, NEW n, NEW z, Grows(t, to, h, n, z),
           globalNext' = globalNext, HandOk(t)', Alone(t), n # 0 \/ z = 0, z <= globalNext,
           NEW from, NEW dest, NEW M, Carried(from, dest, M),
           {from, dest} = {Hands(t), Reservation(Home[t])}
    PROVE  IInv'
<1>1. /\ StepOf(t) /\ next'[Home[t]] = n /\ end'[Home[t]] = z /\ Queues' /\ Freelist'
      /\ (globalNext' \in Nat /\ globalNext <= globalNext' => Types')
  BY GrowsStep, SMTT(30), ZenonT(30)
<1>2. Types' /\ Owned
  <2>1. globalNext \in Nat
    BY DEF IInv, Types
  <2>. QED
    BY <1>1, <2>1 DEF IInv
<1>3. ChangesOnly(t, {from, dest})
  BY Zenon DEF ChangesOnly, Grows, reuseVars
<1>4. \A o \in Places : o \notin {from, dest} => Areas'[o] = Areas[o]
  BY <1>1, <1>3, Elsewhere, ZenonT(30)
<1>5. Owned'
  BY <1>2, <1>4, Moves DEF Carried
<1>6. RangeOk(Home[t])' /\ globalNext <= globalNext'
  BY <1>1 DEF IInv, Types, RangeOk
<1>. QED
  BY <1>1, <1>2, <1>5, <1>6, Assemble, ZenonT(30)

\* The fetch_add on the next page of the home shard keeps the invariant.
LEMMA FetchNextStep ==
    ASSUME IInv, NEW t \in Threads, FetchNext(t), ~crossed'
    PROVE  IInv'
<1> DEFINE s == Home[t]
           k == next[s]
           z == end[s]
           h == Extent(k, 1)
           to == CASE k # 0 -> (IF pc[t] = "try" THEN "check" ELSE "recheck")
                   [] k = 0 -> (IF pc[t] = "try" THEN "lock" ELSE "reserve")
           M == {k} \cap 0..(z - 1)
           from == Reservation(s)
           dest == Hands(t)
<1>1. s \in Shards /\ k \in Nat /\ z \in Nat /\ (k = 0 => z = 0) /\ z <= globalNext
  BY ShardsAssumption DEF IInv, Types, RangeOk
<1>2. /\ pc[t] \in {"try", "retry"} /\ next' = [next EXCEPT ![s] = k + 1]
      /\ hand' = [hand EXCEPT ![t] = h] /\ pc' = [pc EXCEPT ![t] = to]
      /\ UNCHANGED <<globalNext, end, refillLock, live, probe, reuseVars>>
  BY DEF FetchNext, Hold, Goto
<1>3. /\ to \in {"check", "recheck", "lock", "reserve"}
      /\ (to \in {"check", "recheck"} <=> k # 0)
  <2>1. CASE k # 0
    BY <1>2, <2>1
  <2>2. CASE k = 0
    BY <1>2, <2>2
  <2>. QED
    BY <2>1, <2>2, Zenon
<1>4. h \in [start : Nat, len : Nat] /\ h.start = k
  BY <1>1, OnePage, Zenon
<1>5. end' = [end EXCEPT ![s] = z]
  BY <1>1, <1>2, Zenon DEF IInv, Types
<1>. HIDE DEF h, to
<1>6. Grows(t, to, h, k + 1, z)
  <2>1. refillLock' = [r \in Shards |-> refillLock'[r]]
    BY <1>2 DEF IInv, Types
  <2>2. k + 1 \in Nat
    BY <1>1
  <2>3. UNCHANGED <<live, probe, reuseVars>>
    BY <1>2
  <2>. QED
    BY <1>1, <1>2, <1>4, <1>5, <2>1, <2>2, <2>3, Zenon DEF Grows
<1>7. StepOf(t) /\ pc'[t] = to /\ hand'[t] = h /\ next'[s] = k + 1 /\ end'[s] = z
  BY <1>6, GrowsStep, SMTT(30), ZenonT(30)
<1>0. Sole(pc, t) /\ Sole(pc', t)
  <2>1. \A u \in Threads : u # t /\ Home[u] = Home[t] => pc[u] # "storeNext"
    BY DEF FetchNext, OthersAtHome
  <2>. QED
    BY <1>7, <2>1 DEF Sole, StepOf
<1>13. Alone(t)
  <2>1. \A u \in Threads : u # t => Held(u)' = Held(u)
    BY <1>7, HeldKept
  <2>2. ASSUME NEW u \in Threads, u # t, HandOk(u) PROVE HandOk(u)'
    <3>1. /\ pc'[u] = pc[u] /\ hand'[u] = hand[u] /\ end'[Home[u]] = end[Home[u]]
          /\ next[Home[u]] <= next'[Home[u]] /\ (next[Home[u]] # 0 => next'[Home[u]] # 0)
      <4>1. Home[u] \in Shards /\ next[Home[u]] \in Nat
        BY ShardsAssumption DEF IInv, Types
      <4>. QED
        BY <1>1, <1>7, <2>2, <4>1 DEF StepOf
    <3>2. /\ next[Home[u]] \in Nat /\ next'[Home[u]] \in Nat /\ end[Home[u]] \in Nat
          /\ hand[u].start \in Nat
      BY <1>1, <1>7, <2>2, ShardsAssumption DEF StepOf, IInv, Types
    <3>. QED
      BY <2>2, <3>1, <3>2 DEF HandOk
  <2>. QED
    BY <2>1, <2>2 DEF Alone
<1>8. HandOk(t)'
  BY <1>1, <1>3, <1>4, <1>7 DEF HandOk
<1>9. Held(t) = {} /\ Held(t)' = M
  <2>1. Held(t) = {}
    BY <1>2, HeldCases, Zenon
  <2>2. CASE k # 0
    <3>1. pc'[t] \in {"check", "recheck"}
      BY <1>3, <1>7, <2>2
    <3>2. Held(t)' = {hand'[t].start} \cap 0..(end'[s] - 1)
      BY <3>1, HeldCasesNext
    <3>. QED
      BY <1>4, <1>7, <2>1, <3>2
  <2>3. CASE k = 0
    <3>1. M = {}
      BY <1>1, <2>3
    <3>. QED
      BY <1>3, <1>7, <2>1, <2>3, <3>1, HeldCasesNext, Zenon
  <2>. QED
    BY <2>1, <2>2, <2>3
<1>10. ReservedTail(s) = k..(z - 1) /\ ReservedTail(s)' = (k + 1)..(z - 1)
  <2>1. pc[t] # "storeNext" /\ pc'[t] # "storeNext"
    BY <1>2, <1>3, <1>7
  <2>2. ReservedTail(s) = next[s]..(end[s] - 1) /\ ReservedTail(s)' = next'[s]..(end'[s] - 1)
    BY <1>0, <2>1, OwnTail, Zenon
  <2>. QED
    BY <1>7, <2>2, Zenon
<1>11. Carried(from, dest, M)
  <2>1. from \in Places /\ dest \in Places /\ from # dest
    BY <1>1, PlaceAreas, Zenon
  <2>2. /\ Areas[from] = k..(z - 1) /\ Areas[dest] = {}
        /\ Areas'[from] = (k + 1)..(z - 1) /\ Areas'[dest] = M
    BY <1>1, <1>9, <1>10, PlaceAreas, PlaceAreasNext, Zenon
  <2>3. M \subseteq k..(z - 1) /\ (k..(z - 1)) \ M = (k + 1)..(z - 1)
    <3>1. CASE k < z
      <4>1. M = {k}
        BY <1>1, <3>1
      <4>. QED
        BY <1>1, <3>1, <4>1
    <3>2. CASE ~(k < z)
      <4>1. M = {} /\ k..(z - 1) = {} /\ (k + 1)..(z - 1) = {}
        BY <1>1, <3>2
      <4>. QED
        BY <4>1, Zenon
    <3>. QED
      BY <3>1, <3>2, Zenon
  <2>. QED
    BY <2>1, <2>2, <2>3, Zenon DEF Carried
<1>12. globalNext' = globalNext /\ k + 1 # 0 /\ {from, dest} = {Hands(t), Reservation(Home[t])}
  BY <1>1, <1>2
<1>. HIDE DEF from, dest, M
<1>. QED
  BY <1>1, <1>6, <1>8, <1>11, <1>12, <1>13, GrowsCarries, Zenon

\* A step that moves no page keeps the invariant.
LEMMA TurnStays ==
    ASSUME IInv, NEW t \in Threads, NEW to, NEW h, Turn(t, to, h),
           pc[t] # "storeNext", to # "storeNext", HandOk(t)', Held(t)' = Held(t),
           UNCHANGED <<live, reuseVars>>
    PROVE  IInv'
<1>1. /\ StepOf(t) /\ Alone(t) /\ Types' /\ RangeOk(Home[t])' /\ globalNext <= globalNext'
      /\ ReservedTail(Home[t])' = ReservedTail(Home[t])
  BY Turns
<1>2. globalNext' = globalNext /\ Owned
  BY DEF Turn, IInv
<1>3. Queues' /\ Freelist'
  BY DEF IInv, Queues, Freelist, reuseVars
<1> DEFINE S == {}
<1>4. \A o : o \notin S
  OBVIOUS
<1>. HIDE DEF S
<1>5. ChangesOnly(t, S)
  BY <1>1 DEF ChangesOnly, reuseVars
<1>6. \A o \in Places : o \notin S => Areas'[o] = Areas[o]
  BY <1>1, <1>5, Elsewhere
<1>7. Owned'
  BY <1>2, <1>4, <1>6, StillParted
<1>. QED
  BY <1>1, <1>3, <1>7, Assemble
================================================================================
