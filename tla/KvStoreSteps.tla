------------------------------ MODULE KvStoreSteps ------------------------------
(***************************************************************************)
(* The inductive invariant of KvStore that gives WalBeforeData, and the    *)
(* steps of opening, recovery, the log driver and put that keep it, for    *)
(* any threads, keys, pages and modes.  KvStoreProofs has the other steps  *)
(* and the theorems.                                                       *)
(*                                                                         *)
(* The argument: an LSN is covered when every header and every log that a  *)
(* crash may leave together account for it.  Whatever reaches the data     *)
(* file or a header is covered by then, and every step leaves headers and  *)
(* logs that account for at least what was accounted for before.  The two  *)
(* steps that empty the log need more: their header, on disk and synced,   *)
(* has a checkpoint at or above every record of the log.                   *)
(***************************************************************************)
EXTENDS KvStore, TLAPS

\* Every set of natural numbers has a least element: a hypothesis of the lemmas,
\* proved with the theorems of KvStoreProofs.
LeastNumber == \A T \in SUBSET Nat : T # {} => \E x \in T : \A y \in T : x <= y

\* The modes for which the theorem holds.
Cautious(m) ==
    /\ "checkpoint" \in m.calls => m.alone
    /\ m.power => ~m.unsynced
    /\ m.fresh => m.crashes = 0

-----------------------------------------------------------------------------
(* The inductive invariant *)

Headers == [ckpt : Nat, root : Nat]

Range(l) == {l[i] : i \in DOMAIN l}

\* A log or a log buffer: records of pages, with LSNs below some bound.
IsLog(l) ==
    /\ l \in Seq(Range(l))
    /\ \A i \in DOMAIN l : l[i].lsn \in Nat /\ l[i].pid \in Pages
    /\ \E b \in Nat : \A n \in Lsns(l) : n <= b

IsCall(o) ==
    /\ o = [kind |-> o.kind, target |-> o.target, ckpt |-> o.ckpt, upto |-> o.upto,
            todo |-> o.todo]
    /\ o.target \in Int /\ o.ckpt \in Nat /\ o.todo \subseteq Pages

FileTypes ==
    /\ mode \in Modes
    /\ os = [f \in Files |-> os[f]] /\ maybe = [f \in Files |-> maybe[f]]
    /\ \A f \in Files : os[f] \in maybe[f]
    /\ maybe[Header] \subseteq Headers /\ hdr \in Headers
    /\ \A p \in Pages : \A v \in maybe[p] : v.lsn \in Nat
LogTypes ==
    /\ IsLog(buf) /\ log \in logs /\ \A l \in logs : IsLog(l)
    /\ nextLsn \in Nat /\ durable \in Nat /\ scan \in Nat
PoolTypes ==
    /\ mem = [p \in Pages |-> mem[p]] /\ \A p \in Pages : mem[p].lsn \in Nat
    /\ bg # NoCopy => /\ bg = [pid |-> bg.pid, page |-> bg.page, written |-> bg.written]
                      /\ bg.pid \in Pages /\ bg.page.lsn \in Nat
    /\ crashes \in Nat
CallTypes ==
    /\ pc = [t \in Threads |-> pc[t]] /\ op = [t \in Threads |-> op[t]]
    /\ latched \in [Threads -> SUBSET Pages]
    /\ \A t \in Threads : pc[t] # "idle" => IsCall(op[t])

Left(f) == IF mode.power THEN maybe[f] ELSE {os[f]}

\* Whatever a crash leaves accounts for LSN n.
Covered(n) ==
    \A h \in Left(Header), l \in LogsLeft : n <= h.ckpt \/ \E m \in Lsns(l) : n <= m

Coverage ==
    /\ Covered(durable) /\ Covered(hdr.ckpt)
    /\ \A h \in Left(Header) : Covered(h.ckpt)
    /\ \A l \in LogsLeft : \A n \in Lsns(l) : Covered(n)
    /\ \A p \in Pages : \A v \in Left(p) : Covered(v.lsn)
    /\ bg # NoCopy => Covered(bg.page.lsn)
    /\ \A t \in Threads : /\ pc[t] # "idle" => Covered(op[t].ckpt)
                          /\ \A p \in latched[t] : Covered(mem[p].lsn)

\* The header in memory is ahead of the file's and behind the log.
Order ==
    /\ durable < nextLsn /\ \A n \in Lsns(buf) : n < nextLsn
    /\ phase \notin {"create", "open"} => buf = <<>>
    /\ phase # "closed" => /\ \A n \in Lsns(log) : n < nextLsn
                           /\ os[Header].ckpt <= hdr.ckpt
    /\ phase \in {"create", "open"} => hdr.ckpt < nextLsn
    /\ phase \in {"sync", "checkpoint"} => \E n \in Lsns(log) : hdr.ckpt < n
    /\ phase \in {"sync_checkpoint", "reset"} =>
         os[Header] = hdr /\ \A n \in Lsns(log) : n <= hdr.ckpt
    /\ phase = "reset" => maybe[Header] = {hdr}

\* A header without a root is that of a store never opened before.
Births ==
    /\ phase \in {"create", "open"} => hdr.root # 0
    /\ ~mode.fresh => \A h \in maybe[Header] \cup {hdr} : h.root # 0
    /\ mode.fresh => /\ crashes = 0 /\ (phase = "closed" => hdr = os[Header])
                     /\ (hdr.root = 0 => log = <<>> /\ hdr.ckpt = 0)

CheckpointSteps == {"meta", "header", "header_sync", "reset_flush", "reset"}

\* The calls that flush the pool.
Flushing == {"sync", "checkpoint", "close"}

CallOk(t) ==
    /\ pc[t] # "idle" => phase = "open" /\ op[t].kind \in Flushing \cup {"put", "flush_wal"}
    /\ pc[t] \in {"pool_flush", "collect", "write", "sync"} => op[t].kind \in Flushing
    /\ pc[t] \notin {"collect", "write", "sync"} => latched[t] = {}
    /\ pc[t] = "write" => op[t].todo \subseteq latched[t]
    /\ pc[t] \in CheckpointSteps => op[t].kind = "checkpoint"
    /\ pc[t] = "drop" => op[t].kind = "close"

\* A checkpoint is alone, so nothing is appended from its flush to its reset.
CheckpointOk(t) ==
    /\ mode.alone
    /\ op[t].target = nextLsn - 1
    /\ pc[t] # "flush" => op[t].ckpt = nextLsn - 1
    /\ pc[t] \in CheckpointSteps \ {"meta"} => hdr.ckpt = op[t].ckpt
    /\ pc[t] \in {"header_sync", "reset_flush", "reset"} => os[Header] = hdr
    /\ pc[t] \in {"reset_flush", "reset"} => maybe[Header] = {hdr}

Solitary(t) == pc[t] # "idle" /\ op[t].kind \in {"checkpoint", "close"}
Calling ==
    \A t \in Threads :
        /\ CallOk(t)
        /\ Solitary(t) => \A u \in Threads : u # t => pc[u] = "idle"
        /\ pc[t] # "idle" /\ op[t].kind = "checkpoint" => CheckpointOk(t)

Types == FileTypes /\ LogTypes /\ PoolTypes /\ CallTypes
IInv == Types /\ Coverage /\ Order /\ Births /\ Calling

-----------------------------------------------------------------------------
(* Numbers, logs and calls *)
\* Upper picks the maximum of a bounded set of numbers and its default.
LEMMA UpperBound ==
    ASSUME LeastNumber, NEW S, S \subseteq Nat, NEW least \in Nat,
           NEW b \in Nat, \A n \in S : n <= b
    PROVE  /\ Upper(S, least) \in S \cup {least}
           /\ \A n \in S \cup {least} : n <= Upper(S, least)
<1> DEFINE U == S \cup {least}
           T == {m \in Nat : \A n \in U : n <= m}
<1>1. \E m \in T : TRUE
  <2>1. CASE b >= least
    <3>1. b \in T
      BY <2>1
    <3>. QED
      BY <3>1
  <2>2. CASE b < least
    <3>1. least \in T
      BY <2>2
    <3>. QED
      BY <3>1
  <2>. QED
    BY <2>1, <2>2
<1>2. PICK m \in T : \A y \in T : m <= y
  BY <1>1, Zenon DEF LeastNumber
<1>3. m \in U
  <2>1. CASE m = 0
    BY <2>1, <1>2
  <2>2. CASE m # 0 /\ m \notin U
    <3>1. m - 1 \in Nat /\ \A n \in U : n <= m - 1
      BY <2>2, <1>2
    <3>. QED
      BY <3>1, <1>2
  <2>. QED
    BY <2>1, <2>2
<1>4. \E x \in S \cup {least} : \A n \in S \cup {least} : n <= x
  BY <1>2, <1>3
<1>. QED
  BY <1>4, Zenon DEF Upper

\* The newest LSN of a log, as recovery and the log driver compute it.
LEMMA UpperOfLog ==
    ASSUME LeastNumber, NEW l, IsLog(l), NEW least \in Nat
    PROVE  /\ Upper(Lsns(l), least) \in Nat
           /\ Upper(Lsns(l), least) \in Lsns(l) \cup {least}
           /\ least <= Upper(Lsns(l), least)
           /\ \A n \in Lsns(l) : n <= Upper(Lsns(l), least)
<1>1. Lsns(l) \subseteq Nat
  BY DEF Lsns, IsLog
<1>2. PICK b \in Nat : \A n \in Lsns(l) : n <= b
  BY DEF IsLog
<1>. QED
  BY <1>1, <1>2, UpperBound

\* advance_lsn_past: the larger of two LSNs.
LEMMA UpperOfTwo ==
    ASSUME LeastNumber, NEW a \in Nat, NEW b \in Nat
    PROVE  /\ Upper({a}, b) \in {a, b} /\ a <= Upper({a}, b) /\ b <= Upper({a}, b)
<1>1. \A n \in {a} : n <= a
  OBVIOUS
<1>. QED
  BY <1>1, UpperBound

\* A log just created or truncated.
LEMMA EmptyLog == IsLog(<<>>) /\ Lsns(<<>>) = {}
BY DEF IsLog, Lsns, Range

\* A record appended to a log.
LEMMA AppendedLog ==
    ASSUME NEW l, IsLog(l), NEW r, r.lsn \in Nat, r.pid \in Pages
    PROVE  IsLog(Append(l, r)) /\ Lsns(Append(l, r)) = Lsns(l) \cup {r.lsn}
<1> DEFINE k == Append(l, r)
<1>1. /\ k \in Seq(Range(l) \cup {r}) /\ Len(k) = Len(l) + 1 /\ DOMAIN k = 1..Len(k)
      /\ DOMAIN l = 1..Len(l) /\ Len(l) \in Nat
      /\ \A i \in DOMAIN l : k[i] = l[i]
      /\ k[Len(l) + 1] = r
  <2>1. l \in Seq(Range(l) \cup {r})
    BY DEF IsLog
  <2>. QED
    BY <2>1
<1>. HIDE DEF k
<1>2. Lsns(k) = Lsns(l) \cup {r.lsn}
  BY <1>1 DEF Lsns
<1>3. k \in Seq(Range(k))
  BY <1>1 DEF Range
<1>4. \A i \in DOMAIN k : k[i].lsn \in Nat /\ k[i].pid \in Pages
  BY <1>1 DEF IsLog
<1>5. \E b \in Nat : \A n \in Lsns(k) : n <= b
  <2>1. PICK b \in Nat : \A n \in Lsns(l) : n <= b
    BY DEF IsLog
  <2>2. Lsns(l) \subseteq Nat
    BY DEF IsLog, Lsns
  <2>3. b + r.lsn \in Nat /\ \A n \in Lsns(k) : n <= b + r.lsn
    BY <1>2, <2>1, <2>2
  <2>. QED
    BY <2>3
<1>. QED
  BY <1>2, <1>3, <1>4, <1>5 DEF IsLog, k

\* The active buffer written after the log.
LEMMA JoinedLog ==
    ASSUME NEW l, IsLog(l), NEW m, IsLog(m)
    PROVE  IsLog(l \o m) /\ Lsns(l \o m) = Lsns(l) \cup Lsns(m)
<1> DEFINE k == l \o m
<1>1. /\ k \in Seq(Range(l) \cup Range(m)) /\ DOMAIN k = 1..(Len(l) + Len(m))
      /\ Len(k) = Len(l) + Len(m)
      /\ DOMAIN l = 1..Len(l) /\ Len(l) \in Nat /\ DOMAIN m = 1..Len(m) /\ Len(m) \in Nat
      /\ \A i \in DOMAIN l : k[i] = l[i]
      /\ \A i \in DOMAIN m : k[Len(l) + i] = m[i]
  <2>1. l \in Seq(Range(l) \cup Range(m)) /\ m \in Seq(Range(l) \cup Range(m))
    BY DEF IsLog
  <2>. QED
    BY <2>1
<1>. HIDE DEF k
<1>2. \A i \in DOMAIN k : \/ i \in DOMAIN l /\ k[i] = l[i]
                          \/ i - Len(l) \in DOMAIN m /\ k[i] = m[i - Len(l)]
  BY <1>1
<1>3. Lsns(k) = Lsns(l) \cup Lsns(m)
  <2>1. Lsns(k) \subseteq Lsns(l) \cup Lsns(m)
    BY <1>2 DEF Lsns
  <2>2. Lsns(l) \subseteq Lsns(k)
    BY <1>1 DEF Lsns
  <2>3. Lsns(m) \subseteq Lsns(k)
    <3>1. ASSUME NEW i \in DOMAIN m PROVE m[i].lsn \in Lsns(k)
      <4>1. Len(l) + i \in DOMAIN k /\ k[Len(l) + i] = m[i]
        BY <1>1
      <4>. QED
        BY <4>1 DEF Lsns
    <3>. QED
      BY <3>1 DEF Lsns
  <2>. QED
    BY <2>1, <2>2, <2>3
<1>4. k \in Seq(Range(k))
  BY <1>1 DEF Range
<1>5. \A i \in DOMAIN k : k[i].lsn \in Nat /\ k[i].pid \in Pages
  BY <1>2 DEF IsLog
<1>6. \E b \in Nat : \A n \in Lsns(k) : n <= b
  <2>1. PICK b \in Nat : \A n \in Lsns(l) : n <= b
    BY DEF IsLog
  <2>2. PICK c \in Nat : \A n \in Lsns(m) : n <= c
    BY DEF IsLog
  <2>3. Lsns(l) \subseteq Nat /\ Lsns(m) \subseteq Nat
    BY DEF IsLog, Lsns
  <2>4. b + c \in Nat /\ \A n \in Lsns(k) : n <= b + c
    BY <1>3, <2>1, <2>2, <2>3
  <2>. QED
    BY <2>4
<1>. QED
  BY <1>3, <1>4, <1>5, <1>6, Zenon DEF IsLog, k

\* A record overwritten in place.
LEMMA RewrittenLog ==
    ASSUME NEW l, IsLog(l), NEW r, r.lsn \in Nat, r.pid \in Pages, NEW i
    PROVE  IsLog([l EXCEPT ![i] = r]) /\ Lsns([l EXCEPT ![i] = r]) \subseteq Lsns(l) \cup {r.lsn}
<1> DEFINE k == [l EXCEPT ![i] = r]
<1>1. /\ k \in Seq(Range(l) \cup {r}) /\ DOMAIN k = DOMAIN l
      /\ \A j \in DOMAIN l : k[j] = l[j] \/ k[j] = r
  <2>1. l \in Seq(Range(l) \cup {r})
    BY DEF IsLog
  <2>2. CASE i \in DOMAIN l
    BY <2>1, <2>2
  <2>3. CASE i \notin DOMAIN l
    <3>1. k = l
      BY <2>1, <2>3
    <3>. QED
      BY <2>1, <3>1, Zenon
  <2>. QED
    BY <2>2, <2>3
<1>. HIDE DEF k
<1>2. Lsns(k) \subseteq Lsns(l) \cup {r.lsn}
  BY <1>1 DEF Lsns
<1>3. k \in Seq(Range(k))
  BY <1>1 DEF Range
<1>4. \A j \in DOMAIN k : k[j].lsn \in Nat /\ k[j].pid \in Pages
  BY <1>1, Zenon DEF IsLog
<1>5. \E b \in Nat : \A n \in Lsns(k) : n <= b
  <2>1. PICK b \in Nat : \A n \in Lsns(l) : n <= b
    BY DEF IsLog
  <2>2. Lsns(l) \subseteq Nat
    BY DEF IsLog, Lsns
  <2>3. b + r.lsn \in Nat /\ \A n \in Lsns(k) : n <= b + r.lsn
    BY <1>2, <2>1, <2>2
  <2>. QED
    BY <2>3
<1>. QED
  BY <1>2, <1>3, <1>4, <1>5, Zenon DEF IsLog, k

\* A call with one field or two changed.
Is(o, kind, target, ckpt, todo) ==
    IsCall(o) /\ o.kind = kind /\ o.target = target /\ o.ckpt = ckpt /\ o.todo = todo

\* The record that begins a call.
LEMMA CallRecord ==
    ASSUME NEW kind, NEW target \in Int, NEW upto, NEW o,
           o = [kind |-> kind, target |-> target, ckpt |-> 0, upto |-> upto, todo |-> {}]
    PROVE  IsCall(o) /\ o.kind = kind /\ o.ckpt = 0 /\ o.target = target
BY DEF IsCall

\* A call record with one field assigned.
LEMMA CallField ==
    ASSUME NEW o, IsCall(o)
    PROVE  /\ \A v \in Int : Is([o EXCEPT !.target = v], o.kind, v, o.ckpt, o.todo)
           /\ \A v \in SUBSET Pages : Is([o EXCEPT !.todo = v], o.kind, o.target, o.ckpt, v)
           /\ \A v \in Nat : Is([o EXCEPT !.ckpt = v], o.kind, o.target, v, o.todo)
<1>1. ASSUME NEW v \in Int PROVE Is([o EXCEPT !.target = v], o.kind, v, o.ckpt, o.todo)
  BY DEF IsCall, Is
<1>2. ASSUME NEW v \in SUBSET Pages PROVE Is([o EXCEPT !.todo = v], o.kind, o.target, o.ckpt, v)
  BY DEF IsCall, Is
<1>3. ASSUME NEW v \in Nat PROVE Is([o EXCEPT !.ckpt = v], o.kind, o.target, v, o.todo)
  BY DEF IsCall, Is
<1>. QED
  BY <1>1, <1>2, <1>3

\* A call record whose checkpoint and target are assigned, as in FlushWal.
LEMMA CallFields ==
    ASSUME NEW o, IsCall(o), NEW v \in Nat, NEW w \in Int
    PROVE  Is([o EXCEPT !.ckpt = v, !.target = w], o.kind, w, v, o.todo)
<1> DEFINE q == [o EXCEPT !.ckpt = v]
<1>1. Is(q, o.kind, o.target, v, o.todo)
  BY CallField
<1>2. Is([q EXCEPT !.target = w], q.kind, w, q.ckpt, q.todo)
  <2>. HIDE DEF q
  <2>1. IsCall(q)
    BY <1>1 DEF Is
  <2>. QED
    BY <2>1, CallField
<1>3. [q EXCEPT !.target = w] = [o EXCEPT !.ckpt = v, !.target = w]
  OBVIOUS
<1>. HIDE DEF q
<1>. QED
  BY <1>1, <1>2, <1>3 DEF Is

-----------------------------------------------------------------------------
(* Coverage *)

\* The types of what a crash may leave.
LEMMA LeftTypes ==
    ASSUME FileTypes, LogTypes
    PROVE  /\ Left(Header) \subseteq Headers
           /\ \A h \in Left(Header) : h.ckpt \in Nat
           /\ os[Header] \in Left(Header) /\ os[Header] \in Headers /\ os[Header].ckpt \in Nat
           /\ log \in LogsLeft
           /\ \A l \in LogsLeft : IsLog(l) /\ Lsns(l) \subseteq Nat
           /\ \A p \in Pages : os[p] \in Left(p) /\ \A v \in Left(p) : v.lsn \in Nat
<1>1. Header \in Files /\ Pages \subseteq Files
  BY DEF Files
<1>2. Left(Header) \subseteq Headers /\ os[Header] \in Left(Header)
  BY <1>1 DEF FileTypes, Left
<1>3. \A p \in Pages : os[p] \in Left(p) /\ \A v \in Left(p) : v.lsn \in Nat
  BY <1>1, Zenon DEF FileTypes, Left
<1>4. log \in LogsLeft /\ \A l \in LogsLeft : IsLog(l)
  BY DEF LogTypes, LogsLeft
<1>5. \A l \in LogsLeft : Lsns(l) \subseteq Nat
  BY <1>4 DEF IsLog, Lsns
<1>. QED
  BY <1>2, <1>3, <1>4, <1>5 DEF Headers

\* The LSNs and checkpoints that Coverage speaks of are numbers.
LEMMA Numbers ==
    ASSUME FileTypes, LogTypes, PoolTypes
    PROVE  /\ Header \in Files /\ Pages \subseteq Files /\ durable \in Nat /\ hdr.ckpt \in Nat
           /\ \A h \in Left(Header) : h.ckpt \in Nat
           /\ \A p \in Pages : \A v \in Left(p) : v.lsn \in Nat
           /\ \A l \in LogsLeft : Lsns(l) \subseteq Nat
           /\ bg # NoCopy => bg.page.lsn \in Nat
BY LeftTypes, Zenon DEF FileTypes, LogTypes, PoolTypes, Headers, Files

\* What accounts for an LSN accounts for the ones below.
LEMMA CoveredBelow ==
    ASSUME FileTypes, LogTypes, NEW n \in Nat, NEW m \in Nat, n <= m, Covered(m)
    PROVE  Covered(n)
BY LeftTypes DEF Covered

\* What is covered is at most the log or the header read next.
LEMMA CoveredReads ==
    ASSUME FileTypes, LogTypes, NEW n \in Nat, Covered(n)
    PROVE  n <= os[Header].ckpt \/ \E m \in Lsns(log) : n <= m
BY LeftTypes DEF Covered

\* Coverage is not lost when every header and log left account for as much as
\* some header and log left before.
LEMMA CoverKept ==
    ASSUME FileTypes, FileTypes', LogTypes, LogTypes',
           \A h \in Left(Header)', l \in LogsLeft' :
              \E g \in Left(Header), k \in LogsLeft :
                 /\ g.ckpt <= h.ckpt
                 /\ \A n \in Lsns(k) : n <= h.ckpt \/ \E m \in Lsns(l) : n <= m
    PROVE  \A n \in Nat : Covered(n) => Covered(n)'
<1>. SUFFICES ASSUME NEW n \in Nat, Covered(n), NEW h \in Left(Header)', NEW l \in LogsLeft'
              PROVE  n <= h.ckpt \/ \E m \in Lsns(l) : n <= m
  BY DEF Covered
<1>1. PICK g \in Left(Header), k \in LogsLeft :
         /\ g.ckpt <= h.ckpt
         /\ \A i \in Lsns(k) : i <= h.ckpt \/ \E m \in Lsns(l) : i <= m
  OBVIOUS
<1>2. h.ckpt \in Nat /\ Lsns(l) \subseteq Nat
  <2>1. Header \in Files
    BY DEF Files
  <2>2. h \in Headers
    BY <2>1, Zenon DEF FileTypes, Left
  <2>3. IsLog(l)
    BY DEF LogTypes, LogsLeft
  <2>. QED
    BY <2>2, <2>3, Zenon DEF Headers, IsLog, Lsns
<1>3. g.ckpt \in Nat /\ Lsns(k) \subseteq Nat
  BY LeftTypes
<1>4. n <= g.ckpt \/ \E m \in Lsns(k) : n <= m
  BY DEF Covered
<1>. QED
  BY <1>1, <1>2, <1>3, <1>4

\* The files and the log are not written.
LEMMA SameCover ==
    ASSUME UNCHANGED <<mode, os, maybe, log, logs>>
    PROVE  /\ Left(Header)' = Left(Header) /\ LogsLeft' = LogsLeft
           /\ \A p \in Pages : Left(p)' = Left(p)
           /\ \A n : Covered(n)' = Covered(n)
<1>1. Left(Header)' = Left(Header) /\ LogsLeft' = LogsLeft /\ \A p \in Pages : Left(p)' = Left(p)
  BY DEF Left, LogsLeft
<1>2. ASSUME NEW n PROVE Covered(n)' = Covered(n)
  BY <1>1 DEF Covered
<1>. QED
  BY <1>1, <1>2

-----------------------------------------------------------------------------
(* Steps of the callers *)

OnlyMoves(t) ==
    /\ pc' = [u \in Threads |-> pc'[u]] /\ op' = [u \in Threads |-> op'[u]]
    /\ latched' \in [Threads -> SUBSET Pages]
    /\ \A u \in Threads : u # t => pc'[u] = pc[u] /\ op'[u] = op[u] /\ latched'[u] = latched[u]

\* A caller that is in a call goes on, or returns.
LEMMA CallsKept ==
    ASSUME CallTypes, Calling, NEW t \in Threads, pc[t] # "idle", OnlyMoves(t),
           phase' = phase, CallOk(t)',
           pc'[t] # "idle" => IsCall(op'[t]) /\ op'[t].kind = op[t].kind,
           pc'[t] # "idle" /\ op[t].kind = "checkpoint" => CheckpointOk(t)'
    PROVE  CallTypes' /\ Calling'
<1>1. CallTypes'
  BY DEF OnlyMoves, CallTypes
<1>2. ASSUME NEW u \in Threads
      PROVE  /\ CallOk(u)'
             /\ Solitary(u)' => \A v \in Threads : v # u => pc'[v] = "idle"
             /\ pc'[u] # "idle" /\ op'[u].kind = "checkpoint" => CheckpointOk(u)'
  <2>1. CASE u = t
    <3>1. Solitary(t)' => Solitary(t)
      BY DEF Solitary
    <3>2. Solitary(t)' => \A v \in Threads : v # t => pc'[v] = "idle"
      BY <3>1, Zenon DEF Calling, OnlyMoves
    <3>. QED
      BY <2>1, <3>2
  <2>2. CASE u # t
    <3>1. ~Solitary(u)
      BY <2>2 DEF Calling
    <3>2. pc'[u] = pc[u] /\ op'[u] = op[u] /\ latched'[u] = latched[u]
      BY <2>2 DEF OnlyMoves
    <3>3. CallOk(u)'
      BY <3>2, Zenon DEF Calling, CallOk
    <3>4. ~Solitary(u)'
      BY <3>1, <3>2 DEF Solitary
    <3>. QED
      BY <3>3, <3>4 DEF Solitary
  <2>. QED
    BY <2>1, <2>2, Zenon
<1>3. Calling'
  BY <1>2, Zenon DEF Calling
<1>. QED
  BY <1>1, <1>3

\* A call begins, beside none that wants to be alone.
LEMMA CallBegins ==
    ASSUME CallTypes, Calling, NEW t \in Threads, pc[t] = "idle", OnlyMoves(t),
           phase' = phase, phase = "open", CallOk(t)', IsCall(op'[t]),
           \A u \in Threads : ~Solitary(u),
           Solitary(t)' => \A u \in Threads : pc[u] = "idle",
           op'[t].kind = "checkpoint" => CheckpointOk(t)'
    PROVE  CallTypes' /\ Calling'
<1>1. CallTypes'
  BY Zenon DEF OnlyMoves, CallTypes
<1>2. ASSUME NEW u \in Threads
      PROVE  /\ CallOk(u)'
             /\ Solitary(u)' => \A v \in Threads : v # u => pc'[v] = "idle"
             /\ pc'[u] # "idle" /\ op'[u].kind = "checkpoint" => CheckpointOk(u)'
  <2>1. CASE u = t
    <3>1. Solitary(t)' => \A v \in Threads : v # t => pc'[v] = "idle"
      BY DEF OnlyMoves
    <3>. QED
      BY <2>1, <3>1
  <2>2. CASE u # t
    <3>1. pc'[u] = pc[u] /\ op'[u] = op[u] /\ latched'[u] = latched[u]
      BY <2>2 DEF OnlyMoves
    <3>2. CallOk(u)'
      BY <3>1, Zenon DEF Calling, CallOk
    <3>3. ~Solitary(u)'
      BY <3>1 DEF Solitary
    <3>. QED
      BY <3>2, <3>3 DEF Solitary
  <2>. QED
    BY <2>1, <2>2, Zenon
<1>3. Calling'
  BY <1>2, Zenon DEF Calling
<1>. QED
  BY <1>1, <1>3

\* Nobody is in a call while the store is opened.
LEMMA NobodyCalls ==
    ASSUME CallTypes, Calling, phase # "open", UNCHANGED <<pc, op, latched>>
    PROVE  CallTypes' /\ Calling' /\ \A t \in Threads : pc[t] = "idle" /\ latched[t] = {}
<1>1. \A t \in Threads : pc[t] = "idle" /\ latched[t] = {}
  BY Zenon DEF Calling, CallOk
<1>2. \A t \in Threads : pc'[t] = "idle" /\ latched'[t] = {}
  BY <1>1
<1>3. \A t \in Threads : CallOk(t)' /\ ~Solitary(t)'
  BY <1>2, Zenon DEF CallOk, Solitary, CheckpointSteps
<1>4. CallTypes'
  BY DEF CallTypes
<1>5. Calling'
  BY <1>2, <1>3 DEF Calling
<1>. QED
  BY <1>1, <1>4, <1>5

\* A step of the log, the cleaner or eviction.
LEMMA CallsRest ==
    ASSUME CallTypes, Calling, UNCHANGED <<mode, phase, pc, op, latched, nextLsn, hdr>>,
           os'[Header] = os[Header], maybe'[Header] = maybe[Header]
    PROVE  CallTypes' /\ Calling'
<1>1. CallTypes'
  BY DEF CallTypes
<1>2. \A t \in Threads : /\ CallOk(t)' = CallOk(t) /\ Solitary(t)' = Solitary(t)
                         /\ CheckpointOk(t)' = CheckpointOk(t)
  BY DEF CallOk, Solitary, CheckpointOk
<1>3. Calling'
  BY <1>2 DEF Calling
<1>. QED
  BY <1>1, <1>3

\* A page never written needs no log.
LEMMA CoveredZero ==
    ASSUME FileTypes, LogTypes
    PROVE  Covered(0)
BY LeftTypes DEF Covered

-----------------------------------------------------------------------------
(* Mutations and calls *)

\* append_full_page_image_with_lsn: rewritten in place or appended.
LEMMA ImageLogged ==
    ASSUME IsLog(buf), NEW p \in Pages, NEW page, page.lsn \in Nat, LogImage(p, page)
    PROVE  IsLog(buf') /\ Lsns(buf') \subseteq Lsns(buf) \cup {page.lsn}
<1> DEFINE rec == [pid |-> p, lsn |-> page.lsn, image |-> TRUE, val |-> page.val]
<1>1. rec.lsn = page.lsn /\ rec.pid = p
  OBVIOUS
<1>2. buf' = [buf EXCEPT ![img[p]] = rec] \/ buf' = Append(buf, rec)
  BY DEF LogImage
<1>. HIDE DEF rec
<1>3. CASE buf' = [buf EXCEPT ![img[p]] = rec]
  BY <1>1, <1>3, RewrittenLog, Zenon
<1>4. CASE buf' = Append(buf, rec)
  <2>1. IsLog(Append(buf, rec)) /\ Lsns(Append(buf, rec)) = Lsns(buf) \cup {rec.lsn}
    BY <1>1, AppendedLog
  <2>. QED
    BY <1>1, <1>4, <2>1
<1>. QED
  BY <1>2, <1>3, <1>4

\* A patch record is appended.
LEMMA PatchLogged ==
    ASSUME IsLog(buf), NEW p \in Pages, NEW page, NEW k, page.lsn \in Nat, LogPatch(p, page, k)
    PROVE  IsLog(buf') /\ Lsns(buf') \subseteq Lsns(buf) \cup {page.lsn}
<1> DEFINE rec == [pid |-> p, lsn |-> page.lsn, image |-> FALSE, val |-> [x \in {k} |-> page.val[k]]]
<1>1. rec.lsn = page.lsn /\ rec.pid = p
  OBVIOUS
<1>2. buf' = Append(buf, rec)
  BY DEF LogPatch
<1>. HIDE DEF rec
<1>. QED
  BY <1>1, <1>2, AppendedLog

\* A mutation starts beside no checkpoint and no drop of the store.
LEMMA NoneSolitary ==
    ASSUME Calling, mode.alone => \A u \in Busy : op[u].kind # "checkpoint",
           \A u \in Busy : op[u].kind # "close"
    PROVE  \A u \in Threads : ~Solitary(u)
BY Zenon DEF Calling, Solitary, CheckpointOk, Busy

\* A mutation changes no frame that flush has latched, and no file.
LEMMA PutKeeps == ASSUME IInv, NEW t \in Threads, NEW k \in Keys, Put(t, k) PROVE IInv'
<1> DEFINE p == PageOf[k]
           page == [lsn |-> nextLsn, val |-> [mem[p].val EXCEPT ![k] = puts + 1]]
<1>1. FileTypes /\ LogTypes /\ PoolTypes /\ CallTypes /\ Coverage /\ Order /\ Births /\ Calling
  BY DEF IInv, Types
<1>2. /\ phase = "open" /\ pc[t] = "idle" /\ ~Locked(p)
      /\ LogImage(p, page) \/ LogPatch(p, page, k)
      /\ mem' = [mem EXCEPT ![p] = page] /\ nextLsn' = nextLsn + 1
      /\ UNCHANGED <<mode, phase, os, maybe, hdr, log, logs, durable, scan, bg, latched, crashes>>
  BY Zenon DEF Put, fileVars
<1>3. \A u \in Threads : ~Solitary(u)
  BY <1>1, NoneSolitary, Zenon DEF Put
<1>4. page.lsn = nextLsn /\ p \in Pages /\ nextLsn \in Nat /\ nextLsn \in Int
  BY <1>1, PagesAssumption DEF LogTypes
<1>. HIDE DEF page, p
<1>5. IsLog(buf') /\ Lsns(buf') \subseteq Lsns(buf) \cup {nextLsn}
  <2>1. IsLog(buf)
    BY <1>1 DEF LogTypes
  <2>2. CASE LogImage(p, page)
    BY <1>4, <2>1, <2>2, ImageLogged
  <2>3. CASE LogPatch(p, page, k)
    BY <1>4, <2>1, <2>3, PatchLogged
  <2>. QED
    BY <1>2, <2>2, <2>3
<1>6. mem' = [q \in Pages |-> IF q = p THEN page ELSE mem[q]]
  BY <1>1, <1>2, <1>4, Zenon DEF PoolTypes
<1>7. FileTypes' /\ LogTypes' /\ PoolTypes'
  <2>1. FileTypes'
    BY <1>1, <1>2, Zenon DEF FileTypes
  <2>2. LogTypes'
    BY <1>1, <1>2, <1>4, <1>5 DEF LogTypes
  <2>3. mem' = [q \in Pages |-> mem'[q]] /\ \A q \in Pages : mem'[q].lsn \in Nat
    BY <1>1, <1>4, <1>6, Zenon DEF PoolTypes
  <2>4. PoolTypes'
    BY <1>1, <1>2, <2>3, Zenon DEF PoolTypes
  <2>. QED
    BY <2>1, <2>2, <2>4
<1>8. CallTypes' /\ Calling' /\ (pc'[t] # "idle" => op'[t].ckpt = 0)
      /\ \A u \in Threads : u # t => pc'[u] = pc[u] /\ op'[u] = op[u]
  <2>1. CASE mode.strict
    <3> DEFINE o == [kind |-> "put", target |-> nextLsn, ckpt |-> 0, upto |-> Len(hist) + 1,
                     todo |-> {}]
    <3>1. pc' = [pc EXCEPT ![t] = "flush"] /\ op' = [op EXCEPT ![t] = o]
      BY <2>1, Zenon DEF Put
    <3>0. o = [kind |-> "put", target |-> nextLsn, ckpt |-> 0, upto |-> Len(hist) + 1, todo |-> {}]
      OBVIOUS
    <3>. HIDE DEF o
    <3>2. IsCall(o) /\ o.kind = "put" /\ o.ckpt = 0
      BY <1>4, <3>0, CallRecord
    <3>3. /\ pc' = [u \in Threads |-> IF u = t THEN "flush" ELSE pc[u]]
          /\ op' = [u \in Threads |-> IF u = t THEN o ELSE op[u]]
      BY <1>1, <3>1, Zenon DEF CallTypes
    <3>4. OnlyMoves(t)
      BY <1>1, <1>2, <3>3, Zenon DEF OnlyMoves, CallTypes
    <3>5. latched[t] = {}
      BY <1>1, <1>2, Zenon DEF Calling, CallOk
    <3>6. CallOk(t)'
      BY <1>2, <3>2, <3>3, <3>5, Zenon DEF CallOk, CheckpointSteps, Flushing
    <3>7. ~Solitary(t)' /\ IsCall(op'[t]) /\ op'[t].kind # "checkpoint"
      BY <3>2, <3>3 DEF Solitary
    <3>8. CallTypes' /\ Calling'
      BY <1>1, <1>2, <1>3, <3>4, <3>6, <3>7, CallBegins, Zenon
    <3>. QED
      BY <3>2, <3>3, <3>8
  <2>2. CASE ~mode.strict
    <3>1. UNCHANGED <<pc, op>>
      BY <2>2, Zenon DEF Put
    <3>2. CallTypes'
      BY <1>1, <1>2, <3>1, Zenon DEF CallTypes
    <3>3. \A u \in Threads : /\ CallOk(u)' = CallOk(u) /\ Solitary(u)' = Solitary(u)
      BY <1>2, <3>1 DEF CallOk, Solitary
    <3>4. \A u \in Threads : CallOk(u)' /\ ~Solitary(u)' /\ ~(pc'[u] # "idle" /\ op'[u].kind = "checkpoint")
      BY <1>1, <1>3, <3>1, <3>3, Zenon DEF Calling, Solitary
    <3>5. Calling'
      BY <3>4 DEF Calling
    <3>. QED
      BY <1>2, <3>1, <3>2, <3>5
  <2>. QED
    BY <2>1, <2>2
<1>9. Coverage'
  <2>1. /\ Left(Header)' = Left(Header) /\ LogsLeft' = LogsLeft
        /\ \A q \in Pages : Left(q)' = Left(q)
        /\ \A n : Covered(n)' = Covered(n)
    BY <1>2, SameCover
  <2>2. \A u \in Threads : pc'[u] # "idle" => Covered(op'[u].ckpt)
    BY <1>1, <1>8, CoveredZero, Zenon DEF Coverage
  <2>3. \A u \in Threads : \A q \in latched[u] : q \in Pages /\ mem'[q] = mem[q]
    BY <1>1, <1>2, <1>6 DEF Locked, CallTypes
  <2>. QED
    BY <1>1, <1>2, <2>1, <2>2, <2>3, Zenon DEF Coverage
<1>10. Order'
  <2>1. /\ durable < nextLsn /\ \A n \in Lsns(buf) : n < nextLsn
        /\ \A n \in Lsns(log) : n < nextLsn
        /\ os[Header].ckpt <= hdr.ckpt /\ hdr.ckpt < nextLsn
    BY <1>1, <1>2, Zenon DEF Order
  <2>2. durable \in Nat /\ Lsns(buf) \subseteq Nat /\ Lsns(log) \subseteq Nat /\ hdr.ckpt \in Nat
    BY <1>1, Zenon DEF LogTypes, IsLog, Lsns, FileTypes, Headers
  <2>3. /\ durable < nextLsn' /\ hdr.ckpt < nextLsn'
        /\ \A n \in Lsns(buf)' : n < nextLsn'
        /\ \A n \in Lsns(log) : n < nextLsn'
    BY <1>2, <1>4, <1>5, <2>1, <2>2
  <2>. QED
    BY <1>2, <2>1, <2>3, Zenon DEF Order
<1>11. Births'
  BY <1>1, <1>2, Zenon DEF Births
<1>. QED
  BY <1>7, <1>8, <1>9, <1>10, <1>11 DEF IInv, Types

\* A call starts; a checkpoint or a drop starts alone.
LEMMA CallKeeps ==
    ASSUME IInv, Cautious(mode), NEW t \in Threads, NEW kind, Call(t, kind)
    PROVE  IInv'
<1> DEFINE o == [kind |-> kind, target |-> nextLsn - 1, ckpt |-> 0, upto |-> Len(hist), todo |-> {}]
           place == IF kind = "close" THEN "pool_flush" ELSE "flush"
<1>1. FileTypes /\ LogTypes /\ PoolTypes /\ CallTypes /\ Coverage /\ Order /\ Births /\ Calling
  BY DEF IInv, Types
<1>2. /\ phase = "open" /\ pc[t] = "idle" /\ kind \in mode.calls
      /\ (kind = "close" => Busy = {}) /\ (mode.alone /\ kind = "checkpoint" => Busy = {})
      /\ pc' = [pc EXCEPT ![t] = place] /\ op' = [op EXCEPT ![t] = o]
      /\ UNCHANGED <<mode, phase, os, maybe, hdr, log, logs, buf, nextLsn, durable, scan, mem, bg,
                     latched, crashes>>
  BY Zenon DEF Call, fileVars, logVars, poolVars
<1>3. \A u \in Threads : ~Solitary(u)
  BY <1>1, NoneSolitary, Zenon DEF Call
<1>0. o = [kind |-> kind, target |-> nextLsn - 1, ckpt |-> 0, upto |-> Len(hist), todo |-> {}]
  OBVIOUS
<1>5. place \in {"flush", "pool_flush"} /\ (kind # "close" => place = "flush")
  OBVIOUS
<1>. HIDE DEF o, place
<1>4. IsCall(o) /\ o.kind = kind /\ o.ckpt = 0 /\ o.target = nextLsn - 1
  <2>1. nextLsn - 1 \in Int
    BY <1>1 DEF LogTypes
  <2>. QED
    BY <1>0, <2>1, CallRecord
<1>6. /\ pc' = [u \in Threads |-> IF u = t THEN place ELSE pc[u]]
      /\ op' = [u \in Threads |-> IF u = t THEN o ELSE op[u]]
  BY <1>1, <1>2, Zenon DEF CallTypes
<1>7. CallTypes' /\ Calling'
  <2>1. OnlyMoves(t)
    BY <1>1, <1>2, <1>6, Zenon DEF OnlyMoves, CallTypes
  <2>2. latched[t] = {}
    BY <1>1, <1>2, Zenon DEF Calling, CallOk
  <2>3. CallOk(t)'
    <3>1. kind \in Flushing \cup {"flush_wal"}
      BY <1>1, <1>2, ModesAssumption, Zenon DEF FileTypes, Flushing
    <3>2. (pc'[t] = "flush" \/ kind = "close") /\ pc'[t] \in {"flush", "pool_flush"} /\ op'[t].kind = kind
      BY <1>4, <1>5, <1>6
    <3>. QED
      BY <1>2, <2>2, <3>1, <3>2, Zenon DEF CallOk, CheckpointSteps, Flushing
  <2>4. kind = "checkpoint" => mode.alone
    BY <1>2 DEF Cautious
  <2>5. Solitary(t)' => \A u \in Threads : pc[u] = "idle"
    BY <1>2, <1>4, <1>6, <2>4, Zenon DEF Solitary, Busy
  <2>6. op'[t].kind = "checkpoint" => CheckpointOk(t)'
    BY <1>2, <1>4, <1>5, <1>6, <2>4, Zenon DEF CheckpointOk, CheckpointSteps
  <2>7. IsCall(op'[t])
    BY <1>4, <1>6
  <2>. QED
    BY <1>1, <1>2, <1>3, <2>1, <2>3, <2>5, <2>6, <2>7, CallBegins, Zenon
<1>8. FileTypes' /\ LogTypes' /\ PoolTypes'
  <2>1. FileTypes'
    BY <1>1, <1>2, Zenon DEF FileTypes
  <2>2. LogTypes'
    BY <1>1, <1>2, Zenon DEF LogTypes
  <2>3. PoolTypes'
    BY <1>1, <1>2, Zenon DEF PoolTypes
  <2>. QED
    BY <2>1, <2>2, <2>3
<1>9. Coverage'
  <2>1. /\ Left(Header)' = Left(Header) /\ LogsLeft' = LogsLeft
        /\ \A q \in Pages : Left(q)' = Left(q)
        /\ \A n : Covered(n)' = Covered(n)
    BY <1>2, SameCover, Zenon
  <2>2. \A u \in Threads : pc'[u] # "idle" => Covered(op'[u].ckpt)
    BY <1>1, <1>4, <1>6, CoveredZero, Zenon DEF Coverage
  <2>. QED
    BY <1>1, <1>2, <2>1, <2>2, Zenon DEF Coverage
<1>10. Order' /\ Births'
  BY <1>1, <1>2, Zenon DEF Order, Births
<1>. QED
  BY <1>7, <1>8, <1>9, <1>10 DEF IInv, Types

-----------------------------------------------------------------------------
(* Writes of the files *)

\* A page is written that is covered.
LEMMA PageWritten ==
    ASSUME FileTypes, LogTypes, Coverage, UNCHANGED <<mode, hdr, log, logs>>,
           NEW p \in Pages, NEW v, v.lsn \in Nat, Covered(v.lsn), WriteFile(p, v)
    PROVE  /\ FileTypes'
           /\ os'[Header] = os[Header] /\ maybe'[Header] = maybe[Header]
           /\ Left(Header)' = Left(Header) /\ LogsLeft' = LogsLeft
           /\ \A n : Covered(n)' = Covered(n)
           /\ \A q \in Pages : \A w \in Left(q)' : Covered(w.lsn)'
<1>1. Header \in Files /\ Pages \subseteq Files /\ Header \notin Pages /\ p # Header
  BY PagesAssumption DEF Files, Header
<1>2. /\ os' = [f \in Files |-> IF f = p THEN v ELSE os[f]]
      /\ maybe' = [f \in Files |-> IF f = p THEN maybe[p] \cup {v} ELSE maybe[f]]
  BY <1>1, Zenon DEF WriteFile, FileTypes
<1>3. /\ os' = [f \in Files |-> os'[f]] /\ maybe' = [f \in Files |-> maybe'[f]]
      /\ \A f \in Files : f # p => os'[f] = os[f] /\ maybe'[f] = maybe[f]
      /\ os'[p] = v /\ maybe'[p] = maybe[p] \cup {v}
  BY <1>1, <1>2
<1>4. FileTypes'
  BY <1>1, <1>3, Zenon DEF FileTypes
<1>5. Left(Header)' = Left(Header) /\ LogsLeft' = LogsLeft
  BY <1>1, <1>3 DEF Left, LogsLeft
<1>6. ASSUME NEW n PROVE Covered(n)' = Covered(n)
  BY <1>5 DEF Covered
<1>7. ASSUME NEW q \in Pages, NEW w \in Left(q)' PROVE Covered(w.lsn)
  <2>1. w \in Left(q) \/ w = v
    BY <1>1, <1>3 DEF Left
  <2>. QED
    BY <2>1 DEF Coverage
<1>. QED
  BY <1>1, <1>3, <1>4, <1>5, <1>6, <1>7, Zenon

\* The header is written, with a checkpoint that is covered and not lower.
LEMMA HeaderWritten ==
    ASSUME FileTypes, LogTypes, Coverage, UNCHANGED <<mode, log, logs, nextLsn, durable, scan, buf>>,
           hdr' \in Headers, NEW h \in Headers, Covered(h.ckpt), os[Header].ckpt <= h.ckpt,
           WriteFile(Header, h)
    PROVE  /\ FileTypes' /\ LogTypes' /\ LogsLeft' = LogsLeft
           /\ os'[Header] = h /\ maybe'[Header] = maybe[Header] \cup {h}
           /\ \A n \in Nat : Covered(n) => Covered(n)'
           /\ \A g \in Left(Header)' : Covered(g.ckpt)'
           /\ \A p \in Pages : Left(p)' = Left(p)
<1>1. Header \in Files /\ Pages \subseteq Files /\ Header \notin Pages
  BY PagesAssumption DEF Files, Header
<1>2. /\ os' = [f \in Files |-> IF f = Header THEN h ELSE os[f]]
      /\ maybe' = [f \in Files |-> IF f = Header THEN maybe[Header] \cup {h} ELSE maybe[f]]
  BY <1>1, Zenon DEF WriteFile, FileTypes
<1>3. /\ os' = [f \in Files |-> os'[f]] /\ maybe' = [f \in Files |-> maybe'[f]]
      /\ \A f \in Files : f # Header => os'[f] = os[f] /\ maybe'[f] = maybe[f]
      /\ os'[Header] = h /\ maybe'[Header] = maybe[Header] \cup {h}
  BY <1>1, <1>2
<1>4. FileTypes'
  BY <1>1, <1>3, Zenon DEF FileTypes
<1>5. LogTypes'
  BY DEF LogTypes
<1>6. LogsLeft' = LogsLeft /\ \A p \in Pages : Left(p)' = Left(p)
  BY <1>1, <1>3, Zenon DEF Left, LogsLeft
<1>7. \A g \in Left(Header)' : g \in Left(Header) \/ g = h
  BY <1>1, <1>3 DEF Left
<1>8. \A n \in Nat : Covered(n) => Covered(n)'
  <2>1. ASSUME NEW g \in Left(Header)', NEW l \in LogsLeft'
        PROVE  \E k \in Left(Header), m \in LogsLeft :
                 /\ k.ckpt <= g.ckpt
                 /\ \A n \in Lsns(m) : n <= g.ckpt \/ \E i \in Lsns(l) : n <= i
    <3>1. l \in LogsLeft /\ Lsns(l) \subseteq Nat
      BY <1>6, LeftTypes, Zenon
    <3>2. CASE g \in Left(Header)
      BY <3>1, <3>2, LeftTypes
    <3>3. CASE g = h
      BY <3>1, <3>3, LeftTypes
    <3>. QED
      BY <1>7, <3>2, <3>3, Zenon
  <2>. QED
    BY <2>1, <1>4, <1>5, CoverKept, Zenon
<1>9. \A g \in Left(Header)' : Covered(g.ckpt)'
  <2>1. \A g \in Left(Header)' : Covered(g.ckpt) /\ g.ckpt \in Nat
    BY <1>7, LeftTypes, Zenon DEF Coverage, Headers
  <2>. QED
    BY <1>8, <2>1
<1>. QED
  BY <1>3, <1>4, <1>5, <1>6, <1>8, <1>9, Zenon

\* fsync: fewer versions are left.
LEMMA FilesSynced ==
    ASSUME FileTypes, LogTypes, Coverage, UNCHANGED <<mode, os, hdr, log, logs, nextLsn, durable, scan, buf>>,
           FSync
    PROVE  /\ FileTypes' /\ LogTypes' /\ LogsLeft' = LogsLeft /\ maybe'[Header] = {os[Header]}
           /\ \A n \in Nat : Covered(n) => Covered(n)'
           /\ \A g \in Left(Header)' : Covered(g.ckpt)'
           /\ \A p \in Pages : Left(p)' \subseteq Left(p)
<1>1. Header \in Files /\ Pages \subseteq Files
  BY DEF Files
<1>2. maybe' = [f \in Files |-> maybe'[f]] /\ \A f \in Files : maybe'[f] = {os[f]}
  BY DEF FSync
<1>3. FileTypes'
  BY <1>1, <1>2 DEF FileTypes
<1>4. LogTypes'
  BY DEF LogTypes
<1>5. LogsLeft' = LogsLeft /\ \A f \in Files : Left(f)' \subseteq Left(f)
  BY <1>2 DEF Left, LogsLeft, FileTypes
<1>6. \A n \in Nat : Covered(n) => Covered(n)'
  BY <1>1, <1>5 DEF Covered
<1>7. \A g \in Left(Header)' : Covered(g.ckpt)'
  <2>1. \A g \in Left(Header)' : Covered(g.ckpt) /\ g.ckpt \in Nat
    BY <1>1, <1>5, LeftTypes, Zenon DEF Coverage
  <2>. QED
    BY <1>6, <2>1
<1>. QED
  BY <1>1, <1>2, <1>3, <1>4, <1>5, <1>6, <1>7

\* The log is emptied under headers that account for it.
LEMMA LogEmptied ==
    ASSUME FileTypes, LogTypes, Coverage, UNCHANGED <<mode, os, maybe, hdr, nextLsn, durable>>,
           scan' \in Nat, WalReset,
           \A h \in Left(Header) : \A n \in Lsns(log) : n <= h.ckpt
    PROVE  /\ FileTypes' /\ LogTypes' /\ log' = <<>> /\ buf' = <<>>
           /\ \A f \in Files : Left(f)' = Left(f)
           /\ \A n \in Nat : Covered(n) => Covered(n)'
           /\ \A l \in LogsLeft' : \A n \in Lsns(l) : Covered(n)'
<1>1. Header \in Files /\ Pages \subseteq Files
  BY DEF Files
<1>2. log' = <<>> /\ buf' = <<>> /\ logs' = logs \cup {<<>>}
  BY DEF WalReset
<1>3. FileTypes'
  BY Zenon DEF FileTypes
<1>4. LogTypes'
  BY <1>2, EmptyLog DEF LogTypes
<1>5. \A f \in Files : Left(f)' = Left(f)
  BY DEF Left
<1>6. \A l \in LogsLeft' : l \in LogsLeft \/ l = <<>>
  BY <1>2 DEF LogsLeft
<1>7. \A n \in Nat : Covered(n) => Covered(n)'
  <2>1. ASSUME NEW g \in Left(Header)', NEW l \in LogsLeft'
        PROVE  \E k \in Left(Header), m \in LogsLeft :
                 /\ k.ckpt <= g.ckpt
                 /\ \A n \in Lsns(m) : n <= g.ckpt \/ \E i \in Lsns(l) : n <= i
    <3>1. g \in Left(Header) /\ g.ckpt \in Nat
      BY <1>1, <1>5, LeftTypes
    <3>2. CASE l \in LogsLeft
      <4>1. Lsns(l) \subseteq Nat
        BY <3>2, LeftTypes
      <4>. QED
        BY <3>1, <3>2, <4>1
    <3>3. CASE l = <<>>
      <4>1. log \in LogsLeft /\ Lsns(log) \subseteq Nat
        BY LeftTypes
      <4>. QED
        BY <3>1, <4>1
    <3>. QED
      BY <1>6, <3>2, <3>3
  <2>. QED
    BY <2>1, <1>3, <1>4, CoverKept
<1>8. ASSUME NEW l \in LogsLeft', NEW n \in Lsns(l) PROVE Covered(n)'
  <2>1. l # <<>>
    BY EmptyLog
  <2>2. l \in LogsLeft
    BY <2>1, <1>6
  <2>3. Covered(n) /\ n \in Nat
    BY <2>2, LeftTypes, Zenon DEF Coverage
  <2>. QED
    BY <2>3, <1>7
<1>. QED
  BY <1>2, <1>3, <1>4, <1>5, <1>7, <1>8

-----------------------------------------------------------------------------
(* Opening *)

\* Opening reads the header and finds the end of the log.
LEMMA OpenFilesKeeps == ASSUME LeastNumber, IInv, OpenFiles PROVE IInv'
<1> DEFINE top == Upper(Lsns(log), 0)
<1>1. FileTypes /\ LogTypes /\ PoolTypes /\ CallTypes /\ Coverage /\ Order /\ Births /\ Calling
  BY DEF IInv, Types
<1>2. phase = "closed" /\ phase' = "replay" /\ hdr' = os[Header] /\ nextLsn' = top + 1
      /\ durable' = top /\ scan' = 0
      /\ UNCHANGED <<mode, os, maybe, log, logs, buf, mem, bg, pc, op, latched, crashes>>
  BY DEF OpenFiles, poolVars, callVars, counters
<1>3. IsLog(log) /\ log \in LogsLeft /\ os[Header] \in Left(Header)
      /\ os[Header] \in maybe[Header] /\ os[Header] \in Headers
  BY <1>1, LeftTypes, Zenon DEF LogTypes, FileTypes, Files
<1>4. top \in Nat /\ top \in Lsns(log) \cup {0} /\ \A n \in Lsns(log) : n <= top
  BY <1>3, UpperOfLog
<1>. HIDE DEF top
<1>5. FileTypes' /\ LogTypes' /\ PoolTypes'
  <2>1. FileTypes'
    BY <1>1, <1>2, <1>3, Zenon DEF FileTypes
  <2>2. LogTypes'
    BY <1>1, <1>2, <1>4 DEF LogTypes
  <2>3. PoolTypes'
    BY <1>1, <1>2, Zenon DEF PoolTypes
  <2>. QED
    BY <2>1, <2>2, <2>3
<1>6. CallTypes' /\ Calling' /\ \A t \in Threads : pc[t] = "idle" /\ latched[t] = {}
  BY <1>1, <1>2, NobodyCalls
<1>7. Covered(top)
  BY <1>1, <1>3, <1>4, CoveredZero, Zenon DEF Coverage
<1>8. Coverage'
  BY <1>1, <1>2, <1>3, <1>6, <1>7, SameCover, Zenon DEF Coverage
<1>9. Order'
  <2>1. Lsns(buf) = {}
    BY <1>1, <1>2, EmptyLog, Zenon DEF Order
  <2>2. os[Header].ckpt \in Nat
    BY <1>3 DEF Headers
  <2>3. Lsns(log) \subseteq Nat
    BY <1>3 DEF IsLog, Lsns
  <2>. QED
    BY <1>1, <1>2, <1>4, <2>1, <2>2, <2>3 DEF Order
<1>10. Births'
  BY <1>1, <1>2, <1>3, ZenonT(30) DEF Births
<1>. QED
  BY <1>5, <1>6, <1>8, <1>9, <1>10 DEF IInv, Types

\* Replay writes a page version whose record is in the log, or rewrites the page.
LEMMA ReplayRecordKeeps == ASSUME IInv, ReplayRecord PROVE IInv'
<1> DEFINE rec == log[scan + 1]
           v == RecoverPage(os[rec.pid], hdr.ckpt, rec)
<1>1. FileTypes /\ LogTypes /\ PoolTypes /\ CallTypes /\ Coverage /\ Order /\ Births /\ Calling
  BY DEF IInv, Types
<1>2. /\ phase = "replay" /\ scan < Len(log) /\ scan' = scan + 1 /\ WriteFile(rec.pid, v)
      /\ UNCHANGED <<mode, phase, hdr, log, logs, buf, nextLsn, durable, mem, bg, pc, op, latched,
                     crashes>>
  BY Zenon DEF ReplayRecord, logVars, poolVars, callVars, counters
<1>3. IsLog(log) /\ log \in LogsLeft
  BY <1>1, LeftTypes DEF LogTypes
<1>4. scan + 1 \in DOMAIN log
  BY <1>1, <1>2, <1>3 DEF IsLog, LogTypes
<1>5. rec.pid \in Pages /\ rec.lsn \in Nat /\ rec.lsn \in Lsns(log)
  BY <1>3, <1>4 DEF IsLog, Lsns
<1>. HIDE DEF rec
<1>6. v = os[rec.pid] \/ v.lsn = rec.lsn
  BY DEF RecoverPage
<1>7. v.lsn \in Nat /\ Covered(v.lsn)
  <2>1. os[rec.pid].lsn \in Nat /\ Covered(os[rec.pid].lsn)
    BY <1>1, <1>5, LeftTypes, Zenon DEF Coverage
  <2>2. Covered(rec.lsn)
    BY <1>1, <1>3, <1>5 DEF Coverage
  <2>. QED
    BY <1>5, <1>6, <2>1, <2>2, Zenon
<1>. HIDE DEF v
<1>8. /\ FileTypes'
      /\ os'[Header] = os[Header] /\ maybe'[Header] = maybe[Header]
      /\ Left(Header)' = Left(Header) /\ LogsLeft' = LogsLeft
      /\ \A n : Covered(n)' = Covered(n)
      /\ \A q \in Pages : \A w \in Left(q)' : Covered(w.lsn)'
  BY <1>1, <1>2, <1>5, <1>7, PageWritten, Zenon
<1>9. LogTypes' /\ PoolTypes'
  BY <1>1, <1>2 DEF LogTypes, PoolTypes
<1>10. CallTypes' /\ Calling' /\ \A t \in Threads : pc[t] = "idle" /\ latched[t] = {}
  BY <1>1, <1>2, NobodyCalls
<1>11. Coverage'
  BY <1>1, <1>2, <1>8, <1>10, Zenon DEF Coverage
<1>12. Order' /\ Births'
  BY <1>1, <1>2, <1>8, Zenon DEF Order, Births
<1>. QED
  BY <1>8, <1>9, <1>10, <1>11, <1>12 DEF IInv, Types

\* A new checkpoint is made only if the log is ahead of the header.
LEMMA ReplayDoneKeeps == ASSUME LeastNumber, IInv, ReplayDone PROVE IInv'
<1> DEFINE top == Upper(Lsns(log), 0)
<1>1. FileTypes /\ LogTypes /\ PoolTypes /\ CallTypes /\ Coverage /\ Order /\ Births /\ Calling
  BY DEF IInv, Types
<1>2. /\ phase = "replay" /\ phase' = (IF top > hdr.ckpt THEN "sync" ELSE "tree")
      /\ UNCHANGED <<mode, os, maybe, hdr, log, logs, buf, nextLsn, durable, scan, mem, bg, pc, op,
                     latched, crashes>>
  BY DEF ReplayDone, fileVars, logVars, poolVars, callVars, counters
<1>3. IsLog(log) /\ hdr.ckpt \in Nat
  BY <1>1 DEF LogTypes, FileTypes, Headers
<1>4. top \in Nat /\ top \in Lsns(log) \cup {0}
  BY <1>3, UpperOfLog
<1>. HIDE DEF top
<1>5. FileTypes' /\ LogTypes' /\ PoolTypes'
  BY <1>1, <1>2, Zenon DEF FileTypes, LogTypes, PoolTypes
<1>6. CallTypes' /\ Calling'
  BY <1>1, <1>2, NobodyCalls
<1>7. Coverage'
  BY <1>1, <1>2, SameCover, Zenon DEF Coverage
<1>8. Order'
  <2>1. phase' = "sync" => \E n \in Lsns(log) : hdr.ckpt < n
    BY <1>2, <1>3, <1>4
  <2>2. phase' \in {"sync", "tree"}
    BY <1>2
  <2>3. /\ durable < nextLsn /\ \A n \in Lsns(buf) : n < nextLsn
        /\ buf = <<>> /\ (\A n \in Lsns(log) : n < nextLsn) /\ os[Header].ckpt <= hdr.ckpt
    BY <1>1, <1>2, Zenon DEF Order
  <2>. QED
    BY <1>2, <2>1, <2>2, <2>3, Zenon DEF Order
<1>9. Births'
  BY <1>1, <1>2, Zenon DEF Births
<1>. QED
  BY <1>5, <1>6, <1>7, <1>8, <1>9 DEF IInv, Types

\* The recovered pages are synced.
LEMMA SyncRecoveredKeeps == ASSUME IInv, SyncRecovered PROVE IInv'
<1>1. FileTypes /\ LogTypes /\ PoolTypes /\ CallTypes /\ Coverage /\ Order /\ Births /\ Calling
  BY DEF IInv, Types
<1>2. /\ phase = "sync" /\ phase' = "checkpoint" /\ FSync
      /\ UNCHANGED <<mode, os, hdr, log, logs, buf, nextLsn, durable, scan, mem, bg, pc, op,
                     latched, crashes>>
  BY DEF SyncRecovered, logVars, poolVars, callVars, counters
<1>3. /\ FileTypes' /\ LogTypes' /\ LogsLeft' = LogsLeft /\ maybe'[Header] = {os[Header]}
      /\ \A n \in Nat : Covered(n) => Covered(n)'
      /\ \A g \in Left(Header)' : Covered(g.ckpt)'
      /\ \A p \in Pages : Left(p)' \subseteq Left(p)
  BY <1>1, <1>2, FilesSynced, Zenon
<1>4. PoolTypes'
  BY <1>1, <1>2, Zenon DEF PoolTypes
<1>5. CallTypes' /\ Calling' /\ \A t \in Threads : pc[t] = "idle" /\ latched[t] = {}
  BY <1>1, <1>2, NobodyCalls
<1>6. Coverage'
  BY <1>1, <1>2, <1>3, <1>5, Numbers, Zenon DEF Coverage
<1>7. Order'
  BY <1>1, <1>2, Zenon DEF Order
<1>8. Births'
  BY <1>1, <1>2, <1>3, LeftTypes, Zenon DEF Births, FileTypes, Files
<1>. QED
  BY <1>3, <1>4, <1>5, <1>6, <1>7, <1>8 DEF IInv, Types

\* Recovery's checkpoint is the newest record of the log, so no header is lowered.
LEMMA SetRecoveredCheckpointKeeps == ASSUME LeastNumber, IInv, SetRecoveredCheckpoint PROVE IInv'
<1> DEFINE h == [hdr EXCEPT !.ckpt = Upper(Lsns(log), 0)]
<1>1. FileTypes /\ LogTypes /\ PoolTypes /\ CallTypes /\ Coverage /\ Order /\ Births /\ Calling
  BY DEF IInv, Types
<1>2. /\ phase = "checkpoint" /\ phase' = "sync_checkpoint" /\ hdr' = h /\ WriteFile(Header, h)
      /\ UNCHANGED <<mode, log, logs, buf, nextLsn, durable, scan, mem, bg, pc, op, latched, crashes>>
  BY DEF SetRecoveredCheckpoint, logVars, poolVars, callVars, counters
<1>3. IsLog(log) /\ log \in LogsLeft /\ hdr \in Headers
  BY <1>1, LeftTypes, Zenon DEF LogTypes, FileTypes
<1>4. /\ Upper(Lsns(log), 0) \in Nat /\ Upper(Lsns(log), 0) \in Lsns(log) \cup {0}
      /\ \A n \in Lsns(log) : n <= Upper(Lsns(log), 0)
  BY <1>3, UpperOfLog
<1>5. h \in Headers /\ h.ckpt = Upper(Lsns(log), 0) /\ h.root = hdr.root
  BY <1>3, <1>4 DEF Headers
<1>. HIDE DEF h
<1>6. os[Header].ckpt <= h.ckpt /\ Covered(h.ckpt) /\ \A n \in Lsns(log) : n <= h.ckpt
  <2>1. PICK n \in Lsns(log) : hdr.ckpt < n
    BY <1>1, <1>2, Zenon DEF Order
  <2>2. n \in Nat /\ hdr.ckpt \in Nat /\ os[Header].ckpt \in Nat /\ os[Header].ckpt <= hdr.ckpt
    BY <1>1, <1>2, <1>3, LeftTypes, Zenon DEF Order, Headers
  <2>3. os[Header].ckpt <= h.ckpt
    BY <1>4, <1>5, <2>1, <2>2
  <2>4. Covered(h.ckpt)
    BY <1>1, <1>3, <1>4, <1>5, CoveredZero, Zenon DEF Coverage
  <2>. QED
    BY <1>4, <1>5, <2>3, <2>4
<1>7. /\ FileTypes' /\ LogTypes' /\ LogsLeft' = LogsLeft
      /\ os'[Header] = h /\ maybe'[Header] = maybe[Header] \cup {h}
      /\ \A n \in Nat : Covered(n) => Covered(n)'
      /\ \A g \in Left(Header)' : Covered(g.ckpt)'
      /\ \A p \in Pages : Left(p)' = Left(p)
  BY <1>1, <1>2, <1>5, <1>6, HeaderWritten, Zenon
<1>8. PoolTypes'
  BY <1>1, <1>2, Zenon DEF PoolTypes
<1>9. CallTypes' /\ Calling' /\ \A t \in Threads : pc[t] = "idle" /\ latched[t] = {}
  BY <1>1, <1>2, NobodyCalls
<1>10. Coverage'
  BY <1>1, <1>2, <1>5, <1>6, <1>7, <1>9, LeftTypes, ZenonT(30) DEF Coverage, LogTypes, PoolTypes, Headers
<1>11. Order'
  BY <1>1, <1>2, <1>5, <1>6, <1>7 DEF Order, Headers
<1>12. Births'
  <2>1. mode.fresh => hdr.root # 0
    BY <1>1, <1>2, EmptyLog, Zenon DEF Births, Order
  <2>2. CASE mode.fresh
    BY <1>1, <1>2, <1>5, <2>1, <2>2, Zenon DEF Births
  <2>3. CASE ~mode.fresh
    BY <1>1, <1>2, <1>5, <1>7, <2>3, ZenonT(30) DEF Births
  <2>. QED
    BY <2>2, <2>3
<1>. QED
  BY <1>7, <1>8, <1>9, <1>10, <1>11, <1>12 DEF IInv, Types

\* Once recovery's header is synced it is the only one left.
LEMMA SyncRecoveredCheckpointKeeps == ASSUME IInv, SyncRecoveredCheckpoint PROVE IInv'
<1>1. FileTypes /\ LogTypes /\ PoolTypes /\ CallTypes /\ Coverage /\ Order /\ Births /\ Calling
  BY DEF IInv, Types
<1>2. /\ phase = "sync_checkpoint" /\ phase' = "reset" /\ FSync
      /\ UNCHANGED <<mode, os, hdr, log, logs, buf, nextLsn, durable, scan, mem, bg, pc, op,
                     latched, crashes>>
  BY DEF SyncRecoveredCheckpoint, logVars, poolVars, callVars, counters
<1>3. /\ FileTypes' /\ LogTypes' /\ LogsLeft' = LogsLeft /\ maybe'[Header] = {os[Header]}
      /\ \A n \in Nat : Covered(n) => Covered(n)'
      /\ \A g \in Left(Header)' : Covered(g.ckpt)'
      /\ \A p \in Pages : Left(p)' \subseteq Left(p)
  BY <1>1, <1>2, FilesSynced, Zenon
<1>4. PoolTypes'
  BY <1>1, <1>2, ZenonT(30) DEF PoolTypes
<1>5. CallTypes' /\ Calling' /\ \A t \in Threads : pc[t] = "idle" /\ latched[t] = {}
  BY <1>1, <1>2, NobodyCalls
<1>6. Coverage'
  BY <1>1, <1>2, <1>3, <1>5, Numbers, Zenon DEF Coverage
<1>7. Order'
  BY <1>1, <1>2, <1>3, Zenon DEF Order
<1>8. Births'
  BY <1>1, <1>2, <1>3, LeftTypes, Zenon DEF Births, FileTypes, Files
<1>. QED
  BY <1>3, <1>4, <1>5, <1>6, <1>7, <1>8 DEF IInv, Types

\* That header accounts for every record of the log recovery truncates.
LEMMA ResetRecoveredLogKeeps == ASSUME IInv, ResetRecoveredLog PROVE IInv'
<1>1. FileTypes /\ LogTypes /\ PoolTypes /\ CallTypes /\ Coverage /\ Order /\ Births /\ Calling
  BY DEF IInv, Types
<1>2. /\ phase = "reset" /\ phase' = "tree" /\ WalReset /\ scan' = 0
      /\ UNCHANGED <<mode, os, maybe, hdr, nextLsn, durable, mem, bg, pc, op, latched, crashes>>
  BY DEF ResetRecoveredLog, fileVars, callVars, counters
<1>3. \A h \in Left(Header) : \A n \in Lsns(log) : n <= h.ckpt
  BY <1>1, <1>2, Zenon DEF Order, Left
<1>4. /\ FileTypes' /\ LogTypes' /\ log' = <<>> /\ buf' = <<>>
      /\ \A f \in Files : Left(f)' = Left(f)
      /\ \A n \in Nat : Covered(n) => Covered(n)'
      /\ \A l \in LogsLeft' : \A n \in Lsns(l) : Covered(n)'
  BY <1>1, <1>2, <1>3, LogEmptied, Zenon
<1>5. PoolTypes'
  BY <1>1, <1>2, Zenon DEF PoolTypes
<1>6. CallTypes' /\ Calling' /\ \A t \in Threads : pc[t] = "idle" /\ latched[t] = {}
  BY <1>1, <1>2, NobodyCalls
<1>7. Coverage'
  BY <1>1, <1>2, <1>4, <1>6, Numbers, Zenon DEF Coverage
<1>8. Order'
  BY <1>1, <1>2, <1>4, EmptyLog, Zenon DEF Order
<1>9. Births'
  BY <1>1, <1>2, <1>4, Zenon DEF Births
<1>. QED
  BY <1>4, <1>5, <1>6, <1>7, <1>8, <1>9 DEF IInv, Types

\* The frames are loaded from the file, and the LSNs start past the checkpoint.
LEMMA OpenTreeKeeps == ASSUME LeastNumber, IInv, OpenTree PROVE IInv'
<1>1. FileTypes /\ LogTypes /\ PoolTypes /\ CallTypes /\ Coverage /\ Order /\ Births /\ Calling
  BY DEF IInv, Types
<1>2. /\ phase = "tree" /\ hdr.root # 0 /\ phase' = "open" /\ mem' = [p \in Pages |-> os[p]]
      /\ nextLsn' = Upper({nextLsn}, hdr.ckpt + 1) /\ durable' = Upper({durable}, hdr.ckpt)
      /\ UNCHANGED <<mode, os, maybe, hdr, log, logs, buf, scan, bg, pc, op, latched, crashes>>
  BY Zenon DEF OpenTree, fileVars, counters
<1>3. nextLsn \in Nat /\ durable \in Nat /\ hdr.ckpt \in Nat /\ hdr.ckpt + 1 \in Nat
  BY <1>1 DEF LogTypes, FileTypes, Headers
<1>4. /\ durable' \in {durable, hdr.ckpt} /\ durable <= durable' /\ hdr.ckpt <= durable'
      /\ nextLsn' \in {nextLsn, hdr.ckpt + 1} /\ nextLsn <= nextLsn' /\ hdr.ckpt + 1 <= nextLsn'
  BY <1>2, <1>3, UpperOfTwo
<1>5. FileTypes' /\ LogTypes' /\ PoolTypes'
  <2>1. FileTypes'
    BY <1>1, <1>2, Zenon DEF FileTypes
  <2>2. LogTypes'
    BY <1>1, <1>2, <1>3, <1>4, Zenon DEF LogTypes
  <2>3. \A p \in Pages : mem'[p] = os[p] /\ os[p].lsn \in Nat
    BY <1>1, <1>2, LeftTypes, Zenon
  <2>4. PoolTypes'
    BY <1>1, <1>2, <2>3, Zenon DEF PoolTypes
  <2>. QED
    BY <2>1, <2>2, <2>4
<1>6. CallTypes' /\ Calling' /\ \A t \in Threads : pc[t] = "idle" /\ latched[t] = {}
  BY <1>1, <1>2, NobodyCalls, Zenon
<1>7. Coverage'
  BY <1>1, <1>2, <1>4, <1>6, SameCover, Zenon DEF Coverage
<1>8. Order'
  <2>1. Lsns(buf) = {} /\ Lsns(log) \subseteq Nat /\ \A n \in Lsns(log) : n < nextLsn
    BY <1>1, <1>2, EmptyLog, LeftTypes, Zenon DEF Order
  <2>2. durable < nextLsn /\ os[Header].ckpt <= hdr.ckpt
    BY <1>1, <1>2, Zenon DEF Order
  <2>3. durable' < nextLsn' /\ hdr.ckpt < nextLsn' /\ \A n \in Lsns(log) : n < nextLsn'
    BY <1>3, <1>4, <2>1, <2>2
  <2>4. Lsns(buf)' = {} /\ Lsns(log)' = Lsns(log)
    BY <1>2, <2>1
  <2>. QED
    BY <1>2, <1>4, <2>2, <2>3, <2>4, Zenon DEF Order
<1>9. Births'
  BY <1>1, <1>2, Zenon DEF Births
<1>. QED
  BY <1>5, <1>6, <1>7, <1>8, <1>9 DEF IInv, Types

\* The first root is only in memory and in the buffer when it is created.
LEMMA CreateTreeKeeps == ASSUME IInv, CreateTree PROVE IInv'
<1> DEFINE page == [Blank(Root) EXCEPT !.lsn = nextLsn]
<1>1. FileTypes /\ LogTypes /\ PoolTypes /\ CallTypes /\ Coverage /\ Order /\ Births /\ Calling
  BY DEF IInv, Types
<1>2. /\ phase = "tree" /\ hdr.root = 0 /\ phase' = "create" /\ LogImage(Root, page)
      /\ mem' = [p \in Pages |-> IF p = Root THEN page ELSE os[p]]
      /\ nextLsn' = nextLsn + 1 /\ hdr' = [hdr EXCEPT !.root = Root]
      /\ UNCHANGED <<mode, os, maybe, log, logs, durable, scan, bg, pc, op, latched, crashes>>
  BY DEF CreateTree, callVars, counters
<1>3. page.lsn = nextLsn
  BY DEF Blank
<1>4. nextLsn \in Nat /\ hdr \in Headers /\ Root \in Pages /\ Root \in Nat /\ Root # 0
  BY <1>1, PagesAssumption DEF LogTypes, FileTypes
<1>5. hdr' \in Headers /\ hdr'.ckpt = hdr.ckpt /\ hdr'.root # 0
  BY <1>2, <1>4 DEF Headers
<1>. HIDE DEF page
<1>6. IsLog(buf') /\ Lsns(buf') \subseteq Lsns(buf) \cup {nextLsn}
  BY <1>1, <1>2, <1>3, <1>4, ImageLogged DEF LogTypes
<1>7. mode.fresh /\ log = <<>> /\ hdr.ckpt = 0
  <2>1. hdr.root # 0 \/ mode.fresh
    BY <1>1 DEF Births
  <2>. QED
    BY <1>1, <1>2, <2>1 DEF Births
<1>8. FileTypes' /\ LogTypes' /\ PoolTypes'
  <2>1. FileTypes'
    BY <1>1, <1>2, <1>5, Zenon DEF FileTypes
  <2>2. LogTypes'
    BY <1>1, <1>2, <1>6 DEF LogTypes
  <2>3. \A p \in Pages : mem'[p].lsn \in Nat
    BY <1>1, <1>2, <1>3, <1>4, LeftTypes, Zenon
  <2>4. PoolTypes'
    BY <1>1, <1>2, <2>3, Zenon DEF PoolTypes
  <2>. QED
    BY <2>1, <2>2, <2>4
<1>9. CallTypes' /\ Calling' /\ \A t \in Threads : pc[t] = "idle" /\ latched[t] = {}
  BY <1>1, <1>2, NobodyCalls
<1>10. Coverage'
  BY <1>1, <1>2, <1>5, <1>9, SameCover, Zenon DEF Coverage
<1>11. Order'
  <2>1. Lsns(buf) = {} /\ Lsns(log) = {} /\ durable \in Nat /\ Lsns(buf') \subseteq {nextLsn}
    BY <1>1, <1>2, <1>6, <1>7, EmptyLog, Zenon DEF Order, LogTypes
  <2>. QED
    BY <1>1, <1>2, <1>4, <1>5, <1>7, <2>1 DEF Order
<1>12. Births'
  BY <1>1, <1>2, <1>5, <1>7 DEF Births
<1>. QED
  BY <1>8, <1>9, <1>10, <1>11, <1>12 DEF IInv, Types

\* The header in memory is written and everything is synced.
LEMMA HeaderSynced ==
    ASSUME FileTypes, LogTypes, LogTypes', Coverage, UNCHANGED <<mode, hdr, log>>,
           os[Header].ckpt <= hdr.ckpt, logs' \subseteq logs,
           os' = [os EXCEPT ![Header] = hdr], maybe' = [f \in Files |-> {os'[f]}]
    PROVE  /\ FileTypes' /\ LogsLeft' \subseteq LogsLeft
           /\ os'[Header] = hdr /\ maybe'[Header] = {hdr}
           /\ \A n \in Nat : Covered(n) => Covered(n)'
           /\ \A g \in Left(Header)' : Covered(g.ckpt)'
           /\ \A p \in Pages : Left(p)' \subseteq Left(p)
<1>1. Header \in Files /\ Pages \subseteq Files /\ Header \notin Pages
  BY PagesAssumption DEF Files, Header
<1>2. os' = [f \in Files |-> IF f = Header THEN hdr ELSE os[f]]
  BY <1>1 DEF FileTypes
<1>3. /\ os' = [f \in Files |-> os'[f]] /\ maybe' = [f \in Files |-> maybe'[f]]
      /\ os'[Header] = hdr /\ \A p \in Pages : os'[p] = os[p]
      /\ \A f \in Files : maybe'[f] = {os'[f]}
  BY <1>1, <1>2, Zenon
<1>4. FileTypes'
  BY <1>1, <1>3, Zenon DEF FileTypes
<1>5. LogsLeft' \subseteq LogsLeft
  BY DEF LogsLeft
<1>6. Left(Header)' = {hdr} /\ \A p \in Pages : Left(p)' \subseteq Left(p)
  BY <1>1, <1>3 DEF Left, FileTypes
<1>7. hdr.ckpt \in Nat
  BY DEF FileTypes, Headers
<1>8. \A n \in Nat : Covered(n) => Covered(n)'
  <2>1. ASSUME NEW g \in Left(Header)', NEW l \in LogsLeft'
        PROVE  \E k \in Left(Header), m \in LogsLeft :
                 /\ k.ckpt <= g.ckpt
                 /\ \A n \in Lsns(m) : n <= g.ckpt \/ \E i \in Lsns(l) : n <= i
    <3>1. l \in LogsLeft /\ Lsns(l) \subseteq Nat
      BY <1>5, LeftTypes
    <3>2. g = hdr /\ os[Header] \in Left(Header)
      BY <1>6, LeftTypes, Zenon
    <3>. QED
      BY <3>1, <3>2
  <2>. QED
    BY <2>1, <1>4, CoverKept
<1>9. \A g \in Left(Header)' : Covered(g.ckpt)'
  BY <1>6, <1>7, <1>8, ZenonT(30) DEF Coverage
<1>. QED
  BY <1>1, <1>3, <1>4, <1>5, <1>6, <1>8, <1>9, Zenon

\* The header naming the first root is synced.
LEMMA SyncCreatedKeeps == ASSUME IInv, SyncCreated PROVE IInv'
<1>1. FileTypes /\ LogTypes /\ PoolTypes /\ CallTypes /\ Coverage /\ Order /\ Births /\ Calling
  BY DEF IInv, Types
<1>2. /\ phase = "create" /\ phase' = "open" /\ os' = [os EXCEPT ![Header] = hdr]
      /\ maybe' = [f \in Files |-> {os'[f]}]
      /\ UNCHANGED <<mode, hdr, log, logs, buf, nextLsn, durable, scan, mem, bg, pc, op, latched,
                     crashes>>
  BY DEF SyncCreated, logVars, poolVars, callVars, counters
<1>3. LogTypes' /\ PoolTypes'
  BY <1>1, <1>2, Zenon DEF LogTypes, PoolTypes
<1>4. /\ FileTypes' /\ LogsLeft' \subseteq LogsLeft
      /\ os'[Header] = hdr /\ maybe'[Header] = {hdr}
      /\ \A n \in Nat : Covered(n) => Covered(n)'
      /\ \A g \in Left(Header)' : Covered(g.ckpt)'
      /\ \A p \in Pages : Left(p)' \subseteq Left(p)
  BY <1>1, <1>2, <1>3, HeaderSynced, ZenonT(30) DEF Order
<1>5. CallTypes' /\ Calling' /\ \A t \in Threads : pc[t] = "idle" /\ latched[t] = {}
  BY <1>1, <1>2, NobodyCalls
<1>6. Coverage'
  BY <1>1, <1>2, <1>4, <1>5, Numbers, Zenon DEF Coverage
<1>7. Order'
  <2>1. hdr.ckpt \in Nat /\ hdr.ckpt <= hdr.ckpt /\ hdr.ckpt < nextLsn
    BY <1>1, <1>2 DEF Order, FileTypes, Headers
  <2>2. /\ durable < nextLsn /\ \A n \in Lsns(buf) : n < nextLsn
        /\ \A n \in Lsns(log) : n < nextLsn
    BY <1>1, <1>2, Zenon DEF Order
  <2>3. Lsns(buf)' = Lsns(buf) /\ Lsns(log)' = Lsns(log)
    BY <1>2
  <2>. QED
    BY <1>2, <1>4, <2>1, <2>2, <2>3, Zenon DEF Order
<1>8. Births'
  BY <1>1, <1>2, <1>4, ZenonT(30) DEF Births
<1>. QED
  BY <1>3, <1>4, <1>5, <1>6, <1>7, <1>8 DEF IInv, Types

-----------------------------------------------------------------------------
(* The log's driver *)

\* The log grows by the buffer, so it accounts for more.
LEMMA WalDrainKeeps == ASSUME LeastNumber, IInv, WalDrain PROVE IInv'
<1> DEFINE k == log \o buf
<1>1. FileTypes /\ LogTypes /\ PoolTypes /\ CallTypes /\ Coverage /\ Order /\ Births /\ Calling
  BY DEF IInv, Types
<1>2. /\ buf # <<>> /\ log' = k /\ logs' = {k} /\ durable' = Upper(Lsns(buf), durable)
      /\ buf' = <<>>
      /\ UNCHANGED <<mode, phase, os, maybe, hdr, nextLsn, scan, mem, bg, pc, op, latched, crashes>>
  BY DEF WalDrain, fileVars, callVars, counters
<1>3. /\ IsLog(k) /\ Lsns(k) = Lsns(log) \cup Lsns(buf)
      /\ Lsns(buf) \subseteq Nat /\ Lsns(log) \subseteq Nat
  <2>1. IsLog(log) /\ IsLog(buf)
    BY <1>1 DEF LogTypes
  <2>2. Lsns(buf) \subseteq Nat /\ Lsns(log) \subseteq Nat
    BY <2>1 DEF IsLog, Lsns
  <2>. QED
    BY <2>1, <2>2, JoinedLog
<1>4. /\ durable' \in Nat /\ durable' \in Lsns(buf) \cup {durable} /\ durable <= durable'
  BY <1>1, <1>2, UpperOfLog, Zenon DEF LogTypes
<1>. HIDE DEF k
<1>5. phase \in {"create", "open"} /\ hdr.root # 0
  BY <1>1, <1>2, Zenon DEF Order, Births
<1>6. FileTypes' /\ LogTypes' /\ PoolTypes'
  <2>1. FileTypes'
    BY <1>1, <1>2, Zenon DEF FileTypes
  <2>2. LogTypes'
    BY <1>1, <1>2, <1>3, <1>4, EmptyLog, Zenon DEF LogTypes
  <2>3. PoolTypes'
    BY <1>1, <1>2, Zenon DEF PoolTypes
  <2>. QED
    BY <2>1, <2>2, <2>3
<1>7. CallTypes' /\ Calling'
  BY <1>1, <1>2, CallsRest, Zenon
<1>8. LogsLeft' = {k} /\ Left(Header)' = Left(Header) /\ \A p \in Pages : Left(p)' = Left(p)
  BY <1>2 DEF LogsLeft, Left
<1>9. \A n \in Nat : Covered(n) => Covered(n)'
  <2>1. ASSUME NEW h \in Left(Header)', NEW l \in LogsLeft'
        PROVE  \E g \in Left(Header), m \in LogsLeft :
                 /\ g.ckpt <= h.ckpt
                 /\ \A n \in Lsns(m) : n <= h.ckpt \/ \E i \in Lsns(l) : n <= i
    <3>1. l = k /\ h \in Left(Header) /\ h.ckpt \in Nat /\ log \in LogsLeft
      BY <1>1, <1>8, LeftTypes
    <3>2. \A n \in Lsns(log) : n \in Lsns(l) /\ n <= n
      BY <1>3, <3>1
    <3>. QED
      BY <3>1, <3>2
  <2>. QED
    BY <1>1, <1>6, <2>1, CoverKept
<1>10. \A n \in Lsns(k) : Covered(n)'
  <2>1. \A n \in Lsns(k) : n <= n
    BY <1>3
  <2>. QED
    BY <1>8, <2>1 DEF Covered
<1>11. Coverage'
  <2>1. Covered(durable)'
    <3>1. CASE durable' \in Lsns(buf)
      BY <1>3, <1>10, <3>1
    <3>2. CASE durable' = durable
      <4>1. Covered(durable) /\ durable \in Nat
        BY <1>1 DEF Coverage, LogTypes
      <4>2. \A h \in Left(Header)', l \in LogsLeft' : durable <= h.ckpt \/ \E m \in Lsns(l) : durable <= m
        BY <1>9, <4>1 DEF Covered
      <4>. QED
        BY <3>2, <4>2 DEF Covered
    <3>. QED
      BY <1>4, <3>1, <3>2
  <2>2. Covered(hdr.ckpt)' /\ \A h \in Left(Header)' : Covered(h.ckpt)'
    BY <1>1, <1>2, <1>8, <1>9, LeftTypes, Zenon DEF Coverage, FileTypes, Headers
  <2>3. \A p \in Pages : \A v \in Left(p)' : Covered(v.lsn)'
    BY <1>1, <1>8, <1>9, LeftTypes, Zenon DEF Coverage
  <2>4. (bg # NoCopy => Covered(bg.page.lsn))'
    BY <1>1, <1>2, <1>9, Zenon DEF Coverage, PoolTypes
  <2>5. \A t \in Threads : pc'[t] # "idle" => Covered(op[t].ckpt)'
    BY <1>1, <1>2, <1>9, Zenon DEF Coverage, CallTypes, IsCall
  <2>6. \A t \in Threads : \A p \in latched'[t] : Covered(mem[p].lsn)'
    BY <1>1, <1>2, <1>9, Zenon DEF Coverage, CallTypes, PoolTypes
  <2>. QED
    BY <1>2, <1>8, <1>10, <2>1, <2>2, <2>3, <2>4, <2>5, <2>6, Zenon DEF Coverage
<1>12. Order'
  <2>1. /\ durable < nextLsn /\ \A n \in Lsns(buf) : n < nextLsn
        /\ \A n \in Lsns(log) : n < nextLsn
        /\ os[Header].ckpt <= hdr.ckpt /\ hdr.ckpt < nextLsn
    BY <1>1, <1>5 DEF Order
  <2>2. durable' < nextLsn /\ \A n \in Lsns(log)' : n < nextLsn
    BY <1>2, <1>3, <1>4, <2>1
  <2>. QED
    BY <1>2, <1>5, <2>1, <2>2, EmptyLog, Zenon DEF Order
<1>13. Births'
  BY <1>1, <1>2, <1>5, Zenon DEF Births
<1>. QED
  BY <1>6, <1>7, <1>11, <1>12, <1>13 DEF IInv, Types
================================================================================
