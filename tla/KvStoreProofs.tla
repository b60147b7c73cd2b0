----------------------------- MODULE KvStoreProofs -----------------------------
(***************************************************************************)
(* WalBeforeData for any threads, keys, pages and modes of KvStore, as     *)
(* long as no checkpoint races with mutations, no buffered log write is    *)
(* counted on after a power loss, and the first opening is not cut short   *)
(* (the cases of findings K1, K4 and K5): the steps of the calls, the      *)
(* background writer and crashes, and the theorems.                        *)
(***************************************************************************)
EXTENDS KvStoreSteps

\* The files and the log stay, one caller moves, and what it latches is covered.
LEMMA QuietStep ==
    ASSUME IInv, NEW t \in Threads, pc[t] # "idle", OnlyMoves(t), CallOk(t)',
           UNCHANGED <<mode, phase, os, maybe, hdr, log, logs, buf, nextLsn, durable, scan, mem, bg,
                       crashes>>,
           pc'[t] # "idle" => IsCall(op'[t]) /\ op'[t].kind = op[t].kind /\ Covered(op'[t].ckpt),
           pc'[t] # "idle" /\ op[t].kind = "checkpoint" => CheckpointOk(t)',
           \A p \in latched'[t] : Covered(mem[p].lsn)
    PROVE  IInv'
<1>1. FileTypes /\ LogTypes /\ PoolTypes /\ CallTypes /\ Coverage /\ Order /\ Births /\ Calling
  BY Zenon DEF IInv, Types
<1>2. CallTypes' /\ Calling'
  BY <1>1, CallsKept, Zenon
<1>3. FileTypes'
  BY <1>1, Zenon DEF FileTypes
<1>4. LogTypes'
  BY <1>1, Zenon DEF LogTypes
<1>5. PoolTypes'
  BY <1>1, Zenon DEF PoolTypes
<1>6. Coverage'
  <2>1. /\ Left(Header)' = Left(Header) /\ LogsLeft' = LogsLeft
        /\ \A q \in Pages : Left(q)' = Left(q)
        /\ \A n : Covered(n)' = Covered(n)
    BY SameCover, Zenon
  <2>2. \A u \in Threads : pc'[u] # "idle" => Covered(op'[u].ckpt)
    BY <1>1, Zenon DEF Coverage, OnlyMoves
  <2>3. \A u \in Threads : \A p \in latched'[u] : Covered(mem[p].lsn)
    BY <1>1, Zenon DEF Coverage, OnlyMoves
  <2>. QED
    BY <1>1, <2>1, <2>2, <2>3, Zenon DEF Coverage
<1>7. Order' /\ Births'
  BY <1>1, Zenon DEF Order, Births
<1>. QED
  BY <1>2, <1>3, <1>4, <1>5, <1>6, <1>7, Zenon DEF IInv, Types

\* How a step of caller t changes the places and the calls.
LEMMA Moved ==
    ASSUME CallTypes, NEW t \in Threads, NEW place, NEW o,
           pc' = [pc EXCEPT ![t] = place], op' = [op EXCEPT ![t] = o]
    PROVE  /\ pc' = [u \in Threads |-> pc'[u]] /\ op' = [u \in Threads |-> op'[u]]
           /\ pc'[t] = place /\ op'[t] = o
           /\ \A u \in Threads : u # t => pc'[u] = pc[u] /\ op'[u] = op[u]
<1>1. /\ pc' = [u \in Threads |-> IF u = t THEN place ELSE pc[u]]
      /\ op' = [u \in Threads |-> IF u = t THEN o ELSE op[u]]
  BY Zenon DEF CallTypes
<1>. QED
  BY <1>1, Zenon

\* Return: one caller becomes idle.
LEMMA Returned ==
    ASSUME IInv, NEW t \in Threads, pc[t] # "idle", Return(t)
    PROVE  /\ pc' = [u \in Threads |-> pc'[u]] /\ op' = [u \in Threads |-> op'[u]]
           /\ pc'[t] = "idle" /\ \A u \in Threads : u # t => pc'[u] = pc[u] /\ op'[u] = op[u]
<1>1. CallTypes
  BY DEF IInv, Types
<1>. QED
  BY <1>1, Moved, Zenon DEF Return

\* Goto: one caller moves, its target the last LSN given out.
LEMMA Gone ==
    ASSUME IInv, NEW t \in Threads, pc[t] # "idle", NEW place, Goto(t, place)
    PROVE  /\ pc' = [u \in Threads |-> pc'[u]] /\ op' = [u \in Threads |-> op'[u]]
           /\ pc'[t] = place /\ Is(op'[t], op[t].kind, nextLsn - 1, op[t].ckpt, op[t].todo)
           /\ \A u \in Threads : u # t => pc'[u] = pc[u] /\ op'[u] = op[u]
<1> DEFINE o == [op[t] EXCEPT !.target = nextLsn - 1]
<1>1. CallTypes /\ nextLsn - 1 \in Int /\ IsCall(op[t])
  BY DEF IInv, Types, CallTypes, LogTypes
<1>2. pc' = [pc EXCEPT ![t] = place] /\ op' = [op EXCEPT ![t] = o]
  BY DEF Goto
<1>3. Is(o, op[t].kind, nextLsn - 1, op[t].ckpt, op[t].todo)
  BY <1>1, CallField
<1>. HIDE DEF o
<1>. QED
  BY <1>1, <1>2, <1>3, Moved, Zenon

\* The checkpoint a call carries is the durable LSN it read, which is covered.
LEMMA FlushWalKeeps == ASSUME IInv, NEW t \in Threads, FlushWal(t) PROVE IInv'
<1>1. LogTypes /\ CallTypes /\ Coverage /\ Order /\ Calling
  BY DEF IInv, Types
<1>2. /\ pc[t] = "flush" /\ durable >= op[t].target
      /\ UNCHANGED <<mode, phase, os, maybe, hdr, log, logs, buf, nextLsn, durable, scan, mem, bg,
                     latched, crashes>>
  BY DEF FlushWal, Flushed, fileVars, logVars, poolVars, counters
<1>3. /\ latched[t] = {} /\ phase = "open" /\ latched \in [Threads -> SUBSET Pages]
      /\ nextLsn \in Nat /\ durable \in Nat /\ durable < nextLsn /\ IsCall(op[t])
  BY <1>1, <1>2, Zenon DEF Calling, CallOk, CallTypes, LogTypes, Order
<1>4. CASE Return(t)
  <2>1. OnlyMoves(t) /\ pc'[t] = "idle"
    BY <1>2, <1>3, <1>4, Returned, Zenon DEF OnlyMoves
  <2>2. CallOk(t)'
    BY <1>2, <1>3, <2>1 DEF CallOk, CheckpointSteps
  <2>. QED
    BY <1>2, <1>3, <2>1, <2>2, QuietStep, Zenon
<1>5. CASE /\ op[t].kind \notin {"put", "flush_wal"} /\ pc' = [pc EXCEPT ![t] = "pool_flush"]
           /\ op' = [op EXCEPT ![t].ckpt = durable, ![t].target = nextLsn - 1]
  <2> DEFINE o == [op[t] EXCEPT !.ckpt = durable, !.target = nextLsn - 1]
  <2>1. op' = [op EXCEPT ![t] = o]
    BY <1>5, Zenon
  <2>2. Is(o, op[t].kind, nextLsn - 1, durable, op[t].todo)
    <3>1. nextLsn - 1 \in Int
      BY <1>3
    <3>. QED
      BY <1>3, <3>1, CallFields, Zenon
  <2>. HIDE DEF o
  <2>3. OnlyMoves(t) /\ pc'[t] = "pool_flush" /\ op'[t] = o
    BY <1>1, <1>2, <1>3, <1>5, <2>1, Moved, ZenonT(30) DEF OnlyMoves
  <2>4. CallOk(t)'
    <3>1. op'[t].kind \in Flushing
      BY <1>1, <1>2, <1>5, <2>2, <2>3, Zenon DEF Calling, CallOk, Is
    <3>. QED
      BY <1>2, <1>3, <2>3, <3>1, Zenon DEF CallOk, CheckpointSteps, Flushing
  <2>5. op[t].kind = "checkpoint" => CheckpointOk(t)'
    <3>1. op[t].kind = "checkpoint" => mode.alone /\ op[t].target = nextLsn - 1
      BY <1>1, <1>2, Zenon DEF Calling, CheckpointOk
    <3>2. op[t].kind = "checkpoint" => durable = nextLsn - 1
      BY <1>2, <1>3, <3>1
    <3>. QED
      BY <1>2, <2>2, <2>3, <3>1, <3>2, Zenon DEF CheckpointOk, CheckpointSteps, Is
  <2>6. Covered(op'[t].ckpt)
    BY <1>1, <2>2, <2>3 DEF Coverage, Is
  <2>. QED
    BY <1>2, <1>3, <2>2, <2>3, <2>4, <2>5, <2>6, QuietStep, Zenon DEF Is
<1>. QED
  BY <1>4, <1>5 DEF FlushWal

\* The frames of the pool are to be looked at.
LEMMA PoolFlushKeeps == ASSUME IInv, NEW t \in Threads, PoolFlush(t) PROVE IInv'
<1> DEFINE o == [op[t] EXCEPT !.todo = Pages]
<1>1. CallTypes /\ Coverage /\ Calling
  BY DEF IInv, Types
<1>2. /\ pc[t] = "pool_flush" /\ pc' = [pc EXCEPT ![t] = "collect"] /\ op' = [op EXCEPT ![t] = o]
      /\ UNCHANGED <<mode, phase, os, maybe, hdr, log, logs, buf, nextLsn, durable, scan, mem, bg,
                     latched, crashes>>
  BY DEF PoolFlush, Flushed, fileVars, logVars, poolVars, counters
<1>3. /\ latched[t] = {} /\ phase = "open" /\ latched \in [Threads -> SUBSET Pages]
      /\ IsCall(op[t]) /\ Covered(op[t].ckpt)
  BY <1>1, <1>2, Zenon DEF Calling, CallOk, CallTypes, Coverage
<1>4. Is(o, op[t].kind, op[t].target, op[t].ckpt, Pages)
  BY <1>3, CallField
<1>. HIDE DEF o
<1>5. OnlyMoves(t) /\ pc'[t] = "collect" /\ op'[t] = o
  BY <1>1, <1>2, <1>3, Moved, Zenon DEF OnlyMoves
<1>6. CallOk(t)'
  <2>1. op'[t].kind \in Flushing
    BY <1>1, <1>2, <1>4, <1>5, Zenon DEF Calling, CallOk, Is
  <2>. QED
    BY <1>2, <1>3, <1>5, <2>1, Zenon DEF CallOk, CheckpointSteps
<1>7. op[t].kind = "checkpoint" => CheckpointOk(t)'
  BY <1>1, <1>2, <1>4, <1>5, Zenon DEF Calling, CheckpointOk, CheckpointSteps, Is
<1>. QED
  BY <1>2, <1>3, <1>4, <1>5, <1>6, <1>7, QuietStep, Zenon DEF Is

\* A dirty frame is latched only once its record is durable, hence covered.
LEMMA CollectKeeps == ASSUME LeastNumber, IInv, NEW t \in Threads, Collect(t) PROVE IInv'
<1> DEFINE p == CHOOSE q \in op[t].todo : \A r \in op[t].todo : q <= r
           o == [op[t] EXCEPT !.todo = @ \ {p}]
<1>1. FileTypes /\ LogTypes /\ PoolTypes /\ CallTypes /\ Coverage /\ Calling
  BY DEF IInv, Types
<1>2. /\ pc[t] = "collect" /\ op[t].todo # {}
      /\ dirty[p] => durable >= mem[p].lsn
      /\ latched' = IF dirty[p] THEN [latched EXCEPT ![t] = @ \cup {p}] ELSE latched
      /\ op' = [op EXCEPT ![t] = o]
      /\ UNCHANGED <<mode, phase, os, maybe, hdr, log, logs, buf, nextLsn, durable, scan, mem, bg,
                     pc, crashes>>
  BY Zenon DEF Collect, fileVars, logVars, poolVars, counters
<1>3. /\ phase = "open" /\ latched \in [Threads -> SUBSET Pages]
      /\ IsCall(op[t]) /\ Covered(op[t].ckpt) /\ op[t].todo \subseteq Pages
      /\ pc = [u \in Threads |-> pc[u]]
  BY <1>1, <1>2, Zenon DEF Calling, CallOk, CallTypes, Coverage, IsCall
<1>4. p \in op[t].todo
  <2>1. op[t].todo \subseteq Nat
    BY <1>3, PagesAssumption
  <2>2. \E q \in op[t].todo : \A r \in op[t].todo : q <= r
    BY <1>2, <2>1, Zenon DEF LeastNumber
  <2>. QED
    BY <2>2
<1>5. Is(o, op[t].kind, op[t].target, op[t].ckpt, op[t].todo \ {p})
  <2>1. op[t].todo \ {p} \in SUBSET Pages
    BY <1>3
  <2>2. Is([op[t] EXCEPT !.todo = op[t].todo \ {p}], op[t].kind, op[t].target, op[t].ckpt, op[t].todo \ {p})
    BY <1>3, <2>1, CallField, Zenon
  <2>. QED
    BY <2>2, Zenon
<1>. HIDE DEF o, p
<1>6. /\ op' = [u \in Threads |-> op'[u]] /\ op'[t] = o
      /\ \A u \in Threads : u # t => op'[u] = op[u]
  <2>1. op' = [u \in Threads |-> IF u = t THEN o ELSE op[u]]
    BY <1>1, <1>2, Zenon DEF CallTypes
  <2>. QED
    BY <2>1
<1>7. /\ latched' \in [Threads -> SUBSET Pages]
      /\ latched'[t] \subseteq latched[t] \cup {p} /\ (p \in latched'[t] => p \in latched[t] \/ dirty[p])
      /\ \A u \in Threads : u # t => latched'[u] = latched[u]
  <2>1. CASE dirty[p]
    <3>1. latched' = [u \in Threads |-> IF u = t THEN latched[t] \cup {p} ELSE latched[u]]
      BY <1>2, <1>3, <2>1, Zenon
    <3>. QED
      BY <1>3, <1>4, <2>1, <3>1
  <2>2. CASE ~dirty[p]
    BY <1>2, <1>3, <2>2, Zenon
  <2>. QED
    BY <2>1, <2>2
<1>8. OnlyMoves(t)
  BY <1>2, <1>3, <1>6, <1>7, Zenon DEF OnlyMoves
<1>9. CallOk(t)'
  <2>1. op'[t].kind \in Flushing
    BY <1>1, <1>2, <1>5, <1>6, Zenon DEF Calling, CallOk, Is
  <2>. QED
    BY <1>2, <1>3, <2>1, Zenon DEF CallOk, CheckpointSteps
<1>10. op[t].kind = "checkpoint" => CheckpointOk(t)'
  BY <1>1, <1>2, <1>5, <1>6, Zenon DEF Calling, CheckpointOk, CheckpointSteps, Is
<1>11. \A q \in latched'[t] : Covered(mem[q].lsn)
  <2>1. \A q \in latched[t] : Covered(mem[q].lsn)
    BY <1>1 DEF Coverage
  <2>2. dirty[p] => Covered(mem[p].lsn)
    <3>1. p \in Pages /\ mem[p].lsn \in Nat /\ durable \in Nat /\ Covered(durable)
      BY <1>1, <1>3, <1>4, Zenon DEF PoolTypes, LogTypes, Coverage
    <3>. QED
      BY <1>1, <1>2, <3>1, CoveredBelow, Zenon
  <2>. QED
    BY <1>7, <2>1, <2>2
<1>. QED
  BY <1>2, <1>3, <1>5, <1>6, <1>8, <1>9, <1>10, <1>11, QuietStep, Zenon DEF Is

\* AfterPoolFlush: the call returns, or goes on with its frames unlatched.
LEMMA FlushReturns ==
    ASSUME IInv, NEW t \in Threads, pc[t] \in {"collect", "sync"}, AfterPoolFlush(t)
    PROVE  /\ pc' = [u \in Threads |-> pc'[u]] /\ op' = [u \in Threads |-> op'[u]]
           /\ \A u \in Threads : u # t => pc'[u] = pc[u] /\ op'[u] = op[u]
           /\ \/ pc'[t] = "idle"
              \/ /\ \/ pc'[t] = "meta" /\ op[t].kind = "checkpoint"
                    \/ pc'[t] = "drop" /\ op[t].kind = "close"
                 /\ Is(op'[t], op[t].kind, nextLsn - 1, op[t].ckpt, op[t].todo)
<1>1. op[t].kind \in Flushing
  BY Zenon DEF IInv, Calling, CallOk
<1>2. CASE op[t].kind = "sync"
  <2>1. Return(t)
    BY <1>2 DEF AfterPoolFlush
  <2>. QED
    BY <2>1, Returned
<1>3. CASE op[t].kind = "checkpoint"
  <2>1. Goto(t, "meta")
    BY <1>3 DEF AfterPoolFlush
  <2>. QED
    BY <1>3, <2>1, Gone
<1>4. CASE op[t].kind = "close"
  <2>1. Goto(t, "drop")
    BY <1>4 DEF AfterPoolFlush
  <2>. QED
    BY <1>4, <2>1, Gone
<1>. QED
  BY <1>1, <1>2, <1>3, <1>4, Zenon DEF Flushing

\* What FlushReturns leaves of the call, its frames unlatched.
LEMMA FlushLeaves ==
    ASSUME IInv, NEW t \in Threads, pc[t] \in {"collect", "sync"}, AfterPoolFlush(t),
           latched' \in [Threads -> SUBSET Pages], latched'[t] = {},
           \A u \in Threads : u # t => latched'[u] = latched[u],
           UNCHANGED <<mode, phase, nextLsn>>
    PROVE  /\ OnlyMoves(t) /\ CallOk(t)'
           /\ pc'[t] # "idle" => IsCall(op'[t]) /\ op'[t].kind = op[t].kind /\ op'[t].ckpt = op[t].ckpt
           /\ pc'[t] # "idle" /\ op[t].kind = "checkpoint" => CheckpointOk(t)'
<1>1. CallTypes /\ Calling /\ phase = "open" /\ pc[t] # "idle" /\ pc[t] \notin {"meta", "flush"}
  BY Zenon DEF IInv, Types, Calling, CallOk
<1>2. OnlyMoves(t)
  BY FlushReturns, Zenon DEF OnlyMoves
<1>3. CallOk(t)'
  BY <1>1, FlushReturns, Zenon DEF CallOk, CheckpointSteps, Is, Flushing
<1>4. pc'[t] # "idle" => IsCall(op'[t]) /\ op'[t].kind = op[t].kind /\ op'[t].ckpt = op[t].ckpt
  BY FlushReturns, Zenon DEF Is
<1>5. ASSUME pc'[t] # "idle", op[t].kind = "checkpoint" PROVE CheckpointOk(t)'
  <2>1. mode.alone /\ op[t].ckpt = nextLsn - 1
    BY <1>1, <1>5, Zenon DEF Calling, CheckpointOk
  <2>2. pc'[t] = "meta" /\ op'[t].target = nextLsn - 1 /\ op'[t].ckpt = op[t].ckpt
    BY <1>5, FlushReturns, Zenon DEF Is
  <2>. QED
    BY <2>1, <2>2 DEF CheckpointOk, CheckpointSteps
<1>. QED
  BY <1>2, <1>3, <1>4, <1>5, Zenon

\* The latched frames are the ones written; with none the flush returns.
LEMMA CollectedKeeps == ASSUME IInv, NEW t \in Threads, Collected(t) PROVE IInv'
<1>1. CallTypes /\ Coverage /\ Calling
  BY DEF IInv, Types
<1>2. /\ pc[t] = "collect"
      /\ UNCHANGED <<mode, phase, os, maybe, hdr, log, logs, buf, nextLsn, durable, scan, mem, bg,
                     latched, crashes>>
  BY DEF Collected, fileVars, logVars, poolVars, counters
<1>3. /\ phase = "open" /\ latched \in [Threads -> SUBSET Pages]
      /\ IsCall(op[t]) /\ Covered(op[t].ckpt) /\ \A p \in latched[t] : Covered(mem[p].lsn)
  BY <1>1, <1>2, Zenon DEF Calling, CallOk, CallTypes, Coverage
<1>4. CASE latched[t] = {}
  <2>1. AfterPoolFlush(t)
    BY <1>4 DEF Collected
  <2>2. /\ OnlyMoves(t) /\ CallOk(t)'
        /\ pc'[t] # "idle" => IsCall(op'[t]) /\ op'[t].kind = op[t].kind /\ op'[t].ckpt = op[t].ckpt
        /\ pc'[t] # "idle" /\ op[t].kind = "checkpoint" => CheckpointOk(t)'
    BY <1>2, <1>3, <1>4, <2>1, FlushLeaves, Zenon
  <2>. QED
    BY <1>2, <1>3, <1>4, <2>2, QuietStep, Zenon
<1>5. CASE latched[t] # {}
  <2> DEFINE o == [op[t] EXCEPT !.todo = latched[t]]
  <2>1. pc' = [pc EXCEPT ![t] = "write"] /\ op' = [op EXCEPT ![t] = o]
    BY <1>5 DEF Collected
  <2>2. Is(o, op[t].kind, op[t].target, op[t].ckpt, latched[t])
    BY <1>3, CallField
  <2>. HIDE DEF o
  <2>3. OnlyMoves(t) /\ pc'[t] = "write" /\ op'[t] = o
    BY <1>1, <1>2, <1>3, <2>1, Moved, Zenon DEF OnlyMoves
  <2>4. CallOk(t)'
    <3>1. op'[t].kind \in Flushing /\ op'[t].todo = latched'[t]
      BY <1>1, <1>2, <2>2, <2>3, Zenon DEF Calling, CallOk, Is
    <3>. QED
      BY <1>2, <1>3, <2>3, <3>1, Zenon DEF CallOk, CheckpointSteps
  <2>5. op[t].kind = "checkpoint" => CheckpointOk(t)'
    BY <1>1, <1>2, <2>2, <2>3, Zenon DEF Calling, CheckpointOk, CheckpointSteps, Is
  <2>. QED
    BY <1>2, <1>3, <2>2, <2>3, <2>4, <2>5, QuietStep, Zenon DEF Is
<1>. QED
  BY <1>4, <1>5

\* Wal::reset waits for the last append; nothing is appended meanwhile.
LEMMA FlushBeforeResetKeeps == ASSUME IInv, NEW t \in Threads, FlushBeforeReset(t) PROVE IInv'
<1>1. CallTypes /\ Coverage /\ Calling
  BY DEF IInv, Types
<1>2. /\ pc[t] = "reset_flush" /\ Goto(t, "reset")
      /\ UNCHANGED <<mode, phase, os, maybe, hdr, log, logs, buf, nextLsn, durable, scan, mem, bg,
                     latched, crashes>>
  BY DEF FlushBeforeReset, Flushed, fileVars, logVars, poolVars, counters
<1>3. /\ phase = "open" /\ latched \in [Threads -> SUBSET Pages] /\ latched[t] = {}
      /\ op[t].kind = "checkpoint" /\ CheckpointOk(t) /\ Covered(op[t].ckpt)
  BY <1>1, <1>2, Zenon DEF Calling, CallOk, CallTypes, Coverage, CheckpointSteps
<1>4. /\ OnlyMoves(t) /\ pc'[t] = "reset"
      /\ Is(op'[t], op[t].kind, nextLsn - 1, op[t].ckpt, op[t].todo)
  BY <1>2, <1>3, Gone, Zenon DEF OnlyMoves
<1>5. CallOk(t)'
  BY <1>2, <1>3, <1>4, Zenon DEF CallOk, CheckpointSteps, Is, Flushing
<1>6. CheckpointOk(t)'
  BY <1>2, <1>3, <1>4, Zenon DEF CheckpointOk, CheckpointSteps, Is
<1>. QED
  BY <1>2, <1>3, <1>4, <1>5, <1>6, QuietStep, Zenon DEF Is

-----------------------------------------------------------------------------
(* Steps of a call that write the data file *)

\* One caller moves and writes the data file, and coverage is not lost.
LEMMA WritingStep ==
    ASSUME IInv, NEW t \in Threads, pc[t] # "idle", OnlyMoves(t), CallOk(t)',
           UNCHANGED <<mode, phase, log, logs, buf, nextLsn, durable, scan, mem, bg, crashes>>,
           FileTypes', Order', Births',
           \A n \in Nat : Covered(n) => Covered(n)',
           Covered(hdr'.ckpt), \A g \in Left(Header)' : Covered(g.ckpt)',
           \A p \in Pages : \A v \in Left(p)' : Covered(v.lsn)',
           pc'[t] # "idle" =>
              IsCall(op'[t]) /\ op'[t].kind = op[t].kind /\ op'[t].ckpt = op[t].ckpt,
           pc'[t] # "idle" /\ op[t].kind = "checkpoint" => CheckpointOk(t)',
           latched'[t] \subseteq latched[t]
    PROVE  IInv'
<1>1. FileTypes /\ LogTypes /\ PoolTypes /\ CallTypes /\ Coverage /\ Calling
  BY Zenon DEF IInv, Types
<1>2. CallTypes' /\ Calling'
  BY <1>1, CallsKept, Zenon
<1>3. LogTypes'
  BY <1>1, Zenon DEF LogTypes
<1>4. PoolTypes'
  BY <1>1, Zenon DEF PoolTypes
<1>5. Coverage'
  <2>1. LogsLeft' = LogsLeft /\ \A l \in LogsLeft : \A n \in Lsns(l) : n \in Nat
    <3>1. LogsLeft' = LogsLeft
      BY Zenon DEF LogsLeft
    <3>. QED
      BY <1>1, <3>1, LeftTypes, Zenon
  <2>2. hdr'.ckpt \in Nat /\ durable \in Nat
    BY <1>1, Zenon DEF FileTypes, Headers, LogTypes
  <2>3. Covered(durable)' /\ Covered(hdr.ckpt)'
    <3>1. \A n \in Nat : Covered(n) =>
             \A h \in Left(Header)', l \in LogsLeft' : n <= h.ckpt \/ \E m \in Lsns(l) : n <= m
      BY Zenon DEF Covered
    <3>2. Covered(durable) /\ Covered(hdr'.ckpt) /\ durable' = durable
      BY <1>1, Zenon DEF Coverage
    <3>. QED
      BY <2>2, <3>1, <3>2, Zenon DEF Covered
  <2>4. \A l \in LogsLeft' : \A n \in Lsns(l) : Covered(n)'
    BY <1>1, <2>1, Zenon DEF Coverage
  <2>5. (bg # NoCopy => Covered(bg.page.lsn))'
    BY <1>1, Zenon DEF Coverage, PoolTypes
  <2>6. \A u \in Threads : pc'[u] # "idle" => Covered(op[u].ckpt)'
    <3>1. \A u \in Threads : pc'[u] # "idle" => Covered(op'[u].ckpt) /\ op'[u].ckpt \in Nat
      BY <1>1, Zenon DEF Coverage, OnlyMoves, CallTypes, IsCall
    <3>2. \A n \in Nat : Covered(n) =>
             \A h \in Left(Header)', l \in LogsLeft' : n <= h.ckpt \/ \E m \in Lsns(l) : n <= m
      BY Zenon DEF Covered
    <3>. QED
      BY <3>1, <3>2, Zenon DEF Covered
  <2>7. \A u \in Threads : \A p \in latched'[u] : Covered(mem[p].lsn)'
    <3>1. \A u \in Threads : latched'[u] \subseteq latched[u]
      BY Zenon DEF OnlyMoves
    <3>2. \A u \in Threads : \A p \in latched'[u] : Covered(mem[p].lsn) /\ mem[p].lsn \in Nat
      BY <1>1, <3>1, Zenon DEF Coverage, CallTypes, PoolTypes
    <3>. QED
      BY <3>2, Zenon
  <2>. QED
    BY <2>3, <2>4, <2>5, <2>6, <2>7, Zenon DEF Coverage
<1>. QED
  BY <1>2, <1>3, <1>4, <1>5, Zenon DEF IInv, Types

\* A latched frame is covered, and no mutation has changed it since.
LEMMA WritePageKeeps == ASSUME IInv, NEW t \in Threads, WritePage(t) PROVE IInv'
<1>1. FileTypes /\ LogTypes /\ PoolTypes /\ CallTypes /\ Coverage /\ Order /\ Births /\ Calling
  BY DEF IInv, Types
<1>2. /\ pc[t] = "write"
      /\ UNCHANGED <<mode, phase, hdr, log, logs, buf, nextLsn, durable, scan, mem, bg, pc,
                     latched, crashes>>
  BY DEF WritePage, logVars, poolVars, counters
<1>3. PICK p \in op[t].todo : WriteFile(p, mem[p]) /\ op' = [op EXCEPT ![t].todo = @ \ {p}]
  BY Zenon DEF WritePage
<1> DEFINE o == [op[t] EXCEPT !.todo = @ \ {p}]
<1>4. op' = [op EXCEPT ![t] = o]
  BY <1>3
<1>5. /\ phase = "open" /\ IsCall(op[t]) /\ op[t].todo \subseteq latched[t]
      /\ latched \in [Threads -> SUBSET Pages] /\ op[t].kind \in Flushing
      /\ pc = [u \in Threads |-> pc[u]]
  BY <1>1, <1>2, Zenon DEF Calling, CallOk, CallTypes
<1>6. p \in Pages /\ p \in latched[t] /\ Covered(mem[p].lsn) /\ mem[p].lsn \in Nat
  BY <1>1, <1>5, Zenon DEF Coverage, PoolTypes
<1>7. Is(o, op[t].kind, op[t].target, op[t].ckpt, op[t].todo \ {p})
  <2>1. op[t].todo \ {p} \in SUBSET Pages
    BY <1>5
  <2>2. Is([op[t] EXCEPT !.todo = op[t].todo \ {p}], op[t].kind, op[t].target, op[t].ckpt, op[t].todo \ {p})
    BY <1>5, <2>1, CallField, Zenon
  <2>. QED
    BY <2>2
<1>. HIDE DEF o
<1>8. OnlyMoves(t) /\ op'[t] = o
  <2>1. op' = [u \in Threads |-> IF u = t THEN o ELSE op[u]]
    BY <1>1, <1>4 DEF CallTypes
  <2>. QED
    BY <1>2, <1>5, <2>1 DEF OnlyMoves
<1>9. /\ FileTypes'
      /\ os'[Header] = os[Header] /\ maybe'[Header] = maybe[Header]
      /\ Left(Header)' = Left(Header) /\ LogsLeft' = LogsLeft
      /\ \A n : Covered(n)' = Covered(n)
      /\ \A q \in Pages : \A w \in Left(q)' : Covered(w.lsn)'
  BY <1>1, <1>2, <1>3, <1>6, PageWritten, Zenon
<1>10. CallOk(t)'
  BY <1>2, <1>5, <1>7, <1>8, Zenon DEF CallOk, CheckpointSteps, Is
<1>11. op[t].kind = "checkpoint" => CheckpointOk(t)'
  BY <1>1, <1>2, <1>7, <1>8, Zenon DEF Calling, CheckpointOk, CheckpointSteps, Is
<1>12. Order' /\ Births'
  BY <1>1, <1>2, <1>9, Zenon DEF Order, Births
<1>13. Covered(hdr'.ckpt) /\ \A g \in Left(Header)' : Covered(g.ckpt)'
  BY <1>1, <1>2, <1>9, Zenon DEF Coverage
<1>14. IsCall(op'[t]) /\ op'[t].kind = op[t].kind /\ op'[t].ckpt = op[t].ckpt
  BY <1>7, <1>8 DEF Is
<1>. QED
  BY <1>2, <1>8, <1>9, <1>10, <1>11, <1>12, <1>13, <1>14, WritingStep, Zenon

\* The header in memory is written.
LEMMA HeaderPut ==
    ASSUME IInv, phase = "open", SyncHeader,
           UNCHANGED <<mode, phase, hdr, log, logs, buf, nextLsn, durable, scan, crashes>>
    PROVE  /\ FileTypes' /\ os'[Header] = hdr
           /\ \A n \in Nat : Covered(n) => Covered(n)'
           /\ Covered(hdr'.ckpt) /\ \A g \in Left(Header)' : Covered(g.ckpt)'
           /\ \A p \in Pages : \A v \in Left(p)' : Covered(v.lsn)'
           /\ Order' /\ Births'
<1>1. FileTypes /\ LogTypes /\ Coverage /\ Order /\ Births
  BY DEF IInv, Types
<1>2. hdr \in Headers /\ hdr.ckpt \in Nat /\ Covered(hdr.ckpt) /\ os[Header].ckpt <= hdr.ckpt
  BY <1>1, Zenon DEF FileTypes, Headers, Coverage, Order
<1>3. /\ FileTypes' /\ LogTypes' /\ LogsLeft' = LogsLeft
      /\ os'[Header] = hdr /\ maybe'[Header] = maybe[Header] \cup {hdr}
      /\ \A n \in Nat : Covered(n) => Covered(n)'
      /\ \A g \in Left(Header)' : Covered(g.ckpt)'
      /\ \A p \in Pages : Left(p)' = Left(p)
  BY <1>1, <1>2, HeaderWritten, Zenon DEF SyncHeader
<1>4. \A p \in Pages : \A v \in Left(p)' : Covered(v.lsn)'
  BY <1>1, <1>3, LeftTypes, Zenon DEF Coverage
<1>5. Order'
  BY <1>1, <1>2, <1>3 DEF Order
<1>6. Births'
  BY <1>1, <1>3, Zenon DEF Births
<1>. QED
  BY <1>2, <1>3, <1>4, <1>5, <1>6, Zenon

\* write_pages_and_sync writes the header in memory.
LEMMA WriteHeaderKeeps == ASSUME IInv, NEW t \in Threads, WriteHeader(t) PROVE IInv'
<1>1. CallTypes /\ Calling
  BY DEF IInv, Types
<1>2. /\ pc[t] = "write" /\ SyncHeader /\ pc' = [pc EXCEPT ![t] = "sync"]
      /\ UNCHANGED <<mode, phase, hdr, log, logs, buf, nextLsn, durable, scan, mem, bg, op,
                     latched, crashes>>
  BY DEF WriteHeader, logVars, poolVars, counters
<1>3. /\ phase = "open" /\ IsCall(op[t]) /\ op[t].kind \in Flushing
      /\ latched \in [Threads -> SUBSET Pages] /\ op = [u \in Threads |-> op[u]]
  BY <1>1, <1>2, Zenon DEF Calling, CallOk, CallTypes
<1>4. OnlyMoves(t) /\ pc'[t] = "sync"
  <2>1. pc' = [u \in Threads |-> IF u = t THEN "sync" ELSE pc[u]]
    BY <1>1, <1>2 DEF CallTypes
  <2>. QED
    BY <1>2, <1>3, <2>1, Zenon DEF OnlyMoves
<1>5. CallOk(t)'
  BY <1>2, <1>3, <1>4, Zenon DEF CallOk, CheckpointSteps, Flushing
<1>6. op[t].kind = "checkpoint" => CheckpointOk(t)'
  BY <1>1, <1>2, <1>4, Zenon DEF Calling, CheckpointOk, CheckpointSteps
<1>7. /\ FileTypes' /\ os'[Header] = hdr
      /\ \A n \in Nat : Covered(n) => Covered(n)'
      /\ Covered(hdr'.ckpt) /\ \A g \in Left(Header)' : Covered(g.ckpt)'
      /\ \A p \in Pages : \A v \in Left(p)' : Covered(v.lsn)'
      /\ Order' /\ Births'
  BY <1>2, <1>3, HeaderPut, Zenon
<1>. QED
  BY <1>2, <1>3, <1>4, <1>5, <1>6, <1>7, WritingStep, Zenon

\* A checkpoint writes its header; the others left are lower.
LEMMA WriteCheckpointKeeps == ASSUME IInv, NEW t \in Threads, WriteCheckpoint(t) PROVE IInv'
<1>1. CallTypes /\ Calling
  BY DEF IInv, Types
<1>2. /\ pc[t] = "header" /\ SyncHeader /\ Goto(t, "header_sync")
      /\ UNCHANGED <<mode, phase, hdr, log, logs, buf, nextLsn, durable, scan, mem, bg,
                     latched, crashes>>
  BY DEF WriteCheckpoint, logVars, poolVars, counters
<1>3. /\ phase = "open" /\ op[t].kind = "checkpoint" /\ CheckpointOk(t) /\ latched[t] = {}
      /\ latched \in [Threads -> SUBSET Pages]
  BY <1>1, <1>2, Zenon DEF Calling, CallOk, CallTypes, CheckpointSteps
<1>4. /\ OnlyMoves(t) /\ pc'[t] = "header_sync"
      /\ Is(op'[t], op[t].kind, nextLsn - 1, op[t].ckpt, op[t].todo)
  BY <1>2, <1>3, Gone, Zenon DEF OnlyMoves
<1>5. CallOk(t)'
  BY <1>2, <1>3, <1>4, Zenon DEF CallOk, CheckpointSteps, Flushing, Is
<1>6. /\ FileTypes' /\ os'[Header] = hdr
      /\ \A n \in Nat : Covered(n) => Covered(n)'
      /\ Covered(hdr'.ckpt) /\ \A g \in Left(Header)' : Covered(g.ckpt)'
      /\ \A p \in Pages : \A v \in Left(p)' : Covered(v.lsn)'
      /\ Order' /\ Births'
  BY <1>2, <1>3, HeaderPut, Zenon
<1>7. CheckpointOk(t)'
  BY <1>2, <1>3, <1>4, <1>6, Zenon DEF CheckpointOk, CheckpointSteps, Is
<1>. QED
  BY <1>2, <1>3, <1>4, <1>5, <1>6, <1>7, WritingStep, Zenon DEF Is

\* fsync while the store is open.
LEMMA OpenSynced ==
    ASSUME IInv, phase = "open", FSync,
           UNCHANGED <<mode, phase, os, hdr, log, logs, buf, nextLsn, durable, scan, crashes>>
    PROVE  /\ FileTypes' /\ maybe'[Header] = {os[Header]}
           /\ \A n \in Nat : Covered(n) => Covered(n)'
           /\ Covered(hdr'.ckpt) /\ \A g \in Left(Header)' : Covered(g.ckpt)'
           /\ \A p \in Pages : \A v \in Left(p)' : Covered(v.lsn)'
           /\ Order' /\ Births'
<1>1. FileTypes /\ LogTypes /\ Coverage /\ Order /\ Births
  BY DEF IInv, Types
<1>2. /\ FileTypes' /\ LogTypes' /\ LogsLeft' = LogsLeft /\ maybe'[Header] = {os[Header]}
      /\ \A n \in Nat : Covered(n) => Covered(n)'
      /\ \A g \in Left(Header)' : Covered(g.ckpt)'
      /\ \A p \in Pages : Left(p)' \subseteq Left(p)
  BY <1>1, FilesSynced, Zenon
<1>3. \A p \in Pages : \A v \in Left(p)' : Covered(v.lsn)'
  BY <1>1, <1>2, LeftTypes, Zenon DEF Coverage
<1>4. Order'
  BY <1>1, <1>2, Zenon DEF Order
<1>5. Births'
  <2>1. Header \in Files /\ os[Header] \in maybe[Header]
    BY <1>1, Zenon DEF FileTypes, Files
  <2>. QED
    BY <1>1, <1>2, <2>1, Zenon DEF Births
<1>. QED
  BY <1>1, <1>2, <1>3, <1>4, <1>5, Zenon DEF Coverage

\* write_pages_and_sync ends: fsync, and the frames are unlatched.
LEMMA SyncPagesKeeps == ASSUME IInv, NEW t \in Threads, SyncPages(t) PROVE IInv'
<1>1. CallTypes /\ Calling
  BY DEF IInv, Types
<1>2. /\ pc[t] = "sync" /\ FSync /\ AfterPoolFlush(t) /\ latched' = [latched EXCEPT ![t] = {}]
      /\ UNCHANGED <<mode, phase, os, hdr, log, logs, buf, nextLsn, durable, scan, mem, bg, crashes>>
  BY DEF SyncPages, logVars, counters
<1>3. phase = "open" /\ latched \in [Threads -> SUBSET Pages]
  BY <1>1, <1>2, Zenon DEF Calling, CallOk, CallTypes
<1>4. /\ latched' \in [Threads -> SUBSET Pages] /\ latched'[t] = {}
      /\ \A u \in Threads : u # t => latched'[u] = latched[u]
  BY <1>2, <1>3
<1>5. /\ OnlyMoves(t) /\ CallOk(t)'
      /\ pc'[t] # "idle" => IsCall(op'[t]) /\ op'[t].kind = op[t].kind /\ op'[t].ckpt = op[t].ckpt
      /\ pc'[t] # "idle" /\ op[t].kind = "checkpoint" => CheckpointOk(t)'
  BY <1>2, <1>4, FlushLeaves, Zenon
<1>6. /\ FileTypes' /\ maybe'[Header] = {os[Header]}
      /\ \A n \in Nat : Covered(n) => Covered(n)'
      /\ Covered(hdr'.ckpt) /\ \A g \in Left(Header)' : Covered(g.ckpt)'
      /\ \A p \in Pages : \A v \in Left(p)' : Covered(v.lsn)'
      /\ Order' /\ Births'
  BY <1>2, <1>3, OpenSynced, Zenon
<1>. QED
  BY <1>2, <1>4, <1>5, <1>6, WritingStep, Zenon

\* Once a checkpoint's header is synced it is the only one left.
LEMMA SyncCheckpointKeeps == ASSUME IInv, NEW t \in Threads, SyncCheckpoint(t) PROVE IInv'
<1>1. CallTypes /\ Calling
  BY DEF IInv, Types
<1>2. /\ pc[t] = "header_sync" /\ FSync /\ Goto(t, "reset_flush")
      /\ UNCHANGED <<mode, phase, os, hdr, log, logs, buf, nextLsn, durable, scan, mem, bg,
                     latched, crashes>>
  BY DEF SyncCheckpoint, logVars, poolVars, counters
<1>3. /\ phase = "open" /\ op[t].kind = "checkpoint" /\ CheckpointOk(t) /\ latched[t] = {}
      /\ latched \in [Threads -> SUBSET Pages]
  BY <1>1, <1>2, Zenon DEF Calling, CallOk, CallTypes, CheckpointSteps
<1>4. /\ OnlyMoves(t) /\ pc'[t] = "reset_flush"
      /\ Is(op'[t], op[t].kind, nextLsn - 1, op[t].ckpt, op[t].todo)
  BY <1>2, <1>3, Gone, Zenon DEF OnlyMoves
<1>5. CallOk(t)'
  BY <1>2, <1>3, <1>4, Zenon DEF CallOk, CheckpointSteps, Flushing, Is
<1>6. /\ FileTypes' /\ maybe'[Header] = {os[Header]}
      /\ \A n \in Nat : Covered(n) => Covered(n)'
      /\ Covered(hdr'.ckpt) /\ \A g \in Left(Header)' : Covered(g.ckpt)'
      /\ \A p \in Pages : \A v \in Left(p)' : Covered(v.lsn)'
      /\ Order' /\ Births'
  BY <1>2, <1>3, OpenSynced, Zenon
<1>7. CheckpointOk(t)'
  BY <1>2, <1>3, <1>4, <1>6, Zenon DEF CheckpointOk, CheckpointSteps, Is
<1>. QED
  BY <1>2, <1>3, <1>4, <1>5, <1>6, <1>7, WritingStep, Zenon DEF Is

\* A checkpoint's LSN is the last given out, so no header is lowered.
LEMMA SetMetaKeeps == ASSUME IInv, NEW t \in Threads, SetMeta(t) PROVE IInv'
<1>1. FileTypes /\ LogTypes /\ CallTypes /\ Coverage /\ Order /\ Births /\ Calling
  BY DEF IInv, Types
<1>2. /\ pc[t] = "meta" /\ Goto(t, "header")
      /\ hdr' = [hdr EXCEPT !.root = Root, !.ckpt = op[t].ckpt]
      /\ UNCHANGED <<mode, phase, os, maybe, log, logs, buf, nextLsn, durable, scan, mem, bg,
                     latched, crashes>>
  BY DEF SetMeta, logVars, poolVars, counters
<1>3. /\ phase = "open" /\ op[t].kind = "checkpoint" /\ CheckpointOk(t) /\ latched[t] = {}
      /\ latched \in [Threads -> SUBSET Pages] /\ op[t].ckpt = nextLsn - 1 /\ op[t].ckpt \in Nat
      /\ Covered(op[t].ckpt)
  BY <1>1, <1>2, Zenon DEF Calling, CallOk, CallTypes, CheckpointSteps, CheckpointOk, IsCall, Coverage
<1>4. /\ OnlyMoves(t) /\ pc'[t] = "header"
      /\ Is(op'[t], op[t].kind, nextLsn - 1, op[t].ckpt, op[t].todo)
  BY <1>2, <1>3, Gone, Zenon DEF OnlyMoves
<1>5. CallOk(t)'
  BY <1>2, <1>3, <1>4 DEF CallOk, CheckpointSteps, Flushing, Is
<1>6. hdr' = [ckpt |-> op[t].ckpt, root |-> Root]
  <2>1. hdr \in Headers
    BY <1>1 DEF FileTypes
  <2>. QED
    BY <1>2, <2>1, Zenon DEF Headers
<1>7. hdr' \in Headers /\ hdr'.ckpt = nextLsn - 1 /\ hdr'.root # 0 /\ Covered(hdr'.ckpt)
  BY <1>3, <1>6, PagesAssumption DEF Headers
<1>8. FileTypes'
  BY <1>1, <1>2, <1>7, Zenon DEF FileTypes
<1>9. /\ Left(Header)' = Left(Header) /\ LogsLeft' = LogsLeft
      /\ \A q \in Pages : Left(q)' = Left(q)
      /\ \A n : Covered(n)' = Covered(n)
  BY <1>2, SameCover
<1>10. Order'
  <2>1. /\ durable < nextLsn /\ (\A n \in Lsns(buf) : n < nextLsn) /\ hdr.ckpt < nextLsn
        /\ (\A n \in Lsns(log) : n < nextLsn) /\ os[Header].ckpt <= hdr.ckpt
    BY <1>1, <1>3, Zenon DEF Order
  <2>2. os[Header].ckpt <= hdr'.ckpt /\ hdr'.ckpt < nextLsn
    <3>1. os[Header].ckpt \in Nat /\ hdr.ckpt \in Nat /\ nextLsn \in Nat
      BY <1>1, LeftTypes, Zenon DEF FileTypes, Headers, LogTypes
    <3>. QED
      BY <1>7, <2>1, <3>1
  <2>. QED
    BY <1>2, <1>3, <2>1, <2>2 DEF Order
<1>11. Births'
  BY <1>1, <1>2, <1>3, <1>7, Zenon DEF Births
<1>12. CheckpointOk(t)'
  BY <1>2, <1>3, <1>4, <1>7, Zenon DEF CheckpointOk, CheckpointSteps, Is
<1>13. (\A g \in Left(Header)' : Covered(g.ckpt)') /\ \A p \in Pages : \A v \in Left(p)' : Covered(v.lsn)'
  BY <1>1, <1>9 DEF Coverage
<1>14. IsCall(op'[t]) /\ op'[t].kind = op[t].kind /\ op'[t].ckpt = op[t].ckpt
  BY <1>4 DEF Is
<1>. QED
  BY <1>2, <1>4, <1>5, <1>7, <1>8, <1>9, <1>10, <1>11, <1>12, <1>13, <1>14, WritingStep, ZenonT(30)

\* The last caller returns.
LEMMA LastReturns ==
    ASSUME IInv, NEW t \in Threads, Solitary(t), Return(t), UNCHANGED latched, latched[t] = {}
    PROVE  CallTypes' /\ Calling' /\ \A u \in Threads : pc'[u] = "idle" /\ latched'[u] = {}
<1>1. CallTypes /\ Calling /\ pc[t] # "idle"
  BY DEF IInv, Types, Solitary
<1>2. /\ pc' = [u \in Threads |-> pc'[u]] /\ op' = [u \in Threads |-> op'[u]]
      /\ pc'[t] = "idle" /\ \A u \in Threads : u # t => pc'[u] = pc[u] /\ op'[u] = op[u]
  BY <1>1, Returned
<1>3. \A u \in Threads : pc'[u] = "idle" /\ latched'[u] = {}
  BY <1>1, <1>2 DEF Calling, CallOk
<1>4. CallTypes'
  BY <1>1, <1>2, <1>3 DEF CallTypes
<1>5. \A u \in Threads : CallOk(u)' /\ ~Solitary(u)'
  BY <1>3 DEF CallOk, Solitary, CheckpointSteps
<1>6. Calling'
  BY <1>3, <1>5 DEF Calling
<1>. QED
  BY <1>3, <1>4, <1>6

\* The synced header accounts for every record of the log that is truncated.
LEMMA ResetLogKeeps == ASSUME IInv, NEW t \in Threads, ResetLog(t) PROVE IInv'
<1>1. FileTypes /\ LogTypes /\ PoolTypes /\ CallTypes /\ Coverage /\ Order /\ Births /\ Calling
  BY DEF IInv, Types
<1>2. /\ pc[t] = "reset" /\ WalReset /\ Return(t)
      /\ UNCHANGED <<mode, phase, os, maybe, hdr, nextLsn, durable, scan, mem, bg, latched, crashes>>
  BY DEF ResetLog, fileVars, counters
<1>3. /\ phase = "open" /\ op[t].kind = "checkpoint" /\ latched[t] = {} /\ CheckpointOk(t) /\ Solitary(t)
  BY <1>1, <1>2, Zenon DEF Calling, CallOk, CheckpointSteps, Solitary
<1>4. maybe[Header] = {hdr} /\ os[Header] = hdr /\ hdr.ckpt = nextLsn - 1
  BY <1>2, <1>3 DEF CheckpointOk, CheckpointSteps
<1>5. \A h \in Left(Header) : \A n \in Lsns(log) : n <= h.ckpt
  <2>1. \A h \in Left(Header) : h = hdr
    BY <1>4 DEF Left
  <2>2. (\A n \in Lsns(log) : n < nextLsn /\ n \in Nat) /\ nextLsn \in Nat
    BY <1>1, <1>3, LeftTypes, Zenon DEF Order, LogTypes
  <2>. QED
    BY <1>4, <2>1, <2>2
<1>6. scan' \in Nat
  BY <1>1, <1>2 DEF LogTypes
<1>7. /\ FileTypes' /\ LogTypes' /\ log' = <<>> /\ buf' = <<>>
      /\ \A f \in Files : Left(f)' = Left(f)
      /\ \A n \in Nat : Covered(n) => Covered(n)'
      /\ \A l \in LogsLeft' : \A n \in Lsns(l) : Covered(n)'
  BY <1>1, <1>2, <1>5, <1>6, LogEmptied, Zenon
<1>8. PoolTypes'
  BY <1>1, <1>2, Zenon DEF PoolTypes
<1>9. CallTypes' /\ Calling' /\ \A u \in Threads : pc'[u] = "idle" /\ latched'[u] = {}
  BY <1>2, <1>3, LastReturns
<1>10. Coverage'
  <2>1. Header \in Files /\ Pages \subseteq Files
    BY DEF Files
  <2>2. durable' = durable /\ durable \in Nat /\ hdr' = hdr /\ hdr.ckpt \in Nat
    BY <1>1, <1>2 DEF LogTypes, FileTypes, Headers
  <2>3. Covered(durable)' /\ Covered(hdr.ckpt)'
    <3>1. \A n \in Nat : Covered(n) =>
             \A h \in Left(Header)', l \in LogsLeft' : n <= h.ckpt \/ \E m \in Lsns(l) : n <= m
      BY <1>7 DEF Covered
    <3>. QED
      BY <1>1, <2>2, <3>1, Zenon DEF Covered, Coverage
  <2>4. (\A h \in Left(Header)' : Covered(h.ckpt)') /\ \A p \in Pages : \A v \in Left(p)' : Covered(v.lsn)'
    BY <1>1, <1>7, <2>1, LeftTypes, Zenon DEF Coverage
  <2>5. (bg # NoCopy => Covered(bg.page.lsn))'
    BY <1>1, <1>2, <1>7, Zenon DEF Coverage, PoolTypes
  <2>. QED
    BY <1>7, <1>9, <2>3, <2>4, <2>5 DEF Coverage
<1>11. Order'
  BY <1>1, <1>2, <1>3, <1>7, EmptyLog, Zenon DEF Order
<1>12. Births'
  BY <1>1, <1>2, <1>7, ZenonT(30) DEF Births
<1>. QED
  BY <1>7, <1>8, <1>9, <1>10, <1>11, <1>12 DEF IInv, Types

\* Dropping the store syncs the log and the header.
LEMMA DropStoreKeeps == ASSUME IInv, NEW t \in Threads, DropStore(t) PROVE IInv'
<1>1. FileTypes /\ LogTypes /\ PoolTypes /\ CallTypes /\ Coverage /\ Order /\ Births /\ Calling
  BY DEF IInv, Types
<1>2. /\ pc[t] = "drop" /\ buf = <<>> /\ os' = [os EXCEPT ![Header] = hdr]
      /\ maybe' = [f \in Files |-> {os'[f]}] /\ logs' = {log} /\ Return(t) /\ phase' = "closed"
      /\ UNCHANGED <<mode, hdr, log, buf, nextLsn, durable, scan, mem, bg, latched, crashes>>
  BY DEF DropStore, poolVars, counters
<1>3. phase = "open" /\ latched[t] = {} /\ Solitary(t)
  BY <1>1, <1>2, Zenon DEF Calling, CallOk, CheckpointSteps, Solitary
<1>4. LogTypes'
  BY <1>1, <1>2 DEF LogTypes
<1>5. PoolTypes'
  BY <1>1, <1>2, Zenon DEF PoolTypes
<1>6. CallTypes' /\ Calling' /\ \A u \in Threads : pc'[u] = "idle" /\ latched'[u] = {}
  BY <1>2, <1>3, LastReturns
<1>7. /\ FileTypes' /\ LogsLeft' \subseteq LogsLeft
      /\ os'[Header] = hdr /\ maybe'[Header] = {hdr}
      /\ \A n \in Nat : Covered(n) => Covered(n)'
      /\ \A g \in Left(Header)' : Covered(g.ckpt)'
      /\ \A p \in Pages : Left(p)' \subseteq Left(p)
  <2>1. os[Header].ckpt <= hdr.ckpt /\ logs' \subseteq logs
    BY <1>1, <1>2, <1>3, Zenon DEF Order, LogTypes
  <2>. QED
    BY <1>1, <1>2, <1>4, <2>1, HeaderSynced, Zenon
<1>8. Coverage'
  BY <1>1, <1>2, <1>6, <1>7, Numbers, Zenon DEF Coverage
<1>9. Order'
  BY <1>1, <1>2, Zenon DEF Order
<1>10. Births'
  BY <1>1, <1>2, <1>3, <1>7, Zenon DEF Births
<1>. QED
  BY <1>4, <1>5, <1>6, <1>7, <1>8, <1>9, <1>10 DEF IInv, Types

-----------------------------------------------------------------------------
(* The cleaner, eviction and crashes *)

\* A step in the pool that writes nothing.
LEMMA PoolStep ==
    ASSUME IInv, PoolTypes',
           UNCHANGED <<mode, phase, os, maybe, hdr, log, logs, buf, nextLsn, durable, scan, pc, op,
                       latched, crashes>>,
           bg' # NoCopy => Covered(bg'.page.lsn),
           \A p \in Pages : mem'[p] = mem[p] \/ ~Locked(p)
    PROVE  IInv'
<1>1. FileTypes /\ LogTypes /\ PoolTypes /\ CallTypes /\ Coverage /\ Order /\ Births /\ Calling
  BY DEF IInv, Types
<1>2. CallTypes' /\ Calling'
  BY <1>1, CallsRest
<1>3. FileTypes'
  BY <1>1, Zenon DEF FileTypes
<1>4. LogTypes'
  BY <1>1 DEF LogTypes
<1>5. Coverage'
  <2>1. /\ Left(Header)' = Left(Header) /\ LogsLeft' = LogsLeft
        /\ \A q \in Pages : Left(q)' = Left(q)
        /\ \A n : Covered(n)' = Covered(n)
    BY SameCover
  <2>2. \A u \in Threads : \A p \in latched[u] : mem'[p] = mem[p]
    BY <1>1 DEF Locked, CallTypes
  <2>. QED
    BY <1>1, <2>1, <2>2, Zenon DEF Coverage
<1>6. Order' /\ Births'
  BY <1>1, Zenon DEF Order, Births
<1>. QED
  BY <1>2, <1>3, <1>4, <1>5, <1>6 DEF IInv, Types

\* The cleaner copies only pages whose record is durable.
LEMMA BgCopyKeeps == ASSUME IInv, NEW p \in Pages, BgCopy(p) PROVE IInv'
<1>1. FileTypes /\ LogTypes /\ PoolTypes /\ Coverage
  BY DEF IInv, Types
<1>2. /\ durable >= mem[p].lsn /\ bg' = [pid |-> p, page |-> mem[p], written |-> FALSE]
      /\ UNCHANGED <<mode, phase, os, maybe, hdr, log, logs, buf, nextLsn, durable, scan, mem, pc, op,
                     latched, crashes>>
  BY Zenon DEF BgCopy, fileVars, logVars, poolVars, callVars, counters
<1>3. mem[p].lsn \in Nat /\ durable \in Nat /\ Covered(durable)
  BY <1>1, Zenon DEF PoolTypes, LogTypes, Coverage
<1>4. Covered(mem[p].lsn)
  BY <1>1, <1>2, <1>3, CoveredBelow, Zenon
<1>5. bg'.pid = p /\ bg'.page = mem[p] /\ bg' = [pid |-> bg'.pid, page |-> bg'.page, written |-> bg'.written]
  BY <1>2
<1>6. PoolTypes'
  BY <1>1, <1>2, <1>3, <1>5, Zenon DEF PoolTypes
<1>. QED
  BY <1>2, <1>4, <1>5, <1>6, PoolStep, Zenon

\* A frame that is evicted and reloaded is latched by nobody.
LEMMA ReloadKeeps == ASSUME IInv, NEW p \in Pages, Reload(p) PROVE IInv'
<1>1. FileTypes /\ LogTypes /\ PoolTypes /\ Coverage
  BY DEF IInv, Types
<1>2. /\ ~Locked(p) /\ mem' = [mem EXCEPT ![p] = os[p]]
      /\ UNCHANGED <<mode, phase, os, maybe, hdr, log, logs, buf, nextLsn, durable, scan, bg, pc, op,
                     latched, crashes>>
  BY DEF Reload, fileVars, logVars, callVars, counters
<1>3. mem' = [q \in Pages |-> IF q = p THEN os[p] ELSE mem[q]]
  BY <1>1, <1>2, Zenon DEF PoolTypes
<1>4. \A q \in Pages : mem'[q].lsn \in Nat
  BY <1>1, <1>3, LeftTypes, Zenon DEF PoolTypes
<1>5. mem' = [q \in Pages |-> mem'[q]] /\ \A q \in Pages : mem'[q] = mem[q] \/ ~Locked(q)
  BY <1>2, <1>3, Zenon
<1>6. PoolTypes'
  BY <1>1, <1>2, <1>4, <1>5, Zenon DEF PoolTypes
<1>. QED
  BY <1>1, <1>2, <1>5, <1>6, PoolStep, Zenon DEF Coverage

\* The cleaner gives up its copy.
LEMMA BgCleanKeeps == ASSUME IInv, BgClean PROVE IInv'
<1>1. PoolTypes
  BY DEF IInv, Types
<1>2. /\ bg' = NoCopy
      /\ UNCHANGED <<mode, phase, os, maybe, hdr, log, logs, buf, nextLsn, durable, scan, mem, pc, op,
                     latched, crashes>>
  BY Zenon DEF BgClean, fileVars, logVars, callVars, counters
<1>3. PoolTypes'
  BY <1>1, <1>2 DEF PoolTypes
<1>. QED
  BY <1>2, <1>3, PoolStep

\* What the cleaner copied is still covered when it is written.
LEMMA BgWriteKeeps == ASSUME IInv, BgWrite PROVE IInv'
<1>1. FileTypes /\ LogTypes /\ PoolTypes /\ CallTypes /\ Coverage /\ Order /\ Births /\ Calling
  BY DEF IInv, Types
<1>2. /\ bg # NoCopy /\ WriteFile(bg.pid, bg.page) /\ bg' = [bg EXCEPT !.written = TRUE]
      /\ UNCHANGED <<mode, phase, hdr, log, logs, buf, nextLsn, durable, scan, mem, pc, op, latched,
                     crashes>>
  BY DEF BgWrite, logVars, poolVars, callVars, counters
<1>3. /\ bg = [pid |-> bg.pid, page |-> bg.page, written |-> bg.written]
      /\ bg.pid \in Pages /\ bg.page.lsn \in Nat /\ Covered(bg.page.lsn)
  BY <1>1, <1>2, Zenon DEF PoolTypes, Coverage
<1>4. bg' = [pid |-> bg.pid, page |-> bg.page, written |-> TRUE]
  BY <1>2, <1>3, Zenon
<1>5. /\ bg' = [pid |-> bg'.pid, page |-> bg'.page, written |-> bg'.written]
      /\ bg'.pid = bg.pid /\ bg'.page = bg.page
  BY <1>4
<1>6. /\ FileTypes'
      /\ os'[Header] = os[Header] /\ maybe'[Header] = maybe[Header]
      /\ Left(Header)' = Left(Header) /\ LogsLeft' = LogsLeft
      /\ \A n : Covered(n)' = Covered(n)
      /\ \A q \in Pages : \A w \in Left(q)' : Covered(w.lsn)'
  BY <1>1, <1>2, <1>3, PageWritten, Zenon
<1>7. LogTypes'
  BY <1>1, <1>2 DEF LogTypes
<1>8. PoolTypes'
  BY <1>1, <1>2, <1>3, <1>5, Zenon DEF PoolTypes
<1>9. CallTypes' /\ Calling'
  BY <1>1, <1>2, <1>6, CallsRest, Zenon
<1>10. Coverage'
  BY <1>1, <1>2, <1>3, <1>5, <1>6, Zenon DEF Coverage
<1>11. Order' /\ Births'
  BY <1>1, <1>2, <1>6, Zenon DEF Order, Births
<1>. QED
  BY <1>6, <1>7, <1>8, <1>9, <1>10, <1>11 DEF IInv, Types

\* A restart on files that a crash leaves, with a log left before or with the
\* active buffer written to it.
LEMMA RestartKeeps ==
    ASSUME IInv, Restart, ~mode.fresh,
           os' = [f \in Files |-> os'[f]], maybe' = [f \in Files |-> maybe'[f]],
           \A f \in Files : /\ os'[f] \in maybe'[f] /\ maybe'[f] \subseteq maybe[f]
                            /\ Left(f)' \subseteq Left(f),
           log' \in logs', logs' \subseteq logs \cup {log \o buf},
           LogsLeft' \subseteq LogsLeft \/ LogsLeft' = {log \o buf}
    PROVE  IInv'
<1>1. FileTypes /\ LogTypes /\ PoolTypes /\ CallTypes /\ Coverage /\ Order /\ Births /\ Calling
  BY DEF IInv, Types
<1>2. /\ phase' = "closed" /\ buf' = <<>> /\ scan' = 0 /\ mem' = [p \in Pages |-> Blank(p)]
      /\ bg' = NoCopy /\ pc' = [t \in Threads |-> "idle"] /\ op' = [t \in Threads |-> NoCall]
      /\ latched' = [t \in Threads |-> {}] /\ crashes' = crashes + 1
      /\ UNCHANGED <<mode, hdr, nextLsn, durable>>
  BY Zenon DEF Restart
<1>3. Header \in Files /\ Pages \subseteq Files
  BY DEF Files
<1>4. /\ IsLog(log \o buf) /\ Lsns(log \o buf) = Lsns(log) \cup Lsns(buf)
      /\ Lsns(buf) \subseteq Nat /\ Lsns(log) \subseteq Nat
  <2>1. IsLog(log) /\ IsLog(buf)
    BY <1>1 DEF LogTypes
  <2>2. Lsns(buf) \subseteq Nat /\ Lsns(log) \subseteq Nat
    BY <2>1, Zenon DEF IsLog, Lsns
  <2>. QED
    BY <2>1, <2>2, JoinedLog
<1>5. FileTypes'
  BY <1>1, <1>2, <1>3, Zenon DEF FileTypes
<1>6. LogTypes'
  BY <1>1, <1>2, <1>4, EmptyLog, Zenon DEF LogTypes
<1>7. PoolTypes'
  <2>1. \A p \in Pages : mem'[p].lsn = 0
    BY <1>2, Zenon DEF Blank
  <2>. QED
    BY <1>1, <1>2, <2>1 DEF PoolTypes
<1>8. CallTypes' /\ Calling' /\ \A t \in Threads : pc'[t] = "idle" /\ latched'[t] = {}
  <2>1. \A t \in Threads : pc'[t] = "idle" /\ latched'[t] = {}
    BY <1>2
  <2>2. CallTypes'
    BY <1>2 DEF CallTypes
  <2>3. \A t \in Threads : CallOk(t)' /\ ~Solitary(t)'
    BY <2>1, Zenon DEF CallOk, Solitary, CheckpointSteps
  <2>4. Calling'
    BY <2>1, <2>3 DEF Calling
  <2>. QED
    BY <2>1, <2>2, <2>4
<1>9. \A n \in Nat : Covered(n) => Covered(n)'
  <2>1. ASSUME NEW h \in Left(Header)', NEW l \in LogsLeft'
        PROVE  \E g \in Left(Header), m \in LogsLeft :
                 /\ g.ckpt <= h.ckpt
                 /\ \A n \in Lsns(m) : n <= h.ckpt \/ \E i \in Lsns(l) : n <= i
    <3>1. h \in Left(Header) /\ h.ckpt \in Nat /\ h.ckpt <= h.ckpt /\ log \in LogsLeft
      BY <1>1, <1>3, LeftTypes
    <3>2. CASE l \in LogsLeft
      <4>1. \A n \in Lsns(l) : n \in Lsns(l) /\ n <= n
        BY <1>1, <3>2, LeftTypes
      <4>. QED
        BY <3>1, <3>2, <4>1
    <3>3. CASE l = log \o buf
      <4>1. \A n \in Lsns(log) : n \in Lsns(l) /\ n <= n
        BY <1>4, <3>3
      <4>. QED
        BY <3>1, <4>1
    <3>. QED
      BY <3>2, <3>3
  <2>. QED
    BY <1>1, <1>5, <1>6, <2>1, CoverKept, Zenon
<1>10. \A l \in LogsLeft' : \A n \in Lsns(l) : Covered(n)'
  <2>1. CASE LogsLeft' \subseteq LogsLeft
    BY <1>1, <1>9, <2>1, LeftTypes, Zenon DEF Coverage
  <2>2. CASE LogsLeft' = {log \o buf}
    <3>1. \A n \in Lsns(log \o buf) : n <= n
      BY <1>4
    <3>. QED
      BY <2>2, <3>1, Zenon DEF Covered
  <2>. QED
    BY <2>1, <2>2
<1>11. Coverage'
  BY <1>1, <1>2, <1>3, <1>8, <1>9, <1>10, LeftTypes, ZenonT(30) DEF Coverage, FileTypes, LogTypes, Headers
<1>12. Order'
  BY <1>1, <1>2, EmptyLog, Zenon DEF Order
<1>13. Births'
  BY <1>1, <1>2, <1>3, Zenon DEF Births
<1>. QED
  BY <1>5, <1>6, <1>7, <1>8, <1>11, <1>12, <1>13 DEF IInv, Types

\* A crash leaves one of the files and logs that coverage speaks of.
LEMMA CrashKeeps == ASSUME IInv, Cautious(mode), Crash PROVE IInv'
<1>1. FileTypes /\ LogTypes /\ Births
  BY DEF IInv, Types
<1>2. Restart /\ mode' = mode /\ crashes < mode.crashes
  BY Zenon DEF Crash, ProcessCrash, PowerLoss, Restart
<1>3. ~mode.fresh
  BY <1>1, <1>2 DEF Births, Cautious
<1>4. CASE ProcessCrash
  <2>1. PICK written \in {log} \cup {log \o b : b \in {b \in {buf} : mode.unsynced}} :
           log' = written /\ logs' = logs \cup {written}
    BY <1>4 DEF ProcessCrash
  <2>2. UNCHANGED <<os, maybe>>
    BY <1>4 DEF ProcessCrash
  <2>3. log' = log \/ (mode.unsynced /\ log' = log \o buf)
    BY <2>1
  <2>4. log' \in logs' /\ logs' \subseteq logs \cup {log \o buf} /\ logs' = logs \cup {log'}
    BY <1>1, <2>1, <2>3 DEF LogTypes
  <2>5. LogsLeft' \subseteq LogsLeft \/ LogsLeft' = {log \o buf}
    <3>1. CASE log' = log
      <4>1. logs' = logs
        BY <1>1, <2>4, <3>1 DEF LogTypes
      <4>. QED
        BY <1>2, <3>1, <4>1 DEF LogsLeft
    <3>2. CASE mode.unsynced /\ log' = log \o buf
      BY <1>2, <3>2, Zenon DEF LogsLeft, Cautious
    <3>. QED
      BY <2>3, <3>1, <3>2, Zenon
  <2>6. \A f \in Files : /\ os'[f] \in maybe'[f] /\ maybe'[f] \subseteq maybe[f]
                         /\ Left(f)' \subseteq Left(f)
    BY <1>1, <1>2, <2>2 DEF FileTypes, Left
  <2>7. os' = [f \in Files |-> os'[f]] /\ maybe' = [f \in Files |-> maybe'[f]]
    BY <1>1, <2>2 DEF FileTypes
  <2>. QED
    BY <1>2, <1>3, <2>4, <2>5, <2>6, <2>7, RestartKeeps, ZenonT(30)
<1>5. CASE PowerLoss
  <2>1. /\ mode.power /\ os' \in Platters /\ maybe' = [f \in Files |-> {os'[f]}]
        /\ log' \in logs \cup {log \o buf} /\ logs' = {log'}
    BY <1>5 DEF PowerLoss
  <2>2. os' = [f \in Files |-> os'[f]] /\ \A f \in Files : os'[f] \in maybe[f]
    BY <2>1 DEF Platters
  <2>3. maybe' = [f \in Files |-> maybe'[f]] /\ \A f \in Files : maybe'[f] = {os'[f]}
    BY <2>1
  <2>4. \A f \in Files : /\ os'[f] \in maybe'[f] /\ maybe'[f] \subseteq maybe[f]
                         /\ Left(f)' \subseteq Left(f)
    BY <1>2, <2>1, <2>2, <2>3 DEF Left
  <2>5. LogsLeft' \subseteq LogsLeft \/ LogsLeft' = {log \o buf}
    BY <1>2, <2>1, Zenon DEF LogsLeft
  <2>6. log' \in logs' /\ logs' \subseteq logs \cup {log \o buf}
    BY <2>1
  <2>. QED
    BY <1>2, <1>3, <2>2, <2>3, <2>4, <2>5, <2>6, RestartKeeps, Zenon
<1>. QED
  BY <1>4, <1>5 DEF Crash

-----------------------------------------------------------------------------
(* The theorems *)

\* A store never opened, or closed with its header synced.
LEMMA InitEstablishes == ASSUME Init PROVE IInv
<1>1. Header \in Files /\ Pages \subseteq Files /\ Header \notin Pages /\ Root \in Pages /\ Root \in Nat
      /\ Root # 0
  BY PagesAssumption DEF Files, Header
<1>2. /\ mode \in Modes /\ phase = "closed" /\ maybe = [f \in Files |-> {os[f]}] /\ hdr = os[Header]
      /\ log = <<>> /\ logs = {<<>>} /\ buf = <<>> /\ nextLsn = 1 /\ durable = 0 /\ scan = 0
      /\ mem = [p \in Pages |-> Blank(p)] /\ bg = NoCopy
      /\ pc = [t \in Threads |-> "idle"] /\ op = [t \in Threads |-> NoCall]
      /\ latched = [t \in Threads |-> {}] /\ crashes = 0
  BY DEF Init
<1>3. /\ os = [f \in Files |-> os[f]]
      /\ os[Header] = [ckpt |-> IF mode.fresh THEN 0 ELSE 1, root |-> IF mode.fresh THEN 0 ELSE Root]
      /\ \A p \in Pages : os[p].lsn = IF p = Root /\ ~mode.fresh THEN 1 ELSE 0
  BY <1>1, Zenon DEF Init, Blank
<1>4. /\ os[Header] \in Headers /\ (mode.fresh => os[Header].ckpt = 0)
      /\ (~mode.fresh => os[Header].ckpt = 1 /\ os[Header].root # 0)
  BY <1>1, <1>3 DEF Headers
<1>5. FileTypes
  <2>1. maybe = [f \in Files |-> maybe[f]] /\ \A f \in Files : maybe[f] = {os[f]}
    BY <1>2
  <2>2. \A p \in Pages : \A v \in maybe[p] : v.lsn \in Nat
    BY <1>1, <1>3, <2>1
  <2>. QED
    BY <1>1, <1>2, <1>3, <1>4, <2>1, <2>2, Zenon DEF FileTypes
<1>6. LogTypes
  BY <1>2, EmptyLog DEF LogTypes
<1>7. PoolTypes
  <2>1. \A p \in Pages : mem[p].lsn = 0
    BY <1>2 DEF Blank
  <2>. QED
    BY <1>2, <2>1 DEF PoolTypes
<1>8. CallTypes /\ Calling
  <2>1. \A t \in Threads : pc[t] = "idle" /\ latched[t] = {}
    BY <1>2
  <2>2. CallTypes
    BY <1>2 DEF CallTypes
  <2>3. \A t \in Threads : CallOk(t) /\ ~Solitary(t)
    BY <2>1 DEF CallOk, Solitary, CheckpointSteps
  <2>. QED
    BY <2>1, <2>2, <2>3 DEF Calling
<1>9. LogsLeft = {<<>>} /\ Left(Header) = {os[Header]} /\ \A p \in Pages : Left(p) = {os[p]}
  BY <1>1, <1>2 DEF LogsLeft, Left
<1>10. Coverage
  <2>1. \A n \in Nat : n <= os[Header].ckpt => Covered(n)
    BY <1>9 DEF Covered
  <2>2. \A p \in Pages : os[p].lsn \in Nat /\ os[p].lsn <= os[Header].ckpt
    BY <1>3, <1>4
  <2>3. os[Header].ckpt \in Nat /\ 0 <= os[Header].ckpt /\ os[Header].ckpt <= os[Header].ckpt
    BY <1>4
  <2>4. \A l \in LogsLeft : Lsns(l) = {}
    BY <1>9, EmptyLog
  <2>. QED
    BY <1>2, <1>9, <2>1, <2>2, <2>3, <2>4, Zenon DEF Coverage
<1>11. Order
  BY <1>2, EmptyLog DEF Order
<1>12. Births
  BY <1>1, <1>2, <1>4 DEF Births
<1>. QED
  BY <1>5, <1>6, <1>7, <1>8, <1>10, <1>11, <1>12 DEF IInv, Types

\* Every step keeps the invariant.
LEMMA StepKeeps == ASSUME LeastNumber, IInv, Cautious(mode), [Next]_vars PROVE IInv'
<1>1. CASE Opening
  BY <1>1, OpenFilesKeeps, ReplayRecordKeeps, ReplayDoneKeeps, SyncRecoveredKeeps,
     SetRecoveredCheckpointKeeps, SyncRecoveredCheckpointKeeps, ResetRecoveredLogKeeps,
     OpenTreeKeeps, CreateTreeKeeps, SyncCreatedKeeps DEF Opening
<1>2. mode.callers \subseteq Threads
  BY ModesAssumption DEF IInv, Types, FileTypes
<1>3. CASE \E t \in mode.callers, k \in Keys : Put(t, k)
  BY <1>2, <1>3, PutKeeps
<1>4. CASE \E t \in mode.callers, kind \in mode.calls : Call(t, kind)
  BY <1>2, <1>4, CallKeeps
<1>5. CASE \E t \in Threads : CallStep(t)
  BY <1>5, FlushWalKeeps, PoolFlushKeeps, CollectKeeps, CollectedKeeps, WritePageKeeps,
     WriteHeaderKeeps, SyncPagesKeeps, SetMetaKeeps, WriteCheckpointKeeps, SyncCheckpointKeeps,
     FlushBeforeResetKeeps, ResetLogKeeps, DropStoreKeeps, ZenonT(30) DEF CallStep
<1>6. CASE \E p \in Pages : BgCopy(p) \/ Reload(p)
  BY <1>6, BgCopyKeeps, ReloadKeeps
<1>7. CASE WalDrain \/ BgWrite \/ BgClean \/ Crash
  BY <1>7, WalDrainKeeps, BgWriteKeeps, BgCleanKeeps, CrashKeeps
<1>8. CASE UNCHANGED vars
  <2>1. UNCHANGED <<mode, phase, os, maybe, hdr, log, logs, buf, nextLsn, durable, scan, mem, bg, pc,
                    op, latched, crashes>>
    BY <1>8 DEF vars, fileVars, logVars, poolVars, callVars, counters
  <2>2. PoolTypes'
    BY <2>1, ZenonT(30) DEF IInv, Types, PoolTypes
  <2>3. bg # NoCopy => Covered(bg.page.lsn)
    BY DEF IInv, Coverage
  <2>. QED
    BY <2>1, <2>2, <2>3, PoolStep
<1>. QED
  BY <1>1, <1>3, <1>4, <1>5, <1>6, <1>7, <1>8 DEF Next, Finished

\* What the invariant says of whatever a crash leaves.
LEMMA CoverageSuffices == ASSUME LeastNumber, IInv PROVE WalBeforeData
<1>1. FileTypes /\ LogTypes /\ Coverage
  BY DEF IInv, Types
<1>. SUFFICES ASSUME NEW F \in FilesLeft, NEW l \in LogsLeft, NEW p \in Pages
              PROVE  F[p].lsn <= Upper(Lsns(l), F[Header].ckpt)
  BY DEF WalBeforeData
<1>2. Header \in Files /\ p \in Files
  BY DEF Files
<1>3. F[p] \in Left(p) /\ F[Header] \in Left(Header)
  BY <1>2 DEF FilesLeft, Platters, Left
<1>4. F[p].lsn \in Nat /\ F[Header].ckpt \in Nat /\ IsLog(l) /\ Lsns(l) \subseteq Nat
  BY <1>1, <1>3, LeftTypes
<1>5. F[p].lsn <= F[Header].ckpt \/ \E m \in Lsns(l) : F[p].lsn <= m
  BY <1>1, <1>3, Zenon DEF Coverage, Covered
<1>6. /\ Upper(Lsns(l), F[Header].ckpt) \in Nat /\ F[Header].ckpt <= Upper(Lsns(l), F[Header].ckpt)
      /\ \A n \in Lsns(l) : n <= Upper(Lsns(l), F[Header].ckpt)
  BY <1>4, UpperOfLog
<1>. QED
  BY <1>4, <1>5, <1>6

-----------------------------------------------------------------------------
(* The theorems. *)

INSTANCE WellFoundedInduction

\* The least-number principle that the lemmas assume.
LEMMA LeastNumberHolds == LeastNumber
<1>. SUFFICES ASSUME NEW T \in SUBSET Nat, T # {} PROVE \E x \in T : \A y \in T : x <= y
  BY DEF LeastNumber
<1> DEFINE R == OpToRel(<, Nat)
<1>1. IsWellFoundedOn(R, Nat)
  BY NatLessThanWellFounded, Zenon
<1>2. \A x, y \in Nat : y < x => <<y, x>> \in R
  BY DEF OpToRel
<1>. HIDE DEF R
<1>3. PICK x \in T : \A y \in T : ~ (<<y, x>> \in R)
  BY <1>1, WFMin, Zenon
<1>4. ASSUME NEW y \in T PROVE x <= y
  <2>1. x \in Nat /\ y \in Nat
    OBVIOUS
  <2>2. ~(y < x)
    BY <1>2, <1>3, <2>1, Zenon
  <2>. QED
    BY <2>1, <2>2
<1>. QED
  BY <1>4

\* The inductive invariant of the store: whatever a crash leaves accounts for
\* every page version in the data file, every checkpoint and every durable LSN.
THEOREM StoreInvariant ==
    ASSUME \A m \in Modes : Cautious(m)
    PROVE  Spec => []IInv
<1>1. Init => IInv
  BY InitEstablishes
<1>2. IInv /\ [Next]_vars => IInv'
  <2>1. IInv => Cautious(mode)
    BY DEF IInv, Types, FileTypes
  <2>. QED
    BY <2>1, StepKeeps, LeastNumberHolds
<1>. QED
  BY <1>1, <1>2, PTL DEF Spec

\* WAL before data, for any threads, keys, pages and bounds: neither the
\* write-back of flush, checkpoint, close and the cleaner, nor recovery, nor the
\* reset of the log ever leaves in the data file a page version that the log and
\* the checkpoint a crash would leave do not account for.
THEOREM WalBeforeDataAlways ==
    ASSUME \A m \in Modes : Cautious(m)
    PROVE  Spec => []WalBeforeData
<1>1. IInv => WalBeforeData
  BY CoverageSuffices, LeastNumberHolds
<1>. QED
  BY <1>1, StoreInvariant, PTL
================================================================================
