------------------------------- MODULE WalShard -------------------------------
(***************************************************************************)
(* One shard of the write-ahead log in strict commit mode: clients claim   *)
(* an LSN, append a page image to the active buffer (or overwrite the one  *)
(* still buffered for the page) and wait for durability; the driver seals  *)
(* buffers and submits their writes; the backend reports writes and syncs. *)
(*                                                                         *)
(* The three backends of crates/wal/src are                                *)
(*   "fdatasync"  inline pwrite, a syncer thread calls fdatasync,          *)
(*   "dsync"      pwritev2(RWF_DSYNC): a write is durable when it returns, *)
(*   "uring"      writes in flight together, completed in any order, and   *)
(*                one drained fsync at a time.                             *)
(*                                                                         *)
(* Sections under the shard's state mutex are single steps.  The syncer    *)
(* keeps the mutex from its check until it is parked on flush_requested,   *)
(* while the watermarks move without it, so that pair is two steps.        *)
(***************************************************************************)
EXTENDS Integers, Sequences, FiniteSets

CONSTANTS
    Threads,        \* clients of the log
    Pages,          \* the pages whose images are logged
    Backends,       \* the backends the log may be opened with
    BufferRecords,  \* records an active buffer holds
    MaxInFlight,    \* MAX_IN_FLIGHT_WRITES of the ring
    MaxLsn,         \* bound: LSNs that are claimed
    MayFail,        \* whether a call of the system may fail
    ResetIsAlone    \* whether reset is only called when no client is active

ASSUME BackendsAssumption == Backends \subseteq {"fdatasync", "dsync", "uring"}
ASSUME SizesAssumption ==
    BufferRecords \in Nat \ {0} /\ MaxInFlight \in Nat \ {0} /\ MaxLsn \in Nat
ASSUME ModesAssumption == MayFail \in BOOLEAN /\ ResetIsAlone \in BOOLEAN

VARIABLES
    backend,        \* the backend make_backend chose; it never changes
    nextLsn,        \* next_lsn
    lsns,           \* appended_lsn, written_lsn, durable_lsn and the requested ones
    active,         \* the records of the active buffer
    spares,         \* spare_buffers.len()
    pending,        \* pending_writes: sealed buffers
    submitted,      \* submitted_writes.entries
    highWater,      \* submitted_writes.high_water_lsn
    inFlight,       \* buffers owned by the backend
    offset,         \* file_offset: the next position a sealed buffer gets
    file,           \* the log file, a buffer per position
    driver,         \* where the driver loop stands
    syncer,         \* where the fdatasync syncer stands, and what its sync covers
    reaper,         \* where the dispatch of ring completions stands
    barrier,        \* SyncBarrierState of the ring and its fsync
    asleep,         \* who is parked on flush_requested, and the clients on flush_done
    pc, rec, target,\* each client: its step, its record, the LSN it waits for
    acked,          \* records whose flush has returned
    failed,         \* backend_failure
    stopping        \* stop_shard: how far the shutdown is

logVars == <<active, spares, pending, submitted, highWater, inFlight, offset, file>>
clientVars == <<nextLsn, pc, rec, target, acked>>
vars == <<backend, logVars, clientVars, lsns, driver, syncer, reaper, barrier, asleep, failed,
          stopping>>

Lsns == 0..MaxLsn
Positions == 1..MaxLsn
Records == [lsn : Lsns, page : Pages]
NoRecord == [lsn |-> 0, page |-> CHOOSE p \in Pages : TRUE]
Hole == [recs |-> {}, state |-> "hole"]

MaxOf(a, b) == IF a >= b THEN a ELSE b
MaxLsnOf(recs) == CHOOSE m \in {r.lsn : r \in recs} : \A r \in recs : r.lsn <= m

MaxInFlightWrites == IF backend = "uring" THEN MaxInFlight ELSE 1
\* buffer_count_limit: the active buffer and the spares
BufferCount == IF MaxInFlightWrites > 1 THEN 3 ELSE 2

Init ==
    /\ backend \in Backends
    /\ nextLsn = 1
    /\ lsns = [appended |-> 0, written |-> 0, durable |-> 0,
               reqWrite |-> 0, reqDurable |-> 0]
    /\ active = {} /\ spares = BufferCount - 1 /\ pending = <<>>
    /\ submitted = <<>> /\ highWater = 0 /\ inFlight = {}
    /\ offset = 1 /\ file = [i \in Positions |-> Hole]
    /\ driver = "check"
    /\ syncer = [pc |-> IF backend = "fdatasync" THEN "check" ELSE "exited",
                 lsn |-> 0, covers |-> {}]
    /\ reaper = "reap"
    /\ barrier = [requested |-> 0, completed |-> 0, lsn |-> 0, after |-> {}, done |-> FALSE]
    /\ asleep = {}
    /\ pc = [t \in Threads |-> "idle"]
    /\ rec = [t \in Threads |-> NoRecord]
    /\ target = [t \in Threads |-> 0]
    /\ acked = {} /\ failed = FALSE /\ stopping = "no"

\* Bound: one call of the system fails; the first failure is kept for good.
CanFail == MayFail /\ ~failed

Goto(t, to) == pc' = [pc EXCEPT ![t] = to]

\* The syncer holds the state mutex between its check and its park.
StateFree == syncer.pc # "parking"

\* flush_requested.notify_all(): the driver and the syncer.
WakeWorkers == asleep' = asleep \ {"driver", "syncer"}

\* flush_done.notify_all() and flush_requested.notify_all()
WakeAll == asleep' = {}

\* fetch_max on both requested watermarks.
Request(lsn) ==
    lsns' = [lsns EXCEPT !.reqWrite = MaxOf(@, lsn), !.reqDurable = MaxOf(@, lsn)]

-----------------------------------------------------------------------------
(* Clients. *)

\* claim_lsn, by a client that holds the exclusive latch of the page until its
\* image is in the log.
ClaimLsn(t, p) ==
    /\ pc[t] = "idle" /\ stopping = "no"
    /\ nextLsn <= MaxLsn
    /\ \A u \in Threads : pc[u] \in {"claimed", "backpressure"} => rec[u].page # p
    /\ ResetIsAlone => \A u \in Threads : pc[u] \notin {"resetFlush", "resetWait", "truncate"}
    /\ rec' = [rec EXCEPT ![t] = [lsn |-> nextLsn, page |-> p]]
    /\ nextLsn' = nextLsn + 1
    /\ Goto(t, "claimed")
    /\ UNCHANGED <<backend, logVars, lsns, driver, syncer, reaper, barrier, asleep, target,
                   acked, failed, stopping>>

\* seal_active_buffer_locked: the buffer gets its place in the file and a
\* spare takes over, already holding recs.
SealActiveBuffer(recs) ==
    /\ pending' = Append(pending, [pos |-> offset, recs |-> active, max |-> MaxLsnOf(active)])
    /\ offset' = offset + 1
    /\ spares' = spares - 1
    /\ active' = recs

Appended(t) == lsns' = [lsns EXCEPT !.appended = MaxOf(@, rec[t].lsn)]
Overwritable(t) == {r \in active : r.page = rec[t].page}

\* overwrite_buffered_page_image_with_lsn: the frame remembers the page's last
\* image and it is still in the active buffer, so its slot is reused and
\* carries the new LSN.
OverwriteBufferedPageImage(t) ==
    /\ pc[t] = "claimed" /\ StateFree
    /\ Overwritable(t) # {}
    /\ \E r \in Overwritable(t) :
          /\ r.lsn = MaxLsnOf(Overwritable(t))
          /\ active' = (active \ {r}) \union {rec[t]}
    /\ Appended(t)
    /\ Goto(t, "appended")
    /\ UNCHANGED <<backend, spares, pending, submitted, highWater, inFlight, offset, file,
                   asleep, nextLsn, rec, target, acked, driver, syncer, reaper, barrier,
                   failed, stopping>>

\* The record does not fit and a spare is there, perhaps after a wait: the test
\* for room is not repeated after it.
NeedsFreshBuffer(t) ==
    /\ IF pc[t] = "claimed" THEN Cardinality(active) = BufferRecords ELSE ~failed
    /\ spares > 0

\* append_page_image_with_lsn: a slot of the active buffer, or of a fresh one
\* (what is active is sealed first, unless it is empty).  The first record of a
\* buffer and a seal wake the driver.  A frame that was reloaded has no image to
\* overwrite.
AppendPageImage(t) ==
    /\ pc[t] \in {"claimed", "backpressure"} /\ t \notin asleep /\ StateFree
    /\ \/ /\ pc[t] = "claimed" /\ Cardinality(active) < BufferRecords
          /\ active' = active \union {rec[t]}
          /\ IF active = {} THEN WakeWorkers ELSE UNCHANGED asleep
          /\ UNCHANGED <<spares, pending, offset>>
       \/ /\ NeedsFreshBuffer(t)
          /\ IF active = {} THEN active' = {rec[t]} /\ UNCHANGED <<spares, pending, offset>>
                            ELSE SealActiveBuffer({rec[t]})
          /\ WakeWorkers
    /\ Appended(t)
    /\ Goto(t, "appended")
    /\ UNCHANGED <<backend, submitted, highWater, inFlight, file, nextLsn, rec, target,
                   acked, driver, syncer, reaper, barrier, failed, stopping>>

\* extend_file fails while sealing: nothing is sealed, the append returns the
\* error and mark_dirty_raw panics on it.
AppendFails(t) ==
    /\ CanFail
    /\ pc[t] \in {"claimed", "backpressure"} /\ t \notin asleep /\ StateFree
    /\ NeedsFreshBuffer(t) /\ active # {}
    /\ Goto(t, "panicked")
    /\ UNCHANGED <<backend, logVars, nextLsn, rec, target, acked, lsns, driver, syncer,
                   reaper, barrier, asleep, failed, stopping>>

\* The active buffer is full and there is no spare: the client wakes the driver
\* and waits on flush_done, without a timeout and without looking for a failure
\* first.
Backpressure(t) ==
    /\ pc[t] \in {"claimed", "backpressure"} /\ t \notin asleep /\ StateFree
    /\ IF pc[t] = "claimed" THEN Cardinality(active) = BufferRecords ELSE ~failed
    /\ spares = 0
    /\ asleep' = (asleep \ {"driver", "syncer"}) \union {t}
    /\ Goto(t, "backpressure")
    /\ UNCHANGED <<backend, logVars, nextLsn, rec, target, acked, lsns, driver, syncer,
                   reaper, barrier, failed, stopping>>

\* A client woken from that wait raises a stored failure as a panic.
BackpressurePanics(t) ==
    /\ pc[t] = "backpressure" /\ t \notin asleep /\ StateFree
    /\ failed
    /\ Goto(t, "panicked")
    /\ UNCHANGED <<backend, logVars, nextLsn, rec, target, acked, lsns, driver, syncer,
                   reaper, barrier, asleep, failed, stopping>>

\* flush (target: the highest appended LSN) or flush_at_least of the own LSN.
Flush(t) ==
    /\ pc[t] = "appended"
    /\ \E lsn \in {lsns.appended, rec[t].lsn} : target' = [target EXCEPT ![t] = lsn]
    /\ Goto(t, "flush")
    /\ UNCHANGED <<backend, logVars, nextLsn, rec, acked, lsns, driver, syncer, reaper,
                   barrier, asleep, failed, stopping>>

\* A writer that does not ask for durability leaves its record to a later
\* flush or to the shutdown.
LeaveBuffered(t) ==
    /\ pc[t] = "appended"
    /\ rec' = [rec EXCEPT ![t] = NoRecord]
    /\ Goto(t, "idle")
    /\ UNCHANGED <<backend, logVars, nextLsn, target, acked, lsns, driver, syncer, reaper,
                   barrier, asleep, failed, stopping>>

\* A strict flush returns to its caller.
Returns(t) ==
    /\ target' = [target EXCEPT ![t] = 0]
    /\ IF pc[t] \in {"resetFlush", "resetWait"}
       THEN Goto(t, "truncate") /\ UNCHANGED <<acked, rec>>
       ELSE /\ Goto(t, "idle")
            /\ acked' = acked \union {rec[t]}
            /\ rec' = [rec EXCEPT ![t] = NoRecord]

\* strict_flush_at_least and wait_for_durable: return once durable_lsn has
\* reached the target (without the mutex on the fast path).
FlushReturns(t) ==
    /\ pc[t] \in {"flush", "wait", "resetFlush", "resetWait"}
    /\ pc[t] \in {"wait", "resetWait"} => StateFree
    /\ ~failed
    /\ lsns.durable >= target[t]
    /\ Returns(t)
    /\ UNCHANGED <<backend, logVars, nextLsn, lsns, driver, syncer, reaper, barrier, asleep,
                   failed, stopping>>

\* Mutant: the request is made once and not repeated while waiting.
RequestDurableOnce(t) ==
    /\ pc[t] \in {"flush", "resetFlush"} /\ StateFree
    /\ ~failed
    /\ lsns.durable < target[t]
    /\ Request(target[t])
    /\ WakeWorkers
    /\ Goto(t, IF pc[t] = "flush" THEN "wait" ELSE "resetWait")
    /\ UNCHANGED <<backend, logVars, nextLsn, rec, target, acked, driver, syncer, reaper,
                   barrier, failed, stopping>>

\* request_durable and every round of wait_for_durable: raise the requests and
\* wake the driver and the syncer; the wait on flush_done ends after 10 ms.
RequestDurable(t) ==
    /\ pc[t] \in {"flush", "wait", "resetFlush", "resetWait"} /\ StateFree
    /\ ~failed
    /\ lsns.durable < target[t]
    /\ pc[t] \in {"wait", "resetWait"} => asleep \intersect {"driver", "syncer"} # {}
    /\ Request(target[t])
    /\ WakeWorkers
    /\ Goto(t, CASE pc[t] = "flush" -> "wait" [] pc[t] = "resetFlush" -> "resetWait"
                 [] OTHER -> pc[t])
    /\ UNCHANGED <<backend, logVars, nextLsn, rec, target, acked, driver, syncer, reaper,
                   barrier, failed, stopping>>

\* panic_if_backend_failed
FlushPanics(t) ==
    /\ pc[t] \in {"flush", "wait", "resetFlush", "resetWait"} /\ failed
    /\ Goto(t, "panicked")
    /\ UNCHANGED <<backend, logVars, nextLsn, rec, target, acked, lsns, driver, syncer,
                   reaper, barrier, asleep, failed, stopping>>

\* reset: flush first, then truncate.  A flush with nothing appended returns.
Reset(t) ==
    /\ pc[t] = "idle" /\ stopping = "no"
    /\ lsns.appended > 0
    /\ ResetIsAlone => \A u \in Threads \ {t} : pc[u] \in {"idle", "panicked"}
    /\ target' = [target EXCEPT ![t] = lsns.appended]
    /\ Goto(t, "resetFlush")
    /\ UNCHANGED <<backend, logVars, nextLsn, rec, acked, lsns, driver, syncer, reaper,
                   barrier, asleep, failed, stopping>>

\* WalInner::reset: the file is cut to its header, every buffered or sealed
\* record is dropped and the spares are built anew.  The log was obsolete, so
\* nothing is owed to earlier flushes any more.
Truncate(t) ==
    /\ pc[t] = "truncate" /\ StateFree
    /\ file' = [i \in Positions |-> Hole]
    /\ offset' = 1 /\ active' = {} /\ pending' = <<>> /\ spares' = BufferCount - 1
    /\ acked' = {}
    /\ Goto(t, "idle")
    /\ UNCHANGED <<backend, submitted, highWater, inFlight, nextLsn, rec, target, lsns,
                   driver, syncer, reaper, barrier, asleep, failed, stopping>>

-----------------------------------------------------------------------------
(* The driver thread. *)

HandlesSync == backend # "fdatasync"
CanSubmitWrite == Cardinality(inFlight) < MaxInFlightWrites
WriteReady == \/ pending # <<>>
              \/ lsns.reqWrite > lsns.written
              \/ stopping = "clean" /\ active # {}
WritePending == WriteReady /\ CanSubmitWrite /\ (pending # <<>> \/ spares > 0)
SyncPending == lsns.written > lsns.durable /\ lsns.reqDurable > lsns.durable
SyncInFlight == barrier.lsn # 0

\* Mutant: a sync is submitted only for an LSN not asked for before.
SubmitSyncOnNewTarget ==
    HandlesSync /\ SyncPending /\ lsns.written > barrier.requested

\* should_submit_sync; the sync of the other backends is not the driver's.
ShouldSubmitSync ==
    /\ HandlesSync /\ SyncPending
    /\ ~SyncInFlight \/ lsns.written > barrier.requested

\* Mutant: the driver leaves as soon as it is told to.
DriverDoneAtOnce == stopping = "clean"

\* The clean shutdown test of the driver loop.
DriverDone ==
    /\ stopping = "clean" /\ ~WritePending /\ active = {} /\ inFlight = {}
    /\ HandlesSync => lsns.reqDurable <= lsns.durable /\ ~SyncPending

\* One pass of the wait loop: leave on failure or shutdown, go to work, or
\* sleep on flush_requested.  A driver that also syncs raises the write request
\* to the durability request.
DriverCheck ==
    /\ driver = "check" /\ "driver" \notin asleep /\ StateFree
    /\ driver' = CASE failed \/ stopping = "crash" \/ DriverDone -> "exited"
                   [] WritePending \/ ShouldSubmitSync -> "work"
                   [] OTHER -> "check"
    /\ asleep' = IF driver' = "check" THEN asleep \union {"driver"} ELSE asleep
    /\ lsns' = IF HandlesSync /\ driver' # "exited" /\ lsns.reqDurable > lsns.written
               THEN [lsns EXCEPT !.reqWrite = MaxOf(@, lsns.reqDurable)] ELSE lsns
    /\ UNCHANGED <<backend, logVars, clientVars, syncer, reaper, barrier, failed, stopping>>

\* The wait of a driver that handles sync ends after 10 ms by itself.
DriverTimeout ==
    /\ HandlesSync /\ "driver" \in asleep
    /\ WritePending \/ ShouldSubmitSync \/ DriverDone \/ failed \/ stopping = "crash"
    /\ asleep' = asleep \ {"driver"}
    /\ UNCHANGED <<backend, logVars, clientVars, lsns, driver, syncer, reaper, barrier,
                   failed, stopping>>

\* What the driver may submit: the sealed buffers, or the active one.
Submittable ==
    IF pending = <<>> /\ active # {}
    THEN <<[pos |-> offset, recs |-> active, max |-> MaxLsnOf(active)]>>
    ELSE pending

\* seal_active_buffer_locked if nothing is sealed yet, and
\* pop_pending_write_locked.
PopPendingWrite ==
    /\ pending' = Tail(Submittable)
    /\ submitted' = Append(submitted, [max |-> Head(Submittable).max, done |-> FALSE])
    /\ IF pending = <<>>
       THEN offset' = offset + 1 /\ spares' = spares - 1 /\ active' = {}
       ELSE UNCHANGED <<offset, spares, active>>

\* After the group commit delay, which drops the mutex: hand the oldest sealed
\* buffer to the backend.
DriverSubmit ==
    /\ driver = "work" /\ StateFree
    /\ IF WritePending /\ Submittable # <<>>
       THEN /\ PopPendingWrite
            /\ inFlight' = inFlight \union {Head(Submittable)}
            /\ driver' = IF backend = "uring" THEN "sync" ELSE "write"
       ELSE /\ UNCHANGED <<inFlight, pending, submitted, offset, spares, active>>
            /\ driver' = "sync"
    /\ UNCHANGED <<backend, clientVars, lsns, highWater, file, syncer, reaper, barrier,
                   asleep, failed, stopping>>

\* The error paths of that step: extend_file fails and nothing is sealed, or
\* the ring takes no entry and the popped buffer is dropped.
DriverSubmitFails ==
    /\ CanFail
    /\ driver = "work" /\ StateFree
    /\ WritePending /\ Submittable # <<>>
    /\ \/ pending = <<>> /\ UNCHANGED <<pending, submitted, offset, spares, active>>
       \/ backend = "uring" /\ PopPendingWrite
    /\ failed' = TRUE /\ WakeAll
    /\ driver' = "exited"
    /\ UNCHANGED <<backend, clientVars, lsns, highWater, inFlight, file, syncer, reaper,
                   barrier, stopping>>

\* What a write leaves in the file when it returns.
FileState == IF backend = "dsync" THEN "stable" ELSE "written"

\* pwrite_all or pwritev2_dsync_all of a submitted buffer.
DriverWrite ==
    /\ driver = "write"
    /\ \E w \in inFlight :
          file' = [file EXCEPT ![w.pos] = [recs |-> w.recs, state |-> FileState]]
    /\ driver' = "complete"
    /\ UNCHANGED <<backend, active, spares, pending, submitted, highWater, inFlight, offset,
                   clientVars, lsns, syncer, reaper, barrier, asleep, failed, stopping>>

\* SubmittedWrites::complete: mark the entry, then retire the completed front.
CompleteSubmitted(w) ==
    LET marked == [k \in DOMAIN submitted |->
                     IF submitted[k].max = w.max THEN [submitted[k] EXCEPT !.done = TRUE]
                                                 ELSE submitted[k]]
        retired == {n \in 0..Len(marked) : \A k \in 1..n : marked[k].done}
        front == CHOOSE n \in retired : \A k \in retired : k <= n
    IN /\ submitted' = SubSeq(marked, front + 1, Len(marked))
       /\ highWater' = MaxLsnOf({[lsn |-> highWater]} \union
                                {[lsn |-> marked[k].max] : k \in 1..front})

\* handle_completion of a write, under the mutex: the buffer becomes a spare.
CompleteWrite(w) ==
    /\ StateFree /\ w \in inFlight
    /\ CompleteSubmitted(w)
    /\ inFlight' = inFlight \ {w}
    /\ spares' = spares + 1

DriverComplete ==
    /\ driver = "complete"
    /\ \E w \in inFlight : CompleteWrite(w)
    /\ driver' = "publish"
    /\ UNCHANGED <<backend, active, pending, offset, file, clientVars, lsns, syncer, reaper,
                   barrier, asleep, failed, stopping>>

\* The rest of handle_completion, after the mutex: written_lsn, and durable_lsn
\* where the write was synchronous, then the notifications.
DriverPublish ==
    /\ driver = "publish"
    /\ lsns' = [lsns EXCEPT !.written = MaxOf(@, highWater),
                            !.durable = IF backend = "dsync" THEN MaxOf(@, highWater) ELSE @]
    /\ WakeAll
    /\ driver' = "sync"
    /\ UNCHANGED <<backend, logVars, clientVars, syncer, reaper, barrier, failed, stopping>>

\* SyncBarrierState::request and next_target, with what the driver asks for.
SyncRequested == MaxOf(barrier.requested, lsns.written)
StartsSync == ~SyncInFlight /\ SyncRequested > barrier.completed

\* The driver submits a sync (submit_sync of the ring: raise the barrier, and
\* queue one drained fsync unless one is in flight).
DriverSync ==
    /\ driver = "sync"
    /\ barrier' =
         IF backend = "uring" /\ ShouldSubmitSync
         THEN IF StartsSync
              THEN [barrier EXCEPT !.requested = SyncRequested, !.lsn = SyncRequested,
                                   !.after = inFlight]
              ELSE [barrier EXCEPT !.requested = SyncRequested]
         ELSE barrier
    /\ driver' = "check"
    /\ UNCHANGED <<backend, logVars, clientVars, lsns, syncer, reaper, asleep, failed,
                   stopping>>

\* The ring takes no entry for the fsync: the request stays raised.
DriverSyncFails ==
    /\ CanFail /\ driver = "sync"
    /\ backend = "uring" /\ ShouldSubmitSync /\ StartsSync
    /\ barrier' = [barrier EXCEPT !.requested = SyncRequested]
    /\ failed' = TRUE /\ WakeAll
    /\ driver' = "exited"
    /\ UNCHANGED <<backend, logVars, clientVars, lsns, syncer, reaper, stopping>>

\* record_backend_failure, and the thread that met the error returns.
DriverWriteFails ==
    /\ CanFail /\ StateFree
    /\ driver = "write"
    /\ failed' = TRUE /\ WakeAll
    /\ driver' = "exited"
    /\ UNCHANGED <<backend, logVars, clientVars, lsns, syncer, reaper, barrier, stopping>>

-----------------------------------------------------------------------------
(* The syncer thread of the fdatasync backend. *)

RaiseWriteRequest ==
    IF lsns.reqDurable > lsns.written
    THEN lsns' = [lsns EXCEPT !.reqWrite = MaxOf(@, lsns.reqDurable)] /\ WakeWorkers
    ELSE UNCHANGED <<lsns, asleep>>

\* The wait loop.  The test uses watermarks that move without the mutex; a
\* syncer that finds no work keeps the mutex until it is parked.
SyncerCheck ==
    /\ syncer.pc = "check" /\ "syncer" \notin asleep
    /\ IF failed THEN UNCHANGED <<lsns, asleep>> ELSE RaiseWriteRequest
    /\ syncer' = [syncer EXCEPT !.pc =
         CASE failed \/ stopping = "crash" -> "exited"
           [] SyncPending -> "delay"
           [] stopping = "clean" /\ lsns.reqDurable <= lsns.durable -> "exited"
           [] OTHER -> "parking"]
    /\ UNCHANGED <<backend, logVars, clientVars, driver, reaper, barrier, failed, stopping>>

SyncerPark ==
    /\ syncer.pc = "parking"
    /\ syncer' = [syncer EXCEPT !.pc = "check"]
    /\ asleep' = asleep \union {"syncer"}
    /\ UNCHANGED <<backend, logVars, clientVars, lsns, driver, reaper, barrier, failed,
                   stopping>>

\* After the group commit delay: look again, and start fdatasync for what is
\* written now.
SyncerStart ==
    /\ syncer.pc = "delay"
    /\ RaiseWriteRequest
    /\ syncer' = IF lsns.reqDurable <= lsns.written /\ SyncPending
                 THEN [pc |-> "sync", lsn |-> lsns.written,
                       covers |-> {i \in Positions : file[i].state = "written"}]
                 ELSE [syncer EXCEPT !.pc = "check"]
    /\ UNCHANGED <<backend, logVars, clientVars, driver, reaper, barrier, failed, stopping>>

MakeStable(positions) ==
    file' = [i \in Positions |-> IF i \in positions /\ file[i].state = "written"
                                 THEN [file[i] EXCEPT !.state = "stable"] ELSE file[i]]

\* Mutant: the sync reports what is written when it ends.
SyncerReportsLatest ==
    /\ syncer.pc = "sync"
    /\ MakeStable(syncer.covers)
    /\ lsns' = [lsns EXCEPT !.durable = MaxOf(@, lsns.written)]
    /\ WakeAll
    /\ syncer' = [pc |-> "check", lsn |-> 0, covers |-> {}]
    /\ UNCHANGED <<backend, active, spares, pending, submitted, highWater, inFlight, offset,
                   clientVars, driver, reaper, barrier, failed, stopping>>

\* fdatasync returns: advance_durable_lsn to the LSN read before it started.
SyncerDone ==
    /\ syncer.pc = "sync"
    /\ MakeStable(syncer.covers)
    /\ lsns' = [lsns EXCEPT !.durable = MaxOf(@, syncer.lsn)]
    /\ WakeAll
    /\ syncer' = [pc |-> "check", lsn |-> 0, covers |-> {}]
    /\ UNCHANGED <<backend, active, spares, pending, submitted, highWater, inFlight, offset,
                   clientVars, driver, reaper, barrier, failed, stopping>>

SyncerFails ==
    /\ CanFail
    /\ syncer.pc = "sync"
    /\ failed' = TRUE /\ WakeAll
    /\ syncer' = [pc |-> "exited", lsn |-> 0, covers |-> {}]
    /\ UNCHANGED <<backend, logVars, clientVars, lsns, driver, reaper, barrier, stopping>>

-----------------------------------------------------------------------------
(* The io_uring backend: the kernel, and the dispatch of its completions by    *)
(* the reaper or by the polling driver, one at a time under the ring's mutex.  *)

Landed(w) == file[w.pos].recs = w.recs

\* The kernel carries out a queued write.
RingWrite ==
    /\ backend = "uring"
    /\ \E w \in inFlight :
          /\ ~Landed(w)
          /\ file' = [file EXCEPT ![w.pos] = [recs |-> w.recs, state |-> "written"]]
    /\ UNCHANGED <<backend, active, spares, pending, submitted, highWater, inFlight, offset,
                   clientVars, lsns, driver, syncer, reaper, barrier, asleep, failed,
                   stopping>>

\* complete_write, up to the unlock in handle_completion.
ReapWrite ==
    /\ backend = "uring" /\ reaper = "reap"
    /\ \E w \in inFlight : Landed(w) /\ CompleteWrite(w)
    /\ reaper' = "publish"
    /\ UNCHANGED <<backend, active, pending, offset, file, clientVars, lsns, driver, syncer,
                   barrier, asleep, failed, stopping>>

\* The rest of handle_completion.
ReapPublish ==
    /\ reaper = "publish"
    /\ lsns' = [lsns EXCEPT !.written = MaxOf(@, highWater)]
    /\ WakeAll
    /\ reaper' = "reap"
    /\ UNCHANGED <<backend, logVars, clientVars, driver, syncer, barrier, failed, stopping>>

\* The kernel carries out the drained fsync once the writes queued before it
\* are done.
RingSync ==
    /\ SyncInFlight /\ ~barrier.done
    /\ \A w \in barrier.after : Landed(w)
    /\ MakeStable(Positions)
    /\ barrier' = [barrier EXCEPT !.done = TRUE, !.after = {}]
    /\ UNCHANGED <<backend, active, spares, pending, submitted, highWater, inFlight, offset,
                   clientVars, lsns, driver, syncer, reaper, asleep, failed, stopping>>

\* Mutant: a completed fsync reports the coalesced request.
ReapSyncReportsRequested ==
    /\ reaper = "reap" /\ barrier.done
    /\ lsns' = [lsns EXCEPT !.durable = MaxOf(@, barrier.requested)]
    /\ barrier' = [barrier EXCEPT !.completed = barrier.requested, !.lsn = 0, !.done = FALSE]
    /\ WakeAll
    /\ UNCHANGED <<backend, logVars, clientVars, driver, syncer, reaper, failed, stopping>>

\* dispatch_cqe of the fsync: the barrier completes, durable_lsn advances to
\* the LSN the fsync was submitted for.
ReapSync ==
    /\ reaper = "reap" /\ barrier.done
    /\ lsns' = [lsns EXCEPT !.durable = MaxOf(@, barrier.lsn)]
    /\ barrier' = [barrier EXCEPT !.completed = MaxOf(@, barrier.lsn), !.lsn = 0,
                                  !.done = FALSE]
    /\ WakeAll
    /\ UNCHANGED <<backend, logVars, clientVars, driver, syncer, reaper, failed, stopping>>

\* A write or the fsync completes with an error, and the slot or the barrier is
\* released, or io_uring_enter fails and the reaper returns.
ReapFails ==
    /\ CanFail /\ backend = "uring" /\ reaper = "reap"
    /\ \/ \E w \in inFlight : ~Landed(w) /\ inFlight' = inFlight \ {w}
                               /\ barrier' = [barrier EXCEPT !.after = @ \ {w}]
                               /\ UNCHANGED reaper
       \/ /\ SyncInFlight /\ ~barrier.done
          /\ barrier' = [barrier EXCEPT !.completed = MaxOf(@, barrier.lsn), !.lsn = 0,
                                        !.after = {}]
          /\ UNCHANGED <<inFlight, reaper>>
       \/ reaper' = "exited" /\ UNCHANGED <<inFlight, barrier>>
    /\ failed' = TRUE /\ WakeAll
    /\ UNCHANGED <<backend, active, spares, pending, submitted, highWater, offset, file,
                   clientVars, lsns, driver, syncer, stopping>>

-----------------------------------------------------------------------------
(* Shutdown. *)

\* stop_shard (from Drop, or from crash, by the only owner): raise the requests
\* unless crashing, set the flags and wake everyone.
Stop ==
    /\ stopping = "no" /\ StateFree
    /\ \A t \in Threads : pc[t] \in {"idle", "panicked"}
    /\ \/ stopping' = "clean" /\ Request(lsns.appended)
       \/ stopping' = "crash" /\ UNCHANGED lsns
    /\ WakeWorkers
    /\ UNCHANGED <<backend, logVars, clientVars, driver, syncer, reaper, barrier, failed>>

\* The driver and then the syncer are joined; a clean shutdown ends with fsync.
Close ==
    /\ stopping \in {"clean", "crash"}
    /\ driver = "exited" /\ syncer.pc = "exited" /\ reaper # "publish"
    /\ IF stopping = "clean"
       THEN stopping' = "closed" /\ MakeStable(Positions)
       ELSE stopping' = "crashed" /\ UNCHANGED file
    /\ UNCHANGED <<backend, active, spares, pending, submitted, highWater, inFlight, offset,
                   clientVars, lsns, driver, syncer, reaper, barrier, asleep, failed>>

-----------------------------------------------------------------------------
Client(t) ==
    \/ \E p \in Pages : ClaimLsn(t, p)
    \/ OverwriteBufferedPageImage(t) \/ AppendPageImage(t) \/ AppendFails(t)
    \/ Backpressure(t) \/ BackpressurePanics(t)
    \/ Flush(t) \/ LeaveBuffered(t) \/ FlushReturns(t) \/ RequestDurable(t)
    \/ FlushPanics(t) \/ Reset(t) \/ Truncate(t)

Driver ==
    \/ DriverCheck \/ DriverTimeout \/ DriverSubmit \/ DriverWrite \/ DriverComplete
    \/ DriverPublish \/ DriverSync
    \/ DriverSubmitFails \/ DriverWriteFails \/ DriverSyncFails

Syncer == SyncerCheck \/ SyncerPark \/ SyncerStart \/ SyncerDone \/ SyncerFails

Ring == RingWrite \/ ReapWrite \/ ReapPublish \/ RingSync \/ ReapSync \/ ReapFails

Next ==
    \/ \E t \in Threads : Client(t)
    \/ Driver \/ Syncer \/ Ring \/ Stop \/ Close

Spec == Init /\ [][Next]_vars

\* A client that has claimed an LSN or started a flush goes on; the mutex is
\* eventually fair (parking_lot), hence strong fairness for those who take it.
\* The threads of the log and the kernel never stop by themselves.  Nothing
\* forces a client to call, an operation to fail or the log to be closed.
ClientSteps(t) ==
    \/ OverwriteBufferedPageImage(t) \/ AppendPageImage(t)
    \/ Backpressure(t) \/ BackpressurePanics(t)
    \/ Flush(t) \/ LeaveBuffered(t) \/ FlushReturns(t) \/ RequestDurable(t)
    \/ FlushPanics(t) \/ Truncate(t)
DriverSteps ==
    \/ DriverCheck \/ DriverTimeout \/ DriverSubmit \/ DriverWrite \/ DriverComplete
    \/ DriverPublish \/ DriverSync
SyncerSteps == SyncerCheck \/ SyncerPark \/ SyncerStart \/ SyncerDone
RingSteps == RingWrite \/ ReapWrite \/ ReapPublish
SyncSteps == RingSync \/ ReapSync

LiveSpec ==
    /\ Spec
    /\ \A t \in Threads : SF_vars(ClientSteps(t))
    /\ SF_vars(DriverSteps)
    /\ WF_vars(SyncerSteps) /\ WF_vars(RingSteps) /\ WF_vars(SyncSteps) /\ WF_vars(Close)

-----------------------------------------------------------------------------
(* Properties. *)

\* Every variable of the shard keeps its shape.
TypeOK ==
    /\ backend \in Backends
    /\ nextLsn \in 1..(MaxLsn + 1)
    /\ lsns \in [{"appended", "written", "durable", "reqWrite", "reqDurable"} -> Lsns]
    /\ active \in SUBSET Records /\ spares \in Nat
    /\ \A w \in inFlight \union {pending[k] : k \in DOMAIN pending} :
          w.pos \in Positions /\ w.recs \in SUBSET Records /\ w.max \in Lsns
    /\ \A k \in DOMAIN submitted : submitted[k].max \in Lsns /\ submitted[k].done \in BOOLEAN
    /\ highWater \in Lsns /\ offset \in 1..(MaxLsn + 1)
    /\ file \in [Positions -> [recs : SUBSET Records, state : {"hole", "written", "stable"}]]
    /\ driver \in {"check", "work", "write", "complete", "publish", "sync", "exited"}
    /\ syncer.pc \in {"check", "parking", "delay", "sync", "exited"}
    /\ reaper \in {"reap", "publish", "exited"}
    /\ asleep \subseteq {"driver", "syncer"} \union Threads
    /\ pc \in [Threads -> {"idle", "claimed", "backpressure", "appended", "flush", "wait",
                           "resetFlush", "resetWait", "truncate", "panicked"}]
    /\ rec \in [Threads -> Records] /\ target \in [Threads -> Lsns]
    /\ acked \in SUBSET Records /\ failed \in BOOLEAN
    /\ stopping \in {"no", "clean", "crash", "closed", "crashed"}

\* What a scan of the file after a power failure is sure to find: the records
\* of the longest prefix of positions that reached stable storage.
StableRecords ==
    UNION {file[i].recs : i \in {k \in Positions : \A j \in 1..k : file[j].state = "stable"}}

\* A flush that has returned keeps its promise: the page's image, or a later
\* one of the same page, is found by recovery whatever happens next.
AckedIsStable ==
    \A r \in acked : \E s \in StableRecords : s.page = r.page /\ s.lsn >= r.lsn

\* durable_lsn never names a record behind a gap: when the record that carries
\* it is in the file, every buffer up to it is on stable storage.  This is what
\* keeps out-of-order completions and coalesced syncs from reporting too much.
DurableHasNoGap ==
    \A i \in Positions :
        (\E r \in file[i].recs : r.lsn = lsns.durable) =>
            \A j \in 1..i : file[j].state = "stable"

\* A clean shutdown leaves nothing behind: once the shard is closed without a
\* failure every sealed buffer is in the stable file and none is left in memory.
CleanCloseLosesNothing ==
    stopping = "closed" /\ ~failed =>
        /\ active = {} /\ pending = <<>> /\ inFlight = {}
        /\ \A i \in 1..(offset - 1) : file[i].state = "stable"

\* A client that asks for durability gets an answer: its flush returns or
\* raises the stored failure, however the driver and the syncer interleave.
FlushAnswers ==
    \A t \in Threads : pc[t] \in {"flush", "wait"} ~> pc[t] \in {"idle", "panicked"}

\* stop_shard returns: the driver and the syncer notice the shutdown.
ShutdownCompletes == stopping \in {"clean", "crash"} ~> stopping \in {"closed", "crashed"}

\* Without a syncer thread stop_shard returns: there the driver waits with a
\* timeout, so a notification sent outside the mutex is not slept through.
ShutdownWithoutSyncerCompletes == HandlesSync => ShutdownCompletes
=============================================================================
