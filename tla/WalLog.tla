--------------------------------- MODULE WalLog --------------------------------
(***************************************************************************)
(* The log of one WAL shard as a stream of page-sized blocks               *)
(* (crates/wal/src/wal_impl.rs, format.rs): how records are laid out in    *)
(* the active buffer, what a torn tail leaves of them, and what opening    *)
(* and replaying the file makes of the rest.                               *)
(*                                                                         *)
(* A batch is a metadata block, with one slot per record block, followed   *)
(* by those blocks.  A page image takes a slot; short logical records are  *)
(* packed into the last slot while there is room; a long one is cut into   *)
(* chunks, one slot each.  A page image that is still in the active buffer *)
(* is overwritten in place by the next image of its page.                  *)
(*                                                                         *)
(* `log' is the file followed by the sealed buffers (`cuts' are their      *)
(* ends) and the active one.  The content of a page is the set of LSNs of  *)
(* the updates it reflects: an image carries all of them, a patch adds its *)
(* own.  Checksums are modelled by what they establish: a data block is    *)
(* valid iff it is the one its metadata slot was written for.              *)
(***************************************************************************)
EXTENDS Integers, Sequences, FiniteSets, SequencesExt, FiniteSetsExt

CONSTANTS
    Threads, Pages,
    Modes,      \* [threads, pages, kinds, batch, records, spares, lsns, crashes]
    PackCap,    \* short records that fit one block
    Chunks      \* chunks of a long record

ASSUME LogAssumption == PackCap \in Nat \ {0} /\ Chunks \in Nat \ {0}

NoPage == 0
NoLock == "none"
Idle == [kind |-> "idle", page |-> NoPage, lsn |-> 0, placed |-> 0, waited |-> FALSE]
NoHandle == [epoch |-> 0, off |-> 0]

VARIABLES
    mode,
    log, cuts, written, synced,         \* the stream and how far it got
    open, packed, epoch,                \* the active buffer's batch, packed slot, epoch
    lock, op, nextLsn,                  \* the shard mutex, the appends in progress
    page, handle,                       \* pages in memory and their buffered images
    store, ckpt,                        \* page store and checkpoint LSN
    recs,                               \* history: whole records, with their last block
    crashes

wal == <<log, cuts, written, synced, open, packed, epoch, lock>>
vars == <<mode, wal, op, nextLsn, page, handle, store, ckpt, recs, crashes>>

-----------------------------------------------------------------------------
(* Blocks *)

Slot(kind, lsn, idx, rs) == [kind |-> kind, lsn |-> lsn, idx |-> idx, recs |-> rs]
NoSlot == Slot("none", 0, 0, <<>>)
Zero == [meta |-> <<>>, data |-> NoSlot]
Meta(slots) == [meta |-> slots, data |-> NoSlot]
Data(slot) == [meta |-> <<>>, data |-> slot]

IsFirst(s) == s.kind = "chunk" /\ s.idx = 1
IsLast(s) == s.kind = "chunk" /\ s.idx = Chunks
\* Mutant: only page images and final chunks are counted.
CarriesMaxLsnUnpacked(s) == s.kind = "image" \/ IsLast(s)
CarriesMaxLsn(s) == s.kind \in {"image", "packed"} \/ IsLast(s)

MaxOf(S) == IF S = {} THEN 0 ELSE Max(S)

\* Mutant: the data blocks of a batch are not checked.
BatchIsValidByMeta(b, i) == b[i].meta # <<>> /\ i + Len(b[i].meta) <= Len(b)
BatchIsValid(b, i) ==
    /\ b[i].meta # <<>>
    /\ i + Len(b[i].meta) <= Len(b)
    /\ \A j \in 1..Len(b[i].meta) : b[i + j].data = b[i].meta[j]

\* scan_valid_records: the blocks of the valid batches from block i on.
RECURSIVE ValidEnd(_, _)
ValidEnd(b, i) ==
    IF i <= Len(b) /\ BatchIsValid(b, i) THEN ValidEnd(b, i + Len(b[i].meta) + 1) ELSE i - 1

SlotsIn(b) == FoldLeft(LAMBDA s, x : s \o x.meta, <<>>, b)
ScanMaxLsn(b) == MaxOf({s.lsn : s \in {x \in ToSet(SlotsIn(b)) : CarriesMaxLsn(x)}})

-----------------------------------------------------------------------------
(* Replay *)

Garbled == [lsn |-> 0, kind |-> "garbled", page |-> NoPage, body |-> {}]
Nothing == [out |-> <<>>, pending |-> <<>>, stop |-> FALSE]

\* The payload a run of chunks adds up to.
Assemble(chunks) ==
    IF /\ \A j \in 1..Len(chunks) : chunks[j].idx = j /\ chunks[j].recs = chunks[1].recs
       /\ Len(chunks) = Chunks
    THEN chunks[1].recs[1] ELSE Garbled

ReplayChunk(r, s) ==
    IF /\ ~IsFirst(s)
       /\ r.pending = <<>> \/ s.lsn # r.pending[1].lsn
    THEN [r EXCEPT !.stop = TRUE]
    ELSE LET run == IF IsFirst(s) THEN <<s>> ELSE Append(r.pending, s)
         IN  IF IsLast(s) THEN [r EXCEPT !.out = Append(@, Assemble(run)), !.pending = <<>>]
             ELSE [r EXCEPT !.pending = run]

\* One slot of replay_records and recover.
ReplaySlot(r, s) ==
    IF r.stop THEN r
    ELSE IF s.kind = "chunk" THEN ReplayChunk(r, s)
    ELSE [r EXCEPT !.out = @ \o s.recs, !.pending = <<>>]

Replayed(b) == FoldLeft(ReplaySlot, Nothing, SlotsIn(b)).out

\* recover_page_image, recover_page_patch: skipped at or below the checkpoint
\* LSN c and at or below the LSN of the page.
RecoverRecord(S, r, c) ==
    IF r.lsn <= c \/ r.page = NoPage \/ MaxOf(S[r.page]) >= r.lsn THEN S
    ELSE [S EXCEPT ![r.page] = IF r.kind = "patch" THEN @ \cup r.body ELSE r.body]

Recovered(S, b, c) == FoldLeft(LAMBDA T, r : RecoverRecord(T, r, c), S, Replayed(b))

-----------------------------------------------------------------------------
(* The active buffer *)

Sealed == IF cuts = <<>> THEN written ELSE Last(cuts)
UsedBlocks == Len(log) - Sealed
BatchCount == IF open = 0 THEN 0 ELSE Len(log[open].meta)

\* A full batch is closed when its last slot is filled.
NeedsNewBatch == open = 0
\* wal_buffer_capacity_for_records
BufferBlocks == mode.records + ((mode.records + mode.batch - 1) \div mode.batch)
MustSeal(t) ==
    \/ op[t].waited
    \/ UsedBlocks + (IF NeedsNewBatch THEN 2 ELSE 1) > BufferBlocks
Blocked(t) == MustSeal(t) /\ Len(cuts) = mode.spares

Record(t) ==
    [lsn |-> op[t].lsn, kind |-> op[t].kind, page |-> op[t].page,
     body |-> IF op[t].kind \in {"image", "bytes"} THEN page[op[t].page] ELSE {op[t].lsn}]

SlotOf(t) ==
    CASE op[t].kind = "image" -> Slot("image", op[t].lsn, 0, <<Record(t)>>)
      [] op[t].kind = "patch" -> Slot("packed", op[t].lsn, 0, <<Record(t)>>)
      [] OTHER -> Slot("chunk", op[t].lsn, op[t].placed + 1, <<Record(t)>>)
IsWhole(s) == s.kind = "chunk" => IsLast(s)

\* The block after slot s is added, in a batch that starts at block i.
WithSlot(b, i, s) ==
    IF i > Len(b) THEN b \o <<Meta(<<s>>), Data(s)>>
    ELSE Append([b EXCEPT ![i].meta = Append(@, s)], Data(s))
\* Slot and data of block i become s; its batch starts at block m.
Rewritten(b, m, i, s) == [b EXCEPT ![m].meta[i - m] = s, ![i].data = s]

Init ==
    /\ mode \in Modes
    /\ log = <<>> /\ cuts = <<>> /\ written = 0 /\ synced = 0
    /\ open = 0 /\ packed = 0 /\ epoch = 1 /\ lock = NoLock
    /\ op = [t \in Threads |-> Idle] /\ nextLsn = 1
    /\ page = [p \in Pages |-> {}] /\ handle = [p \in Pages |-> NoHandle]
    /\ store = [p \in Pages |-> {}] /\ ckpt = 0
    /\ recs = <<>> /\ crashes = 0

-----------------------------------------------------------------------------
(* Appending *)

\* claim_lsn, by a thread that has changed page p under its latch (or that
\* logs a record of its own, p = NoPage).
Claim(t, kind, p) ==
    /\ op[t] = Idle /\ nextLsn <= mode.lsns
    /\ (kind = "note") = (p = NoPage)
    /\ \A u \in Threads : p # NoPage => op[u].page # p
    /\ op' = [op EXCEPT ![t] = [Idle EXCEPT !.kind = kind, !.page = p, !.lsn = nextLsn]]
    /\ page' = IF p = NoPage THEN page ELSE [page EXCEPT ![p] = @ \cup {nextLsn}]
    /\ nextLsn' = nextLsn + 1
    /\ UNCHANGED <<mode, wal, handle, store, ckpt, recs, crashes>>

\* Mutant: a handle is good until its buffer is written.
BufferedImageUntilWritten(p) ==
    {i \in (written + 1)..Len(log) :
        handle[p] # NoHandle /\ log[i].data.kind = "image" /\ log[i].data.recs[1].page = p}
\* Where the buffered image of p is, if its handle is still good.
BufferedImage(p) ==
    {i \in (Sealed + 1)..Len(log) :
        /\ handle[p] = [epoch |-> epoch, off |-> i - Sealed]
        /\ log[i].data.kind = "image" /\ log[i].data.recs[1].page = p}

BatchStart(i) == Max({m \in 1..i : log[m].meta # <<>>})

\* Mutant: the slot keeps the LSN it was first written with.
OverwriteKeepingLsn(t) ==
    /\ op[t].kind = "image" /\ lock = NoLock
    /\ \E i \in BufferedImage(op[t].page) :
         /\ log' = Rewritten(log, BatchStart(i), i,
                     Slot("image", log[i].data.lsn, 0, <<[Record(t) EXCEPT !.lsn = log[i].data.lsn]>>))
         /\ recs' = [j \in 1..Len(recs) |->
                       IF recs[j].end = i THEN [rec |-> Record(t), end |-> i] ELSE recs[j]]
    /\ op' = [op EXCEPT ![t] = Idle]
    /\ UNCHANGED <<mode, cuts, written, synced, open, packed, epoch, lock,
                   nextLsn, page, handle, store, ckpt, crashes>>
\* overwrite_buffered_page_image_with_lsn
Overwrite(t) ==
    /\ op[t].kind = "image" /\ lock = NoLock
    /\ \E i \in BufferedImage(op[t].page) :
         /\ log' = Rewritten(log, BatchStart(i), i, SlotOf(t))
         /\ recs' = [j \in 1..Len(recs) |->
                       IF recs[j].end = i THEN [rec |-> Record(t), end |-> i] ELSE recs[j]]
    /\ op' = [op EXCEPT ![t] = Idle]
    /\ UNCHANGED <<mode, cuts, written, synced, open, packed, epoch, lock,
                   nextLsn, page, handle, store, ckpt, crashes>>

\* try_append_packed_logical_locked
FitsPacked(t) ==
    /\ op[t].kind = "patch" /\ ~op[t].waited /\ packed # 0 /\ packed = Len(log)
    /\ Len(log[packed].data.recs) < PackCap
Pack(t) ==
    /\ lock = NoLock /\ FitsPacked(t)
    /\ LET s == log[packed].data
       IN  log' = Rewritten(log, BatchStart(packed), packed,
                    Slot("packed", MaxOf({s.lsn, op[t].lsn}), 0, Append(s.recs, Record(t))))
    /\ recs' = Append(recs, [rec |-> Record(t), end |-> packed])
    /\ handle' = [handle EXCEPT ![op[t].page] = NoHandle]
    /\ op' = [op EXCEPT ![t] = Idle]
    /\ UNCHANGED <<mode, cuts, written, synced, open, packed, epoch, lock,
                   nextLsn, page, store, ckpt, crashes>>

\* The driver has not returned a buffer: the mutex is released while waiting.
Wait(t) ==
    /\ op[t] # Idle /\ lock \in {NoLock, t} /\ ~op[t].waited
    /\ op[t].kind = "image" => BufferedImage(op[t].page) = {}
    /\ ~FitsPacked(t) /\ Blocked(t)
    /\ op' = [op EXCEPT ![t].waited = TRUE]
    /\ lock' = NoLock /\ packed' = 0
    /\ UNCHANGED <<mode, log, cuts, written, synced, open, epoch,
                   nextLsn, page, handle, store, ckpt, recs, crashes>>

\* append_page_image_with_lsn, append_packed_logical_with_lsn and the loop of
\* append_logical_record_with_lsn: reserve_active_record_slot_locked and
\* finish_active_record_slot_locked for the next slot of thread t; the mutex is
\* kept between the chunks of a record.  append_full_page_image_with_lsn appends
\* after a failed overwrite, in a second section of the mutex: a handle that was
\* stale then is stale still, since epochs only grow.
Place(t) ==
    /\ op[t] # Idle /\ lock \in {NoLock, t}
    /\ op[t].kind = "image" => BufferedImage(op[t].page) = {}
    /\ ~FitsPacked(t) /\ ~Blocked(t)
    /\ LET seals == MustSeal(t) /\ UsedBlocks > 0
           start == IF seals \/ NeedsNewBatch THEN Len(log) + 1 ELSE open
           slot  == SlotOf(t)
           next  == WithSlot(log, start, slot)
           base  == IF seals THEN Len(log) ELSE Sealed
       IN  /\ log' = next
           /\ cuts' = IF seals THEN Append(cuts, Len(log)) ELSE cuts
           /\ epoch' = IF seals THEN epoch + 1 ELSE epoch
           /\ open' = IF Len(next[start].meta) = mode.batch THEN 0 ELSE start
           /\ packed' = IF slot.kind = "packed" THEN Len(next) ELSE 0
           /\ handle' = CASE slot.kind = "image" ->
                               [handle EXCEPT ![op[t].page] = [epoch |-> epoch', off |-> Len(next) - base]]
                          [] slot.kind # "image" /\ op[t].page # NoPage ->
                               [handle EXCEPT ![op[t].page] = NoHandle]
                          [] OTHER -> handle
           /\ lock' = IF IsWhole(slot) THEN NoLock ELSE t
           /\ recs' = IF IsWhole(slot) THEN Append(recs, [rec |-> Record(t), end |-> Len(next)])
                      ELSE recs
           /\ op' = [op EXCEPT ![t] = IF IsWhole(slot) THEN Idle
                                      ELSE [@ EXCEPT !.placed = @ + 1, !.waited = FALSE]]
    /\ UNCHANGED <<mode, written, synced, nextLsn, page, store, ckpt, crashes>>

-----------------------------------------------------------------------------
(* The driver, checkpoints and crashes *)

\* seal_active_buffer_locked by the driver, on a flush request.
Seal ==
    /\ lock = NoLock /\ UsedBlocks > 0 /\ cuts = <<>> /\ mode.spares > 0
    /\ cuts' = <<Len(log)>> /\ epoch' = epoch + 1 /\ open' = 0 /\ packed' = 0
    /\ UNCHANGED <<mode, log, written, synced, lock, op, nextLsn, page, handle, store, ckpt,
                   recs, crashes>>

\* write_sealed_buffer, after finalize_buffer_records has put in the checksums.
WriteBuffer ==
    /\ cuts # <<>>
    /\ written' = Head(cuts) /\ cuts' = Tail(cuts)
    /\ UNCHANGED <<mode, log, synced, open, packed, epoch, lock, op, nextLsn, page, handle,
                   store, ckpt, recs, crashes>>

Sync ==
    /\ synced < written
    /\ synced' = written
    /\ UNCHANGED <<mode, log, cuts, written, open, packed, epoch, lock, op, nextLsn, page,
                   handle, store, ckpt, recs, crashes>>

EmptyLog ==
    /\ log' = <<>> /\ cuts' = <<>> /\ written' = 0 /\ synced' = 0
    /\ open' = 0 /\ packed' = 0 /\ epoch' = epoch + 1 /\ lock' = NoLock
    /\ recs' = <<>>

\* A checkpoint with no append in progress: the log is flushed, the pages are
\* written, and Wal::reset empties the log.
Checkpoint ==
    /\ \A t \in Threads : op[t] = Idle
    /\ log # <<>> /\ synced = Len(log)
    /\ store' = page /\ ckpt' = nextLsn - 1
    /\ handle' = [p \in Pages |-> NoHandle]
    /\ EmptyLog
    /\ UNCHANGED <<mode, op, nextLsn, page, crashes>>

\* What a crash can leave of the stream: every synced block; of the blocks
\* written since, or being written, those before block f, not f, and either
\* all or none of the ones after it.
InFlight == IF cuts = <<>> THEN written ELSE Head(cuts)
Tears == ((synced + 1)..(InFlight + 1)) \X BOOLEAN
Torn(tear) ==
    [i \in 1..InFlight |->
        IF i < tear[1] \/ (i > tear[1] /\ tear[2]) THEN log[i] ELSE Zero]
\* open_wal_file truncates the file to its valid batches.
Opened(tear) == SubSeq(Torn(tear), 1, ValidEnd(Torn(tear), 1))

\* A crash and the next opening, which replays the log into the page store.
\* The log is appended to from there, or reset if the caller says so.
CrashAndOpen(tear, resets) ==
    /\ crashes < mode.crashes
    /\ crashes' = crashes + 1
    /\ LET file  == Opened(tear)
           pages == Recovered(store, file, ckpt)
           top   == MaxOf({ckpt, ScanMaxLsn(file)})
       IN  /\ store' = pages /\ page' = pages
           /\ nextLsn' = top + 1
           /\ IF resets THEN EmptyLog /\ ckpt' = top
              ELSE /\ log' = file /\ cuts' = <<>>
                   /\ written' = Len(file) /\ synced' = Len(file)
                   /\ open' = 0 /\ packed' = 0 /\ epoch' = 1 /\ lock' = NoLock
                   /\ recs' = SelectSeq(recs, LAMBDA r : r.end <= Len(file))
                   /\ ckpt' = ckpt
    /\ op' = [t \in Threads |-> Idle]
    /\ handle' = [p \in Pages |-> NoHandle]
    /\ UNCHANGED mode

Finished ==
    /\ nextLsn > mode.lsns /\ \A t \in Threads : op[t] = Idle
    /\ log = <<>>
    /\ UNCHANGED vars

Next ==
    \/ \E t \in mode.threads, kind \in mode.kinds, p \in mode.pages \cup {NoPage} :
           Claim(t, kind, p)
    \/ \E t \in mode.threads : Overwrite(t)
    \/ \E t \in mode.threads : Pack(t)
    \/ \E t \in mode.threads : Wait(t)
    \/ \E t \in mode.threads : Place(t)
    \/ Seal \/ WriteBuffer \/ Sync \/ Checkpoint
    \/ \E tear \in Tears, resets \in BOOLEAN : CrashAndOpen(tear, resets)
    \/ Finished

Spec == Init /\ [][Next]_vars

-----------------------------------------------------------------------------
(* Properties *)

\* The marks of the stream are in order, the active buffer fits its memory,
\* and the packed slot and the open batch lie in it.
TypeOK ==
    /\ 0 <= synced /\ synced <= written /\ written <= Sealed /\ Sealed <= Len(log)
    /\ UsedBlocks <= BufferBlocks /\ Len(cuts) <= mode.spares
    /\ open # 0 => open \in (Sealed + 1)..Len(log) /\ BatchCount < mode.batch
    /\ packed # 0 => packed = Len(log) /\ log[packed].data.kind = "packed"
    /\ lock # NoLock => op[lock].placed > 0
    /\ \A p \in Pages : store[p] \subseteq 1..mode.lsns /\ page[p] \subseteq 1..mode.lsns

\* The end of the last batch before block f.
WholeBatches(f) ==
    MaxOf({i \in 0..(f - 1) : i = InFlight \/ (i + 1 <= Len(log) /\ log[i + 1].meta # <<>>)})

\* Whatever a crash leaves of the tail, scan_valid_records and replay_records
\* deliver exactly the records that lie in the whole batches before the first
\* lost block, in log order: none in part, none twice, none missing, and no
\* chunks of two records joined.
SurvivorsAreReplayed ==
    \A tear \in Tears :
        Replayed(Opened(tear)) =
            LET kept == SelectSeq(recs, LAMBDA r : r.end <= WholeBatches(tear[1]))
            IN  [j \in 1..Len(kept) |-> kept[j].rec]

\* Whatever a crash leaves of the tail, recovery brings every page to a state
\* it has been in: the updates it reflects are the oldest ones, and all of
\* those that were in synced blocks are among them.
RecoveredPagesAreWhole ==
    \A tear \in Tears : \A p \in Pages :
        LET got == Recovered(store, Opened(tear), ckpt)[p]
        IN  /\ got = {l \in page[p] : l <= MaxOf(got)}
            /\ \A j \in 1..Len(recs) :
                 recs[j].end <= synced /\ recs[j].rec.page = p => recs[j].rec.lsn \in got

\* The next LSN is above every LSN that a record of the log or a page of the
\* store carries, and no two records of the log carry the same one: a record
\* appended after a crash is never mistaken for one already applied.
LsnsAreFresh ==
    /\ \A p \in Pages : MaxOf(store[p]) < nextLsn
    /\ \A i \in 1..Len(recs) :
         /\ recs[i].rec.lsn < nextLsn
         /\ \A j \in 1..Len(recs) : recs[i].rec.lsn = recs[j].rec.lsn => i = j

\* With one appender and buffers of one batch, what survives of the log is a
\* prefix of it in LSN order, although a buffered image takes a newer LSN at
\* its old place.
SurvivorsAreAnLsnPrefix ==
    Cardinality(mode.threads) = 1 /\ mode.records <= mode.batch =>
        \A tear \in Tears : \A got \in {ToSet(Replayed(Opened(tear)))} :
            \A i \in 1..Len(recs) : \A r \in got : recs[i].rec.lsn < r.lsn => recs[i].rec \in got
================================================================================
