----------------------------- MODULE HybridLatch -----------------------------
(***************************************************************************)
(* The hybrid latch of crates/hybrid-latch: a version word whose low bit   *)
(* says "a writer is inside", next to a readers/writer lock.  Optimistic   *)
(* readers take no lock: they snapshot an even version, read the protected *)
(* page, and validate that the version is still the one they saw.          *)
(*                                                                         *)
(* One action per atomic step: each load, store or compare-exchange of the *)
(* version word, and each acquisition or release of the inner lock, is a   *)
(* step of its own, so every interleaving of the real operations is a      *)
(* behaviour.  The page is a set of Words that a writer stores and a       *)
(* reader loads one at a time, so a torn read is possible.                 *)
(***************************************************************************)
EXTENDS Integers

CONSTANTS
    Threads,     \* the threads that use the latch; each holds one guard at most
    Words,       \* the separately readable words of the protected page
    Values,      \* what a word can hold
    NoThread,    \* "no writer holds the inner lock"
    NotRead,     \* "this word has not been read under the guard"
    MaxVersion   \* u64::MAX, scaled down; odd, as 2^64 - 1 is

ASSUME NoThreadAssumption == NoThread \notin Threads
ASSUME NotReadAssumption == NotRead \notin Values
ASSUME ValuesAssumption == Values # {}
ASSUME MaxVersionAssumption == MaxVersion \in Nat /\ MaxVersion % 2 = 1

VARIABLES
    version,     \* HybridLatch::version
    writer,      \* the thread holding the inner lock exclusively
    readers,     \* the threads holding the inner lock shared
    pc,          \* where each thread is between two atomic steps
    guard,       \* the version field of the guard each thread holds
    page,        \* the data the latch protects
    seen,        \* the words each thread has read under its guard
    snap         \* history: the page at the moment the guard was created

vars == <<version, writer, readers, pc, guard, page, seen, snap>>

Pages == [Words -> Values]
Unread == [w \in Words |-> NotRead]

\* Where a thread can be.  "...Wait": blocked on the inner lock.  "...Drain":
\* has the inner lock's writer bit, waits for its readers to leave.
\* "...Locked": owns the inner lock, the version word not yet consulted.
Draining == {"lockDrain", "upDrain"}
Waiting == {"lockWait", "sharedWait", "upWait", "upSharedWait"} \union Draining
ExclusiveHolders == {"locked", "upLocked", "exclusive", "leaving"}
SharedHolders == {"sharedLocked", "upSharedLocked", "shared"}
Optimistic == {"optimistic", "validated"}
Locations == {"idle"} \union Waiting \union ExclusiveHolders
                      \union SharedHolders \union Optimistic

-----------------------------------------------------------------------------
(* helpers.rs: the layout of the version word. *)

VersionIsExclusive(v) == v % 2 = 1

CanAdvanceReadableVersion(v) == v <= MaxVersion - 2
EnterExclusiveVersion(v) == IF v % 2 = 0 THEN v + 1 ELSE v
ExclusiveBaseVersion(v) == v - (v % 2)
\* Mutant: the exit forgets to advance the base version.
ExitKeepsVersion(v) == ExclusiveBaseVersion(v)

ExitExclusiveVersion(v) == ExclusiveBaseVersion(v) + 2
SnapshotStillValid(current, snapshot) == current = snapshot

-----------------------------------------------------------------------------
Init ==
    /\ version = 0
    /\ writer = NoThread
    /\ readers = {}
    /\ pc = [t \in Threads |-> "idle"]
    /\ guard = [t \in Threads |-> 0]
    /\ page \in Pages
    /\ seen = [t \in Threads |-> Unread]
    /\ snap = [t \in Threads |-> Unread]

Move(t, from, to) ==
    /\ pc[t] = from
    /\ pc' = [pc EXCEPT ![t] = to]

\* The inner readers/writer lock (parking_lot::RawRwLock behind lock.rs).
\* An exclusive waiter first takes the writer bit, which keeps new readers
\* out, and owns the lock once the readers inside have left.
TakeInnerExclusive(t) ==
    /\ writer = NoThread \/ (writer = t /\ pc[t] \in Draining)
    /\ readers = {}
    /\ writer' = t
    /\ UNCHANGED readers

TakeInnerShared(t) ==
    /\ writer = NoThread
    /\ readers' = readers \union {t}
    /\ UNCHANGED writer

DropInnerExclusive(t) == writer' = NoThread /\ UNCHANGED readers
DropInnerShared(t) == readers' = readers \ {t} /\ UNCHANGED writer

\* A new read guard: the snapshot it carries and, as history, the page it covers.
NewGuard(t, v) ==
    /\ guard' = [guard EXCEPT ![t] = v]
    /\ snap' = [snap EXCEPT ![t] = page]
    /\ seen' = [seen EXCEPT ![t] = Unread]

\* The guard is gone, and with it what was read under it.
DropGuard(t) ==
    /\ guard' = [guard EXCEPT ![t] = 0]
    /\ snap' = [snap EXCEPT ![t] = Unread]
    /\ seen' = [seen EXCEPT ![t] = Unread]

-----------------------------------------------------------------------------
(* Optimistic guards. *)

\* optimistic_or_restart / optimistic_spin: a guard is handed out only for an
\* even version; otherwise the caller restarts or spins, changing nothing.
OptimisticOrRestart(t) ==
    /\ Move(t, "idle", "optimistic")
    /\ ~VersionIsExclusive(version)
    /\ NewGuard(t, version)
    /\ UNCHANGED <<version, writer, readers, page>>

\* The reader loads one word of the page, with no lock held.
OptimisticRead(t, w) ==
    /\ pc[t] \in Optimistic
    /\ pc' = [pc EXCEPT ![t] = "optimistic"]
    /\ seen' = [seen EXCEPT ![t][w] = page[w]]
    /\ UNCHANGED <<version, writer, readers, guard, page, snap>>

\* OptimisticGuard::validate returns Ok; on Restart the caller drops the guard.
Validate(t) ==
    /\ Move(t, "optimistic", "validated")
    /\ SnapshotStillValid(version, guard[t])
    /\ UNCHANGED <<version, writer, readers, guard, page, seen, snap>>

\* The optimistic guard goes out of scope, after a Restart or unused; no lock
\* is released.
DropOptimistic(t) ==
    /\ pc[t] \in Optimistic
    /\ pc' = [pc EXCEPT ![t] = "idle"]
    /\ DropGuard(t)
    /\ UNCHANGED <<version, writer, readers, page>>

-----------------------------------------------------------------------------
(* Exclusive guards. *)

\* lock_exclusive: the caller starts to wait for the inner lock.
LockExclusive(t) ==
    /\ Move(t, "idle", "lockWait")
    /\ UNCHANGED <<version, writer, readers, guard, page, seen, snap>>

\* A blocked exclusive waiter takes the inner lock's writer bit.
ClaimWriterBit(t) ==
    /\ \/ Move(t, "lockWait", "lockDrain")
       \/ Move(t, "upWait", "upDrain")
    /\ writer = NoThread
    /\ writer' = t
    /\ UNCHANGED <<version, readers, guard, page, seen, snap>>

\* Mutant: a writer also waits for the optimistic readers to leave.
AcquireWhenUnread(t) ==
    /\ \A u \in Threads \ {t} : pc[u] \notin Optimistic
    /\ pc[t] \in {"idle", "lockDrain"}
    /\ pc' = [pc EXCEPT ![t] = "locked"]
    /\ TakeInnerExclusive(t)
    /\ UNCHANGED <<version, guard, page, seen, snap>>

\* Inner lock acquired, at once by try_lock_exclusive (which otherwise
\* returns None and changes nothing) or after waiting by lock_exclusive.
AcquireExclusive(t) ==
    /\ pc[t] \in {"idle", "lockDrain"}
    /\ pc' = [pc EXCEPT ![t] = "locked"]
    /\ TakeInnerExclusive(t)
    /\ UNCHANGED <<version, guard, page, seen, snap>>

\* Mutant: lock_exclusive without its overflow assertion.
EnterWithoutAssert(t) ==
    /\ Move(t, "locked", "exclusive")
    /\ version' = EnterExclusiveVersion(version)
    /\ guard' = [guard EXCEPT ![t] = EnterExclusiveVersion(version)]
    /\ UNCHANGED <<writer, readers, page, seen, snap>>

\* The version word is loaded and stored with the exclusive bit set.
EnterExclusive(t) ==
    /\ Move(t, "locked", "exclusive")
    /\ CanAdvanceReadableVersion(version)
    /\ version' = EnterExclusiveVersion(version)
    /\ guard' = [guard EXCEPT ![t] = EnterExclusiveVersion(version)]
    /\ UNCHANGED <<writer, readers, page, seen, snap>>

\* The entry assertion fails: the panic unwinds and drops the inner guard.
EnterOverflow(t) ==
    /\ Move(t, "locked", "idle")
    /\ ~CanAdvanceReadableVersion(version)
    /\ DropInnerExclusive(t)
    /\ UNCHANGED <<version, guard, page, seen, snap>>

\* The holder stores one word of the page.
Write(t, w, val) ==
    /\ pc[t] = "exclusive"
    /\ page' = [page EXCEPT ![w] = val]
    /\ UNCHANGED <<version, writer, readers, pc, guard, seen, snap>>

\* ExclusiveGuard::drop: the version is published first ...
PublishVersion(t) ==
    /\ Move(t, "exclusive", "leaving")
    /\ version' = ExitExclusiveVersion(guard[t])
    /\ UNCHANGED <<writer, readers, guard, page, seen, snap>>

\* ... and then the inner guard, a field, is dropped.
ReleaseExclusive(t) ==
    /\ Move(t, "leaving", "idle")
    /\ DropInnerExclusive(t)
    /\ DropGuard(t)
    /\ UNCHANGED <<version, page>>

-----------------------------------------------------------------------------
(* Shared guards. *)

LockShared(t) ==
    /\ Move(t, "idle", "sharedWait")
    /\ UNCHANGED <<version, writer, readers, guard, page, seen, snap>>

AcquireShared(t) ==
    /\ pc[t] \in {"idle", "sharedWait"}
    /\ pc' = [pc EXCEPT ![t] = "sharedLocked"]
    /\ TakeInnerShared(t)
    /\ UNCHANGED <<version, guard, page, seen, snap>>

\* lock_shared / try_lock_shared load the version after the lock is held.
EnterShared(t) ==
    /\ Move(t, "sharedLocked", "shared")
    /\ NewGuard(t, version)
    /\ UNCHANGED <<version, writer, readers, page>>

ReleaseShared(t) ==
    /\ Move(t, "shared", "idle")
    /\ DropInnerShared(t)
    /\ DropGuard(t)
    /\ UNCHANGED <<version, page>>

-----------------------------------------------------------------------------
(* Upgrades of an optimistic guard. *)

UpgradeToExclusive(t) ==
    /\ pc[t] \in Optimistic
    /\ pc' = [pc EXCEPT ![t] = "upWait"]
    /\ UNCHANGED <<version, writer, readers, guard, page, seen, snap>>

UpgradeToShared(t) ==
    /\ pc[t] \in Optimistic
    /\ pc' = [pc EXCEPT ![t] = "upSharedWait"]
    /\ UNCHANGED <<version, writer, readers, guard, page, seen, snap>>

\* Mutant: the upgrade relies on the compare_exchange alone.
UpgradeWithoutLock(t) ==
    /\ pc[t] \in Optimistic \union {"upDrain"}
    /\ pc' = [pc EXCEPT ![t] = "upLocked"]
    /\ UNCHANGED <<version, writer, readers, guard, page, seen, snap>>

\* upgrade_to_exclusive after waiting, or try_upgrade_to_exclusive at once
\* (its failure is a Restart: DropOptimistic).
AcquireUpgrade(t) ==
    /\ pc[t] \in Optimistic \union {"upDrain"}
    /\ pc' = [pc EXCEPT ![t] = "upLocked"]
    /\ TakeInnerExclusive(t)
    /\ UNCHANGED <<version, guard, page, seen, snap>>

AcquireUpgradeShared(t) ==
    /\ pc[t] \in Optimistic \union {"upSharedWait"}
    /\ pc' = [pc EXCEPT ![t] = "upSharedLocked"]
    /\ TakeInnerShared(t)
    /\ UNCHANGED <<version, guard, page, seen, snap>>

\* Mutant: a plain store in place of the compare_exchange.
UpgradeBlindStore(t) ==
    /\ Move(t, "upLocked", "exclusive")
    /\ CanAdvanceReadableVersion(guard[t])
    /\ version' = EnterExclusiveVersion(guard[t])
    /\ guard' = [guard EXCEPT ![t] = EnterExclusiveVersion(guard[t])]
    /\ snap' = [snap EXCEPT ![t] = Unread]
    /\ seen' = [seen EXCEPT ![t] = Unread]
    /\ UNCHANGED <<writer, readers, page>>

\* compare_exchange(snapshot, snapshot | 1) succeeds.
EnterUpgrade(t) ==
    /\ Move(t, "upLocked", "exclusive")
    /\ CanAdvanceReadableVersion(guard[t])
    /\ SnapshotStillValid(version, guard[t])
    /\ version' = EnterExclusiveVersion(guard[t])
    /\ guard' = [guard EXCEPT ![t] = EnterExclusiveVersion(guard[t])]
    /\ snap' = [snap EXCEPT ![t] = Unread]
    /\ seen' = [seen EXCEPT ![t] = Unread]
    /\ UNCHANGED <<writer, readers, page>>

\* The compare_exchange fails, or the snapshot is the last version: the
\* inner guard is dropped, by the Restart path or by the panic.
AbandonUpgrade(t) ==
    /\ Move(t, "upLocked", "idle")
    /\ \/ ~CanAdvanceReadableVersion(guard[t])
       \/ ~SnapshotStillValid(version, guard[t])
    /\ DropInnerExclusive(t)
    /\ DropGuard(t)
    /\ UNCHANGED <<version, page>>

EnterUpgradeShared(t) ==
    /\ Move(t, "upSharedLocked", "shared")
    /\ SnapshotStillValid(version, guard[t])
    /\ UNCHANGED <<version, writer, readers, guard, page, seen, snap>>

AbandonUpgradeShared(t) ==
    /\ Move(t, "upSharedLocked", "idle")
    /\ ~SnapshotStillValid(version, guard[t])
    /\ DropInnerShared(t)
    /\ DropGuard(t)
    /\ UNCHANGED <<version, page>>

-----------------------------------------------------------------------------
Step(t) ==
    \/ OptimisticOrRestart(t) \/ Validate(t) \/ DropOptimistic(t)
    \/ \E w \in Words : OptimisticRead(t, w)
    \/ LockExclusive(t) \/ ClaimWriterBit(t) \/ AcquireExclusive(t)
    \/ EnterExclusive(t) \/ EnterOverflow(t) \/ PublishVersion(t) \/ ReleaseExclusive(t)
    \/ \E w \in Words, val \in Values : Write(t, w, val)
    \/ LockShared(t) \/ AcquireShared(t) \/ EnterShared(t) \/ ReleaseShared(t)
    \/ UpgradeToExclusive(t) \/ AcquireUpgrade(t) \/ EnterUpgrade(t)
    \/ AbandonUpgrade(t)
    \/ UpgradeToShared(t) \/ AcquireUpgradeShared(t) \/ EnterUpgradeShared(t)
    \/ AbandonUpgradeShared(t)

Next == \E t \in Threads : Step(t)

Spec == Init /\ [][Next]_vars

\* What a thread that holds the inner lock, or its writer bit, does next.
Finish(t) ==
    \/ pc[t] = "lockDrain" /\ AcquireExclusive(t)
    \/ pc[t] = "upDrain" /\ AcquireUpgrade(t)
    \/ EnterExclusive(t) \/ EnterOverflow(t) \/ PublishVersion(t)
    \/ ReleaseExclusive(t) \/ EnterShared(t) \/ ReleaseShared(t)
    \/ EnterUpgrade(t) \/ AbandonUpgrade(t)
    \/ EnterUpgradeShared(t) \/ AbandonUpgradeShared(t)

\* The inner lock lets a blocked thread in.
Admit(t) ==
    \/ ClaimWriterBit(t)
    \/ pc[t] = "sharedWait" /\ AcquireShared(t)
    \/ pc[t] = "upSharedWait" /\ AcquireUpgradeShared(t)

\* Callers drop their guards and the code between two steps of one call does
\* not block; the inner lock admits every waiter it could admit again and
\* again (parking_lot hands a contended lock over after a bounded wait).
Fairness == \A t \in Threads : WF_vars(Finish(t)) /\ SF_vars(Admit(t))

FairSpec == Spec /\ Fairness

-----------------------------------------------------------------------------
(* Properties. *)

\* Every variable has its type; versions stay within the 64-bit word.
TypeOK ==
    /\ version \in 0..MaxVersion
    /\ writer \in Threads \union {NoThread}
    /\ readers \subseteq Threads
    /\ pc \in [Threads -> Locations]
    /\ guard \in [Threads -> 0..MaxVersion]
    /\ page \in Pages
    /\ seen \in [Threads -> [Words -> Values \union {NotRead}]]
    /\ snap \in [Threads -> [Words -> Values \union {NotRead}]]

\* A thread in an exclusive section is alone: no other thread holds an
\* exclusive or a shared guard, and the version word shows the exclusive bit
\* with exactly that guard's version (lock_exclusive, ExclusiveGuard).
ExclusiveIsAlone ==
    \A t \in Threads : pc[t] = "exclusive" =>
        /\ version = guard[t] /\ VersionIsExclusive(version)
        /\ \A u \in Threads \ {t} :
               pc[u] \notin ExclusiveHolders \union SharedHolders

\* Reads that validate are the page as it was when the guard was created:
\* no word of them was written by a later or an unfinished exclusive section
\* (OptimisticGuard::validate).
ValidatedReadsAreASnapshot ==
    \A t \in Threads : pc[t] = "validated" =>
        \A w \in Words : seen[t][w] \in {NotRead, snap[t][w]}

\* While a shared guard is held its version stays the current one, the
\* exclusive bit is clear and the page does not change; for an upgraded guard
\* that covers the optimistic reads before it (SharedGuard, upgrade_to_shared).
SharedSectionIsStable ==
    \A t \in Threads : pc[t] = "shared" =>
        /\ version = guard[t] /\ ~VersionIsExclusive(version)
        /\ page = snap[t]
        /\ \A w \in Words : seen[t][w] \in {NotRead, page[w]}

\* An upgrade to exclusive succeeds only if nobody wrote since the optimistic
\* snapshot: the page, and what was read of it, is that of the snapshot
\* (upgrade_to_exclusive's compare_exchange under the inner lock).
UpgradeSeesItsSnapshot ==
    [][\A t \in Threads :
          pc[t] = "upLocked" /\ pc'[t] = "exclusive" =>
              /\ page = snap[t]
              /\ \A w \in Words : seen[t][w] \in {NotRead, page[w]}]_vars

\* An exclusive guard can always be dropped: the release-time assertion of
\* advance_readable_version never fires, because entry was refused in time.
ReleaseNeverOverflows ==
    \A t \in Threads : pc[t] = "exclusive" =>
        ExclusiveBaseVersion(guard[t]) + 2 <= MaxVersion

\* The version never goes back, and a page word changes only while the
\* exclusive bit is set (the seqlock discipline validate relies on).
VersionDiscipline ==
    [][/\ version' >= version
       /\ page' # page => VersionIsExclusive(version)]_vars

\* A thread that waits for the latch in any mode gets it or is sent back to
\* restart, also when other threads upgrade, panic on overflow or barge in; and
\* the exclusive bit never stays set, so optimistic readers, which do not wait,
\* are not locked out either.
WaitersAreServed ==
    /\ \A t \in Threads : (pc[t] \in Waiting) ~> (pc[t] \notin Waiting)
    /\ []<>(~VersionIsExclusive(version))

-----------------------------------------------------------------------------
(* The inductive invariant behind the safety properties. *)

\* Locations at which a thread carries a read guard.
ReadGuardHolders ==
    Optimistic \union {"upWait", "upDrain", "upLocked",
                       "upSharedWait", "upSharedLocked", "shared"}

\* The inner lock is held by exactly the threads whose location says so, and
\* an owner has no readers beside it.
LockInv ==
    /\ \A t \in Threads : pc[t] \in ExclusiveHolders \union Draining <=> writer = t
    /\ \A t \in Threads : pc[t] \in SharedHolders <=> t \in readers
    /\ \A t \in Threads : pc[t] \in ExclusiveHolders => readers = {}

\* The exclusive bit is set exactly while some thread is inside, and then the
\* word is that thread's guard version, one step short of the limit at most.
VersionInv ==
    /\ \A t \in Threads : pc[t] = "exclusive" =>
           version = guard[t] /\ version % 2 = 1 /\ version < MaxVersion
    /\ version % 2 = 1 => \E t \in Threads : pc[t] = "exclusive"

\* A read guard's snapshot is an even version that is not in the future; as
\* long as it is the current version the page has not changed under it.
GuardOk(t) ==
    /\ pc[t] \in ReadGuardHolders =>
           /\ guard[t] % 2 = 0 /\ guard[t] <= version
           /\ version = guard[t] =>
                  /\ page = snap[t]
                  /\ \A w \in Words : seen[t][w] \in {NotRead, snap[t][w]}
    /\ pc[t] = "validated" =>
           \A w \in Words : seen[t][w] \in {NotRead, snap[t][w]}
    /\ pc[t] = "shared" => version = guard[t]

GuardInv == \A t \in Threads : GuardOk(t)

IInv == TypeOK /\ LockInv /\ VersionInv /\ GuardInv
=============================================================================
