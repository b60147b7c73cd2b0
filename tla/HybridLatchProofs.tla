-------------------------- MODULE HybridLatchProofs --------------------------
(***************************************************************************)
(* Machine-checked proofs that the hybrid latch keeps its safety           *)
(* properties for any number of threads, any page and any version width.   *)
(***************************************************************************)
EXTENDS HybridLatch, TLAPS

\* The sets of locations, by their members.
LEMMA LocationFacts ==
    /\ Draining = {"lockDrain", "upDrain"}
    /\ Optimistic = {"optimistic", "validated"}
    /\ ExclusiveHolders = {"locked", "upLocked", "exclusive", "leaving"}
    /\ SharedHolders = {"sharedLocked", "upSharedLocked", "shared"}
    /\ ReadGuardHolders = {"optimistic", "validated", "upWait", "upDrain",
                           "upLocked", "upSharedWait", "upSharedLocked", "shared"}
    /\ Locations = {"idle", "lockWait", "sharedWait", "upWait", "upSharedWait",
                    "lockDrain", "upDrain", "locked", "upLocked", "exclusive",
                    "leaving", "sharedLocked", "upSharedLocked", "shared",
                    "optimistic", "validated"}
BY DEF Draining, Optimistic, ExclusiveHolders, SharedHolders,
       ReadGuardHolders, Locations, Waiting

\* Entering turns an even word into the next odd one; leaving turns an odd
\* word into the next even one (helpers.rs).
LEMMA VersionArithmetic ==
    ASSUME NEW v \in Nat
    PROVE  /\ v % 2 \in {0, 1}
           /\ v % 2 = 0 => EnterExclusiveVersion(v) = v + 1 /\ (v + 1) % 2 = 1
           /\ v % 2 = 1 => ExitExclusiveVersion(v) = v + 1 /\ (v + 1) % 2 = 0
BY DEF EnterExclusiveVersion, ExitExclusiveVersion, ExclusiveBaseVersion

\* The invariant holds when the latch is created.
LEMMA InitInv == Init => IInv
<1> SUFFICES ASSUME Init PROVE IInv
  OBVIOUS
<1> USE NoThreadAssumption, MaxVersionAssumption, LocationFacts DEF Init
<1>1. TypeOK
  BY DEF TypeOK, Pages, Unread
<1>2. LockInv
  BY DEF LockInv
<1>3. VersionInv
  BY DEF VersionInv
<1>4. GuardInv
  BY DEF GuardInv, GuardOk
<1> QED
  BY <1>1, <1>2, <1>3, <1>4 DEF IInv

\* The types are kept by every step.  PublishVersion needs the version
\* budget of VersionInv: this is where the entry assertion matters.
LEMMA TypeStep == IInv /\ Next => TypeOK'
<1> SUFFICES ASSUME IInv, NEW t \in Threads, Step(t) PROVE TypeOK'
  BY DEF Next
<1> USE MaxVersionAssumption, LocationFacts
    DEF IInv, TypeOK, Move, NewGuard, DropGuard, Unread, Pages,
        TakeInnerExclusive, TakeInnerShared, DropInnerExclusive, DropInnerShared
<1>1. CASE OptimisticOrRestart(t)
  BY <1>1 DEF OptimisticOrRestart
<1>2. CASE Validate(t)
  BY <1>2 DEF Validate
<1>3. CASE DropOptimistic(t)
  BY <1>3 DEF DropOptimistic
<1>4. ASSUME NEW w \in Words, OptimisticRead(t, w) PROVE TypeOK'
  BY <1>4 DEF OptimisticRead
<1>5. CASE LockExclusive(t)
  BY <1>5 DEF LockExclusive
<1>6. CASE ClaimWriterBit(t)
  BY <1>6 DEF ClaimWriterBit
<1>7. CASE AcquireExclusive(t)
  BY <1>7 DEF AcquireExclusive
<1>8. CASE EnterExclusive(t)
  BY <1>8 DEF EnterExclusive, EnterExclusiveVersion, CanAdvanceReadableVersion
<1>9. CASE EnterOverflow(t)
  BY <1>9 DEF EnterOverflow
<1>10. ASSUME NEW w \in Words, NEW val \in Values, Write(t, w, val) PROVE TypeOK'
  BY <1>10 DEF Write
<1>11. CASE PublishVersion(t)
  <2>1. guard[t] \in 0..MaxVersion /\ guard[t] % 2 = 1 /\ guard[t] < MaxVersion
    BY <1>11 DEF PublishVersion, VersionInv
  <2>2. ExitExclusiveVersion(guard[t]) \in 0..MaxVersion
    BY <2>1, VersionArithmetic
  <2> QED
    BY <1>11, <2>2 DEF PublishVersion
<1>12. CASE ReleaseExclusive(t)
  BY <1>12 DEF ReleaseExclusive
<1>13. CASE LockShared(t)
  BY <1>13 DEF LockShared
<1>14. CASE AcquireShared(t)
  BY <1>14 DEF AcquireShared
<1>15. CASE EnterShared(t)
  BY <1>15 DEF EnterShared
<1>16. CASE ReleaseShared(t)
  BY <1>16 DEF ReleaseShared
<1>17. CASE UpgradeToExclusive(t)
  BY <1>17 DEF UpgradeToExclusive
<1>18. CASE AcquireUpgrade(t)
  BY <1>18 DEF AcquireUpgrade
<1>19. CASE EnterUpgrade(t)
  BY <1>19 DEF EnterUpgrade, EnterExclusiveVersion, CanAdvanceReadableVersion
<1>20. CASE AbandonUpgrade(t)
  BY <1>20 DEF AbandonUpgrade
<1>21. CASE UpgradeToShared(t)
  BY <1>21 DEF UpgradeToShared
<1>22. CASE AcquireUpgradeShared(t)
  BY <1>22 DEF AcquireUpgradeShared
<1>23. CASE EnterUpgradeShared(t)
  BY <1>23 DEF EnterUpgradeShared
<1>24. CASE AbandonUpgradeShared(t)
  BY <1>24 DEF AbandonUpgradeShared
<1> QED
  BY <1>1, <1>2, <1>3, <1>4, <1>5, <1>6, <1>7, <1>8, <1>9, <1>10, <1>11, <1>12,
     <1>13, <1>14, <1>15, <1>16, <1>17, <1>18, <1>19, <1>20, <1>21, <1>22, <1>23, <1>24 DEF Step

\* Every step moves a thread into or out of the inner lock together with its
\* location, and nobody becomes an owner while readers are inside.
LEMMA LockStep == IInv /\ Next => LockInv'
<1> SUFFICES ASSUME IInv, NEW t \in Threads, Step(t) PROVE LockInv'
  BY DEF Next
<1> USE NoThreadAssumption, LocationFacts
    DEF IInv, TypeOK, LockInv, Move, TakeInnerExclusive, TakeInnerShared,
        DropInnerExclusive, DropInnerShared
<1>1. CASE OptimisticOrRestart(t)
  BY <1>1 DEF OptimisticOrRestart
<1>2. CASE Validate(t)
  BY <1>2 DEF Validate
<1>3. CASE DropOptimistic(t)
  BY <1>3 DEF DropOptimistic
<1>4. ASSUME NEW w \in Words, OptimisticRead(t, w) PROVE LockInv'
  BY <1>4 DEF OptimisticRead
<1>5. CASE LockExclusive(t)
  BY <1>5 DEF LockExclusive
<1>6. CASE ClaimWriterBit(t)
  BY <1>6 DEF ClaimWriterBit
<1>7. CASE AcquireExclusive(t)
  BY <1>7 DEF AcquireExclusive
<1>8. CASE EnterExclusive(t)
  BY <1>8 DEF EnterExclusive
<1>9. CASE EnterOverflow(t)
  BY <1>9 DEF EnterOverflow
<1>10. ASSUME NEW w \in Words, NEW val \in Values, Write(t, w, val) PROVE LockInv'
  BY <1>10 DEF Write
<1>11. CASE PublishVersion(t)
  BY <1>11 DEF PublishVersion
<1>12. CASE ReleaseExclusive(t)
  BY <1>12 DEF ReleaseExclusive
<1>13. CASE LockShared(t)
  BY <1>13 DEF LockShared
<1>14. CASE AcquireShared(t)
  BY <1>14 DEF AcquireShared
<1>15. CASE EnterShared(t)
  BY <1>15 DEF EnterShared
<1>16. CASE ReleaseShared(t)
  BY <1>16 DEF ReleaseShared
<1>17. CASE UpgradeToExclusive(t)
  BY <1>17 DEF UpgradeToExclusive
<1>18. CASE AcquireUpgrade(t)
  BY <1>18 DEF AcquireUpgrade
<1>19. CASE EnterUpgrade(t)
  BY <1>19 DEF EnterUpgrade
<1>20. CASE AbandonUpgrade(t)
  BY <1>20 DEF AbandonUpgrade
<1>21. CASE UpgradeToShared(t)
  BY <1>21 DEF UpgradeToShared
<1>22. CASE AcquireUpgradeShared(t)
  BY <1>22 DEF AcquireUpgradeShared
<1>23. CASE EnterUpgradeShared(t)
  BY <1>23 DEF EnterUpgradeShared
<1>24. CASE AbandonUpgradeShared(t)
  BY <1>24 DEF AbandonUpgradeShared
<1> QED
  BY <1>1, <1>2, <1>3, <1>4, <1>5, <1>6, <1>7, <1>8, <1>9, <1>10, <1>11, <1>12,
     <1>13, <1>14, <1>15, <1>16, <1>17, <1>18, <1>19, <1>20, <1>21, <1>22, <1>23, <1>24 DEF Step

\* Only EnterExclusive and EnterUpgrade set the exclusive bit, under the inner
\* lock, and only their thread's PublishVersion clears it.
LEMMA VersionStep == IInv /\ Next => VersionInv'
<1> SUFFICES ASSUME IInv, NEW t \in Threads, Step(t) PROVE VersionInv'
  BY DEF Next
<1> USE MaxVersionAssumption, NoThreadAssumption, LocationFacts
    DEF IInv, TypeOK, VersionInv, Move, NewGuard, DropGuard
<1>1. CASE OptimisticOrRestart(t)
  BY <1>1 DEF OptimisticOrRestart
<1>2. CASE Validate(t)
  BY <1>2 DEF Validate
<1>3. CASE DropOptimistic(t)
  BY <1>3 DEF DropOptimistic
<1>4. ASSUME NEW w \in Words, OptimisticRead(t, w) PROVE VersionInv'
  BY <1>4 DEF OptimisticRead
<1>5. CASE LockExclusive(t)
  BY <1>5 DEF LockExclusive
<1>6. CASE ClaimWriterBit(t)
  BY <1>6 DEF ClaimWriterBit
<1>7. CASE AcquireExclusive(t)
  BY <1>7 DEF AcquireExclusive
<1>8. CASE EnterExclusive(t)
  <2>1. pc[t] = "locked" /\ version <= MaxVersion - 2 /\ version \in Nat
    BY <1>8 DEF EnterExclusive, CanAdvanceReadableVersion
  <2>2. \A u \in Threads : pc[u] # "exclusive"
    BY <2>1 DEF LockInv
  <2>3. version % 2 = 0
    BY <2>1, <2>2, VersionArithmetic
  <2>4. version' = version + 1 /\ guard'[t] = version + 1 /\ (version + 1) % 2 = 1
    BY <1>8, <2>1, <2>3, VersionArithmetic DEF EnterExclusive
  <2>5. pc'[t] = "exclusive" /\ \A u \in Threads : pc'[u] = "exclusive" => u = t
    BY <1>8, <2>2 DEF EnterExclusive
  <2> HIDE DEF IInv
  <2>6. version' < MaxVersion
    BY <2>1, <2>4
  <2> QED
    BY <2>4, <2>5, <2>6
<1>9. CASE EnterOverflow(t)
  BY <1>9 DEF EnterOverflow
<1>10. ASSUME NEW w \in Words, NEW val \in Values, Write(t, w, val) PROVE VersionInv'
  BY <1>10 DEF Write
<1>11. CASE PublishVersion(t)
  <2>1. pc[t] = "exclusive" /\ version = guard[t] /\ guard[t] \in Nat /\ guard[t] % 2 = 1
    BY <1>11 DEF PublishVersion
  <2>2. version' % 2 = 0
    BY <1>11, <2>1, VersionArithmetic DEF PublishVersion
  <2>3. \A u \in Threads : pc'[u] # "exclusive"
    BY <1>11, <2>1 DEF PublishVersion, LockInv
  <2> QED
    BY <2>2, <2>3
<1>12. CASE ReleaseExclusive(t)
  BY <1>12 DEF ReleaseExclusive
<1>13. CASE LockShared(t)
  BY <1>13 DEF LockShared
<1>14. CASE AcquireShared(t)
  BY <1>14 DEF AcquireShared
<1>15. CASE EnterShared(t)
  BY <1>15 DEF EnterShared
<1>16. CASE ReleaseShared(t)
  BY <1>16 DEF ReleaseShared
<1>17. CASE UpgradeToExclusive(t)
  BY <1>17 DEF UpgradeToExclusive
<1>18. CASE AcquireUpgrade(t)
  BY <1>18 DEF AcquireUpgrade
<1>19. CASE EnterUpgrade(t)
  <2>1. pc[t] = "upLocked" /\ version = guard[t] /\ version <= MaxVersion - 2 /\ version \in Nat
    BY <1>19 DEF EnterUpgrade, CanAdvanceReadableVersion, SnapshotStillValid
  <2>2. \A u \in Threads : pc[u] # "exclusive"
    BY <2>1 DEF LockInv
  <2>3. version % 2 = 0
    BY <2>1, <2>2, VersionArithmetic
  <2>4. version' = version + 1 /\ guard'[t] = version + 1 /\ (version + 1) % 2 = 1
    BY <1>19, <2>1, <2>3, VersionArithmetic DEF EnterUpgrade
  <2>5. pc'[t] = "exclusive" /\ \A u \in Threads : pc'[u] = "exclusive" => u = t
    BY <1>19, <2>2 DEF EnterUpgrade
  <2> HIDE DEF IInv
  <2>6. version' < MaxVersion
    BY <2>1, <2>4
  <2> QED
    BY <2>4, <2>5, <2>6
<1>20. CASE AbandonUpgrade(t)
  BY <1>20 DEF AbandonUpgrade
<1>21. CASE UpgradeToShared(t)
  BY <1>21 DEF UpgradeToShared
<1>22. CASE AcquireUpgradeShared(t)
  BY <1>22 DEF AcquireUpgradeShared
<1>23. CASE EnterUpgradeShared(t)
  BY <1>23 DEF EnterUpgradeShared
<1>24. CASE AbandonUpgradeShared(t)
  BY <1>24 DEF AbandonUpgradeShared
<1> QED
  BY <1>1, <1>2, <1>3, <1>4, <1>5, <1>6, <1>7, <1>8, <1>9, <1>10, <1>11, <1>12,
     <1>13, <1>14, <1>15, <1>16, <1>17, <1>18, <1>19, <1>20, <1>21, <1>22, <1>23, <1>24 DEF Step

\* A read guard stays truthful: the version only grows, and the page changes
\* only at an odd version, which no read guard carries.
LEMMA GuardStep == IInv /\ Next => GuardInv'
<1> SUFFICES ASSUME IInv, NEW t \in Threads, Step(t) PROVE GuardInv'
  BY DEF Next
<1> USE MaxVersionAssumption, LocationFacts
    DEF IInv, TypeOK, GuardInv, GuardOk, Move, NewGuard, DropGuard, Unread, Pages,
        SnapshotStillValid
<1>1. CASE OptimisticOrRestart(t)
  <2>1. version \in Nat /\ version % 2 = 0
    BY <1>1, VersionArithmetic DEF OptimisticOrRestart, VersionIsExclusive
  <2>2. GuardOk(t)'
    BY <1>1, <2>1 DEF OptimisticOrRestart
  <2>3. \A u \in Threads \ {t} : GuardOk(u)'
    BY <1>1 DEF OptimisticOrRestart
  <2> QED
    BY <2>2, <2>3
<1>2. CASE Validate(t)
  BY <1>2 DEF Validate
<1>3. CASE DropOptimistic(t)
  BY <1>3 DEF DropOptimistic
<1>4. ASSUME NEW w \in Words, OptimisticRead(t, w) PROVE GuardInv'
  BY <1>4 DEF OptimisticRead
<1>5. CASE LockExclusive(t)
  BY <1>5 DEF LockExclusive
<1>6. CASE ClaimWriterBit(t)
  BY <1>6 DEF ClaimWriterBit
<1>7. CASE AcquireExclusive(t)
  BY <1>7 DEF AcquireExclusive
<1>8. CASE EnterExclusive(t)
  <2>1. pc[t] = "locked" /\ version \in Nat /\ version % 2 = 0
    BY <1>8, VersionArithmetic DEF EnterExclusive, LockInv, VersionInv
  <2>2. \A u \in Threads : pc[u] # "shared" /\ (u # t => pc'[u] = pc[u])
    BY <1>8, <2>1 DEF EnterExclusive, LockInv
  <2>3. version' = version + 1
    BY <1>8, <2>1, VersionArithmetic DEF EnterExclusive
  <2>4. \A u \in Threads : pc'[u] \in ReadGuardHolders =>
           u # t /\ guard'[u] = guard[u] /\ seen'[u] = seen[u] /\ snap'[u] = snap[u]
    BY <1>8 DEF EnterExclusive
  <2>5. ASSUME NEW u \in Threads, pc'[u] \in ReadGuardHolders PROVE GuardOk(u)'
    <3>1. /\ pc'[u] = pc[u] /\ pc'[u] # "shared"
          /\ guard'[u] = guard[u] /\ seen'[u] = seen[u] /\ snap'[u] = snap[u]
      BY <2>2, <2>4, <2>5
    <3>2. guard[u] \in Nat /\ guard[u] % 2 = 0 /\ guard[u] <= version
      BY <2>5, <3>1
    <3>3. pc[u] = "validated" => \A w \in Words : seen[u][w] \in {NotRead, snap[u][w]}
      OBVIOUS
    <3> HIDE DEF IInv
    <3>4. guard'[u] <= version' /\ guard'[u] # version'
      BY <2>1, <2>3, <3>1, <3>2
    <3> QED
      BY <3>1, <3>2, <3>3, <3>4
  <2> QED
    BY <2>5
<1>9. CASE EnterOverflow(t)
  BY <1>9 DEF EnterOverflow
<1>10. ASSUME NEW w \in Words, NEW val \in Values, Write(t, w, val) PROVE GuardInv'
  <2>1. version % 2 = 1
    BY <1>10 DEF Write, VersionInv
  <2>2. \A u \in Threads : pc[u] \in ReadGuardHolders => version # guard[u]
    BY <2>1
  <2> QED
    BY <1>10, <2>2 DEF Write
<1>11. CASE PublishVersion(t)
  <2>1. pc[t] = "exclusive" /\ version = guard[t] /\ version \in Nat /\ version % 2 = 1
    BY <1>11 DEF PublishVersion, VersionInv
  <2>2. \A u \in Threads : pc[u] # "shared" /\ (u # t => pc'[u] = pc[u])
    BY <1>11, <2>1 DEF PublishVersion, LockInv
  <2>3. version' = version + 1
    BY <1>11, <2>1, VersionArithmetic DEF PublishVersion
  <2>4. \A u \in Threads : pc'[u] \in ReadGuardHolders =>
           u # t /\ guard'[u] = guard[u] /\ seen'[u] = seen[u] /\ snap'[u] = snap[u]
    BY <1>11 DEF PublishVersion
  <2>5. ASSUME NEW u \in Threads, pc'[u] \in ReadGuardHolders PROVE GuardOk(u)'
    <3>1. /\ pc'[u] = pc[u] /\ pc'[u] # "shared"
          /\ guard'[u] = guard[u] /\ seen'[u] = seen[u] /\ snap'[u] = snap[u]
      BY <2>2, <2>4, <2>5
    <3>2. guard[u] \in Nat /\ guard[u] % 2 = 0 /\ guard[u] <= version
      BY <2>5, <3>1
    <3>3. pc[u] = "validated" => \A w \in Words : seen[u][w] \in {NotRead, snap[u][w]}
      OBVIOUS
    <3> HIDE DEF IInv
    <3>4. guard'[u] <= version' /\ guard'[u] # version'
      BY <2>1, <2>3, <3>1, <3>2
    <3> QED
      BY <3>1, <3>2, <3>3, <3>4
  <2> QED
    BY <2>5
<1>12. CASE ReleaseExclusive(t)
  BY <1>12 DEF ReleaseExclusive
<1>13. CASE LockShared(t)
  BY <1>13 DEF LockShared
<1>14. CASE AcquireShared(t)
  BY <1>14 DEF AcquireShared
<1>15. CASE EnterShared(t)
  <2>1. version \in Nat /\ version % 2 = 0
    BY <1>15, VersionArithmetic DEF EnterShared, LockInv, VersionInv
  <2>2. GuardOk(t)'
    BY <1>15, <2>1 DEF EnterShared
  <2>3. \A u \in Threads \ {t} : GuardOk(u)'
    BY <1>15 DEF EnterShared
  <2> QED
    BY <2>2, <2>3
<1>16. CASE ReleaseShared(t)
  BY <1>16 DEF ReleaseShared
<1>17. CASE UpgradeToExclusive(t)
  BY <1>17 DEF UpgradeToExclusive
<1>18. CASE AcquireUpgrade(t)
  BY <1>18 DEF AcquireUpgrade
<1>19. CASE EnterUpgrade(t)
  <2>1. pc[t] = "upLocked" /\ version = guard[t] /\ version \in Nat /\ version % 2 = 0
    BY <1>19, VersionArithmetic DEF EnterUpgrade, LockInv, VersionInv
  <2>2. \A u \in Threads : pc[u] # "shared" /\ (u # t => pc'[u] = pc[u])
    BY <1>19, <2>1 DEF EnterUpgrade, LockInv
  <2>3. version' = version + 1
    BY <1>19, <2>1, VersionArithmetic DEF EnterUpgrade
  <2>4. \A u \in Threads : pc'[u] \in ReadGuardHolders =>
           u # t /\ guard'[u] = guard[u] /\ seen'[u] = seen[u] /\ snap'[u] = snap[u]
    BY <1>19 DEF EnterUpgrade
  <2>5. ASSUME NEW u \in Threads, pc'[u] \in ReadGuardHolders PROVE GuardOk(u)'
    <3>1. /\ pc'[u] = pc[u] /\ pc'[u] # "shared"
          /\ guard'[u] = guard[u] /\ seen'[u] = seen[u] /\ snap'[u] = snap[u]
      BY <2>2, <2>4, <2>5
    <3>2. guard[u] \in Nat /\ guard[u] % 2 = 0 /\ guard[u] <= version
      BY <2>5, <3>1
    <3>3. pc[u] = "validated" => \A w \in Words : seen[u][w] \in {NotRead, snap[u][w]}
      OBVIOUS
    <3> HIDE DEF IInv
    <3>4. guard'[u] <= version' /\ guard'[u] # version'
      BY <2>1, <2>3, <3>1, <3>2
    <3> QED
      BY <3>1, <3>2, <3>3, <3>4
  <2> QED
    BY <2>5
<1>20. CASE AbandonUpgrade(t)
  BY <1>20 DEF AbandonUpgrade
<1>21. CASE UpgradeToShared(t)
  BY <1>21 DEF UpgradeToShared
<1>22. CASE AcquireUpgradeShared(t)
  BY <1>22 DEF AcquireUpgradeShared
<1>23. CASE EnterUpgradeShared(t)
  BY <1>23 DEF EnterUpgradeShared
<1>24. CASE AbandonUpgradeShared(t)
  BY <1>24 DEF AbandonUpgradeShared
<1> QED
  BY <1>1, <1>2, <1>3, <1>4, <1>5, <1>6, <1>7, <1>8, <1>9, <1>10, <1>11, <1>12,
     <1>13, <1>14, <1>15, <1>16, <1>17, <1>18, <1>19, <1>20, <1>21, <1>22, <1>23, <1>24 DEF Step

\* A stuttering step changes nothing the invariant speaks of.
LEMMA StutterInv == IInv /\ UNCHANGED vars => IInv'
BY DEF vars, IInv, TypeOK, LockInv, VersionInv, GuardInv, GuardOk

\* The conjunction of types, lock ownership, version discipline and guard
\* truthfulness is an invariant of the latch.
THEOREM Invariance == Spec => []IInv
<1>1. IInv /\ [Next]_vars => IInv'
  BY TypeStep, LockStep, VersionStep, GuardStep, StutterInv DEF IInv
<1> QED
  BY InitInv, <1>1, PTL DEF Spec

\* Type correctness: in particular the version word never leaves its range.
THEOREM TypeCorrect == Spec => []TypeOK
BY Invariance, PTL DEF IInv

\* Mutual exclusion: an exclusive guard excludes every other guard that holds
\* the inner lock, for any number of threads.
THEOREM MutualExclusion == Spec => []ExclusiveIsAlone
<1>1. IInv => ExclusiveIsAlone
  <2> SUFFICES ASSUME IInv, NEW t \in Threads, pc[t] = "exclusive"
               PROVE  /\ version = guard[t] /\ VersionIsExclusive(version)
                      /\ \A u \in Threads \ {t} :
                             pc[u] \notin ExclusiveHolders \union SharedHolders
    BY DEF ExclusiveIsAlone
  <2>1. version = guard[t] /\ VersionIsExclusive(version)
    BY DEF IInv, VersionInv, VersionIsExclusive
  <2>2. writer = t /\ readers = {}
    BY LocationFacts DEF IInv, LockInv
  <2> QED
    BY <2>1, <2>2, LocationFacts DEF IInv, LockInv
<1> QED
  BY Invariance, <1>1, PTL

\* Optimistic reads that validate are never torn and never stale.
THEOREM OptimisticConsistency == Spec => []ValidatedReadsAreASnapshot
<1>1. IInv => ValidatedReadsAreASnapshot
  BY DEF IInv, GuardInv, GuardOk, ValidatedReadsAreASnapshot
<1> QED
  BY Invariance, <1>1, PTL

\* A shared section sees one version and one page from start to end.
THEOREM SharedStability == Spec => []SharedSectionIsStable
<1>1. IInv => SharedSectionIsStable
  <2> SUFFICES ASSUME IInv, NEW t \in Threads, pc[t] = "shared"
               PROVE  /\ version = guard[t] /\ ~VersionIsExclusive(version)
                      /\ page = snap[t]
                      /\ \A w \in Words : seen[t][w] \in {NotRead, page[w]}
    BY DEF SharedSectionIsStable
  <2>1. GuardOk(t) /\ pc[t] \in ReadGuardHolders
    BY LocationFacts DEF IInv, GuardInv
  <2>2. version = guard[t] /\ guard[t] % 2 = 0
    BY <2>1 DEF GuardOk
  <2>3. page = snap[t] /\ \A w \in Words : seen[t][w] \in {NotRead, snap[t][w]}
    BY <2>1, <2>2 DEF GuardOk
  <2> QED
    BY <2>2, <2>3 DEF VersionIsExclusive
<1> QED
  BY Invariance, <1>1, PTL

\* The release-time overflow assertion never fires.
THEOREM NoReleaseOverflow == Spec => []ReleaseNeverOverflows
<1>1. IInv => ReleaseNeverOverflows
  <2> SUFFICES ASSUME IInv, NEW t \in Threads, pc[t] = "exclusive"
               PROVE  ExclusiveBaseVersion(guard[t]) + 2 <= MaxVersion
    BY DEF ReleaseNeverOverflows
  <2>1. guard[t] \in Nat
    BY MaxVersionAssumption DEF IInv, TypeOK
  <2>2. guard[t] % 2 = 1 /\ guard[t] < MaxVersion
    BY DEF IInv, VersionInv
  <2>3. ExclusiveBaseVersion(guard[t]) = guard[t] - 1
    BY <2>1, <2>2 DEF ExclusiveBaseVersion
  <2> QED
    BY <2>1, <2>2, <2>3, MaxVersionAssumption
<1> QED
  BY Invariance, <1>1, PTL

\* A successful upgrade finds the page of its optimistic snapshot.
THEOREM UpgradeSoundness == Spec => UpgradeSeesItsSnapshot
<1> DEFINE Sound(t) == pc[t] = "upLocked" /\ pc'[t] = "exclusive" =>
               /\ page = snap[t]
               /\ \A w \in Words : seen[t][w] \in {NotRead, page[w]}
<1>1. ASSUME IInv, Next PROVE \A t \in Threads : Sound(t)
  <2> SUFFICES ASSUME NEW t \in Threads, pc[t] = "upLocked", pc'[t] = "exclusive"
               PROVE  /\ page = snap[t]
                      /\ \A w \in Words : seen[t][w] \in {NotRead, page[w]}
    OBVIOUS
  <2>1. PICK u \in Threads : Step(u)
    BY <1>1 DEF Next
  <2>2. EnterUpgrade(t)
    <3> USE DEF IInv, TypeOK, Move
    <3>1. u = t
      BY <1>1, <2>1 DEF Step, OptimisticOrRestart, Validate, DropOptimistic, OptimisticRead,
         LockExclusive, ClaimWriterBit, AcquireExclusive, EnterExclusive, EnterOverflow,
         Write, PublishVersion, ReleaseExclusive, LockShared, AcquireShared, EnterShared,
         ReleaseShared, UpgradeToExclusive, AcquireUpgrade, EnterUpgrade, AbandonUpgrade,
         UpgradeToShared, AcquireUpgradeShared, EnterUpgradeShared, AbandonUpgradeShared
    <3> QED
      BY <1>1, <2>1, <3>1, LocationFacts DEF Step, OptimisticOrRestart, Validate,
         DropOptimistic, OptimisticRead, LockExclusive, ClaimWriterBit,
         AcquireExclusive, EnterExclusive, EnterOverflow, Write, PublishVersion,
         ReleaseExclusive, LockShared, AcquireShared, EnterShared, ReleaseShared,
         UpgradeToExclusive, AcquireUpgrade, AbandonUpgrade, UpgradeToShared,
         AcquireUpgradeShared, EnterUpgradeShared, AbandonUpgradeShared
  <2>3. version = guard[t] /\ GuardOk(t) /\ pc[t] \in ReadGuardHolders
    BY <1>1, <2>2, LocationFacts DEF EnterUpgrade, SnapshotStillValid, IInv, GuardInv
  <2> QED
    BY <2>3 DEF GuardOk
<1> HIDE DEF Sound
<1>2. IInv /\ [Next]_vars => [\A t \in Threads : Sound(t)]_vars
  BY <1>1
<1>3. Spec => [][\A t \in Threads : Sound(t)]_vars
  BY Invariance, <1>2, PTL DEF Spec
<1> QED
  BY <1>3 DEF Sound, UpgradeSeesItsSnapshot

\* The version word never goes back, and the page is written only under the
\* exclusive bit (the seqlock discipline validate relies on).
THEOREM SeqlockDiscipline == Spec => VersionDiscipline
<1> DEFINE Disciplined == /\ version' >= version
                          /\ page' # page => VersionIsExclusive(version)
<1>1. ASSUME IInv, Next PROVE Disciplined
  <2>1. PICK t \in Threads : Step(t)
    BY <1>1 DEF Next
  <2>2. version \in Nat /\ guard[t] \in Nat
    BY <1>1, MaxVersionAssumption DEF IInv, TypeOK
  <2>3. CASE EnterExclusive(t)
    BY <2>2, <2>3 DEF EnterExclusive, EnterExclusiveVersion
  <2>4. CASE EnterUpgrade(t)
    BY <2>2, <2>4 DEF EnterUpgrade, EnterExclusiveVersion, SnapshotStillValid
  <2>5. CASE PublishVersion(t)
    <3>1. version = guard[t] /\ version % 2 = 1
      BY <1>1, <2>5 DEF PublishVersion, Move, IInv, VersionInv
    <3> QED
      BY <2>2, <2>5, <3>1, VersionArithmetic DEF PublishVersion
  <2>6. CASE \E w \in Words, val \in Values : Write(t, w, val)
    <3>1. version % 2 = 1 /\ version' = version
      BY <1>1, <2>6 DEF Write, IInv, VersionInv
    <3> QED
      BY <2>2, <3>1 DEF VersionIsExclusive
  <2>7. CASE version' = version /\ page' = page
    BY <2>2, <2>7
  <2> QED
    BY <2>1, <2>3, <2>4, <2>5, <2>6, <2>7 DEF Step, OptimisticOrRestart, Validate,
       DropOptimistic, OptimisticRead, LockExclusive, ClaimWriterBit, AcquireExclusive,
       EnterOverflow, ReleaseExclusive, LockShared, AcquireShared, EnterShared,
       ReleaseShared, UpgradeToExclusive, AcquireUpgrade, AbandonUpgrade, UpgradeToShared,
       AcquireUpgradeShared, EnterUpgradeShared, AbandonUpgradeShared
<1> HIDE DEF Disciplined
<1>2. IInv /\ [Next]_vars => [Disciplined]_vars
  BY <1>1
<1>3. Spec => [][Disciplined]_vars
  BY Invariance, <1>2, PTL DEF Spec
<1> QED
  BY <1>3 DEF Disciplined, VersionDiscipline
=============================================================================
