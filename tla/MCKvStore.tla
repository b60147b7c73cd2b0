------------------------------- MODULE MCKvStore -------------------------------
(* A small instance of KvStore: two pages, two keys on the first of them. *)
EXTENDS KvStore

CONSTANTS A, B

MCThreads == {A, B}
Solo == {A}
MCKeys == 1..3
MCPages == {1, 2}
MCPageOf == [k \in MCKeys |-> IF k <= 2 THEN 1 ELSE 2]

Mode(callers, strict, cleaner, power, fresh, kinds, puts_, calls_, crashes_) ==
    [callers |-> callers, strict |-> strict, cleaner |-> cleaner, power |-> power,
     unsynced |-> ~power, alone |-> TRUE, fresh |-> fresh, calls |-> kinds,
     puts |-> puts_, ncalls |-> calls_, crashes |-> crashes_]

MCModes ==
    { \* the cleaner, with crashes of either kind
      Mode(Solo, TRUE, TRUE, TRUE, FALSE, {}, 3, 0, 1),
      Mode(Solo, TRUE, TRUE, FALSE, FALSE, {}, 2, 0, 2),
      \* checkpoints by a caller that is alone, and syncs by one that is not
      Mode(Solo, TRUE, FALSE, TRUE, FALSE, {"checkpoint", "sync"}, 2, 1, 2),
      Mode(MCThreads, TRUE, FALSE, FALSE, FALSE, {"checkpoint", "sync"}, 2, 1, 1),
      \* relaxed puts, made durable by explicit calls
      Mode(Solo, FALSE, FALSE, TRUE, FALSE, {"flush_wal", "sync", "close"}, 2, 1, 1),
      \* a store's first opening
      Mode(Solo, TRUE, TRUE, FALSE, TRUE, {}, 2, 0, 0) }

\* Mutations and a checkpoint at the same time.
MCCheckpointRace ==
    {[Mode(MCThreads, TRUE, FALSE, FALSE, FALSE, {"checkpoint"}, 1, 1, 0) EXCEPT !.alone = FALSE]}
================================================================================
