-------------------------------- MODULE MCWalLog -------------------------------
(* Small instances of WalLog: two pages, blocks of two short records, long   *)
(* records of two chunks, buffers of one to three records.                   *)
EXTENDS WalLog

CONSTANTS A, B

MCThreads == {A, B}
MCPages == {1, 2}

Mode(threads, pages, kinds, batch, records, spares, lsns, crashes_) ==
    [threads |-> threads, pages |-> pages, kinds |-> kinds, batch |-> batch,
     records |-> records, spares |-> spares, lsns |-> lsns, crashes |-> crashes_]

MCModes ==
    { \* every kind of record, one batch to a buffer
      Mode({A}, {1}, {"image", "patch", "bytes"}, 4, 2, 2, 3, 1),
      Mode({A}, {1}, {"note", "image", "patch"}, 2, 2, 2, 3, 1),
      Mode({A}, MCPages, {"image", "patch"}, 3, 3, 1, 4, 0),
      \* buffers of several batches
      Mode({A}, MCPages, {"image", "patch"}, 1, 2, 1, 3, 1),
      \* backpressure: buffers of one record, one of them to spare
      Mode({A}, {1}, {"note", "bytes"}, 1, 1, 1, 2, 1),
      Mode(MCThreads, MCPages, {"image", "patch"}, 1, 1, 1, 3, 0) }

\* A long record and another appender, with one buffer to spare.
MCChunkRace == {Mode(MCThreads, {1}, {"note", "image"}, 1, 1, 1, 3, 0)}
================================================================================
