-------------------------------- MODULE MCBTree --------------------------------
(***************************************************************************)
(* Instances of BTree.  A workload builds a tree alone, with `setup', and  *)
(* then lets the threads run.  A value is the room its entry takes in a    *)
(* leaf: leaves hold three units, so that splits of full leaves           *)
(* with one, two and three entries all happen.                             *)
(***************************************************************************)
EXTENDS BTree, TLC

CONSTANTS A, B

C(kind, key, val) == [kind |-> kind, key |-> key, val |-> val, hi |-> 0]
Ins(k, v) == C("insert", k, v)
Ups(k, v) == C("upsert", k, v)
Rem(k) == C("remove", k, 0)
Get(k) == C("lookup", k, 0)
Scan == C("scan", 0, 0)
RangeOf(kind, lo, hi) == [kind |-> kind, key |-> lo, val |-> 0, hi |-> hi]

Work(pre, a, b) ==
    [setup |-> pre, todo |-> (A :> a @@ B :> b), contend |-> FALSE, logged |-> FALSE, crashes |-> 0,
     misses |-> 0]
Logged(pre, a, n) ==
    [Work(pre, a, <<>>) EXCEPT !.logged = TRUE, !.crashes = n]

Big(k) == Ins(k, 3)
MCKeys == 1..7
MCPages == 1..14
MCThreads == {A, B}

Bigs(s) == [i \in 1..Len(s) |-> Big(s[i])]
Smalls(s) == [i \in 1..Len(s) |-> Ins(s[i], 1)]
Readers == {<<Get(2)>>, <<Scan>>, <<RangeOf("asc", 2, 5)>>}

\* Writers and readers: full leaves with one, three and two entries, up to a
\* split of the root's own separators.
Writers ==
    {Work(Bigs(<<1, 3>>), Bigs(<<2, 5>>), <<Big(4)>> \o r) : r \in Readers \cup {<<Ups(2, 3)>>}}
    \cup {Work(Bigs(<<1, 3, 5>>), Bigs(<<2, 4>>), r \o <<Big(6)>>) : r \in Readers}
    \cup {Work(Bigs(<<1, 2, 3, 4, 5, 6>>), <<Big(7)>>, r) : r \in Readers}
    \cup {Work(Smalls(<<1, 3, 5>>), <<Ins(2, 1), x>>, <<Ins(2, 2), Ins(6, 1)>>) :
             x \in {Ups(1, 2), Ins(4, 1), Get(3)}}
    \cup {Work(<<Ins(1, 1), Ins(4, 2)>>, <<Ins(2, 1), Ups(5, 2)>>, <<Ins(k, 1)>> \o r) :
             k \in {3, 6}, r \in Readers}

\* One thread removes, down to a collapse of the root; the other reads.
Removers ==
    {Work(Bigs(<<1, 2, 3, 4, 5>>), <<Rem(k), Rem(j)>>, r) :
        k \in 1..5, j \in {2, 4}, r \in Readers}
    \cup {Work(Bigs(<<1, 2, 3, 4, 5, 6>>), <<Rem(1), Rem(2)>>, r) : r \in Readers}
    \cup {Work(Smalls(<<1, 2, 3, 4, 5>>), <<Rem(k), Rem(j)>>, r) :
        k \in {2, 3, 5}, j \in {1, 4}, r \in Readers}
    \cup {Work(Smalls(<<1, 2, 3, 4, 5>>), <<Rem(2), Ins(2, 1), Ins(6, 1)>>, r) : r \in {<<Get(2)>>, <<Scan>>}}

\* Siblings that cannot be latched: underfull leaves stay.
Contended ==
    {[Work(Smalls(<<1, 2, 3, 4, 5>>), <<Rem(k), Rem(4)>>, r) EXCEPT !.contend = TRUE] :
        k \in {1, 2, 5}, r \in Readers}
    \cup {[Work(Bigs(<<1, 2, 3, 4, 5>>), <<Rem(k)>>, r) EXCEPT !.contend = TRUE] :
        k \in {1, 2, 5}, r \in Readers}

\* One thread, every prefix of the log; descending scans; crashes.
Sequential ==
    {Logged(Bigs(<<1, 2, 4, 5>>), <<o, p, RangeOf("desc", lo, hi)>>, 0) :
        o \in {Big(3), Big(6), Rem(1), Rem(4)}, p \in {Rem(2), Rem(5), Ups(4, 2), Big(6)},
        lo \in {1, 3}, hi \in {5, 8}}
    \cup {Logged(Smalls(<<1, 2, 3>>), <<Ins(4, 1), x, y, Scan>>, 1) :
        x \in {Ins(5, 1), Ups(3, 2), Get(4)}, y \in {Ups(1, 1), Get(3)}}
    \cup {Logged(Smalls(<<1, 2, 3, 4>>), <<Rem(k), Get(3), RangeOf("asc", 1, 4)>>, 1) : k \in {2, 4}}

\* A split that a crash cut short, and writes into the leaf it left behind.
MCCrashSplit ==
    {Logged(Smalls(<<1, 2, 3, 4, 5>>), <<Ins(6, 1), Ins(6, 2), Ins(7, 1)>>, 1)}

\* Children that cannot be pinned at once.  The readers that give up ask for
\* keys that are absent.
Missing(pre, a, b, n) == [Work(pre, a, b) EXCEPT !.misses = n]
Missed ==
    {Missing(Bigs(<<1, 3>>), Bigs(<<2>>), <<o>>, 2) :
        o \in {Big(4), Ups(5, 3), Get(7), RangeOf("asc", 6, 7), RangeOf("desc", 6, 7)}}
    \cup {Missing(Smalls(<<1, 2, 3, 4, 5>>), <<Rem(2)>>, <<o>>, 2) : o \in {Get(6), Scan}}

\* Readers that give up and should not have.
MCRestart ==
    {Missing(Bigs(<<1, 3>>), <<>>, <<o>>, 2) : o \in {Get(3), RangeOf("asc", 1, 3)}}

MCWorkloads == Writers \cup Removers \cup Contended \cup Sequential \cup Missed
================================================================================
