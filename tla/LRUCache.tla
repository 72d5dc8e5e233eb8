------------------------------ MODULE LRUCache ------------------------------
(***************************************************************************)
(* The size-bounded least-recently-used cache of cache/lru.go, with the    *)
(* file it is saved to and loaded from.  Every operation holds the cache's *)
(* mutex and is one step.  Delete, Clear, SetIfAbsent and SetCapacity have *)
(* no caller in the program and are left out.                              *)
(*                                                                         *)
(* list has the entry used last in front; table is the set of keys that    *)
(* have an entry; size is a uint64, here of Width bits, that the code      *)
(* keeps by adding and subtracting, so it is kept that way here too.       *)
(***************************************************************************)
EXTENDS Integers, Sequences, SequencesExt

CONSTANTS Keys, Values,
          ValueSize,  \* Value.Size() of each value
          Capacity,   \* bytes the cache is limited to
          Width       \* bits of the size counter, 64 in the code

\* The counter is wide enough for the capacity and one value more; the modules
\* that use the cache assume it.
SizesFit ==
    /\ ValueSize \in [Values -> Nat]
    /\ Capacity \in Nat /\ Width \in Nat
    /\ \A v \in Values : Capacity + ValueSize[v] < 2 ^ Width

VARIABLES lru,   \* the cache: list, table and size
          file   \* the file: the items in it, and whether it was written in full

cacheVars == <<lru, file>>

Total(l) ==
    LET sum[n \in 0..Len(l)] == IF n = 0 THEN 0 ELSE sum[n - 1] + l[n].size
    IN  sum[Len(l)]
KeysOf(l) == {l[n].key : n \in DOMAIN l}

\* The element that the table has for key k, and the list without it.
Place(c, k) == CHOOSE n \in DOMAIN c.list : c.list[n].key = k
Find(c, k) == c.list[Place(c, k)]
Others(c, k) == IF k \in c.table THEN RemoveAt(c.list, Place(c, k)) ELSE c.list

NoFile == [whole |-> FALSE, items |-> <<>>]
EmptyCache == [list |-> <<>>, table |-> {}, size |-> 0]

\* checkCapacity: entries are taken from the back until size, which is counted
\* down with them, is within the capacity.
SizeWithout(c, n) ==
    (c.size - Total(SubSeq(c.list, Len(c.list) - n + 1, Len(c.list)))) % 2 ^ Width

FitsWithout(c, n) == SizeWithout(c, n) <= Capacity
CheckCapacity(c) ==
    LET n == CHOOSE n \in 0..Len(c.list) :
                FitsWithout(c, n) /\ \A m \in 0..(n - 1) : ~FitsWithout(c, m)
        kept == SubSeq(c.list, 1, Len(c.list) - n)
    IN  [list |-> kept,
         table |-> c.table \ KeysOf(SubSeq(c.list, Len(kept) + 1, Len(c.list))),
         size |-> SizeWithout(c, n)]

NewEntry(k, v) == [key |-> k, value |-> v, size |-> ValueSize[v]]

\* Mutant: updateInplace adds the new size without taking off the old one.
SizeAdded(c, k, v) == ValueSize[v]

\* The signed difference of sizes, converted to uint64.
SizeDiff(c, k, v) == (ValueSize[v] - Find(c, k).size) % 2 ^ Width

\* Set: updateInplace if the key is there, addNew if not; checkCapacity.
AfterSet(c, k, v) ==
    CheckCapacity(
        [list |-> <<NewEntry(k, v)>> \o Others(c, k),
         table |-> c.table \cup {k},
         size |-> (c.size + (IF k \in c.table THEN SizeDiff(c, k, v) ELSE ValueSize[v]))
                      % 2 ^ Width])

AfterGet(c, k) ==
    IF k \in c.table THEN [c EXCEPT !.list = <<Find(c, k)>> \o Others(c, k)] ELSE c

\* LoadItems into a new cache: each item of the file is set, first one first.
LoadedCache(items) ==
    LET load[n \in 0..Len(items)] ==
            IF n = 0 THEN EmptyCache ELSE AfterSet(load[n - 1], items[n][1], items[n][2])
    IN  load[Len(items)]

-----------------------------------------------------------------------------
TypeOK ==
    /\ lru.list \in Seq([key : Keys, value : Values, size : Nat])
    /\ lru.table \subseteq Keys
    /\ lru.size \in 0..(2 ^ Width - 1)
    /\ file \in [whole : BOOLEAN, items : Seq(Keys \X Values)]

Init == lru = EmptyCache /\ file = NoFile

Set(k, v) == lru' = AfterSet(lru, k, v) /\ UNCHANGED file

Get(k) == lru' = AfterGet(lru, k) /\ UNCHANGED file

\* SaveItemsToFile truncates the file first,
SaveBegin ==
    /\ file' = NoFile
    /\ UNCHANGED lru

\* then encodes the items, most recently used first.
SaveEnd ==
    /\ file' = [whole |-> TRUE,
                items |-> [n \in DOMAIN lru.list |-> <<lru.list[n].key, lru.list[n].value>>]]
    /\ UNCHANGED lru

\* A new process loads what the file holds; a file cut short yields nothing.
Reload == lru' = IF file.whole THEN LoadedCache(file.items) ELSE EmptyCache

-----------------------------------------------------------------------------
(* Properties *)

\* List, table and size agree, each key has one entry, and the capacity is
\* kept; so the back of the list that checkCapacity takes from is never missing,
\* and the unsigned counter has not wrapped.
CacheConsistent ==
    /\ lru.table = KeysOf(lru.list)
    /\ IsInjective([n \in DOMAIN lru.list |-> lru.list[n].key])
    /\ lru.size = Total(lru.list)
    /\ lru.size <= Capacity

\* Entries fall out from the least recently used end only, and no more of them
\* than the capacity demands: behind the entry just used, those that stay are
\* the front ones in their old order, and the next would not have fit.
EvictsLeastRecent ==
    lru'.list # <<>> /\ ~Reload =>
        LET old == Others(lru, Head(lru'.list).key)
            new == Tail(lru'.list)
        IN  /\ new = SubSeq(old, 1, Len(new))
            /\ Len(new) < Len(old) =>
                 Total(lru'.list) + old[Len(new) + 1].size > Capacity

\* A restart brings back every item of a file that was saved in full.
ReloadKeepsItems ==
    Reload /\ file.whole =>
        {<<e.key, e.value>> : e \in ToSet(lru'.list)} = ToSet(file.items)

\* After every operation list, table and size agree, what it evicted was the
\* oldest, and a restart has lost nothing that was saved.
CacheStep == CacheConsistent' /\ EvictsLeastRecent /\ ReloadKeepsItems
=============================================================================
