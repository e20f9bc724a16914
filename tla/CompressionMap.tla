--------------------------- MODULE CompressionMap ---------------------------
(***************************************************************************)
(* The compression map of src/kernel/minimem_map.c: an xarray from page    *)
(* indices to slab-allocated entries, guarded by a rwsem (remove, drain    *)
(* and remove_all write-lock it, cluster decompression read-locks it) and  *)
(* by a spinlock (store, remove and drain), with lookups that take neither.*)
(*                                                                         *)
(* An entry is a slab object; its payload (algorithm, length, handle) is   *)
(* abstracted to the page index it was filled in for, which is what a      *)
(* reader relies on.  Freed objects may be handed out again at once, as    *)
(* kmem_cache_free without an RCU grace period allows.                     *)
(***************************************************************************)
EXTENDS Integers, FiniteSets

CONSTANTS
  Threads,    \* kernel threads calling into the map
  NumKeys,    \* page indices are 0 .. NumKeys - 1
  Objs,       \* slab objects of minimem_entry_cache
  MaxDrain,   \* largest max_entries a drain is called with
  None        \* no entry, no holder

Keys == 0 .. NumKeys - 1

ASSUME NumKeysAssumption  == NumKeys \in Nat
ASSUME MaxDrainAssumption == MaxDrain \in Nat
ASSUME ObjsAssumption     == IsFiniteSet(Objs) /\ None \notin Objs
ASSUME ThreadsAssumption  == None \notin Threads

VARIABLES
  entries,   \* [Keys -> Objs or None]: the xarray
  filled,    \* [Objs -> Keys or None]: the page an object was last filled for
  allocated, \* the slab objects allocated and not freed
  count,     \* map->count
  lock,      \* holder of the spinlock, or None
  writer,    \* holder of the rwsem for writing, or None
  readers,   \* holders of the rwsem for reading
  pc,        \* where each thread is in the operation it runs
  reg        \* its locals: the key or cursor, the entry and the entries left

vars == <<entries, filled, allocated, count, lock, writer, readers, pc, reg>>
table == <<entries, filled, allocated, count>>
locks == <<lock, writer, readers>>

NoReg == [key |-> 0, obj |-> None, left |-> 0]

Init ==
  /\ entries = [k \in Keys |-> None]
  /\ filled = [o \in Objs |-> None]
  /\ allocated = {}
  /\ count = 0
  /\ lock = None /\ writer = None /\ readers = {}
  /\ pc = [t \in Threads |-> "idle"]
  /\ reg = [t \in Threads |-> NoReg]

Goto(t, from, to) == pc[t] = from /\ pc' = [pc EXCEPT ![t] = to]

Locals(t, k, o, n) ==
  reg' = [reg EXCEPT ![t] = [key |-> k, obj |-> o, left |-> n]]

-----------------------------------------------------------------------------
(* minimem_map_store: allocate and fill an entry, publish it under the     *)
(* spinlock (replacing silently what was there), count it.  xa_store may   *)
(* fail to allocate, and the entry is freed again.                         *)

StoreAlloc(t, k) ==
  \E o \in Objs \ allocated :
    /\ Goto(t, "idle", "store")
    /\ allocated' = allocated \union {o}
    /\ filled' = [filled EXCEPT ![o] = k]
    /\ Locals(t, k, o, 0)
    /\ UNCHANGED <<entries, count, locks>>

StorePublish(t) ==
  /\ Goto(t, "store", "store_count")
  /\ lock = None /\ lock' = t
  /\ entries' = [entries EXCEPT ![reg[t].key] = reg[t].obj]
  /\ UNCHANGED <<filled, allocated, count, writer, readers, reg>>

StoreCount(t) ==
  /\ Goto(t, "store_count", "idle")
  /\ count' = count + 1
  /\ lock' = None
  /\ UNCHANGED <<entries, filled, allocated, writer, readers, reg>>

StoreFail(t) ==
  /\ Goto(t, "store", "idle")
  /\ lock = None
  /\ allocated' = allocated \ {reg[t].obj}
  /\ UNCHANGED <<entries, filled, count, locks, reg>>

-----------------------------------------------------------------------------
(* minimem_map_lookup: load the entry pointer, then copy what it points to.*)
(* The fault path calls it bare; the cluster path calls it with the rwsem  *)
(* read-locked.  A load that finds nothing returns -ENOENT.                *)

LookupLoad(t, k) ==
  /\ entries[k] # None
  /\ Goto(t, "idle", "lookup")
  /\ Locals(t, k, entries[k], 0)
  /\ UNCHANGED <<table, locks>>

LookupCopy(t) ==
  /\ Goto(t, "lookup", "idle")
  /\ UNCHANGED <<table, locks, reg>>

ReadLock(t) ==
  /\ writer = None
  /\ Goto(t, "idle", "reading")
  /\ readers' = readers \union {t}
  /\ UNCHANGED <<table, lock, writer, reg>>

LockedLoad(t, k) ==
  /\ entries[k] # None
  /\ Goto(t, "reading", "read_copy")
  /\ Locals(t, k, entries[k], 0)
  /\ UNCHANGED <<table, locks>>

LockedCopy(t) ==
  /\ Goto(t, "read_copy", "reading")
  /\ UNCHANGED <<table, locks, reg>>

ReadUnlock(t) ==
  /\ Goto(t, "reading", "idle")
  /\ readers' = readers \ {t}
  /\ UNCHANGED <<table, lock, writer, reg>>

-----------------------------------------------------------------------------
(* minimem_map_remove: erase, uncount and free one entry, with both locks. *)

\* Mutant: removal does not wait for the readers.
RemoveAmongReaders(t, k) ==
  /\ writer = None
  /\ Goto(t, "idle", "remove")
  /\ writer' = t
  /\ Locals(t, k, None, 0)
  /\ UNCHANGED <<table, lock, readers>>

RemoveLock(t, k) ==
  /\ writer = None /\ readers = {}
  /\ Goto(t, "idle", "remove")
  /\ writer' = t
  /\ Locals(t, k, None, 0)
  /\ UNCHANGED <<table, lock, readers>>

\* Mutants: the entry is freed and left in the map, or uncounted even if absent.
EvictDangling(k) ==
  /\ allocated' = allocated \ {entries[k]}
  /\ count' = count - (IF entries[k] = None THEN 0 ELSE 1)
  /\ UNCHANGED <<entries, filled>>

EvictUncounts(k) ==
  /\ entries' = [entries EXCEPT ![k] = None]
  /\ allocated' = allocated \ {entries[k]}
  /\ count' = count - 1
  /\ UNCHANGED filled

\* Take k's entry, if there is one, out of the map and free it.
Evict(k) ==
  /\ entries' = [entries EXCEPT ![k] = None]
  /\ allocated' = allocated \ {entries[k]}
  /\ count' = count - (IF entries[k] = None THEN 0 ELSE 1)
  /\ UNCHANGED filled

RemoveErase(t) ==
  /\ Goto(t, "remove", "idle")
  /\ lock = None
  /\ Evict(reg[t].key)
  /\ writer' = None
  /\ UNCHANGED <<lock, readers, reg>>

-----------------------------------------------------------------------------
(* minimem_map_drain: with the rwsem held for writing throughout, take the *)
(* entries out in index order, at most max_entries of them; the spinlock   *)
(* is dropped around the callback and taken back after it.                 *)

\* Mutant: the drain does not wait for the readers.
DrainAmongReaders(t, n) ==
  /\ writer = None
  /\ Goto(t, "idle", "drain")
  /\ writer' = t
  /\ Locals(t, 0, None, n)
  /\ UNCHANGED <<table, lock, readers>>

DrainLock(t, n) ==
  /\ writer = None /\ readers = {}
  /\ Goto(t, "idle", "drain")
  /\ writer' = t
  /\ Locals(t, 0, None, n)
  /\ UNCHANGED <<table, lock, readers>>

\* The next entry xa_for_each visits from index k on.
NextFrom(k) == {j \in Keys : j >= k /\ entries[j] # None}

\* Mutant: the drain ignores max_entries.
DrainUnlimited(t) ==
  LET next == NextFrom(reg[t].key)
  IN  /\ lock = None
      /\ Goto(t, "drain", "callback")
      /\ \E k \in next :
           /\ \A j \in next : k <= j
           /\ Evict(k)
           /\ Locals(t, k + 1, entries[k], reg[t].left - 1)
      /\ UNCHANGED locks

DrainErase(t) ==
  LET next == NextFrom(reg[t].key)
  IN  /\ lock = None
      /\ reg[t].left > 0
      /\ Goto(t, "drain", "callback")
      /\ \E k \in next :
           /\ \A j \in next : k <= j
           /\ Evict(k)
           /\ Locals(t, k + 1, entries[k], reg[t].left - 1)
      /\ UNCHANGED locks

\* The callback is over: take the spinlock again and go on iterating.
DrainCallback(t) ==
  /\ lock = None
  /\ Goto(t, "callback", "drain")
  /\ UNCHANGED <<table, locks, reg>>

DrainDone(t) ==
  /\ lock = None
  /\ reg[t].left = 0 \/ NextFrom(reg[t].key) = {}
  /\ Goto(t, "drain", "idle")
  /\ writer' = None
  /\ UNCHANGED <<table, lock, readers, reg>>

-----------------------------------------------------------------------------
(* minimem_map_remove_all, called by minimem_zswap_exit once every other   *)
(* caller is gone: free what is in the map and reset the count.            *)

RemoveAll ==
  /\ \A t \in Threads : pc[t] = "idle"
  /\ allocated' = allocated \ {entries[k] : k \in Keys}
  /\ entries' = [k \in Keys |-> None]
  /\ count' = 0
  /\ UNCHANGED <<filled, locks, pc, reg>>

-----------------------------------------------------------------------------
Store(t)      == (\E k \in Keys : StoreAlloc(t, k)) \/ StorePublish(t)
                   \/ StoreCount(t) \/ StoreFail(t)
Lookup(t)     == (\E k \in Keys : LookupLoad(t, k)) \/ LookupCopy(t)
LockedRead(t) == ReadLock(t) \/ (\E k \in Keys : LockedLoad(t, k))
                   \/ LockedCopy(t) \/ ReadUnlock(t)
Remove(t)     == (\E k \in Keys : RemoveLock(t, k)) \/ RemoveErase(t)
Drain(t)      == (\E n \in 0 .. MaxDrain : DrainLock(t, n)) \/ DrainErase(t)
                   \/ DrainCallback(t) \/ DrainDone(t)

Next ==
  \/ \E t \in Threads :
       Store(t) \/ Lookup(t) \/ LockedRead(t) \/ Remove(t) \/ Drain(t)
  \/ RemoveAll

Spec == Init /\ [][Next]_vars

-----------------------------------------------------------------------------
(* Properties.                                                             *)

\* Every variable keeps its type; a drain never owes a negative number of
\* entries (minimem_map_drain's "drained >= max_entries" test).
TypeOK ==
  /\ entries \in [Keys -> Objs \union {None}]
  /\ filled \in [Objs -> Keys \union {None}]
  /\ allocated \subseteq Objs
  /\ count \in Int
  /\ lock \in Threads \union {None}
  /\ writer \in Threads \union {None}
  /\ readers \subseteq Threads
  /\ pc \in [Threads -> {"idle", "store", "store_count", "lookup", "reading",
                          "read_copy", "remove", "drain", "callback"}]
  /\ reg \in [Threads -> [key : 0 .. NumKeys, obj : Objs \union {None},
                           left : 0 .. MaxDrain]]

\* An entry reachable from the xarray is allocated and was filled in for the
\* page it is found under, so no two pages share one and none is freed while
\* a lookup can still find it.
SlotsSound ==
  \A k \in Keys : entries[k] # None =>
    entries[k] \in allocated /\ filled[entries[k]] = k

\* A cluster decompression, which looks up with the rwsem read-locked, always
\* copies an entry that is still allocated and still the one of its page.
LockedReadSafe ==
  \A t \in Threads : pc[t] = "read_copy" =>
    reg[t].obj \in allocated /\ filled[reg[t].obj] = reg[t].key

\* Outside the store's critical section the count never falls below the number
\* of entries: minimem_zswap_drain_and_restore, which gives up when it reads
\* zero, misses no entry.
Occupied == {k \in Keys : entries[k] # None}
EntriesCounted == lock = None => Cardinality(Occupied) <= count

\* While anyone holds the rwsem for reading no page loses its entry, whatever
\* stores, removals and shrinker drains run (an entry may be replaced).
ReadersPinEntries ==
  [][readers # {} =>
       \A k \in Keys : entries[k] # None => entries'[k] # None]_vars

\* The map implements AtomicMap: whatever lock-free lookups, stores in several
\* steps and drains that drop the spinlock interleave, callers see pages put in
\* and taken out one at a time, and none taken out while the map is pinned.
Atomic == INSTANCE AtomicMap
            WITH Pages <- Keys, Callers <- Threads,
                 stored <- Occupied, pinned <- readers
ImplementsAtomicMap == Atomic!Spec
=============================================================================
