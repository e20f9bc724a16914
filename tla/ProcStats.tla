------------------------------ MODULE ProcStats ------------------------------
(***************************************************************************)
(* Per-process statistics, src/kernel/minimem_proc_stats.c: an xarray from *)
(* pid to an entry of counters, filled by whoever compresses or            *)
(* decompresses a page, collected by the scanner when the process is gone, *)
(* emptied when the statistics are switched off, and listed through        *)
(* debugfs under RCU and through sysfs without it.  One spinlock guards    *)
(* changes; lookups and the use of what they return take no lock.          *)
(***************************************************************************)
EXTENDS Integers, FiniteSets

CONSTANTS
  Pids,        \* numbers in the order of the xarray
  Gc, Toggle, Reader, \* minimem_proc_stats_gc, per_process_stats_store, a listing
  None,
  MaxEntries,  \* MINIMEM_PROC_STATS_MAX_ENTRIES
  MaxAllocs,   \* bound on the entries allocated in all
  Env          \* which environments act, a subset of EnvKinds

EnvKinds == {"oom",      \* kzalloc fails
             "store",    \* xa_store fails
             "race",     \* the statistics are switched off while in use
             "reuse",    \* a pid is given to a new process while its entry is collected
             "summary"}  \* stats_summary is read

Actors  == Pids \union {Gc, Toggle, Reader}
Entries == 1..MaxAllocs   \* every kzalloc returns a new one

ASSUME EnvAssumption == Env \subseteq EnvKinds
ASSUME PidsAssumption ==
  /\ Pids \subseteq Nat \ {0} /\ IsFiniteSet(Pids)
  /\ Cardinality({Gc, Toggle, Reader}) = 3 /\ {Gc, Toggle, Reader} \cap Pids = {}
  /\ None \notin Entries
ASSUME BoundAssumption == MaxEntries \in Nat \ {0} /\ MaxAllocs \in Nat

VARIABLES
  alive,    \* the pids with a process
  enabled,  \* mm_proc_stats_enabled
  scanning, \* scanner_enabled is set and the hook is ready
  slot,     \* [Pids -> Entries or None]: minimem_proc_stats_xa
  count,    \* mm_proc_stats_count
  lock,     \* minimem_proc_stats_lock, held over several steps by Toggle only
  allocs,   \* number of entries allocated so far
  heap,     \* the entries allocated and not freed
  limbo,    \* those given to kfree_rcu, and
  grace,    \* those of them that wait for Reader to leave its RCU section
  rcu,      \* Reader is in an RCU section
  pc,       \* where each actor is
  at,       \* [Actors -> the pid an iteration is at]
  ptr       \* [Actors -> the entry the actor has a pointer to, or None]

flags == <<enabled, scanning>>
store == <<slot, count, allocs>>
mem   == <<heap, limbo, grace, rcu>>
vars == <<alive, flags, store, lock, mem, pc, at, ptr>>

Init ==
  /\ alive = Pids /\ enabled = FALSE /\ scanning = FALSE
  /\ slot = [p \in Pids |-> None] /\ count = 0 /\ lock = FALSE
  /\ allocs = 0
  /\ heap = {} /\ limbo = {} /\ grace = {} /\ rcu = FALSE
  /\ pc = [a \in Actors |-> "idle"]
  /\ at = [a \in Actors |-> 0]
  /\ ptr = [a \in Actors |-> None]

Go(a, from, to) == pc[a] = from /\ pc' = [pc EXCEPT ![a] = to]

-----------------------------------------------------------------------------
(* minimem_proc_stats_compress and minimem_proc_stats_decompress of the     *)
(* running process, whose pid they use.                                     *)

Check(p) ==
  /\ p \in alive /\ enabled /\ Go(p, "idle", "find")
  /\ UNCHANGED <<alive, flags, store, lock, mem, at, ptr>>

Find(p) ==
  /\ slot[p] # None /\ Go(p, "find", "use")
  /\ ptr' = [ptr EXCEPT ![p] = slot[p]]
  /\ UNCHANGED <<alive, flags, store, lock, mem, at>>

\* minimem_proc_stats_alloc up to the lock: nothing more is tracked at the
\* limit or without memory.
GiveUp(p) ==
  /\ slot[p] = None /\ Go(p, "find", "idle")
  /\ count >= MaxEntries \/ "oom" \in Env
  /\ UNCHANGED <<alive, flags, store, lock, mem, at, ptr>>

Alloc(p) ==
  /\ slot[p] = None /\ count < MaxEntries /\ allocs < MaxAllocs
  /\ Go(p, "find", "store")
  /\ allocs' = allocs + 1
  /\ heap' = heap \union {allocs'}
  /\ ptr' = [ptr EXCEPT ![p] = allocs']
  /\ UNCHANGED <<alive, flags, slot, count, lock, limbo, grace, rcu, at>>

\* Mutant: the limit is not looked at again under the lock.
AtLimitUnlocked == FALSE

AtLimit == count >= MaxEntries

\* Mutant: the entry is not freed when the limit was reached in the meantime.
StoreLeaks(p) ==
  /\ ~lock /\ pc[p] = "store" /\ slot[p] = None
  /\ IF AtLimit
     THEN Go(p, "store", "idle") /\ ptr' = [ptr EXCEPT ![p] = None] /\ UNCHANGED <<slot, count, heap>>
     ELSE /\ Go(p, "store", "use")
          /\ slot' = [slot EXCEPT ![p] = ptr[p]] /\ count' = count + 1
          /\ UNCHANGED <<heap, ptr>>
  /\ UNCHANGED <<alive, flags, lock, allocs, limbo, grace, rcu, at>>

\* The pid has an entry already: the new one is freed, and the other loaded
\* again after the unlock, when it may be gone.
StoreFound(p) ==
  /\ slot[p] # None /\ heap' = heap \ {ptr[p]}
  /\ \/ Go(p, "store", "use") /\ ptr' = [ptr EXCEPT ![p] = slot[p]]
     \/ Go(p, "store", "idle") /\ ptr' = [ptr EXCEPT ![p] = None]
  /\ UNCHANGED <<slot, count>>

StoreRefused(p) ==
  /\ slot[p] = None /\ AtLimit /\ heap' = heap \ {ptr[p]}
  /\ Go(p, "store", "idle") /\ ptr' = [ptr EXCEPT ![p] = None]
  /\ UNCHANGED <<slot, count>>

\* That xa_store can fail is not looked at: the entry is counted, used, and
\* reachable from nowhere.
StoreNew(p) ==
  /\ slot[p] = None /\ ~AtLimit
  /\ Go(p, "store", "use")
  /\ \/ slot' = [slot EXCEPT ![p] = ptr[p]]
     \/ "store" \in Env /\ UNCHANGED slot
  /\ count' = count + 1
  /\ UNCHANGED <<heap, ptr>>

\* The rest of it, under the lock.
Store(p) ==
  /\ ~lock
  /\ StoreFound(p) \/ StoreRefused(p) \/ StoreNew(p)
  /\ UNCHANGED <<alive, flags, lock, allocs, limbo, grace, rcu, at>>

\* The counters are added to through the pointer, outside of any RCU section.
Use(p) ==
  /\ Go(p, "use", "idle")
  /\ ptr' = [ptr EXCEPT ![p] = None]
  /\ UNCHANGED <<alive, flags, store, lock, mem, at>>

-----------------------------------------------------------------------------
(* Processes *)

Exit(p) ==
  /\ p \in alive /\ pc[p] = "idle"
  /\ alive' = alive \ {p}
  /\ UNCHANGED <<flags, store, lock, mem, pc, at, ptr>>

\* The pid is given to a new process, which finds the old one's entry.
Reuse(p) ==
  /\ p \notin alive
  /\ pc[Gc] = "erase" /\ at[Gc] = p => "reuse" \in Env
  /\ alive' = alive \union {p}
  /\ UNCHANGED <<flags, store, lock, mem, pc, at, ptr>>

-----------------------------------------------------------------------------
(* Iterations: xa_for_each loads the next entry, and lets it go with the    *)
(* next one.                                                                *)

NextSlot(a, p) == p > at[a] /\ slot[p] # None /\ \A q \in Pids : q > at[a] /\ slot[q] # None => p <= q
NoneLeft(a) == ~ \E p \in Pids : NextSlot(a, p)

Load(a, p) ==
  /\ at' = [at EXCEPT ![a] = p]
  /\ ptr' = [ptr EXCEPT ![a] = slot[p]]

Done(a) ==
  /\ at' = [at EXCEPT ![a] = 0]
  /\ ptr' = [ptr EXCEPT ![a] = None]

\* minimem_proc_stats_gc, which only scanner_thread calls, once in each of its
\* cycles: none while the scanner is off or nothing could handle its markers.
GcBegin ==
  /\ scanning /\ enabled /\ Go(Gc, "idle", "scan")
  /\ UNCHANGED <<alive, flags, store, lock, mem, at, ptr>>

\* Mutant: the collection ends at the first process that lives.
GcNextOrStop(p) ==
  /\ NextSlot(Gc, p)
  /\ Go(Gc, "scan", IF p \in alive THEN "idle" ELSE "erase")
  /\ IF p \in alive THEN Done(Gc) ELSE Load(Gc, p)
  /\ UNCHANGED <<alive, flags, store, lock, mem>>

GcNext(p) ==
  /\ NextSlot(Gc, p) /\ Load(Gc, p)
  /\ Go(Gc, "scan", IF p \in alive THEN "scan" ELSE "erase")
  /\ UNCHANGED <<alive, flags, store, lock, mem>>

\* Mutant: the entry is freed at once.
GcEraseKfree ==
  /\ ~lock /\ Go(Gc, "erase", "scan")
  /\ slot' = [slot EXCEPT ![at[Gc]] = None] /\ count' = count - 1
  /\ heap' = heap \ {ptr[Gc]} /\ ptr' = [ptr EXCEPT ![Gc] = None]
  /\ UNCHANGED <<alive, flags, allocs, lock, limbo, grace, rcu, at>>

\* Mutant: the entry is erased without counting down.
GcEraseUncounted ==
  /\ ~lock /\ Go(Gc, "erase", "scan")
  /\ slot' = [slot EXCEPT ![at[Gc]] = None]
  /\ limbo' = limbo \union {ptr[Gc]} /\ ptr' = [ptr EXCEPT ![Gc] = None]
  /\ grace' = (IF rcu THEN grace \union {ptr[Gc]} ELSE grace)
  /\ UNCHANGED <<alive, flags, count, allocs, lock, heap, rcu, at>>

\* Between the look at the pid and the lock anything can happen; what is
\* erased is what the slot holds now, what is freed is what was loaded.
GcErase ==
  /\ ~lock /\ Go(Gc, "erase", "scan")
  /\ slot' = [slot EXCEPT ![at[Gc]] = None] /\ count' = count - 1
  /\ limbo' = limbo \union {ptr[Gc]} /\ ptr' = [ptr EXCEPT ![Gc] = None]
  /\ grace' = (IF rcu THEN grace \union {ptr[Gc]} ELSE grace)
  /\ UNCHANGED <<alive, flags, allocs, lock, heap, rcu, at>>

GcEnd ==
  /\ NoneLeft(Gc) /\ Go(Gc, "scan", "idle") /\ Done(Gc)
  /\ UNCHANGED <<alive, flags, store, lock, mem>>

\* An RCU grace period ends.
Reclaim ==
  /\ limbo \ grace # {}
  /\ heap' = heap \ (limbo \ grace) /\ limbo' = grace
  /\ UNCHANGED <<alive, flags, store, lock, grace, rcu, pc, at, ptr>>

-----------------------------------------------------------------------------
(* per_process_stats_store *)

Enable ==
  /\ ~enabled /\ pc[Toggle] = "idle"
  /\ enabled' = TRUE
  /\ UNCHANGED <<alive, scanning, store, lock, mem, pc, at, ptr>>

Disable ==
  /\ Go(Toggle, "idle", "lock")
  /\ enabled' = FALSE
  /\ UNCHANGED <<alive, scanning, store, lock, mem, at, ptr>>

\* scanner_enabled_store
SetScanner ==
  /\ scanning' = ~scanning
  /\ UNCHANGED <<alive, enabled, store, lock, mem, pc, at, ptr>>

\* Nothing waits for those who are past their look at enabled: without "race"
\* the environment does.
Quiet == \A a \in Actors \ {Toggle} : pc[a] = "idle"

DisableLock ==
  /\ ~lock /\ Go(Toggle, "lock", "erase")
  /\ Quiet \/ "race" \in Env
  /\ lock' = TRUE
  /\ UNCHANGED <<alive, flags, store, mem, at, ptr>>

DisableErase(p) ==
  /\ pc[Toggle] = "erase" /\ NextSlot(Toggle, p)
  /\ at' = [at EXCEPT ![Toggle] = p]
  /\ slot' = [slot EXCEPT ![p] = None]
  /\ heap' = heap \ {slot[p]}
  /\ UNCHANGED <<alive, flags, count, allocs, lock, limbo, grace, rcu, pc, ptr>>

DisableEnd ==
  /\ NoneLeft(Toggle) /\ Go(Toggle, "erase", "idle") /\ Done(Toggle)
  /\ count' = 0 /\ lock' = FALSE
  /\ UNCHANGED <<alive, flags, slot, allocs, mem>>

-----------------------------------------------------------------------------
(* A listing: debugfs per_process in an RCU section, sysfs stats_summary    *)
(* without one.                                                             *)

ListBegin ==
  /\ enabled /\ Go(Reader, "idle", "list")
  /\ rcu' = TRUE \/ ("summary" \in Env /\ rcu' = FALSE)
  /\ UNCHANGED <<alive, flags, store, lock, heap, limbo, grace, at, ptr>>

ListNext(p) ==
  /\ pc[Reader] = "list" /\ NextSlot(Reader, p) /\ Load(Reader, p)
  /\ UNCHANGED <<alive, flags, store, lock, mem, pc>>

ListEnd ==
  /\ NoneLeft(Reader) /\ Go(Reader, "list", "idle") /\ Done(Reader)
  /\ rcu' = FALSE /\ grace' = {}
  /\ UNCHANGED <<alive, flags, store, lock, heap, limbo>>

-----------------------------------------------------------------------------
Collect == GcBegin \/ (\E p \in Pids : GcNext(p)) \/ GcErase \/ GcEnd
Update(p) == Check(p) \/ Find(p) \/ GiveUp(p) \/ Alloc(p) \/ Store(p) \/ Use(p)
Switch == SetScanner \/ Enable \/ Disable \/ DisableLock \/ (\E p \in Pids : DisableErase(p)) \/ DisableEnd
List == ListBegin \/ (\E p \in Pids : ListNext(p)) \/ ListEnd

Next ==
  \/ \E p \in Pids : Update(p) \/ Exit(p) \/ Reuse(p)
  \/ Collect \/ Reclaim \/ Switch \/ List

Spec == Init /\ [][Next]_vars

\* The scanner's thread, while it scans, calls minimem_proc_stats_gc in every
\* cycle, and a collection that has begun goes on; whoever holds the lock does.
FairSpec ==
  /\ Spec /\ WF_vars(Collect)
  /\ WF_vars(DisableEnd \/ \E p \in Pids : DisableErase(p))

-----------------------------------------------------------------------------
(* Properties *)

\* No more than MaxEntries entries, however many processes come to the limit
\* at once.
TypeOK ==
  /\ alive \subseteq Pids
  /\ enabled \in BOOLEAN /\ scanning \in BOOLEAN /\ lock \in BOOLEAN /\ rcu \in BOOLEAN
  /\ slot \in [Pids -> Entries \union {None}]
  /\ count \in 0..MaxEntries
  /\ allocs \in 0..MaxAllocs
  /\ heap \subseteq Entries /\ limbo \subseteq heap /\ grace \subseteq limbo
  /\ pc \in [Actors -> {"idle", "find", "store", "use", "scan", "erase", "lock", "list"}]
  /\ at \in [Actors -> Pids \union {0}]
  /\ ptr \in [Actors -> Entries \union {None}]

\* mm_proc_stats_count, which limits the entries and is listed as
\* tracked_processes, is the number of entries.
CountExact == ~lock => count = Cardinality({p \in Pids : slot[p] # None})

\* Nobody has a pointer to an entry that was freed: an updater's entry is
\* its own process's, which the collector leaves alone, and a listing is in
\* the RCU section that the collector's kfree_rcu waits for.
NoUseAfterFree == \A a \in Actors : ptr[a] # None => ptr[a] \in heap

\* Every entry allocated is in the array, or on its way into it or to be
\* freed.
NoLeak ==
  \A e \in heap \ limbo : \E p \in Pids : slot[p] = e \/ (pc[p] = "store" /\ ptr[p] = e)

\* The entry of a process that is gone is collected, unless its pid is taken or
\* the statistics or the scanner, which is off by default, are switched off.
DeadCollected ==
  \A p \in Pids : (p \notin alive /\ slot[p] # None)
                   ~> (p \in alive \/ slot[p] = None \/ ~enabled \/ ~scanning)

\* README.md:180: "writing 0 clears all entries".
DisabledEmpty == ~enabled /\ Quiet /\ pc[Toggle] = "idle" => \A p \in Pids : slot[p] = None
=============================================================================
