---------------------------- MODULE PageLifecycle ----------------------------
(***************************************************************************)
(* The life of anonymous pages under MiniMem: compress_and_replace_pte     *)
(* (minimem_hook.c), the patched-kernel fault handler, the zswap store     *)
(* (minimem_zswap.c), the zap callback and the exit-time zap               *)
(* (minimem_mmu.c), the shrinker, and drain-and-restore on unload, running *)
(* against application threads that touch, write, discard and exit.        *)
(*                                                                         *)
(* The map is used through its operations as minimem_map.c orders them     *)
(* (see CompressionMap); a step here is one critical section, map call or  *)
(* private computation of the code.  Page contents and compressed objects  *)
(* are abstract values: compression stores the content, decompression      *)
(* gives it back, and an object read after zs_free yields Junk.            *)
(***************************************************************************)
EXTENDS Integers, FiniteSets

CONSTANTS
  Mms,          \* address spaces
  Addrs,        \* virtual page indices, naturals
  BenchKeys,    \* page indices only the debugfs tests store under
  Threads,      \* application threads
  MmOf,         \* [Threads -> Mms]
  Compressors,  \* contexts that run compress_and_replace_pte
  Testers,      \* contexts that write the debugfs files compress and bench
  Unloader,     \* the rmmod context
  Pages,        \* physical pages
  Handles,      \* zsmalloc handles; freed ones are reused
  Data,         \* page contents an application writes
  Junk,         \* any other content
  Free,         \* a handle that is not allocated
  None,
  MaxPool,      \* mm_max_pool_pages
  ZapCap,       \* addresses minimem_zap_range collects before it must grow
  Env           \* which environments act, a subset of EnvKinds

EnvKinds == {"async",    \* applications run while their pages are compressed
             "discard",  \* they give pages back (madvise, munmap)
             "exit",     \* processes exit
             "pressure", \* the kernel runs the shrinker
             "tlb",      \* a CPU may keep using a cached translation
             "unload",   \* the module is removed
             "nolock",   \* on unload, mmap_read_trylock may fail
             "stock"}    \* the kernel may be without MiniMem's patches

Keys   == Addrs \union BenchKeys
Actors == Threads \union Compressors \union Testers \union {Unloader}

ASSUME KeysAssumption == Addrs \subseteq Nat /\ BenchKeys \subseteq Nat
ASSUME FiniteAssumption == IsFiniteSet(Mms) /\ IsFiniteSet(Addrs) /\ IsFiniteSet(Actors)
ASSUME EnvAssumption  == Env \subseteq EnvKinds
ASSUME BoundsAssumption == MaxPool \in Nat /\ ZapCap \in Nat \ {0}
ASSUME MmOfAssumption == MmOf \in [Threads -> Mms]
ASSUME ActorsAssumption ==
  /\ Threads \cap Compressors = {} /\ Testers \cap (Threads \union Compressors) = {}
  /\ Unloader \notin Threads \union Compressors \union Testers
ASSUME NoneAssumption ==
  None \notin Pages \union Handles \union Mms \union Data /\ Junk \notin Data
    /\ Free \notin Data \union {Junk}

VARIABLES
  pte,     \* [Mms -> [Addrs -> page table entries]]
  ram,     \* [Pages -> contents]
  refs,    \* [Pages -> Nat]: struct page reference counts
  rss,     \* [Mms -> Int]: MM_ANONPAGES
  map,     \* [Keys -> Handles or None]: the compression map
  zs,      \* [Handles -> contents or Free]: the zsmalloc pool
  stored,  \* mm_stored_pages
  pc, reg, \* where each actor is, and its locals
  dead,    \* threads that exited or took SIGBUS
  sigbus,  \* threads a MiniMem fault killed
  todo,    \* page table entries drain_and_restore has still to visit
  module,  \* "loaded", "draining" or "unloaded"
  kernel,  \* "patched", or "stock": no zap callback, and a kretprobe for faults
  tlb,     \* cached writable translations <<mm, addr, page>> not yet evicted
  mem      \* [Mms -> [Addrs -> Data or None]]: what the application last wrote

vars == <<pte, ram, refs, rss, map, zs, stored, pc, reg, dead, sigbus, todo,
          module, kernel, tlb, mem>>
pool  == <<map, zs, stored>>
pages == <<ram, refs>>
world == <<dead, sigbus, todo, module, kernel, tlb, mem>>

-----------------------------------------------------------------------------
NoPte         == [st |-> "none",    page |-> None, dirty |-> FALSE]
Marker        == [st |-> "marker",  page |-> None, dirty |-> FALSE]
Present(p, d) == [st |-> "present", page |-> p,    dirty |-> d]

NoReg == [mm |-> None, key |-> None, pte |-> NoPte, page |-> None, handle |-> None,
          cleared |-> {}]

Init ==
  /\ pte = [m \in Mms |-> [a \in Addrs |-> NoPte]]
  /\ ram = [p \in Pages |-> Junk]
  /\ refs = [p \in Pages |-> 0]
  /\ rss = [m \in Mms |-> 0]
  /\ map = [k \in Keys |-> None]
  /\ zs = [h \in Handles |-> Free]
  /\ stored = 0
  /\ pc = [x \in Actors |-> "idle"]
  /\ reg = [x \in Actors |-> NoReg]
  /\ dead = {} /\ sigbus = {}
  /\ todo = {} /\ module = "loaded"
  /\ kernel \in {"patched"} \union {k \in {"stock"} : k \in Env}
  /\ tlb = {}
  /\ mem = [m \in Mms |-> [a \in Addrs |-> None]]

\* A step of module code, which is there to run until the module is unloaded.
Goto(x, from, to) ==
  /\ module # "unloaded"
  /\ pc[x] = from /\ pc' = [pc EXCEPT ![x] = to]

\* Finish the operation and forget its locals.
Return(x, from) == Goto(x, from, "idle") /\ reg' = [reg EXCEPT ![x] = NoReg]

SetPte(m, a, e) == pte' = [pte EXCEPT ![m][a] = e]

\* A page leaves the page allocator with one reference and content d.
AllocPage(p, d) ==
  /\ refs[p] = 0
  /\ refs' = [refs EXCEPT ![p] = 1]
  /\ ram' = [ram EXCEPT ![p] = d]

PutPage(p) == refs' = [refs EXCEPT ![p] = @ - 1] /\ UNCHANGED ram

\* What reading a handle gives: freed objects hold anything.
ReadObj(h) == IF zs[h] = Free THEN Junk ELSE zs[h]

\* minimem_map_remove(key), whatever entry is there, then zs_free(handle).
RemoveAndFree(k, h) ==
  /\ map' = [map EXCEPT ![k] = None]
  /\ zs' = [zs EXCEPT ![h] = Free]

\* zap_cb holds the page table lock across its lookup, removal and free.
PtlFree(m, a) ==
  \A t \in Threads :
    pc[t] \in {"zap", "exit_zap"} => <<reg[t].mm, reg[t].key>> # <<m, a>>

\* get_task_mm succeeds: the address space has users and is not being torn down.
Alive(m) == \E t \in Threads :
  MmOf[t] = m /\ t \notin dead /\ pc[t] \notin {"exit", "exit_found", "exit_zap"}

-----------------------------------------------------------------------------
(* compress_and_replace_pte, lines 681-854.                                *)

\* Mutant: the sampled page is not pinned (no get_page).
SampleUnpinned(c, m, a) ==
  /\ Goto(c, "idle", "sampled")
  /\ module = "loaded"
  /\ PtlFree(m, a)
  /\ pte[m][a].st = "present"
  /\ Alive(m)
  /\ "async" \in Env \/ \A t \in Threads : MmOf[t] = m => pc[t] = "idle"
  /\ reg' = [reg EXCEPT ![c] = [NoReg EXCEPT !.mm = m, !.key = a,
                                  !.pte = pte[m][a], !.page = pte[m][a].page]]
  /\ UNCHANGED <<pte, pages, rss, pool, world>>

\* Sample a present entry under the page table lock and pin its page.
CompressSample(c, m, a) ==
  /\ Goto(c, "idle", "sampled")
  /\ module = "loaded"
  /\ PtlFree(m, a)
  /\ pte[m][a].st = "present"
  /\ Alive(m)
  /\ "async" \in Env \/ \A t \in Threads : MmOf[t] = m => pc[t] = "idle"
  /\ reg' = [reg EXCEPT ![c] = [NoReg EXCEPT !.mm = m, !.key = a,
                                  !.pte = pte[m][a], !.page = pte[m][a].page]]
  /\ refs' = [refs EXCEPT ![pte[m][a].page] = @ + 1]
  /\ UNCHANGED <<pte, ram, rss, pool, world>>

\* Compress, copy out of the per-CPU buffer, zs_malloc and write the object.
CompressPack(c) ==
  \E h \in Handles :
    /\ Goto(c, "sampled", "packed")
    /\ zs[h] = Free
    /\ zs' = [zs EXCEPT ![h] = ram[reg[c].page]]
    /\ reg' = [reg EXCEPT ![c].handle = h]
    /\ UNCHANGED <<pte, pages, rss, map, stored, world>>

\* Incompressible, too little saved, or out of memory.
CompressGiveUp(c) ==
  /\ Return(c, "sampled")
  /\ PutPage(reg[c].page)
  /\ UNCHANGED <<pte, rss, pool, world>>

CompressMap(c) ==
  /\ Goto(c, "packed", "mapped")
  /\ map' = [map EXCEPT ![reg[c].key] = reg[c].handle]
  /\ UNCHANGED <<pte, pages, rss, zs, stored, reg, world>>

\* Mutant: the result of minimem_map_store is ignored.
MapFailIgnored(c) ==
  /\ Goto(c, "packed", "mapped")
  /\ zs' = [zs EXCEPT ![reg[c].handle] = Free]
  /\ UNCHANGED <<pte, pages, rss, map, stored, reg, world>>

CompressMapFail(c) ==
  /\ Return(c, "packed")
  /\ zs' = [zs EXCEPT ![reg[c].handle] = Free]
  /\ PutPage(reg[c].page)
  /\ UNCHANGED <<pte, rss, map, stored, world>>

\* pte_same: the entry is bit for bit the one sampled.
CompressReplace(c) ==
  LET m == reg[c].mm  a == reg[c].key
  IN  /\ Goto(c, "mapped", "replaced")
      /\ PtlFree(m, a)
      /\ pte[m][a] = reg[c].pte
      /\ SetPte(m, a, Marker)
      /\ tlb' = IF "tlb" \in Env THEN tlb ELSE tlb \ {<<m, a, reg[c].page>>}
      /\ UNCHANGED <<pages, rss, pool, reg, dead, sigbus, todo, module, kernel, mem>>

CompressChanged(c) ==
  /\ Goto(c, "mapped", "undo")
  /\ PtlFree(reg[c].mm, reg[c].key)
  /\ pte[reg[c].mm][reg[c].key] # reg[c].pte
  /\ UNCHANGED <<pte, pages, rss, pool, reg, world>>

\* Mutants: undoing puts the page twice, or does not free the object.
UndoPutsTwice(c) ==
  /\ Return(c, "undo")
  /\ RemoveAndFree(reg[c].key, reg[c].handle)
  /\ refs' = [refs EXCEPT ![reg[c].page] = @ - 2]
  /\ UNCHANGED <<pte, ram, rss, stored, world>>

UndoKeepsObject(c) ==
  /\ Return(c, "undo")
  /\ map' = [map EXCEPT ![reg[c].key] = None]
  /\ PutPage(reg[c].page)
  /\ UNCHANGED <<pte, rss, zs, stored, world>>

CompressUndo(c) ==
  /\ Return(c, "undo")
  /\ RemoveAndFree(reg[c].key, reg[c].handle)
  /\ PutPage(reg[c].page)
  /\ UNCHANGED <<pte, rss, stored, world>>

CompressFinish(c) ==
  /\ Return(c, "replaced")
  /\ rss' = [rss EXCEPT ![reg[c].mm] = @ - 1]
  /\ PutPage(reg[c].page)
  /\ UNCHANGED <<pte, pool, world>>

Compress(c) ==
  \/ \E m \in Mms, a \in Addrs : CompressSample(c, m, a)
  \/ CompressPack(c) \/ CompressGiveUp(c) \/ CompressMap(c) \/ CompressMapFail(c)
  \/ CompressReplace(c) \/ CompressChanged(c) \/ CompressUndo(c) \/ CompressFinish(c)

-----------------------------------------------------------------------------
(* Application threads.  They are stopped while their own write to         *)
(* compress_vaddr compresses a page, unless "async" lets others do it.     *)

Running(t) ==
  /\ t \notin dead /\ pc[t] = "idle"
  /\ "async" \in Env \/ \A c \in Compressors : reg[c].mm # MmOf[t]

\* The kernel's own anonymous fault: a fresh page for an empty entry.
Touch(t, a, d) ==
  LET m == MmOf[t]
  IN  \E p \in Pages :
        /\ Running(t) /\ PtlFree(m, a) /\ pte[m][a] = NoPte
        /\ AllocPage(p, d)
        /\ SetPte(m, a, Present(p, TRUE))
        /\ rss' = [rss EXCEPT ![m] = @ + 1]
        /\ mem' = [mem EXCEPT ![m][a] = d]
        /\ UNCHANGED <<pool, pc, reg, dead, sigbus, todo, module, kernel, tlb>>

\* A store through a present entry sets its dirty bit and is cached.
Write(t, a, d) ==
  LET m == MmOf[t]  p == pte[m][a].page
  IN  /\ Running(t) /\ pte[m][a].st = "present"
      /\ ram' = [ram EXCEPT ![p] = d]
      /\ SetPte(m, a, Present(p, TRUE))
      /\ mem' = [mem EXCEPT ![m][a] = d]
      /\ tlb' = IF "tlb" \in Env THEN tlb \union {<<m, a, p>>} ELSE tlb
      /\ UNCHANGED <<refs, rss, pool, pc, reg, dead, sigbus, todo, module, kernel>>

\* A store through a translation that no longer is the page table's.
StaleWrite(t, a, d) ==
  LET m == MmOf[t]
  IN  \E p \in Pages :
        /\ Running(t) /\ <<m, a, p>> \in tlb /\ pte[m][a].page # p
        /\ ram' = [ram EXCEPT ![p] = d]
        /\ mem' = [mem EXCEPT ![m][a] = d]
        /\ UNCHANGED <<pte, refs, rss, pool, pc, reg, dead, sigbus, todo, module, kernel, tlb>>

TlbEvict ==
  \E x \in tlb :
    /\ tlb' = tlb \ {x}
    /\ UNCHANGED <<pte, pages, rss, pool, pc, reg, dead, sigbus, todo, module, kernel, mem>>

\* The kernel unmaps a present page and flushes the TLB.
Unmap(m, a) ==
  /\ SetPte(m, a, NoPte)
  /\ PutPage(pte[m][a].page)
  /\ rss' = [rss EXCEPT ![m] = @ - 1]
  /\ mem' = [mem EXCEPT ![m][a] = None]
  /\ tlb' = {x \in tlb : x[1] # m \/ x[2] # a}

Discard(t, a) ==
  /\ "discard" \in Env /\ Running(t) /\ PtlFree(MmOf[t], a)
  /\ pte[MmOf[t]][a].st = "present"
  /\ Unmap(MmOf[t], a)
  /\ UNCHANGED <<pool, pc, reg, dead, sigbus, todo, module, kernel>>

-----------------------------------------------------------------------------
(* minimem_zswap_zap_cb, lines 504-533, called by the kernel with the page *)
(* table lock held for every marker it is about to clear, if it is patched *)
(* to do so.                                                               *)

ZapLookup(t, m, a) ==
  /\ PtlFree(m, a) /\ pte[m][a] = Marker
  /\ reg' = [reg EXCEPT ![t] = [NoReg EXCEPT !.mm = m, !.key = a,
                                  !.handle = IF kernel = "patched" THEN map[a] ELSE None]]
  /\ UNCHANGED <<pte, pages, rss, pool, world>>

ZapRemove(t) ==
  LET m == reg[t].mm  a == reg[t].key  h == reg[t].handle
  IN  /\ IF h = None THEN UNCHANGED pool
                     ELSE RemoveAndFree(a, h) /\ stored' = stored - 1
      /\ SetPte(m, a, NoPte)
      /\ mem' = [mem EXCEPT ![m][a] = None]
      /\ tlb' = {x \in tlb : x[1] # m \/ x[2] # a}
      /\ UNCHANGED <<pages, rss, dead, sigbus, todo, module, kernel>>

DiscardMarker(t, a) ==
  /\ Goto(t, "idle", "zap")
  /\ "discard" \in Env /\ Running(t)
  /\ ZapLookup(t, MmOf[t], a)

DiscardZap(t) == Return(t, "zap") /\ ZapRemove(t)

-----------------------------------------------------------------------------
(* minimem_vm_fault_handler, lines 244-363, and on a stock kernel          *)
(* minimem_handle_swap_fault, lines 365-463, which a kretprobe runs before *)
(* do_swap_page and which takes the same steps.                            *)

FaultStart(t, a) ==
  /\ Goto(t, "idle", "fault")
  /\ Running(t) /\ pte[MmOf[t]][a] = Marker
  /\ reg' = [reg EXCEPT ![t] = [NoReg EXCEPT !.mm = MmOf[t], !.key = a]]
  /\ UNCHANGED <<pte, pages, rss, pool, world>>

\* Mutant: the entry and its object are dropped before the object is read.
LookupDrops(t) ==
  /\ Goto(t, "fault", "found")
  /\ map[reg[t].key] # None
  /\ RemoveAndFree(reg[t].key, map[reg[t].key])
  /\ reg' = [reg EXCEPT ![t].handle = map[reg[t].key]]
  /\ UNCHANGED <<pte, pages, rss, stored, world>>

FaultLookup(t) ==
  /\ Goto(t, "fault", "found")
  /\ map[reg[t].key] # None
  /\ reg' = [reg EXCEPT ![t].handle = map[reg[t].key]]
  /\ UNCHANGED <<pte, pages, rss, pool, world>>

Sigbus(t) ==
  /\ dead' = dead \union {t} /\ sigbus' = sigbus \union {t}
  /\ UNCHANGED <<todo, module, kernel, tlb, mem>>

\* A lookup that misses kills the thread.
FaultMiss(t) ==
  /\ Return(t, "fault")
  /\ map[reg[t].key] = None
  /\ Sigbus(t)
  /\ UNCHANGED <<pte, pages, rss, pool>>

\* Allocate a page and decompress into it.
FaultFill(t) ==
  \E p \in Pages :
    /\ Goto(t, "found", "filled")
    /\ AllocPage(p, ReadObj(reg[t].handle))
    /\ reg' = [reg EXCEPT ![t].page = p]
    /\ UNCHANGED <<pte, rss, pool, world>>

\* No page or buffer: VM_FAULT_OOM, and the access is retried.
FaultOom(t) ==
  /\ Return(t, "found") /\ kernel = "patched"
  /\ UNCHANGED <<pte, pages, rss, pool, world>>

\* For the kretprobe it is a fault like any other that it could not handle: its
\* return handler leaves do_swap_page's VM_FAULT_SIGBUS as it is.
ProbeOom(t) ==
  /\ Return(t, "found") /\ kernel = "stock"
  /\ Sigbus(t)
  /\ UNCHANGED <<pte, pages, rss, pool>>

\* An object that is gone does not decompress.
FaultBad(t) ==
  /\ Return(t, "found")
  /\ zs[reg[t].handle] = Free
  /\ Sigbus(t)
  /\ UNCHANGED <<pte, pages, rss, pool>>

\* Drop the entry and its object; mm_stored_pages is left alone.
FaultRemove(t) ==
  /\ Goto(t, "filled", "removed")
  /\ RemoveAndFree(reg[t].key, reg[t].handle)
  /\ UNCHANGED <<pte, pages, rss, stored, reg, world>>

\* Mutant: the page is installed without looking at the entry again.
InstallUnchecked(m, a, p) ==
  /\ PtlFree(m, a)
  /\ SetPte(m, a, Present(p, FALSE))
  /\ rss' = [rss EXCEPT ![m] = @ + 1]
  /\ UNCHANGED pages

\* Install page p if the marker is still there, free p otherwise.
Install(m, a, p) ==
  /\ PtlFree(m, a)
  /\ IF pte[m][a] = Marker
       THEN /\ SetPte(m, a, Present(p, FALSE))
            /\ rss' = [rss EXCEPT ![m] = @ + 1]
            /\ UNCHANGED pages
       ELSE PutPage(p) /\ UNCHANGED <<pte, rss>>

FaultInstall(t) ==
  /\ Return(t, "removed")
  /\ Install(reg[t].mm, reg[t].key, reg[t].page)
  /\ UNCHANGED <<pool, world>>

Restore(t) ==
  \/ FaultLookup(t) \/ FaultMiss(t) \/ FaultFill(t) \/ FaultBad(t)
  \/ FaultRemove(t) \/ FaultInstall(t)

Fault(t) ==
  (\E a \in Addrs : FaultStart(t, a)) \/ Restore(t) \/ FaultOom(t) \/ ProbeOom(t)

-----------------------------------------------------------------------------
(* Process exit: minimem_mmu_release runs minimem_zap_range over the whole *)
(* address space once nobody else uses it, clearing every marker first and *)
(* then calling minimem_zswap_remove for each; the kernel then unmaps what *)
(* is left, calling the zap callback for a marker.                         *)

\* What minimem_zap_range clears and what it collects of the markers: all of
\* them; none if the notifier is not registered yet or the array cannot be
\* allocated; and if the full array cannot grow, one more than it collects.
ZapRange(markers) ==
  LET Least(n) == {a \in markers : Cardinality({b \in markers : b < a}) < n}
  IN  {<<markers, markers>>, <<{}, {}>>} \union
      (IF Cardinality(markers) > ZapCap THEN {<<Least(ZapCap + 1), Least(ZapCap)>>} ELSE {})

ExitStart(t) ==
  LET m == MmOf[t]
  IN  /\ Goto(t, "idle", "exit")
      /\ "exit" \in Env /\ Running(t)
      /\ \A u \in Threads \ {t} : MmOf[u] = m => u \in dead
      /\ \A x \in Compressors \union {Unloader} : reg[x].mm # m
      /\ \E z \in ZapRange({a \in Addrs : pte[m][a] = Marker}) :
           /\ pte' = [pte EXCEPT ![m] = [a \in Addrs |-> IF a \in z[1] THEN NoPte ELSE @[a]]]
           /\ mem' = [mem EXCEPT ![m] = [a \in Addrs |-> IF a \in z[1] THEN None ELSE @[a]]]
           /\ reg' = [reg EXCEPT ![t] = [NoReg EXCEPT !.mm = m, !.cleared = z[2]]]
      /\ tlb' = {x \in tlb : x[1] # m}
      /\ UNCHANGED <<pages, rss, pool, dead, sigbus, todo, module, kernel>>

\* Mutant: only the first of the cleared markers has its entry removed.
LookupFirstOnly(t) ==
  \E a \in reg[t].cleared :
    /\ Goto(t, "exit", IF map[a] = None THEN "exit" ELSE "exit_found")
    /\ \A b \in reg[t].cleared : a <= b
    /\ reg' = [reg EXCEPT ![t].cleared = {}, ![t].key = a, ![t].handle = map[a]]
    /\ UNCHANGED <<pte, pages, rss, pool, world>>

\* minimem_zswap_remove: look the entry up ...
ExitLookup(t) ==
  \E a \in reg[t].cleared :
    /\ Goto(t, "exit", IF map[a] = None THEN "exit" ELSE "exit_found")
    /\ \A b \in reg[t].cleared : a <= b
    /\ reg' = [reg EXCEPT ![t].cleared = @ \ {a}, ![t].key = a, ![t].handle = map[a]]
    /\ UNCHANGED <<pte, pages, rss, pool, world>>

\* ... and free the object only if this call removed an entry.
RemoveIfThere(k, h) ==
  IF map[k] = None THEN UNCHANGED pool
                   ELSE RemoveAndFree(k, h) /\ stored' = stored - 1

ExitRemove(t) ==
  /\ Goto(t, "exit_found", "exit")
  /\ RemoveIfThere(reg[t].key, reg[t].handle)
  /\ UNCHANGED <<pte, pages, rss, reg, world>>

\* The kernel's unmap_vmas meets a marker.
ExitMarker(t) ==
  \E a \in Addrs :
    /\ Goto(t, "exit", "exit_zap")
    /\ reg[t].cleared = {}
    /\ ZapLookup(t, MmOf[t], a)

ExitZap(t) ==
  /\ Goto(t, "exit_zap", "exit")
  /\ ZapRemove(t)
  /\ UNCHANGED reg

ExitFinish(t) ==
  LET m == MmOf[t]
      gone == {a \in Addrs : pte[m][a].st = "present"}
  IN  /\ Return(t, "exit")
      /\ reg[t].cleared = {} /\ \A a \in Addrs : pte[m][a] # Marker
      /\ pte' = [pte EXCEPT ![m] = [a \in Addrs |-> NoPte]]
      /\ refs' = [p \in Pages |->
                     refs[p] - Cardinality({a \in gone : pte[m][a].page = p})]
      /\ rss' = [rss EXCEPT ![m] = @ - Cardinality(gone)]
      /\ mem' = [mem EXCEPT ![m] = [a \in Addrs |-> None]]
      /\ dead' = dead \union {t}
      /\ UNCHANGED <<ram, pool, sigbus, todo, module, kernel, tlb>>

Exit(t) == ExitStart(t) \/ ExitLookup(t) \/ ExitRemove(t)
             \/ ExitMarker(t) \/ ExitZap(t) \/ ExitFinish(t)

-----------------------------------------------------------------------------
(* minimem_shrink_scan: memory pressure drains entries in index order and  *)
(* frees their objects.  The kernel scans only if minimem_shrink_count,    *)
(* mm_stored_pages as an unsigned long, is neither 0 nor SHRINK_EMPTY (-2).*)

Shrink ==
  \E k \in Keys :
    /\ "pressure" \in Env /\ module # "unloaded" /\ stored \notin {0, -2}
    /\ map[k] # None /\ \A j \in Keys : map[j] # None => k <= j
    /\ RemoveAndFree(k, map[k])
    /\ UNCHANGED <<pte, pages, rss, stored, pc, reg, world>>

-----------------------------------------------------------------------------
(* The debugfs files compress and bench: compress_and_store under a made-up*)
(* address, then decompress_and_restore or zswap_remove.  Only this store  *)
(* checks max_pool_pages, and only it counts mm_stored_pages up.           *)

TestPack(x, k) ==
  \E h \in Handles :
    /\ Goto(x, "idle", "test_packed")
    /\ module = "loaded" /\ (MaxPool = 0 \/ stored < MaxPool)
    /\ zs[h] = Free
    /\ zs' = [zs EXCEPT ![h] = Junk]
    /\ reg' = [reg EXCEPT ![x] = [NoReg EXCEPT !.key = k, !.handle = h]]
    /\ UNCHANGED <<pte, pages, rss, map, stored, world>>

TestMap(x) ==
  /\ Goto(x, "test_packed", "test_mapped")
  /\ map' = [map EXCEPT ![reg[x].key] = reg[x].handle]
  /\ UNCHANGED <<pte, pages, rss, zs, stored, reg, world>>

TestCount(x) ==
  /\ Return(x, "test_mapped")
  /\ stored' = stored + 1
  /\ UNCHANGED <<pte, pages, rss, map, zs, world>>

TestMapFail(x) ==
  /\ Return(x, "test_packed")
  /\ zs' = [zs EXCEPT ![reg[x].handle] = Free]
  /\ UNCHANGED <<pte, pages, rss, map, stored, world>>

TestLookup(x, k) ==
  /\ Goto(x, "idle", "test_found")
  /\ module = "loaded" /\ map[k] # None
  /\ reg' = [reg EXCEPT ![x] = [NoReg EXCEPT !.key = k, !.handle = map[k]]]
  /\ UNCHANGED <<pte, pages, rss, pool, world>>

\* decompress_and_restore found no memory, or did not decompress.
TestRestoreFail(x) ==
  /\ Return(x, "test_found")
  /\ UNCHANGED <<pte, pages, rss, pool, world>>

TestRestore(x) ==
  /\ Return(x, "test_found")
  /\ RemoveAndFree(reg[x].key, reg[x].handle)
  /\ stored' = stored - 1
  /\ UNCHANGED <<pte, pages, rss, world>>

TestRemove(x) ==
  /\ Return(x, "test_found")
  /\ RemoveIfThere(reg[x].key, reg[x].handle)
  /\ UNCHANGED <<pte, pages, rss, world>>

Test(x) ==
  \/ \E k \in BenchKeys : TestPack(x, k) \/ TestLookup(x, k)
  \/ TestMap(x) \/ TestMapFail(x) \/ TestCount(x)
  \/ TestRestore(x) \/ TestRestoreFail(x) \/ TestRemove(x)

-----------------------------------------------------------------------------
(* minimem_exit: stop the compressors, run minimem_zswap_drain_and_restore *)
(* (lines 307-502) over the page tables of the live processes, unregister  *)
(* the hook and destroy the map and the pool.                              *)

UnloadStart ==
  /\ "unload" \in Env /\ module = "loaded"
  /\ \A x \in Compressors \union Testers : pc[x] = "idle"
  /\ module' = "draining"
  /\ todo' = IF \A k \in Keys : map[k] = None THEN {} ELSE Mms \X Addrs
  /\ UNCHANGED <<pte, pages, rss, pool, pc, reg, dead, sigbus, kernel, tlb, mem>>

\* get_task_mm or mmap_read_trylock fails: the process is passed over.
DrainSkip(m) ==
  /\ {m} \X Addrs \subseteq todo /\ pc[Unloader] = "idle"
  /\ "nolock" \in Env \/ ~Alive(m)
  /\ todo' = todo \ ({m} \X Addrs)
  /\ UNCHANGED <<pte, pages, rss, pool, pc, reg, dead, sigbus, module, kernel, tlb, mem>>

\* Look at one entry under the page table lock; only markers are of interest.
DrainSample(m, a) ==
  /\ Goto(Unloader, "idle", IF pte[m][a] = Marker THEN "drain" ELSE "idle")
  /\ <<m, a>> \in todo /\ Alive(m) /\ PtlFree(m, a)
  /\ reg' = [reg EXCEPT ![Unloader] =
              IF pte[m][a] = Marker THEN [NoReg EXCEPT !.mm = m, !.key = a] ELSE NoReg]
  /\ todo' = todo \ {<<m, a>>}
  /\ UNCHANGED <<pte, pages, rss, pool, dead, sigbus, module, kernel, tlb, mem>>

DrainLookup ==
  /\ Goto(Unloader, "drain", "drain_found")
  /\ map[reg[Unloader].key] # None
  /\ reg' = [reg EXCEPT ![Unloader].handle = map[reg[Unloader].key]]
  /\ UNCHANGED <<pte, pages, rss, pool, world>>

\* "failed++": no entry, or no page or buffer to restore into.
DrainFail ==
  /\ \/ Return(Unloader, "drain") /\ map[reg[Unloader].key] = None
     \/ Return(Unloader, "drain_found")
  /\ UNCHANGED <<pte, pages, rss, pool, world>>

DrainFill ==
  \E p \in Pages :
    /\ Goto(Unloader, "drain_found", "drain_filled")
    /\ AllocPage(p, ReadObj(reg[Unloader].handle))
    /\ reg' = [reg EXCEPT ![Unloader].page = p]
    /\ UNCHANGED <<pte, rss, pool, world>>

\* What does not decompress is dropped.
DrainBad ==
  /\ Return(Unloader, "drain_found")
  /\ zs[reg[Unloader].handle] = Free
  /\ RemoveAndFree(reg[Unloader].key, reg[Unloader].handle)
  /\ stored' = stored - 1
  /\ UNCHANGED <<pte, pages, rss, world>>

DrainInstall ==
  /\ Goto(Unloader, "drain_filled", "drain_installed")
  /\ Install(reg[Unloader].mm, reg[Unloader].key, reg[Unloader].page)
  /\ UNCHANGED <<pool, reg, world>>

DrainRemove ==
  /\ Return(Unloader, "drain_installed")
  /\ RemoveAndFree(reg[Unloader].key, reg[Unloader].handle)
  /\ stored' = stored - 1
  /\ UNCHANGED <<pte, pages, rss, world>>

UnloadFinish ==
  /\ module = "draining" /\ todo = {} /\ pc[Unloader] = "idle"
  /\ module' = "unloaded"
  /\ map' = [k \in Keys |-> None]
  /\ zs' = [h \in Handles |-> Free]
  /\ UNCHANGED <<pte, pages, rss, stored, pc, reg, dead, sigbus, todo, kernel, tlb, mem>>

\* Without the module a marker is a fatal fault.
FaultUnloaded(t, a) ==
  /\ Running(t) /\ module = "unloaded" /\ pte[MmOf[t]][a] = Marker
  /\ Sigbus(t)
  /\ UNCHANGED <<pte, pages, rss, pool, pc, reg>>

Unload ==
  \/ UnloadStart \/ (\E m \in Mms : DrainSkip(m))
  \/ (\E m \in Mms, a \in Addrs : DrainSample(m, a))
  \/ DrainLookup \/ DrainFail \/ DrainFill \/ DrainBad
  \/ DrainInstall \/ DrainRemove \/ UnloadFinish

-----------------------------------------------------------------------------
App(t) ==
  \/ \E a \in Addrs, d \in Data : Touch(t, a, d) \/ Write(t, a, d) \/ StaleWrite(t, a, d)
  \/ \E a \in Addrs : Discard(t, a) \/ DiscardMarker(t, a) \/ FaultUnloaded(t, a)

Next ==
  \/ \E t \in Threads : App(t) \/ Fault(t) \/ DiscardZap(t) \/ Exit(t)
  \/ \E c \in Compressors : Compress(c)
  \/ \E x \in Testers : Test(x)
  \/ TlbEvict \/ Shrink \/ Unload

Spec == Init /\ [][Next]_vars

-----------------------------------------------------------------------------
(* Properties.                                                             *)

Labels == {"idle", "sampled", "packed", "mapped", "replaced", "undo",
           "fault", "found", "filled", "removed", "zap", "exit", "exit_found", "exit_zap",
           "test_packed", "test_mapped", "test_found",
           "drain", "drain_found", "drain_filled", "drain_installed"}

\* Every variable keeps its type; no page's reference count goes below zero.
Ptes == {NoPte, Marker} \union {Present(p, d) : p \in Pages, d \in BOOLEAN}
TypeOK ==
  /\ pte \in [Mms -> [Addrs -> Ptes]]
  /\ ram \in [Pages -> Data \union {Junk}]
  /\ refs \in [Pages -> Nat]
  /\ rss \in [Mms -> Int]
  /\ map \in [Keys -> Handles \union {None}]
  /\ zs \in [Handles -> Data \union {Junk, Free}]
  /\ stored \in Int
  /\ pc \in [Actors -> Labels]
  /\ reg \in [Actors -> [mm : Mms \union {None}, key : Keys \union {None}, pte : Ptes,
                         page : Pages \union {None}, handle : Handles \union {None},
                         cleared : SUBSET Addrs]]
  /\ dead \subseteq Threads /\ sigbus \subseteq dead
  /\ todo \subseteq Mms \X Addrs
  /\ module \in {"loaded", "draining", "unloaded"} /\ kernel \in {"patched", "stock"}
  /\ tlb \subseteq Mms \X Addrs \X Pages
  /\ mem \in [Mms -> [Addrs -> Data \union {None}]]

\* MM_ANONPAGES is the number of present entries plus the decrements that
\* compress_and_replace_pte still owes, whatever faults, zaps, drains and
\* exits run in between.
ResidentPages(m) == {a \in Addrs : pte[m][a].st = "present"}
OwedBy(m) == {c \in Compressors : pc[c] = "replaced" /\ reg[c].mm = m}
RssExact ==
  \A m \in Mms : rss[m] = Cardinality(ResidentPages(m)) + Cardinality(OwedBy(m))

\* A page has at least as many references as page tables mapping it, running
\* compressions pinning it and restorations about to install it: nobody uses
\* a page that went back to the allocator.
Holds(x, p) ==
  reg[x].page = p /\ (x \in Compressors \/ pc[x] \in {"filled", "removed", "drain_filled"})
Users(p) == {x \in Mms \X Addrs : pte[x[1]][x[2]].page = p} \union
            {x \in Actors : Holds(x, p)}
RefsCoverUsers == \A p \in Pages : Cardinality(Users(p)) <= refs[p]

\* In a process that is not exiting, a marker at rest has an entry whose object
\* is allocated: the next access finds its data.
MarkerBacked ==
  module # "unloaded" =>
    \A m \in Mms, a \in Addrs :
      Alive(m) /\ pte[m][a] = Marker /\ (\A t \in Threads : pc[t] = "removed" => reg[t].key # a)
        => map[a] # None /\ zs[map[a]] # Free

\* No fault on a compressed page kills the thread that took it.
NoSigbus == sigbus = {}

\* An object somebody looked up and is about to read or free is still allocated.
NoUseAfterFree ==
  \A x \in Actors :
    pc[x] \in {"found", "filled", "mapped", "undo", "zap", "exit_zap", "test_found",
              "drain_found", "drain_filled", "drain_installed"} /\ reg[x].handle # None
      => zs[reg[x].handle] # Free

\* Every allocated object is reachable from the map or about to be put there.
NoObjectLeak ==
  \A h \in Handles : zs[h] # Free =>
    \/ \E k \in Keys : map[k] = h
    \/ \E x \in Actors : pc[x] \in {"packed", "test_packed"} /\ reg[x].handle = h

\* An entry for a user page has a marker that leads to it, or someone who is
\* about to install the marker or to drop the entry: discarded memory and
\* exited processes leave nothing compressed behind.
Owner(a) ==
  \/ \E m \in Mms : pte[m][a] = Marker
  \/ \E c \in Compressors : pc[c] \in {"mapped", "undo"} /\ reg[c].key = a
  \/ \E t \in Threads : \/ a \in reg[t].cleared
                        \/ pc[t] = "exit_found" /\ reg[t].key = a
  \/ pc[Unloader] = "drain_installed" /\ reg[Unloader].key = a
EntriesOwned == \A a \in Addrs : map[a] # None => Owner(a)

\* What the application would read at an address, now or after a fault.
Readable(m, a) ==
  LET e == pte[m][a]
      restoring == {t \in Threads : pc[t] = "removed" /\ reg[t].mm = m /\ reg[t].key = a}
  IN  IF e.st = "present" THEN ram[e.page]
      ELSE IF restoring # {} THEN ram[reg[CHOOSE t \in restoring : TRUE].page]
      ELSE IF map[a] = None THEN Junk ELSE ReadObj(map[a])

\* goal.md: "Every byte must decompress to exactly the original value": the
\* application reads what it last wrote, through compression and restoration.
Lossless ==
  \A m \in Mms, a \in Addrs :
    mem[m][a] # None /\ Alive(m)
      => Readable(m, a) = mem[m][a]

\* how-it-works.md: "The original page is freed back to the system."
OriginalFreed == \A p \in Pages : refs[p] = Cardinality(Users(p))

\* architecture.md: the map is "keyed by (mm_struct, virtual address)": the
\* markers of two processes at one address do not share an entry.
EntryPerMm ==
  \A a \in Addrs : map[a] # None => Cardinality({m \in Mms : pte[m][a] = Marker}) <= 1
=============================================================================
