# A TLA+ verification project for MiniMem

MiniMem compresses cold anonymous pages inside the Linux kernel. A page is
copied out, compressed into a zsmalloc object, recorded in a *compression map*,
and its page table entry is replaced by a *PTE marker*; the next access faults,
and the fault handler decompresses the object into a new page and installs it.
Losing track of one entry means a process killed by `SIGBUS` or, worse, a page
with the wrong content, so the interesting question is not what one of these
paths does but what happens when several run at once.

The modules here describe that core: the map with its locks, the life of a page
between compressors, faults, zaps, exits, the shrinker and module unload, the
parallel decompression of clusters, and the registration and release of MMU
notifiers; and what drives it: the scanner, the per-process statistics, the
choice of a codec and the codecs, and the loading and unloading of the module
under all of them. TLC checks them on small instances; TLAPS proves, for every
value of the constants, the central properties of the map, the cluster
decompression, the statistics, the notifier, the life of a page, the scanner, the
codecs and the loading and unloading, and that the map implements an abstract one. All paths below are
relative to `src/`.

## 1. The system

### Components, their state and operations

| component | source | state | operations |
|---|---|---|---|
| compression map | `src/kernel/minimem_map.c` | an xarray of slab entries, a count, a spinlock, a rwsem | store, lookup, read_lock/unlock, remove, drain, remove_all |
| PTE replacement and fault handling | `src/kernel/minimem_hook.c` | page table entries, page references, rss; a registered handler or a kretprobe | compress_and_replace_pte, vm_fault_handler (patched kernel), kretprobe entry and return (stock kernel), hook init and exit |
| zswap store | `src/kernel/minimem_zswap.c` | the zsmalloc pool, `mm_stored_pages`, `mm_max_pool_pages` | compress_and_store, decompress_and_restore, zswap_remove, zap callback, drain_and_restore, exit |
| MMU notifier | `src/kernel/minimem_mmu.c` | the list of notifiers, the pending address spaces with a reference each, two work items | register_deferred, the work with a 50 ms retry, release (exit-time zap), exit |
| shrinker | `src/kernel/minimem_shrinker.c` | none of its own | count, scan |
| parallel decompression | `src/kernel/minimem_parallel.c` | one context per call, a workqueue, a mode | decompress, cluster worker, set_mode, init, exit |
| scanner | `src/kernel/minimem_scanner.c` | a kthread, a cursor over processes, an interval, budgets | mark pass, sweep pass, adaptive interval, start, stop |
| per-process statistics | `src/kernel/minimem_proc_stats.c` | an xarray of counters per pid | record, collect dead entries, enable, disable, show |
| PTE marker encoding | `src/kernel/minimem_pte.h` | none | make, test and decode an entry |
| codec selection | `src/kernel/minimem_compress.c` | per-CPU buffers | classify, compress, decompress |
| module, sysfs, debugfs | `src/kernel/minimem_main.c` | which subsystems are up; tunables | init with unwinding, exit, the files that compress, bench and configure |
| compatibility check, fault stub | `minimem_compat_check.c`, `minimem_fault.c` | none that changes | one-time probes and a self-test |
| codecs and advisor | `src/lib/` | none (pure functions) | same_page, delta, BDI, WKdm, LZ4, ..., algorithm choice |
| VRAM compression | `src/vram/minimem_vram.c` | an array of buffers and tiers | register, unregister, compress, restore |

### How they interact

* Everything meets in the map and the pool. The scanner and the debugfs files
  `compress_vaddr` and `compress_pid` call `compress_and_replace_pte`; faults
  call the handler; `munmap` and `madvise` reach the zap callback; process exit
  reaches the MMU notifier *and*, for markers left, the zap callback; the
  kernel calls the shrinker; the debugfs files `compress` and `bench` store
  under made-up addresses; `rmmod` drains all of it.
* A lookup in the map takes **no** lock and copies the entry, except from the
  cluster decompression, which holds the rwsem for reading. Store takes the
  spinlock only; remove and drain take both; a drain drops the spinlock around
  its callback.
* Page table entries are sampled and replaced under the page table lock, but
  compressing, storing, removing and freeing happen outside it: each path is
  *sample, work, re-check, replace*, and each has an undo.
* `map->count`, `mm_stored_pages`, `struct page` references and `MM_ANONPAGES`
  are adjusted on different paths than those that change what they count.

### What is hard here, and what correctness means

| component | hard behaviour | correct when (section 3 says where it is not) |
|---|---|---|
| map | bare lookups against removals; stores in the middle of a drain; replacement of an entry that is already there | an entry the xarray leads to is live and is its page's; locked readers read live entries; the count misses no entry |
| page life cycle | two faults on one marker; a fault, discard or exit between a compressor's steps; a failed map store; the unload drain racing applications | every marker leads to its data; nothing is read after it was freed, freed twice or leaked; rss and references stay exact; the application reads what it wrote |
| parallel decompression | workers finishing while the caller still counts; decrement and `complete()` are two steps; module exit with work queued | the count is exact, a waiting caller is woken, pages at work stay mapped, no worker outlives the workqueue |
| notifier | deferred registration against process exit; retry while the lock is busy; two work items; repeated registration; unload against exit | references cover everyone who still follows a pointer; no registration for an address space that is gone; none is lost, and each succeeds in the end; no notifier outlives the module |
| scanner | passes cut into batches by three budgets, resumed at a cursor of pid and address in a list that changes; pages that never compress; back-off; module exit in the middle of a batch | a pass looks at every page that stays; a cold page is compressed in the end; the sleep stays in its range; the thread ends when it is told to |
| statistics | the limit of entries reached by several at once; collection, listing and switching off against updates without a lock | the count is exact; no entry is used after it was freed or leaked; the dead are collected |
| codecs | sign and width of packed differences; dictionaries kept in step; areas written and read in one order | decompression gives back the page; a stored page is smaller than it was |
| module | eight init functions that may fail and unwind in an order of their own; exit under faults, zaps, scans and writers; a kernel that lacks a feature | nothing is left behind; no call runs on what is torn down; no page is lost; no application is killed |

`PROJECT.json` lists the hazards one by one, at the line where each bites, with
the properties that watch it.

## 2. The modules

`CompressionMap` and `ParallelCluster` go down to the single lock, atomic
operation and slab allocation. `PageLifecycle` composes the other components
around the map; it uses the map through whole operations, which is justified by
what `CompressionMap` establishes (it implements `AtomicMap`: an operation takes
effect at its one step under the spinlock), except for lookups, whose result a
path keeps in a local while the map moves on: those are separate steps.
`Scanner` decides *which* page `PageLifecycle` compresses and `MmuNotifier` keeps
the references of its batches; `Lifecycle` puts all of them between the init and
exit functions of the module, and takes apart again the two paths whose steps the drain
and a fault must not mix: looking data up, removing it, installing the page.

### `AtomicMap`: what `minimem_map.h` promises

The set `stored` of pages with compressed data, and the callers that have the
map `pinned` (`minimem_map_read_lock`). `Put` and `Take` are atomic; nothing is
taken while anyone pins the map. `CompressionMap` implements it with `stored`
as the indices with an entry and `pinned` as the readers of the rwsem
(`ImplementsAtomicMap`): a store's publication is a `Put`, the step of a removal
or a drain that unlinks an entry is a `Take`, and every other step leaves the
two alone.

### `CompressionMap`: `minimem_map.c`

| variable | code |
|---|---|
| `entries` | `map->xa`: page index to slab object |
| `filled`, `allocated` | the payload of a slab object, abstracted to the page it was written for; which objects are allocated |
| `count` | `map->count` |
| `lock`, `writer`, `readers` | the spinlock and the two sides of the rwsem |
| `pc`, `reg` | where each thread is and its locals |

`Store` = allocate and fill; publish under the spinlock; count, unlock (or the
failure of `xa_store`, which frees the entry). `Lookup` = load the pointer;
copy. `LockedRead` = the same between `read_lock` and `read_unlock`, as often as
the caller likes. `Remove` and `Drain` take the rwsem, then the spinlock; a
drain takes the entries in index order, at most `max_entries`, with its callback
outside the spinlock. `RemoveAll` runs alone. Freed slab objects are handed out
again at once, which is what `kmem_cache_free` without a grace period allows.

### `PageLifecycle`: `minimem_hook.c`, `minimem_zswap.c`, `minimem_mmu.c`, `minimem_shrinker.c`, the exit path of `minimem_main.c`

| variable | code |
|---|---|
| `pte` | the page table: nothing, a marker, or a page with its dirty bit |
| `ram`, `refs` | page contents and `struct page` references |
| `rss` | `MM_ANONPAGES` |
| `map`, `zs`, `stored` | the compression map, the zsmalloc pool, `mm_stored_pages` |
| `pc`, `reg` | each context's position and locals (sampled entry, page, handle) |
| `dead`, `sigbus` | threads that ended, and those a fault killed |
| `module`, `todo` | loaded, draining or unloaded; what the drain has not visited |
| `kernel` | with MiniMem's patches (fault handler, zap callback) or without (kretprobe on `do_swap_page`) |
| `tlb` | translations a CPU may still use |
| `mem` | what the application last wrote (the reference for `Lossless`) |

| action | code |
|---|---|
| `CompressSample` ... `CompressFinish` | `compress_and_replace_pte`: sample and pin; pack; map (or `CompressMapFail`); re-check and replace, or notice the change and undo; drop rss and the pin |
| `FaultStart` ... `FaultInstall` | `minimem_vm_fault_handler`, or `minimem_handle_swap_fault` called by the kretprobe: see the marker; look up; allocate and decompress; remove and free; install if the marker is still there |
| `FaultOom`, `ProbeOom` | no memory: the patched kernel retries, the kretprobe leaves the `SIGBUS` of `do_swap_page` |
| `DiscardMarker`, `DiscardZap` | the kernel's zap of a marker and, on a patched one, `minimem_zswap_zap_cb` |
| `ExitStart`, `ExitLookup`, `ExitRemove`, `ExitMarker`, `ExitZap`, `ExitFinish` | `minimem_zap_range` from the notifier's release, then the kernel's own `unmap_vmas` over what is left |
| `Shrink` | one iteration of `minimem_shrink_scan` and its callback |
| `TestPack` ... `TestRemove` | the debugfs files `compress` and `bench` |
| `UnloadStart` ... `UnloadFinish` | `minimem_exit` and `minimem_zswap_drain_and_restore` |
| `Touch`, `Write`, `StaleWrite`, `Unmap`, `TlbEvict` | the kernel and the CPU, as this code uses them (external) |

A constant `Env` names which environments act (`async`, `discard`, `exit`,
`pressure`, `tlb`, `unload`, `nolock`, `stock`), so that a run can ask what holds in a
world with some of them. Data are abstract: a page content is a value,
compression stores it, decompression gives it back, a freed object reads as
`Junk`.

### `ParallelCluster`: `minimem_parallel.c`

One record of state per call of `minimem_parallel_decompress`: the loop index
`next`, `ctx->remaining`, the completion count `done`, the state of each work
item and its status, and the return value. `SkipItem`, `CountItem` and
`QueueItem` are the three ways through the loop, `Check` reads the count once,
`Wake` is `wait_for_completion`, `Collect` reads the statuses, frees the context
and releases the map. A worker runs, decrements (`FinishItem`) and, if it took
the count to zero, calls `complete()` in a step of its own (`Signal`). Around
it: pages stored and removed (`RemovePage` needs the rwsem), the mode switched,
and module exit, which waits for the debugfs call and drains the workqueue.

### `MmuNotifier`: `minimem_mmu.c`, with its callers in `minimem_scanner.c` and `minimem_main.c`

| variable | code |
|---|---|
| `users`, `torn` | `mm_users`, and whether `exit_mmap` is over |
| `sub`, `subUsers` | the notifier of an address space and its `users` |
| `pending` | `minimem_pending_mms` |
| `queued`, `timer`, `taken` | the two work items, the delayed one's timer, what is left of a worker's array |
| `locked`, `pc`, `on` | who read-locks the mmap lock; where each context is, and at which address space |
| `wq`, `todo`, `ahead`, `left` | how far module exit is, the notifiers it has to put, the one its iteration has saved the address of, and how often it still has to put the present one |

`Enter`, `Lock`, `Defer`, `DeferStore`, `DeferQueue`, `Unlock` and `Leave` are a
batch of the scanner (which takes two references and drops one) or a write to
`compress_pid` (one and one), with `minimem_mmu_register_deferred` under the lock
and once more after it. `Collect`, `Register`, `Requeue`, `Arm` and `EndWork` are
`minimem_mmu_register_work_impl`; a failed trylock may have any holder of the
lock as its reason. Out of memory (`"oom"`), `Put` loses the `xa_store` of a deferral
or a retry, with its reference, and the array of a work item cannot be had. `MmPut`, `Release` and `ReleasePut` are the last `mmput` and
what it sets off, whoever makes it; `UnloadStart` to `UnloadDone` are
`minimem_mmu_exit`: `Pick` takes the notifier that `list_for_each_entry_safe` saved
before the last one was put, freed or not. `compress_vaddr`, which acts on the process that writes to
it, is a `compress_pid` with one reference less.

### `Scanner`: `minimem_scanner.c`

| variable | code |
|---|---|
| `born`, `alive`, `page` | the task list; what the page table and the idle and young flags say of each page |
| `enabled`, `phase`, `skip`, `cursor`, `interval` | the statics of the same names |
| `hook` | what `minimem_hook_marker_ready` and the symbol lookup answer |
| `pc`, `sweeping`, `at`, `addr`, `end`, `left`, `examined`, `exhausted`, `found` | the thread and the locals of a batch |
| `late` | that the clock is past the batch's CPU budget: it may pass at any time (`Tick`) and is read every so many pages |
| `empty`, `wait` | `empty_cycles`, `current_interval` |
| `due` | what a pass has yet to look at; no code, it is there for `PassComplete` |

`Begin` to `Finish` are one call of `minimem_scan_batch_vma` for the phase the
thread read: `PassOver`, `LockMiss` and `Lock` are what happens to the next
process of the list, `EnterVma` and `LeaveVma` the loop over VMAs, `MarkPage`,
`SweepPast`, `SweepSkip` and `SweepPage` the page loops of
`minimem_mark_vma` and `minimem_sweep_vma`. `Pace` is the rest of the
thread's cycle, with the decay of the skip list and the length of the sleep;
`GiveUpSweep` is the phase reset when markers cannot be handled. `SetEnabled`,
`SetInterval`, `Stop` and `HookInit` come from the rest of the module.

### `ProcStats`: `minimem_proc_stats.c`

| variable | code |
|---|---|
| `enabled`, `slot`, `count`, `lock` | `mm_proc_stats_enabled`, the xarray, `mm_proc_stats_count`, its spinlock |
| `scanning` | `scanner_enabled` is set and the hook is ready: the scanner's thread comes to the collector |
| `heap`, `limbo`, `grace`, `rcu` | slab objects; those given to `kfree_rcu` and those of them a reader still holds up |
| `pc`, `at`, `ptr` | each actor's position, the pid its iteration is at, the entry it has a pointer to |

`Check`, `Find`, `Alloc`, `GiveUp`, `Store` and `Use` are the compress and
decompress hooks, where `Store` looks a second time, under the lock, for an entry
(`StoreFound`), the limit (`StoreRefused`) and then stores (`StoreNew`); `GcBegin`
to `GcEnd` the collection the scanner calls in each cycle while it is on;
`SetScanner` its switch and `Disable` to `DisableEnd` that of the statistics; `ListBegin` to `ListEnd` a listing;
`Reclaim` the end of a grace period.

### `Numerals`, `ByteWords`, `Bdi`, `Wkdm`, `BlockClass`, `Codecs`: `src/lib` and `minimem_compress.c`

All but the last are pure functions over sequences of bytes, one module per codec:
what is written (a *form* that keeps the structure of the output, and its size)
and what is read back from it. `Numerals` has what they share, numbers and their
digits in some base: the bytes of a word, the three bits of a block's type, the
few bits of a packed difference, the bits that XOR compares. Powers and sums are
recursive functions there, and no module reaches `Bitwise`, so that all of it can be
reasoned about. The loops of the code are recursive functions as well. All sizes are
parameters; one definition, `W`, stands for both widths of wkdm. `Codecs` chooses: a
page is compressed the kernel's way (`CompressPage`, classified and given to one
codec), the library's way (`CompressBuffer`), or advised upon (`Advise`), and
read back by `DecompressPage`. LZ4 is vendored; its wrapper is modelled by what
it returns.

### `Lifecycle`: `minimem_main.c`, the init and exit functions, `minimem_compat_check.c`

| variable | code |
|---|---|
| `kernel` | the symbols and features of the running kernel |
| `phase`, `step`, `todo`, `loads` | how far `minimem_init`, its error path or `minimem_exit` is; how often the module was loaded |
| `held`, `bufs` | what is registered or allocated: pool, workqueues, shrinker, notifiers and requests for them, thread, fault handler, zap callback, kretprobe, kobject, files, statistics entries; the per-CPU buffers. And what nobody can give back any more: references to address spaces (`mm_users`), entries without a table (`orphans`) |
| `symbols`, `enabled`, `tracking` | `symbols_resolved`, `scanner_enabled`, `mm_proc_stats_enabled` |
| `call`, `at`, `stage` | the call into the module each thread is in, its page, and how far a fault is: before its lookup, with a copy of the data, with the entry removed |
| `page`, `stored` | the application's page table, the data in the pool |
| `drain`, `drained` | whether the unload drain walks or has a copy of a page in its hands; what it has passed |
| `killed` | the pages at which an application got a `SIGBUS` |
| `harmed` | the pages at which something that `Env` names went wrong; no code, it is there for `NoDataLost` |

`Load` is the compatibility check; `AllocBuffer`, `AllocFail`, `BuffersDone`,
`InitOk`, `InitFail`, `HookInit` and `FilesInit` are the init functions in the
order of `minimem_init`, `Unwind` its error labels. The check and the hook look for
symbols of a list each (`CheckedSymbols`, `HookSymbols`); the lists are the same
today. An exit function is `Close` (it unregisters its entry points) and then
`Exit` (the calls it waits for are gone, the rest is freed); `Gone` is the end of
the module's memory, and of the only way to its statistics entries.

The drain is `DrainBegin` (and the reference it does not drop), for each page
`DrainRead` and `DrainRestore`, or one of its early exits: `DrainSkip` (a taken lock, no
marker, no entry, no page, no buffer, an object that cannot be read) and `DrainLose`
(data that does not decompress is removed from under its marker); a page table
that is gone when the copy is installed is the second disjunct of `DrainRestore`. A fault is
`FaultMiss` (the lookup fails: `SIGBUS`), `FaultFail` (memory or data) or
`FaultRead`, `FaultRemove` and `FaultInstall`, on the patched kernel's handler and on
the kretprobe alike, as many at once as there are threads. `Enter` is the kernel
calling what is registered; `Drop`, `Pack`, `PackNone` and `Shrink` are the other
calls as a whole. `Register`, `SetEnabled` and `SetTracking` are the deferred work and
the two switches.

`Env` has what else can go wrong: `"reclaim"` (the shrinker scans), `"locked"` (the
drain finds an mmap lock taken), `"unhooked"`, `"oom"`, `"bad"` (an object that cannot be
read or decompressed), `"nopte"` (no page table at the installation), and `"late"`. Where
one of the first six costs a page its data, or the data its handler, the page becomes
`harmed` in that step: the code has nothing to set against it, and what the properties say
is that no other page is lost. `"late"` drops `Prompt`, an assumption on time and
not on code: that a patched kernel's fault handler and zap callback are through
when the module comes to the end of `minimem_hook_exit`. The code does not wait for
them, and section 3 says what follows.

### MC and proof modules

`MCCompressionMap`, `MCPageLifecycle`, `MCParallelCluster`, `MCMmuNotifier`,
`MCScanner`, `MCProcStats`, `MCCodecs` and `MCLifecycle` define the
sets of actors, symmetries, layouts and thread-to-process assignments for TLC.
`CompressionMapProofs`, `ParallelClusterProofs`, `ProcStatsProofs`,
`MmuNotifierProofs`, `PageLifecycleProofs`, `CodecsProofs`, `ScannerProofs` and
`LifecycleProofs` hold the theorems about the module each is named after. Operators
whose comment begins with "Mutant" are plausible bugs of the definition they
precede; no specification uses them. Each property is violated when one of them
takes the place of that definition.

## 3. What the runs check

Passing runs:

| run | instance | properties |
|---|---|---|
| `map` | 3 threads, 2 page indices, 3 slab objects, drains of 0 to 2 | `SlotsSound`: whatever the xarray leads to is allocated and is that page's entry. `LockedReadSafe`: a cluster lookup copies a live entry of its page. `EntriesCounted`: outside a store's critical section the count is not below the number of entries, so the drain on unload, which gives up at zero, misses nothing. `ImplementsAtomicMap`: the refinement above. `TypeOK`, with the drain's budget |
| `page_all` | 2 threads of one process, 2 compressors, 1 address, 3 pages, 2 handles, patched and stock kernels, every environment but `tlb` | `RssExact`: `MM_ANONPAGES` is the number of present entries plus what compressors still owe. `RefsCoverUsers`: a page has a reference for each entry that maps it, each compression that pins it and each restoration about to install it. These hold *although* data is lost in this instance (see below): the damage stays in the compressed data |
| `page_async` | 1 thread racing 1 compressor over 2 addresses, with discards, exit and stale translations | `MarkerBacked`: a marker at rest has its data. `NoUseAfterFree`, `NoObjectLeak`. `EntriesOwned`: discarded memory and ended processes leave nothing compressed behind |
| `page_sync` | 1 thread that compresses its own pages (what `compress_vaddr` does), 2 addresses, 2 contents, plus the debugfs tests, patched and stock kernels | `Lossless`: the application reads what it last wrote |
| `parallel` | 2 calls of 2 pages each, weak fairness | `RemainingExact`, `NoLostWakeup`, `ItemsPinned`, `NoWorkAfterExit`, and the liveness property `CallsReturn` |
| `notifier` | 1 address space, the scanner, one writer to `compress_pid`, both work items, exit and unload, also together | `UsersCover`: `mm_users` is at least the number of contexts, pending entries and array slots that still lead to the address space, so it is not torn down under any. `Registered` (liveness): a pending registration gets its notifier unless the module goes first. `NoDanglingOps`: when the module is gone, so are its notifiers |
| `scanner` | 2 processes of 2 pages in 2 VMAs and of 1 page, budgets of 2 pages to mark and 1 to sweep, one page that does not compress; processes start and exit, pages are used, the module is removed | `PassComplete`: a pass, however it is cut, looks at every page that was there all along. `ColdSwept` (liveness): a page left alone is compressed. `StopEnds` (liveness): the thread ends. `TypeOK`: the sleep and the budgets stay in their ranges |
| `proc_stats` | 3 processes, 2 entries, 3 allocations, out of memory at any time | `CountExact`, `NoUseAfterFree`, `NoLeak`, and `DeadCollected` (liveness): the entry of a process that is gone goes. `TypeOK`: never more than the limit |
| `codecs` | all pages of 8 bytes over 3 values, with lines of 2 words and small dictionaries | `OthersLossless`: every codec but bdi gives back the page. `BdiExact`: bdi does exactly if its differences fit a signed byte. `TypeOK`: what is kept is smaller than the page |
| `lifecycle` | 1 page, 2 threads, 2 CPUs, kernels that lack any one feature, 2 loads, every init function failing, all calls into the module, two faults on the page, every environment but `"late"` | `OnlyLeaksRemain`: a module that is not loaded holds nothing but the two leaks below. `NoUseAfterTeardown`: no call runs without what it relies on. `NoDataLost`: what an application sees as compressed has its data and somebody to answer the fault, or a fault is about to install it, unless the page is `harmed`. `SigbusOnlyToLosers`: a `SIGBUS` goes only to a harmed page, or to a fault on a page that is there again or about to be. `TypeOK`: never both ways of intercepting faults |

Runs that find a statement of the repository not to hold:

| run | statement | what happens |
|---|---|---|
| `page_two_mms` | `docs/architecture.md:53` "keyed by (mm_struct, virtual address)" | the index is the virtual page number alone; two processes with a marker at one address share one entry |
| `codecs_bdi` | `docs/goal.md:50` "Every byte must decompress to exactly the original value" | bdi accepts differences below 256, keeps their low byte and reads it as a signed one; the kernel picks bdi for pages that have such differences |

### Further divergences

Seen while the modules were written, and left without a run of their own. Each
of those with a formula is reproduced by adding the formula to the module (where
a name is given it is there already) and running it with the bounds given.

Page life cycle, map, clusters and notifiers:

* Two threads fault on one marker: the first removes the entry before it installs
  the page, the second finds none and gets `VM_FAULT_SIGBUS`
  (`minimem_hook.c:652` has "PTE marker replacement is safe during scanner
  sweep"). `NoSigbus` with two threads of one address space, one compressor, one
  address and `Env = {}`.
* The shrinker's drain callback frees the object and leaves the marker
  (`minimem_shrinker.c:6`: "decompressed pages are restored ... not silently
  discarded"). `MarkerBacked` with `"pressure"`.
* A page stays writable while it is compressed, and `pte_same` sees no write to a
  page that was dirty already (`docs/recovery.md:62`: "No data corruption
  path"). `Lossless` with `"async"`.
* Only the compressor's own pin of the original page is dropped, the reference
  the page table entry stood for is not (`docs/how-it-works.md:55`: "The original
  page is freed back to the system"). `OriginalFreed`.
* The count of a cluster decompression reaches zero between two items, or is read
  between a decrement and its `complete()`: the context is freed under a worker
  (`minimem_parallel.h:50`: "Blocks until all pages are decompressed").
  `BlocksUntilDone` in `ParallelCluster`.
* A lookup outside a cluster decompression is not safe against a removal:
  `kmem_cache_free` without `kfree_rcu` or a type-safe slab frees the entry
  between the lookup's load and its copy (`minimem_map.h:6` has "RCU-safe
  concurrent lookups"). `\A t \in Threads : pc[t] = "lookup" => reg[t].obj \in
  allocated` fails with two threads.
* `minimem_map_store` counts an entry again when it replaces one (and leaks the
  old one): `lock = None => count = Cardinality(Occupied)` fails with two
  stores. `minimem_map.h:85` calls the result "the number of entries in the map".
* `minimem_map_drain` does not hold `map->lock` during the iteration
  (`minimem_map.h:68` says it does): `[][\A t \in Threads : pc[t] = "callback"
  => Occupied' \subseteq Occupied]_vars` fails with two threads.
* On a stock kernel a fault that finds no memory is a `SIGBUS`, not a retry: the
  kretprobe's entry handler returns 0 and `do_swap_page` goes on with the marker
  (`docs/recovery.md:58`: "MiniMem does not introduce new failure modes").
  `NoSigbus` with one thread and `"stock"`.
* On a stock kernel `munmap` and `madvise` call nobody for the markers they clear:
  the entry and its object stay. `EntriesOwned` with `"stock"`.
* Two compressors of one page (scanner and `compress_pid`): the one that finds
  the entry changed removes the map entry, which is the other's. `MarkerBacked`
  with `Compressors = {c1, c2}`, one address, `Env = {"async"}`.
* `compress_and_replace_pte` installs the marker without a TLB flush
  (`docs/research/019-pte-marking-and-fault-interception.md:81` has
  `flush_tlb_page`): `\A x \in tlb : pte[x[1]][x[2]].page = x[3]` with `"tlb"`.
* `minimem_zap_range` that cannot grow its array has already cleared the marker
  it then does not record: `EntriesOwned` with `ZapCap = 1`, two addresses,
  `Env = {"exit"}`.
* `compress_and_replace_pte` does not look at `max_pool_pages`:
  `MaxPool > 0 => Cardinality({h \in Handles : zs[h] # Free}) <= MaxPool` with
  `MaxPool = 1` and two addresses.
* Nothing waits for a fault handler that is running when the module goes:
  `module = "unloaded" => \A t \in Threads : pc[t] = "idle"` with `"unload"`.
* After an early completion the statuses of the items at work are still the
  zeroes of `kzalloc`, and the call returns 0: `result[c] = "ok" =>
  Outstanding(c) = {}` in `ParallelCluster`.
* `minimem_scan_batch_vma` takes two references on an address space and drops
  one, and a deferred registration that replaces a pending one never drops its
  own: an exited process is not torn down, its notifier's release never runs
  (`docs/research/022-kernel-upstreaming-requirements.md:24` has "no resource
  leaks"). In `MmuNotifier`: `pending = {} /\ queued = {} /\ (\A x \in Actors :
  pc[x] \in {"idle", "exited"}) => alive \union torn = Mms`.
* Release drops one registration of a notifier that may have several, which
  stays until unload: under the same condition, `\A m \in torn : sub[m] # "linked"`.
* `minimem_mmu_exit` reads `users` and then puts that often, while an exiting
  process puts too, with `"late"`; and `list_for_each_entry_safe` (`minimem_mmu.c:380`)
  has saved the address of the next notifier, which a process that exited a moment before
  frees during the walk, without `"late"` as well: `pc[Unloader] # "freed"` fails
  with two address spaces, `Scanners = {}`, one writer, `MaxUsers = 3` and `MaxRegs = 1`. `PutsWhatIsThere` in section 4 is what remains:
  without `"late"` the put itself is never of a freed notifier.
* The result of `xa_store` is not looked at when a registration is deferred or put
  back (`minimem_mmu.c:290`, `:328`): it is lost, and its reference with it.
  `Registered` with `"oom"`.
* The workqueue is destroyed with the delayed work's timer armed:
  `wq \in {"gone", "unloaded"} => ~timer`.
* A work item that cannot allocate its array returns and leaves the registrations
  pending with nothing queued: `NoLostRegistration` with `"oom"`.

Scanner:

* Pids that do not grow along the task list (after they wrapped) are before the
  cursor although the scanner has not been there: `PassComplete` with
  `Pid = <<11, 10>>`.
* Enabling the scanner in the middle of a batch resets the cursors, and the batch
  then sets its own: the first pass starts in the middle. `PassComplete` with
  `"race"`.
* `skip_list` decays after eight *empty* cycles in a row, and no mark batch is
  empty while anything is resident: a page whose compression failed once for want
  of memory, and every page with its hash, whatever the process, is passed over
  for good (`docs/feature-registry.md:70`: "skip for 8 cycles then decay").
  `Retried` with `"fail"`.
* An interval set above the adaptive maximum of 30 s shrinks to it when a cycle is
  empty, and a new interval is not used before a batch finds something: with
  `AdaptiveMax` below a request, `pc = "top" /\ empty > 0 => wait >= interval`.
* The clock is looked at every 32 or 64 pages and once more after the VMA: a CPU
  budget raised between the two leaves the rest of that VMA for the next pass.
* The scanner neither clears nor reads a page table entry's accessed bit: the
  "young" of `minimem_scanner.c:20` is the page's flag, which changes when the
  kernel harvests that bit for reasons of its own.
* `minimem_scan_batch_pfn` is for kernels whose symbols are not resolved, and on
  those the thread does not come to it.
* `msleep_interruptible` sleeps on when `kthread_stop` wakes the thread, so that
  removing the module may take as long as the interval, up to 60 s.

Statistics:

* Switching the statistics off erases entries that updaters have found and are
  about to add to, and entries that are being allocated come back after it
  (`README.md:180`: "writing 0 clears all entries"): `DisabledEmpty`,
  `NoUseAfterFree` and `TypeOK` (the count falls below zero) with `"race"`.
* The sysfs listing walks the array without an RCU section: `NoUseAfterFree` with
  `"summary"`.
* The collector looks at the pid before it takes the lock: a new process with that
  pid adds to the entry that is being freed. `NoUseAfterFree` with `"reuse"`.
* The result of `xa_store` is not looked at: `CountExact` and `NoLeak` with
  `"store"`.
* Only `minimem_zswap_compress_and_store` and `..._decompress_and_restore` update
  entries, and these are called by the debugfs tests alone (`minimem_main.c:830`,
  `:847`, `:922`) and by the scan of page frames, which is never reached: what the
  scanner, `compress_pid` and faults do is not counted.
* The collector is called by the scanner's thread, after it has looked whether it is
  enabled (`minimem_scanner.c:816`): with the statistics on and the scanner off, as
  it is by default, the entries of dead processes stay and fill the table.
  `DeadCollected` without its last alternative, `~scanning`, fails.
* Entries are keyed by `current->pid`, which is a thread's, so a process with many
  threads fills the table by itself. It also means that only one thread stores under a
  pid, and that the second look for an entry under the lock
  (`minimem_proc_stats.c:87`) finds none. `StoreFound` models it all the same.

Codecs:

* `bdi_compress_bound` is 1092 for a page and bdi writes up to 4164 bytes (it
  looks at what room it has, so a caller that trusts the bound gets "does not
  compress").
* `minimem_compress.h` has "Returns MINIMEM_INCOMPRESSIBLE if no algorithm can
  compress the page"; one algorithm is tried, and `block_class` is never chosen.
* The advisor names same_page for pages that are nearly one byte, which same_page
  declines; delta declines every page.
* `lz4_wrap.c:13` allocates with `GFP_KERNEL` while its caller has preemption
  disabled.

Loading and unloading:

* `minimem_proc_stats_exit` (`minimem_proc_stats.c:453`) has no caller, neither in
  `minimem_exit` nor on the error paths of `minimem_init`, so that the statistics entries
  outlive the module; and the drain takes two references to each address space and
  drops one (`minimem_zswap.c:326`, `:493`)
  (`docs/research/022-kernel-upstreaming-requirements.md:24`: "clean `rmmod` with no
  resource leaks (already verified)"). `NothingLeftBehind` with `Env = {}`.
* A fault whose page the drain has restored in the meantime finds no entry, and its
  process gets a `SIGBUS` (`minimem_hook.c:277`; the kretprobe leaves it to
  `do_swap_page`) (`docs/recovery.md:56`: "The `rmmod` path is safe"). `UnloadKillsNobody` with `Env = {}`.
* An unload loses pages (`docs/recovery.md:16`: "All compressed pages are decompressed back
  to normal memory on unload. **No data is lost.**"), as the pool is destroyed after the
  drain whatever it left: it passes over a process whose
  mmap lock is taken (`minimem_zswap.c:335`, `"locked"`), has no page or buffer to
  restore to (`:404`, `"oom"`), cannot read an object (`:421`) or decompress it, and then
  removes it (`:441`, both `"bad"`), or finds no page table (`:479`, `"nopte"`).
  Reclaim empties the pool under markers before that (`"reclaim"`). The formula of
  `NoDataLost` over all `Pages` instead of those not `harmed` fails with each of them.
* A kretprobe that cannot be registered is not fatal (`minimem_main.c:1157`): the
  module is loaded, and sysfs and debugfs install markers that nobody handles
  (`docs/recovery.md:60`: "If the kprobe fails to register, the module simply
  refuses to load"). `LoadedIntercepts` with `"unhooked"`.
* Unregistering the handler waits for RCU sections, outside of which the handler sleeps,
  and the zap callback is cleared without any wait (`minimem_hook.c:614`): a call that
  is still inside finds the pool destroyed
  (`docs/research/022-kernel-upstreaming-requirements.md:37`: "Already verified:
  shrinker drains, RCU grace periods, clean `rmmod`"). `NoUseAfterTeardown` with `"late"`.
* A fault on a stock kernel that finds no memory is a `SIGBUS`
  (`docs/recovery.md:58`): `SigbusOnlyToLosers` without its first alternative, with `"oom"`.
* A page that is compressed again between a fault's removal of its entry and its
  installation: the fault installs its older copy. The packing of a page that a fault
  carries is left out of `Lifecycle` and is in `PageLifecycle` (`page_all`).
* The slab of the map is created with `SLAB_PANIC`, so that its failure cannot be
  unwound; `minimem_hook_exit` leaves `kernel_patches_detected` set; the parallel
  benchmark's error path leaks its pages.

### The bounds, and why they are enough

* Map: a race needs a victim and an intruder; the third thread lets a second
  writer or reader run against the pair. Two indices distinguish "this page's
  entry" from "another's", and three slab objects let an object be freed and
  reused while an old pointer to it is still held.
* `page_all` has one address, because rss and references do not relate
  addresses to each other, but two threads, two compressors and the unload
  drain contend for it. Three pages are one to be compressed, one restored and
  one spare; `MaxPool = 1` puts the pool limit in reach.
* `page_async` deliberately has one thread, one compressor and no memory
  pressure: with a second thread, a second compressor or the shrinker its
  properties fail, and on a stock kernel some do, as the list above shows. It says
  that these are the *only* causes among the environments modelled, in particular
  that discards, exits, stale translations and failed stores are handled.
* `page_sync` is the strongest setting in which `Lossless` holds: it fails with
  `"async"` (see above).
* `ZapCap` stands for the 256 addresses `minimem_zap_range` can hold before it
  must grow; 2 is the number of addresses, so it does not have to.
* `ParallelCluster` has two items per call, enough for one to finish before the
  next is counted, and two calls because they share map, mode and workqueue. A
  freed context is not handed out again, so that what a late worker does to it
  stays visible instead of turning into another call's corruption.
* `notifier` has one address space: nothing in the code relates two of them but
  the array and the list they wait in. `MaxUsers = 5` and `MaxRegs = 2` bound the
  two counts that callers raise without limit (see the leaks above); five are
  enough for the process, both callers and two deferrals, one pending and one
  being tried, and two registrations make a notifier that release does not free.
  Allocations do not fail in it, for the reason above.
* `scanner` has two processes, because the cursor compares pids, and two VMAs in
  the first, because it compares addresses. A mark budget of two ends a batch inside a process and between two; a
  sweep budget of one ends one after each page. Both strides are 1, so that the
  clock can end a batch wherever the code looks at it. `SkipSize = 3` keeps the
  three pages' hashes apart (with a collision `ColdSwept` fails, see above).
  `DecayCycles` of three instead of eight, and intervals of 1 to 4 with an adaptive
  maximum of 3, reach the decay and both ends of the back-off. `MaxCalls` bounds
  the writes to the switch and the interval; the interval itself is set in
  one call to a value below the minimum, which the clamp raises. Pids grow along the task
  list, and the environments of the divergences above are off.
* `proc_stats` has one process more than entries, so that the limit is contended,
  and three allocations, enough for an entry to be collected and a second one for
  its pid to be allocated while it waits for the grace period.
* `codecs` scales the byte to four values and the page to eight bytes: one line of
  a base and one difference, two blocks, words of 4 and 2 bytes. Two dictionary
  entries make collisions happen in a page of four words. Over three of the
  four values a byte still takes both signs.
* `lifecycle` has one page, as every call is about one, and pages meet only in the
  walk of the drain, which visits each by itself; that they do not
  disturb each other there is part of what section 4 proves of any number. Two threads let two faults race each other
  and the drain; two CPUs make a partial allocation of buffers; two loads let what the
  first leaves behind meet the second. A kernel lacks one feature at
  most: two absences are seen by the same conjunctions. `"late"` is off, for the
  reason above.
* `CHECK_DEADLOCK FALSE` is set where the system really stops: every thread may
  have exited and the module be gone (`MCPage*`, the notifier, the scanner), the
  allocations be used up (`MCProcStats`), the page read back (`MCCodecs`), or the
  module be gone after the last load (`MCLifecycle`). The map and the cluster
  instances are checked for deadlock.

### Fairness

`parallel`, `notifier`, `scanner` and `proc_stats` have liveness properties. In the first, `Fairness` asks for weak fairness of
each call once it has started (a kernel thread in the middle of a function keeps
running), of each work item (the workqueue is created with `WQ_MEM_RECLAIM`, so
a rescuer runs what is queued) and of `Drained` (`drain_workqueue` returns when
nothing is left). Nobody is obliged to start a call, to remove a page or to
unload the module.

In `notifier`, every context that has taken the lock or a reference goes on, and
work items and the timer run. Weak fairness is not enough for the retry: the
trylock may fail every time. `LockComesFree` says that a worker that tries again
and again succeeds at some time, which the 50 ms between the tries justify: the
holders of the mmap lock are in no step with them.

In `scanner`, the thread goes on (`WF_vars(Thread)`): its sleep ends and the page
table locks it waits for are released. The mmap lock it only tries, and
applications use their pages as they like; `ColdSwept` therefore speaks of pages
that are used, and locks that are missed, only finitely often. In `proc_stats`,
a collection begins only while `scanning` (the scanner is on and the hook ready) and
the statistics are on: then the thread calls it in each cycle, and one that has begun
goes on. `SetScanner` may switch the scanner at any time, nobody has to, and
`DeadCollected` promises nothing once it is off. The switch of the statistics does
not stop while it holds the spinlock. Nobody else is obliged to do anything. The
rest is safety.

## 4. What is proved

TLAPS checks these for every set of threads, objects, pages, addresses and calls
and every number of CPUs, loads or allocations; the only assumptions are the
named `ASSUME`s of the modules: numbers are naturals, `None` is none of the
values it stands beside, actors of different kinds are different, VMAs of a process
are nonempty and apart, `N` is at most
`MINIMEM_MAX_CLUSTER`, and what is counted is finite (`Objs`, `Calls`, and in
`PageLifecycle`, by `FiniteAssumption`, address spaces, addresses and actors). A
theorem that needs a restriction of `Env` has it as a hypothesis; without such a
hypothesis it holds in every environment the module has.

`CompressionMapProofs`: `TypeCorrect`, `SlotsAreSound`, `LockedReadsAreSafe`,
`ReadersPin` (an action property: while anyone read-locks the map no page loses
its entry), `EntriesAreCounted`, and `MapIsAtomic`, the refinement. The properties are not
inductive alone. The invariant adds

* `LockInv`: who holds the spinlock and the rwsem follows from where the threads
  are, and readers exclude a writer. Without it a removal could run in the
  middle of a locked read;
* `PrivateInv`: the object a thread has filled and not published is allocated,
  in no slot, and no other thread's, so that publishing it makes a slot sound
  and failing frees nothing that is in use;
* `RemoveInv`: what a locked reader loaded can have been replaced but not freed;
* `CountInv`: the count is at least the number of entries, less one while a store
  holds the spinlock between publishing and counting.

The count argument is on cardinalities: a store adds at most one occupied index,
and `Evict` removes one exactly if it found one.

`MapIsAtomic` uses the same invariant. `StepRefines` goes through the actions: a
publication is a `Put`, `EvictTakes` says that unlinking is a `Take` (for which
`LockInv` shows that no reader pins the map), taking and releasing the rwsem for
reading are `Pin` and `Unpin`, and the others stutter.

`ParallelClusterProofs`: `TypeCorrect`, `RemainingIsExact`, `NoWakeupIsLost`,
`ItemsArePinned`, `ExitWaitsForWork`. The invariant adds `ItemInv` (the state of
an item follows from the caller's position in its loop: items at or after `next`
are untouched, but for the one being counted) and `ExitInv` (once exit has begun
no call is inside, so nothing is queued after the workqueue was drained).
`NoLostWakeup` then follows from the exactness of the count: the decrement that
makes it zero is the one that leaves no outstanding item.

`ProcStatsProofs`: `TypeCorrect`, `CountIsExact`, `NobodyUsesAfterFree`,
`NothingLeaks`. None is inductive. `SlotInv` says that an entry is in one slot at
most and never in one while `kfree_rcu` has it; `UpdaterInv` that what an updater
is about to store, or has found, is in no other slot and no other updater's hands;
`CollectorInv` that the collector erases what it loaded; `ToggleInv` that
switching off runs alone and leaves nothing behind its cursor; `CountInv` is the
count. An updater that is about to store finds no entry of its own pid, which only it
stores (`current->pid` is one thread's), so that `StoreFound` does not happen. `NobodyUsesAfterFree` needs two more: `OwnInv` (the process of an entry
about to be erased is gone, so that nobody is using it) and `ReaderInv` (a listing
is inside the RCU section its entries wait for). The hypotheses are the
divergences of section 3: without `"race"` outside `Env`, switching off frees
entries under updaters; without `"reuse"`, a new process finds the entry of the
old one; without `"summary"`, the listing has no RCU section; without `"store"`,
an entry that could not be stored is counted and lost.

`MmuNotifierProofs`: `TypeCorrect`, `ReferencesCover` and `NothingDangles`, in
every environment: the leaks of references are on the safe side. `PcInv` says
where each context can be and at which address space, and that a worker that
puts one has taken it out of its array. `ReferencesCover` is a count:
the references to an address space are its holders (contexts and array slots), the
deferrals that own one and the pending entry; each step changes one of the three and
`mm_users` by the same amount, or leaves a reference over. `SubInv` (a notifier is
linked as long as it has users) and `ExitInv` (after the workqueue is drained every linked
notifier is on the list of `minimem_mmu_exit`, or being put at least as often as
it has users) give `NothingDangles`. That the puts of
`minimem_mmu_exit` are never of a freed notifier (`PutsWhatIsThere`) holds if no
process exits meanwhile (`"late"` outside `Env`); that its walk never comes to one
does not (section 3).

`PageLifecycleProofs`: `TypeCorrect`, `RssIsExact` and `UsersAreCovered`, in
every environment: whatever faults, discards, exits, compressions, tests, memory
pressure and the unload do to each other, `MM_ANONPAGES` is exact and no page
that is mapped, pinned or about to be installed goes back to the allocator.
`LocalsInv` says what each path has in its locals at each of its steps;
`ZapInv` that a zap, which holds the page table lock, still finds the marker it
looked up, and that two zaps are at different addresses; `ExitInv` that an exit
runs alone in its address space. References are counted as mappings plus holders
(`RefsInv`), because each step moves a page from one to the other or changes one
of them by one; `RefsCoverUsers` follows, as the two sets make up `Users`.

Its second part is about who owns entries and objects, and that contents survive.
The map is keyed by the address alone and no lock spans a lookup and what is done
with the result, so none of this holds of two processes at one address, of two
threads faulting on one page, or beside the shrinker or the unload: the list of
divergences in section 3 has what happens to each. The theorems therefore
assume `OneProcess`, which the instances of `page_async` and `page_sync` satisfy:
at most one address space, one thread, one compression and one test at a time, the
tests on indices of their own, no `"pressure"` and no `"unload"`. Within it everything may interleave: the application touches, writes,
discards, faults and exits between any two steps of the compression of its pages,
on a stock or a patched kernel, with stale translations.

* `MarkersAreBacked` and `LookupsStayValid` from `Ownership`, which says for each
  actor and each of its steps which entry it relies on: an object that was packed is
  in no slot of the map and nobody else's (`PackedInv`); until `pte_same` succeeds
  a compression's entry is not a marker, and once it is mapped the map still has its
  object (`CompressInv`); a fault or a zap is at a marker whose entry is the one it
  found (`FaultInv`); an exit runs without compressions, and what it cleared stays
  clear (`ExitingInv`); a marker has an entry unless a fault has just taken it
  (`BackedInv`). The argument that holds them together is `Apart`: a compression
  before its replacement and a fault or zap are never at one address, as one needs
  the entry to be a marker and the other needs it not to be. None of the properties
  is inductive without it.
* `FaultsSucceed`: with a patched kernel (`"stock"` outside `Env`) `sigbus` stays
  empty; on a stock kernel it does not (section 3).
* `EntriesAreOwned` and `ObjectsAreReachable` from `TidyInv`, on a patched kernel,
  without the tests (which store twice under one index and lose the first object)
  and with room for all addresses in the array of the exit (`Tidy`): each left-over
  of section 3 comes from one of these.
* `NothingIsLost` from `LosslessInv`, if applications stop while their pages are
  compressed and no CPU keeps a translation (`Stopped`: `"async"` and `"tlb"`
  outside `Env`): a write between sampling and replacement that leaves the entry
  as it was is lost otherwise. `StoppedInv` keeps the sampled entry in place,
  `ObjectInv` ties the object to the page it was made from, `PageInv` says that no
  page is mapped twice or mapped while it is being filled, and `MemoryInv` and
  `FilledInv` follow the contents from page to object to page.

`ScannerProofs`: `TypeCorrect` in every environment, and `PassesAreComplete` if
pids grow along the task list (`PidsGrow`) and nobody enables the scanner in the
middle of a batch (`"race"` outside `Env`), the two divergences of section 3. It
holds of any number of processes, any VMAs and any budgets and strides, wherever
the clock cuts a batch, while processes start and exit and use their pages. The
invariant says where what is due can be (`DueInv`): at or after the cursor of the
phase, and, within a batch, in a process after the one the batch is at, or in that
one at or after its address. It is not inductive by itself: a batch has to run the
phase that is current, and the other phase must have no cursor (`PhaseInv`),
also after a sweep that is given up, which is why a valid sweep cursor implies that
markers can be handled; and pages belong to processes in the list (`AliveInv`).
`LastProc` and `LastVma` say that the two iterations end only when nothing is left.

`LifecycleProofs`: `TypeCorrect`, `OnlyLeaksAreLeft`, `OthersFindTheirs`, `NoPageIsLost`
and `SigbusIsLate` in every environment, for any number of pages and threads inside the
module; `CallsFindTheirs` if the patched kernel's handlers are through in time (`"late"`
outside `Env`); and `NobodyIsHarmed`, that `harmed` stays empty, if nothing else in `Env`
happens, so that then `NoPageIsLost` is about all pages. At every moment
there is a set of exit functions that would still have to run, `Pending`: what is
set up while loading, the rest of the list while unwinding or unloading. All that
is held and can be given back, and all calls in progress, have their exit function
in it (`OwnInv`, `CallInv`), all of it still has what it gives back (`NeedInv`,
`BufInv`), and the lists are ordered (`PlanInv`): with an exit function that waits for
calls, those that take away what the calls rely on are pending. `OnlyLeaksAreLeft` is the
case of an empty `Pending`: what has no exit function are the references nobody
drops and the entries, which come from debugfs only (`EntriesInv`) and end as `orphans`.
`UnwindFacts` checks the error labels of `minimem_init` against
what was set up, one by one. For `NoPageIsLost`, `MarkerInv` says that the marker of a
page not harmed has its data, or that a fault has a copy which it will install; `SweepInv`, that
there are such markers of the first kind only while their faults are intercepted and the
drain is to come; `DrainInv`, that of the pages the drain has passed only the one in
its hands is one. `SigbusIsLate` follows from `MarkerInv`: a
fault whose lookup fails is not on a marker with data, so that another fault has its
page, it is there again, or it was harmed. For `NobodyIsHarmed`, `HookInv` and `CheckInv` say
that a kernel which passes the compatibility check has the symbols of the hook, so
that whenever a page can be compressed its faults are intercepted.

Each inductive invariant was checked by TLC on the instances of section 3 before
it was proved.

`CodecsProofs`: `TypeCorrect`, `OthersAreLossless` and `BdiIsExact`, for every page
and every size. The assumption on the sizes (`SizesAssumption`) holds of the
constants in the code: a byte has 2^n values (which XOR needs), sizes and dictionaries
are positive, words and blocks have halves, lines and blocks make up the page, and
same_page's five bytes are fewer than a page's. The thresholds of the classifications
can be any numbers. The invariant, `CodecInv`, is short: what is stored reads back
(`Reads`), and what was read back is what that gives. The work is in the lemmas, as
each codec is a loop over data.

* The library's induction theorems take an operator as a parameter, which the
  provers cannot instantiate; `Smallest` (well-foundedness of `<`, which takes a set)
  stands for them: a claim that fails has a first number for which it fails.
  From it follow `Iteration` (a function that is iterated has a value after every
  step) and `Agree` (two that start and go on alike end alike), which give every
  recursive definition its equations: `PowerFacts`, `NumberFacts`, and from these
  that the digits of a number are the ones it was made of, and it the number of them.
* Bytes of words and words of bytes are inverse (`BytesOfWords`,
  `BytesInjective`), and cutting a page in lines or blocks and joining them is
  (`BdiLines`, `JoinBlocks`).
* A line of bdi is read back unless it was packed as differences that a signed byte
  does not hold; a difference outside is changed by 256, so that the page is too
  (`BdiLine`, `BdiRoundTrip`).
* The decompressor of wkdm follows its compressor: after every word it has the same
  dictionary, and its position in each area is the length the area had
  (`DecoderFollows`). It reads from the finished areas, of which those at any
  moment are prefixes (`Growing`).
* A block is read back from its type and code (`BlockBack`): of a sparse block, the
  byte at a place is the one that as many kept bytes precede as there are nonzero
  ones before it (`KeptFacts`); of a packed one, the differences are the digits of a
  number whose base their range does not exceed (`PackedFacts`).
* The XOR with the block before is undone from the first block on
  (`XorBlocksFacts`, `Int8RoundTrip`), and the split in low and high bytes by
  interleaving (`SplitRoundTrip`).

Model-checked only: all liveness (`CallsReturn`, `Registered`, `ColdSwept`,
`StopEnds`, `DeadCollected`), which is out of the proof system's reach. Every
invariant and action property that a passing run checks, and the refinement, is
stated by a theorem.

No module with a theorem reaches a `RECURSIVE` operator.

## 5. Not modelled, and why

* The registers and return values of the kretprobe, and a probe missed for want of
  an instance: what its handlers do to page table, map and pool is modelled.
* The marker's bits (`minimem_pte.h`): a fixed arrangement of fields in a word,
  without state; a marker is a value in `PageLifecycle`. The fault stub and the
  self-test of the encoding (`minimem_fault.c`) do nothing else.
* The vendored coders (`src/lib/vendor`) and the user-space wrappers of LZ4, zstd
  and LZSSE8 around them; the bit-exact layout of what the other codecs write.
  In `PageLifecycle` decompression inverts compression.
* The VRAM prototype (`src/vram`): a user-space table that only its test calls.
* Attributes and files that print statistics, and the counters only they read.
* `mremap` of a marker, `fork` and swap: the page table here has neither. Whether
  a callback may sleep (the zap callback takes a rwsem under a spinlock) is not
  a property of these states.

## 6. Plan

Done: all the modules above, their runs, and the proofs of section 4. Left:

* Liveness of a fault on a compressed page, under the fairness of its handler, as a
  property of a run.
* The VRAM prototype, once something in the module uses it.

## 7. Running it

    tlc -workers 2 -config MCPageAsync.cfg MCPageLifecycle
    tlapm CompressionMapProofs.tla

Runs, their properties, the mutants and the source lines of every definition are
in `PROJECT.json`.
