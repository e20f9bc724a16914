----------------------------- MODULE Lifecycle ------------------------------
(***************************************************************************)
(* Loading and unloading the module (minimem_init and minimem_exit of      *)
(* minimem_main.c, and the init and exit functions they call), against the *)
(* kernel and the applications, which enter the module's code wherever it  *)
(* is registered: faults on markers, zaps, reclaim, address space          *)
(* teardown, the scanner thread, sysfs and debugfs writers.                *)
(*                                                                         *)
(* A fault and the drain go through the steps others can come between:     *)
(* looking the data up, removing it, installing the page.  A replacement   *)
(* and a zap, which PageLifecycle takes apart, are one step each.          *)
(***************************************************************************)
EXTENDS Naturals, Sequences, FiniteSets

CONSTANTS
  Pages,    \* anonymous pages of applications
  Threads,  \* contexts that can be in the module's code at once
  NumCpus,  \* possible CPUs, each with two buffers
  MaxGone,  \* how many features a kernel may lack at once
  MaxLoads, \* how many times the module is loaded
  Env       \* what else happens, a subset of EnvKinds

EnvKinds == {"reclaim",  \* the shrinker scans, and does not only count
             "locked",   \* the unload drain finds an mmap lock taken
             "unhooked", \* register_kretprobe may fail, or do_swap_page is gone
             "oom",      \* allocations fail while a page is restored
             "bad",      \* an object cannot be read or does not decompress
             "nopte",    \* the page table is gone when a page is installed
             "late"}     \* a handler outlasts the wait of its unregistering

ASSUME BoundsAssumption == /\ NumCpus \in Nat \ {0} /\ MaxGone \in Nat
                           /\ MaxLoads \in Nat
ASSUME EnvAssumption == Env \subseteq EnvKinds
ASSUME PagesAssumption == Pages \cap {"none", "idle", "walk"} = {}

\* Symbols minimem_compat_check insists on, and those the hook cannot do without.
CheckedSymbols == {"__pte_offset_map_lock", "pte_mkwrite", "folio_add_new_anon_rmap"}
HookSymbols    == {"__pte_offset_map_lock", "pte_mkwrite", "folio_add_new_anon_rmap"}
Patches  == {"minimem_register_fault_handler", "minimem_unregister_fault_handler"}
Features == CheckedSymbols \union HookSymbols \union Patches
              \union {"minimem_zap_cb", "kallsyms", "version", "zsmalloc",
                      "pte_marker", "do_swap_page"}

\* What the module holds or has registered.  The last four are, once there is
\* one of them: a request for a notifier, with its mm reference; entries of the
\* per-process statistics; and references and entries nobody can give back.
Resources == {"pool", "dec_wq", "shrinker", "mmu_wq", "notifier", "thread",
              "handler", "zap_cb", "kretprobe", "kobj", "group", "files", "debugfs",
              "request", "entries", "mm_users", "orphans"}
Leaks == {"mm_users", "orphans"}
Buffers == (1 .. NumCpus) \X {"compress", "decompress"}

\* Calls into the module, with what their code relies on.
Relies == [fault   |-> {"pool"},
           probe   |-> {"pool"},
           zap     |-> {"pool"},
           reclaim |-> {"pool"},
           release |-> {"pool"},
           sweep   |-> {"pool", "mmu_wq"},
           sysfs   |-> {"pool", "mmu_wq"},
           debugfs |-> {"pool", "mmu_wq", "dec_wq"}]
Calls == DOMAIN Relies
Faults  == {"fault", "probe"}
Packers == {"sweep", "sysfs", "debugfs"}  \* they use the per-CPU buffers too

VARIABLES
  kernel,   \* the features the running kernel has
  phase,    \* "absent", "loading", "loaded", "unwinding" or "unloading"
  step,     \* the init function to call next, while loading
  todo,     \* the exit functions still to call, while unwinding or unloading
  held,     \* the resources the module holds
  bufs,     \* the per-CPU buffers it holds
  symbols,  \* symbols_resolved
  enabled,  \* scanner_enabled
  tracking, \* mm_proc_stats_enabled
  call,     \* [Threads -> Calls or "none"]: the call each is in
  at,       \* [Threads -> Pages or "none"]: the page it is for
  stage,    \* [Threads -> "in", "copied" or "removed"]: how far a fault is
  page,     \* [Pages -> "present" or "marker"]: the application's pte
  stored,   \* the pages with compressed data in the pool
  killed,   \* the pages at which an application got a SIGBUS
  harmed,   \* those at which something of Env went wrong; no code, for NoDataLost
  drain,    \* the unload drain: "idle", "walk", or the page it has a copy of
  drained,  \* the pages it has passed
  loads     \* how many times the module was loaded

threads == <<call, at, stage>>
flags   == <<symbols, enabled, tracking>>
passes  == <<drain, drained>>
fates   == <<killed, harmed>>
control == <<phase, step, todo, loads>>
module  == <<held, bufs, flags, passes>>
world   == <<kernel, threads, page, stored, fates>>
vars    == <<control, module, world>>

Init ==
  /\ \E gone \in SUBSET Features :
       /\ Cardinality(gone) <= MaxGone
       /\ "unhooked" \notin Env => "do_swap_page" \notin gone
       /\ kernel = Features \ gone
  /\ phase = "absent" /\ step = "compat" /\ todo = <<>> /\ loads = 0
  /\ held = {} /\ bufs = {} /\ drain = "idle" /\ drained = {}
  /\ symbols = FALSE /\ enabled = FALSE /\ tracking = FALSE
  /\ call = [t \in Threads |-> "none"] /\ at = [t \in Threads |-> "none"]
  /\ stage = [t \in Threads |-> "in"]
  /\ page = [p \in Pages |-> "present"] /\ stored = {}
  /\ killed = {} /\ harmed = {}

Has(names) == names \subseteq kernel

-----------------------------------------------------------------------------
(* minimem_compat_check: refuse to load on a kernel that lacks what the    *)
(* module cannot do without.  Symbols are looked up by kallsyms.           *)

Critical == {"version", "kallsyms", "pte_marker", "zsmalloc"} \union CheckedSymbols

Load ==
  /\ phase = "absent" /\ loads < MaxLoads
  /\ loads' = loads + 1
  /\ symbols' = FALSE /\ enabled' = FALSE /\ tracking' = FALSE  \* fresh statics
  /\ IF Has(Critical) THEN phase' = "loading" /\ step' = "compress"
                      ELSE UNCHANGED <<phase, step>>
  /\ UNCHANGED <<todo, held, bufs, passes, world>>

\* minimem_compress_init: two buffers for each CPU, or none.
FreeBuffers == bufs' = {}

AllocBuffer ==
  /\ phase = "loading" /\ step = "compress"
  /\ \E cpu \in 1 .. NumCpus, kind \in {"compress", "decompress"} :
       /\ <<cpu, kind>> \notin bufs
       /\ \A b \in Buffers : b[1] < cpu => b \in bufs
       /\ kind = "decompress" => <<cpu, "compress">> \in bufs
       /\ bufs' = bufs \union {<<cpu, kind>>}
  /\ UNCHANGED <<control, held, flags, passes, world>>

AllocFail ==
  /\ phase = "loading" /\ step = "compress" /\ bufs # Buffers
  /\ FreeBuffers
  /\ phase' = "absent"
  /\ UNCHANGED <<step, todo, loads, held, flags, passes, world>>

BuffersDone ==
  /\ phase = "loading" /\ step = "compress" /\ bufs = Buffers
  /\ step' = "zswap"
  /\ UNCHANGED <<phase, todo, loads, module, world>>

-----------------------------------------------------------------------------
(* The init functions, what each acquires, the one called after it, and    *)
(* what minimem_init undoes, in order, when it fails.                      *)

Acquires == [zswap |-> {"pool"}, parallel |-> {"dec_wq"}, shrinker |-> {"shrinker"},
             mmu |-> {"mmu_wq"}, scanner |-> {"thread"}, kobj |-> {"kobj"},
             group |-> {"group"}]

Then == [zswap |-> "parallel", parallel |-> "shrinker", shrinker |-> "mmu",
         mmu |-> "scanner", scanner |-> "hook", kobj |-> "group",
         group |-> "files"]

\* Mutant: the hook is forgotten when the kobject cannot be created.
UnwindNoHook(s) ==
  CASE s = "zswap"    -> <<"compress">>
    [] s = "parallel" -> <<"zswap", "compress">>
    [] s = "shrinker" -> <<"fault", "parallel", "zswap", "compress">>
    [] s = "mmu"      -> <<"shrinker", "fault", "parallel", "zswap", "compress">>
    [] s = "scanner"  -> <<"mmu", "shrinker", "fault", "parallel", "zswap", "compress">>
    [] s = "kobj"     -> <<"scanner", "mmu", "shrinker", "fault", "parallel",
                           "zswap", "compress">>
    [] s = "group"    -> <<"kobj", "hook", "scanner", "mmu", "shrinker", "fault",
                           "parallel", "zswap", "compress">>

Unwind(s) ==
  CASE s = "zswap"    -> <<"compress">>
    [] s = "parallel" -> <<"zswap", "compress">>
    [] s = "shrinker" -> <<"fault", "parallel", "zswap", "compress">>
    [] s = "mmu"      -> <<"shrinker", "fault", "parallel", "zswap", "compress">>
    [] s = "scanner"  -> <<"mmu", "shrinker", "fault", "parallel", "zswap", "compress">>
    [] s = "kobj"     -> <<"hook", "scanner", "mmu", "shrinker", "fault", "parallel",
                           "zswap", "compress">>
    [] s = "group"    -> <<"kobj", "hook", "scanner", "mmu", "shrinker", "fault",
                           "parallel", "zswap", "compress">>

InitOk(s) ==
  /\ phase = "loading" /\ step = s
  /\ held' = held \union Acquires[s]
  /\ step' = Then[s]
  /\ UNCHANGED <<phase, todo, loads, bufs, flags, passes, world>>

InitFail(s) ==
  /\ phase = "loading" /\ step = s
  /\ phase' = "unwinding" /\ todo' = Unwind(s)
  /\ UNCHANGED <<step, loads, module, world>>

\* minimem_hook_init.  The patched kernel's handler, and the zap callback if
\* its pointer is exported; on a kernel without patches, or one that refuses
\* the handler, the kretprobe on do_swap_page.  No failure is fatal to the load.
Patched == Has(Patches)

\* Mutant: the kretprobe is registered beside the handler.
HooksBoth ==
  (IF Patched THEN {"handler"} \union (kernel \cap {"minimem_zap_cb"}) ELSE {})
    \union {"kretprobe"}

Hooks ==
  IF Patched
    THEN {"handler"} \union (IF Has({"minimem_zap_cb"}) THEN {"zap_cb"} ELSE {})
    ELSE {"kretprobe"}

HookInit ==
  /\ phase = "loading" /\ step = "hook"
  /\ symbols' = Has({"kallsyms"} \union HookSymbols)
  /\ \/ symbols' /\ (Patched \/ Has({"do_swap_page"}))
          /\ held' = held \union Hooks
     \/ symbols' /\ Patched /\ Has({"do_swap_page"})
          /\ held' = held \union {"kretprobe"}
     \/ ~ symbols' /\ UNCHANGED held
     \/ "unhooked" \in Env /\ UNCHANGED held
  /\ step' = "kobj"
  /\ UNCHANGED <<phase, todo, loads, bufs, enabled, tracking, passes, world>>

\* The per-process attributes and debugfs: what fails is left out.
FilesInit ==
  /\ phase = "loading" /\ step = "files"
  /\ \E got \in SUBSET {"files", "debugfs"} : held' = held \union got
  /\ phase' = "loaded"
  /\ UNCHANGED <<step, todo, loads, bufs, flags, passes, world>>

-----------------------------------------------------------------------------
(* The exit functions: each closes the doors it owns, so that no further   *)
(* call enters, waits for the calls inside and gives the rest back.        *)
(* Removing sysfs and debugfs files waits for their writers, kthread_stop  *)
(* for the thread, shrinker_free for scans, mmu_notifier_synchronize for   *)
(* notifier callbacks and unregister_kretprobe for its handlers.           *)

\* Mutants: scanner_exit after the drain, and zswap_exit before the shrinker's.
ExitDrainsFirst ==
  <<"files", "debugfs", "group", "kobj", "drain", "scanner", "hook", "mmu",
    "shrinker", "fault", "parallel", "zswap", "compress">>

ExitZswapFirst ==
  <<"files", "debugfs", "group", "kobj", "scanner", "drain", "hook", "mmu",
    "zswap", "shrinker", "fault", "parallel", "compress">>

ExitOrder ==
  <<"files", "debugfs", "group", "kobj", "scanner", "drain", "hook", "mmu",
    "shrinker", "fault", "parallel", "zswap", "compress">>

\* No exit function gives the entries of the statistics back:
\* minimem_proc_stats_exit has no caller.
GivesBack(s) ==
  CASE s = "files"    -> {"files"}
    [] s = "debugfs"  -> {"debugfs"}
    [] s = "group"    -> {"group"}
    [] s = "kobj"     -> {"kobj"}
    [] s = "scanner"  -> {"thread"}
    [] s = "hook"     -> {"handler", "zap_cb", "kretprobe"}
    [] s = "mmu"      -> {"mmu_wq", "request", "notifier"}
    [] s = "shrinker" -> {"shrinker"}
    [] s = "parallel" -> {"dec_wq"}
    [] s = "zswap"    -> {"pool"}
    [] OTHER          -> {}

WaitsFor(s) ==
  CASE s = "debugfs"  -> {"debugfs"}
    [] s = "group"    -> {"sysfs"}
    [] s = "scanner"  -> {"sweep"}
    [] s = "hook"     -> {"probe"}
    [] s = "mmu"      -> {"release"}
    [] s = "shrinker" -> {"reclaim"}
    [] OTHER          -> {}

\* Where the kernel and user space come in.
Doors == {"debugfs", "group", "thread", "handler", "zap_cb", "kretprobe",
          "notifier", "shrinker"}

InProgress(kinds) == \E t \in Threads : call[t] \in kinds

\* Nothing waits for the patched kernel's handler, which sleeps outside the RCU
\* section that unregistering waits for, nor for zap callbacks.  That they are
\* through by then is an assumption on time, which "late" drops.
Prompt(s) ==
  s = "hook" /\ "late" \notin Env => ~ InProgress({"fault", "zap"})

\* rmmod; a process that has a debugfs file open holds the module.
Unload ==
  /\ phase = "loaded"
  /\ ~ InProgress({"debugfs"})
  /\ phase' = "unloading" /\ todo' = ExitOrder
  /\ UNCHANGED <<step, loads, module, world>>

Undoing == phase \in {"unwinding", "unloading"} /\ todo # <<>>

\* The doors of the next exit function that are still open.
Open == GivesBack(Head(todo)) \cap Doors \cap held

\* minimem_scanner_exit clears the switch before it stops the thread.
Close ==
  /\ Undoing /\ Open # {}
  /\ held' = held \ Open
  /\ enabled' = (enabled /\ Head(todo) # "scanner")
  /\ UNCHANGED <<control, bufs, symbols, tracking, passes, world>>

\* xa_destroy forgets the requests that are still pending, not their references.
Forgotten(s) == IF s = "mmu" /\ "request" \in held THEN {"mm_users"} ELSE {}

Exit ==
  /\ Undoing /\ Open = {}
  /\ LET s == Head(todo) IN
       /\ s # "drain"
       /\ ~ InProgress(WaitsFor(s)) /\ Prompt(s)
       /\ held' = (held \ GivesBack(s)) \union Forgotten(s)
       /\ IF s = "compress" THEN FreeBuffers ELSE UNCHANGED bufs
       /\ stored' = IF s = "zswap" THEN {} ELSE stored
  /\ todo' = Tail(todo)
  /\ UNCHANGED <<phase, step, loads, flags, passes, kernel, threads, page, fates>>

\* The code and the statics are gone, and with them the table of the entries.
Gone ==
  /\ phase \in {"unwinding", "unloading"} /\ todo = <<>>
  /\ phase' = "absent" /\ step' = "compat"
  /\ held' = IF "entries" \in held THEN (held \ {"entries"}) \union {"orphans"} ELSE held
  /\ UNCHANGED <<todo, loads, bufs, flags, passes, world>>

-----------------------------------------------------------------------------
(* minimem_zswap_drain_and_restore, with the faults and zaps of            *)
(* applications still coming in.                                           *)

Draining == Undoing /\ Head(todo) = "drain"

Harm(p) == harmed' = harmed \union {p}

DrainEmpty ==
  /\ Draining /\ drain = "idle" /\ stored = {}
  /\ todo' = Tail(todo)
  /\ UNCHANGED <<phase, step, loads, module, world>>

\* Every process it visits gives up one of the two references taken.
DrainBegin ==
  /\ Draining /\ drain = "idle" /\ stored # {}
  /\ drain' = "walk"
  /\ held' = held \union {"mm_users"}
  /\ UNCHANGED <<control, bufs, flags, drained, world>>

\* Not a marker, nothing stored, a process whose lock is taken, or a page that
\* cannot be allocated or read.
DrainSkip(p) ==
  /\ Draining /\ drain = "walk" /\ p \notin drained
  /\ \/ (page[p] # "marker" \/ p \notin stored) /\ UNCHANGED harmed
     \/ /\ page[p] = "marker" /\ p \in stored
        /\ Env \cap {"locked", "oom", "bad"} # {} /\ Harm(p)
  /\ drained' = drained \union {p}
  /\ UNCHANGED <<control, held, bufs, flags, drain, kernel, threads, page, stored, killed>>

\* Data that does not decompress is removed from under its marker.
DrainLose(p) ==
  /\ Draining /\ drain = "walk" /\ p \notin drained /\ "bad" \in Env
  /\ page[p] = "marker" /\ p \in stored
  /\ stored' = stored \ {p} /\ Harm(p)
  /\ drained' = drained \union {p}
  /\ UNCHANGED <<control, held, bufs, flags, drain, kernel, threads, page, killed>>

\* Mutant: the entry is removed before the page is installed.
DrainReadRemoves(p) ==
  /\ Draining /\ drain = "walk" /\ p \notin drained
  /\ page[p] = "marker" /\ p \in stored
  /\ drain' = p /\ drained' = drained \union {p}
  /\ stored' = stored \ {p}
  /\ UNCHANGED <<control, held, bufs, flags, kernel, threads, page, fates>>

DrainRead(p) ==
  /\ Draining /\ drain = "walk" /\ p \notin drained
  /\ page[p] = "marker" /\ p \in stored
  /\ drain' = p /\ drained' = drained \union {p}
  /\ UNCHANGED <<control, held, bufs, flags, world>>

\* The copy is installed if the marker is still there, freed if not; the entry
\* goes either way.
DrainRestore ==
  /\ Draining /\ drain \in Pages
  /\ \/ page' = [page EXCEPT ![drain] = "present"] /\ UNCHANGED harmed
     \/ "nopte" \in Env /\ UNCHANGED page /\ Harm(drain)
  /\ stored' = stored \ {drain}
  /\ drain' = "walk"
  /\ UNCHANGED <<control, held, bufs, flags, drained, kernel, threads, killed>>

DrainDone ==
  /\ Draining /\ drain = "walk" /\ drained = Pages
  /\ todo' = Tail(todo) /\ drain' = "idle" /\ drained' = {}
  /\ UNCHANGED <<phase, step, loads, held, bufs, flags, world>>

-----------------------------------------------------------------------------
(* Calls into the module, from where it is registered.                     *)

Intercepts == held \cap {"handler", "kretprobe"} # {}

\* Where a call enters.  The scanner sweeps while it is enabled and faults are
\* intercepted (minimem_hook_marker_ready); the files of sysfs and debugfs
\* that compress do not ask.
Entry(c, p) ==
  \/ c = "fault"   /\ "handler" \in held   /\ page[p] = "marker"
  \/ c = "probe"   /\ "kretprobe" \in held /\ page[p] = "marker"
  \/ c = "zap"     /\ "zap_cb" \in held    /\ page[p] = "marker"
  \/ c = "release" /\ "notifier" \in held  /\ page[p] = "marker"
  \/ c = "reclaim" /\ "shrinker" \in held
  \/ c = "sweep"   /\ "thread" \in held    /\ enabled /\ Intercepts
  \/ c = "sysfs"   /\ "group" \in held
  \/ c = "debugfs" /\ "debugfs" \in held

Inside(kinds, p) == \E t \in Threads : call[t] \in kinds /\ at[t] = p

\* There is one scanner thread; and an address space is released when no other
\* thread uses it any more.
Alone(c, p) ==
  /\ c = "sweep" => ~ InProgress({"sweep"})
  /\ c = "release" => ~ Inside(Calls \ {"reclaim"}, p)
  /\ c # "reclaim" => ~ Inside({"release"}, p)

Enter(t, c, p) ==
  /\ call[t] = "none" /\ Entry(c, p) /\ Alone(c, p)
  /\ call' = [call EXCEPT ![t] = c] /\ at' = [at EXCEPT ![t] = p]
  /\ UNCHANGED <<control, module, kernel, stage, page, stored, fates>>

Leave(t) ==
  /\ call' = [call EXCEPT ![t] = "none"] /\ at' = [at EXCEPT ![t] = "none"]
  /\ stage' = [stage EXCEPT ![t] = "in"]
  /\ UNCHANGED <<control, bufs, symbols, enabled, passes, kernel>>

Sigbus(p) == killed' = killed \union {p}

\* A fault: minimem_vm_fault_handler and minimem_handle_swap_fault look the
\* page up in the map, and copy and decompress it; ...
AtStage(t, s) == call[t] \in Faults /\ stage[t] = s

FaultMiss(t) ==
  /\ AtStage(t, "in") /\ at[t] \notin stored
  /\ Sigbus(at[t]) /\ Leave(t)
  /\ UNCHANGED <<held, tracking, page, stored, harmed>>

\* Out of memory the handler has the fault tried again; do_swap_page, whose
\* return value the kretprobe leaves alone, has a SIGBUS for any marker.
FaultFail(t) ==
  /\ AtStage(t, "in") /\ at[t] \in stored
  /\ \/ "oom" \in Env /\ call[t] = "fault" /\ UNCHANGED fates
     \/ /\ "bad" \in Env \/ ("oom" \in Env /\ call[t] = "probe")
        /\ Sigbus(at[t]) /\ Harm(at[t])
  /\ Leave(t)
  /\ UNCHANGED <<held, tracking, page, stored>>

FaultRead(t) ==
  /\ AtStage(t, "in") /\ at[t] \in stored
  /\ stage' = [stage EXCEPT ![t] = "copied"]
  /\ UNCHANGED <<control, module, kernel, call, at, page, stored, fates>>

\* ... they remove the entry, ...
FaultRemove(t) ==
  /\ AtStage(t, "copied")
  /\ stored' = stored \ {at[t]}
  /\ stage' = [stage EXCEPT ![t] = "removed"]
  /\ UNCHANGED <<control, module, kernel, call, at, page, fates>>

\* ... and install the copy if the marker is still there.
FaultInstall(t) ==
  /\ AtStage(t, "removed")
  /\ \/ page' = [page EXCEPT ![at[t]] = "present"] /\ UNCHANGED harmed
     \/ "nopte" \in Env /\ UNCHANGED page /\ Harm(at[t])
  /\ Leave(t)
  /\ UNCHANGED <<held, tracking, stored, killed>>

\* A zap, or the release of an address space, drops the page and its data.
Drop(t) ==
  /\ call[t] \in {"zap", "release"}
  /\ page' = [page EXCEPT ![at[t]] = "present"]
  /\ stored' = stored \ {at[t]}
  /\ Leave(t)
  /\ UNCHANGED <<held, tracking, fates>>

\* A fault that has a copy of the page, which it will install.
Carries(t, p) == at[t] = p /\ call[t] \in Faults /\ stage[t] \in {"copied", "removed"}
Carried(p) == \E t \in Threads : Carries(t, p)

\* The scanner, compress_pid or compress_vaddr replaces a page and asks for a
\* notifier for its address space.  The scanner gives up one reference of two,
\* and a request that replaces one loses its reference.  What a fault does to a
\* page compressed again under its hands is left to PageLifecycle.  A marker that
\* nobody intercepts is the harm of a hook that could not be placed.
Pack(t) ==
  /\ call[t] \in Packers
  /\ symbols /\ page[at[t]] = "present" /\ ~ Carried(at[t])
  /\ page' = [page EXCEPT ![at[t]] = "marker"]
  /\ stored' = stored \union {at[t]}
  /\ \E leaked \in SUBSET {"mm_users"} :
       held' = held \union {"request"} \union leaked
  /\ IF Intercepts THEN UNCHANGED harmed ELSE Harm(at[t])
  /\ Leave(t)
  /\ UNCHANGED <<tracking, killed>>

\* Or it cannot; debugfs, which also stores and loads single pages, may leave
\* an entry in the statistics.
PackNone(t) ==
  /\ call[t] \in Packers
  /\ \/ UNCHANGED held
     \/ call[t] = "debugfs" /\ tracking /\ held' = held \union {"entries"}
  /\ Leave(t)
  /\ UNCHANGED <<tracking, page, stored, fates>>

\* Reclaim counts what is stored, and scans under "reclaim".
Shrink(t) ==
  /\ call[t] = "reclaim"
  /\ \/ UNCHANGED <<stored, harmed>>
     \/ "reclaim" \in Env /\ at[t] \in stored /\ stored' = stored \ {at[t]} /\ Harm(at[t])
  /\ Leave(t)
  /\ UNCHANGED <<held, tracking, page, killed>>

\* The deferred work, which registers a notifier for each request or finds that
\* it cannot.
Register ==
  /\ {"request", "mmu_wq"} \subseteq held
  /\ \E rest \in SUBSET {"request"}, got \in SUBSET {"notifier"} :
       held' = (held \ {"request"}) \union rest \union got
  /\ UNCHANGED <<control, bufs, flags, passes, world>>

\* scanner_enabled_store
SetEnabled ==
  /\ "group" \in held
  /\ enabled' \in BOOLEAN
  /\ UNCHANGED <<control, held, bufs, symbols, tracking, passes, world>>

\* per_process_stats_store, which frees the entries when it switches off.
SetTracking ==
  /\ "files" \in held
  /\ \/ tracking' = TRUE /\ UNCHANGED held
     \/ tracking' = FALSE /\ held' = held \ {"entries"}
  /\ UNCHANGED <<control, bufs, symbols, enabled, passes, world>>

\* An application touches a marker that nobody intercepts.
TouchLost(p) ==
  /\ page[p] = "marker" /\ ~ Intercepts /\ ~ Inside({"release"}, p)
  /\ Sigbus(p)
  /\ UNCHANGED <<control, module, kernel, threads, page, stored, harmed>>

Loading == Load \/ AllocBuffer \/ AllocFail \/ BuffersDone
             \/ (\E s \in DOMAIN Acquires : InitOk(s) \/ InitFail(s))
             \/ HookInit \/ FilesInit
Drain == \/ DrainEmpty \/ DrainBegin \/ DrainRestore \/ DrainDone
         \/ \E p \in Pages : DrainSkip(p) \/ DrainLose(p) \/ DrainRead(p)
Unloading == Close \/ Exit \/ Drain \/ Gone
Fault(t) == FaultMiss(t) \/ FaultFail(t) \/ FaultRead(t) \/ FaultRemove(t)
              \/ FaultInstall(t)
Call(t) == \/ \E c \in Calls, p \in Pages : Enter(t, c, p)
           \/ Fault(t) \/ Drop(t) \/ Pack(t) \/ PackNone(t) \/ Shrink(t)

Next == \/ Loading \/ Unload \/ Unloading
        \/ Register \/ SetEnabled \/ SetTracking
        \/ \E p \in Pages : TouchLost(p)
        \/ \E t \in Threads : Call(t)

Spec == Init /\ [][Next]_vars

-----------------------------------------------------------------------------
(* Properties.                                                             *)

\* Every variable keeps its type, and the module never holds both ways of
\* intercepting faults.
TypeOK ==
  /\ kernel \subseteq Features
  /\ phase \in {"absent", "loading", "loaded", "unwinding", "unloading"}
  /\ step \in {"compat", "compress", "hook", "files"} \union DOMAIN Acquires
  /\ todo \in Seq({ExitOrder[i] : i \in DOMAIN ExitOrder})
  /\ held \subseteq Resources /\ bufs \subseteq Buffers
  /\ ~ {"handler", "kretprobe"} \subseteq held
  /\ symbols \in BOOLEAN /\ enabled \in BOOLEAN /\ tracking \in BOOLEAN
  /\ call \in [Threads -> Calls \union {"none"}]
  /\ at \in [Threads -> Pages \union {"none"}]
  /\ stage \in [Threads -> {"in", "copied", "removed"}]
  /\ page \in [Pages -> {"present", "marker"}]
  /\ stored \subseteq Pages /\ killed \subseteq Pages /\ harmed \subseteq Pages
  /\ drained \subseteq Pages
  /\ drain \in {"idle", "walk"} \union Pages
  /\ loads \in 0 .. MaxLoads

\* A module that is not loaded, because the load failed at any step or because
\* it was removed, has undone everything but two things: references to address
\* spaces that nothing drops, and statistics entries that nothing frees
\* (minimem_init's error paths and minimem_exit).
OnlyLeaksRemain == phase = "absent" => bufs = {} /\ held \subseteq Leaks

\* "clean rmmod with no resource leaks (already verified)",
\* docs/research/022-kernel-upstreaming-requirements.md.
NothingLeftBehind == phase = "absent" => bufs = {} /\ held = {}

\* No call into the module runs on something that was not yet set up or is
\* already torn down (the order of minimem_init and minimem_exit).
NoUseAfterTeardown ==
  \A t \in Threads : call[t] # "none" =>
    Relies[call[t]] \subseteq held /\ (call[t] \in Packers => bufs = Buffers)

\* No application loses a page to the module being loaded, failing to load or
\* being unloaded under it: as long as the page table says the page is
\* compressed, its data is stored with somebody to answer the fault, or a fault
\* is about to install it ("All compressed pages are decompressed back to
\* normal memory on unload. No data is lost.", docs/recovery.md).  It is lost
\* only if one of the things that Env names went wrong at this very page.
NoDataLost ==
  \A p \in Pages \ harmed : page[p] = "marker" =>
    (p \in stored /\ Intercepts) \/ Carried(p)

\* Whoever gets a SIGBUS has lost a race, unless something went wrong at his
\* page: it is there again, or another fault on it is about to install it.
SigbusOnlyToLosers ==
  [][\A p \in killed' \ killed : p \in harmed' \/ page[p] = "present" \/ Carried(p)]_vars

\* Unloading the module gives nobody a SIGBUS ("The rmmod path is safe",
\* docs/recovery.md).
UnloadKillsNobody == [][phase = "unloading" => killed' = killed]_vars

\* A loaded module intercepts faults ("If the kprobe fails to register, the
\* module simply refuses to load", docs/recovery.md).
LoadedIntercepts == phase = "loaded" => Intercepts
=============================================================================
