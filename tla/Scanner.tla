------------------------------- MODULE Scanner -------------------------------
(***************************************************************************)
(* The idle page scanner, src/kernel/minimem_scanner.c: a kernel thread    *)
(* that alternates mark passes, which flag resident pages as idle, and     *)
(* sweep passes, which compress the pages that are still idle.  A pass     *)
(* takes as many batches as its budgets make it, resuming at a cursor      *)
(* (pid, address); the thread sleeps in between, longer after batches that *)
(* found nothing.  Pages it could not compress are passed over by hash.    *)
(*                                                                         *)
(* What compressing a page does is in PageLifecycle, the references a      *)
(* batch takes are in MmuNotifier: here it succeeds or fails.              *)
(***************************************************************************)
EXTENDS Integers, FiniteSets

CONSTANTS
  NProcs,       \* processes are numbered in the order of the task list
  Pid,          \* [Procs -> Nat]
  Vmas,         \* [Procs -> set of <<start, end>>] the scanner looks at
  Incompressible, \* the pages that compression gains nothing on
  SkipSize,     \* number of bits of skip_list
  MarkBudget, SweepBatch,  \* pages a batch may mark, or try to compress
  MarkStride, SweepStride, \* pages between two looks at the clock
  DecayCycles,  \* empty cycles until skip_list is cleared
  Requests,     \* values written to scanner_interval_ms
  IntervalMin, IntervalMax, AdaptiveMax, Backoff,
  MaxCalls,     \* bound on the calls of the setters
  Env           \* which environments act, a subset of EnvKinds

EnvKinds == {"procs",  \* processes start and exit
             "access", \* applications use their pages
             "fail",   \* compression fails for want of memory
             "race",   \* the scanner is enabled in the middle of a batch
             "stop"}   \* the module is removed

Procs    == 1..NProcs
Pages    == UNION {{p} \X UNION {v[1]..(v[2] - 1) : v \in Vmas[p]} : p \in Procs}
Mark  == 0
Sweep == 1
Phases == {Mark, Sweep}

ASSUME EnvAssumption == Env \subseteq EnvKinds
ASSUME ProcsAssumption == NProcs \in Nat /\ Pid \in [Procs -> Nat]
ASSUME VmasAssumption ==
  \A p \in Procs : /\ Vmas[p] \subseteq Nat \X Nat
                   /\ \A v \in Vmas[p] : v[1] < v[2]
                   /\ \A v, w \in Vmas[p] : v = w \/ v[2] <= w[1] \/ w[2] <= v[1]
ASSUME BoundAssumption ==
  /\ {SkipSize, MarkBudget, SweepBatch, MarkStride, SweepStride, DecayCycles} \subseteq Nat \ {0}
  /\ {IntervalMin, IntervalMax, AdaptiveMax, Backoff, MaxCalls} \subseteq Nat
  /\ IntervalMin <= AdaptiveMax /\ AdaptiveMax <= IntervalMax
  /\ Requests \subseteq Int

VARIABLES
  born,      \* the processes that have been started are 1..born
  alive,     \* those that have not exited
  page,      \* [Pages -> "out" (not present), "active", "idle" or "young" (idle, used since)]
  hook,      \* "none", "symbols" (resolved) or "ready" (to handle markers)
  enabled, phase, skip, \* scanner_enabled, scanner_phase, skip_list
  cursor,    \* [Phases -> [valid, pid, addr]]
  interval,  \* scanner_interval_ms
  stopping,  \* kthread_stop was called
  calls,     \* calls of the setters so far
  pc,        \* the thread: "top", "list", "walk", "vma" (just left), "end", "stopped"
  sweeping,  \* is_sweep
  at, addr, end, \* the process and the address it is at, the end of the VMA
  left,      \* what is left of the batch's budget
  examined,  \* pages of this VMA marked or tried in this walk
  late,      \* the clock has been seen to pass the CPU budget
  exhausted, found, \* budget_exhausted, and whether the batch's result is not 0
  empty, wait, \* empty_cycles and current_interval
  due        \* the pages this pass has yet to examine (for PassComplete only)

procs   == <<born, alive>>
shared  == <<hook, enabled, phase, skip, cursor, interval>>
ctl     == <<stopping, calls>>
batch   == <<sweeping, at, addr, end, left, examined, late, exhausted, found>>
pace    == <<empty, wait>>
vars == <<procs, page, shared, ctl, pc, batch, pace, due>>

Resident == {g \in Pages : page[g] # "out"}
NoCursor == [valid |-> FALSE, pid |-> 0, addr |-> 0]

Init ==
  /\ born \in 1..NProcs /\ alive = 1..born
  /\ page = [g \in Pages |-> IF g[1] <= born THEN "active" ELSE "out"]
  /\ hook = "none" /\ enabled = FALSE /\ phase = Mark /\ skip = {}
  /\ cursor = [f \in Phases |-> NoCursor]
  /\ interval = IntervalMin /\ stopping = FALSE /\ calls = 0
  /\ pc = "top" /\ sweeping = FALSE /\ at = 0 /\ addr = 0 /\ end = 0 /\ left = 0
  /\ examined = 0 /\ late = FALSE /\ exhausted = FALSE /\ found = FALSE
  /\ empty = 0 /\ wait = IntervalMin
  /\ due = Resident

-----------------------------------------------------------------------------
(* Everything around the thread *)

\* A process is appended to the task list with its pages not yet touched,
\* or leaves it.
Birth ==
  /\ "procs" \in Env /\ born < NProcs
  /\ born' = born + 1 /\ alive' = alive \union {born + 1}
  /\ UNCHANGED <<page, shared, ctl, pc, batch, pace, due>>

Exit(p) ==
  /\ "procs" \in Env /\ p \in alive
  /\ alive' = alive \ {p}
  /\ page' = [g \in Pages |-> IF g[1] = p THEN "out" ELSE page[g]]
  /\ due' = {g \in due : g[1] # p}
  /\ UNCHANGED <<born, shared, ctl, pc, batch, pace>>

\* A fault brings a page in; one that is in is used, and the kernel clears
\* its idle flag or notes that it is young.
Fault(g) ==
  /\ g[1] \in alive /\ page[g] = "out"
  /\ page' = [page EXCEPT ![g] = "active"]
  /\ UNCHANGED <<procs, shared, ctl, pc, batch, pace, due>>

Use(g) ==
  /\ "access" \in Env /\ page[g] = "idle"
  /\ \E s \in {"active", "young"} : page' = [page EXCEPT ![g] = s]
  /\ UNCHANGED <<procs, shared, ctl, pc, batch, pace, due>>

\* minimem_hook_init, which runs after minimem_scanner_init.
HookInit ==
  /\ hook = "none"
  /\ \E h \in {"symbols", "ready"} : hook' = h
  /\ UNCHANGED <<procs, page, enabled, phase, skip, cursor, interval, ctl, pc, batch, pace, due>>

SetEnabled(v) ==
  /\ calls < MaxCalls /\ calls' = calls + 1
  /\ pc # "top" /\ v => "race" \in Env
  /\ enabled' = v
  /\ IF v
     THEN /\ phase' = Mark /\ skip' = {}
          /\ cursor' = [f \in Phases |-> NoCursor]
          /\ due' = Resident
     ELSE UNCHANGED <<phase, skip, cursor, due>>
  /\ UNCHANGED <<procs, page, hook, interval, stopping, pc, batch, pace>>

\* Mutant: the lower bound is not enforced.
ClampHigh(ms) == IF ms > IntervalMax THEN IntervalMax ELSE ms

Clamp(ms) == IF ms < IntervalMin THEN IntervalMin
             ELSE IF ms > IntervalMax THEN IntervalMax ELSE ms

SetInterval(ms) ==
  /\ calls < MaxCalls /\ calls' = calls + 1
  /\ interval' = Clamp(ms)
  /\ UNCHANGED <<procs, page, hook, enabled, phase, skip, cursor, stopping, pc, batch, pace, due>>

\* minimem_scanner_exit clears scanner_enabled before kthread_stop.
Stop ==
  /\ "stop" \in Env /\ ~stopping
  /\ stopping' = TRUE /\ enabled' = FALSE
  /\ UNCHANGED <<procs, page, hook, phase, skip, cursor, interval, calls, pc, batch, pace, due>>

-----------------------------------------------------------------------------
(* One batch *)

Ph == IF sweeping THEN Sweep ELSE Mark
AtCursor == cursor[Ph].valid /\ Pid[at] = cursor[Ph].pid

\* The thread starts a batch in the phase it reads.
Begin ==
  /\ pc = "top" /\ ~stopping /\ enabled /\ hook # "none"
  /\ phase = Sweep => hook = "ready"
  /\ sweeping' = (phase = Sweep)
  /\ left' = (IF phase = Sweep THEN SweepBatch ELSE MarkBudget)
  /\ pc' = "list"
  /\ UNCHANGED <<procs, page, shared, ctl, at, addr, end, examined, late, exhausted, found,
                 pace, due>>

\* Markers cannot be handled: the sweep is given up and marking goes on.
GiveUpSweep ==
  /\ pc = "top" /\ ~stopping /\ enabled /\ hook = "symbols" /\ phase = Sweep
  /\ phase' = Mark /\ found' = FALSE /\ due' = Resident
  /\ pc' = "end"
  /\ UNCHANGED <<procs, page, hook, enabled, skip, cursor, interval, ctl, sweeping, at,
                 addr, end, left, examined, late, exhausted, pace>>

\* The CPU budget of the batch passes.
Tick ==
  /\ pc \in {"list", "vma", "walk"} /\ ~late
  /\ late' = TRUE
  /\ UNCHANGED <<procs, page, shared, ctl, pc, sweeping, at, addr, end, left, examined,
                 exhausted, found, pace, due>>

NextProc(p) == p \in alive /\ p > at /\ \A q \in alive : q > at => p <= q

\* Mutant: the process the cursor is in is passed over too.
BeforeCursorOrAt(p) == cursor[Ph].valid /\ Pid[p] <= cursor[Ph].pid

\* for_each_process comes to the process p: it is before the cursor, or its
\* mmap lock is taken, or the walk over its VMAs starts.
BeforeCursor(p) == cursor[Ph].valid /\ Pid[p] < cursor[Ph].pid

PassOver(p) ==
  /\ pc = "list" /\ ~stopping /\ ~exhausted /\ NextProc(p) /\ BeforeCursor(p)
  /\ at' = p
  /\ UNCHANGED <<procs, page, shared, ctl, pc, sweeping, addr, end, left, examined, late,
                 exhausted, found, pace, due>>

LockMiss(p) ==
  /\ pc = "list" /\ ~stopping /\ ~exhausted /\ NextProc(p) /\ ~BeforeCursor(p)
  /\ at' = p /\ due' = {g \in due : g[1] # p}
  /\ UNCHANGED <<procs, page, shared, ctl, pc, sweeping, addr, end, left, examined, late,
                 exhausted, found, pace>>

Lock(p) ==
  /\ pc = "list" /\ ~stopping /\ ~exhausted /\ NextProc(p) /\ ~BeforeCursor(p)
  /\ at' = p
  /\ addr' = (IF cursor[Ph].valid /\ Pid[p] = cursor[Ph].pid THEN cursor[Ph].addr ELSE 0)
  /\ pc' = "vma"
  /\ UNCHANGED <<procs, page, shared, ctl, sweeping, end, left, examined, late, exhausted,
                 found, pace, due>>

\* The VMA iterator is at addr; the walk of a VMA starts at its first page
\* or at the cursor.
NextVma(v) == v \in Vmas[at] /\ v[2] > addr /\ \A w \in Vmas[at] : w[2] > addr => v[1] <= w[1]

EnterVma ==
  /\ pc = "vma" /\ ~stopping
  /\ \E v \in Vmas[at] :
       /\ NextVma(v)
       /\ addr' = (IF AtCursor /\ cursor[Ph].addr \in v[1]..(v[2] - 1) THEN cursor[Ph].addr ELSE v[1])
       /\ end' = v[2]
  /\ pc' = "walk"
  /\ UNCHANGED <<procs, page, shared, ctl, sweeping, at, left, examined, late, exhausted, found, pace, due>>

Unlock ==
  /\ pc = "vma" /\ (stopping \/ ~ \E v \in Vmas[at] : NextVma(v))
  /\ pc' = "list" /\ addr' = 0
  /\ UNCHANGED <<procs, page, shared, ctl, sweeping, at, end, left, examined, late, exhausted,
                 found, pace, due>>

\* The loops over pages look at the clock every so many pages.
ClockStop(stride) == examined > 0 /\ examined % stride = 0 /\ late
Walking == pc = "walk" /\ ~stopping /\ addr < end /\ left > 0
Here    == <<at, addr>>

Step(examine) ==
  /\ addr' = addr + 1
  /\ due' = due \ {Here}
  /\ examined' = examined + (IF examine THEN 1 ELSE 0)

MarkPage ==
  /\ Walking /\ ~sweeping /\ ~ClockStop(MarkStride)
  /\ LET resident == page[Here] # "out" IN
       /\ page' = [page EXCEPT ![Here] = IF resident THEN "idle" ELSE @]
       /\ left' = (IF resident THEN left - 1 ELSE left)
       /\ found' = (found \/ resident)
       /\ Step(resident)
  /\ UNCHANGED <<procs, shared, ctl, pc, sweeping, at, end, late, exhausted, pace>>

\* minimem_sweep_vma at a page that is not idle and untouched.
SweepPast ==
  /\ Walking /\ sweeping /\ ~ClockStop(SweepStride) /\ page[Here] # "idle"
  /\ page' = [page EXCEPT ![Here] = IF @ = "young" THEN "active" ELSE @]
  /\ Step(FALSE)
  /\ UNCHANGED <<procs, shared, ctl, pc, sweeping, at, end, left, late, exhausted, found, pace>>

\* skip_list is one bit per hash of the address, whatever the process.
Bucket(a) == a % SkipSize

SweepSkip ==
  /\ Walking /\ sweeping /\ ~ClockStop(SweepStride) /\ page[Here] = "idle"
  /\ Bucket(addr) \in skip
  /\ left' = left - 1
  /\ Step(FALSE)
  /\ UNCHANGED <<procs, page, shared, ctl, pc, sweeping, at, end, late, exhausted, found, pace>>

SweepPage(ok) ==
  /\ Walking /\ sweeping /\ ~ClockStop(SweepStride) /\ page[Here] = "idle"
  /\ Bucket(addr) \notin skip
  /\ IF ok THEN Here \notin Incompressible ELSE Here \in Incompressible \/ "fail" \in Env
  /\ page' = [page EXCEPT ![Here] = IF ok THEN "out" ELSE @]
  /\ skip' = (IF ok THEN skip ELSE skip \union {Bucket(addr)})
  /\ left' = left - 1 /\ found' = TRUE
  /\ Step(TRUE)
  /\ UNCHANGED <<procs, hook, enabled, phase, cursor, interval, ctl, pc, sweeping, at, end, late,
                 exhausted, pace>>

\* Mutant: the cursor is left at the process, not at the page.
ResumeAtProcess == [valid |-> TRUE, pid |-> Pid[at], addr |-> 0]

\* Where the next batch of this pass goes on.
Resume == [valid |-> TRUE, pid |-> Pid[at], addr |-> addr]

\* Back in the loop over VMAs: a spent budget ends the batch, at a cursor.
LeaveVma ==
  /\ pc = "walk"
  /\ \/ stopping \/ addr = end \/ left = 0
     \/ ClockStop(IF sweeping THEN SweepStride ELSE MarkStride)
  /\ IF left = 0 \/ late
     THEN /\ exhausted' = TRUE /\ pc' = "list"
          /\ cursor' = [cursor EXCEPT ![Ph] = Resume]
          /\ addr' = 0
     ELSE /\ cursor' = [cursor EXCEPT ![Ph].addr = IF AtCursor THEN 0 ELSE @]
          /\ addr' = end /\ pc' = "vma"
          /\ UNCHANGED exhausted
  /\ end' = 0 /\ examined' = 0
  /\ UNCHANGED <<procs, page, hook, enabled, phase, skip, interval, ctl, sweeping, at, left, late,
                 found, pace, due>>

\* A batch that came to the end of the list ends the pass.  The batch's
\* variables, local to minimem_scan_batch_vma, are reset.
Finish ==
  /\ pc = "list"
  /\ stopping \/ exhausted \/ ~ \E p \in Procs : NextProc(p)
  /\ IF exhausted
     THEN UNCHANGED <<cursor, phase, due>>
     ELSE /\ cursor' = [cursor EXCEPT ![Ph] = NoCursor]
          /\ phase' = (IF sweeping THEN Mark ELSE Sweep)
          /\ due' = Resident
  /\ pc' = "end"
  /\ sweeping' = FALSE /\ at' = 0 /\ addr' = 0 /\ end' = 0 /\ left' = 0 /\ examined' = 0
  /\ late' = FALSE /\ exhausted' = FALSE
  /\ UNCHANGED <<procs, page, hook, enabled, skip, interval, ctl, found, pace>>

\* The rest of the thread's cycle: DecayCycles empty batches in a row clear
\* the skip list, and each of them lengthens the sleep that follows.
Pace ==
  /\ pc = "end"
  /\ IF found
     THEN /\ empty' = 0 /\ wait' = interval
          /\ UNCHANGED skip
     ELSE /\ empty' = (empty + 1) % DecayCycles
          /\ skip' = (IF empty + 1 = DecayCycles THEN {} ELSE skip)
          /\ wait' = (IF wait + Backoff < AdaptiveMax THEN wait + Backoff ELSE AdaptiveMax)
  /\ found' = FALSE
  /\ pc' = "top"
  /\ UNCHANGED <<procs, page, hook, enabled, phase, cursor, interval, ctl, sweeping, at, addr,
                 end, left, examined, late, exhausted, due>>

\* Mutant: the thread looks at scanner_enabled before it looks at the stop.
ThreadEndIfEnabled ==
  /\ pc = "top" /\ enabled /\ stopping
  /\ pc' = "stopped"
  /\ UNCHANGED <<procs, page, shared, ctl, batch, pace, due>>

ThreadEnd ==
  /\ pc = "top" /\ stopping
  /\ pc' = "stopped"
  /\ UNCHANGED <<procs, page, shared, ctl, batch, pace, due>>

Thread ==
  \/ Begin \/ GiveUpSweep
  \/ \E p \in Procs : PassOver(p) \/ LockMiss(p) \/ Lock(p)
  \/ EnterVma \/ Unlock
  \/ MarkPage \/ SweepPast \/ SweepSkip \/ (\E ok \in BOOLEAN : SweepPage(ok))
  \/ LeaveVma \/ Finish \/ Pace \/ ThreadEnd

Next ==
  \/ Birth \/ (\E p \in Procs : Exit(p))
  \/ (\E g \in Pages : Fault(g) \/ Use(g))
  \/ HookInit \/ (\E v \in BOOLEAN : SetEnabled(v)) \/ (\E ms \in Requests : SetInterval(ms))
  \/ Stop \/ Tick
  \/ Thread

Spec == Init /\ [][Next]_vars

\* The thread runs: its sleeps end and the locks it spins on are released.
FairSpec == Spec /\ WF_vars(Thread)

-----------------------------------------------------------------------------
(* Properties *)

ProcsOK ==
  /\ born \in 1..NProcs /\ alive \subseteq 1..born
  /\ page \in [Pages -> {"out", "active", "idle", "young"}]
  /\ due \subseteq Resident

SharedOK ==
  /\ hook \in {"none", "symbols", "ready"} /\ enabled \in BOOLEAN
  /\ phase \in Phases /\ skip \subseteq 0..(SkipSize - 1)
  /\ interval \in IntervalMin..IntervalMax
  /\ stopping \in BOOLEAN /\ calls \in 0..MaxCalls

CursorOK == cursor \in [Phases -> [valid : BOOLEAN, pid : Nat, addr : Nat]]

BatchOK ==
  /\ pc \in {"top", "list", "vma", "walk", "end", "stopped"}
  /\ sweeping \in BOOLEAN /\ late \in BOOLEAN /\ exhausted \in BOOLEAN
  /\ at \in 0..NProcs /\ addr \in Nat /\ end \in Nat
  /\ examined \in Nat

BudgetOK == left \in 0..(IF sweeping THEN SweepBatch ELSE MarkBudget)

PaceOK ==
  /\ found \in BOOLEAN /\ empty \in 0..(DecayCycles - 1)
  /\ wait \in IntervalMin..IntervalMax

\* The scanner's sleep stays between the bounds of the interval, and a batch
\* within its budget.
TypeOK == ProcsOK /\ SharedOK /\ CursorOK /\ BatchOK /\ BudgetOK /\ PaceOK

\* However its batches are cut, a pass looks at every page that was resident
\* when it began, unless the page's process is gone or its lock was missed:
\* the cursor (pid, address) of minimem_scan_batch_vma loses no page between
\* two batches, as long as pids grow along the task list.
PassComplete ==
  [][pc = "list" /\ phase' # phase /\ ~stopping => due = {}]_vars

\* A page that compresses and is left alone is compressed sooner or later,
\* and again each time it is brought back, if the scanner stays on and misses
\* the process's lock only finitely often: neither budgets, cursors, pages
\* that do not compress nor new processes starve it.
ColdSwept ==
  \A g \in Pages \ Incompressible :
    \/ []<>(stopping \/ ~enabled \/ hook # "ready" \/ g[1] \notin alive)
    \/ []<><<LockMiss(g[1])>>_vars
    \/ []<><<Use(g)>>_vars
    \/ []<>(page[g] = "out")

\* Removing the module ends the thread, wherever it is in a batch
\* (kthread_stop waits for it).
StopEnds == stopping ~> pc = "stopped"

\* What docs/feature-registry.md:70 says of skip_list, "skip for 8 cycles then
\* decay": a page whose compression failed is tried again, as long as the
\* scanner stays on and nobody uses the page.
Retried ==
  \A g \in Pages :
    \/ []<>(stopping \/ ~enabled \/ hook # "ready" \/ g[1] \notin alive)
    \/ []<><<LockMiss(g[1])>>_vars
    \/ []<><<Use(g)>>_vars
    \/ []<>(page[g] = "out")
    \/ []<>(Bucket(g[2]) \notin skip)
=============================================================================
