----------------------------- MODULE ScannerProofs -----------------------------
(***************************************************************************)
(* Proofs about Scanner, for any number of processes, any VMAs, budgets,   *)
(* strides and intervals.                                                  *)
(*                                                                         *)
(* That a pass is complete follows from where the pages that are due lie:  *)
(* at or after the cursor of the phase (between batches), in a process     *)
(* after the one the batch is at (in the task list), or there and at or    *)
(* after the address it is at (in a walk).  This needs the inactive phase  *)
(* to have no cursor, which a pass that ends must not leave behind.        *)
(***************************************************************************)
EXTENDS Scanner, WellFoundedInduction, TLAPS

\* A batch that has entered a process is at one.
AtInv == pc \in {"vma", "walk"} => at \in Procs

\* Pages belong to processes that have not exited.
AliveInv == \A g \in Pages : page[g] # "out" => g[1] \in alive

\* A batch runs the phase that is current, and only the current phase has a
\* cursor; sweeps run only where markers can be handled.
InBatch == pc \in {"list", "vma", "walk"}

PhaseInv ==
  /\ InBatch => (sweeping <=> phase = Sweep)
  /\ ~InBatch => at = 0 /\ ~exhausted
  /\ exhausted => pc = "list"
  /\ \A f \in Phases : f # phase => ~cursor[f].valid
  /\ cursor[Sweep].valid \/ (InBatch /\ sweeping) => hook = "ready"

\* The page g is at or after the cursor of the current phase.
Ahead(g) ==
  cursor[phase].valid =>
    \/ Pid[g[1]] > cursor[phase].pid
    \/ Pid[g[1]] = cursor[phase].pid /\ g[2] >= cursor[phase].addr

\* What is due is still to come.
DueInv ==
  ~stopping =>
    \A g \in due :
      /\ Ahead(g)
      /\ pc = "list" /\ ~exhausted => g[1] > at
      /\ pc \in {"vma", "walk"} => g[1] > at \/ (g[1] = at /\ g[2] >= addr)

TypeInv == TypeOK /\ AtInv
PassInv == AliveInv /\ PhaseInv /\ DueInv

\* Pids grow along the task list.
PidsGrow == \A p, q \in Procs : p < q => Pid[p] < Pid[q]

-----------------------------------------------------------------------------
(* Facts about the constants *)

\* The bounds are numbers, and at least one where the code divides by them.
LEMMA BoundFacts ==
  /\ SkipSize \in Nat \ {0} /\ MarkBudget \in Nat \ {0} /\ SweepBatch \in Nat \ {0}
  /\ DecayCycles \in Nat \ {0} /\ MaxCalls \in Nat /\ Backoff \in Nat
  /\ IntervalMin \in Nat /\ IntervalMax \in Nat /\ AdaptiveMax \in Nat
  /\ IntervalMin <= AdaptiveMax /\ AdaptiveMax <= IntervalMax
BY BoundAssumption

\* A VMA is a nonempty range of addresses.
LEMMA VmaFacts ==
  ASSUME NEW p \in Procs, NEW v \in Vmas[p]
  PROVE  v[1] \in Nat /\ v[2] \in Nat /\ v[1] < v[2]
BY VmasAssumption

\* A page has a process and an address, and is in one of its VMAs.
LEMMA PageFacts ==
  ASSUME NEW g \in Pages
  PROVE  /\ g = <<g[1], g[2]>> /\ g[1] \in Procs /\ g[2] \in Nat
         /\ \E v \in Vmas[g[1]] : v[1] <= g[2] /\ g[2] < v[2]
<1>1. PICK p \in Procs : g \in {p} \X UNION {v[1]..(v[2] - 1) : v \in Vmas[p]}
  BY DEF Pages
<1>2. PICK v \in Vmas[p] : g[2] \in v[1]..(v[2] - 1)
  BY <1>1
<1>3. v[1] \in Nat /\ v[2] \in Nat
  BY VmaFacts
<1>4. g[2] \in Nat /\ v[1] <= g[2] /\ g[2] < v[2]
  BY <1>2, <1>3
<1>5. g = <<g[1], g[2]>> /\ g[1] = p
  BY <1>1
<1> QED BY <1>2, <1>4, <1>5

\* A nonempty set of numbers has a smallest one.
LEMMA Smallest ==
  ASSUME NEW S, S \subseteq Nat, S # {}
  PROVE  \E n \in S : \A m \in S : n <= m
<1>1. PICK n \in S : \A m \in S : ~ (<<m, n>> \in OpToRel(<, Nat))
  BY WFMin, NatLessThanWellFounded
<1>2. \A m \in S : ~ (m < n)
  BY <1>1 DEF OpToRel
<1> QED BY <1>2

\* A list that has no next process has no process left: minimem_scan_batch_vma
\* comes to the end of the list only after the last.
LEMMA LastProc ==
  ASSUME at \in Nat, alive \subseteq Procs, ~ \E p \in Procs : NextProc(p)
  PROVE  \A p \in alive : ~ (p > at)
<1> DEFINE Left == {p \in alive : p > at}
<1> SUFFICES ASSUME Left # {} PROVE FALSE
  BY DEF Procs
<1>1. Left \subseteq Nat
  <2>1. Procs \subseteq Nat
    BY ProcsAssumption DEF Procs
  <2> QED BY <2>1
<1>2. PICK p \in Left : \A q \in Left : p <= q
  BY <1>1, Smallest
<1>3. p \in Procs /\ NextProc(p)
  BY <1>2 DEF NextProc
<1> QED BY <1>3

\* The iterator over VMAs comes to its end only past the last page.
LEMMA LastVma ==
  ASSUME at \in Procs, addr \in Nat, ~ \E v \in Vmas[at] : NextVma(v)
  PROVE  \A v \in Vmas[at] : ~ (v[2] > addr)
<1> DEFINE Left   == {v \in Vmas[at] : v[2] > addr}
           Starts == {v[1] : v \in Left}
<1> SUFFICES ASSUME Left # {} PROVE FALSE
  BY VmaFacts
<1>1. Starts \subseteq Nat /\ Starts # {}
  BY VmaFacts
<1> HIDE DEF Starts
<1>2. PICK n \in Starts : \A m \in Starts : n <= m
  BY <1>1, Smallest
<1>3. PICK v \in Left : v[1] = n
  BY <1>2 DEF Starts
<1>4. \A w \in Vmas[at] : w[2] > addr => v[1] <= w[1]
  BY <1>2, <1>3 DEF Starts
<1>5. v \in Vmas[at] /\ NextVma(v)
  BY <1>3, <1>4 DEF NextVma
<1> QED BY <1>5

\* The hash of an address is a bit of the skip list.
LEMMA BucketFacts ==
  ASSUME NEW a \in Nat
  PROVE  Bucket(a) \in 0..(SkipSize - 1)
BY BoundFacts DEF Bucket

-----------------------------------------------------------------------------
(* Types *)

\* The cursor a batch uses is a cursor, and so are those it writes.
LEMMA CursorFacts ==
  /\ Ph \in Phases
  /\ CursorOK => /\ cursor[Ph].valid \in BOOLEAN /\ cursor[Ph].pid \in Nat
                 /\ cursor[Ph].addr \in Nat
  /\ NoCursor \in [valid : BOOLEAN, pid : Nat, addr : Nat]
  /\ at \in Procs /\ addr \in Nat => Resume \in [valid : BOOLEAN, pid : Nat, addr : Nat]
<1>1. Ph \in Phases
  BY DEF Ph, Phases
<1>2. NoCursor \in [valid : BOOLEAN, pid : Nat, addr : Nat]
  BY DEF NoCursor
<1>3. at \in Procs /\ addr \in Nat => Resume \in [valid : BOOLEAN, pid : Nat, addr : Nat]
  BY ProcsAssumption DEF Resume
<1> QED BY <1>1, <1>2, <1>3 DEF CursorOK

\* A process is at a place in the list.
LEMMA ProcFacts == \A p \in Procs : p \in 0..NProcs /\ p \in Nat
BY ProcsAssumption DEF Procs

LEMMA InitType == Init => TypeInv
<1> SUFFICES ASSUME Init PROVE TypeInv
  OBVIOUS
<1>1. ProcsOK
  BY ProcsAssumption DEF Init, ProcsOK, Procs
<1>2. SharedOK
  <2>1. interval \in IntervalMin..IntervalMax /\ calls \in 0..MaxCalls
    BY BoundFacts DEF Init
  <2>2. enabled \in BOOLEAN /\ stopping \in BOOLEAN
    BY DEF Init
  <2> QED BY <2>1, <2>2 DEF Init, SharedOK, Phases
<1>3. CursorOK
  <2>1. NoCursor \in [valid : BOOLEAN, pid : Nat, addr : Nat]
    BY DEF NoCursor
  <2> QED BY <2>1 DEF Init, CursorOK
<1>4. BatchOK
  <2>1. at \in 0..NProcs /\ addr \in Nat /\ end \in Nat /\ examined \in Nat
    BY ProcsAssumption DEF Init
  <2>2. sweeping \in BOOLEAN /\ late \in BOOLEAN /\ exhausted \in BOOLEAN
    BY DEF Init
  <2> QED BY <2>1, <2>2 DEF Init, BatchOK
<1>5. BudgetOK
  BY BoundFacts DEF Init, BudgetOK
<1>6. PaceOK
  <2>1. found \in BOOLEAN
    BY DEF Init
  <2> QED BY <2>1, BoundFacts DEF Init, PaceOK
<1> QED BY <1>1, <1>2, <1>3, <1>4, <1>5, <1>6 DEF Init, TypeInv, TypeOK, AtInv

\* One step of the program keeps the types.
LEMMA TypeStep == TypeInv /\ [Next]_vars => TypeInv'
<1> SUFFICES ASSUME TypeInv, [Next]_vars PROVE TypeInv'
  OBVIOUS
<1>0. ProcsOK /\ SharedOK /\ CursorOK /\ BatchOK /\ BudgetOK /\ PaceOK /\ AtInv
  BY DEF TypeInv, TypeOK
<1> USE DEF procs, shared, ctl, batch, pace
<1>1. ASSUME Birth PROVE TypeInv'
  <2>1. ProcsOK'
    BY <1>0, <1>1, ProcsAssumption DEF Birth, ProcsOK, Resident
  <2>2. SharedOK'
    BY <1>0, <1>1 DEF Birth, SharedOK
  <2>3. CursorOK'
    BY <1>0, <1>1 DEF Birth, CursorOK
  <2>4. BatchOK'
    BY <1>0, <1>1 DEF Birth, BatchOK
  <2>5. BudgetOK'
    BY <1>0, <1>1 DEF Birth, BudgetOK
  <2>6. PaceOK'
    BY <1>0, <1>1 DEF Birth, PaceOK
  <2>7. AtInv'
    BY <1>0, <1>1 DEF Birth, AtInv
  <2> QED BY <2>1, <2>2, <2>3, <2>4, <2>5, <2>6, <2>7 DEF TypeInv, TypeOK
<1>2. ASSUME NEW p \in Procs, Exit(p) PROVE TypeInv'
  <2>1. ProcsOK'
    BY <1>0, <1>2 DEF Exit, ProcsOK, Resident
  <2>2. SharedOK'
    BY <1>0, <1>2 DEF Exit, SharedOK
  <2>3. CursorOK'
    BY <1>0, <1>2 DEF Exit, CursorOK
  <2>4. BatchOK'
    BY <1>0, <1>2 DEF Exit, BatchOK
  <2>5. BudgetOK'
    BY <1>0, <1>2 DEF Exit, BudgetOK
  <2>6. PaceOK'
    BY <1>0, <1>2 DEF Exit, PaceOK
  <2>7. AtInv'
    BY <1>0, <1>2 DEF Exit, AtInv
  <2> QED BY <2>1, <2>2, <2>3, <2>4, <2>5, <2>6, <2>7 DEF TypeInv, TypeOK
<1>3. ASSUME NEW g \in Pages, Fault(g) PROVE TypeInv'
  <2>1. ProcsOK'
    BY <1>0, <1>3 DEF Fault, ProcsOK, Resident
  <2>2. SharedOK'
    BY <1>0, <1>3 DEF Fault, SharedOK
  <2>3. CursorOK'
    BY <1>0, <1>3 DEF Fault, CursorOK
  <2>4. BatchOK'
    BY <1>0, <1>3 DEF Fault, BatchOK
  <2>5. BudgetOK'
    BY <1>0, <1>3 DEF Fault, BudgetOK
  <2>6. PaceOK'
    BY <1>0, <1>3 DEF Fault, PaceOK
  <2>7. AtInv'
    BY <1>0, <1>3 DEF Fault, AtInv
  <2> QED BY <2>1, <2>2, <2>3, <2>4, <2>5, <2>6, <2>7 DEF TypeInv, TypeOK
<1>4. ASSUME NEW g \in Pages, Use(g) PROVE TypeInv'
  <2>1. ProcsOK'
    BY <1>0, <1>4 DEF Use, ProcsOK, Resident
  <2>2. SharedOK'
    BY <1>0, <1>4 DEF Use, SharedOK
  <2>3. CursorOK'
    BY <1>0, <1>4 DEF Use, CursorOK
  <2>4. BatchOK'
    BY <1>0, <1>4 DEF Use, BatchOK
  <2>5. BudgetOK'
    BY <1>0, <1>4 DEF Use, BudgetOK
  <2>6. PaceOK'
    BY <1>0, <1>4 DEF Use, PaceOK
  <2>7. AtInv'
    BY <1>0, <1>4 DEF Use, AtInv
  <2> QED BY <2>1, <2>2, <2>3, <2>4, <2>5, <2>6, <2>7 DEF TypeInv, TypeOK
<1>5. ASSUME HookInit PROVE TypeInv'
  <2>1. ProcsOK'
    BY <1>0, <1>5 DEF HookInit, ProcsOK, Resident
  <2>2. SharedOK'
    BY <1>0, <1>5, BoundFacts DEF HookInit, SharedOK
  <2>3. CursorOK'
    BY <1>0, <1>5 DEF HookInit, CursorOK
  <2>4. BatchOK'
    BY <1>0, <1>5 DEF HookInit, BatchOK
  <2>5. BudgetOK'
    BY <1>0, <1>5 DEF HookInit, BudgetOK
  <2>6. PaceOK'
    BY <1>0, <1>5 DEF HookInit, PaceOK
  <2>7. AtInv'
    BY <1>0, <1>5 DEF HookInit, AtInv
  <2> QED BY <2>1, <2>2, <2>3, <2>4, <2>5, <2>6, <2>7 DEF TypeInv, TypeOK
<1>6. ASSUME NEW v \in BOOLEAN, SetEnabled(v) PROVE TypeInv'
  <2>1. ProcsOK'
    BY <1>0, <1>6 DEF SetEnabled, ProcsOK, Resident
  <2>2. SharedOK'
    <3>1. phase' \in Phases /\ skip' \subseteq 0..(SkipSize - 1)
      BY <1>0, <1>6 DEF SetEnabled, SharedOK, Phases
    <3>2. calls' \in 0..MaxCalls
      BY <1>0, <1>6, BoundFacts DEF SetEnabled, SharedOK
    <3>3. enabled' \in BOOLEAN
      BY <1>6 DEF SetEnabled
    <3>4. UNCHANGED <<hook, interval, stopping>>
      BY <1>6 DEF SetEnabled
    <3> QED BY <1>0, <3>1, <3>2, <3>3, <3>4 DEF SharedOK
  <2>3. CursorOK'
    <3>1. cursor' = cursor \/ cursor' = [f \in Phases |-> NoCursor]
      BY <1>6 DEF SetEnabled
    <3> QED BY <1>0, <3>1, CursorFacts DEF CursorOK
  <2>4. BatchOK'
    BY <1>0, <1>6 DEF SetEnabled, BatchOK
  <2>5. BudgetOK'
    BY <1>0, <1>6 DEF SetEnabled, BudgetOK
  <2>6. PaceOK'
    BY <1>0, <1>6 DEF SetEnabled, PaceOK
  <2>7. AtInv'
    BY <1>0, <1>6 DEF SetEnabled, AtInv
  <2> QED BY <2>1, <2>2, <2>3, <2>4, <2>5, <2>6, <2>7 DEF TypeInv, TypeOK
<1>7. ASSUME NEW ms \in Requests, SetInterval(ms) PROVE TypeInv'
  <2>1. ProcsOK'
    BY <1>0, <1>7 DEF SetInterval, ProcsOK, Resident
  <2>2. SharedOK'
    BY <1>0, <1>7, BoundFacts DEF SetInterval, SharedOK, Clamp
  <2>3. CursorOK'
    BY <1>0, <1>7 DEF SetInterval, CursorOK
  <2>4. BatchOK'
    BY <1>0, <1>7 DEF SetInterval, BatchOK
  <2>5. BudgetOK'
    BY <1>0, <1>7 DEF SetInterval, BudgetOK
  <2>6. PaceOK'
    BY <1>0, <1>7 DEF SetInterval, PaceOK
  <2>7. AtInv'
    BY <1>0, <1>7 DEF SetInterval, AtInv
  <2> QED BY <2>1, <2>2, <2>3, <2>4, <2>5, <2>6, <2>7 DEF TypeInv, TypeOK
<1>8. ASSUME Stop PROVE TypeInv'
  <2>1. ProcsOK'
    BY <1>0, <1>8 DEF Stop, ProcsOK, Resident
  <2>2. SharedOK'
    BY <1>0, <1>8, BoundFacts DEF Stop, SharedOK
  <2>3. CursorOK'
    BY <1>0, <1>8 DEF Stop, CursorOK
  <2>4. BatchOK'
    BY <1>0, <1>8 DEF Stop, BatchOK
  <2>5. BudgetOK'
    BY <1>0, <1>8 DEF Stop, BudgetOK
  <2>6. PaceOK'
    BY <1>0, <1>8 DEF Stop, PaceOK
  <2>7. AtInv'
    BY <1>0, <1>8 DEF Stop, AtInv
  <2> QED BY <2>1, <2>2, <2>3, <2>4, <2>5, <2>6, <2>7 DEF TypeInv, TypeOK
<1>9. ASSUME Tick PROVE TypeInv'
  <2>1. ProcsOK'
    BY <1>0, <1>9 DEF Tick, ProcsOK, Resident
  <2>2. SharedOK'
    BY <1>0, <1>9 DEF Tick, SharedOK
  <2>3. CursorOK'
    BY <1>0, <1>9 DEF Tick, CursorOK
  <2>4. BatchOK'
    BY <1>0, <1>9, ProcsAssumption DEF Tick, BatchOK
  <2>5. BudgetOK'
    BY <1>0, <1>9 DEF Tick, BudgetOK
  <2>6. PaceOK'
    BY <1>0, <1>9 DEF Tick, PaceOK
  <2>7. AtInv'
    BY <1>0, <1>9 DEF Tick, AtInv
  <2> QED BY <2>1, <2>2, <2>3, <2>4, <2>5, <2>6, <2>7 DEF TypeInv, TypeOK
<1>10. ASSUME Begin PROVE TypeInv'
  <2>1. ProcsOK'
    BY <1>0, <1>10 DEF Begin, ProcsOK, Resident
  <2>2. SharedOK'
    BY <1>0, <1>10 DEF Begin, SharedOK
  <2>3. CursorOK'
    BY <1>0, <1>10 DEF Begin, CursorOK
  <2>4. BatchOK'
    BY <1>0, <1>10, ProcsAssumption DEF Begin, BatchOK
  <2>5. BudgetOK'
    <3>1. CASE phase = Sweep
      <4>1. sweeping' /\ left' = SweepBatch
        BY <1>10, <3>1 DEF Begin
      <4> QED BY <4>1, BoundFacts DEF BudgetOK
    <3>2. CASE phase # Sweep
      <4>1. ~sweeping' /\ left' = MarkBudget
        BY <1>10, <3>2 DEF Begin
      <4> QED BY <4>1, BoundFacts DEF BudgetOK
    <3> QED BY <3>1, <3>2
  <2>6. PaceOK'
    BY <1>0, <1>10 DEF Begin, PaceOK
  <2>7. AtInv'
    BY <1>0, <1>10 DEF Begin, AtInv
  <2> QED BY <2>1, <2>2, <2>3, <2>4, <2>5, <2>6, <2>7 DEF TypeInv, TypeOK
<1>11. ASSUME GiveUpSweep PROVE TypeInv'
  <2>1. ProcsOK'
    BY <1>0, <1>11 DEF GiveUpSweep, ProcsOK, Resident
  <2>2. SharedOK'
    BY <1>0, <1>11, BoundFacts DEF GiveUpSweep, SharedOK, Phases
  <2>3. CursorOK'
    BY <1>0, <1>11 DEF GiveUpSweep, CursorOK
  <2>4. BatchOK'
    BY <1>0, <1>11, ProcsAssumption DEF GiveUpSweep, BatchOK
  <2>5. BudgetOK'
    BY <1>0, <1>11 DEF GiveUpSweep, BudgetOK
  <2>6. PaceOK'
    BY <1>0, <1>11, BoundFacts DEF GiveUpSweep, PaceOK
  <2>7. AtInv'
    BY <1>0, <1>11 DEF GiveUpSweep, AtInv
  <2> QED BY <2>1, <2>2, <2>3, <2>4, <2>5, <2>6, <2>7 DEF TypeInv, TypeOK
<1>12. ASSUME NEW p \in Procs, PassOver(p) PROVE TypeInv'
  <2>1. ProcsOK'
    BY <1>0, <1>12 DEF PassOver, ProcsOK, Resident
  <2>2. SharedOK'
    BY <1>0, <1>12 DEF PassOver, SharedOK
  <2>3. CursorOK'
    BY <1>0, <1>12 DEF PassOver, CursorOK
  <2>4. BatchOK'
    <3>1. at' \in 0..NProcs /\ pc' = pc
      BY <1>12, ProcFacts DEF PassOver
    <3>2. UNCHANGED <<sweeping, late, exhausted, addr, end, examined>>
      BY <1>12 DEF PassOver
    <3> QED BY <1>0, <3>1, <3>2 DEF BatchOK
  <2>5. BudgetOK'
    BY <1>0, <1>12 DEF PassOver, BudgetOK
  <2>6. PaceOK'
    BY <1>0, <1>12 DEF PassOver, PaceOK
  <2>7. AtInv'
    BY <1>0, <1>12 DEF PassOver, AtInv
  <2> QED BY <2>1, <2>2, <2>3, <2>4, <2>5, <2>6, <2>7 DEF TypeInv, TypeOK
<1>13. ASSUME NEW p \in Procs, LockMiss(p) PROVE TypeInv'
  <2>1. ProcsOK'
    BY <1>0, <1>13 DEF LockMiss, ProcsOK, Resident
  <2>2. SharedOK'
    BY <1>0, <1>13 DEF LockMiss, SharedOK
  <2>3. CursorOK'
    BY <1>0, <1>13 DEF LockMiss, CursorOK
  <2>4. BatchOK'
    <3>1. at' \in 0..NProcs /\ pc' = pc
      BY <1>13, ProcFacts DEF LockMiss
    <3>2. UNCHANGED <<sweeping, late, exhausted, addr, end, examined>>
      BY <1>13 DEF LockMiss
    <3> QED BY <1>0, <3>1, <3>2 DEF BatchOK
  <2>5. BudgetOK'
    BY <1>0, <1>13 DEF LockMiss, BudgetOK
  <2>6. PaceOK'
    BY <1>0, <1>13 DEF LockMiss, PaceOK
  <2>7. AtInv'
    BY <1>0, <1>13 DEF LockMiss, AtInv
  <2> QED BY <2>1, <2>2, <2>3, <2>4, <2>5, <2>6, <2>7 DEF TypeInv, TypeOK
<1>14. ASSUME NEW p \in Procs, Lock(p) PROVE TypeInv'
  <2>1. ProcsOK'
    BY <1>0, <1>14 DEF Lock, ProcsOK, Resident
  <2>2. SharedOK'
    BY <1>0, <1>14 DEF Lock, SharedOK
  <2>3. CursorOK'
    BY <1>0, <1>14 DEF Lock, CursorOK
  <2>4. BatchOK'
    <3>1. at' \in 0..NProcs /\ pc' = "vma" /\ addr' \in Nat
      BY <1>0, <1>14, ProcFacts, CursorFacts DEF Lock
    <3>2. UNCHANGED <<sweeping, late, exhausted, end, examined>>
      BY <1>14 DEF Lock
    <3> QED BY <1>0, <3>1, <3>2 DEF BatchOK
  <2>5. BudgetOK'
    BY <1>0, <1>14 DEF Lock, BudgetOK
  <2>6. PaceOK'
    BY <1>0, <1>14 DEF Lock, PaceOK
  <2>7. AtInv'
    BY <1>0, <1>14 DEF Lock, AtInv
  <2> QED BY <2>1, <2>2, <2>3, <2>4, <2>5, <2>6, <2>7 DEF TypeInv, TypeOK
<1>15. ASSUME EnterVma PROVE TypeInv'
  <2>1. ProcsOK'
    BY <1>0, <1>15 DEF EnterVma, ProcsOK, Resident
  <2>2. SharedOK'
    BY <1>0, <1>15 DEF EnterVma, SharedOK
  <2>3. CursorOK'
    BY <1>0, <1>15 DEF EnterVma, CursorOK
  <2>4. BatchOK'
    <3>1. at \in Procs
      BY <1>0, <1>15 DEF EnterVma, AtInv
    <3>2. addr' \in Nat /\ end' \in Nat /\ pc' = "walk"
      BY <1>0, <1>15, <3>1, VmaFacts, CursorFacts DEF EnterVma, NextVma
    <3>3. UNCHANGED <<sweeping, late, exhausted, at, examined>>
      BY <1>15 DEF EnterVma
    <3> QED BY <1>0, <3>2, <3>3 DEF BatchOK
  <2>5. BudgetOK'
    BY <1>0, <1>15 DEF EnterVma, BudgetOK
  <2>6. PaceOK'
    BY <1>0, <1>15 DEF EnterVma, PaceOK
  <2>7. AtInv'
    BY <1>0, <1>15 DEF EnterVma, AtInv
  <2> QED BY <2>1, <2>2, <2>3, <2>4, <2>5, <2>6, <2>7 DEF TypeInv, TypeOK
<1>16. ASSUME Unlock PROVE TypeInv'
  <2>1. ProcsOK'
    BY <1>0, <1>16 DEF Unlock, ProcsOK, Resident
  <2>2. SharedOK'
    BY <1>0, <1>16 DEF Unlock, SharedOK
  <2>3. CursorOK'
    BY <1>0, <1>16 DEF Unlock, CursorOK
  <2>4. BatchOK'
    BY <1>0, <1>16, ProcsAssumption DEF Unlock, BatchOK
  <2>5. BudgetOK'
    BY <1>0, <1>16 DEF Unlock, BudgetOK
  <2>6. PaceOK'
    BY <1>0, <1>16 DEF Unlock, PaceOK
  <2>7. AtInv'
    BY <1>0, <1>16 DEF Unlock, AtInv
  <2> QED BY <2>1, <2>2, <2>3, <2>4, <2>5, <2>6, <2>7 DEF TypeInv, TypeOK
<1>17. ASSUME MarkPage PROVE TypeInv'
  <2>1. ProcsOK'
    BY <1>0, <1>17 DEF MarkPage, ProcsOK, Resident, Step, Here
  <2>2. SharedOK'
    BY <1>0, <1>17 DEF MarkPage, SharedOK
  <2>3. CursorOK'
    BY <1>0, <1>17 DEF MarkPage, CursorOK
  <2>4. BatchOK'
    BY <1>0, <1>17, ProcsAssumption DEF MarkPage, BatchOK, Step
  <2>5. BudgetOK'
    BY <1>0, <1>17, BoundFacts DEF MarkPage, BudgetOK, Walking
  <2>6. PaceOK'
    BY <1>0, <1>17, BoundFacts DEF MarkPage, PaceOK
  <2>7. AtInv'
    BY <1>0, <1>17 DEF MarkPage, AtInv
  <2> QED BY <2>1, <2>2, <2>3, <2>4, <2>5, <2>6, <2>7 DEF TypeInv, TypeOK
<1>18. ASSUME SweepPast PROVE TypeInv'
  <2>1. ProcsOK'
    BY <1>0, <1>18 DEF SweepPast, ProcsOK, Resident, Step, Here
  <2>2. SharedOK'
    BY <1>0, <1>18 DEF SweepPast, SharedOK
  <2>3. CursorOK'
    BY <1>0, <1>18 DEF SweepPast, CursorOK
  <2>4. BatchOK'
    BY <1>0, <1>18, ProcsAssumption DEF SweepPast, BatchOK, Step
  <2>5. BudgetOK'
    BY <1>0, <1>18 DEF SweepPast, BudgetOK
  <2>6. PaceOK'
    BY <1>0, <1>18 DEF SweepPast, PaceOK
  <2>7. AtInv'
    BY <1>0, <1>18 DEF SweepPast, AtInv
  <2> QED BY <2>1, <2>2, <2>3, <2>4, <2>5, <2>6, <2>7 DEF TypeInv, TypeOK
<1>19. ASSUME SweepSkip PROVE TypeInv'
  <2>1. ProcsOK'
    BY <1>0, <1>19 DEF SweepSkip, ProcsOK, Resident, Step, Here
  <2>2. SharedOK'
    BY <1>0, <1>19 DEF SweepSkip, SharedOK
  <2>3. CursorOK'
    BY <1>0, <1>19 DEF SweepSkip, CursorOK
  <2>4. BatchOK'
    BY <1>0, <1>19, ProcsAssumption DEF SweepSkip, BatchOK, Step
  <2>5. BudgetOK'
    BY <1>0, <1>19, BoundFacts DEF SweepSkip, BudgetOK, Walking
  <2>6. PaceOK'
    BY <1>0, <1>19 DEF SweepSkip, PaceOK
  <2>7. AtInv'
    BY <1>0, <1>19 DEF SweepSkip, AtInv
  <2> QED BY <2>1, <2>2, <2>3, <2>4, <2>5, <2>6, <2>7 DEF TypeInv, TypeOK
<1>20. ASSUME NEW ok \in BOOLEAN, SweepPage(ok) PROVE TypeInv'
  <2>1. ProcsOK'
    BY <1>0, <1>20 DEF SweepPage, ProcsOK, Resident, Step, Here
  <2>2. SharedOK'
    <3>1. addr \in Nat
      BY <1>0 DEF BatchOK
    <3>2. skip' \subseteq 0..(SkipSize - 1)
      BY <1>0, <1>20, <3>1, BucketFacts DEF SweepPage, SharedOK
    <3>3. UNCHANGED <<hook, enabled, phase, interval, stopping, calls>>
      BY <1>20 DEF SweepPage
    <3> QED BY <1>0, <3>2, <3>3 DEF SharedOK
  <2>3. CursorOK'
    BY <1>0, <1>20 DEF SweepPage, CursorOK
  <2>4. BatchOK'
    BY <1>0, <1>20, ProcsAssumption DEF SweepPage, BatchOK, Step
  <2>5. BudgetOK'
    BY <1>0, <1>20, BoundFacts DEF SweepPage, BudgetOK, Walking
  <2>6. PaceOK'
    BY <1>0, <1>20, BoundFacts DEF SweepPage, PaceOK
  <2>7. AtInv'
    BY <1>0, <1>20 DEF SweepPage, AtInv
  <2> QED BY <2>1, <2>2, <2>3, <2>4, <2>5, <2>6, <2>7 DEF TypeInv, TypeOK
<1>21. ASSUME LeaveVma PROVE TypeInv'
  <2>1. ProcsOK'
    BY <1>0, <1>21 DEF LeaveVma, ProcsOK, Resident
  <2>2. SharedOK'
    BY <1>0, <1>21 DEF LeaveVma, SharedOK
  <2>3. CursorOK'
    <3>1. at \in Procs /\ addr \in Nat
      BY <1>0, <1>21 DEF LeaveVma, AtInv, BatchOK
    <3>2. \/ cursor' = [cursor EXCEPT ![Ph] = Resume]
          \/ cursor' = [cursor EXCEPT ![Ph].addr = IF AtCursor THEN 0 ELSE @]
      BY <1>21 DEF LeaveVma
    <3>3. [cursor[Ph] EXCEPT !.addr = IF AtCursor THEN 0 ELSE @] \in
            [valid : BOOLEAN, pid : Nat, addr : Nat]
      BY <1>0, CursorFacts DEF CursorOK
    <3> QED BY <1>0, <3>1, <3>2, <3>3, CursorFacts DEF CursorOK
  <2>4. BatchOK'
    <3>1. addr' \in Nat /\ end' \in Nat /\ examined' \in Nat /\ pc' \in {"list", "vma"}
      BY <1>0, <1>21 DEF LeaveVma, BatchOK
    <3>2. exhausted' \in BOOLEAN
      BY <1>0, <1>21 DEF LeaveVma, BatchOK
    <3>3. UNCHANGED <<sweeping, late, at>>
      BY <1>21 DEF LeaveVma
    <3> QED BY <1>0, <3>1, <3>2, <3>3 DEF BatchOK
  <2>5. BudgetOK'
    BY <1>0, <1>21 DEF LeaveVma, BudgetOK
  <2>6. PaceOK'
    BY <1>0, <1>21 DEF LeaveVma, PaceOK
  <2>7. AtInv'
    BY <1>0, <1>21 DEF LeaveVma, AtInv
  <2> QED BY <2>1, <2>2, <2>3, <2>4, <2>5, <2>6, <2>7 DEF TypeInv, TypeOK
<1>22. ASSUME Finish PROVE TypeInv'
  <2>1. ProcsOK'
    BY <1>0, <1>22 DEF Finish, ProcsOK, Resident
  <2>2. SharedOK'
    BY <1>0, <1>22, BoundFacts DEF Finish, SharedOK, Phases
  <2>3. CursorOK'
    <3>1. cursor' = cursor \/ cursor' = [cursor EXCEPT ![Ph] = NoCursor]
      BY <1>22 DEF Finish
    <3> QED BY <1>0, <3>1, CursorFacts DEF CursorOK
  <2>4. BatchOK'
    <3>1. /\ at' = 0 /\ addr' = 0 /\ end' = 0 /\ examined' = 0 /\ pc' = "end"
          /\ sweeping' \in BOOLEAN /\ late' \in BOOLEAN /\ exhausted' \in BOOLEAN
      BY <1>22 DEF Finish
    <3>2. 0 \in 0..NProcs
      BY ProcsAssumption
    <3> QED BY <3>1, <3>2 DEF BatchOK
  <2>5. BudgetOK'
    BY <1>0, <1>22, BoundFacts DEF Finish, BudgetOK
  <2>6. PaceOK'
    BY <1>0, <1>22 DEF Finish, PaceOK
  <2>7. AtInv'
    BY <1>0, <1>22 DEF Finish, AtInv
  <2> QED BY <2>1, <2>2, <2>3, <2>4, <2>5, <2>6, <2>7 DEF TypeInv, TypeOK
<1>23. ASSUME Pace PROVE TypeInv'
  <2>1. ProcsOK'
    BY <1>0, <1>23 DEF Pace, ProcsOK, Resident
  <2>2. SharedOK'
    BY <1>0, <1>23, BoundFacts DEF Pace, SharedOK
  <2>3. CursorOK'
    BY <1>0, <1>23 DEF Pace, CursorOK
  <2>4. BatchOK'
    BY <1>0, <1>23, ProcsAssumption DEF Pace, BatchOK
  <2>5. BudgetOK'
    BY <1>0, <1>23 DEF Pace, BudgetOK
  <2>6. PaceOK'
    <3>1. empty \in 0..(DecayCycles - 1) => (empty + 1) % DecayCycles \in 0..(DecayCycles - 1)
      BY BoundFacts
    <3>2. empty' \in 0..(DecayCycles - 1)
      BY <1>0, <1>23, <3>1, BoundFacts DEF Pace, PaceOK
    <3>3. wait' \in IntervalMin..IntervalMax
      BY <1>0, <1>23, BoundFacts DEF Pace, PaceOK, SharedOK
    <3>4. found' \in BOOLEAN
      BY <1>23 DEF Pace
    <3> QED BY <3>2, <3>3, <3>4 DEF PaceOK
  <2>7. AtInv'
    BY <1>0, <1>23 DEF Pace, AtInv
  <2> QED BY <2>1, <2>2, <2>3, <2>4, <2>5, <2>6, <2>7 DEF TypeInv, TypeOK
<1>24. ASSUME ThreadEnd PROVE TypeInv'
  <2>1. ProcsOK'
    BY <1>0, <1>24 DEF ThreadEnd, ProcsOK, Resident
  <2>2. SharedOK'
    BY <1>0, <1>24 DEF ThreadEnd, SharedOK
  <2>3. CursorOK'
    BY <1>0, <1>24 DEF ThreadEnd, CursorOK
  <2>4. BatchOK'
    BY <1>0, <1>24, ProcsAssumption DEF ThreadEnd, BatchOK
  <2>5. BudgetOK'
    BY <1>0, <1>24 DEF ThreadEnd, BudgetOK
  <2>6. PaceOK'
    BY <1>0, <1>24 DEF ThreadEnd, PaceOK
  <2>7. AtInv'
    BY <1>0, <1>24 DEF ThreadEnd, AtInv
  <2> QED BY <2>1, <2>2, <2>3, <2>4, <2>5, <2>6, <2>7 DEF TypeInv, TypeOK
<1>25. CASE UNCHANGED vars
  BY <1>0, <1>25 DEF vars, TypeInv, TypeOK, AtInv, ProcsOK, SharedOK, CursorOK, BatchOK, BudgetOK, PaceOK, Resident
<1> QED
  BY <1>1, <1>2, <1>3, <1>4, <1>5, <1>6, <1>7, <1>8, <1>9, <1>10, <1>11, <1>12, <1>13, <1>14, <1>15, <1>16, <1>17, <1>18, <1>19, <1>20, <1>21, <1>22, <1>23, <1>24, <1>25 DEF Next, Thread

\* Types, whatever the environment does.
THEOREM TypeCorrect == Spec => []TypeOK
<1>1. TypeInv => TypeOK
  BY DEF TypeInv
<1> QED BY <1>1, InitType, TypeStep, PTL DEF Spec

-----------------------------------------------------------------------------
(* A pass is complete *)

\* What is due is a page of a process that is in the list.
LEMMA DueFacts ==
  ASSUME TypeInv, AliveInv, NEW g \in due
  PROVE  /\ g \in Pages /\ g[1] \in alive
         /\ g[1] \in Procs /\ g[1] \in Nat /\ g[1] > 0 /\ g[2] \in Nat
         /\ g = <<g[1], g[2]>> /\ Pid[g[1]] \in Nat
<1>1. g \in Pages /\ g[1] \in alive
  BY DEF TypeInv, TypeOK, ProcsOK, Resident, AliveInv
<1>2. g = <<g[1], g[2]>> /\ g[1] \in Procs /\ g[2] \in Nat
  BY <1>1, PageFacts
<1>3. g[1] \in Nat /\ g[1] > 0 /\ Pid[g[1]] \in Nat
  BY <1>2, ProcsAssumption DEF Procs
<1> QED BY <1>1, <1>2, <1>3

\* The initial state: everything is due, and no cursor set.
LEMMA InitPass == Init => PassInv
<1> SUFFICES ASSUME Init PROVE PassInv
  OBVIOUS
<1>1. AliveInv
  <2> SUFFICES ASSUME NEW g \in Pages, page[g] # "out" PROVE g[1] \in alive
    BY DEF AliveInv
  <2>1. g[1] \in Procs /\ g[1] <= born
    BY PageFacts DEF Init
  <2> QED BY <2>1, ProcsAssumption DEF Init, Procs
<1>2. PhaseInv
  BY DEF Init, PhaseInv, InBatch, NoCursor, Phases, Mark, Sweep
<1>3. DueInv
  BY DEF Init, DueInv, Ahead, NoCursor, Phases
<1> QED BY <1>1, <1>2, <1>3 DEF PassInv

\* One step of the program keeps the invariant, unless the scanner is enabled
\* in the middle of a batch.
LEMMA PassStep ==
  ASSUME TypeInv, PassInv, [Next]_vars, "race" \notin Env, PidsGrow
  PROVE  PassInv'
<1>0. ProcsOK /\ SharedOK /\ CursorOK /\ BatchOK /\ AtInv /\ AliveInv /\ PhaseInv /\ DueInv
  BY DEF TypeInv, TypeOK, PassInv
<1>d. \A g \in due :
        /\ g \in Pages /\ g[1] \in alive
        /\ g[1] \in Procs /\ g[1] \in Nat /\ g[1] > 0 /\ g[2] \in Nat
        /\ g = <<g[1], g[2]>> /\ Pid[g[1]] \in Nat
  BY <1>0, DueFacts
<1>p. /\ InBatch => Ph = phase
      /\ phase \in Phases /\ Mark # Sweep /\ Phases = {Mark, Sweep}
  BY <1>0 DEF PhaseInv, SharedOK, Ph, Phases, Mark, Sweep
<1> USE DEF procs, shared, ctl, batch, pace
<1>1. ASSUME Birth PROVE PassInv'
  <2>1. AliveInv'
    BY <1>0, <1>1 DEF Birth, AliveInv, ProcsOK
  <2>2. PhaseInv'
    BY <1>0, <1>1 DEF Birth, PhaseInv, InBatch, SharedOK
  <2>3. DueInv'
    BY <1>0, <1>d, <1>1 DEF Birth, DueInv, Ahead
  <2> QED BY <2>1, <2>2, <2>3 DEF PassInv
<1>2. ASSUME NEW p \in Procs, Exit(p) PROVE PassInv'
  <2>1. AliveInv'
    BY <1>0, <1>2 DEF Exit, AliveInv, ProcsOK
  <2>2. PhaseInv'
    BY <1>0, <1>2 DEF Exit, PhaseInv, InBatch, SharedOK
  <2>3. DueInv'
    BY <1>0, <1>d, <1>2 DEF Exit, DueInv, Ahead
  <2> QED BY <2>1, <2>2, <2>3 DEF PassInv
<1>3. ASSUME NEW g \in Pages, Fault(g) PROVE PassInv'
  <2>1. AliveInv'
    BY <1>0, <1>3 DEF Fault, AliveInv, ProcsOK
  <2>2. PhaseInv'
    BY <1>0, <1>3 DEF Fault, PhaseInv, InBatch, SharedOK
  <2>3. DueInv'
    BY <1>0, <1>d, <1>3 DEF Fault, DueInv, Ahead
  <2> QED BY <2>1, <2>2, <2>3 DEF PassInv
<1>4. ASSUME NEW g \in Pages, Use(g) PROVE PassInv'
  <2>1. AliveInv'
    BY <1>0, <1>4 DEF Use, AliveInv, ProcsOK
  <2>2. PhaseInv'
    BY <1>0, <1>4 DEF Use, PhaseInv, InBatch, SharedOK
  <2>3. DueInv'
    BY <1>0, <1>d, <1>4 DEF Use, DueInv, Ahead
  <2> QED BY <2>1, <2>2, <2>3 DEF PassInv
<1>5. ASSUME HookInit PROVE PassInv'
  <2>1. AliveInv'
    BY <1>0, <1>5 DEF HookInit, AliveInv, ProcsOK
  <2>2. PhaseInv'
    BY <1>0, <1>5 DEF HookInit, PhaseInv, InBatch, SharedOK
  <2>3. DueInv'
    BY <1>0, <1>d, <1>5 DEF HookInit, DueInv, Ahead
  <2> QED BY <2>1, <2>2, <2>3 DEF PassInv
<1>6. ASSUME NEW v \in BOOLEAN, SetEnabled(v) PROVE PassInv'
  <2>1. AliveInv'
    BY <1>0, <1>6 DEF SetEnabled, AliveInv, ProcsOK
  <2>2. PhaseInv'
    <3>1. CASE v
      <4>1. pc = "top" /\ phase' = Mark /\ \A f \in Phases : ~cursor'[f].valid
        BY <1>6, <3>1 DEF SetEnabled, NoCursor
      <4> QED BY <1>0, <1>p, <1>6, <4>1 DEF SetEnabled, PhaseInv, InBatch
    <3>2. CASE ~v
      BY <1>0, <1>6, <3>2 DEF SetEnabled, PhaseInv, InBatch
    <3> QED BY <3>1, <3>2
  <2>3. DueInv'
    <3>1. CASE v
      <4>1. pc = "top" /\ phase' = Mark /\ \A f \in Phases : ~cursor'[f].valid
        BY <1>6, <3>1 DEF SetEnabled, NoCursor
      <4> QED BY <1>p, <1>6, <4>1 DEF SetEnabled, DueInv, Ahead
    <3>2. CASE ~v
      BY <1>0, <1>6, <3>2 DEF SetEnabled, DueInv, Ahead
    <3> QED BY <3>1, <3>2
  <2> QED BY <2>1, <2>2, <2>3 DEF PassInv
<1>7. ASSUME NEW ms \in Requests, SetInterval(ms) PROVE PassInv'
  <2>1. AliveInv'
    BY <1>0, <1>7 DEF SetInterval, AliveInv, ProcsOK
  <2>2. PhaseInv'
    BY <1>0, <1>7 DEF SetInterval, PhaseInv, InBatch, SharedOK
  <2>3. DueInv'
    BY <1>0, <1>d, <1>7 DEF SetInterval, DueInv, Ahead
  <2> QED BY <2>1, <2>2, <2>3 DEF PassInv
<1>8. ASSUME Stop PROVE PassInv'
  <2>1. AliveInv'
    BY <1>0, <1>8 DEF Stop, AliveInv, ProcsOK
  <2>2. PhaseInv'
    BY <1>0, <1>8 DEF Stop, PhaseInv, InBatch, SharedOK
  <2>3. DueInv'
    BY <1>0, <1>d, <1>8 DEF Stop, DueInv, Ahead
  <2> QED BY <2>1, <2>2, <2>3 DEF PassInv
<1>9. ASSUME Tick PROVE PassInv'
  <2>1. AliveInv'
    BY <1>0, <1>9 DEF Tick, AliveInv, ProcsOK
  <2>2. PhaseInv'
    BY <1>0, <1>9 DEF Tick, PhaseInv, InBatch, SharedOK
  <2>3. DueInv'
    BY <1>0, <1>d, <1>9 DEF Tick, DueInv, Ahead
  <2> QED BY <2>1, <2>2, <2>3 DEF PassInv
<1>10. ASSUME Begin PROVE PassInv'
  <2>1. AliveInv'
    BY <1>0, <1>10 DEF Begin, AliveInv, ProcsOK
  <2>2. PhaseInv'
    BY <1>0, <1>10 DEF Begin, PhaseInv, InBatch, SharedOK
  <2>3. DueInv'
    <3> SUFFICES ASSUME ~stopping', NEW g \in due'
                 PROVE  /\ Ahead(g)'
                        /\ pc' = "list" /\ ~exhausted' => g[1] > at'
                        /\ pc' \in {"vma", "walk"} => g[1] > at' \/ (g[1] = at' /\ g[2] >= addr')
      BY DEF DueInv
    <3>1. g \in due /\ Ahead(g) /\ ~stopping
      BY <1>0, <1>10 DEF Begin, DueInv
    <3>2. Ahead(g)'
      BY <1>10, <3>1 DEF Begin, Ahead
    <3>3. pc' = "list" /\ at' = 0
      BY <1>0, <1>10 DEF Begin, PhaseInv, InBatch
    <3> QED BY <1>d, <3>1, <3>2, <3>3
  <2> QED BY <2>1, <2>2, <2>3 DEF PassInv
<1>11. ASSUME GiveUpSweep PROVE PassInv'
  <2>1. AliveInv'
    BY <1>0, <1>11 DEF GiveUpSweep, AliveInv, ProcsOK
  <2>2. PhaseInv'
    BY <1>0, <1>11 DEF GiveUpSweep, PhaseInv, InBatch, SharedOK
  <2>3. DueInv'
    <3> SUFFICES ASSUME ~stopping', NEW g \in due'
                 PROVE  /\ Ahead(g)'
                        /\ pc' = "list" /\ ~exhausted' => g[1] > at'
                        /\ pc' \in {"vma", "walk"} => g[1] > at' \/ (g[1] = at' /\ g[2] >= addr')
      BY DEF DueInv
    <3>1. pc' = "end" /\ phase' = Mark /\ ~cursor'[Mark].valid
      BY <1>0, <1>p, <1>11 DEF GiveUpSweep, PhaseInv
    <3> QED BY <3>1 DEF Ahead
  <2> QED BY <2>1, <2>2, <2>3 DEF PassInv
<1>12. ASSUME NEW p \in Procs, PassOver(p) PROVE PassInv'
  <2>1. AliveInv'
    BY <1>0, <1>12 DEF PassOver, AliveInv, ProcsOK
  <2>2. PhaseInv'
    BY <1>0, <1>12 DEF PassOver, PhaseInv, InBatch, SharedOK
  <2>3. DueInv'
    <3> SUFFICES ASSUME ~stopping', NEW g \in due'
                 PROVE  /\ Ahead(g)'
                        /\ pc' = "list" /\ ~exhausted' => g[1] > at'
                        /\ pc' \in {"vma", "walk"} => g[1] > at' \/ (g[1] = at' /\ g[2] >= addr')
      BY DEF DueInv
    <3>1. g \in due /\ Ahead(g) /\ ~stopping
      BY <1>0, <1>12 DEF PassOver, DueInv
    <3>2. Ahead(g)'
      BY <1>12, <3>1 DEF PassOver, Ahead
    <3>3. InBatch /\ NextProc(p) /\ g[1] > at /\ g[1] \in alive
      BY <1>0, <1>d, <1>12, <3>1 DEF PassOver, DueInv, InBatch
    <3>4. p <= g[1] /\ p \in Nat
      BY <3>3, ProcFacts DEF NextProc
    <3>5. g[1] # p
      <4>1. cursor[phase].valid /\ Pid[p] < cursor[phase].pid
        BY <1>p, <1>12, <3>3 DEF PassOver, BeforeCursor
      <4>2. Pid[p] \in Nat /\ cursor[phase].pid \in Nat
        BY <1>0, <1>p, <3>3, CursorFacts, ProcsAssumption
      <4> QED BY <3>1, <4>1, <4>2 DEF Ahead
    <3>6. pc' = "list" /\ at' = p
      BY <1>12 DEF PassOver
    <3> QED BY <1>d, <3>1, <3>2, <3>4, <3>5, <3>6
  <2> QED BY <2>1, <2>2, <2>3 DEF PassInv
<1>13. ASSUME NEW p \in Procs, LockMiss(p) PROVE PassInv'
  <2>1. AliveInv'
    BY <1>0, <1>13 DEF LockMiss, AliveInv, ProcsOK
  <2>2. PhaseInv'
    BY <1>0, <1>13 DEF LockMiss, PhaseInv, InBatch, SharedOK
  <2>3. DueInv'
    <3> SUFFICES ASSUME ~stopping', NEW g \in due'
                 PROVE  /\ Ahead(g)'
                        /\ pc' = "list" /\ ~exhausted' => g[1] > at'
                        /\ pc' \in {"vma", "walk"} => g[1] > at' \/ (g[1] = at' /\ g[2] >= addr')
      BY DEF DueInv
    <3>1. g \in due /\ Ahead(g) /\ ~stopping /\ g[1] # p
      BY <1>0, <1>13 DEF LockMiss, DueInv
    <3>2. Ahead(g)'
      BY <1>13, <3>1 DEF LockMiss, Ahead
    <3>3. InBatch /\ NextProc(p) /\ g[1] > at /\ g[1] \in alive
      BY <1>0, <1>d, <1>13, <3>1 DEF LockMiss, DueInv, InBatch
    <3>4. p <= g[1] /\ p \in Nat
      BY <3>3, ProcFacts DEF NextProc
    <3>5. pc' = "list" /\ at' = p
      BY <1>13 DEF LockMiss
    <3> QED BY <1>d, <3>1, <3>2, <3>4, <3>5
  <2> QED BY <2>1, <2>2, <2>3 DEF PassInv
<1>14. ASSUME NEW p \in Procs, Lock(p) PROVE PassInv'
  <2>1. AliveInv'
    BY <1>0, <1>14 DEF Lock, AliveInv, ProcsOK
  <2>2. PhaseInv'
    BY <1>0, <1>14 DEF Lock, PhaseInv, InBatch, SharedOK
  <2>3. DueInv'
    <3> SUFFICES ASSUME ~stopping', NEW g \in due'
                 PROVE  /\ Ahead(g)'
                        /\ pc' = "list" /\ ~exhausted' => g[1] > at'
                        /\ pc' \in {"vma", "walk"} => g[1] > at' \/ (g[1] = at' /\ g[2] >= addr')
      BY DEF DueInv
    <3>1. g \in due /\ Ahead(g) /\ ~stopping
      BY <1>0, <1>14 DEF Lock, DueInv
    <3>2. Ahead(g)'
      BY <1>14, <3>1 DEF Lock, Ahead
    <3>3. InBatch /\ NextProc(p) /\ g[1] > at /\ g[1] \in alive
      BY <1>0, <1>d, <1>14, <3>1 DEF Lock, DueInv, InBatch
    <3>4. p <= g[1] /\ p \in Nat
      BY <3>3, ProcFacts DEF NextProc
    <3>5. ASSUME g[1] = p PROVE g[2] >= addr'
      <4>1. CASE cursor[phase].valid /\ Pid[p] = cursor[phase].pid
        <5>1. addr' = cursor[phase].addr
          BY <1>p, <1>14, <3>3, <4>1 DEF Lock
        <5>2. Pid[g[1]] \in Nat /\ Pid[g[1]] = cursor[phase].pid
          BY <1>d, <3>1, <3>5, <4>1
        <5> QED BY <3>1, <4>1, <5>1, <5>2 DEF Ahead
      <4>2. CASE ~ (cursor[phase].valid /\ Pid[p] = cursor[phase].pid)
        <5>1. addr' = 0
          BY <1>p, <1>14, <3>3, <4>2 DEF Lock
        <5> QED BY <1>d, <3>1, <5>1
      <4> QED BY <4>1, <4>2
    <3>6. pc' = "vma" /\ at' = p
      BY <1>14 DEF Lock
    <3> QED BY <1>d, <3>1, <3>2, <3>4, <3>5, <3>6
  <2> QED BY <2>1, <2>2, <2>3 DEF PassInv
<1>15. ASSUME EnterVma PROVE PassInv'
  <2>1. AliveInv'
    BY <1>0, <1>15 DEF EnterVma, AliveInv, ProcsOK
  <2>2. PhaseInv'
    BY <1>0, <1>15 DEF EnterVma, PhaseInv, InBatch, SharedOK
  <2>3. DueInv'
    <3> SUFFICES ASSUME ~stopping', NEW g \in due'
                 PROVE  /\ Ahead(g)'
                        /\ pc' = "list" /\ ~exhausted' => g[1] > at'
                        /\ pc' \in {"vma", "walk"} => g[1] > at' \/ (g[1] = at' /\ g[2] >= addr')
      BY DEF DueInv
    <3>1. g \in due /\ Ahead(g) /\ ~stopping
      BY <1>0, <1>15 DEF EnterVma, DueInv
    <3>2. Ahead(g)'
      BY <1>15, <3>1 DEF EnterVma, Ahead
    <3>3. InBatch /\ at \in Procs /\ addr \in Nat /\ at \in Nat
      BY <1>0, <1>15, ProcFacts DEF EnterVma, InBatch, AtInv, BatchOK
    <3>4. g[1] > at \/ (g[1] = at /\ g[2] >= addr)
      BY <1>0, <1>15, <3>1 DEF EnterVma, DueInv
    <3>5. ASSUME g[1] = at PROVE g[2] >= addr'
      <4>1. PICK v \in Vmas[at] :
              /\ NextVma(v)
              /\ addr' = IF AtCursor /\ cursor[Ph].addr \in v[1]..(v[2] - 1)
                         THEN cursor[Ph].addr ELSE v[1]
        BY <1>15 DEF EnterVma
      <4>2. PICK w \in Vmas[at] : w[1] <= g[2] /\ g[2] < w[2]
        BY <1>d, <3>1, <3>5, PageFacts
      <4>3. v[1] \in Nat /\ w[1] \in Nat /\ w[2] \in Nat /\ g[2] \in Nat /\ g[2] >= addr
        BY <1>d, <3>1, <3>3, <3>4, <3>5, VmaFacts
      <4>4. v[1] <= w[1]
        BY <3>3, <4>1, <4>2, <4>3 DEF NextVma
      <4>5. ASSUME AtCursor PROVE g[2] >= cursor[Ph].addr
        <5>1. Pid[g[1]] \in Nat /\ Pid[g[1]] = cursor[phase].pid /\ cursor[phase].valid
          BY <1>d, <1>p, <3>1, <3>3, <3>5, <4>5 DEF AtCursor
        <5> QED BY <1>p, <3>1, <3>3, <5>1 DEF Ahead
      <4>6. CASE AtCursor /\ cursor[Ph].addr \in v[1]..(v[2] - 1)
        BY <4>1, <4>5, <4>6
      <4>7. CASE ~ (AtCursor /\ cursor[Ph].addr \in v[1]..(v[2] - 1))
        <5>1. addr' = v[1]
          BY <4>1, <4>7
        <5> QED BY <4>2, <4>3, <4>4, <5>1
      <4> QED BY <4>6, <4>7
    <3>6. pc' = "walk" /\ at' = at
      BY <1>15 DEF EnterVma
    <3> QED BY <3>2, <3>4, <3>5, <3>6
  <2> QED BY <2>1, <2>2, <2>3 DEF PassInv
<1>16. ASSUME Unlock PROVE PassInv'
  <2>1. AliveInv'
    BY <1>0, <1>16 DEF Unlock, AliveInv, ProcsOK
  <2>2. PhaseInv'
    BY <1>0, <1>16 DEF Unlock, PhaseInv, InBatch, SharedOK
  <2>3. DueInv'
    <3> SUFFICES ASSUME ~stopping', NEW g \in due'
                 PROVE  /\ Ahead(g)'
                        /\ pc' = "list" /\ ~exhausted' => g[1] > at'
                        /\ pc' \in {"vma", "walk"} => g[1] > at' \/ (g[1] = at' /\ g[2] >= addr')
      BY DEF DueInv
    <3>1. g \in due /\ Ahead(g) /\ ~stopping
      BY <1>0, <1>16 DEF Unlock, DueInv
    <3>2. Ahead(g)'
      BY <1>16, <3>1 DEF Unlock, Ahead
    <3>3. InBatch /\ at \in Procs /\ addr \in Nat /\ at \in Nat
      BY <1>0, <1>16, ProcFacts DEF Unlock, InBatch, AtInv, BatchOK
    <3>4. g[1] > at \/ (g[1] = at /\ g[2] >= addr)
      BY <1>0, <1>16, <3>1 DEF Unlock, DueInv
    <3>5. g[1] # at
      <4>1. \A v \in Vmas[at] : ~ (v[2] > addr)
        BY <1>16, <3>1, <3>3, LastVma DEF Unlock
      <4> SUFFICES ASSUME g[1] = at PROVE FALSE
        OBVIOUS
      <4>2. PICK w \in Vmas[at] : w[1] <= g[2] /\ g[2] < w[2]
        BY <1>d, <3>1, PageFacts
      <4>3. w[2] \in Nat /\ g[2] \in Nat /\ g[2] >= addr
        BY <1>d, <3>1, <3>3, <3>4, VmaFacts
      <4> QED BY <3>3, <4>1, <4>2, <4>3
    <3>6. pc' = "list" /\ at' = at
      BY <1>16 DEF Unlock
    <3> QED BY <3>2, <3>4, <3>5, <3>6
  <2> QED BY <2>1, <2>2, <2>3 DEF PassInv
<1>17. ASSUME MarkPage PROVE PassInv'
  <2>1. AliveInv'
    BY <1>0, <1>17 DEF MarkPage, AliveInv, ProcsOK, Here
  <2>2. PhaseInv'
    BY <1>0, <1>17 DEF MarkPage, PhaseInv, InBatch, SharedOK, Step, Here, Walking
  <2>3. DueInv'
    <3> SUFFICES ASSUME ~stopping', NEW g \in due'
                 PROVE  /\ Ahead(g)'
                        /\ pc' = "list" /\ ~exhausted' => g[1] > at'
                        /\ pc' \in {"vma", "walk"} => g[1] > at' \/ (g[1] = at' /\ g[2] >= addr')
      BY DEF DueInv
    <3>1. g \in due /\ Ahead(g) /\ ~stopping /\ g # Here
      BY <1>0, <1>17 DEF MarkPage, Step, DueInv
    <3>2. Ahead(g)'
      BY <1>17, <3>1 DEF MarkPage, Ahead
    <3>3. InBatch /\ at \in Procs /\ addr \in Nat /\ at \in Nat
      BY <1>0, <1>17, ProcFacts DEF MarkPage, Walking, InBatch, AtInv, BatchOK
    <3>4. g[1] > at \/ (g[1] = at /\ g[2] >= addr)
      BY <1>0, <1>17, <3>1 DEF MarkPage, Walking, DueInv
    <3>5. pc' = "walk" /\ at' = at /\ addr' = addr + 1
      BY <1>17 DEF MarkPage, Walking, Step
    <3>6. g[1] = at => g[2] # addr
      BY <1>d, <3>1 DEF Here
    <3> QED BY <1>d, <3>1, <3>2, <3>3, <3>4, <3>5, <3>6
  <2> QED BY <2>1, <2>2, <2>3 DEF PassInv
<1>18. ASSUME SweepPast PROVE PassInv'
  <2>1. AliveInv'
    BY <1>0, <1>18 DEF SweepPast, AliveInv, ProcsOK, Here
  <2>2. PhaseInv'
    BY <1>0, <1>18 DEF SweepPast, PhaseInv, InBatch, SharedOK, Step, Here, Walking
  <2>3. DueInv'
    <3> SUFFICES ASSUME ~stopping', NEW g \in due'
                 PROVE  /\ Ahead(g)'
                        /\ pc' = "list" /\ ~exhausted' => g[1] > at'
                        /\ pc' \in {"vma", "walk"} => g[1] > at' \/ (g[1] = at' /\ g[2] >= addr')
      BY DEF DueInv
    <3>1. g \in due /\ Ahead(g) /\ ~stopping /\ g # Here
      BY <1>0, <1>18 DEF SweepPast, Step, DueInv
    <3>2. Ahead(g)'
      BY <1>18, <3>1 DEF SweepPast, Ahead
    <3>3. InBatch /\ at \in Procs /\ addr \in Nat /\ at \in Nat
      BY <1>0, <1>18, ProcFacts DEF SweepPast, Walking, InBatch, AtInv, BatchOK
    <3>4. g[1] > at \/ (g[1] = at /\ g[2] >= addr)
      BY <1>0, <1>18, <3>1 DEF SweepPast, Walking, DueInv
    <3>5. pc' = "walk" /\ at' = at /\ addr' = addr + 1
      BY <1>18 DEF SweepPast, Walking, Step
    <3>6. g[1] = at => g[2] # addr
      BY <1>d, <3>1 DEF Here
    <3> QED BY <1>d, <3>1, <3>2, <3>3, <3>4, <3>5, <3>6
  <2> QED BY <2>1, <2>2, <2>3 DEF PassInv
<1>19. ASSUME SweepSkip PROVE PassInv'
  <2>1. AliveInv'
    BY <1>0, <1>19 DEF SweepSkip, AliveInv, ProcsOK, Here
  <2>2. PhaseInv'
    BY <1>0, <1>19 DEF SweepSkip, PhaseInv, InBatch, SharedOK, Step, Here, Walking
  <2>3. DueInv'
    <3> SUFFICES ASSUME ~stopping', NEW g \in due'
                 PROVE  /\ Ahead(g)'
                        /\ pc' = "list" /\ ~exhausted' => g[1] > at'
                        /\ pc' \in {"vma", "walk"} => g[1] > at' \/ (g[1] = at' /\ g[2] >= addr')
      BY DEF DueInv
    <3>1. g \in due /\ Ahead(g) /\ ~stopping /\ g # Here
      BY <1>0, <1>19 DEF SweepSkip, Step, DueInv
    <3>2. Ahead(g)'
      BY <1>19, <3>1 DEF SweepSkip, Ahead
    <3>3. InBatch /\ at \in Procs /\ addr \in Nat /\ at \in Nat
      BY <1>0, <1>19, ProcFacts DEF SweepSkip, Walking, InBatch, AtInv, BatchOK
    <3>4. g[1] > at \/ (g[1] = at /\ g[2] >= addr)
      BY <1>0, <1>19, <3>1 DEF SweepSkip, Walking, DueInv
    <3>5. pc' = "walk" /\ at' = at /\ addr' = addr + 1
      BY <1>19 DEF SweepSkip, Walking, Step
    <3>6. g[1] = at => g[2] # addr
      BY <1>d, <3>1 DEF Here
    <3> QED BY <1>d, <3>1, <3>2, <3>3, <3>4, <3>5, <3>6
  <2> QED BY <2>1, <2>2, <2>3 DEF PassInv
<1>20. ASSUME NEW ok \in BOOLEAN, SweepPage(ok) PROVE PassInv'
  <2>1. AliveInv'
    BY <1>0, <1>20 DEF SweepPage, AliveInv, ProcsOK, Here
  <2>2. PhaseInv'
    BY <1>0, <1>20 DEF SweepPage, PhaseInv, InBatch, SharedOK, Step, Here, Walking
  <2>3. DueInv'
    <3> SUFFICES ASSUME ~stopping', NEW g \in due'
                 PROVE  /\ Ahead(g)'
                        /\ pc' = "list" /\ ~exhausted' => g[1] > at'
                        /\ pc' \in {"vma", "walk"} => g[1] > at' \/ (g[1] = at' /\ g[2] >= addr')
      BY DEF DueInv
    <3>1. g \in due /\ Ahead(g) /\ ~stopping /\ g # Here
      BY <1>0, <1>20 DEF SweepPage, Step, DueInv
    <3>2. Ahead(g)'
      BY <1>20, <3>1 DEF SweepPage, Ahead
    <3>3. InBatch /\ at \in Procs /\ addr \in Nat /\ at \in Nat
      BY <1>0, <1>20, ProcFacts DEF SweepPage, Walking, InBatch, AtInv, BatchOK
    <3>4. g[1] > at \/ (g[1] = at /\ g[2] >= addr)
      BY <1>0, <1>20, <3>1 DEF SweepPage, Walking, DueInv
    <3>5. pc' = "walk" /\ at' = at /\ addr' = addr + 1
      BY <1>20 DEF SweepPage, Walking, Step
    <3>6. g[1] = at => g[2] # addr
      BY <1>d, <3>1 DEF Here
    <3> QED BY <1>d, <3>1, <3>2, <3>3, <3>4, <3>5, <3>6
  <2> QED BY <2>1, <2>2, <2>3 DEF PassInv
<1>21. ASSUME LeaveVma PROVE PassInv'
  <2>1. AliveInv'
    BY <1>0, <1>21 DEF LeaveVma, AliveInv, ProcsOK
  <2>2. PhaseInv'
    <3>1. InBatch /\ pc' \in {"list", "vma"}
      BY <1>21 DEF LeaveVma, InBatch
    <3>2. \A f \in Phases : f # Ph => cursor'[f] = cursor[f]
      BY <1>0, <1>21 DEF LeaveVma, CursorOK
    <3>3. exhausted' => pc' = "list"
      BY <1>0, <1>21 DEF LeaveVma, PhaseInv
    <3>4. \A f \in Phases : f # phase' => ~cursor'[f].valid
      BY <1>0, <1>p, <1>21, <3>1, <3>2 DEF LeaveVma, PhaseInv
    <3>5. cursor'[Sweep].valid => hook' = "ready"
      BY <1>0, <1>p, <1>21, <3>1, <3>4 DEF LeaveVma, PhaseInv
    <3>6. UNCHANGED <<sweeping, phase, hook>>
      BY <1>21 DEF LeaveVma
    <3> QED BY <1>0, <3>1, <3>3, <3>4, <3>5, <3>6 DEF PhaseInv, InBatch
  <2>3. DueInv'
    <3> SUFFICES ASSUME ~stopping', NEW g \in due'
                 PROVE  /\ Ahead(g)'
                        /\ pc' = "list" /\ ~exhausted' => g[1] > at'
                        /\ pc' \in {"vma", "walk"} => g[1] > at' \/ (g[1] = at' /\ g[2] >= addr')
      BY DEF DueInv
    <3>1. g \in due /\ Ahead(g) /\ ~stopping
      BY <1>0, <1>21 DEF LeaveVma, DueInv
    <3>2. InBatch /\ at \in Procs /\ addr \in Nat /\ at \in Nat
      BY <1>0, <1>21, ProcFacts DEF LeaveVma, InBatch, AtInv, BatchOK
    <3>3. g[1] > at \/ (g[1] = at /\ g[2] >= addr)
      BY <1>0, <1>21, <3>1 DEF LeaveVma, DueInv
    <3>4. UNCHANGED <<at, phase>>
      BY <1>21 DEF LeaveVma
    <3>5. CASE left = 0 \/ late
      <4>1. pc' = "list" /\ exhausted' /\ cursor' = [cursor EXCEPT ![phase] = Resume]
        BY <1>p, <1>21, <3>2, <3>5 DEF LeaveVma
      <4>2. cursor'[phase] = [valid |-> TRUE, pid |-> Pid[at], addr |-> addr]
        BY <1>0, <1>p, <4>1 DEF CursorOK, Resume
      <4>3. g[1] > at => Pid[g[1]] > Pid[at]
        BY <1>d, <3>1, <3>2, ProcsAssumption DEF PidsGrow
      <4>4. Ahead(g)'
        BY <1>d, <3>1, <3>2, <3>3, <3>4, <4>2, <4>3, ProcsAssumption DEF Ahead
      <4> QED BY <4>1, <4>4
    <3>6. CASE ~ (left = 0 \/ late)
      <4>1. addr = end
        BY <1>21, <3>1, <3>6 DEF LeaveVma, ClockStop
      <4>2. /\ pc' = "vma" /\ addr' = end
            /\ cursor' = [cursor EXCEPT ![phase].addr = IF AtCursor THEN 0 ELSE @]
        BY <1>p, <1>21, <3>2, <3>6 DEF LeaveVma
      <4>3. /\ cursor'[phase].valid = cursor[phase].valid
            /\ cursor'[phase].pid = cursor[phase].pid
            /\ cursor'[phase].addr \in {0, cursor[phase].addr}
        BY <1>0, <1>p, <4>2 DEF CursorOK
      <4>4. Ahead(g)'
        BY <1>d, <3>1, <3>4, <4>3 DEF Ahead
      <4> QED BY <3>3, <3>4, <4>1, <4>2, <4>4
    <3> QED BY <3>5, <3>6
  <2> QED BY <2>1, <2>2, <2>3 DEF PassInv
<1>22. ASSUME Finish PROVE PassInv'
  <2>1. AliveInv'
    BY <1>0, <1>22 DEF Finish, AliveInv, ProcsOK
  <2>2. PhaseInv'
    <3>1. InBatch /\ pc' = "end" /\ at' = 0 /\ ~exhausted' /\ hook' = hook
      BY <1>22 DEF Finish, InBatch
    <3>2. CASE exhausted
      BY <1>0, <1>22, <3>1, <3>2 DEF Finish, PhaseInv, InBatch
    <3>3. CASE ~exhausted
      <4>1. cursor' = [cursor EXCEPT ![phase] = NoCursor]
        BY <1>p, <1>22, <3>1, <3>3 DEF Finish
      <4>2. \A f \in Phases : ~cursor'[f].valid
        BY <1>0, <1>p, <4>1 DEF CursorOK, PhaseInv, NoCursor
      <4> QED BY <1>p, <3>1, <4>2 DEF PhaseInv, InBatch
    <3> QED BY <3>2, <3>3
  <2>3. DueInv'
    <3> SUFFICES ASSUME ~stopping', NEW g \in due'
                 PROVE  /\ Ahead(g)'
                        /\ pc' = "list" /\ ~exhausted' => g[1] > at'
                        /\ pc' \in {"vma", "walk"} => g[1] > at' \/ (g[1] = at' /\ g[2] >= addr')
      BY DEF DueInv
    <3>1. InBatch /\ pc' = "end"
      BY <1>22 DEF Finish, InBatch
    <3>2. CASE exhausted
      BY <1>0, <1>22, <3>1, <3>2 DEF Finish, DueInv, Ahead
    <3>3. CASE ~exhausted
      <4>1. cursor' = [cursor EXCEPT ![phase] = NoCursor] /\ phase' \in Phases
        BY <1>p, <1>22, <3>1, <3>3 DEF Finish
      <4>2. \A f \in Phases : ~cursor'[f].valid
        BY <1>0, <1>p, <4>1 DEF CursorOK, PhaseInv, NoCursor
      <4> QED BY <3>1, <4>1, <4>2 DEF Ahead
    <3> QED BY <3>2, <3>3
  <2> QED BY <2>1, <2>2, <2>3 DEF PassInv
<1>23. ASSUME Pace PROVE PassInv'
  <2>1. AliveInv'
    BY <1>0, <1>23 DEF Pace, AliveInv, ProcsOK
  <2>2. PhaseInv'
    BY <1>0, <1>23 DEF Pace, PhaseInv, InBatch, SharedOK
  <2>3. DueInv'
    BY <1>0, <1>d, <1>23 DEF Pace, DueInv, Ahead
  <2> QED BY <2>1, <2>2, <2>3 DEF PassInv
<1>24. ASSUME ThreadEnd PROVE PassInv'
  <2>1. AliveInv'
    BY <1>0, <1>24 DEF ThreadEnd, AliveInv, ProcsOK
  <2>2. PhaseInv'
    BY <1>0, <1>24 DEF ThreadEnd, PhaseInv, InBatch, SharedOK
  <2>3. DueInv'
    BY <1>0, <1>d, <1>24 DEF ThreadEnd, DueInv, Ahead
  <2> QED BY <2>1, <2>2, <2>3 DEF PassInv
<1>25. CASE UNCHANGED vars
  BY <1>0, <1>25 DEF vars, PassInv, AliveInv, PhaseInv, DueInv, Ahead, InBatch
<1> QED
  BY <1>1, <1>2, <1>3, <1>4, <1>5, <1>6, <1>7, <1>8, <1>9, <1>10, <1>11, <1>12, <1>13, <1>14, <1>15, <1>16, <1>17, <1>18, <1>19, <1>20, <1>21, <1>22, <1>23, <1>24, <1>25 DEF Next, Thread

\* However its batches are cut, a pass looks at every page that was due,
\* unless the page's process is gone or its lock was missed, as long as pids
\* grow along the task list and nobody enables the scanner in the middle of a
\* batch: set_enabled then resets the cursors under it.
THEOREM PassesAreComplete ==
  ASSUME "race" \notin Env, PidsGrow
  PROVE  Spec => PassComplete
<1>1. ASSUME TypeInv, PassInv, [Next]_vars, pc = "list", phase' # phase, ~stopping
      PROVE  due = {}
  <2>1. Finish /\ ~exhausted
    BY <1>1 DEF Next, Thread, vars, procs, shared, ctl, batch, pace, Birth, Exit, Fault, Use,
      HookInit, SetEnabled, SetInterval, Stop, Tick, Begin, GiveUpSweep, PassOver, LockMiss,
      Lock, EnterVma, Unlock, MarkPage, SweepPast, SweepSkip, SweepPage, LeaveVma, Finish,
      Pace, ThreadEnd
  <2>2. ~ \E p \in Procs : NextProc(p)
    BY <1>1, <2>1 DEF Finish
  <2>3. at \in Nat /\ alive \subseteq Procs
    BY <1>1, ProcsAssumption DEF TypeInv, TypeOK, ProcsOK, BatchOK, Procs
  <2>4. \A p \in alive : ~ (p > at)
    BY <2>2, <2>3, LastProc
  <2>5. ASSUME NEW g \in due PROVE FALSE
    <3>1. g[1] \in alive
      BY <1>1, DueFacts DEF PassInv
    <3>2. g[1] > at
      BY <1>1, <2>1 DEF PassInv, DueInv
    <3> QED BY <2>4, <3>1, <3>2
  <2> QED BY <2>5
<1>2. Spec => [](TypeInv /\ PassInv)
  <2>1. Init => TypeInv /\ PassInv
    BY InitType, InitPass
  <2>2. TypeInv /\ PassInv /\ [Next]_vars => TypeInv' /\ PassInv'
    BY TypeStep, PassStep
  <2> QED BY <2>1, <2>2, PTL DEF Spec
<1>3. TypeInv /\ PassInv /\ [Next]_vars =>
        [pc = "list" /\ phase' # phase /\ ~stopping => due = {}]_vars
  BY <1>1
<1> QED BY <1>2, <1>3, PTL DEF Spec, PassComplete
================================================================================
