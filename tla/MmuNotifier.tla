----------------------------- MODULE MmuNotifier -----------------------------
(***************************************************************************)
(* Registration and release of MMU notifiers, src/kernel/minimem_mmu.c.    *)
(* Whoever compresses pages of an address space (mm) asks for a notifier:  *)
(* the mm is put on a pending set with a reference (mm_users), and one of  *)
(* two work items registers it under the mmap lock, or puts it back and    *)
(* tries again 50 ms later.  The last mmput of an mm runs the notifier's   *)
(* release callback, which drops one registration; module exit drains the  *)
(* workqueue and drops the registrations that are left.                    *)
(*                                                                         *)
(* The callers are modelled as far as they take and drop references: the   *)
(* scanner, and compress_pid, which run compress_and_replace_pte.  What a  *)
(* release does to the page table is in PageLifecycle.                     *)
(***************************************************************************)
EXTENDS Integers, FiniteSets

CONSTANTS
  Mms,       \* address spaces, and the processes that own them
  Scanners,  \* contexts that run minimem_scan_batch_vma
  Writers,   \* contexts that write the sysfs file compress_pid
  Workers,   \* the two work items, Work and DWork
  Work, DWork,
  Unloader,  \* the rmmod context
  None,
  MaxUsers,  \* bound on mm_users, which callers only raise
  MaxRegs,   \* bound on a notifier's users, which registering again only raises
  Env        \* which environments act, a subset of EnvKinds

EnvKinds == {"oom",     \* allocations fail
             "unload",  \* the module is removed
             "late"}    \* processes exit while it is

Callers == Scanners \union Writers
Actors  == Mms \union Callers \union Workers \union {Unloader}

ASSUME EnvAssumption == Env \subseteq EnvKinds
ASSUME BoundAssumption == MaxUsers \in Nat /\ MaxRegs \in Nat
ASSUME WorkersAssumption == Workers = {Work, DWork} /\ Work # DWork
ASSUME FiniteAssumption == IsFiniteSet(Mms) /\ IsFiniteSet(Callers)
ASSUME ActorsAssumption ==
  /\ None \notin Actors /\ Unloader \notin Mms \union Callers \union Workers
  /\ Mms \cap Callers = {} /\ Mms \cap Workers = {} /\ Callers \cap Workers = {}

VARIABLES
  alive,    \* the processes that have not exited
  locked,   \* the callers that hold the mmap lock for reading
  users,    \* [Mms -> Nat]: mm_users
  torn,     \* the mms whose last user is gone and exit_mmap is over
  subUsers, \* [Mms -> Nat]: users of its mmu_notifier
  sub,      \* [Mms -> "none", "linked", "put" (unlinked, not freed) or "freed"]
  pending,  \* minimem_pending_mms
  queued,   \* the work items queued
  timer,    \* the delayed work item's timer is armed
  taken,    \* [Workers -> SUBSET Mms]: what is left of a worker's array
  pc,       \* where each actor is
  on,       \* [Actors -> Mms or None]: the mm it is at
  wq,       \* "up", "draining", "gone" (notifiers being put), "unloaded"
  todo,     \* the notifiers minimem_mmu_exit has yet to put,
  ahead,    \* the one list_for_each_entry_safe goes on with, or None,
  left      \* and how often it has to put the one it is at

mms  == <<users, torn>>
subs == <<subUsers, sub>>
work == <<pending, queued, timer, taken>>
unl  == <<wq, todo, ahead, left>>
vars == <<alive, locked, mms, subs, work, pc, on, unl>>

Init ==
  /\ alive = Mms /\ locked = {}
  /\ users = [m \in Mms |-> 1]
  /\ torn = {}
  /\ subUsers = [m \in Mms |-> 0]
  /\ sub = [m \in Mms |-> "none"]
  /\ pending = {} /\ queued = {} /\ timer = FALSE
  /\ taken = [w \in Workers |-> {}]
  /\ pc = [x \in Actors |-> "idle"]
  /\ on = [x \in Actors |-> IF x \in Mms THEN x ELSE None]
  /\ wq = "up" /\ todo = {} /\ ahead = None /\ left = 0

Goto(x, from, to) == pc[x] = from /\ pc' = [pc EXCEPT ![x] = to]
AddUsers(m, n)    == users' = [users EXCEPT ![m] = @ + n]

-----------------------------------------------------------------------------
(* mmput, and what the last one sets off.                                  *)

\* Where an actor goes on after its mmput.
Back(x) == IF x \in Workers THEN "loop" ELSE IF x \in Mms THEN "exited" ELSE "idle"

MmPut(x) ==
  /\ Goto(x, "mmput", IF users[on[x]] = 1 THEN "release" ELSE Back(x))
  /\ AddUsers(on[x], -1)
  /\ UNCHANGED <<alive, locked, torn, subs, work, on, unl>>

\* mmu_notifier_put: the last user unlinks the notifier; one too many is
\* warned about and ignored.
SubPut(m) ==
  IF subUsers[m] = 0 THEN UNCHANGED subs
  ELSE /\ subUsers' = [subUsers EXCEPT ![m] = @ - 1]
       /\ sub' = [sub EXCEPT ![m] = IF subUsers[m] = 1 THEN "put" ELSE @]

\* exit_mmap calls minimem_mmu_release if the mm has a notifier ...
Release(x) ==
  /\ Goto(x, "release", IF sub[on[x]] = "linked" THEN "released" ELSE Back(x))
  /\ torn' = IF sub[on[x]] = "linked" THEN torn ELSE torn \union {on[x]}
  /\ UNCHANGED <<alive, locked, users, subs, work, on, unl>>

\* ... which drops one registration, however many there were.
ReleasePut(x) ==
  /\ Goto(x, "released", Back(x))
  /\ SubPut(on[x])
  /\ torn' = torn \union {on[x]}
  /\ UNCHANGED <<alive, locked, users, work, on, unl>>

\* minimem_mmu_free_notifier, once no callback is running.
FreeSub(m) ==
  /\ sub[m] = "put" /\ \A x \in Actors : pc[x] = "released" => on[x] # m
  /\ sub' = [sub EXCEPT ![m] = "freed"]
  /\ todo' = todo \ {m}
  /\ UNCHANGED <<alive, locked, mms, subUsers, work, pc, on, wq, ahead, left>>

\* The owner of the mm exits.
ProcessExit(m) ==
  /\ Goto(m, "idle", "mmput")
  /\ wq = "up" \/ "late" \in Env
  /\ alive' = alive \ {m}
  /\ UNCHANGED <<locked, mms, subs, work, on, unl>>

-----------------------------------------------------------------------------
(* The callers.  compress_pid_store takes one reference with get_task_mm;  *)
(* minimem_scan_batch_vma takes a second one with mmget_not_zero.  Each of *)
(* them drops one.                                                         *)

Enter(c, m) ==
  /\ Goto(c, "idle", "entered")
  /\ wq = "up" /\ m \in alive
  /\ users[m] + 2 <= MaxUsers /\ subUsers[m] < MaxRegs
  /\ AddUsers(m, IF c \in Scanners THEN 2 ELSE 1)
  /\ on' = [on EXCEPT ![c] = m]
  /\ UNCHANGED <<alive, locked, torn, subs, work, unl>>

\* mmap_read_trylock.
LockMiss(c) ==
  /\ Goto(c, "entered", "mmput")
  /\ UNCHANGED <<alive, locked, mms, subs, work, on, unl>>

Lock(c) ==
  /\ Goto(c, "entered", "walk")
  /\ locked' = locked \union {c}
  /\ UNCHANGED <<alive, mms, subs, work, on, unl>>

\* minimem_mmu_register_deferred, for every page compressed under the lock and
\* once more after it: take a reference, ...
Defer(c) ==
  /\ Goto(c, "walk", "store")
  /\ users[on[c]] < MaxUsers /\ subUsers[on[c]] < MaxRegs
  /\ AddUsers(on[c], 1)
  /\ UNCHANGED <<alive, locked, torn, subs, work, on, unl>>

\* ... put the mm on the pending set, replacing it silently if it is there; that
\* xa_store may find no memory is not looked at; ...
Put(m) == \/ pending' = pending \union {m}
          \/ "oom" \in Env /\ UNCHANGED pending

DeferStore(c) ==
  /\ Goto(c, "store", "queue")
  /\ Put(on[c])
  /\ UNCHANGED <<alive, locked, mms, subs, queued, timer, taken, on, unl>>

\* ... and queue the work item.
DeferQueue(c) ==
  /\ Goto(c, "queue", IF c \in locked THEN "walk" ELSE "mmput")
  /\ queued' = queued \union {Work}
  /\ UNCHANGED <<alive, locked, mms, subs, pending, timer, taken, on, unl>>

Unlock(c) ==
  /\ pc[c] = "walk" /\ c \in locked
  /\ locked' = locked \ {c}
  /\ UNCHANGED <<alive, mms, subs, work, pc, on, unl>>

Leave(c) ==
  /\ Goto(c, "walk", "mmput")
  /\ c \notin locked
  /\ UNCHANGED <<alive, locked, mms, subs, work, on, unl>>

Call(c) == (\E m \in Mms : Enter(c, m)) \/ LockMiss(c) \/ Lock(c) \/ Defer(c)
             \/ DeferStore(c) \/ DeferQueue(c) \/ Unlock(c) \/ Leave(c)

-----------------------------------------------------------------------------
(* minimem_mmu_register_work_impl, run by both work items.                 *)

StartWork(w) ==
  /\ Goto(w, "idle", "collect")
  /\ w \in queued
  /\ queued' = queued \ {w}
  /\ UNCHANGED <<alive, locked, mms, subs, pending, timer, taken, on, unl>>

\* Take what is pending into an array; memory for it, or for more of it, may
\* be missing, and what was not taken stays.
Collect(w) ==
  \E took \in (IF "oom" \in Env THEN SUBSET pending ELSE {pending}) :
    /\ Goto(w, "collect", "loop")
    /\ taken' = [taken EXCEPT ![w] = took]
    /\ pending' = pending \ took
    /\ UNCHANGED <<alive, locked, mms, subs, queued, timer, on, unl>>

\* mmu_notifier_get_locked with the mmap lock held: one more user of the
\* notifier the mm has, or a new one.
Register(w, m) ==
  /\ Goto(w, "loop", "mmput")
  /\ m \in taken[w]
  /\ \A c \in locked : on[c] # m
  /\ \/ /\ subUsers' = [subUsers EXCEPT ![m] = @ + 1]
        /\ sub' = [sub EXCEPT ![m] = "linked"]
     \/ "oom" \in Env /\ sub[m] = "none" /\ UNCHANGED subs
  /\ taken' = [taken EXCEPT ![w] = @ \ {m}]
  /\ on' = [on EXCEPT ![w] = m]
  /\ UNCHANGED <<alive, locked, mms, pending, queued, timer, unl>>

\* Mutant: the reference is dropped although the mm goes back to pending.
RequeuePuts(w, m) ==
  /\ Goto(w, "loop", "mmput")
  /\ m \in taken[w]
  /\ taken' = [taken EXCEPT ![w] = @ \ {m}]
  /\ on' = [on EXCEPT ![w] = m]
  /\ pending' = pending \union {m} /\ timer' = TRUE
  /\ UNCHANGED <<alive, locked, mms, subs, queued, unl>>

\* down_write_trylock failed: back on the pending set, ...
Requeue(w, m) ==
  /\ Goto(w, "loop", "arm")
  /\ m \in taken[w]
  /\ taken' = [taken EXCEPT ![w] = @ \ {m}]
  /\ Put(m)
  /\ UNCHANGED <<alive, locked, mms, subs, queued, timer, on, unl>>

\* Mutant: the delayed work is queued on the first failure only.
ArmOnce(w) ==
  /\ Goto(w, "arm", "loop")
  /\ timer' = (timer \/ w = Work)
  /\ UNCHANGED <<alive, locked, mms, subs, pending, queued, taken, on, unl>>

\* ... with another try in 50 ms.
Arm(w) ==
  /\ Goto(w, "arm", "loop")
  /\ timer' = TRUE
  /\ UNCHANGED <<alive, locked, mms, subs, pending, queued, taken, on, unl>>

EndWork(w) ==
  /\ Goto(w, "loop", "idle")
  /\ taken[w] = {}
  /\ UNCHANGED <<alive, locked, mms, subs, work, on, unl>>

\* The timer queues the delayed work; a workqueue being drained refuses it.
TimerFires ==
  /\ timer /\ wq \in {"up", "draining"}
  /\ timer' = FALSE
  /\ queued' = IF wq = "up" THEN queued \union {DWork} ELSE queued
  /\ UNCHANGED <<alive, locked, mms, subs, pending, taken, pc, on, unl>>

Run(w) == StartWork(w) \/ Collect(w) \/ Arm(w) \/ EndWork(w)
            \/ (\E m \in Mms : Register(w, m) \/ Requeue(w, m))

-----------------------------------------------------------------------------
(* minimem_mmu_exit, after sysfs, debugfs and the scanner are gone and the *)
(* drain of compressed pages has kept a reference on each mm it visited.   *)

UnloadStart ==
  /\ "unload" \in Env /\ wq = "up"
  /\ \A c \in Callers : pc[c] = "idle"
  /\ "late" \in Env \/ \A m \in Mms : pc[m] \in {"idle", "exited"}
  /\ wq' = "draining"
  /\ \E visited \in SUBSET alive :
       users' = [m \in Mms |-> IF m \in visited THEN users[m] + 1 ELSE users[m]]
  /\ UNCHANGED <<alive, locked, torn, subs, work, pc, on, todo, ahead, left>>

\* drain_workqueue and destroy_workqueue; forget the pending mms, with the
\* references they hold; take the list of notifiers.
UnloadDrained ==
  /\ wq = "draining"
  /\ queued = {} /\ \A w \in Workers : pc[w] = "idle"
  /\ wq' = "gone"
  /\ pending' = {}
  /\ todo' = {m \in Mms : sub[m] \in {"linked", "put"}}
  /\ UNCHANGED <<alive, locked, mms, subs, queued, timer, taken, pc, on, ahead, left>>

\* The next of the list: its head at first, then the one saved before the puts,
\* which a process that exits meanwhile may have freed.
Pick(m) ==
  /\ Goto(Unloader, "idle", IF sub[m] = "freed" THEN "freed" ELSE "puts")
  /\ wq = "gone" /\ m \in (IF ahead = None THEN todo ELSE {ahead})
  /\ on' = [on EXCEPT ![Unloader] = m]
  /\ todo' = todo \ {m}
  /\ ahead' \in (IF todo' = {} THEN {None} ELSE todo')
  /\ UNCHANGED <<alive, locked, mms, subs, work, wq>>

\* Mutant: every notifier is put once (what research/025 found and fixed).
PickOnce(m) == Pick(m) /\ left' = 1

\* READ_ONCE(sub->notifier.users).
UnloadPick(m) == Pick(m) /\ left' = subUsers[m]

\* A put of a notifier that was freed is the end of what can be said.
UnloadPut ==
  LET m == on[Unloader]
  IN  /\ pc[Unloader] = "puts" /\ left > 0
      /\ left' = left - 1
      /\ IF sub[m] = "freed"
         THEN pc' = [pc EXCEPT ![Unloader] = "freed"] /\ UNCHANGED subs
         ELSE SubPut(m) /\ UNCHANGED pc
      /\ UNCHANGED <<alive, locked, mms, work, on, wq, todo, ahead>>

UnloadNext ==
  /\ Goto(Unloader, "puts", "idle")
  /\ left = 0
  /\ UNCHANGED <<alive, locked, mms, subs, work, on, unl>>

\* mmu_notifier_synchronize waits for the notifiers on their way to be freed.
UnloadDone ==
  /\ wq = "gone" /\ todo = {} /\ ahead = None /\ pc[Unloader] = "idle"
  /\ \A m \in Mms : sub[m] # "put"
  /\ wq' = "unloaded"
  /\ UNCHANGED <<alive, locked, mms, subs, work, pc, on, todo, ahead, left>>

Unload == UnloadStart \/ UnloadDrained \/ (\E m \in Mms : UnloadPick(m))
            \/ UnloadPut \/ UnloadNext \/ UnloadDone

-----------------------------------------------------------------------------
Next ==
  \/ \E x \in Actors : MmPut(x) \/ Release(x) \/ ReleasePut(x)
  \/ \E m \in Mms : FreeSub(m) \/ ProcessExit(m)
  \/ \E c \in Callers : Call(c)
  \/ \E w \in Workers : Run(w)
  \/ TimerFires \/ Unload

Spec == Init /\ [][Next]_vars

\* A kernel thread keeps running, and a queued work item and a timer are run.
\* A worker that finds the mmap lock taken again and again finds it free again
\* and again: it tries every 50 ms and nobody is in step with it.
LockComesFree ==
  \A w \in Workers, m \in Mms :
    []<>(pc[w] = "loop" /\ m \in taken[w]) => []<><<Register(w, m)>>_vars

Fairness ==
  /\ \A c \in Callers : WF_vars(LockMiss(c) \/ Lock(c)) /\ WF_vars(Unlock(c) \/ Leave(c))
                          /\ WF_vars(DeferStore(c) \/ DeferQueue(c))
  /\ \A x \in Actors : WF_vars(MmPut(x) \/ Release(x) \/ ReleasePut(x))
  /\ \A w \in Workers : WF_vars(Run(w))
  /\ WF_vars(TimerFires)
  /\ LockComesFree

FairSpec == Spec /\ Fairness

-----------------------------------------------------------------------------
(* Properties.                                                             *)

\* Every variable keeps its type; neither count ever goes below zero.
TypeOK ==
  /\ alive \subseteq Mms /\ locked \subseteq Callers /\ torn \subseteq Mms
  /\ users \in [Mms -> Nat] /\ subUsers \in [Mms -> Nat]
  /\ sub \in [Mms -> {"none", "linked", "put", "freed"}]
  /\ pending \subseteq Mms /\ queued \subseteq Workers /\ timer \in BOOLEAN
  /\ taken \in [Workers -> SUBSET Mms]
  /\ pc \in [Actors -> {"idle", "entered", "walk", "store", "queue", "mmput", "release",
                         "released", "exited", "collect", "loop", "arm", "puts", "freed"}]
  /\ on \in [Actors -> Mms \union {None}]
  /\ wq \in {"up", "draining", "gone", "unloaded"}
  /\ todo \subseteq Mms /\ ahead \in Mms \union {None} /\ left \in Nat

\* mm_users counts every pointer to an mm that somebody will still follow: the
\* process, callers, the reference that goes with a deferred registration from
\* mmget_not_zero through pending and a worker's array to its mmput.  So no mm
\* is torn down while any of them can reach it.
Holders(m) ==
  {x \in Actors : on[x] = m /\ pc[x] \in {"entered", "walk", "store", "queue", "mmput"}}
    \union (alive \cap {m}) \union {w \in Workers : m \in taken[w]}
Deferring(m) == {c \in Callers : on[c] = m /\ pc[c] = "store"}
UsersCover ==
  \A m \in Mms : Cardinality(Holders(m)) + Cardinality(Deferring(m))
                   + (IF m \in pending THEN 1 ELSE 0) <= users[m]

\* A pending registration is never forgotten: a work item is queued or has yet
\* to look at the pending set, the timer is armed, or someone is about to do
\* either.
NoLostRegistration ==
  wq = "up" /\ pending # {} =>
    \/ queued # {} \/ timer
    \/ \E w \in Workers : pc[w] \in {"collect", "arm"}
    \/ \E c \in Callers : pc[c] = "queue"

\* Every process whose registration was deferred gets its notifier, unless the
\* module is removed first.
Registered == \A m \in Mms : m \in pending ~> sub[m] = "linked" \/ wq # "up"

\* minimem_mmu_exit: "Without this, the kernel retains dangling pointers to
\* minimem_mmu_ops after module unload": no notifier is left when the module goes.
NoDanglingOps == wq = "unloaded" => \A m \in Mms : sub[m] \in {"none", "freed"}
=============================================================================
