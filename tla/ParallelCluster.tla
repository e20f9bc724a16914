--------------------------- MODULE ParallelCluster ---------------------------
(***************************************************************************)
(* Parallel cluster decompression, src/kernel/minimem_parallel.c: a caller *)
(* read-locks the compression map, queues one work item per page on the    *)
(* minimem_dec workqueue, waits on a completion that the worker taking the *)
(* outstanding count to zero signals, collects the results and frees the   *)
(* context.  The debugfs file bench is the only caller; all calls ask for  *)
(* the same pages.                                                         *)
(*                                                                         *)
(* Each call of minimem_parallel_decompress has a context of its own, and  *)
(* a freed context is not handed out again: what a worker does to a freed  *)
(* context stays visible instead of corrupting another call.               *)
(***************************************************************************)
EXTENDS Integers, FiniteSets

CONSTANTS
  Calls,   \* calls of minimem_parallel_decompress
  N        \* pages in a cluster, at most MINIMEM_MAX_CLUSTER

ASSUME NAssumption     == N \in 1 .. 32
ASSUME CallsAssumption == IsFiniteSet(Calls)

Items == 1 .. N

VARIABLES
  pc,        \* where each call is
  next,      \* the item its loop is at
  remaining, \* ctx->remaining
  done,      \* ctx->done: completions signalled and not consumed
  work,      \* [Calls -> [Items -> state of the work item]]
  status,    \* [Calls -> [Items -> item->status]]
  result,    \* what each call returned
  mapped,    \* pages that have an entry in the compression map
  active,    \* minimem_parallel_is_active()
  wq         \* "up"; "draining" once module exit began; "gone"

vars == <<pc, next, remaining, done, work, status, result, mapped, active, wq>>
ctx == <<remaining, done, work, status>>

Init ==
  /\ pc = [c \in Calls |-> "idle"]
  /\ next = [c \in Calls |-> 1]
  /\ remaining = [c \in Calls |-> 0]
  /\ done = [c \in Calls |-> 0]
  /\ work = [c \in Calls |-> [i \in Items |-> "none"]]
  /\ status = [c \in Calls |-> [i \in Items |-> "zero"]]
  /\ result = [c \in Calls |-> "none"]
  /\ mapped \in SUBSET Items
  /\ active \in BOOLEAN
  /\ wq = "up"

Goto(c, from, to) == pc[c] = from /\ pc' = [pc EXCEPT ![c] = to]
SetWork(c, i, s)  == work' = [work EXCEPT ![c][i] = s]

\* The calls that hold the map's rwsem for reading.
Readers == {c \in Calls : pc[c] \in {"submit", "count", "wait", "collect"}}

-----------------------------------------------------------------------------
(* The caller.                                                             *)

\* Parallel decompression is switched off, or there is no memory.
Refuse(c) ==
  /\ Goto(c, "idle", "returned")
  /\ wq = "up"
  /\ result' = [result EXCEPT ![c] = "error"]
  /\ UNCHANGED <<next, ctx, mapped, active, wq>>

Start(c) ==
  /\ Goto(c, "idle", "submit")
  /\ wq = "up" /\ active
  /\ UNCHANGED <<next, ctx, result, mapped, active, wq>>

\* Mutants: a page that is skipped is taken off the count, or put on it.
SkipUncounts(c) ==
  /\ pc[c] = "submit" /\ next[c] \in Items
  /\ status' = [status EXCEPT ![c][next[c]] = "error"]
  /\ remaining' = [remaining EXCEPT ![c] = @ - 1]
  /\ next' = [next EXCEPT ![c] = @ + 1]
  /\ UNCHANGED <<pc, done, work, result, mapped, active, wq>>

SkipCounts(c) ==
  /\ pc[c] = "submit" /\ next[c] \in Items
  /\ status' = [status EXCEPT ![c][next[c]] = "error"]
  /\ remaining' = [remaining EXCEPT ![c] = @ + 1]
  /\ next' = [next EXCEPT ![c] = @ + 1]
  /\ UNCHANGED <<pc, done, work, result, mapped, active, wq>>

\* The page has no entry, or there is no buffer for it.
SkipItem(c) ==
  /\ pc[c] = "submit" /\ next[c] \in Items
  /\ status' = [status EXCEPT ![c][next[c]] = "error"]
  /\ next' = [next EXCEPT ![c] = @ + 1]
  /\ UNCHANGED <<pc, remaining, done, work, result, mapped, active, wq>>

\* atomic_inc(&ctx->remaining) for a page that has an entry ...
CountItem(c) ==
  /\ Goto(c, "submit", "count")
  /\ next[c] \in Items \cap mapped
  /\ remaining' = [remaining EXCEPT ![c] = @ + 1]
  /\ SetWork(c, next[c], "counted")
  /\ UNCHANGED <<next, done, status, result, mapped, active, wq>>

\* ... and queue_work.
QueueItem(c) ==
  /\ Goto(c, "count", "submit")
  /\ SetWork(c, next[c], "queued")
  /\ next' = [next EXCEPT ![c] = @ + 1]
  /\ UNCHANGED <<remaining, done, status, result, mapped, active, wq>>

\* atomic_read(&ctx->remaining) decides whether to wait.
Check(c) ==
  /\ Goto(c, "submit", IF remaining[c] > 0 THEN "wait" ELSE "collect")
  /\ next[c] = N + 1
  /\ UNCHANGED <<next, ctx, result, mapped, active, wq>>

\* wait_for_completion.
Wake(c) ==
  /\ Goto(c, "wait", "collect")
  /\ done[c] > 0
  /\ done' = [done EXCEPT ![c] = @ - 1]
  /\ UNCHANGED <<next, remaining, work, status, result, mapped, active, wq>>

\* Read the statuses, free the context, release the map.
Collect(c) ==
  /\ Goto(c, "collect", "returned")
  /\ result' = [result EXCEPT ![c] =
                  IF \E i \in Items : status[c][i] = "error" THEN "error" ELSE "ok"]
  /\ UNCHANGED <<next, ctx, mapped, active, wq>>

Call(c) == Refuse(c) \/ Start(c) \/ SkipItem(c) \/ CountItem(c) \/ QueueItem(c)
             \/ Check(c) \/ Wake(c) \/ Collect(c)

-----------------------------------------------------------------------------
(* minimem_cluster_worker.                                                 *)

RunItem(c, i) ==
  /\ work[c][i] = "queued"
  /\ SetWork(c, i, "running")
  /\ UNCHANGED <<pc, next, remaining, done, status, result, mapped, active, wq>>

\* Mutant: the decrement is compared with the wrong value.
FinishOffByOne(c, i) ==
  /\ work[c][i] = "running"
  /\ \E s \in {"zero", "error"} : status' = [status EXCEPT ![c][i] = s]
  /\ remaining' = [remaining EXCEPT ![c] = @ - 1]
  /\ SetWork(c, i, IF remaining[c] = 0 THEN "signal" ELSE "over")
  /\ UNCHANGED <<pc, next, done, result, mapped, active, wq>>

\* Decompression ends one way or the other; atomic_dec_and_test.
FinishItem(c, i) ==
  /\ work[c][i] = "running"
  /\ \E s \in {"zero", "error"} : status' = [status EXCEPT ![c][i] = s]
  /\ remaining' = [remaining EXCEPT ![c] = @ - 1]
  /\ SetWork(c, i, IF remaining[c] = 1 THEN "signal" ELSE "over")
  /\ UNCHANGED <<pc, next, done, result, mapped, active, wq>>

\* complete(&ctx->done) by the worker whose decrement reached zero.
Signal(c, i) ==
  /\ work[c][i] = "signal"
  /\ SetWork(c, i, "over")
  /\ done' = [done EXCEPT ![c] = @ + 1]
  /\ UNCHANGED <<pc, next, remaining, status, result, mapped, active, wq>>

Worker(c, i) == RunItem(c, i) \/ FinishItem(c, i) \/ Signal(c, i)

-----------------------------------------------------------------------------
(* Around it: pages are stored and, with the rwsem held for writing,       *)
(* removed; the mode is switched; and the module exits, which waits for    *)
(* the debugfs calls in progress (debugfs_remove_recursive) and then for   *)
(* the workqueue (drain_workqueue).                                        *)

StorePage(i) ==
  /\ mapped' = mapped \union {i}
  /\ UNCHANGED <<pc, next, ctx, result, active, wq>>

\* Mutant: a removal does not take the rwsem.
RemoveUnlocked(i) ==
  /\ mapped' = mapped \ {i}
  /\ UNCHANGED <<pc, next, ctx, result, active, wq>>

RemovePage(i) ==
  /\ Readers = {}
  /\ mapped' = mapped \ {i}
  /\ UNCHANGED <<pc, next, ctx, result, active, wq>>

SetMode ==
  /\ active' = ~active
  /\ UNCHANGED <<pc, next, ctx, result, mapped, wq>>

Exit ==
  /\ wq = "up" /\ Readers = {}
  /\ wq' = "draining"
  /\ UNCHANGED <<pc, next, ctx, result, mapped, active>>

Busy(s) == s \in {"queued", "running", "signal"}

\* Mutant: the workqueue is destroyed without draining it.
DestroyAtOnce ==
  /\ wq = "draining"
  /\ wq' = "gone"
  /\ UNCHANGED <<pc, next, ctx, result, mapped, active>>

Drained ==
  /\ wq = "draining"
  /\ \A c \in Calls, i \in Items : ~Busy(work[c][i])
  /\ wq' = "gone"
  /\ UNCHANGED <<pc, next, ctx, result, mapped, active>>

Next ==
  \/ \E c \in Calls : Call(c) \/ (\E i \in Items : Worker(c, i))
  \/ (\E i \in Items : StorePage(i) \/ RemovePage(i))
  \/ SetMode \/ Exit \/ Drained

Spec == Init /\ [][Next]_vars

\* A kernel thread keeps running, the workqueue, which has a rescuer
\* (WQ_MEM_RECLAIM), runs what is queued, and rmmod waits no longer than it must.
Fairness ==
  /\ \A c \in Calls : WF_vars(pc[c] # "idle" /\ Call(c))
  /\ \A c \in Calls : \A i \in Items : WF_vars(Worker(c, i))
  /\ WF_vars(Drained)

FairSpec == Spec /\ Fairness

-----------------------------------------------------------------------------
(* Properties.                                                             *)

\* Every variable keeps its type; ctx->remaining never goes below zero.
TypeOK ==
  /\ pc \in [Calls -> {"idle", "submit", "count", "wait", "collect", "returned"}]
  /\ next \in [Calls -> 1 .. N + 1]
  /\ remaining \in [Calls -> Nat]
  /\ done \in [Calls -> Nat]
  /\ work \in [Calls -> [Items -> {"none", "counted", "queued", "running",
                                    "signal", "over"}]]
  /\ status \in [Calls -> [Items -> {"zero", "error"}]]
  /\ result \in [Calls -> {"none", "ok", "error"}]
  /\ mapped \subseteq Items
  /\ active \in BOOLEAN
  /\ wq \in {"up", "draining", "gone"}

\* ctx->remaining is the number of items counted and not finished, whether or
\* not the caller is still there.
Outstanding(c) == {i \in Items : work[c][i] \in {"counted", "queued", "running"}}
RemainingExact == \A c \in Calls : remaining[c] = Cardinality(Outstanding(c))

\* A caller that decided to wait has been signalled, or will be: a worker is
\* about to call complete(), or an item is left whose worker will.
NoLostWakeup ==
  \A c \in Calls : pc[c] = "wait" =>
    \/ done[c] > 0
    \/ \E i \in Items : work[c][i] = "signal"
    \/ Outstanding(c) # {}

\* While a call is in progress, no page it has an item at work for loses its
\* entry, so no remover gets to free the object the worker reads.
ItemsPinned ==
  \A c \in Readers : \A i \in Outstanding(c) : i \in mapped

\* Once the workqueue is destroyed, and with it the module's code may go, no
\* worker is in it, not even one whose call returned before it finished.
NoWorkAfterExit ==
  wq = "gone" => \A c \in Calls, i \in Items : work[c][i] \in {"none", "over"}

\* Every call that got the lock returns: the completion it waits for is
\* signalled by a worker (wait_for_completion, minimem_parallel.c:236).
CallsReturn == \A c \in Calls : pc[c] # "idle" ~> pc[c] = "returned"

\* minimem_parallel.h: "Blocks until all pages are decompressed (or errored)."
BlocksUntilDone ==
  \A c \in Calls : pc[c] = "returned" =>
    \A i \in Items : work[c][i] \in {"none", "over"}
=============================================================================
