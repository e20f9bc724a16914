------------------------ MODULE ParallelClusterProofs ------------------------
(***************************************************************************)
(* Proofs about ParallelCluster, for any finite set of calls and any       *)
(* cluster size up to MINIMEM_MAX_CLUSTER.                                 *)
(*                                                                         *)
(* That ctx->remaining is exact is not inductive by itself: the caller     *)
(* must be known to count each item once, in order (ItemInv).  From the    *)
(* exact count follows that the last worker signals, hence that no wakeup  *)
(* is lost.                                                                *)
(***************************************************************************)
EXTENDS ParallelCluster, FiniteSetTheorems, TLAPS

\* The items before next are submitted or skipped, those after it untouched;
\* the one at next is counted and not queued exactly between the two steps.
ItemInv ==
  /\ \A c \in Calls, i \in Items : work[c][i] = "counted" <=> pc[c] = "count" /\ i = next[c]
  /\ \A c \in Calls : pc[c] = "count" => next[c] \in Items
  /\ \A c \in Calls, i \in Items : work[c][i] # "none" => i <= next[c]
  /\ \A c \in Calls : next[c] \in Items /\ pc[c] # "count" => work[c][next[c]] = "none"
  /\ \A c \in Calls : pc[c] = "idle" => next[c] = 1
  /\ \A c \in Calls : pc[c] \in {"wait", "collect"} => next[c] = N + 1

\* Once the module exit began no call is in progress.
ExitInv == wq # "up" => Readers = {}

IInv ==
  /\ TypeOK /\ ItemInv /\ ExitInv
  /\ RemainingExact /\ NoLostWakeup /\ ItemsPinned /\ NoWorkAfterExit

-----------------------------------------------------------------------------
(* The count of outstanding items.                                         *)

\* Finitely many work items are outstanding.
LEMMA OutstandingFinite ==
  ASSUME NEW c
  PROVE  /\ IsFiniteSet(Outstanding(c))
         /\ Cardinality(Outstanding(c)) \in Nat
         /\ Cardinality(Outstanding(c)) = 0 <=> Outstanding(c) = {}
<1>1. IsFiniteSet(Items)
  BY NAssumption, FS_Interval DEF Items
<1>2. Outstanding(c) \subseteq Items
  BY DEF Outstanding
<1> QED BY <1>1, <1>2, FS_Subset, FS_CardinalityType, FS_EmptySet

\* What the exact count says: an item at work keeps it positive, and if it is
\* one, that item is the only one.
LEMMA RemainingFacts ==
  ASSUME RemainingExact, NEW c \in Calls
  PROVE  /\ remaining[c] > 0 => Outstanding(c) # {}
         /\ \A i \in Outstanding(c) :
              remaining[c] > 0 /\ (remaining[c] # 1 => Outstanding(c) \ {i} # {})
<1>1. remaining[c] = Cardinality(Outstanding(c))
  BY DEF RemainingExact
<1>2. ASSUME NEW i \in Outstanding(c), remaining[c] # 1
      PROVE  Outstanding(c) \ {i} # {}
  <2>1. Cardinality(Outstanding(c) \ {i}) = Cardinality(Outstanding(c)) - 1
    BY <1>2, OutstandingFinite, FS_RemoveElement
  <2>2. Cardinality(Outstanding(c)) - 1 # 0
    BY <1>1, <1>2, OutstandingFinite
  <2> QED BY <2>1, <2>2, FS_EmptySet
<1> QED BY <1>1, <1>2, OutstandingFinite

\* Every action keeps the count of what remains right.
LEMMA RemainingStep == IInv /\ [Next]_vars => RemainingExact'
<1> SUFFICES ASSUME IInv, [Next]_vars PROVE RemainingExact'
  OBVIOUS
<1> USE NAssumption DEF IInv
<1>1. ASSUME NEW c \in Calls, CountItem(c)
      PROVE  RemainingExact'
  <2>1. PICK i \in Items : i = next[c] /\ work[c][i] = "none"
    BY <1>1 DEF CountItem, Goto, ItemInv
  <2>2. Outstanding(c)' = Outstanding(c) \union {i} /\ i \notin Outstanding(c)
    BY <1>1, <2>1 DEF CountItem, SetWork, Outstanding, TypeOK
  <2>3. Cardinality(Outstanding(c)') = Cardinality(Outstanding(c)) + 1
    BY <2>2, OutstandingFinite, FS_AddElement
  <2>4. \A d \in Calls \ {c} : Outstanding(d)' = Outstanding(d) /\ remaining'[d] = remaining[d]
    BY <1>1 DEF CountItem, SetWork, Outstanding, TypeOK
  <2>5. remaining'[c] = remaining[c] + 1
    BY <1>1 DEF CountItem, TypeOK
  <2> QED BY <2>3, <2>4, <2>5 DEF RemainingExact
<1>2. ASSUME NEW c \in Calls, NEW i \in Items, FinishItem(c, i)
      PROVE  RemainingExact'
  <2>1. Outstanding(c)' = Outstanding(c) \ {i} /\ i \in Outstanding(c)
    BY <1>2 DEF FinishItem, SetWork, Outstanding, TypeOK
  <2>2. Cardinality(Outstanding(c)') = Cardinality(Outstanding(c)) - 1
    BY <2>1, OutstandingFinite, FS_RemoveElement
  <2>3. \A d \in Calls \ {c} : Outstanding(d)' = Outstanding(d) /\ remaining'[d] = remaining[d]
    BY <1>2 DEF FinishItem, SetWork, Outstanding, TypeOK
  <2>4. remaining'[c] = remaining[c] - 1
    BY <1>2 DEF FinishItem, TypeOK
  <2> QED BY <2>2, <2>3, <2>4 DEF RemainingExact
<1>3. ASSUME NEW c \in Calls, NEW i \in Items, QueueItem(c) \/ RunItem(c, i) \/ Signal(c, i)
      PROVE  RemainingExact'
  <2>1. \A d \in Calls : Outstanding(d)' = Outstanding(d)
    <3>1. CASE QueueItem(c)
      <4>1. next[c] \in Items /\ work[c][next[c]] = "counted"
        BY <3>1 DEF QueueItem, Goto, ItemInv
      <4> QED BY <3>1, <4>1 DEF QueueItem, SetWork, Outstanding, TypeOK
    <3>2. CASE RunItem(c, i)
      BY <3>2 DEF RunItem, SetWork, Outstanding, TypeOK
    <3>3. CASE Signal(c, i)
      BY <3>3 DEF Signal, SetWork, Outstanding, TypeOK
    <3> QED BY <1>3, <3>1, <3>2, <3>3
  <2>2. remaining' = remaining
    BY <1>3 DEF QueueItem, RunItem, Signal
  <2> QED BY <2>1, <2>2 DEF RemainingExact
<1>4. CASE UNCHANGED <<work, remaining>>
  BY <1>4 DEF RemainingExact, Outstanding
<1>5. Items # {}
  BY DEF Items
<1> QED
  BY <1>1, <1>2, <1>3, <1>4, <1>5
  DEF Next, Call, Worker, Refuse, Start, SkipItem, Check, Wake, Collect, StorePage,
      RemovePage, SetMode, Exit, Drained, ctx, vars

-----------------------------------------------------------------------------
(* The inductive invariant.                                                *)

\* A batch that has not begun meets the strengthening.
LEMMA InitIInv == Init => IInv
<1> SUFFICES ASSUME Init PROVE IInv
  OBVIOUS
<1>1. \A c \in Calls : Outstanding(c) = {}
  BY DEF Init, Outstanding
<1>2. RemainingExact
  BY <1>1, FS_EmptySet DEF Init, RemainingExact
<1> QED
  BY <1>1, <1>2, NAssumption
  DEF Init, IInv, TypeOK, ItemInv, ExitInv, NoLostWakeup, ItemsPinned, NoWorkAfterExit,
      Readers, Items

\* Every action keeps the strengthening.
LEMMA StepIInv == IInv /\ [Next]_vars => IInv'
<1> SUFFICES ASSUME IInv, [Next]_vars PROVE IInv'
  OBVIOUS
<1> USE NAssumption DEF IInv, Items
<1>0. RemainingExact'
  BY RemainingStep
<1>1. ASSUME NEW c \in Calls, Refuse(c)
      PROVE  IInv'
  <2>1. TypeOK'
    BY <1>1 DEF TypeOK, Refuse, Goto, ctx
  <2>2. ItemInv'
    BY <1>1 DEF TypeOK, ItemInv, Refuse, Goto, ctx
  <2>3. ExitInv'
    BY <1>1 DEF TypeOK, ExitInv, Readers, Refuse, Goto, ctx
  <2>4. NoLostWakeup'
    BY <1>1 DEF TypeOK, NoLostWakeup, Outstanding, Refuse, Goto, ctx
  <2>5. ItemsPinned'
    BY <1>1 DEF TypeOK, ItemInv, ItemsPinned, Outstanding, Readers, Refuse, Goto, ctx
  <2>6. NoWorkAfterExit'
    BY <1>1 DEF TypeOK, ItemInv, ExitInv, NoWorkAfterExit, Readers, Refuse, Goto, ctx
  <2> QED BY <1>0, <2>1, <2>2, <2>3, <2>4, <2>5, <2>6
<1>2. ASSUME NEW c \in Calls, Start(c)
      PROVE  IInv'
  <2>1. TypeOK'
    BY <1>2 DEF TypeOK, Start, Goto, ctx
  <2>2. ItemInv'
    BY <1>2 DEF TypeOK, ItemInv, Start, Goto, ctx
  <2>3. ExitInv'
    BY <1>2 DEF TypeOK, ExitInv, Readers, Start, Goto, ctx
  <2>4. NoLostWakeup'
    BY <1>2 DEF TypeOK, NoLostWakeup, Outstanding, Start, Goto, ctx
  <2>5. ItemsPinned'
    <3>1. pc[c] = "idle" /\ next[c] = 1 /\ 1 \in Items
      BY <1>2 DEF Start, Goto, ItemInv
    <3>2. \A i \in Items : work[c][i] = "none"
      BY <3>1 DEF ItemInv
    <3> QED BY <1>2, <3>2 DEF TypeOK, ItemsPinned, Outstanding, Readers, Start, Goto, ctx
  <2>6. NoWorkAfterExit'
    BY <1>2 DEF TypeOK, ItemInv, ExitInv, NoWorkAfterExit, Readers, Start, Goto, ctx
  <2> QED BY <1>0, <2>1, <2>2, <2>3, <2>4, <2>5, <2>6
<1>3. ASSUME NEW c \in Calls, SkipItem(c)
      PROVE  IInv'
  <2>1. TypeOK'
    BY <1>3 DEF TypeOK, SkipItem, ctx
  <2>2. ItemInv'
    BY <1>3 DEF TypeOK, ItemInv, SkipItem, ctx
  <2>3. ExitInv'
    BY <1>3 DEF TypeOK, ExitInv, Readers, SkipItem, ctx
  <2>4. NoLostWakeup'
    BY <1>3 DEF TypeOK, NoLostWakeup, Outstanding, SkipItem, ctx
  <2>5. ItemsPinned'
    BY <1>3 DEF TypeOK, ItemInv, ItemsPinned, Outstanding, Readers, SkipItem, ctx
  <2>6. NoWorkAfterExit'
    BY <1>3 DEF TypeOK, ItemInv, ExitInv, NoWorkAfterExit, Readers, SkipItem, ctx
  <2> QED BY <1>0, <2>1, <2>2, <2>3, <2>4, <2>5, <2>6
<1>4. ASSUME NEW c \in Calls, CountItem(c)
      PROVE  IInv'
  <2>1. TypeOK'
    BY <1>4 DEF TypeOK, CountItem, Goto, SetWork, ctx
  <2>2. ItemInv'
    BY <1>4 DEF TypeOK, ItemInv, CountItem, Goto, SetWork, ctx
  <2>3. ExitInv'
    BY <1>4 DEF TypeOK, ExitInv, Readers, CountItem, Goto, SetWork, ctx
  <2>4. NoLostWakeup'
    BY <1>4 DEF TypeOK, NoLostWakeup, Outstanding, CountItem, Goto, SetWork, ctx
  <2>5. ItemsPinned'
    BY <1>4 DEF TypeOK, ItemInv, ItemsPinned, Outstanding, Readers, CountItem, Goto, SetWork, ctx
  <2>6. NoWorkAfterExit'
    BY <1>4 DEF TypeOK, ItemInv, ExitInv, NoWorkAfterExit, Readers, CountItem, Goto, SetWork, ctx
  <2> QED BY <1>0, <2>1, <2>2, <2>3, <2>4, <2>5, <2>6
<1>5. ASSUME NEW c \in Calls, QueueItem(c)
      PROVE  IInv'
  <2>1. TypeOK'
    BY <1>5 DEF TypeOK, ItemInv, QueueItem, Goto, SetWork, ctx
  <2>2. ItemInv'
    BY <1>5 DEF TypeOK, ItemInv, QueueItem, Goto, SetWork, ctx
  <2>3. ExitInv'
    BY <1>5 DEF TypeOK, ExitInv, Readers, QueueItem, Goto, SetWork, ctx
  <2>4. NoLostWakeup'
    BY <1>5 DEF TypeOK, NoLostWakeup, Outstanding, QueueItem, Goto, SetWork, ctx
  <2>5. ItemsPinned'
    BY <1>5 DEF TypeOK, ItemInv, ItemsPinned, Outstanding, Readers, QueueItem, Goto, SetWork, ctx
  <2>6. NoWorkAfterExit'
    BY <1>5 DEF TypeOK, ItemInv, ExitInv, NoWorkAfterExit, Readers, QueueItem, Goto, SetWork, ctx
  <2> QED BY <1>0, <2>1, <2>2, <2>3, <2>4, <2>5, <2>6
<1>6. ASSUME NEW c \in Calls, Check(c)
      PROVE  IInv'
  <2>1. TypeOK'
    BY <1>6, RemainingFacts DEF TypeOK, Check, Goto, ctx
  <2>2. ItemInv'
    BY <1>6 DEF TypeOK, ItemInv, Check, Goto, ctx
  <2>3. ExitInv'
    BY <1>6 DEF TypeOK, ExitInv, Readers, Check, Goto, ctx
  <2>4. NoLostWakeup'
    BY <1>6, RemainingFacts DEF TypeOK, NoLostWakeup, Outstanding, Check, Goto, ctx
  <2>5. ItemsPinned'
    BY <1>6 DEF TypeOK, ItemInv, ItemsPinned, Outstanding, Readers, Check, Goto, ctx
  <2>6. NoWorkAfterExit'
    BY <1>6 DEF TypeOK, ItemInv, ExitInv, NoWorkAfterExit, Readers, Check, Goto, ctx
  <2> QED BY <1>0, <2>1, <2>2, <2>3, <2>4, <2>5, <2>6
<1>7. ASSUME NEW c \in Calls, Wake(c)
      PROVE  IInv'
  <2>1. TypeOK'
    BY <1>7 DEF TypeOK, Wake, Goto, ctx
  <2>2. ItemInv'
    BY <1>7 DEF TypeOK, ItemInv, Wake, Goto, ctx
  <2>3. ExitInv'
    BY <1>7 DEF TypeOK, ExitInv, Readers, Wake, Goto, ctx
  <2>4. NoLostWakeup'
    BY <1>7 DEF TypeOK, NoLostWakeup, Outstanding, Wake, Goto, ctx
  <2>5. ItemsPinned'
    BY <1>7 DEF TypeOK, ItemInv, ItemsPinned, Outstanding, Readers, Wake, Goto, ctx
  <2>6. NoWorkAfterExit'
    BY <1>7 DEF TypeOK, ItemInv, ExitInv, NoWorkAfterExit, Readers, Wake, Goto, ctx
  <2> QED BY <1>0, <2>1, <2>2, <2>3, <2>4, <2>5, <2>6
<1>8. ASSUME NEW c \in Calls, Collect(c)
      PROVE  IInv'
  <2>1. TypeOK'
    BY <1>8 DEF TypeOK, Collect, Goto, ctx
  <2>2. ItemInv'
    BY <1>8 DEF TypeOK, ItemInv, Collect, Goto, ctx
  <2>3. ExitInv'
    BY <1>8 DEF TypeOK, ExitInv, Readers, Collect, Goto, ctx
  <2>4. NoLostWakeup'
    BY <1>8 DEF TypeOK, NoLostWakeup, Outstanding, Collect, Goto, ctx
  <2>5. ItemsPinned'
    BY <1>8 DEF TypeOK, ItemInv, ItemsPinned, Outstanding, Readers, Collect, Goto, ctx
  <2>6. NoWorkAfterExit'
    BY <1>8 DEF TypeOK, ItemInv, ExitInv, NoWorkAfterExit, Readers, Collect, Goto, ctx
  <2> QED BY <1>0, <2>1, <2>2, <2>3, <2>4, <2>5, <2>6
<1>9. ASSUME NEW c \in Calls, NEW i \in Items, RunItem(c, i)
      PROVE  IInv'
  <2>1. TypeOK'
    BY <1>9 DEF TypeOK, RunItem, SetWork, ctx
  <2>2. ItemInv'
    BY <1>9 DEF TypeOK, ItemInv, RunItem, SetWork, ctx
  <2>3. ExitInv'
    BY <1>9 DEF TypeOK, ExitInv, Readers, RunItem, SetWork, ctx
  <2>4. NoLostWakeup'
    BY <1>9 DEF TypeOK, NoLostWakeup, Outstanding, RunItem, SetWork, ctx
  <2>5. ItemsPinned'
    BY <1>9 DEF TypeOK, ItemInv, ItemsPinned, Outstanding, Readers, RunItem, SetWork, ctx
  <2>6. NoWorkAfterExit'
    BY <1>9 DEF TypeOK, ItemInv, ExitInv, NoWorkAfterExit, Readers, RunItem, SetWork, ctx
  <2> QED BY <1>0, <2>1, <2>2, <2>3, <2>4, <2>5, <2>6
<1>10. ASSUME NEW c \in Calls, NEW i \in Items, FinishItem(c, i)
      PROVE  IInv'
  <2>1. TypeOK'
    <3>1. remaining[c] \in Nat /\ remaining[c] > 0
      BY <1>10, RemainingFacts DEF FinishItem, Outstanding, TypeOK
    <3>2. remaining[c] - 1 \in Nat
      BY <3>1
    <3> QED BY <1>10, <3>2 DEF TypeOK, FinishItem, SetWork, ctx
  <2>2. ItemInv'
    BY <1>10 DEF TypeOK, ItemInv, FinishItem, SetWork, ctx
  <2>3. ExitInv'
    BY <1>10 DEF TypeOK, ExitInv, Readers, FinishItem, SetWork, ctx
  <2>4. NoLostWakeup'
    <3>1. i \in Outstanding(c) /\ work[c][i] = "running"
      BY <1>10 DEF FinishItem, Outstanding
    <3>2. \A d \in Calls \ {c} : work'[d] = work[d] /\ Outstanding(d)' = Outstanding(d)
      BY <1>10 DEF FinishItem, SetWork, TypeOK, Outstanding
    <3>3. pc' = pc /\ done' = done
      BY <1>10 DEF FinishItem
    <3>4. work'[c][i] = "signal" \/ Outstanding(c)' # {}
      <4>1. CASE remaining[c] = 1
        BY <1>10, <4>1 DEF FinishItem, SetWork, TypeOK
      <4>2. CASE remaining[c] # 1
        <5>1. Outstanding(c) \ {i} # {}
          BY <3>1, <4>2, RemainingFacts
        <5>2. Outstanding(c)' = Outstanding(c) \ {i}
          BY <1>10, <4>2 DEF Outstanding, FinishItem, SetWork, TypeOK
        <5> QED BY <5>1, <5>2
      <4> QED BY <4>1, <4>2
    <3> QED BY <3>2, <3>3, <3>4 DEF NoLostWakeup
  <2>5. ItemsPinned'
    BY <1>10 DEF TypeOK, ItemInv, ItemsPinned, Outstanding, Readers, FinishItem, SetWork, ctx
  <2>6. NoWorkAfterExit'
    BY <1>10 DEF TypeOK, ItemInv, ExitInv, NoWorkAfterExit, Readers, FinishItem, SetWork, ctx
  <2> QED BY <1>0, <2>1, <2>2, <2>3, <2>4, <2>5, <2>6
<1>11. ASSUME NEW c \in Calls, NEW i \in Items, Signal(c, i)
      PROVE  IInv'
  <2>1. TypeOK'
    BY <1>11 DEF TypeOK, Signal, SetWork, ctx
  <2>2. ItemInv'
    BY <1>11 DEF TypeOK, ItemInv, Signal, SetWork, ctx
  <2>3. ExitInv'
    BY <1>11 DEF TypeOK, ExitInv, Readers, Signal, SetWork, ctx
  <2>4. NoLostWakeup'
    BY <1>11 DEF TypeOK, NoLostWakeup, Outstanding, Signal, SetWork, ctx
  <2>5. ItemsPinned'
    BY <1>11 DEF TypeOK, ItemInv, ItemsPinned, Outstanding, Readers, Signal, SetWork, ctx
  <2>6. NoWorkAfterExit'
    BY <1>11 DEF TypeOK, ItemInv, ExitInv, NoWorkAfterExit, Readers, Signal, SetWork, ctx
  <2> QED BY <1>0, <2>1, <2>2, <2>3, <2>4, <2>5, <2>6
<1>12. ASSUME NEW i \in Items, StorePage(i)
      PROVE  IInv'
  <2>1. TypeOK'
    BY <1>12 DEF TypeOK, StorePage, ctx
  <2>2. ItemInv'
    BY <1>12 DEF TypeOK, ItemInv, StorePage, ctx
  <2>3. ExitInv'
    BY <1>12 DEF TypeOK, ExitInv, Readers, StorePage, ctx
  <2>4. NoLostWakeup'
    BY <1>12 DEF TypeOK, NoLostWakeup, Outstanding, StorePage, ctx
  <2>5. ItemsPinned'
    BY <1>12 DEF TypeOK, ItemInv, ItemsPinned, Outstanding, Readers, StorePage, ctx
  <2>6. NoWorkAfterExit'
    BY <1>12 DEF TypeOK, ItemInv, ExitInv, NoWorkAfterExit, Readers, StorePage, ctx
  <2> QED BY <1>0, <2>1, <2>2, <2>3, <2>4, <2>5, <2>6
<1>13. ASSUME NEW i \in Items, RemovePage(i)
      PROVE  IInv'
  <2>1. TypeOK'
    BY <1>13 DEF TypeOK, RemovePage, ctx
  <2>2. ItemInv'
    BY <1>13 DEF TypeOK, ItemInv, RemovePage, ctx
  <2>3. ExitInv'
    BY <1>13 DEF TypeOK, ExitInv, Readers, RemovePage, ctx
  <2>4. NoLostWakeup'
    BY <1>13 DEF TypeOK, NoLostWakeup, Outstanding, RemovePage, ctx
  <2>5. ItemsPinned'
    BY <1>13 DEF TypeOK, ItemInv, ItemsPinned, Outstanding, Readers, RemovePage, ctx
  <2>6. NoWorkAfterExit'
    BY <1>13 DEF TypeOK, ItemInv, ExitInv, NoWorkAfterExit, Readers, RemovePage, ctx
  <2> QED BY <1>0, <2>1, <2>2, <2>3, <2>4, <2>5, <2>6
<1>14. CASE SetMode
  <2>1. TypeOK'
    BY <1>14 DEF TypeOK, SetMode, ctx
  <2>2. ItemInv'
    BY <1>14 DEF TypeOK, ItemInv, SetMode, ctx
  <2>3. ExitInv'
    BY <1>14 DEF TypeOK, ExitInv, Readers, SetMode, ctx
  <2>4. NoLostWakeup'
    BY <1>14 DEF TypeOK, NoLostWakeup, Outstanding, SetMode, ctx
  <2>5. ItemsPinned'
    BY <1>14 DEF TypeOK, ItemInv, ItemsPinned, Outstanding, Readers, SetMode, ctx
  <2>6. NoWorkAfterExit'
    BY <1>14 DEF TypeOK, ItemInv, ExitInv, NoWorkAfterExit, Readers, SetMode, ctx
  <2> QED BY <1>0, <2>1, <2>2, <2>3, <2>4, <2>5, <2>6
<1>15. CASE Exit
  <2>1. TypeOK'
    BY <1>15 DEF TypeOK, Exit, ctx
  <2>2. ItemInv'
    BY <1>15 DEF TypeOK, ItemInv, Exit, ctx
  <2>3. ExitInv'
    BY <1>15 DEF TypeOK, ExitInv, Readers, Exit, ctx
  <2>4. NoLostWakeup'
    BY <1>15 DEF TypeOK, NoLostWakeup, Outstanding, Exit, ctx
  <2>5. ItemsPinned'
    BY <1>15 DEF TypeOK, ItemInv, ItemsPinned, Outstanding, Readers, Exit, ctx
  <2>6. NoWorkAfterExit'
    BY <1>15 DEF TypeOK, ItemInv, ExitInv, NoWorkAfterExit, Readers, Exit, ctx
  <2> QED BY <1>0, <2>1, <2>2, <2>3, <2>4, <2>5, <2>6
<1>16. CASE Drained
  <2>1. TypeOK'
    BY <1>16 DEF TypeOK, Drained, ctx, Busy
  <2>2. ItemInv'
    BY <1>16 DEF TypeOK, ItemInv, Drained, ctx, Busy
  <2>3. ExitInv'
    BY <1>16 DEF TypeOK, ExitInv, Readers, Drained, ctx, Busy
  <2>4. NoLostWakeup'
    BY <1>16 DEF TypeOK, NoLostWakeup, Outstanding, Drained, ctx, Busy
  <2>5. ItemsPinned'
    BY <1>16 DEF TypeOK, ItemInv, ItemsPinned, Outstanding, Readers, Drained, ctx, Busy
  <2>6. NoWorkAfterExit'
    BY <1>16 DEF TypeOK, ItemInv, ExitInv, NoWorkAfterExit, Readers, Drained, ctx, Busy
  <2> QED BY <1>0, <2>1, <2>2, <2>3, <2>4, <2>5, <2>6
<1>17. CASE UNCHANGED vars
  BY <1>0, <1>17 DEF TypeOK, ItemInv, ExitInv, NoLostWakeup, ItemsPinned, NoWorkAfterExit,
     Outstanding, Readers, vars
<1> QED
  BY <1>1, <1>2, <1>3, <1>4, <1>5, <1>6, <1>7, <1>8, <1>9, <1>10, <1>11, <1>12, <1>13, <1>14, <1>15, <1>16, <1>17 DEF Next, Call, Worker

\* Every reachable state satisfies the strengthened invariant.
THEOREM InductiveInvariant == Spec => []IInv
  BY InitIInv, StepIInv, PTL DEF Spec

\* The variables keep their types; ctx->remaining never goes below zero.
THEOREM TypeCorrect == Spec => []TypeOK
<1>1. IInv => TypeOK
  BY DEF IInv
<1> QED BY <1>1, InductiveInvariant, PTL

\* ctx->remaining counts the items counted and not finished, at every step.
THEOREM RemainingIsExact == Spec => []RemainingExact
<1>1. IInv => RemainingExact
  BY DEF IInv
<1> QED BY <1>1, InductiveInvariant, PTL

\* A caller that waits has been signalled or will be by a worker.
THEOREM NoWakeupIsLost == Spec => []NoLostWakeup
<1>1. IInv => NoLostWakeup
  BY DEF IInv
<1> QED BY <1>1, InductiveInvariant, PTL

\* While a call is in progress its pages keep their entries.
THEOREM ItemsArePinned == Spec => []ItemsPinned
<1>1. IInv => ItemsPinned
  BY DEF IInv
<1> QED BY <1>1, InductiveInvariant, PTL

\* No worker is at work when the workqueue is destroyed.
THEOREM ExitWaitsForWork == Spec => []NoWorkAfterExit
<1>1. IInv => NoWorkAfterExit
  BY DEF IInv
<1> QED BY <1>1, InductiveInvariant, PTL
=============================================================================
