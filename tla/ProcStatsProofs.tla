---------------------------- MODULE ProcStatsProofs ----------------------------
(***************************************************************************)
(* Proofs about ProcStats, for any finite set of pids and any limits.      *)
(*                                                                         *)
(* None of its invariants is inductive.  The strengthening says who can    *)
(* hold which entry: an entry is in one slot at most and not waiting to be *)
(* freed (SlotInv), what an updater is about to store or has found is its  *)
(* own (UpdaterInv), what the collector is going to erase is what it       *)
(* loaded (CollectorInv), switching off runs alone (ToggleInv), and a      *)
(* listing holds the grace period of what it was given (ReaderInv).        *)
(*                                                                         *)
(* Each theorem names, as hypotheses, the environments it does not hold    *)
(* in: those the README's section on divergences is about.                 *)
(***************************************************************************)
EXTENDS ProcStats, FiniteSetTheorems, WellFoundedInduction, TLAPS

Tracked == {p \in Pids : slot[p] # None}

\* The entries in the array are allocated, each in one slot, and not given
\* to kfree_rcu; a new entry is in no slot.
SlotInv ==
  /\ heap \subseteq 1..allocs
  /\ \A p \in Pids : slot[p] # None => slot[p] \in heap \ limbo
  /\ \A p, q \in Pids : slot[p] # None /\ slot[p] = slot[q] => p = q

\* An updater is at one of its own program points, and has a pointer only
\* where it stores or uses one; the entry it stores is known to it alone.
UpdaterInv ==
  \A p \in Pids :
    /\ pc[p] \in {"idle", "find", "store", "use"}
    /\ pc[p] # "idle" => p \in alive
    /\ ptr[p] # None <=> pc[p] \in {"store", "use"}
    /\ pc[p] = "store" => /\ ptr[p] \in heap \ limbo
                          /\ slot[p] = None
    /\ ptr[p] # None =>
         /\ ptr[p] \in 1..allocs
         /\ \A q \in Pids \ {p} : slot[q] # ptr[p] /\ ptr[q] # ptr[p]

\* What the collector loaded is still in the slot it was loaded from.
CollectorInv ==
  /\ pc[Gc] \in {"idle", "scan", "erase"}
  /\ pc[Gc] = "idle" => ptr[Gc] = None
  /\ pc[Gc] = "erase" => ptr[Gc] # None
  /\ ptr[Gc] # None => at[Gc] \in Pids /\ slot[at[Gc]] = ptr[Gc]

\* Nobody is inside while the statistics are being emptied, and what the
\* iteration has passed is empty.
ToggleInv ==
  /\ pc[Toggle] \in {"idle", "lock", "erase"}
  /\ lock <=> pc[Toggle] = "erase"
  /\ pc[Toggle] # "idle" => ~enabled
  /\ pc[Toggle] # "erase" => at[Toggle] = 0
  /\ pc[Toggle] = "erase" => Quiet /\ \A p \in Pids : p <= at[Toggle] => slot[p] = None
  /\ ptr[Toggle] = None

\* The counter is the number of slots in use, or more where a failed store
\* was counted.
CountInv ==
  ~lock => /\ Cardinality(Tracked) <= count
           /\ "store" \notin Env => count = Cardinality(Tracked)

IInv == TypeOK /\ SlotInv /\ UpdaterInv /\ CollectorInv /\ ToggleInv /\ CountInv

\* The process of an entry about to be erased is gone, and an updater's
\* entry is not waiting to be freed.
OwnInv ==
  /\ pc[Gc] = "erase" => at[Gc] \notin alive
  /\ \A p \in Pids : pc[p] = "use" => ptr[p] \in heap \ limbo

\* A listing is inside an RCU section that what it was given waits for, and
\* was never given an entry that is not stored yet.
ReaderInv ==
  /\ pc[Reader] \in {"idle", "list"}
  /\ pc[Reader] = "list" => rcu
  /\ pc[Reader] = "idle" => ptr[Reader] = None
  /\ ptr[Reader] # None =>
       /\ ptr[Reader] \in heap
       /\ ptr[Reader] \in limbo => ptr[Reader] \in grace
       /\ \A p \in Pids : pc[p] = "store" => ptr[p] # ptr[Reader]

\* The actors are different.
LEMMA ActorFacts ==
  /\ Pids \subseteq Nat \ {0} /\ IsFiniteSet(Pids) /\ None \notin Entries
  /\ Gc # Toggle /\ Gc # Reader /\ Toggle # Reader
  /\ Gc \notin Pids /\ Toggle \notin Pids /\ Reader \notin Pids
<1>1. ASSUME NEW x, NEW y PROVE Cardinality({x, y}) # 3
  <2>1. IsFiniteSet({x}) /\ Cardinality({x}) = 1
    BY FS_Singleton
  <2>2. Cardinality({x} \union {y}) \in {1, 2}
    BY <2>1, FS_AddElement
  <2>3. {x, y} = {x} \union {y}
    OBVIOUS
  <2> QED BY <2>2, <2>3
<1>2. Gc = Toggle => {Gc, Toggle, Reader} = {Gc, Reader}
  OBVIOUS
<1>3. Gc = Reader => {Gc, Toggle, Reader} = {Gc, Toggle}
  OBVIOUS
<1>4. Toggle = Reader => {Gc, Toggle, Reader} = {Gc, Toggle}
  OBVIOUS
<1> QED BY <1>1, <1>2, <1>3, <1>4, PidsAssumption

\* The slots in use are finitely many.
LEMMA TrackedFinite == IsFiniteSet(Tracked) /\ Cardinality(Tracked) \in Nat
<1>1. Tracked \in SUBSET Pids
  BY DEF Tracked
<1>2. IsFiniteSet(Tracked)
  BY <1>1, ActorFacts, FS_Subset
<1> QED BY <1>2, FS_CardinalityType

\* An iteration is at a number.
LEMMA AtNat == ASSUME TypeOK, NEW a \in Actors PROVE at[a] \in Nat
<1>1. at[a] \in Pids \union {0}
  BY DEF TypeOK
<1>2. CASE at[a] \in Pids
  BY <1>2, ActorFacts
<1>3. CASE at[a] = 0
  BY <1>3
<1> QED BY <1>1, <1>2, <1>3

\* What the collector has a pointer to is in its slot, and not what somebody
\* is about to store.
LEMMA LoadedIsStored ==
  ASSUME SlotInv, UpdaterInv, CollectorInv, ptr[Gc] # None
  PROVE  /\ at[Gc] \in Pids /\ slot[at[Gc]] = ptr[Gc]
         /\ ptr[Gc] \in heap \ limbo
         /\ \A p \in Pids : pc[p] = "store" => ptr[p] # ptr[Gc]
<1>1. at[Gc] \in Pids /\ slot[at[Gc]] = ptr[Gc]
  BY DEF CollectorInv
<1>2. ptr[Gc] \in heap \ limbo
  BY <1>1 DEF SlotInv
<1>3. ASSUME NEW p \in Pids, pc[p] = "store" PROVE ptr[p] # ptr[Gc]
  <2>1. slot[p] = None /\ ptr[p] # None
    BY <1>3 DEF UpdaterInv
  <2>2. p # at[Gc]
    BY <1>1, <2>1
  <2> QED BY <1>1, <2>1, <2>2 DEF UpdaterInv
<1> QED BY <1>1, <1>2, <1>3

\* A set of numbers has a smallest one: an iteration that finds no next
\* entry has passed them all.
LEMMA LastSlot ==
  ASSUME NEW a, at[a] \in Nat, NoneLeft(a)
  PROVE  \A p \in Pids : p > at[a] => slot[p] = None
<1> DEFINE Ahead == {p \in Pids : p > at[a] /\ slot[p] # None}
<1> SUFFICES ASSUME Ahead # {} PROVE FALSE
  OBVIOUS
<1>1. Ahead \subseteq Nat
  BY ActorFacts
<1>2. PICK p \in Ahead : \A q \in Ahead : p <= q
  <2>1. PICK p \in Ahead : \A q \in Ahead : ~ (<<q, p>> \in OpToRel(<, Nat))
    BY <1>1, WFMin, NatLessThanWellFounded
  <2>2. \A q \in Ahead : ~ (q < p)
    BY <1>1, <2>1 DEF OpToRel
  <2> QED BY <1>1, <2>2
<1>3. NextSlot(a, p)
  BY <1>2 DEF NextSlot
<1> QED BY <1>2, <1>3 DEF NoneLeft

\* Nothing is tracked, nobody is inside: the initial state is as it should be.
LEMMA InitIInv == Init => IInv
<1> SUFFICES ASSUME Init PROVE IInv
  OBVIOUS
<1> USE ActorFacts, BoundAssumption DEF Init, Actors, Entries
<1>1. Tracked = {} /\ Cardinality(Tracked) = 0
  <2>1. Tracked = {}
    BY DEF Tracked
  <2> QED BY <2>1, FS_EmptySet
<1>2. TypeOK
  <2>1. alive \subseteq Pids /\ slot \in [Pids -> Entries \union {None}]
    OBVIOUS
  <2>2. at \in [Actors -> Pids \union {0}] /\ ptr \in [Actors -> Entries \union {None}]
    OBVIOUS
  <2>3. count \in 0..MaxEntries /\ allocs \in 0..MaxAllocs
    OBVIOUS
  <2> QED BY <2>1, <2>2, <2>3 DEF TypeOK
<1>3. SlotInv /\ UpdaterInv /\ CollectorInv
  BY DEF SlotInv, UpdaterInv, CollectorInv
<1>4. ToggleInv
  BY DEF ToggleInv
<1>5. CountInv
  BY <1>1 DEF CountInv
<1> QED BY <1>2, <1>3, <1>4, <1>5 DEF IInv

\* Every action keeps the strengthening, unless the statistics can be
\* switched off while they are in use.
LEMMA StepIInv == "race" \notin Env /\ IInv /\ [Next]_vars => IInv'
<1> SUFFICES ASSUME "race" \notin Env, IInv, [Next]_vars PROVE IInv'
  OBVIOUS
<1> USE ActorFacts, BoundAssumption DEF IInv, Actors, Entries, flags, store, mem
<1>1. ASSUME NEW p \in Pids, Check(p)
      PROVE  IInv'
  <2>1. SlotInv' /\ CountInv'
    BY <1>1 DEF SlotInv, CountInv, Tracked, Check, Go
  <2>2. TypeOK'
    BY <1>1 DEF TypeOK, Check, Go
  <2>3. UpdaterInv'
    BY <1>1 DEF UpdaterInv, Check, Go
  <2>4. CollectorInv'
    BY <1>1 DEF CollectorInv, Check, Go
  <2>5. ToggleInv'
    BY <1>1 DEF ToggleInv, Quiet, Check, Go
  <2> QED BY <2>1, <2>2, <2>3, <2>4, <2>5
<1>2. ASSUME NEW p \in Pids, Find(p)
      PROVE  IInv'
  <2>1. SlotInv' /\ CountInv'
    BY <1>2 DEF SlotInv, CountInv, Tracked, Find, Go
  <2>2. TypeOK'
    BY <1>2 DEF TypeOK, Find, Go
  <2>3. UpdaterInv'
    BY <1>2 DEF TypeOK, UpdaterInv, SlotInv, Find, Go
  <2>4. CollectorInv'
    BY <1>2 DEF CollectorInv, Find, Go
  <2>5. ToggleInv'
    BY <1>2 DEF ToggleInv, Quiet, Find, Go
  <2> QED BY <2>1, <2>2, <2>3, <2>4, <2>5
<1>3. ASSUME NEW p \in Pids, GiveUp(p)
      PROVE  IInv'
  <2>1. SlotInv' /\ CountInv'
    BY <1>3 DEF SlotInv, CountInv, Tracked, GiveUp, Go
  <2>2. TypeOK'
    BY <1>3 DEF TypeOK, GiveUp, Go
  <2>3. UpdaterInv'
    BY <1>3 DEF UpdaterInv, GiveUp, Go
  <2>4. CollectorInv'
    BY <1>3 DEF CollectorInv, GiveUp, Go
  <2>5. ToggleInv'
    BY <1>3 DEF ToggleInv, Quiet, GiveUp, Go
  <2> QED BY <2>1, <2>2, <2>3, <2>4, <2>5
<1>4. ASSUME NEW p \in Pids, Alloc(p)
      PROVE  IInv'
  <2>1. CountInv'
    BY <1>4 DEF CountInv, Tracked, Alloc, Go
  <2>2. TypeOK'
    BY <1>4 DEF TypeOK, Alloc, Go
  <2>3. SlotInv'
    BY <1>4 DEF TypeOK, SlotInv, UpdaterInv, Alloc, Go
  <2>4. UpdaterInv'
    BY <1>4 DEF TypeOK, UpdaterInv, SlotInv, Alloc, Go
  <2>5. CollectorInv'
    BY <1>4 DEF CollectorInv, Alloc, Go
  <2>6. ToggleInv'
    BY <1>4 DEF ToggleInv, Quiet, Alloc, Go
  <2> QED BY <2>1, <2>2, <2>3, <2>4, <2>5, <2>6
<1>5. ASSUME NEW p \in Pids, Store(p)
      PROVE  IInv'
  <2>a. /\ ptr[p] \in heap \ limbo /\ slot[p] = None
        /\ \A q \in Pids : slot[q] # ptr[p]
    BY <1>5 DEF UpdaterInv, Store, StoreFound, StoreRefused, StoreNew, Go
  <2>1. TypeOK'
    <3>1. pc' \in [Actors -> {"idle", "find", "store", "use", "scan", "erase", "lock", "list"}]
      BY <1>5 DEF TypeOK, Store, StoreFound, StoreRefused, StoreNew, Go
    <3>2. slot' \in [Pids -> Entries \union {None}] /\ ptr' \in [Actors -> Entries \union {None}]
      BY <1>5, <2>a DEF TypeOK, Store, StoreFound, StoreRefused, StoreNew
    <3>3. count' \in 0..MaxEntries
      BY <1>5 DEF TypeOK, AtLimit, Store, StoreFound, StoreRefused, StoreNew
    <3>4. heap' \subseteq Entries /\ limbo' \subseteq heap'
      BY <1>5, <2>a DEF TypeOK, Store, StoreFound, StoreRefused, StoreNew
    <3> QED BY <1>5, <3>1, <3>2, <3>3, <3>4
      DEF TypeOK, Store, StoreFound, StoreRefused, StoreNew
  <2>2. SlotInv'
    <3>1. CASE AtLimit
      <4>1. slot' = slot /\ heap' = heap \ {ptr[p]} /\ limbo' = limbo /\ allocs' = allocs
        BY <1>5, <3>1 DEF Store, StoreFound, StoreRefused, StoreNew
      <4> QED BY <2>a, <4>1 DEF SlotInv
    <3>2. CASE ~AtLimit /\ "store" \in Env /\ UNCHANGED slot
      BY <1>5, <2>a, <3>2 DEF SlotInv, Store, StoreFound, StoreRefused, StoreNew
    <3>3. CASE ~AtLimit /\ slot' = [slot EXCEPT ![p] = ptr[p]]
      <4>1. heap' = heap /\ limbo' = limbo /\ allocs' = allocs
        BY <1>5, <2>a, <3>3 DEF Store, StoreFound, StoreRefused, StoreNew
      <4>2. \A q \in Pids : slot'[q] = IF q = p THEN ptr[p] ELSE slot[q]
        BY <3>3 DEF TypeOK
      <4> QED BY <2>a, <4>1, <4>2 DEF SlotInv
    <3> QED BY <1>5, <2>a, <3>1, <3>2, <3>3 DEF Store, StoreFound, StoreRefused, StoreNew
  <2>3. UpdaterInv'
    BY <1>5 DEF TypeOK, UpdaterInv, Store, StoreFound, StoreRefused, StoreNew, Go
  <2>4. CollectorInv'
    <3>1. CASE AtLimit
      BY <1>5, <2>a, <3>1
        DEF TypeOK, CollectorInv, Store, StoreFound, StoreRefused, StoreNew, Go
    <3>2. CASE ~AtLimit /\ "store" \in Env /\ UNCHANGED slot
      BY <1>5, <3>2 DEF TypeOK, CollectorInv, Store, StoreFound, StoreRefused, StoreNew, Go
    <3>3. CASE ~AtLimit /\ slot' = [slot EXCEPT ![p] = ptr[p]]
      BY <1>5, <2>a, <3>3
        DEF TypeOK, CollectorInv, Store, StoreFound, StoreRefused, StoreNew, Go
    <3> QED BY <1>5, <2>a, <3>1, <3>2, <3>3 DEF Store, StoreFound, StoreRefused, StoreNew
  <2>5. ToggleInv'
    BY <1>5 DEF TypeOK, ToggleInv, Quiet, Store, StoreFound, StoreRefused, StoreNew, Go
  <2>6. CountInv'
    <3>1. CASE AtLimit
      BY <1>5, <3>1 DEF CountInv, Tracked, Store, StoreFound, StoreRefused, StoreNew, Go
    <3>2. CASE ~AtLimit /\ "store" \in Env /\ UNCHANGED slot
      <4>1. Tracked' = Tracked
        BY <3>2 DEF Tracked
      <4> QED BY <1>5, <3>2, <4>1, TrackedFinite
        DEF TypeOK, CountInv, Store, StoreFound, StoreRefused, StoreNew
    <3>3. CASE ~AtLimit /\ slot' = [slot EXCEPT ![p] = ptr[p]]
      <4>1. p \notin Tracked /\ Tracked' = Tracked \union {p}
        BY <1>5, <3>3
          DEF TypeOK, UpdaterInv, Tracked, Store, StoreFound, StoreRefused, StoreNew, Go
      <4>2. Cardinality(Tracked') = Cardinality(Tracked) + 1
        BY <4>1, TrackedFinite, FS_AddElement
      <4> QED BY <1>5, <2>a, <3>3, <4>2, TrackedFinite
        DEF TypeOK, CountInv, Store, StoreFound, StoreRefused, StoreNew, Go
    <3> QED BY <1>5, <2>a, <3>1, <3>2, <3>3 DEF Store, StoreFound, StoreRefused, StoreNew
  <2> QED BY <2>1, <2>2, <2>3, <2>4, <2>5, <2>6
<1>6. ASSUME NEW p \in Pids, Use(p)
      PROVE  IInv'
  <2>1. SlotInv' /\ CountInv'
    BY <1>6 DEF SlotInv, CountInv, Tracked, Use, Go
  <2>2. TypeOK'
    BY <1>6 DEF TypeOK, Use, Go
  <2>3. UpdaterInv'
    BY <1>6 DEF TypeOK, UpdaterInv, Use, Go
  <2>4. CollectorInv'
    BY <1>6 DEF CollectorInv, Use, Go
  <2>5. ToggleInv'
    BY <1>6 DEF ToggleInv, Quiet, Use, Go
  <2> QED BY <2>1, <2>2, <2>3, <2>4, <2>5
<1>7. ASSUME NEW p \in Pids, Exit(p)
      PROVE  IInv'
  <2>1. SlotInv' /\ CollectorInv' /\ ToggleInv' /\ CountInv'
    BY <1>7 DEF SlotInv, CollectorInv, ToggleInv, Quiet, CountInv, Tracked, Exit
  <2>2. TypeOK'
    BY <1>7 DEF TypeOK, Exit
  <2>3. UpdaterInv'
    BY <1>7 DEF UpdaterInv, Exit
  <2> QED BY <2>1, <2>2, <2>3
<1>8. ASSUME NEW p \in Pids, Reuse(p)
      PROVE  IInv'
  <2>1. SlotInv' /\ CollectorInv' /\ ToggleInv' /\ CountInv'
    BY <1>8 DEF SlotInv, CollectorInv, ToggleInv, Quiet, CountInv, Tracked, Reuse
  <2>2. TypeOK'
    BY <1>8 DEF TypeOK, Reuse
  <2>3. UpdaterInv'
    BY <1>8 DEF UpdaterInv, Reuse
  <2> QED BY <2>1, <2>2, <2>3
<1>9. ASSUME GcBegin
      PROVE  IInv'
  <2>1. SlotInv' /\ CountInv'
    BY <1>9 DEF SlotInv, CountInv, Tracked, GcBegin, Go
  <2>2. TypeOK'
    BY <1>9 DEF TypeOK, GcBegin, Go
  <2>3. UpdaterInv'
    BY <1>9 DEF UpdaterInv, GcBegin, Go
  <2>4. CollectorInv'
    BY <1>9 DEF CollectorInv, GcBegin, Go
  <2>5. ToggleInv'
    BY <1>9 DEF ToggleInv, Quiet, GcBegin, Go
  <2> QED BY <2>1, <2>2, <2>3, <2>4, <2>5
<1>10. ASSUME NEW p \in Pids, GcNext(p)
      PROVE  IInv'
  <2>1. SlotInv' /\ CountInv'
    BY <1>10 DEF SlotInv, CountInv, Tracked, GcNext, NextSlot, Load, Go
  <2>2. TypeOK'
    BY <1>10 DEF TypeOK, GcNext, NextSlot, Load, Go
  <2>3. UpdaterInv'
    BY <1>10 DEF UpdaterInv, GcNext, NextSlot, Load, Go
  <2>4. CollectorInv'
    BY <1>10 DEF TypeOK, CollectorInv, GcNext, NextSlot, Load, Go
  <2>5. ToggleInv'
    BY <1>10 DEF ToggleInv, Quiet, GcNext, NextSlot, Load, Go
  <2> QED BY <2>1, <2>2, <2>3, <2>4, <2>5
<1>11. ASSUME GcErase
      PROVE  IInv'
  <2>a. /\ at[Gc] \in Pids /\ slot[at[Gc]] = ptr[Gc] /\ ptr[Gc] \in heap \ limbo
        /\ \A q \in Pids : pc[q] = "store" => ptr[q] # ptr[Gc]
    BY <1>11, LoadedIsStored DEF CollectorInv, GcErase, Go
  <2>b. at[Gc] \in Tracked /\ Tracked' = Tracked \ {at[Gc]}
    BY <1>11, <2>a DEF TypeOK, Tracked, GcErase
  <2>c. /\ Cardinality(Tracked) \in Nat \ {0}
        /\ Cardinality(Tracked') = Cardinality(Tracked) - 1
    BY <2>b, TrackedFinite, FS_RemoveElement, FS_EmptySet
  <2>1. TypeOK'
    <3>1. count' \in 0..MaxEntries
      BY <1>11, <2>c DEF TypeOK, CountInv, ToggleInv, GcErase
    <3>2. slot' \in [Pids -> Entries \union {None}] /\ ptr' \in [Actors -> Entries \union {None}]
      BY <1>11 DEF TypeOK, GcErase
    <3> QED BY <1>11, <2>a, <3>1, <3>2 DEF TypeOK, GcErase, Go
  <2>2. SlotInv'
    BY <1>11, <2>a DEF TypeOK, SlotInv, GcErase
  <2>3. UpdaterInv'
    BY <1>11, <2>a DEF TypeOK, UpdaterInv, GcErase, Go
  <2>4. CollectorInv'
    BY <1>11 DEF TypeOK, CollectorInv, GcErase, Go
  <2>5. ToggleInv'
    BY <1>11 DEF ToggleInv, Quiet, GcErase, Go
  <2>6. CountInv'
    BY <1>11, <2>c DEF TypeOK, CountInv, GcErase
  <2> QED BY <2>1, <2>2, <2>3, <2>4, <2>5, <2>6
<1>12. ASSUME GcEnd
      PROVE  IInv'
  <2>1. SlotInv' /\ CountInv'
    BY <1>12 DEF SlotInv, CountInv, Tracked, GcEnd, Done, Go
  <2>2. TypeOK'
    BY <1>12 DEF TypeOK, GcEnd, Done, Go
  <2>3. UpdaterInv'
    BY <1>12 DEF UpdaterInv, GcEnd, Done, Go
  <2>4. CollectorInv'
    BY <1>12 DEF TypeOK, CollectorInv, GcEnd, Done, Go
  <2>5. ToggleInv'
    BY <1>12 DEF ToggleInv, Quiet, GcEnd, Done, Go
  <2> QED BY <2>1, <2>2, <2>3, <2>4, <2>5
<1>13. ASSUME Reclaim
      PROVE  IInv'
  <2>1. CollectorInv' /\ ToggleInv' /\ CountInv'
    BY <1>13 DEF CollectorInv, ToggleInv, Quiet, CountInv, Tracked, Reclaim
  <2>2. TypeOK'
    BY <1>13 DEF TypeOK, Reclaim
  <2>3. SlotInv'
    BY <1>13 DEF TypeOK, SlotInv, Reclaim
  <2>4. UpdaterInv'
    BY <1>13 DEF TypeOK, UpdaterInv, Reclaim
  <2> QED BY <2>1, <2>2, <2>3, <2>4
<1>14. ASSUME Enable
      PROVE  IInv'
  <2>1. SlotInv' /\ UpdaterInv' /\ CollectorInv' /\ CountInv'
    BY <1>14 DEF SlotInv, UpdaterInv, CollectorInv, CountInv, Tracked, Enable
  <2>2. TypeOK'
    BY <1>14 DEF TypeOK, Enable
  <2>3. ToggleInv'
    BY <1>14 DEF ToggleInv, Quiet, Enable
  <2> QED BY <2>1, <2>2, <2>3
<1>15. ASSUME Disable
      PROVE  IInv'
  <2>1. SlotInv' /\ CountInv'
    BY <1>15 DEF SlotInv, CountInv, Tracked, Disable, Go
  <2>2. TypeOK'
    BY <1>15 DEF TypeOK, Disable, Go
  <2>3. UpdaterInv'
    BY <1>15 DEF UpdaterInv, Disable, Go
  <2>4. CollectorInv'
    BY <1>15 DEF CollectorInv, Disable, Go
  <2>5. ToggleInv'
    BY <1>15 DEF ToggleInv, Quiet, Disable, Go
  <2> QED BY <2>1, <2>2, <2>3, <2>4, <2>5
<1>16. ASSUME DisableLock
      PROVE  IInv'
  <2>1. SlotInv'
    BY <1>16 DEF SlotInv, DisableLock, Go
  <2>2. TypeOK'
    BY <1>16 DEF TypeOK, DisableLock, Go
  <2>3. UpdaterInv'
    BY <1>16 DEF UpdaterInv, DisableLock, Go
  <2>4. CollectorInv'
    BY <1>16 DEF CollectorInv, DisableLock, Go
  <2>5. ToggleInv'
    BY <1>16 DEF TypeOK, ToggleInv, Quiet, DisableLock, Go
  <2>6. CountInv'
    BY <1>16 DEF CountInv, Tracked, DisableLock, Go
  <2> QED BY <2>1, <2>2, <2>3, <2>4, <2>5, <2>6
<1>17. ASSUME NEW p \in Pids, DisableErase(p)
      PROVE  IInv'
  <2>1. TypeOK'
    BY <1>17 DEF TypeOK, SlotInv, UpdaterInv, DisableErase, NextSlot
  <2>2. SlotInv'
    BY <1>17 DEF TypeOK, SlotInv, DisableErase, NextSlot
  <2>3. UpdaterInv'
    BY <1>17 DEF UpdaterInv, DisableErase, NextSlot
  <2>4. CollectorInv'
    BY <1>17 DEF TypeOK, CollectorInv, ToggleInv, Quiet, DisableErase, NextSlot
  <2>5. ToggleInv'
    <3>1. \A q \in Pids : q <= at'[Toggle] => slot'[q] = None
      <4> SUFFICES ASSUME NEW q \in Pids, q <= p PROVE slot'[q] = None
        BY <1>17 DEF TypeOK, DisableErase
      <4>1. at[Toggle] \in Nat /\ q \in Nat
        BY AtNat
      <4>2. CASE q <= at[Toggle]
        BY <1>17, <4>2 DEF TypeOK, ToggleInv, DisableErase
      <4>3. CASE q > at[Toggle] /\ q # p
        <5>1. \A r \in Pids : r > at[Toggle] /\ slot[r] # None => p <= r
          BY <1>17 DEF DisableErase, NextSlot
        <5>2. ~(p <= q)
          <6>1. p \in Nat /\ q \in Nat
            BY AtNat
          <6> QED BY ONLY <6>1, <4>3, q <= p
        <5>3. slot[q] = None
          BY ONLY <5>1, <5>2, <4>3, q \in Pids
        <5> QED BY <1>17, <5>3, <4>3 DEF TypeOK, DisableErase
      <4>4. CASE q = p
        BY <1>17, <4>4 DEF TypeOK, DisableErase
      <4> QED BY <4>1, <4>2, <4>3, <4>4
    <3> QED BY <1>17, <3>1 DEF TypeOK, ToggleInv, Quiet, DisableErase
  <2>6. CountInv'
    BY <1>17 DEF TypeOK, CountInv, Tracked, ToggleInv, Quiet, DisableErase, NextSlot
  <2> QED BY <2>1, <2>2, <2>3, <2>4, <2>5, <2>6
<1>18. ASSUME DisableEnd
      PROVE  IInv'
  <2>a. \A p \in Pids : slot[p] = None
    <3>1. \A p \in Pids : p <= at[Toggle] => slot[p] = None
      BY <1>18 DEF ToggleInv, DisableEnd, Go
    <3>2. \A p \in Pids : p > at[Toggle] => slot[p] = None
      BY <1>18, LastSlot, AtNat DEF DisableEnd
    <3>3. at[Toggle] \in Nat
      BY AtNat
    <3> QED BY <3>1, <3>2, <3>3
  <2>b. Tracked = {} /\ Cardinality(Tracked) = 0
    BY <2>a, FS_EmptySet DEF Tracked
  <2>c. Tracked' = Tracked
    BY <1>18 DEF Tracked, DisableEnd
  <2>1. SlotInv'
    BY <1>18 DEF SlotInv, DisableEnd, Done, Go
  <2>2. TypeOK'
    <3>1. at' \in [Actors -> Pids \union {0}] /\ ptr' \in [Actors -> Entries \union {None}]
      BY <1>18 DEF TypeOK, DisableEnd, Done
    <3>2. pc' \in [Actors -> {"idle", "find", "store", "use", "scan", "erase", "lock", "list"}]
      BY <1>18 DEF TypeOK, DisableEnd, Go
    <3>3. count' \in 0..MaxEntries
      BY <1>18 DEF DisableEnd
    <3> QED BY <1>18, <3>1, <3>2, <3>3 DEF TypeOK, DisableEnd
  <2>3. UpdaterInv'
    BY <1>18 DEF UpdaterInv, DisableEnd, Done, Go
  <2>4. CollectorInv'
    BY <1>18 DEF CollectorInv, DisableEnd, Done, Go
  <2>5. ToggleInv'
    BY <1>18 DEF TypeOK, ToggleInv, Quiet, DisableEnd, Done, Go
  <2>6. CountInv'
    BY <1>18, <2>b, <2>c DEF CountInv, DisableEnd
  <2> QED BY <2>1, <2>2, <2>3, <2>4, <2>5, <2>6
<1>19. ASSUME ListBegin
      PROVE  IInv'
  <2>1. SlotInv' /\ CountInv'
    BY <1>19 DEF SlotInv, CountInv, Tracked, ListBegin, Go
  <2>2. TypeOK'
    BY <1>19 DEF TypeOK, ListBegin, Go
  <2>3. UpdaterInv'
    BY <1>19 DEF UpdaterInv, ListBegin, Go
  <2>4. CollectorInv'
    BY <1>19 DEF CollectorInv, ListBegin, Go
  <2>5. ToggleInv'
    BY <1>19 DEF ToggleInv, Quiet, ListBegin, Go
  <2> QED BY <2>1, <2>2, <2>3, <2>4, <2>5
<1>20. ASSUME NEW p \in Pids, ListNext(p)
      PROVE  IInv'
  <2>1. SlotInv' /\ CountInv'
    BY <1>20 DEF SlotInv, CountInv, Tracked, ListNext, NextSlot, Load
  <2>2. TypeOK'
    BY <1>20 DEF TypeOK, ListNext, NextSlot, Load
  <2>3. UpdaterInv'
    BY <1>20 DEF UpdaterInv, ListNext, NextSlot, Load
  <2>4. CollectorInv'
    BY <1>20 DEF CollectorInv, ListNext, NextSlot, Load
  <2>5. ToggleInv'
    BY <1>20 DEF ToggleInv, Quiet, ListNext, NextSlot, Load
  <2> QED BY <2>1, <2>2, <2>3, <2>4, <2>5
<1>21. ASSUME ListEnd
      PROVE  IInv'
  <2>1. SlotInv' /\ CountInv'
    BY <1>21 DEF SlotInv, CountInv, Tracked, ListEnd, Done, Go
  <2>2. TypeOK'
    BY <1>21 DEF TypeOK, ListEnd, Done, Go
  <2>3. UpdaterInv'
    BY <1>21 DEF UpdaterInv, ListEnd, Done, Go
  <2>4. CollectorInv'
    BY <1>21 DEF CollectorInv, ListEnd, Done, Go
  <2>5. ToggleInv'
    BY <1>21 DEF ToggleInv, Quiet, ListEnd, Done, Go
  <2> QED BY <2>1, <2>2, <2>3, <2>4, <2>5
<1>22. ASSUME UNCHANGED vars
      PROVE  IInv'
  <2>1. TypeOK' /\ SlotInv' /\ UpdaterInv' /\ CollectorInv' /\ ToggleInv' /\ CountInv'
    BY <1>22 DEF TypeOK, SlotInv, UpdaterInv, CollectorInv, ToggleInv, Quiet, CountInv,
      Tracked, vars
  <2> QED BY <2>1
<1>23. ASSUME SetScanner
      PROVE  IInv'
  <2>1. TypeOK' /\ SlotInv' /\ UpdaterInv' /\ CollectorInv' /\ ToggleInv' /\ CountInv'
    BY <1>23 DEF TypeOK, SlotInv, UpdaterInv, CollectorInv, ToggleInv, Quiet, CountInv,
      Tracked, SetScanner
  <2> QED BY <2>1
<1> QED BY <1>1, <1>2, <1>3, <1>4, <1>5, <1>6, <1>7, <1>8, <1>9, <1>10, <1>11, <1>12, <1>13,
  <1>14, <1>15, <1>16, <1>17, <1>18, <1>19, <1>20, <1>21, <1>22, <1>23
  DEF Next, Update, Collect, Switch, List

\* An updater's entry stays out of the collector's reach: the process whose entry
\* is collected is gone, and its pid not given out again meanwhile.
LEMMA StepOwnInv == "race" \notin Env /\ "reuse" \notin Env /\ IInv /\ OwnInv /\ [Next]_vars => OwnInv'
<1> SUFFICES ASSUME "race" \notin Env, "reuse" \notin Env, IInv, OwnInv, [Next]_vars PROVE OwnInv'
  OBVIOUS
<1> USE ActorFacts, BoundAssumption DEF IInv, Actors, Entries, flags, store, mem
<1>1. CASE UNCHANGED <<pc, at, alive, ptr, heap, limbo>>
  BY <1>1 DEF OwnInv
<1>2. ASSUME NEW p \in Pids, Check(p)
      PROVE  OwnInv'
  BY <1>2 DEF OwnInv, Check, Go
<1>3. ASSUME NEW p \in Pids, Find(p)
      PROVE  OwnInv'
  BY <1>3 DEF TypeOK, SlotInv, UpdaterInv, OwnInv, Find, Go
<1>4. ASSUME NEW p \in Pids, GiveUp(p)
      PROVE  OwnInv'
  BY <1>4 DEF OwnInv, GiveUp, Go
<1>5. ASSUME NEW p \in Pids, Alloc(p)
      PROVE  OwnInv'
  BY <1>5 DEF OwnInv, Alloc, Go
<1>6. ASSUME NEW p \in Pids, Store(p)
      PROVE  OwnInv'
  <2>1. ASSUME NEW q \in Pids, pc'[q] = "use" PROVE ptr'[q] \in heap' \ limbo'
    <3>1. CASE q = p
      BY <1>6, <2>1, <3>1
        DEF TypeOK, UpdaterInv, Store, StoreFound, StoreRefused, StoreNew, Go
    <3>2. CASE q # p
      <4>1. pc[q] = "use" /\ ptr'[q] = ptr[q] /\ ptr[q] # ptr[p]
        BY <1>6, <2>1, <3>2
          DEF TypeOK, UpdaterInv, Store, StoreFound, StoreRefused, StoreNew, Go
      <4> QED BY <1>6, <4>1 DEF OwnInv, Store, StoreFound, StoreRefused, StoreNew
    <3> QED BY <3>1, <3>2
  <2> QED BY <1>6, <2>1 DEF TypeOK, OwnInv, Store, StoreFound, StoreRefused, StoreNew, Go
<1>7. ASSUME NEW p \in Pids, Use(p)
      PROVE  OwnInv'
  BY <1>7 DEF TypeOK, OwnInv, Use, Go
<1>8. ASSUME NEW p \in Pids, Exit(p)
      PROVE  OwnInv'
  BY <1>8 DEF OwnInv, Exit
<1>9. ASSUME NEW p \in Pids, Reuse(p)
      PROVE  OwnInv'
  BY <1>9 DEF OwnInv, Reuse
<1>10. ASSUME GcBegin
      PROVE  OwnInv'
  BY <1>10 DEF OwnInv, GcBegin, Go
<1>11. ASSUME NEW p \in Pids, GcNext(p)
      PROVE  OwnInv'
  BY <1>11 DEF TypeOK, OwnInv, GcNext, NextSlot, Load, Go
<1>12. ASSUME GcErase
      PROVE  OwnInv'
  <2>1. at[Gc] \in Pids /\ slot[at[Gc]] = ptr[Gc] /\ at[Gc] \notin alive
    BY <1>12, LoadedIsStored DEF CollectorInv, OwnInv, GcErase, Go
  <2>2. ASSUME NEW q \in Pids, pc'[q] = "use" PROVE ptr'[q] \in heap' \ limbo'
    <3>1. pc[q] = "use" /\ ptr'[q] = ptr[q] /\ q # at[Gc]
      BY <1>12, <2>1, <2>2 DEF TypeOK, UpdaterInv, GcErase, Go
    <3>2. ptr[q] # None /\ slot[at[Gc]] # ptr[q]
      BY <2>1, <3>1 DEF UpdaterInv
    <3> QED BY <1>12, <2>1, <3>1, <3>2 DEF OwnInv, GcErase
  <2> QED BY <1>12, <2>2 DEF TypeOK, OwnInv, GcErase, Go
<1>13. ASSUME GcEnd
      PROVE  OwnInv'
  BY <1>13 DEF OwnInv, GcEnd, Done, Go
<1>14. ASSUME Reclaim
      PROVE  OwnInv'
  BY <1>14 DEF TypeOK, OwnInv, Reclaim
<1>15. ASSUME Disable
      PROVE  OwnInv'
  BY <1>15 DEF OwnInv, Disable, Go
<1>16. ASSUME DisableLock
      PROVE  OwnInv'
  BY <1>16 DEF OwnInv, DisableLock, Go
<1>17. ASSUME NEW p \in Pids, DisableErase(p)
      PROVE  OwnInv'
  BY <1>17 DEF TypeOK, ToggleInv, Quiet, OwnInv, DisableErase, NextSlot
<1>18. ASSUME DisableEnd
      PROVE  OwnInv'
  BY <1>18 DEF OwnInv, DisableEnd, Done, Go
<1>19. ASSUME ListBegin
      PROVE  OwnInv'
  BY <1>19 DEF OwnInv, ListBegin, Go
<1>20. ASSUME NEW p \in Pids, ListNext(p)
      PROVE  OwnInv'
  BY <1>20 DEF OwnInv, ListNext, NextSlot, Load
<1>21. ASSUME ListEnd
      PROVE  OwnInv'
  BY <1>21 DEF OwnInv, ListEnd, Done, Go
<1> QED BY <1>1, <1>2, <1>3, <1>4, <1>5, <1>6, <1>7, <1>8, <1>9, <1>10, <1>11, <1>12, <1>13,
  <1>14, <1>15, <1>16, <1>17, <1>18, <1>19, <1>20, <1>21
  DEF Next, Update, Collect, Switch, List, vars, flags, store, mem, SetScanner, Enable

\* What a listing was given outlives its RCU section.
LEMMA StepReaderInv == "race" \notin Env /\ "summary" \notin Env /\ IInv /\ ReaderInv /\ [Next]_vars => ReaderInv'
<1> SUFFICES ASSUME "race" \notin Env, "summary" \notin Env, IInv, ReaderInv, [Next]_vars PROVE ReaderInv'
  OBVIOUS
<1> USE ActorFacts, BoundAssumption DEF IInv, Actors, Entries, flags, store, mem
<1>1. CASE UNCHANGED <<pc, ptr, heap, limbo, grace, rcu>>
  BY <1>1 DEF ReaderInv
<1>2. ASSUME NEW p \in Pids, Check(p)
      PROVE  ReaderInv'
  BY <1>2 DEF ReaderInv, Check, Go
<1>3. ASSUME NEW p \in Pids, Find(p)
      PROVE  ReaderInv'
  BY <1>3 DEF ReaderInv, Find, Go
<1>4. ASSUME NEW p \in Pids, GiveUp(p)
      PROVE  ReaderInv'
  BY <1>4 DEF ReaderInv, GiveUp, Go
<1>5. ASSUME NEW p \in Pids, Alloc(p)
      PROVE  ReaderInv'
  BY <1>5 DEF TypeOK, SlotInv, UpdaterInv, ReaderInv, Alloc, Go
<1>6. ASSUME NEW p \in Pids, Store(p)
      PROVE  ReaderInv'
  <2>1. pc'[Reader] = pc[Reader] /\ ptr'[Reader] = ptr[Reader]
    BY <1>6 DEF TypeOK, Store, StoreFound, StoreRefused, StoreNew, Go
  <2>2. ptr[Reader] # None => ptr[Reader] \in heap'
    BY <1>6 DEF ReaderInv, Store, StoreFound, StoreRefused, StoreNew, Go
  <2>3. \A q \in Pids : pc'[q] = "store" => pc[q] = "store" /\ ptr'[q] = ptr[q]
    BY <1>6 DEF TypeOK, Store, StoreFound, StoreRefused, StoreNew, Go
  <2> QED BY <1>6, <2>1, <2>2, <2>3 DEF ReaderInv, Store, StoreFound, StoreRefused, StoreNew
<1>7. ASSUME NEW p \in Pids, Use(p)
      PROVE  ReaderInv'
  BY <1>7 DEF ReaderInv, Use, Go
<1>8. ASSUME GcBegin
      PROVE  ReaderInv'
  BY <1>8 DEF ReaderInv, GcBegin, Go
<1>9. ASSUME NEW p \in Pids, GcNext(p)
      PROVE  ReaderInv'
  BY <1>9 DEF ReaderInv, GcNext, NextSlot, Load, Go
<1>10. ASSUME GcErase
      PROVE  ReaderInv'
  BY <1>10 DEF ReaderInv, GcErase, Go
<1>11. ASSUME GcEnd
      PROVE  ReaderInv'
  BY <1>11 DEF ReaderInv, GcEnd, Done, Go
<1>12. ASSUME Reclaim
      PROVE  ReaderInv'
  BY <1>12 DEF ReaderInv, Reclaim
<1>13. ASSUME Disable
      PROVE  ReaderInv'
  BY <1>13 DEF ReaderInv, Disable, Go
<1>14. ASSUME DisableLock
      PROVE  ReaderInv'
  BY <1>14 DEF ReaderInv, DisableLock, Go
<1>15. ASSUME NEW p \in Pids, DisableErase(p)
      PROVE  ReaderInv'
  BY <1>15 DEF TypeOK, ToggleInv, Quiet, ReaderInv, DisableErase, NextSlot
<1>16. ASSUME DisableEnd
      PROVE  ReaderInv'
  BY <1>16 DEF ReaderInv, DisableEnd, Done, Go
<1>17. ASSUME ListBegin
      PROVE  ReaderInv'
  BY <1>17 DEF ReaderInv, ListBegin, Go
<1>18. ASSUME NEW p \in Pids, ListNext(p)
      PROVE  ReaderInv'
  BY <1>18 DEF TypeOK, SlotInv, UpdaterInv, ReaderInv, ListNext, NextSlot, Load
<1>19. ASSUME ListEnd
      PROVE  ReaderInv'
  BY <1>19 DEF TypeOK, ReaderInv, ListEnd, Done, Go
<1> QED BY <1>1, <1>2, <1>3, <1>4, <1>5, <1>6, <1>7, <1>8, <1>9, <1>10, <1>11, <1>12, <1>13,
  <1>14, <1>15, <1>16, <1>17, <1>18, <1>19
  DEF Next, Update, Collect, Switch, List, vars, flags, store, mem, Exit, Reuse, SetScanner, Enable

\* No entry is forgotten.
LEMMA StepNoLeak == "race" \notin Env /\ "store" \notin Env /\ IInv /\ NoLeak /\ [Next]_vars => NoLeak'
<1> SUFFICES ASSUME "race" \notin Env, "store" \notin Env, IInv, NoLeak, [Next]_vars PROVE NoLeak'
  OBVIOUS
<1> USE ActorFacts, BoundAssumption DEF IInv, Actors, Entries, flags, store, mem
<1>1. CASE UNCHANGED <<heap, limbo, slot, pc, ptr>>
  BY <1>1 DEF NoLeak
<1>2. ASSUME NEW p \in Pids, Check(p)
      PROVE  NoLeak'
  BY <1>2 DEF TypeOK, NoLeak, Check, Go
<1>3. ASSUME NEW p \in Pids, Find(p)
      PROVE  NoLeak'
  BY <1>3 DEF NoLeak, Find, Go
<1>4. ASSUME NEW p \in Pids, GiveUp(p)
      PROVE  NoLeak'
  BY <1>4 DEF NoLeak, GiveUp, Go
<1>5. ASSUME NEW p \in Pids, Alloc(p)
      PROVE  NoLeak'
  BY <1>5 DEF TypeOK, NoLeak, Alloc, Go
<1>6. ASSUME NEW p \in Pids, Store(p)
      PROVE  NoLeak'
  <2> SUFFICES ASSUME NEW e \in heap' \ limbo'
               PROVE  \E q \in Pids : slot'[q] = e \/ (pc'[q] = "store" /\ ptr'[q] = e)
    BY DEF NoLeak
  <2>1. e \in heap \ limbo /\ e # None
    BY <1>6 DEF TypeOK, Store, StoreFound, StoreRefused, StoreNew
  <2>2. PICK q \in Pids : slot[q] = e \/ (pc[q] = "store" /\ ptr[q] = e)
    BY <2>1 DEF NoLeak
  <2>3. pc[p] = "store" /\ slot[p] = None
    BY <1>6 DEF UpdaterInv, Store, StoreFound, StoreRefused, StoreNew, Go
  <2>4. CASE AtLimit
    <3>1. slot' = slot /\ q # p
      BY <1>6, <2>1, <2>2, <2>3, <2>4 DEF Store, StoreFound, StoreRefused, StoreNew
    <3>2. pc'[q] = pc[q] /\ ptr'[q] = ptr[q]
      BY <1>6, <3>1 DEF TypeOK, Store, StoreFound, StoreRefused, StoreNew, Go
    <3> QED BY <2>2, <3>1, <3>2
  <2>5. CASE ~AtLimit
    <3>1. slot' = [slot EXCEPT ![p] = ptr[p]] /\ ptr' = ptr
      BY <1>6, <2>3, <2>5 DEF Store, StoreFound, StoreRefused, StoreNew
    <3>2. CASE q = p
      BY <2>1, <2>2, <2>3, <3>1, <3>2 DEF TypeOK
    <3>3. CASE q # p
      BY <1>6, <2>2, <3>1, <3>3 DEF TypeOK, Store, StoreFound, StoreRefused, StoreNew, Go
    <3> QED BY <3>2, <3>3
  <2> QED BY <2>4, <2>5
<1>7. ASSUME NEW p \in Pids, Use(p)
      PROVE  NoLeak'
  BY <1>7 DEF NoLeak, Use, Go
<1>8. ASSUME GcBegin
      PROVE  NoLeak'
  BY <1>8 DEF NoLeak, GcBegin, Go
<1>9. ASSUME NEW p \in Pids, GcNext(p)
      PROVE  NoLeak'
  BY <1>9 DEF NoLeak, GcNext, NextSlot, Load, Go
<1>10. ASSUME GcErase
      PROVE  NoLeak'
  <2> SUFFICES ASSUME NEW e \in heap' \ limbo'
               PROVE  \E q \in Pids : slot'[q] = e \/ (pc'[q] = "store" /\ ptr'[q] = e)
    BY DEF NoLeak
  <2>1. e \in heap \ limbo /\ e # ptr[Gc]
    BY <1>10 DEF GcErase
  <2>2. PICK q \in Pids : slot[q] = e \/ (pc[q] = "store" /\ ptr[q] = e)
    BY <2>1 DEF NoLeak
  <2>3. slot[at[Gc]] = ptr[Gc]
    BY <1>10, LoadedIsStored DEF CollectorInv, GcErase, Go
  <2>4. pc'[q] = pc[q] /\ ptr'[q] = ptr[q]
    BY <1>10 DEF TypeOK, GcErase, Go
  <2>5. slot[q] = e => slot'[q] = e
    BY <1>10, <2>1, <2>3 DEF TypeOK, GcErase
  <2> QED BY <2>2, <2>4, <2>5
<1>11. ASSUME GcEnd
      PROVE  NoLeak'
  BY <1>11 DEF NoLeak, GcEnd, Done, Go
<1>12. ASSUME Reclaim
      PROVE  NoLeak'
  BY <1>12 DEF NoLeak, Reclaim
<1>13. ASSUME Disable
      PROVE  NoLeak'
  BY <1>13 DEF NoLeak, Disable, Go
<1>14. ASSUME DisableLock
      PROVE  NoLeak'
  BY <1>14 DEF NoLeak, DisableLock, Go
<1>15. ASSUME NEW p \in Pids, DisableErase(p)
      PROVE  NoLeak'
  BY <1>15 DEF NoLeak, DisableErase, NextSlot
<1>16. ASSUME DisableEnd
      PROVE  NoLeak'
  BY <1>16 DEF NoLeak, DisableEnd, Done, Go
<1>17. ASSUME ListBegin
      PROVE  NoLeak'
  BY <1>17 DEF NoLeak, ListBegin, Go
<1>18. ASSUME NEW p \in Pids, ListNext(p)
      PROVE  NoLeak'
  BY <1>18 DEF NoLeak, ListNext, NextSlot, Load
<1>19. ASSUME ListEnd
      PROVE  NoLeak'
  BY <1>19 DEF NoLeak, ListEnd, Done, Go
<1> QED BY <1>1, <1>2, <1>3, <1>4, <1>5, <1>6, <1>7, <1>8, <1>9, <1>10, <1>11, <1>12, <1>13,
  <1>14, <1>15, <1>16, <1>17, <1>18, <1>19
  DEF Next, Update, Collect, Switch, List, vars, flags, store, mem, Exit, Reuse, SetScanner, Enable

\* Every variable keeps its type, and the counter, by which tracking is
\* limited, never falls below zero nor exceeds the limit (the checks of
\* mm_proc_stats_count in minimem_proc_stats_alloc, the decrement in
\* minimem_proc_stats_gc), unless the statistics are switched off in use.
THEOREM TypeCorrect == ASSUME "race" \notin Env PROVE Spec => []TypeOK
<1>1. IInv => TypeOK
  BY DEF IInv
<1> QED BY <1>1, InitIInv, StepIInv, PTL DEF Spec

\* While nobody is emptying the array, mm_proc_stats_count is the number of
\* its entries, provided that xa_store succeeds.
THEOREM CountIsExact ==
  ASSUME "race" \notin Env, "store" \notin Env PROVE Spec => []CountExact
<1>1. IInv => CountExact
  BY DEF IInv, CountInv, CountExact, Tracked
<1> QED BY <1>1, InitIInv, StepIInv, PTL DEF Spec

\* No updater, collector or reader of the RCU listing has a pointer to an
\* entry that was freed, although lookups take no lock: while the statistics
\* are not switched off in use, a pid is not given out again during the
\* collection of its entry, and the listing without RCU is not read.
THEOREM NobodyUsesAfterFree ==
  ASSUME "race" \notin Env, "reuse" \notin Env, "summary" \notin Env
  PROVE  Spec => []NoUseAfterFree
<1>1. Init => OwnInv /\ ReaderInv
  BY ActorFacts DEF Init, OwnInv, ReaderInv, Actors
<1>2. IInv /\ OwnInv /\ ReaderInv => NoUseAfterFree
  <2> SUFFICES ASSUME IInv, OwnInv, ReaderInv, NEW a \in Actors, ptr[a] # None
               PROVE  ptr[a] \in heap
    BY DEF NoUseAfterFree
  <2>1. CASE a \in Pids
    BY <2>1 DEF IInv, UpdaterInv, OwnInv
  <2>2. CASE a = Gc
    BY <2>2, LoadedIsStored DEF IInv
  <2>3. CASE a = Toggle
    BY <2>3 DEF IInv, ToggleInv
  <2>4. CASE a = Reader
    BY <2>4 DEF ReaderInv
  <2> QED BY <2>1, <2>2, <2>3, <2>4 DEF Actors
<1> QED BY <1>1, <1>2, InitIInv, StepIInv, StepOwnInv, StepReaderInv, PTL DEF Spec

\* An entry that was allocated is in the array, on its way into it, or given
\* to kfree_rcu, provided that xa_store succeeds.
THEOREM NothingLeaks ==
  ASSUME "race" \notin Env, "store" \notin Env PROVE Spec => []NoLeak
<1>1. Init => NoLeak
  BY DEF Init, NoLeak
<1> QED BY <1>1, InitIInv, StepIInv, StepNoLeak, PTL DEF Spec
================================================================================
