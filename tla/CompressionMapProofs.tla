------------------------- MODULE CompressionMapProofs -------------------------
(***************************************************************************)
(* Proofs about CompressionMap, for any set of threads, any number of page *)
(* indices and any finite set of slab objects.                             *)
(*                                                                         *)
(* SlotsSound and LockedReadSafe are not inductive: a removal that freed   *)
(* an object some other slot or some reader holds would break them.  The   *)
(* strengthening says who holds which lock at each point of the code       *)
(* (LockInv) and that the entry a store has not published yet is known to  *)
(* it alone (PrivateInv).                                                  *)
(***************************************************************************)
EXTENDS CompressionMap, FiniteSetTheorems, TLAPS

\* The lock fields say what the program counters say, and the rwsem excludes
\* readers from writers.
LockInv ==
  /\ \A t \in Threads : pc[t] \in {"remove", "drain", "callback"} <=> writer = t
  /\ \A t \in Threads : pc[t] = "store_count" <=> lock = t
  /\ \A t \in Threads : pc[t] \in {"reading", "read_copy"} <=> t \in readers
  /\ writer # None => readers = {}

\* An entry that is filled in and not published is allocated, nobody else's
\* and not in the map.
PrivateInv ==
  \A t \in Threads : pc[t] = "store" =>
    /\ reg[t].key \in Keys
    /\ reg[t].obj \in allocated
    /\ filled[reg[t].obj] = reg[t].key
    /\ \A k \in Keys : entries[k] # reg[t].obj
    /\ \A u \in Threads \ {t} :
         pc[u] \in {"store", "read_copy"} => reg[u].obj # reg[t].obj

\* A removal has a page index to remove.
RemoveInv == \A t \in Threads : pc[t] = "remove" => reg[t].key \in Keys

IInv ==
  /\ TypeOK /\ LockInv /\ PrivateInv /\ RemoveInv
  /\ SlotsSound /\ LockedReadSafe

\* An empty map meets the strengthening.
LEMMA InitIInv == Init => IInv
  BY NumKeysAssumption, MaxDrainAssumption, ObjsAssumption, ThreadsAssumption
  DEF Init, IInv, TypeOK, LockInv, PrivateInv, RemoveInv, SlotsSound, LockedReadSafe,
      NoReg, Keys

\* Every action keeps the strengthening.
LEMMA StepIInv == IInv /\ [Next]_vars => IInv'
<1> SUFFICES ASSUME IInv, [Next]_vars PROVE IInv'
  OBVIOUS
<1> USE NumKeysAssumption, MaxDrainAssumption, ObjsAssumption, ThreadsAssumption DEF IInv, Keys
<1>1. ASSUME NEW t \in Threads, NEW k \in Keys, StoreAlloc(t, k)
      PROVE  IInv'
  <2>1. TypeOK'
    BY <1>1 DEF TypeOK, StoreAlloc, Goto, Locals, table, locks
  <2>2. LockInv'
    BY <1>1 DEF TypeOK, LockInv, StoreAlloc, Goto, Locals, table, locks
  <2>3. PrivateInv'
    BY <1>1 DEF TypeOK, LockInv, PrivateInv, SlotsSound, LockedReadSafe, StoreAlloc, Goto, Locals, table, locks
  <2>4. RemoveInv'
    BY <1>1 DEF TypeOK, RemoveInv, StoreAlloc, Goto, Locals, table, locks
  <2>5. SlotsSound'
    BY <1>1 DEF TypeOK, PrivateInv, SlotsSound, RemoveInv, StoreAlloc, Goto, Locals, table, locks
  <2>6. LockedReadSafe'
    BY <1>1 DEF TypeOK, LockInv, PrivateInv, SlotsSound, LockedReadSafe, StoreAlloc, Goto, Locals, table, locks
  <2> QED BY <2>1, <2>2, <2>3, <2>4, <2>5, <2>6
<1>2. ASSUME NEW t \in Threads, StorePublish(t)
      PROVE  IInv'
  <2>1. TypeOK'
    BY <1>2 DEF TypeOK, StorePublish, Goto, table, locks
  <2>2. LockInv'
    BY <1>2 DEF TypeOK, LockInv, StorePublish, Goto, table, locks
  <2>3. PrivateInv'
    BY <1>2 DEF TypeOK, LockInv, PrivateInv, SlotsSound, StorePublish, Goto, table, locks
  <2>4. RemoveInv'
    BY <1>2 DEF TypeOK, RemoveInv, StorePublish, Goto, table, locks
  <2>5. SlotsSound'
    BY <1>2 DEF TypeOK, PrivateInv, SlotsSound, RemoveInv, StorePublish, Goto, table, locks
  <2>6. LockedReadSafe'
    BY <1>2 DEF TypeOK, LockInv, PrivateInv, SlotsSound, LockedReadSafe, StorePublish, Goto, table, locks
  <2> QED BY <2>1, <2>2, <2>3, <2>4, <2>5, <2>6
<1>3. ASSUME NEW t \in Threads, StoreCount(t)
      PROVE  IInv'
  <2>1. TypeOK'
    BY <1>3 DEF TypeOK, StoreCount, Goto, table, locks
  <2>2. LockInv'
    BY <1>3 DEF TypeOK, LockInv, StoreCount, Goto, table, locks
  <2>3. PrivateInv'
    BY <1>3 DEF TypeOK, LockInv, PrivateInv, SlotsSound, StoreCount, Goto, table, locks
  <2>4. RemoveInv'
    BY <1>3 DEF TypeOK, RemoveInv, StoreCount, Goto, table, locks
  <2>5. SlotsSound'
    BY <1>3 DEF TypeOK, PrivateInv, SlotsSound, RemoveInv, StoreCount, Goto, table, locks
  <2>6. LockedReadSafe'
    BY <1>3 DEF TypeOK, LockInv, PrivateInv, SlotsSound, LockedReadSafe, StoreCount, Goto, table, locks
  <2> QED BY <2>1, <2>2, <2>3, <2>4, <2>5, <2>6
<1>4. ASSUME NEW t \in Threads, StoreFail(t)
      PROVE  IInv'
  <2>1. TypeOK'
    BY <1>4 DEF TypeOK, StoreFail, Goto, table, locks
  <2>2. LockInv'
    BY <1>4 DEF TypeOK, LockInv, StoreFail, Goto, table, locks
  <2>3. PrivateInv'
    BY <1>4 DEF TypeOK, LockInv, PrivateInv, SlotsSound, StoreFail, Goto, table, locks
  <2>4. RemoveInv'
    BY <1>4 DEF TypeOK, RemoveInv, StoreFail, Goto, table, locks
  <2>5. SlotsSound'
    BY <1>4 DEF TypeOK, PrivateInv, SlotsSound, RemoveInv, StoreFail, Goto, table, locks
  <2>6. LockedReadSafe'
    BY <1>4 DEF TypeOK, LockInv, PrivateInv, SlotsSound, LockedReadSafe, StoreFail, Goto, table, locks
  <2> QED BY <2>1, <2>2, <2>3, <2>4, <2>5, <2>6
<1>5. ASSUME NEW t \in Threads, NEW k \in Keys, LookupLoad(t, k)
      PROVE  IInv'
  <2>1. TypeOK'
    BY <1>5 DEF TypeOK, LookupLoad, Goto, Locals, table, locks
  <2>2. LockInv'
    BY <1>5 DEF TypeOK, LockInv, LookupLoad, Goto, Locals, table, locks
  <2>3. PrivateInv'
    BY <1>5 DEF TypeOK, LockInv, PrivateInv, SlotsSound, LookupLoad, Goto, Locals, table, locks
  <2>4. RemoveInv'
    BY <1>5 DEF TypeOK, RemoveInv, LookupLoad, Goto, Locals, table, locks
  <2>5. SlotsSound'
    BY <1>5 DEF TypeOK, PrivateInv, SlotsSound, RemoveInv, LookupLoad, Goto, Locals, table, locks
  <2>6. LockedReadSafe'
    BY <1>5 DEF TypeOK, LockInv, PrivateInv, SlotsSound, LockedReadSafe, LookupLoad, Goto, Locals, table, locks
  <2> QED BY <2>1, <2>2, <2>3, <2>4, <2>5, <2>6
<1>6. ASSUME NEW t \in Threads, LookupCopy(t)
      PROVE  IInv'
  <2>1. TypeOK'
    BY <1>6 DEF TypeOK, LookupCopy, Goto, table, locks
  <2>2. LockInv'
    BY <1>6 DEF TypeOK, LockInv, LookupCopy, Goto, table, locks
  <2>3. PrivateInv'
    BY <1>6 DEF TypeOK, LockInv, PrivateInv, SlotsSound, LookupCopy, Goto, table, locks
  <2>4. RemoveInv'
    BY <1>6 DEF TypeOK, RemoveInv, LookupCopy, Goto, table, locks
  <2>5. SlotsSound'
    BY <1>6 DEF TypeOK, PrivateInv, SlotsSound, RemoveInv, LookupCopy, Goto, table, locks
  <2>6. LockedReadSafe'
    BY <1>6 DEF TypeOK, LockInv, PrivateInv, SlotsSound, LockedReadSafe, LookupCopy, Goto, table, locks
  <2> QED BY <2>1, <2>2, <2>3, <2>4, <2>5, <2>6
<1>7. ASSUME NEW t \in Threads, ReadLock(t)
      PROVE  IInv'
  <2>1. TypeOK'
    BY <1>7 DEF TypeOK, ReadLock, Goto, table, locks
  <2>2. LockInv'
    BY <1>7 DEF TypeOK, LockInv, ReadLock, Goto, table, locks
  <2>3. PrivateInv'
    BY <1>7 DEF TypeOK, LockInv, PrivateInv, SlotsSound, ReadLock, Goto, table, locks
  <2>4. RemoveInv'
    BY <1>7 DEF TypeOK, RemoveInv, ReadLock, Goto, table, locks
  <2>5. SlotsSound'
    BY <1>7 DEF TypeOK, PrivateInv, SlotsSound, RemoveInv, ReadLock, Goto, table, locks
  <2>6. LockedReadSafe'
    BY <1>7 DEF TypeOK, LockInv, PrivateInv, SlotsSound, LockedReadSafe, ReadLock, Goto, table, locks
  <2> QED BY <2>1, <2>2, <2>3, <2>4, <2>5, <2>6
<1>8. ASSUME NEW t \in Threads, NEW k \in Keys, LockedLoad(t, k)
      PROVE  IInv'
  <2>1. TypeOK'
    BY <1>8 DEF TypeOK, LockedLoad, Goto, Locals, table, locks
  <2>2. LockInv'
    BY <1>8 DEF TypeOK, LockInv, LockedLoad, Goto, Locals, table, locks
  <2>3. PrivateInv'
    BY <1>8 DEF TypeOK, LockInv, PrivateInv, SlotsSound, LockedLoad, Goto, Locals, table, locks
  <2>4. RemoveInv'
    BY <1>8 DEF TypeOK, RemoveInv, LockedLoad, Goto, Locals, table, locks
  <2>5. SlotsSound'
    BY <1>8 DEF TypeOK, PrivateInv, SlotsSound, RemoveInv, LockedLoad, Goto, Locals, table, locks
  <2>6. LockedReadSafe'
    BY <1>8 DEF TypeOK, LockInv, PrivateInv, SlotsSound, LockedReadSafe, LockedLoad, Goto, Locals, table, locks
  <2> QED BY <2>1, <2>2, <2>3, <2>4, <2>5, <2>6
<1>9. ASSUME NEW t \in Threads, LockedCopy(t)
      PROVE  IInv'
  <2>1. TypeOK'
    BY <1>9 DEF TypeOK, LockedCopy, Goto, table, locks
  <2>2. LockInv'
    BY <1>9 DEF TypeOK, LockInv, LockedCopy, Goto, table, locks
  <2>3. PrivateInv'
    BY <1>9 DEF TypeOK, LockInv, PrivateInv, SlotsSound, LockedCopy, Goto, table, locks
  <2>4. RemoveInv'
    BY <1>9 DEF TypeOK, RemoveInv, LockedCopy, Goto, table, locks
  <2>5. SlotsSound'
    BY <1>9 DEF TypeOK, PrivateInv, SlotsSound, RemoveInv, LockedCopy, Goto, table, locks
  <2>6. LockedReadSafe'
    BY <1>9 DEF TypeOK, LockInv, PrivateInv, SlotsSound, LockedReadSafe, LockedCopy, Goto, table, locks
  <2> QED BY <2>1, <2>2, <2>3, <2>4, <2>5, <2>6
<1>10. ASSUME NEW t \in Threads, ReadUnlock(t)
      PROVE  IInv'
  <2>1. TypeOK'
    BY <1>10 DEF TypeOK, ReadUnlock, Goto, table, locks
  <2>2. LockInv'
    BY <1>10 DEF TypeOK, LockInv, ReadUnlock, Goto, table, locks
  <2>3. PrivateInv'
    BY <1>10 DEF TypeOK, LockInv, PrivateInv, SlotsSound, ReadUnlock, Goto, table, locks
  <2>4. RemoveInv'
    BY <1>10 DEF TypeOK, RemoveInv, ReadUnlock, Goto, table, locks
  <2>5. SlotsSound'
    BY <1>10 DEF TypeOK, PrivateInv, SlotsSound, RemoveInv, ReadUnlock, Goto, table, locks
  <2>6. LockedReadSafe'
    BY <1>10 DEF TypeOK, LockInv, PrivateInv, SlotsSound, LockedReadSafe, ReadUnlock, Goto, table, locks
  <2> QED BY <2>1, <2>2, <2>3, <2>4, <2>5, <2>6
<1>11. ASSUME NEW t \in Threads, NEW k \in Keys, RemoveLock(t, k)
      PROVE  IInv'
  <2>1. TypeOK'
    BY <1>11 DEF TypeOK, RemoveLock, Goto, Locals, table, locks
  <2>2. LockInv'
    BY <1>11 DEF TypeOK, LockInv, RemoveLock, Goto, Locals, table, locks
  <2>3. PrivateInv'
    BY <1>11 DEF TypeOK, LockInv, PrivateInv, SlotsSound, RemoveLock, Goto, Locals, table, locks
  <2>4. RemoveInv'
    BY <1>11 DEF TypeOK, RemoveInv, RemoveLock, Goto, Locals, table, locks
  <2>5. SlotsSound'
    BY <1>11 DEF TypeOK, PrivateInv, SlotsSound, RemoveInv, RemoveLock, Goto, Locals, table, locks
  <2>6. LockedReadSafe'
    BY <1>11 DEF TypeOK, LockInv, PrivateInv, SlotsSound, LockedReadSafe, RemoveLock, Goto, Locals, table, locks
  <2> QED BY <2>1, <2>2, <2>3, <2>4, <2>5, <2>6
<1>12. ASSUME NEW t \in Threads, RemoveErase(t)
      PROVE  IInv'
  <2>1. TypeOK'
    BY <1>12 DEF TypeOK, RemoveInv, RemoveErase, Goto, Evict, table, locks
  <2>2. LockInv'
    BY <1>12 DEF TypeOK, LockInv, RemoveErase, Goto, Evict, table, locks
  <2>3. PrivateInv'
    BY <1>12 DEF TypeOK, LockInv, PrivateInv, SlotsSound, RemoveInv, RemoveErase, Goto, Evict, table, locks
  <2>4. RemoveInv'
    BY <1>12 DEF TypeOK, RemoveInv, RemoveErase, Goto, Evict, table, locks
  <2>5. SlotsSound'
    BY <1>12 DEF TypeOK, PrivateInv, SlotsSound, RemoveInv, RemoveErase, Goto, Evict, table, locks
  <2>6. LockedReadSafe'
    BY <1>12 DEF TypeOK, LockInv, PrivateInv, SlotsSound, LockedReadSafe, RemoveErase, Goto, Evict, table, locks
  <2> QED BY <2>1, <2>2, <2>3, <2>4, <2>5, <2>6
<1>13. ASSUME NEW t \in Threads, NEW n \in 0 .. MaxDrain, DrainLock(t, n)
      PROVE  IInv'
  <2>1. TypeOK'
    BY <1>13 DEF TypeOK, DrainLock, Goto, Locals, table, locks
  <2>2. LockInv'
    BY <1>13 DEF TypeOK, LockInv, DrainLock, Goto, Locals, table, locks
  <2>3. PrivateInv'
    BY <1>13 DEF TypeOK, LockInv, PrivateInv, SlotsSound, DrainLock, Goto, Locals, table, locks
  <2>4. RemoveInv'
    BY <1>13 DEF TypeOK, RemoveInv, DrainLock, Goto, Locals, table, locks
  <2>5. SlotsSound'
    BY <1>13 DEF TypeOK, PrivateInv, SlotsSound, RemoveInv, DrainLock, Goto, Locals, table, locks
  <2>6. LockedReadSafe'
    BY <1>13 DEF TypeOK, LockInv, PrivateInv, SlotsSound, LockedReadSafe, DrainLock, Goto, Locals, table, locks
  <2> QED BY <2>1, <2>2, <2>3, <2>4, <2>5, <2>6
<1>14. ASSUME NEW t \in Threads, DrainErase(t)
      PROVE  IInv'
  <2>1. TypeOK'
    BY <1>14 DEF TypeOK, DrainErase, Goto, Locals, Evict, NextFrom, table, locks
  <2>2. LockInv'
    BY <1>14 DEF TypeOK, LockInv, DrainErase, Goto, Locals, Evict, NextFrom, table, locks
  <2>3. PrivateInv'
    BY <1>14 DEF TypeOK, LockInv, PrivateInv, SlotsSound, DrainErase, Goto, Locals, Evict, NextFrom, table, locks
  <2>4. RemoveInv'
    BY <1>14 DEF TypeOK, RemoveInv, DrainErase, Goto, Locals, Evict, NextFrom, table, locks
  <2>5. SlotsSound'
    BY <1>14 DEF TypeOK, PrivateInv, SlotsSound, RemoveInv, DrainErase, Goto, Locals, Evict, NextFrom, table, locks
  <2>6. LockedReadSafe'
    BY <1>14 DEF TypeOK, LockInv, PrivateInv, SlotsSound, LockedReadSafe, DrainErase, Goto, Locals, Evict, NextFrom, table, locks
  <2> QED BY <2>1, <2>2, <2>3, <2>4, <2>5, <2>6
<1>15. ASSUME NEW t \in Threads, DrainCallback(t)
      PROVE  IInv'
  <2>1. TypeOK'
    BY <1>15 DEF TypeOK, DrainCallback, Goto, table, locks
  <2>2. LockInv'
    BY <1>15 DEF TypeOK, LockInv, DrainCallback, Goto, table, locks
  <2>3. PrivateInv'
    BY <1>15 DEF TypeOK, LockInv, PrivateInv, SlotsSound, DrainCallback, Goto, table, locks
  <2>4. RemoveInv'
    BY <1>15 DEF TypeOK, RemoveInv, DrainCallback, Goto, table, locks
  <2>5. SlotsSound'
    BY <1>15 DEF TypeOK, PrivateInv, SlotsSound, RemoveInv, DrainCallback, Goto, table, locks
  <2>6. LockedReadSafe'
    BY <1>15 DEF TypeOK, LockInv, PrivateInv, SlotsSound, LockedReadSafe, DrainCallback, Goto, table, locks
  <2> QED BY <2>1, <2>2, <2>3, <2>4, <2>5, <2>6
<1>16. ASSUME NEW t \in Threads, DrainDone(t)
      PROVE  IInv'
  <2>1. TypeOK'
    BY <1>16 DEF TypeOK, DrainDone, Goto, NextFrom, table, locks
  <2>2. LockInv'
    BY <1>16 DEF TypeOK, LockInv, DrainDone, Goto, NextFrom, table, locks
  <2>3. PrivateInv'
    BY <1>16 DEF TypeOK, LockInv, PrivateInv, SlotsSound, DrainDone, Goto, NextFrom, table, locks
  <2>4. RemoveInv'
    BY <1>16 DEF TypeOK, RemoveInv, DrainDone, Goto, NextFrom, table, locks
  <2>5. SlotsSound'
    BY <1>16 DEF TypeOK, PrivateInv, SlotsSound, RemoveInv, DrainDone, Goto, NextFrom, table, locks
  <2>6. LockedReadSafe'
    BY <1>16 DEF TypeOK, LockInv, PrivateInv, SlotsSound, LockedReadSafe, DrainDone, Goto, NextFrom, table, locks
  <2> QED BY <2>1, <2>2, <2>3, <2>4, <2>5, <2>6
<1>17. CASE RemoveAll
  <2>1. TypeOK'
    BY <1>17 DEF TypeOK, LockInv, PrivateInv, RemoveInv, SlotsSound, LockedReadSafe, RemoveAll, locks
  <2>2. LockInv'
    BY <1>17 DEF TypeOK, LockInv, PrivateInv, RemoveInv, SlotsSound, LockedReadSafe, RemoveAll, locks
  <2>3. PrivateInv'
    BY <1>17 DEF TypeOK, LockInv, PrivateInv, RemoveInv, SlotsSound, LockedReadSafe, RemoveAll, locks
  <2>4. RemoveInv'
    BY <1>17 DEF TypeOK, LockInv, PrivateInv, RemoveInv, SlotsSound, LockedReadSafe, RemoveAll, locks
  <2>5. SlotsSound'
    BY <1>17 DEF TypeOK, LockInv, PrivateInv, RemoveInv, SlotsSound, LockedReadSafe, RemoveAll, locks
  <2>6. LockedReadSafe'
    BY <1>17 DEF TypeOK, LockInv, PrivateInv, RemoveInv, SlotsSound, LockedReadSafe, RemoveAll, locks
  <2> QED BY <2>1, <2>2, <2>3, <2>4, <2>5, <2>6
<1>18. CASE UNCHANGED vars
  BY <1>18 DEF TypeOK, LockInv, PrivateInv, RemoveInv, SlotsSound, LockedReadSafe, vars
<1> QED
  BY <1>1, <1>2, <1>3, <1>4, <1>5, <1>6, <1>7, <1>8, <1>9, <1>10, <1>11, <1>12, <1>13, <1>14, <1>15, <1>16, <1>17, <1>18
  DEF Next, Store, Lookup, LockedRead, Remove, Drain

\* Every reachable state satisfies the strengthened invariant.
THEOREM InductiveInvariant == Spec => []IInv
  BY InitIInv, StepIInv, PTL DEF Spec

\* The variables of the map keep their types, and a drain never takes more
\* entries than it was asked for.
THEOREM TypeCorrect == Spec => []TypeOK
<1>1. IInv => TypeOK
  BY DEF IInv
<1> QED BY <1>1, InductiveInvariant, PTL

\* No slot of the xarray ever leads to freed memory or to another page's entry.
THEOREM SlotsAreSound == Spec => []SlotsSound
<1>1. IInv => SlotsSound
  BY DEF IInv
<1> QED BY <1>1, InductiveInvariant, PTL

\* A lookup made with the rwsem read-locked copies a live entry of its page.
THEOREM LockedReadsAreSafe == Spec => []LockedReadSafe
<1>1. IInv => LockedReadSafe
  BY DEF IInv
<1> QED BY <1>1, InductiveInvariant, PTL

-----------------------------------------------------------------------------
(* Readers pin entries.  Only the holder of the rwsem for writing takes an *)
(* entry out, and there is none while there are readers.                   *)

\* While the map has readers no step takes an entry out.
LEMMA PinStep ==
  ASSUME IInv, Next, readers # {}
  PROVE  \A k \in Keys : entries[k] # None => entries'[k] # None
<1> USE ThreadsAssumption, ObjsAssumption DEF IInv
<1>1. ASSUME NEW t \in Threads, StorePublish(t)
      PROVE  \A k \in Keys : entries[k] # None => entries'[k] # None
  <2>1. pc[t] = "store" /\ reg[t].obj # None
    BY <1>1 DEF StorePublish, Goto, PrivateInv, TypeOK
  <2> QED BY <1>1, <2>1 DEF StorePublish, TypeOK
<1>2. ASSUME NEW t \in Threads, RemoveErase(t) \/ DrainErase(t)
      PROVE  FALSE
  <2>1. writer = t
    BY <1>2 DEF RemoveErase, DrainErase, Goto, LockInv
  <2> QED BY <2>1 DEF LockInv
<1>3. CASE RemoveAll
  BY <1>3 DEF RemoveAll, LockInv, TypeOK
<1>4. ASSUME NEW t \in Threads, UNCHANGED entries
      PROVE  \A k \in Keys : entries[k] # None => entries'[k] # None
  BY <1>4
<1> QED
  BY <1>1, <1>2, <1>3, <1>4
  DEF Next, Store, Lookup, LockedRead, Remove, Drain, StoreAlloc, StoreCount, StoreFail,
      LookupLoad, LookupCopy, ReadLock, LockedLoad, LockedCopy, ReadUnlock,
      RemoveLock, DrainLock, DrainCallback, DrainDone, table

\* While anyone holds the rwsem for reading no page loses its entry.
THEOREM ReadersPin == Spec => ReadersPinEntries
<1>1. IInv /\ [Next]_vars => [readers # {} =>
        \A k \in Keys : entries[k] # None => entries'[k] # None]_vars
  BY PinStep
<1> QED BY <1>1, InductiveInvariant, PTL DEF Spec, ReadersPinEntries

-----------------------------------------------------------------------------
(* The count.  A store publishes its entry before it counts it, in one     *)
(* critical section of the spinlock, so the count may lag by one while the *)
(* lock is held.                                                           *)

Lag == IF lock = None THEN 0 ELSE 1
CountInv == Cardinality(Occupied) <= count + Lag

\* Finitely many keys are occupied.
LEMMA OccupiedFinite ==
  /\ IsFiniteSet(Occupied)
  /\ Cardinality(Occupied) \in Nat
<1>1. IsFiniteSet(Keys)
  BY NumKeysAssumption, FS_Interval DEF Keys
<1>2. Occupied \subseteq Keys
  BY DEF Occupied
<1> QED BY <1>1, <1>2, FS_Subset, FS_CardinalityType

\* The count of an empty map is zero.
LEMMA CountInit == Init => CountInv
<1> SUFFICES ASSUME Init PROVE CountInv
  OBVIOUS
<1>1. Occupied = {}
  BY DEF Init, Occupied
<1> QED BY <1>1, FS_EmptySet DEF Init, CountInv, Lag

\* Taking an entry out uncounts it exactly if it was there.
LEMMA EvictCounts ==
  ASSUME TypeOK, CountInv, NEW k \in Keys, Evict(k), lock = None, lock' = None
  PROVE  CountInv'
<1>1. CASE entries[k] = None
  <2>1. Occupied' = Occupied /\ count' = count
    BY <1>1 DEF Evict, Occupied, TypeOK
  <2> QED BY <2>1 DEF CountInv, Lag
<1>2. CASE entries[k] # None
  <2>1. Occupied' = Occupied \ {k} /\ k \in Occupied
    BY <1>2 DEF Evict, Occupied, TypeOK
  <2>2. Cardinality(Occupied') = Cardinality(Occupied) - 1
    BY <2>1, OccupiedFinite, FS_RemoveElement
  <2>3. count' = count - 1
    BY <1>2 DEF Evict
  <2> QED BY <2>2, <2>3, OccupiedFinite DEF CountInv, Lag, TypeOK
<1> QED BY <1>1, <1>2

\* Every action keeps the count right.
LEMMA CountStep == IInv /\ CountInv /\ [Next]_vars => CountInv'
<1> SUFFICES ASSUME IInv, CountInv, [Next]_vars PROVE CountInv'
  OBVIOUS
<1> USE ThreadsAssumption, NumKeysAssumption DEF IInv
<1>1. ASSUME NEW t \in Threads, StorePublish(t)
      PROVE  CountInv'
  <2>1. PICK k \in Keys : k = reg[t].key
    BY <1>1 DEF StorePublish, Goto, PrivateInv
  <2>2. Occupied' \subseteq Occupied \union {k}
    BY <1>1, <2>1 DEF StorePublish, Occupied, TypeOK
  <2>3. /\ IsFiniteSet(Occupied \union {k})
        /\ Cardinality(Occupied \union {k}) \in
             {Cardinality(Occupied), Cardinality(Occupied) + 1}
    BY OccupiedFinite, FS_AddElement
  <2>4. Cardinality(Occupied') <= Cardinality(Occupied \union {k}) /\ Cardinality(Occupied') \in Nat
    BY <2>2, <2>3, FS_Subset, FS_CardinalityType
  <2>5. lock = None /\ lock' # None /\ count' = count
    BY <1>1 DEF StorePublish
  <2> QED BY <2>3, <2>4, <2>5, OccupiedFinite DEF CountInv, Lag, TypeOK
<1>2. ASSUME NEW t \in Threads, StoreCount(t)
      PROVE  CountInv'
  <2>1. lock = t /\ lock' = None /\ count' = count + 1
    BY <1>2 DEF StoreCount, Goto, LockInv
  <2>2. Occupied' = Occupied
    BY <1>2 DEF StoreCount, Occupied
  <2> QED BY <2>1, <2>2 DEF CountInv, Lag, TypeOK
<1>3. ASSUME NEW t \in Threads, RemoveErase(t)
      PROVE  CountInv'
  <2>1. reg[t].key \in Keys
    BY <1>3 DEF RemoveErase, Goto, RemoveInv
  <2> QED BY <1>3, <2>1, EvictCounts DEF RemoveErase
<1>4. ASSUME NEW t \in Threads, DrainErase(t)
      PROVE  CountInv'
  <2>1. PICK k \in Keys : Evict(k)
    BY <1>4 DEF DrainErase, NextFrom
  <2> QED BY <1>4, <2>1, EvictCounts DEF DrainErase, locks
<1>5. CASE RemoveAll
  <2>1. Occupied' = {} /\ count' = 0
    BY <1>5 DEF RemoveAll, Occupied
  <2> QED BY <2>1, FS_EmptySet DEF CountInv, Lag
<1>6. CASE UNCHANGED <<entries, count, lock>>
  BY <1>6 DEF CountInv, Lag, Occupied
<1> QED
  BY <1>1, <1>2, <1>3, <1>4, <1>5, <1>6
  DEF Next, Store, Lookup, LockedRead, Remove, Drain, StoreAlloc, StoreFail,
      LookupLoad, LookupCopy, ReadLock, LockedLoad, LockedCopy, ReadUnlock,
      RemoveLock, DrainLock, DrainCallback, DrainDone, table, locks, vars

\* While no store is in its critical section, the count is at least the number
\* of entries, so the unload drain that reads zero has nothing to restore.
THEOREM EntriesAreCounted == Spec => []EntriesCounted
<1>1. Spec => []CountInv
  BY CountInit, CountStep, InductiveInvariant, PTL DEF Spec
<1>2. IInv /\ CountInv => EntriesCounted
  BY OccupiedFinite DEF IInv, TypeOK, CountInv, Lag, EntriesCounted
<1> QED BY <1>1, <1>2, InductiveInvariant, PTL

-----------------------------------------------------------------------------
(* The refinement.  Only publishing a store, erasing an entry, taking and  *)
(* leaving the rwsem for reading and emptying the map are seen outside.    *)

\* Evicting a page with no reader about takes it out of the abstract map.
LEMMA EvictTakes ==
  ASSUME TypeOK, NEW k \in Keys, Evict(k), readers = {}, UNCHANGED readers
  PROVE  Atomic!Take(k)
<1>1. Occupied' = Occupied \ {k}
  BY DEF Evict, Occupied, TypeOK
<1> QED BY <1>1 DEF Atomic!Take

\* Every step is a step of the abstract map, or a stutter.
LEMMA StepRefines ==
  IInv /\ [Next]_vars => [Atomic!Next]_<<Occupied, readers>>
<1> SUFFICES ASSUME IInv, [Next]_vars
             PROVE  [Atomic!Next]_<<Occupied, readers>>
  OBVIOUS
<1> USE ThreadsAssumption DEF IInv
<1>1. ASSUME NEW t \in Threads, StorePublish(t)
      PROVE  Atomic!Next
  <2>1. reg[t].key \in Keys /\ reg[t].obj # None
    BY <1>1, ObjsAssumption DEF StorePublish, Goto, PrivateInv, TypeOK
  <2>2. Occupied' = Occupied \union {reg[t].key} /\ readers' = readers
    BY <1>1, <2>1 DEF StorePublish, Occupied, TypeOK
  <2> QED BY <2>1, <2>2 DEF Atomic!Next, Atomic!Put
<1>2. ASSUME NEW t \in Threads, ReadLock(t)
      PROVE  Atomic!Next
  BY <1>2 DEF ReadLock, table, Occupied, Atomic!Next, Atomic!Pin
<1>3. ASSUME NEW t \in Threads, ReadUnlock(t)
      PROVE  Atomic!Next
  BY <1>3 DEF ReadUnlock, Goto, LockInv, table, Occupied, Atomic!Next, Atomic!Unpin
<1>4. ASSUME NEW t \in Threads, RemoveErase(t)
      PROVE  Atomic!Next
  <2>1. reg[t].key \in Keys /\ readers = {}
    BY <1>4 DEF RemoveErase, Goto, RemoveInv, LockInv
  <2> QED BY <1>4, <2>1, EvictTakes DEF RemoveErase, Atomic!Next
<1>5. ASSUME NEW t \in Threads, DrainErase(t)
      PROVE  Atomic!Next
  <2>1. PICK k \in Keys : Evict(k)
    BY <1>5 DEF DrainErase, NextFrom
  <2>2. readers = {} /\ readers' = readers
    BY <1>5 DEF DrainErase, Goto, LockInv, locks
  <2> QED BY <2>1, <2>2, EvictTakes DEF Atomic!Next
<1>6. ASSUME RemoveAll
      PROVE  Atomic!Next
  <2>1. readers = {} /\ readers' = readers
    BY <1>6 DEF RemoveAll, LockInv, TypeOK, locks
  <2>2. Occupied' = {}
    BY <1>6 DEF RemoveAll, Occupied
  <2> QED BY <2>1, <2>2 DEF Atomic!Next, Atomic!Clear
<1>7. CASE UNCHANGED <<entries, readers>>
  BY <1>7 DEF Occupied
<1> QED
  BY <1>1, <1>2, <1>3, <1>4, <1>5, <1>6, <1>7
  DEF Next, Store, Lookup, LockedRead, Remove, Drain, StoreAlloc, StoreCount,
      StoreFail, LookupLoad, LookupCopy, LockedLoad, LockedCopy, RemoveLock,
      DrainLock, DrainCallback, DrainDone, table, locks, vars

\* The map implements AtomicMap: stores, removals and drains look atomic, and
\* a pinned map loses no page (minimem_map_read_lock).
THEOREM MapIsAtomic == Spec => ImplementsAtomicMap
<1>1. Init => Atomic!Init
  BY DEF Init, Atomic!Init, Occupied
<1> QED
  BY <1>1, StepRefines, InductiveInvariant, PTL
  DEF Spec, ImplementsAtomicMap, Atomic!Spec
=============================================================================
