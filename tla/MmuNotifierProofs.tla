--------------------------- MODULE MmuNotifierProofs ---------------------------
(***************************************************************************)
(* Proofs about MmuNotifier, for any finite sets of address spaces and     *)
(* callers and for every environment.                                      *)
(*                                                                         *)
(* UsersCover is not inductive: it has to be known where each kind of      *)
(* context is, and that a worker has let go of the mm it puts (PcInv).     *)
(* For NoDanglingOps the notifiers in use are those with users (SubInv),   *)
(* and minimem_mmu_exit has each of them in its list, or is putting it and *)
(* has at least as many puts to make as it has users (ExitInv).            *)
(***************************************************************************)
EXTENDS MmuNotifier, FiniteSetTheorems, TLAPS

\* Each context is at one of its own program points, and has an mm where it
\* follows one.
PcInv ==
  /\ \A m \in Mms :
       /\ pc[m] \in {"idle", "mmput", "release", "released", "exited"}
       /\ on[m] = m
       /\ m \in alive <=> pc[m] = "idle"
  /\ \A c \in Callers :
       /\ pc[c] \in {"idle", "entered", "walk", "store", "queue", "mmput", "release", "released"}
       /\ pc[c] # "idle" => on[c] \in Mms
  /\ \A w \in Workers :
       /\ pc[w] \in {"idle", "collect", "loop", "arm", "mmput", "release", "released"}
       /\ pc[w] \in {"mmput", "release", "released"} => on[w] \in Mms
       /\ pc[w] = "mmput" => on[w] \notin taken[w]
       /\ pc[w] \in {"idle", "collect"} => taken[w] = {}
  /\ pc[Unloader] \in {"idle", "puts", "freed"}
  /\ pc[Unloader] # "idle" => on[Unloader] \in Mms

\* A notifier is linked as long as it has users.
SubInv == \A m \in Mms : sub[m] = "linked" <=> subUsers[m] > 0

\* Nothing is registered any more once the workqueue is drained, and every
\* notifier that is still linked will be put as often as it takes.
ExitInv ==
  /\ wq # "up" => \A c \in Callers : pc[c] = "idle"
  /\ wq \in {"gone", "unloaded"} => queued = {} /\ \A w \in Workers : pc[w] = "idle"
  /\ pc[Unloader] # "idle" => wq = "gone"
  /\ wq = "gone" =>
       \A m \in Mms : sub[m] = "linked" =>
         m \in todo \/ (pc[Unloader] = "puts" /\ on[Unloader] = m /\ subUsers[m] <= left)

IInv == TypeOK /\ PcInv /\ UsersCover /\ SubInv /\ ExitInv /\ NoDanglingOps

\* While processes do not exit during the unload, nobody but minimem_mmu_exit
\* puts the notifiers of its list: it has as many puts to make as there are
\* users.
QuietInv ==
  /\ wq # "up" => \A m \in Mms : pc[m] \in {"idle", "exited"}
  /\ pc[Unloader] = "puts" => left = subUsers[on[Unloader]]

\* The kinds of actors are different, and finitely many.
LEMMA ActorFacts ==
  /\ IsFiniteSet(Actors)
  /\ Workers = {Work, DWork} /\ Work # DWork
  /\ Mms \subseteq Actors /\ Callers \subseteq Actors /\ Workers \subseteq Actors
  /\ Unloader \in Actors /\ None \notin Actors
  /\ Unloader \notin Mms \union Callers \union Workers
  /\ Mms \cap Callers = {} /\ Mms \cap Workers = {} /\ Callers \cap Workers = {}
  /\ \A x \in Actors : x \in Mms \/ x \in Callers \/ x \in Workers \/ x = Unloader
<1>1. IsFiniteSet({Work} \union {DWork}) /\ IsFiniteSet({Unloader})
  BY FS_Singleton, FS_Union
<1>2. {Work} \union {DWork} = {Work, DWork}
  OBVIOUS
<1>3. IsFiniteSet(Mms \union Callers \union Workers \union {Unloader})
  BY <1>1, <1>2, FiniteAssumption, WorkersAssumption, FS_Union
<1>4. IsFiniteSet(Actors)
  BY <1>3 DEF Actors
<1> QED BY <1>4, WorkersAssumption, ActorsAssumption DEF Actors

\* How the size of a finite set follows the set: the counters of the code go
\* up and down by one with the sets they count.
LEMMA SizeSteps ==
  ASSUME NEW A, IsFiniteSet(A), NEW B, NEW e
  PROVE  /\ Cardinality(A) \in Nat
         /\ B \subseteq A =>
              /\ IsFiniteSet(B) /\ Cardinality(B) \in Nat
              /\ Cardinality(B) <= Cardinality(A)
         /\ B \subseteq A \union {e} =>
              /\ IsFiniteSet(B) /\ Cardinality(B) \in Nat
              /\ Cardinality(B) <= Cardinality(A) + 1
         /\ e \in A /\ B \subseteq A \ {e} =>
              /\ IsFiniteSet(B) /\ Cardinality(B) \in Nat
              /\ Cardinality(B) <= Cardinality(A) - 1
<1>1. Cardinality(A) \in Nat
  BY FS_CardinalityType
<1>2. ASSUME B \subseteq A
      PROVE  IsFiniteSet(B) /\ Cardinality(B) \in Nat /\ Cardinality(B) <= Cardinality(A)
  BY <1>2, FS_Subset, FS_CardinalityType
<1>3. ASSUME B \subseteq A \union {e}
      PROVE  IsFiniteSet(B) /\ Cardinality(B) \in Nat /\ Cardinality(B) <= Cardinality(A) + 1
  <2>1. /\ IsFiniteSet(A \union {e}) /\ Cardinality(A \union {e}) \in Nat
        /\ Cardinality(A \union {e}) <= Cardinality(A) + 1
    BY <1>1, FS_AddElement, FS_CardinalityType
  <2>2. IsFiniteSet(B) /\ Cardinality(B) <= Cardinality(A \union {e})
    BY <1>3, <2>1, FS_Subset
  <2> QED BY <1>1, <2>1, <2>2, FS_CardinalityType
<1>4. ASSUME e \in A, B \subseteq A \ {e}
      PROVE  IsFiniteSet(B) /\ Cardinality(B) \in Nat /\ Cardinality(B) <= Cardinality(A) - 1
  <2>1. /\ IsFiniteSet(A \ {e}) /\ Cardinality(A \ {e}) \in Nat
        /\ Cardinality(A \ {e}) = Cardinality(A) - 1
    BY <1>4, FS_RemoveElement, FS_CardinalityType
  <2>2. IsFiniteSet(B) /\ Cardinality(B) <= Cardinality(A \ {e})
    BY <1>4, <2>1, FS_Subset
  <2> QED BY <1>1, <2>1, <2>2, FS_CardinalityType
<1> QED BY <1>1, <1>2, <1>3, <1>4

\* Those who hold a reference to an mm are finitely many.
LEMMA HoldersFinite ==
  \A m \in Mms : IsFiniteSet(Holders(m)) /\ IsFiniteSet(Deferring(m))
<1> SUFFICES ASSUME NEW m \in Mms
             PROVE  IsFiniteSet(Holders(m)) /\ IsFiniteSet(Deferring(m))
  OBVIOUS
<1>1. Holders(m) \subseteq Actors /\ Deferring(m) \subseteq Actors
  BY ActorFacts DEF Holders, Deferring
<1> QED BY <1>1, ActorFacts, FS_Subset

\* The references to one mm, and what mm_users makes of them.
Pend(m) == IF m \in pending THEN 1 ELSE 0
References(m) == Cardinality(Holders(m)) + Cardinality(Deferring(m)) + Pend(m)
Covered(m) == References(m) <= users[m]

\* The numbers that make up References are numbers.
LEMMA ReferencesType ==
  \A m \in Mms : /\ Cardinality(Holders(m)) \in Nat /\ Cardinality(Deferring(m)) \in Nat
                 /\ Pend(m) \in Nat
BY HoldersFinite, FS_CardinalityType DEF Pend

\* A step after which nobody has a reference who had none, and none is dropped,
\* keeps the count right.
LEMMA CoverKept ==
  ASSUME NEW m \in Mms, Covered(m), users[m] \in Nat, users'[m] \in Nat,
         Holders(m)' \subseteq Holders(m), Deferring(m)' \subseteq Deferring(m),
         m \in pending' => m \in pending, users[m] <= users'[m]
  PROVE  Covered(m)'
<1>1. /\ Cardinality(Holders(m)') \in Nat /\ Cardinality(Deferring(m)') \in Nat
      /\ Cardinality(Holders(m)') <= Cardinality(Holders(m))
      /\ Cardinality(Deferring(m)') <= Cardinality(Deferring(m))
  BY HoldersFinite, SizeSteps
<1>2. Pend(m)' \in Nat /\ Pend(m)' <= Pend(m)
  BY DEF Pend
<1>3. References(m)' <= References(m)
  <2>1. References(m)' = Cardinality(Holders(m)') + Cardinality(Deferring(m)') + Pend(m)'
    BY DEF References
  <2> QED BY <1>1, <1>2, <2>1, ReferencesType DEF References
<1>4. References(m) \in Nat /\ References(m)' \in Nat
  <2>1. References(m)' = Cardinality(Holders(m)') + Cardinality(Deferring(m)') + Pend(m)'
    BY DEF References
  <2> QED BY <1>1, <1>2, <2>1, ReferencesType DEF References
<1> QED BY <1>3, <1>4 DEF Covered

\* Mm_users starts with one user, the process.
LEMMA InitIInv == Init => IInv
<1> SUFFICES ASSUME Init PROVE IInv
  OBVIOUS
<1> USE ActorFacts DEF Init
<1>1. TypeOK
  <2>1. on \in [Actors -> Mms \union {None}]
    OBVIOUS
  <2> QED BY <2>1 DEF TypeOK
<1>2. PcInv
  BY DEF PcInv
<1>3. UsersCover
  <2> SUFFICES ASSUME NEW m \in Mms PROVE Covered(m)
    BY DEF UsersCover, Covered, References, Pend
  <2>1. Holders(m) = {m} /\ Deferring(m) = {}
    BY DEF Holders, Deferring
  <2>2. Cardinality({m}) = 1 /\ Cardinality({}) = 0
    BY FS_Singleton, FS_EmptySet
  <2> QED BY <2>1, <2>2 DEF Covered, References, Pend
<1>4. SubInv /\ ExitInv /\ NoDanglingOps
  BY DEF SubInv, ExitInv, NoDanglingOps
<1> QED BY <1>1, <1>2, <1>3, <1>4 DEF IInv

\* Every action keeps the strengthening.
LEMMA StepIInv == IInv /\ [Next]_vars => IInv'
<1> SUFFICES ASSUME IInv, [Next]_vars PROVE IInv'
  OBVIOUS
<1> USE ActorFacts, BoundAssumption DEF IInv, mms, subs, work, unl
<1>1. ASSUME NEW x \in Actors, MmPut(x)
      PROVE  IInv'
  <2>a. on[x] \in Mms /\ users[on[x]] \in Nat \ {0}
    <3>1. on[x] \in Mms /\ x \in Holders(on[x])
      BY <1>1 DEF PcInv, Holders, MmPut, Goto
    <3>2. Cardinality(Holders(on[x])) \in Nat \ {0} /\ Cardinality(Deferring(on[x])) \in Nat
      BY <3>1, HoldersFinite, FS_EmptySet, FS_CardinalityType
    <3>3. Pend(on[x]) \in Nat /\ users[on[x]] \in Nat /\ Covered(on[x])
      BY <3>1 DEF Pend, TypeOK, UsersCover, Covered, References
    <3> QED BY <3>1, <3>2, <3>3 DEF Covered, References
  <2>1. SubInv' /\ NoDanglingOps'
    BY <1>1 DEF SubInv, NoDanglingOps, MmPut, Goto, Back, AddUsers
  <2>2. TypeOK'
    <3>1. users' \in [Mms -> Nat]
      BY <1>1, <2>a DEF TypeOK, MmPut, AddUsers
    <3> QED BY <1>1, <3>1 DEF TypeOK, MmPut, Goto, Back
  <2>3. PcInv'
    BY <1>1 DEF PcInv, MmPut, Goto, Back, AddUsers
  <2>4. UsersCover'
    <3> SUFFICES ASSUME NEW n \in Mms PROVE Covered(n)'
      BY DEF UsersCover, Covered, References, Pend
    <3>1. Covered(n) /\ users[n] \in Nat /\ users'[n] \in Nat
      BY <1>1, <2>a DEF UsersCover, Covered, References, Pend, TypeOK, Callers, MmPut, Goto, Back, AddUsers
    <3>2. CASE n = on[x]
      <4>1. x \in Holders(n) /\ Holders(n)' \subseteq Holders(n) \ {x}
        BY <1>1, <3>2 DEF TypeOK, PcInv, Holders, MmPut, Goto, Back, AddUsers
      <4>2. Deferring(n)' \subseteq Deferring(n)
        BY <1>1, <3>2 DEF TypeOK, PcInv, Deferring, MmPut, Goto, Back, AddUsers
      <4>3. Pend(n)' \in Nat /\ Pend(n)' <= Pend(n)
        BY <1>1, <3>2 DEF Pend, MmPut, Goto, Back, AddUsers
      <4>4. /\ Cardinality(Holders(n)') \in Nat /\ Cardinality(Deferring(n)') \in Nat
            /\ Cardinality(Holders(n)') <= Cardinality(Holders(n)) - 1
            /\ Cardinality(Deferring(n)') <= Cardinality(Deferring(n))
        BY <4>1, <4>2, HoldersFinite, SizeSteps
      <4>5. users[n] - 1 <= users'[n]
        BY <1>1, <3>1, <3>2 DEF TypeOK, MmPut, Goto, Back, AddUsers
      <4>6. References(n)' = Cardinality(Holders(n)') + Cardinality(Deferring(n)') + Pend(n)'
        BY DEF References
      <4> QED BY <3>1, <4>3, <4>4, <4>5, <4>6, ReferencesType DEF Covered, References
    <3>3. CASE ~(n = on[x])
      <4>1. users[n] <= users'[n]
        BY <1>1, <3>1, <3>3 DEF TypeOK, MmPut, Goto, Back, AddUsers
      <4>2. Holders(n)' \subseteq Holders(n) /\ Deferring(n)' \subseteq Deferring(n)
        BY <1>1, <3>3 DEF TypeOK, PcInv, Holders, Deferring, MmPut, Goto, Back, AddUsers
      <4>3. n \in pending' => n \in pending
        BY <1>1, <3>3 DEF MmPut
      <4> QED BY <3>1, <4>1, <4>2, <4>3, CoverKept
    <3> QED BY <3>2, <3>3
  <2>5. ExitInv'
    BY <1>1 DEF ExitInv, MmPut, Goto, Back, AddUsers
  <2> QED BY <2>1, <2>2, <2>3, <2>4, <2>5
<1>2. ASSUME NEW x \in Actors, Release(x)
      PROVE  IInv'
  <2>1. SubInv' /\ NoDanglingOps'
    BY <1>2 DEF SubInv, NoDanglingOps, Release, Goto, Back
  <2>2. TypeOK'
    BY <1>2 DEF TypeOK, PcInv, Release, Goto, Back
  <2>3. PcInv'
    BY <1>2 DEF PcInv, Release, Goto, Back
  <2>4. UsersCover'
    <3> SUFFICES ASSUME NEW n \in Mms PROVE Covered(n)'
      BY DEF UsersCover, Covered, References, Pend
    <3>1. Covered(n) /\ users[n] \in Nat /\ users'[n] \in Nat /\ users[n] <= users'[n]
      BY <1>2 DEF UsersCover, Covered, References, Pend, TypeOK, Release
    <3>2. Holders(n)' \subseteq Holders(n) /\ Deferring(n)' \subseteq Deferring(n)
      BY <1>2 DEF TypeOK, PcInv, Holders, Deferring, Release, Goto, Back
    <3>3. n \in pending' => n \in pending
      BY <1>2 DEF Release
    <3> QED BY <3>1, <3>2, <3>3, CoverKept
  <2>5. ExitInv'
    BY <1>2 DEF ExitInv, Release, Goto, Back
  <2> QED BY <2>1, <2>2, <2>3, <2>4, <2>5
<1>3. ASSUME NEW x \in Actors, ReleasePut(x)
      PROVE  IInv'
  <2>1. TypeOK'
    BY <1>3 DEF TypeOK, PcInv, ReleasePut, SubPut, Goto, Back
  <2>2. PcInv'
    BY <1>3 DEF PcInv, ReleasePut, SubPut, Goto, Back
  <2>3. UsersCover'
    <3> SUFFICES ASSUME NEW n \in Mms PROVE Covered(n)'
      BY DEF UsersCover, Covered, References, Pend
    <3>1. Covered(n) /\ users[n] \in Nat /\ users'[n] \in Nat /\ users[n] <= users'[n]
      BY <1>3 DEF UsersCover, Covered, References, Pend, TypeOK, ReleasePut
    <3>2. Holders(n)' \subseteq Holders(n) /\ Deferring(n)' \subseteq Deferring(n)
      BY <1>3 DEF TypeOK, PcInv, Holders, Deferring, ReleasePut, Goto, Back
    <3>3. n \in pending' => n \in pending
      BY <1>3 DEF ReleasePut
    <3> QED BY <3>1, <3>2, <3>3, CoverKept
  <2>4. SubInv'
    BY <1>3 DEF TypeOK, SubInv, ReleasePut, SubPut, Goto, Back
  <2>5. ExitInv'
    BY <1>3 DEF TypeOK, ExitInv, ReleasePut, SubPut, Goto, Back
  <2>6. NoDanglingOps'
    BY <1>3 DEF TypeOK, SubInv, NoDanglingOps, ReleasePut, SubPut, Goto, Back
  <2> QED BY <2>1, <2>2, <2>3, <2>4, <2>5, <2>6
<1>4. ASSUME NEW m \in Mms, FreeSub(m)
      PROVE  IInv'
  <2>1. PcInv' /\ UsersCover'
    BY <1>4 DEF PcInv, UsersCover, Holders, Deferring, FreeSub
  <2>2. TypeOK'
    BY <1>4 DEF TypeOK, FreeSub
  <2>3. SubInv'
    BY <1>4 DEF SubInv, FreeSub
  <2>4. ExitInv'
    BY <1>4 DEF ExitInv, FreeSub
  <2>5. NoDanglingOps'
    BY <1>4 DEF NoDanglingOps, FreeSub
  <2> QED BY <2>1, <2>2, <2>3, <2>4, <2>5
<1>5. ASSUME NEW m \in Mms, ProcessExit(m)
      PROVE  IInv'
  <2>1. SubInv' /\ NoDanglingOps'
    BY <1>5 DEF SubInv, NoDanglingOps, ProcessExit, Goto
  <2>2. TypeOK'
    BY <1>5 DEF TypeOK, ProcessExit, Goto
  <2>3. PcInv'
    BY <1>5 DEF TypeOK, PcInv, ProcessExit, Goto
  <2>4. UsersCover'
    <3> SUFFICES ASSUME NEW n \in Mms PROVE Covered(n)'
      BY DEF UsersCover, Covered, References, Pend
    <3>1. Covered(n) /\ users[n] \in Nat /\ users'[n] \in Nat /\ users[n] <= users'[n]
      BY <1>5 DEF UsersCover, Covered, References, Pend, TypeOK, ProcessExit
    <3>2. Holders(n)' \subseteq Holders(n) /\ Deferring(n)' \subseteq Deferring(n)
      BY <1>5 DEF TypeOK, PcInv, Holders, Deferring, ProcessExit, Goto
    <3>3. n \in pending' => n \in pending
      BY <1>5 DEF ProcessExit
    <3> QED BY <3>1, <3>2, <3>3, CoverKept
  <2>5. ExitInv'
    BY <1>5 DEF ExitInv, ProcessExit, Goto
  <2> QED BY <2>1, <2>2, <2>3, <2>4, <2>5
<1>6. ASSUME NEW c \in Callers, NEW m \in Mms, Enter(c, m)
      PROVE  IInv'
  <2>1. SubInv' /\ NoDanglingOps'
    BY <1>6 DEF SubInv, NoDanglingOps, Enter, Goto, AddUsers
  <2>2. TypeOK'
    BY <1>6 DEF TypeOK, Enter, Goto, AddUsers
  <2>3. PcInv'
    BY <1>6 DEF TypeOK, PcInv, Enter, Goto, AddUsers
  <2>4. UsersCover'
    <3> SUFFICES ASSUME NEW n \in Mms PROVE Covered(n)'
      BY DEF UsersCover, Covered, References, Pend
    <3>1. Covered(n) /\ users[n] \in Nat /\ users'[n] \in Nat
      BY <1>6 DEF UsersCover, Covered, References, Pend, TypeOK, Callers, Enter, Goto, AddUsers
    <3>2. CASE n = m
      <4>1. Holders(n)' \subseteq Holders(n) \union {c}
        BY <1>6, <3>2 DEF TypeOK, PcInv, Holders, Enter, Goto, AddUsers
      <4>2. Deferring(n)' \subseteq Deferring(n)
        BY <1>6, <3>2 DEF TypeOK, PcInv, Deferring, Enter, Goto, AddUsers
      <4>3. Pend(n)' \in Nat /\ Pend(n)' <= Pend(n)
        BY <1>6, <3>2 DEF Pend, Enter, Goto, AddUsers
      <4>4. /\ Cardinality(Holders(n)') \in Nat /\ Cardinality(Deferring(n)') \in Nat
            /\ Cardinality(Holders(n)') <= Cardinality(Holders(n)) + 1
            /\ Cardinality(Deferring(n)') <= Cardinality(Deferring(n))
        BY <4>1, <4>2, HoldersFinite, SizeSteps
      <4>5. users[n] + 1 <= users'[n]
        BY <1>6, <3>1, <3>2 DEF TypeOK, Enter, Goto, AddUsers
      <4>6. References(n)' = Cardinality(Holders(n)') + Cardinality(Deferring(n)') + Pend(n)'
        BY DEF References
      <4> QED BY <3>1, <4>3, <4>4, <4>5, <4>6, ReferencesType DEF Covered, References
    <3>3. CASE ~(n = m)
      <4>1. users[n] <= users'[n]
        BY <1>6, <3>1, <3>3 DEF TypeOK, Enter, Goto, AddUsers
      <4>2. Holders(n)' \subseteq Holders(n) /\ Deferring(n)' \subseteq Deferring(n)
        BY <1>6, <3>3 DEF TypeOK, PcInv, Holders, Deferring, Enter, Goto, AddUsers
      <4>3. n \in pending' => n \in pending
        BY <1>6, <3>3 DEF Enter
      <4> QED BY <3>1, <4>1, <4>2, <4>3, CoverKept
    <3> QED BY <3>2, <3>3
  <2>5. ExitInv'
    BY <1>6 DEF ExitInv, Enter, Goto, AddUsers
  <2> QED BY <2>1, <2>2, <2>3, <2>4, <2>5
<1>7. ASSUME NEW c \in Callers, LockMiss(c)
      PROVE  IInv'
  <2>1. SubInv' /\ NoDanglingOps'
    BY <1>7 DEF SubInv, NoDanglingOps, LockMiss, Goto
  <2>2. TypeOK'
    BY <1>7 DEF TypeOK, LockMiss, Goto
  <2>3. PcInv'
    BY <1>7 DEF PcInv, LockMiss, Goto
  <2>4. UsersCover'
    <3> SUFFICES ASSUME NEW n \in Mms PROVE Covered(n)'
      BY DEF UsersCover, Covered, References, Pend
    <3>1. Covered(n) /\ users[n] \in Nat /\ users'[n] \in Nat /\ users[n] <= users'[n]
      BY <1>7 DEF UsersCover, Covered, References, Pend, TypeOK, LockMiss
    <3>2. Holders(n)' \subseteq Holders(n) /\ Deferring(n)' \subseteq Deferring(n)
      BY <1>7 DEF TypeOK, PcInv, Holders, Deferring, LockMiss, Goto
    <3>3. n \in pending' => n \in pending
      BY <1>7 DEF LockMiss
    <3> QED BY <3>1, <3>2, <3>3, CoverKept
  <2>5. ExitInv'
    BY <1>7 DEF ExitInv, LockMiss, Goto
  <2> QED BY <2>1, <2>2, <2>3, <2>4, <2>5
<1>8. ASSUME NEW c \in Callers, Lock(c)
      PROVE  IInv'
  <2>1. SubInv' /\ NoDanglingOps'
    BY <1>8 DEF SubInv, NoDanglingOps, Lock, Goto
  <2>2. TypeOK'
    BY <1>8 DEF TypeOK, Lock, Goto
  <2>3. PcInv'
    BY <1>8 DEF PcInv, Lock, Goto
  <2>4. UsersCover'
    <3> SUFFICES ASSUME NEW n \in Mms PROVE Covered(n)'
      BY DEF UsersCover, Covered, References, Pend
    <3>1. Covered(n) /\ users[n] \in Nat /\ users'[n] \in Nat /\ users[n] <= users'[n]
      BY <1>8 DEF UsersCover, Covered, References, Pend, TypeOK, Lock
    <3>2. Holders(n)' \subseteq Holders(n) /\ Deferring(n)' \subseteq Deferring(n)
      BY <1>8 DEF TypeOK, PcInv, Holders, Deferring, Lock, Goto
    <3>3. n \in pending' => n \in pending
      BY <1>8 DEF Lock
    <3> QED BY <3>1, <3>2, <3>3, CoverKept
  <2>5. ExitInv'
    BY <1>8 DEF ExitInv, Lock, Goto
  <2> QED BY <2>1, <2>2, <2>3, <2>4, <2>5
<1>9. ASSUME NEW c \in Callers, Defer(c)
      PROVE  IInv'
  <2>1. SubInv' /\ NoDanglingOps'
    BY <1>9 DEF SubInv, NoDanglingOps, Defer, Goto, AddUsers
  <2>2. TypeOK'
    BY <1>9 DEF TypeOK, PcInv, Defer, Goto, AddUsers
  <2>3. PcInv'
    BY <1>9 DEF PcInv, Defer, Goto, AddUsers
  <2>4. UsersCover'
    <3> SUFFICES ASSUME NEW n \in Mms PROVE Covered(n)'
      BY DEF UsersCover, Covered, References, Pend
    <3>1. Covered(n) /\ users[n] \in Nat /\ users'[n] \in Nat
      BY <1>9 DEF UsersCover, Covered, References, Pend, TypeOK, Callers, Defer, Goto, AddUsers
    <3>2. CASE n = on[c]
      <4>1. Holders(n)' \subseteq Holders(n)
        BY <1>9, <3>2 DEF TypeOK, PcInv, Holders, Defer, Goto, AddUsers
      <4>2. Deferring(n)' \subseteq Deferring(n) \union {c}
        BY <1>9, <3>2 DEF TypeOK, PcInv, Deferring, Defer, Goto, AddUsers
      <4>3. Pend(n)' \in Nat /\ Pend(n)' <= Pend(n)
        BY <1>9, <3>2 DEF Pend, Defer, Goto, AddUsers
      <4>4. /\ Cardinality(Holders(n)') \in Nat /\ Cardinality(Deferring(n)') \in Nat
            /\ Cardinality(Holders(n)') <= Cardinality(Holders(n))
            /\ Cardinality(Deferring(n)') <= Cardinality(Deferring(n)) + 1
        BY <4>1, <4>2, HoldersFinite, SizeSteps
      <4>5. users[n] + 1 <= users'[n]
        BY <1>9, <3>1, <3>2 DEF TypeOK, Defer, Goto, AddUsers
      <4>6. References(n)' = Cardinality(Holders(n)') + Cardinality(Deferring(n)') + Pend(n)'
        BY DEF References
      <4> QED BY <3>1, <4>3, <4>4, <4>5, <4>6, ReferencesType DEF Covered, References
    <3>3. CASE ~(n = on[c])
      <4>1. users[n] <= users'[n]
        BY <1>9, <3>1, <3>3 DEF TypeOK, Defer, Goto, AddUsers
      <4>2. Holders(n)' \subseteq Holders(n) /\ Deferring(n)' \subseteq Deferring(n)
        BY <1>9, <3>3 DEF TypeOK, PcInv, Holders, Deferring, Defer, Goto, AddUsers
      <4>3. n \in pending' => n \in pending
        BY <1>9, <3>3 DEF Defer
      <4> QED BY <3>1, <4>1, <4>2, <4>3, CoverKept
    <3> QED BY <3>2, <3>3
  <2>5. ExitInv'
    BY <1>9 DEF ExitInv, Defer, Goto, AddUsers
  <2> QED BY <2>1, <2>2, <2>3, <2>4, <2>5
<1>10. ASSUME NEW c \in Callers, DeferStore(c)
      PROVE  IInv'
  <2>1. SubInv' /\ NoDanglingOps'
    BY <1>10 DEF SubInv, NoDanglingOps, DeferStore, Put, Goto
  <2>2. TypeOK'
    BY <1>10 DEF TypeOK, PcInv, DeferStore, Put, Goto
  <2>3. PcInv'
    BY <1>10 DEF PcInv, DeferStore, Put, Goto
  <2>4. UsersCover'
    <3> SUFFICES ASSUME NEW n \in Mms PROVE Covered(n)'
      BY DEF UsersCover, Covered, References, Pend
    <3>1. Covered(n) /\ users[n] \in Nat /\ users'[n] \in Nat
      BY <1>10 DEF UsersCover, Covered, References, Pend, TypeOK, Callers, DeferStore, Put, Goto
    <3>2. CASE n = on[c]
      <4>1. Holders(n)' \subseteq Holders(n)
        BY <1>10, <3>2 DEF TypeOK, PcInv, Holders, DeferStore, Put, Goto
      <4>2. c \in Deferring(n) /\ Deferring(n)' \subseteq Deferring(n) \ {c}
        BY <1>10, <3>2 DEF TypeOK, PcInv, Deferring, DeferStore, Put, Goto
      <4>3. Pend(n)' \in Nat /\ Pend(n)' <= Pend(n) + 1
        BY <1>10, <3>2 DEF Pend, DeferStore, Put, Goto
      <4>4. /\ Cardinality(Holders(n)') \in Nat /\ Cardinality(Deferring(n)') \in Nat
            /\ Cardinality(Holders(n)') <= Cardinality(Holders(n))
            /\ Cardinality(Deferring(n)') <= Cardinality(Deferring(n)) - 1
        <5>1. /\ Cardinality(Holders(n)') \in Nat
              /\ Cardinality(Holders(n)') <= Cardinality(Holders(n))
          BY <4>1, HoldersFinite, SizeSteps
        <5>2. /\ Cardinality(Deferring(n)') \in Nat
              /\ Cardinality(Deferring(n)') <= Cardinality(Deferring(n)) - 1
          BY <4>2, HoldersFinite, SizeSteps
        <5> QED BY <5>1, <5>2
      <4>5. users[n] <= users'[n]
        BY <1>10, <3>1, <3>2 DEF TypeOK, DeferStore, Put, Goto
      <4>6. References(n)' = Cardinality(Holders(n)') + Cardinality(Deferring(n)') + Pend(n)'
        BY DEF References
      <4> QED BY <3>1, <4>3, <4>4, <4>5, <4>6, ReferencesType DEF Covered, References
    <3>3. CASE ~(n = on[c])
      <4>1. users[n] <= users'[n]
        BY <1>10, <3>1, <3>3 DEF TypeOK, DeferStore, Put, Goto
      <4>2. Holders(n)' \subseteq Holders(n) /\ Deferring(n)' \subseteq Deferring(n)
        BY <1>10, <3>3 DEF TypeOK, PcInv, Holders, Deferring, DeferStore, Put, Goto
      <4>3. n \in pending' => n \in pending
        BY <1>10, <3>3 DEF DeferStore, Put
      <4> QED BY <3>1, <4>1, <4>2, <4>3, CoverKept
    <3> QED BY <3>2, <3>3
  <2>5. ExitInv'
    BY <1>10 DEF ExitInv, DeferStore, Put, Goto
  <2> QED BY <2>1, <2>2, <2>3, <2>4, <2>5
<1>11. ASSUME NEW c \in Callers, DeferQueue(c)
      PROVE  IInv'
  <2>1. SubInv' /\ NoDanglingOps'
    BY <1>11 DEF SubInv, NoDanglingOps, DeferQueue, Goto
  <2>2. TypeOK'
    BY <1>11 DEF TypeOK, DeferQueue, Goto
  <2>3. PcInv'
    BY <1>11 DEF PcInv, DeferQueue, Goto
  <2>4. UsersCover'
    <3> SUFFICES ASSUME NEW n \in Mms PROVE Covered(n)'
      BY DEF UsersCover, Covered, References, Pend
    <3>1. Covered(n) /\ users[n] \in Nat /\ users'[n] \in Nat /\ users[n] <= users'[n]
      BY <1>11 DEF UsersCover, Covered, References, Pend, TypeOK, DeferQueue
    <3>2. Holders(n)' \subseteq Holders(n) /\ Deferring(n)' \subseteq Deferring(n)
      BY <1>11 DEF TypeOK, PcInv, Holders, Deferring, DeferQueue, Goto
    <3>3. n \in pending' => n \in pending
      BY <1>11 DEF DeferQueue
    <3> QED BY <3>1, <3>2, <3>3, CoverKept
  <2>5. ExitInv'
    BY <1>11 DEF ExitInv, DeferQueue, Goto
  <2> QED BY <2>1, <2>2, <2>3, <2>4, <2>5
<1>12. ASSUME NEW c \in Callers, Unlock(c)
      PROVE  IInv'
  <2>1. PcInv' /\ UsersCover' /\ SubInv' /\ ExitInv' /\ NoDanglingOps'
    BY <1>12 DEF PcInv, UsersCover, Holders, Deferring, SubInv, ExitInv, NoDanglingOps, Unlock
  <2>2. TypeOK'
    BY <1>12 DEF TypeOK, Unlock
  <2> QED BY <2>1, <2>2
<1>13. ASSUME NEW c \in Callers, Leave(c)
      PROVE  IInv'
  <2>1. SubInv' /\ NoDanglingOps'
    BY <1>13 DEF SubInv, NoDanglingOps, Leave, Goto
  <2>2. TypeOK'
    BY <1>13 DEF TypeOK, Leave, Goto
  <2>3. PcInv'
    BY <1>13 DEF PcInv, Leave, Goto
  <2>4. UsersCover'
    <3> SUFFICES ASSUME NEW n \in Mms PROVE Covered(n)'
      BY DEF UsersCover, Covered, References, Pend
    <3>1. Covered(n) /\ users[n] \in Nat /\ users'[n] \in Nat /\ users[n] <= users'[n]
      BY <1>13 DEF UsersCover, Covered, References, Pend, TypeOK, Leave
    <3>2. Holders(n)' \subseteq Holders(n) /\ Deferring(n)' \subseteq Deferring(n)
      BY <1>13 DEF TypeOK, PcInv, Holders, Deferring, Leave, Goto
    <3>3. n \in pending' => n \in pending
      BY <1>13 DEF Leave
    <3> QED BY <3>1, <3>2, <3>3, CoverKept
  <2>5. ExitInv'
    BY <1>13 DEF ExitInv, Leave, Goto
  <2> QED BY <2>1, <2>2, <2>3, <2>4, <2>5
<1>14. ASSUME NEW w \in Workers, StartWork(w)
      PROVE  IInv'
  <2>1. SubInv' /\ NoDanglingOps'
    BY <1>14 DEF SubInv, NoDanglingOps, StartWork, Goto
  <2>2. TypeOK'
    BY <1>14 DEF TypeOK, StartWork, Goto
  <2>3. PcInv'
    BY <1>14 DEF PcInv, StartWork, Goto
  <2>4. UsersCover'
    <3> SUFFICES ASSUME NEW n \in Mms PROVE Covered(n)'
      BY DEF UsersCover, Covered, References, Pend
    <3>1. Covered(n) /\ users[n] \in Nat /\ users'[n] \in Nat /\ users[n] <= users'[n]
      BY <1>14 DEF UsersCover, Covered, References, Pend, TypeOK, StartWork
    <3>2. Holders(n)' \subseteq Holders(n) /\ Deferring(n)' \subseteq Deferring(n)
      BY <1>14 DEF TypeOK, PcInv, Holders, Deferring, StartWork, Goto
    <3>3. n \in pending' => n \in pending
      BY <1>14 DEF StartWork
    <3> QED BY <3>1, <3>2, <3>3, CoverKept
  <2>5. ExitInv'
    BY <1>14 DEF ExitInv, StartWork, Goto
  <2> QED BY <2>1, <2>2, <2>3, <2>4, <2>5
<1>15. ASSUME NEW w \in Workers, Collect(w)
      PROVE  IInv'
  <2>1. SubInv' /\ NoDanglingOps'
    BY <1>15 DEF SubInv, NoDanglingOps, Collect, Goto
  <2>2. TypeOK'
    BY <1>15 DEF TypeOK, Collect, Goto
  <2>3. PcInv'
    BY <1>15 DEF TypeOK, PcInv, Collect, Goto
  <2>4. UsersCover'
    <3> SUFFICES ASSUME NEW n \in Mms PROVE Covered(n)'
      BY DEF UsersCover, Covered, References, Pend
    <3>1. Covered(n) /\ users[n] \in Nat /\ users'[n] \in Nat
      BY <1>15 DEF UsersCover, Covered, References, Pend, TypeOK, Callers, Collect, Goto
    <3>2. CASE n \in pending \ pending'
      <4>1. Holders(n)' \subseteq Holders(n) \union {w}
        BY <1>15, <3>2 DEF TypeOK, PcInv, Holders, Collect, Goto
      <4>2. Deferring(n)' \subseteq Deferring(n)
        BY <1>15, <3>2 DEF TypeOK, PcInv, Deferring, Collect, Goto
      <4>3. Pend(n)' \in Nat /\ Pend(n)' <= Pend(n) - 1
        BY <1>15, <3>2 DEF Pend, Collect, Goto
      <4>4. /\ Cardinality(Holders(n)') \in Nat /\ Cardinality(Deferring(n)') \in Nat
            /\ Cardinality(Holders(n)') <= Cardinality(Holders(n)) + 1
            /\ Cardinality(Deferring(n)') <= Cardinality(Deferring(n))
        BY <4>1, <4>2, HoldersFinite, SizeSteps
      <4>5. users[n] <= users'[n]
        BY <1>15, <3>1, <3>2 DEF TypeOK, Collect, Goto
      <4>6. References(n)' = Cardinality(Holders(n)') + Cardinality(Deferring(n)') + Pend(n)'
        BY DEF References
      <4> QED BY <3>1, <4>3, <4>4, <4>5, <4>6, ReferencesType DEF Covered, References
    <3>3. CASE ~(n \in pending \ pending')
      <4>1. users[n] <= users'[n]
        BY <1>15, <3>1, <3>3 DEF TypeOK, Collect, Goto
      <4>2. Holders(n)' \subseteq Holders(n) /\ Deferring(n)' \subseteq Deferring(n)
        BY <1>15, <3>3 DEF TypeOK, PcInv, Holders, Deferring, Collect, Goto
      <4>3. n \in pending' => n \in pending
        BY <1>15, <3>3 DEF Collect
      <4> QED BY <3>1, <4>1, <4>2, <4>3, CoverKept
    <3> QED BY <3>2, <3>3
  <2>5. ExitInv'
    BY <1>15 DEF ExitInv, Collect, Goto
  <2> QED BY <2>1, <2>2, <2>3, <2>4, <2>5
<1>16. ASSUME NEW w \in Workers, NEW m \in Mms, Register(w, m)
      PROVE  IInv'
  <2>1. TypeOK'
    BY <1>16 DEF TypeOK, Register, Goto
  <2>2. PcInv'
    BY <1>16 DEF TypeOK, PcInv, Register, Goto
  <2>3. UsersCover'
    <3> SUFFICES ASSUME NEW n \in Mms PROVE Covered(n)'
      BY DEF UsersCover, Covered, References, Pend
    <3>1. Covered(n) /\ users[n] \in Nat /\ users'[n] \in Nat /\ users[n] <= users'[n]
      BY <1>16 DEF UsersCover, Covered, References, Pend, TypeOK, Register
    <3>2. Holders(n)' \subseteq Holders(n) /\ Deferring(n)' \subseteq Deferring(n)
      BY <1>16 DEF TypeOK, PcInv, Holders, Deferring, Register, Goto
    <3>3. n \in pending' => n \in pending
      BY <1>16 DEF Register
    <3> QED BY <3>1, <3>2, <3>3, CoverKept
  <2>4. SubInv'
    BY <1>16 DEF TypeOK, SubInv, Register, Goto
  <2>5. ExitInv'
    BY <1>16 DEF ExitInv, Register, Goto
  <2>6. NoDanglingOps'
    BY <1>16 DEF TypeOK, PcInv, ExitInv, NoDanglingOps, Register, Goto
  <2> QED BY <2>1, <2>2, <2>3, <2>4, <2>5, <2>6
<1>17. ASSUME NEW w \in Workers, NEW m \in Mms, Requeue(w, m)
      PROVE  IInv'
  <2>1. SubInv' /\ NoDanglingOps'
    BY <1>17 DEF SubInv, NoDanglingOps, Requeue, Put, Goto
  <2>2. TypeOK'
    BY <1>17 DEF TypeOK, Requeue, Put, Goto
  <2>3. PcInv'
    BY <1>17 DEF PcInv, Requeue, Put, Goto
  <2>4. UsersCover'
    <3> SUFFICES ASSUME NEW n \in Mms PROVE Covered(n)'
      BY DEF UsersCover, Covered, References, Pend
    <3>1. Covered(n) /\ users[n] \in Nat /\ users'[n] \in Nat
      BY <1>17 DEF UsersCover, Covered, References, Pend, TypeOK, Callers, Requeue, Put, Goto
    <3>2. CASE n = m
      <4>1. w \in Holders(n) /\ Holders(n)' \subseteq Holders(n) \ {w}
        BY <1>17, <3>2 DEF TypeOK, PcInv, Holders, Requeue, Put, Goto
      <4>2. Deferring(n)' \subseteq Deferring(n)
        BY <1>17, <3>2 DEF TypeOK, PcInv, Deferring, Requeue, Put, Goto
      <4>3. Pend(n)' \in Nat /\ Pend(n)' <= Pend(n) + 1
        BY <1>17, <3>2 DEF Pend, Requeue, Put, Goto
      <4>4. /\ Cardinality(Holders(n)') \in Nat /\ Cardinality(Deferring(n)') \in Nat
            /\ Cardinality(Holders(n)') <= Cardinality(Holders(n)) - 1
            /\ Cardinality(Deferring(n)') <= Cardinality(Deferring(n))
        BY <4>1, <4>2, HoldersFinite, SizeSteps
      <4>5. users[n] <= users'[n]
        BY <1>17, <3>1, <3>2 DEF TypeOK, Requeue, Put, Goto
      <4>6. References(n)' = Cardinality(Holders(n)') + Cardinality(Deferring(n)') + Pend(n)'
        BY DEF References
      <4> QED BY <3>1, <4>3, <4>4, <4>5, <4>6, ReferencesType DEF Covered, References
    <3>3. CASE ~(n = m)
      <4>1. users[n] <= users'[n]
        BY <1>17, <3>1, <3>3 DEF TypeOK, Requeue, Put, Goto
      <4>2. Holders(n)' \subseteq Holders(n) /\ Deferring(n)' \subseteq Deferring(n)
        BY <1>17, <3>3 DEF TypeOK, PcInv, Holders, Deferring, Requeue, Put, Goto
      <4>3. n \in pending' => n \in pending
        BY <1>17, <3>3 DEF Requeue, Put
      <4> QED BY <3>1, <4>1, <4>2, <4>3, CoverKept
    <3> QED BY <3>2, <3>3
  <2>5. ExitInv'
    BY <1>17 DEF ExitInv, Requeue, Put, Goto
  <2> QED BY <2>1, <2>2, <2>3, <2>4, <2>5
<1>18. ASSUME NEW w \in Workers, Arm(w)
      PROVE  IInv'
  <2>1. SubInv' /\ NoDanglingOps'
    BY <1>18 DEF SubInv, NoDanglingOps, Arm, Goto
  <2>2. TypeOK'
    BY <1>18 DEF TypeOK, Arm, Goto
  <2>3. PcInv'
    BY <1>18 DEF PcInv, Arm, Goto
  <2>4. UsersCover'
    <3> SUFFICES ASSUME NEW n \in Mms PROVE Covered(n)'
      BY DEF UsersCover, Covered, References, Pend
    <3>1. Covered(n) /\ users[n] \in Nat /\ users'[n] \in Nat /\ users[n] <= users'[n]
      BY <1>18 DEF UsersCover, Covered, References, Pend, TypeOK, Arm
    <3>2. Holders(n)' \subseteq Holders(n) /\ Deferring(n)' \subseteq Deferring(n)
      BY <1>18 DEF TypeOK, PcInv, Holders, Deferring, Arm, Goto
    <3>3. n \in pending' => n \in pending
      BY <1>18 DEF Arm
    <3> QED BY <3>1, <3>2, <3>3, CoverKept
  <2>5. ExitInv'
    BY <1>18 DEF ExitInv, Arm, Goto
  <2> QED BY <2>1, <2>2, <2>3, <2>4, <2>5
<1>19. ASSUME NEW w \in Workers, EndWork(w)
      PROVE  IInv'
  <2>1. SubInv' /\ NoDanglingOps'
    BY <1>19 DEF SubInv, NoDanglingOps, EndWork, Goto
  <2>2. TypeOK'
    BY <1>19 DEF TypeOK, EndWork, Goto
  <2>3. PcInv'
    BY <1>19 DEF PcInv, EndWork, Goto
  <2>4. UsersCover'
    <3> SUFFICES ASSUME NEW n \in Mms PROVE Covered(n)'
      BY DEF UsersCover, Covered, References, Pend
    <3>1. Covered(n) /\ users[n] \in Nat /\ users'[n] \in Nat /\ users[n] <= users'[n]
      BY <1>19 DEF UsersCover, Covered, References, Pend, TypeOK, EndWork
    <3>2. Holders(n)' \subseteq Holders(n) /\ Deferring(n)' \subseteq Deferring(n)
      BY <1>19 DEF TypeOK, PcInv, Holders, Deferring, EndWork, Goto
    <3>3. n \in pending' => n \in pending
      BY <1>19 DEF EndWork
    <3> QED BY <3>1, <3>2, <3>3, CoverKept
  <2>5. ExitInv'
    BY <1>19 DEF ExitInv, EndWork, Goto
  <2> QED BY <2>1, <2>2, <2>3, <2>4, <2>5
<1>20. ASSUME TimerFires
      PROVE  IInv'
  <2>1. PcInv' /\ UsersCover' /\ SubInv' /\ NoDanglingOps'
    BY <1>20 DEF PcInv, UsersCover, Holders, Deferring, SubInv, NoDanglingOps, TimerFires
  <2>2. TypeOK'
    BY <1>20 DEF TypeOK, TimerFires
  <2>3. ExitInv'
    BY <1>20 DEF ExitInv, TimerFires
  <2> QED BY <2>1, <2>2, <2>3
<1>21. ASSUME UnloadStart
      PROVE  IInv'
  <2>1. PcInv' /\ SubInv'
    BY <1>21 DEF PcInv, SubInv, UnloadStart
  <2>2. TypeOK'
    BY <1>21 DEF TypeOK, UnloadStart
  <2>3. UsersCover'
    <3> SUFFICES ASSUME NEW n \in Mms PROVE Covered(n)'
      BY DEF UsersCover, Covered, References, Pend
    <3>1. Covered(n) /\ users[n] \in Nat /\ users'[n] \in Nat /\ users[n] <= users'[n]
      BY <1>21 DEF UsersCover, Covered, References, Pend, TypeOK, UnloadStart
    <3>2. Holders(n)' \subseteq Holders(n) /\ Deferring(n)' \subseteq Deferring(n)
      BY <1>21 DEF TypeOK, PcInv, Holders, Deferring, UnloadStart
    <3>3. n \in pending' => n \in pending
      BY <1>21 DEF UnloadStart
    <3> QED BY <3>1, <3>2, <3>3, CoverKept
  <2>4. ExitInv'
    BY <1>21 DEF ExitInv, UnloadStart
  <2>5. NoDanglingOps'
    BY <1>21 DEF NoDanglingOps, UnloadStart
  <2> QED BY <2>1, <2>2, <2>3, <2>4, <2>5
<1>22. ASSUME UnloadDrained
      PROVE  IInv'
  <2>1. PcInv' /\ SubInv'
    BY <1>22 DEF PcInv, SubInv, UnloadDrained
  <2>2. TypeOK'
    BY <1>22 DEF TypeOK, UnloadDrained
  <2>3. UsersCover'
    <3> SUFFICES ASSUME NEW n \in Mms PROVE Covered(n)'
      BY DEF UsersCover, Covered, References, Pend
    <3>1. Covered(n) /\ users[n] \in Nat /\ users'[n] \in Nat /\ users[n] <= users'[n]
      BY <1>22 DEF UsersCover, Covered, References, Pend, TypeOK, UnloadDrained
    <3>2. Holders(n)' \subseteq Holders(n) /\ Deferring(n)' \subseteq Deferring(n)
      BY <1>22 DEF TypeOK, PcInv, Holders, Deferring, UnloadDrained
    <3>3. n \in pending' => n \in pending
      BY <1>22 DEF UnloadDrained
    <3> QED BY <3>1, <3>2, <3>3, CoverKept
  <2>4. ExitInv'
    BY <1>22 DEF ExitInv, UnloadDrained
  <2>5. NoDanglingOps'
    BY <1>22 DEF NoDanglingOps, UnloadDrained
  <2> QED BY <2>1, <2>2, <2>3, <2>4, <2>5
<1>23. ASSUME NEW m \in Mms, UnloadPick(m)
      PROVE  IInv'
  <2>1. SubInv' /\ NoDanglingOps'
    BY <1>23 DEF SubInv, NoDanglingOps, UnloadPick, Pick, Goto
  <2>2. TypeOK'
    BY <1>23 DEF TypeOK, UnloadPick, Pick, Goto
  <2>3. PcInv'
    BY <1>23 DEF TypeOK, PcInv, UnloadPick, Pick, Goto
  <2>4. UsersCover'
    <3> SUFFICES ASSUME NEW n \in Mms PROVE Covered(n)'
      BY DEF UsersCover, Covered, References, Pend
    <3>1. Covered(n) /\ users[n] \in Nat /\ users'[n] \in Nat /\ users[n] <= users'[n]
      BY <1>23 DEF UsersCover, Covered, References, Pend, TypeOK, UnloadPick, Pick
    <3>2. Holders(n)' \subseteq Holders(n) /\ Deferring(n)' \subseteq Deferring(n)
      BY <1>23 DEF TypeOK, PcInv, Holders, Deferring, UnloadPick, Pick, Goto
    <3>3. n \in pending' => n \in pending
      BY <1>23 DEF UnloadPick, Pick
    <3> QED BY <3>1, <3>2, <3>3, CoverKept
  <2>5. ExitInv'
    BY <1>23 DEF TypeOK, ExitInv, UnloadPick, Pick, Goto
  <2> QED BY <2>1, <2>2, <2>3, <2>4, <2>5
<1>24. ASSUME UnloadPut
      PROVE  IInv'
  <2>1. TypeOK'
    BY <1>24 DEF TypeOK, UnloadPut, SubPut
  <2>2. PcInv'
    BY <1>24 DEF TypeOK, PcInv, UnloadPut, SubPut
  <2>3. UsersCover'
    <3> SUFFICES ASSUME NEW n \in Mms PROVE Covered(n)'
      BY DEF UsersCover, Covered, References, Pend
    <3>1. Covered(n) /\ users[n] \in Nat /\ users'[n] \in Nat /\ users[n] <= users'[n]
      BY <1>24 DEF UsersCover, Covered, References, Pend, TypeOK, UnloadPut
    <3>2. Holders(n)' \subseteq Holders(n) /\ Deferring(n)' \subseteq Deferring(n)
      BY <1>24 DEF TypeOK, PcInv, Holders, Deferring, UnloadPut
    <3>3. n \in pending' => n \in pending
      BY <1>24 DEF UnloadPut
    <3> QED BY <3>1, <3>2, <3>3, CoverKept
  <2>4. SubInv'
    BY <1>24 DEF TypeOK, SubInv, UnloadPut, SubPut
  <2>5. ExitInv'
    BY <1>24 DEF TypeOK, ExitInv, UnloadPut, SubPut
  <2>6. NoDanglingOps'
    BY <1>24 DEF TypeOK, SubInv, NoDanglingOps, UnloadPut, SubPut
  <2> QED BY <2>1, <2>2, <2>3, <2>4, <2>5, <2>6
<1>25. ASSUME UnloadNext
      PROVE  IInv'
  <2>1. SubInv' /\ NoDanglingOps'
    BY <1>25 DEF SubInv, NoDanglingOps, UnloadNext, Goto
  <2>2. TypeOK'
    BY <1>25 DEF TypeOK, UnloadNext, Goto
  <2>3. PcInv'
    BY <1>25 DEF PcInv, UnloadNext, Goto
  <2>4. UsersCover'
    <3> SUFFICES ASSUME NEW n \in Mms PROVE Covered(n)'
      BY DEF UsersCover, Covered, References, Pend
    <3>1. Covered(n) /\ users[n] \in Nat /\ users'[n] \in Nat /\ users[n] <= users'[n]
      BY <1>25 DEF UsersCover, Covered, References, Pend, TypeOK, UnloadNext
    <3>2. Holders(n)' \subseteq Holders(n) /\ Deferring(n)' \subseteq Deferring(n)
      BY <1>25 DEF TypeOK, PcInv, Holders, Deferring, UnloadNext, Goto
    <3>3. n \in pending' => n \in pending
      BY <1>25 DEF UnloadNext
    <3> QED BY <3>1, <3>2, <3>3, CoverKept
  <2>5. ExitInv'
    BY <1>25 DEF TypeOK, SubInv, ExitInv, UnloadNext, Goto
  <2> QED BY <2>1, <2>2, <2>3, <2>4, <2>5
<1>26. ASSUME UnloadDone
      PROVE  IInv'
  <2>1. PcInv' /\ UsersCover' /\ SubInv'
    BY <1>26 DEF PcInv, UsersCover, Holders, Deferring, SubInv, UnloadDone
  <2>2. TypeOK'
    BY <1>26 DEF TypeOK, UnloadDone
  <2>3. ExitInv'
    BY <1>26 DEF ExitInv, UnloadDone
  <2>4. NoDanglingOps'
    BY <1>26 DEF TypeOK, PcInv, ExitInv, NoDanglingOps, UnloadDone
  <2> QED BY <2>1, <2>2, <2>3, <2>4
<1>27. ASSUME UNCHANGED vars
      PROVE  IInv'
  <2>1. TypeOK' /\ PcInv' /\ UsersCover' /\ SubInv' /\ ExitInv' /\ NoDanglingOps'
    BY <1>27 DEF TypeOK, PcInv, UsersCover, Holders, Deferring, SubInv, ExitInv, NoDanglingOps,
      vars
  <2> QED BY <2>1
<1> QED BY <1>1, <1>2, <1>3, <1>4, <1>5, <1>6, <1>7, <1>8, <1>9, <1>10, <1>11, <1>12, <1>13,
  <1>14, <1>15, <1>16, <1>17, <1>18, <1>19, <1>20, <1>21, <1>22, <1>23, <1>24,
  <1>25, <1>26, <1>27
  DEF Next, Call, Run, Unload

\* Without exits during the unload nobody else puts a notifier then.
LEMMA StepQuietInv == "late" \notin Env /\ IInv /\ QuietInv /\ [Next]_vars => QuietInv'
<1> SUFFICES ASSUME "late" \notin Env, IInv, QuietInv, [Next]_vars PROVE QuietInv'
  OBVIOUS
<1> USE ActorFacts, BoundAssumption DEF IInv, mms, subs, work, unl
<1>1. CASE UNCHANGED <<wq, pc, on, left, subUsers>>
  BY <1>1 DEF QuietInv
<1>2. ASSUME NEW x \in Actors, MmPut(x)
      PROVE  QuietInv'
  BY <1>2 DEF QuietInv, MmPut, Goto, Back, AddUsers
<1>3. ASSUME NEW x \in Actors, Release(x)
      PROVE  QuietInv'
  BY <1>3 DEF QuietInv, Release, Goto, Back
<1>4. ASSUME NEW x \in Actors, ReleasePut(x)
      PROVE  QuietInv'
  BY <1>4 DEF TypeOK, PcInv, ExitInv, QuietInv, ReleasePut, SubPut, Goto, Back
<1>5. ASSUME NEW m \in Mms, ProcessExit(m)
      PROVE  QuietInv'
  BY <1>5 DEF QuietInv, ProcessExit, Goto
<1>6. ASSUME NEW c \in Callers, NEW m \in Mms, Enter(c, m)
      PROVE  QuietInv'
  BY <1>6 DEF QuietInv, Enter, Goto, AddUsers
<1>7. ASSUME NEW c \in Callers, LockMiss(c)
      PROVE  QuietInv'
  BY <1>7 DEF QuietInv, LockMiss, Goto
<1>8. ASSUME NEW c \in Callers, Lock(c)
      PROVE  QuietInv'
  BY <1>8 DEF QuietInv, Lock, Goto
<1>9. ASSUME NEW c \in Callers, Defer(c)
      PROVE  QuietInv'
  BY <1>9 DEF QuietInv, Defer, Goto, AddUsers
<1>10. ASSUME NEW c \in Callers, DeferStore(c)
      PROVE  QuietInv'
  BY <1>10 DEF QuietInv, DeferStore, Put, Goto
<1>11. ASSUME NEW c \in Callers, DeferQueue(c)
      PROVE  QuietInv'
  BY <1>11 DEF QuietInv, DeferQueue, Goto
<1>12. ASSUME NEW c \in Callers, Leave(c)
      PROVE  QuietInv'
  BY <1>12 DEF QuietInv, Leave, Goto
<1>13. ASSUME NEW w \in Workers, StartWork(w)
      PROVE  QuietInv'
  BY <1>13 DEF QuietInv, StartWork, Goto
<1>14. ASSUME NEW w \in Workers, Collect(w)
      PROVE  QuietInv'
  BY <1>14 DEF QuietInv, Collect, Goto
<1>15. ASSUME NEW w \in Workers, NEW m \in Mms, Register(w, m)
      PROVE  QuietInv'
  BY <1>15 DEF TypeOK, PcInv, ExitInv, QuietInv, Register, Goto
<1>16. ASSUME NEW w \in Workers, NEW m \in Mms, Requeue(w, m)
      PROVE  QuietInv'
  BY <1>16 DEF QuietInv, Requeue, Put, Goto
<1>17. ASSUME NEW w \in Workers, Arm(w)
      PROVE  QuietInv'
  BY <1>17 DEF QuietInv, Arm, Goto
<1>18. ASSUME NEW w \in Workers, EndWork(w)
      PROVE  QuietInv'
  BY <1>18 DEF QuietInv, EndWork, Goto
<1>19. ASSUME UnloadStart
      PROVE  QuietInv'
  BY <1>19 DEF QuietInv, UnloadStart
<1>20. ASSUME UnloadDrained
      PROVE  QuietInv'
  BY <1>20 DEF QuietInv, UnloadDrained
<1>21. ASSUME NEW m \in Mms, UnloadPick(m)
      PROVE  QuietInv'
  BY <1>21 DEF TypeOK, QuietInv, UnloadPick, Pick, Goto
<1>22. ASSUME UnloadPut
      PROVE  QuietInv'
  BY <1>22 DEF TypeOK, PcInv, SubInv, ExitInv, QuietInv, UnloadPut, SubPut
<1>23. ASSUME UnloadNext
      PROVE  QuietInv'
  BY <1>23 DEF QuietInv, UnloadNext, Goto
<1>24. ASSUME UnloadDone
      PROVE  QuietInv'
  BY <1>24 DEF QuietInv, UnloadDone
<1> QED BY <1>1, <1>2, <1>3, <1>4, <1>5, <1>6, <1>7, <1>8, <1>9, <1>10, <1>11, <1>12, <1>13,
  <1>14, <1>15, <1>16, <1>17, <1>18, <1>19, <1>20, <1>21, <1>22, <1>23, <1>24
  DEF Next, Call, Run, Unload, vars, mms, subs, work, unl, FreeSub, Unlock,
      TimerFires

\* Every variable keeps its type; in particular mm_users and the number of
\* registrations of a notifier never go below zero, whoever puts them.
THEOREM TypeCorrect == Spec => []TypeOK
<1>1. IInv => TypeOK
  BY DEF IInv
<1> QED BY <1>1, InitIInv, StepIInv, PTL DEF Spec

\* mm_users is at least the number of those who will still follow a pointer
\* to the mm: minimem_mmu_register_deferred, the pending set and the work items
\* take and drop their references in pairs.
THEOREM ReferencesCover == Spec => []UsersCover
<1>1. IInv => UsersCover
  BY DEF IInv
<1> QED BY <1>1, InitIInv, StepIInv, PTL DEF Spec

\* minimem_mmu_exit leaves no notifier behind, however often each was
\* registered and whichever processes exit meanwhile.
THEOREM NothingDangles == Spec => []NoDanglingOps
<1>1. IInv => NoDanglingOps
  BY DEF IInv
<1> QED BY <1>1, InitIInv, StepIInv, PTL DEF Spec

\* minimem_mmu_exit never puts a notifier that was freed, provided that no
\* process exits while the module is removed.
THEOREM PutsWhatIsThere ==
  ASSUME "late" \notin Env
  PROVE  Spec => [](pc[Unloader] = "puts" /\ left > 0 => sub[on[Unloader]] # "freed")
<1> DEFINE There == pc[Unloader] = "puts" /\ left > 0 => sub[on[Unloader]] # "freed"
<1>1. Init => QuietInv
  BY ActorFacts DEF Init, QuietInv
<1>2. IInv /\ QuietInv => There
  BY DEF IInv, PcInv, SubInv, QuietInv
<1> QED BY <1>1, <1>2, InitIInv, StepIInv, StepQuietInv, PTL DEF Spec
================================================================================
