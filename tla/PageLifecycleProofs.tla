-------------------------- MODULE PageLifecycleProofs --------------------------
(***************************************************************************)
(* Proofs about PageLifecycle, for any finite sets of address spaces,      *)
(* addresses and actors, and any pages, handles and contents.  In every    *)
(* environment what is counted is right, whatever the applications, the    *)
(* compressors, the shrinker, the tests and the unload do to each other    *)
(* (the first part).  For one process with one thread it is shown who owns *)
(* what is compressed, and that nothing is lost (the second part).         *)
(*                                                                         *)
(* RssExact and RefsCoverUsers are not inductive: it has to be known which *)
(* page, address and object each actor has in its locals at each point of  *)
(* the code (LocalsInv), that a zap finds under the lock the marker it     *)
(* looked up (ZapInv), and that an exit is alone in its address space      *)
(* (ExitInv).  References are counted as mappings plus holders (RefsInv),  *)
(* a sum that each step changes by one.                                    *)
(***************************************************************************)
EXTENDS PageLifecycle, FiniteSetTheorems, TLAPS

MemType == /\ ram \in [Pages -> Data \union {Junk}]
           /\ mem \in [Mms -> [Addrs -> Data \union {None}]]
           /\ tlb \subseteq Mms \X Addrs \X Pages
PteType == pte \in [Mms -> [Addrs -> Ptes]]
RefsType == refs \in [Pages -> Nat]
RssType == rss \in [Mms -> Int]
PoolType == /\ map \in [Keys -> Handles \union {None}]
            /\ zs \in [Handles -> Data \union {Junk, Free}]
            /\ stored \in Int
PcType == pc \in [Actors -> Labels]
Regs == [mm : Mms \union {None}, key : Keys \union {None}, pte : Ptes,
         page : Pages \union {None}, handle : Handles \union {None},
         cleared : SUBSET Addrs]
RegType == reg \in [Actors -> Regs]
WorldType == /\ dead \subseteq Threads /\ sigbus \subseteq dead
             /\ todo \subseteq Mms \X Addrs
             /\ module \in {"loaded", "draining", "unloaded"}
             /\ kernel \in {"patched", "stock"}

\* A compression knows the entry it sampled, the page it pinned, and its
\* object once it is packed.
CompressorOk(c) ==
  /\ pc[c] \in {"idle", "sampled", "packed", "mapped", "replaced", "undo"}
  /\ pc[c] = "idle" => reg[c] = NoReg
  /\ pc[c] # "idle" => /\ reg[c].mm \in Mms /\ reg[c].key \in Addrs
                       /\ reg[c].page \in Pages /\ reg[c].pte.page = reg[c].page
                       /\ reg[c].pte.st = "present"
  /\ pc[c] \in {"packed", "mapped", "replaced", "undo"} => reg[c].handle \in Handles

\* A thread knows its address space, the address it faulted at or zaps, the
\* object it found and the page it filled.
ThreadOk(t) ==
  /\ pc[t] \in {"idle", "fault", "found", "filled", "removed", "zap",
                "exit", "exit_found", "exit_zap"}
  /\ pc[t] = "idle" => reg[t] = NoReg
  /\ pc[t] # "idle" => reg[t].mm = MmOf[t]
  /\ pc[t] \notin {"idle", "exit"} => reg[t].key \in Addrs
  /\ pc[t] \in {"found", "filled", "removed", "exit_found"} => reg[t].handle \in Handles
  /\ pc[t] \in {"filled", "removed"} => reg[t].page \in Pages

\* A test knows the index and the object it stored or found.
TesterOk(x) ==
  /\ pc[x] \in {"idle", "test_packed", "test_mapped", "test_found"}
  /\ pc[x] # "idle" => reg[x].key \in Keys /\ reg[x].handle \in Handles

\* The drain knows the marker it is at, its object and the page it filled.
UnloaderOk(x) ==
  /\ pc[x] \in {"idle", "drain", "drain_found", "drain_filled", "drain_installed"}
  /\ pc[x] # "idle" => reg[x].mm \in Mms /\ reg[x].key \in Addrs
  /\ pc[x] \in {"drain_found", "drain_filled", "drain_installed"} => reg[x].handle \in Handles
  /\ pc[x] = "drain_filled" => reg[x].page \in Pages

LocalOk(x) == /\ x \in Compressors => CompressorOk(x)
              /\ x \in Threads => ThreadOk(x)
              /\ x \in Testers => TesterOk(x)
              /\ x = Unloader => UnloaderOk(x)
LocalsInv == \A x \in Actors : LocalOk(x)

\* A zap holds the page table lock of its entry, which stays the marker it
\* looked up; nobody else zaps it.
Zapping(t) == pc[t] \in {"zap", "exit_zap"}
ZapInv ==
  /\ \A t \in Threads : Zapping(t) => pte[MmOf[t]][reg[t].key] = Marker
  /\ \A t, u \in Threads :
       Zapping(t) /\ Zapping(u) /\ t # u /\ MmOf[t] = MmOf[u] => reg[t].key # reg[u].key

\* The dead do nothing, and who exits is the last of the address space.
Exiting(t) == pc[t] \in {"exit", "exit_found", "exit_zap"}
ExitInv ==
  /\ \A t \in dead : pc[t] = "idle"
  /\ \A t, u \in Threads : Exiting(t) /\ u # t /\ MmOf[u] = MmOf[t] => u \in dead

\* The references to a page: the entries that map it and the actors that
\* hold it.
Mapped(p)  == {x \in Mms \X Addrs : pte[x[1]][x[2]].page = p}
Holding(p) == {x \in Actors : Holds(x, p)}
Counted(p) == Cardinality(Mapped(p)) + Cardinality(Holding(p))
RefsInv == \A p \in Pages : Counted(p) <= refs[p]

IInv ==
  /\ MemType /\ PteType /\ RefsType /\ RssType /\ PoolType /\ PcType /\ RegType /\ WorldType
  /\ LocalsInv /\ ZapInv /\ ExitInv /\ RssExact /\ RefsInv

\* A step of one actor, and a change of one page table entry.
OnlyActor(x) == \A y \in Actors \ {x} : pc'[y] = pc[y] /\ reg'[y] = reg[y]
OnlyEntry(m, a) ==
  \A n \in Mms, b \in Addrs : n # m \/ b # a => pte'[n][b] = pte[n][b]

\* How the size of a finite set follows the set: the counters of the code go
\* up and down by one with the sets they count.
LEMMA SizeSteps ==
  ASSUME NEW A, IsFiniteSet(A), NEW B, NEW e
  PROVE  /\ Cardinality(A) \in Nat
         /\ B \subseteq A =>
              /\ IsFiniteSet(B) /\ Cardinality(B) \in Nat
              /\ Cardinality(B) <= Cardinality(A)
         /\ B \subseteq A \union {e} =>
              /\ IsFiniteSet(B) /\ Cardinality(B) \in Nat
              /\ Cardinality(B) <= Cardinality(A) + 1
         /\ e \in A /\ B \subseteq A \ {e} =>
              /\ IsFiniteSet(B) /\ Cardinality(B) \in Nat
              /\ Cardinality(B) <= Cardinality(A) - 1
<1>1. Cardinality(A) \in Nat
  BY FS_CardinalityType
<1>2. ASSUME B \subseteq A
      PROVE  IsFiniteSet(B) /\ Cardinality(B) \in Nat /\ Cardinality(B) <= Cardinality(A)
  BY <1>2, FS_Subset, FS_CardinalityType
<1>3. ASSUME B \subseteq A \union {e}
      PROVE  IsFiniteSet(B) /\ Cardinality(B) \in Nat /\ Cardinality(B) <= Cardinality(A) + 1
  <2>1. /\ IsFiniteSet(A \union {e}) /\ Cardinality(A \union {e}) \in Nat
        /\ Cardinality(A \union {e}) <= Cardinality(A) + 1
    BY <1>1, FS_AddElement, FS_CardinalityType
  <2>2. IsFiniteSet(B) /\ Cardinality(B) <= Cardinality(A \union {e})
    BY <1>3, <2>1, FS_Subset
  <2> QED BY <1>1, <2>1, <2>2, FS_CardinalityType
<1>4. ASSUME e \in A, B \subseteq A \ {e}
      PROVE  IsFiniteSet(B) /\ Cardinality(B) \in Nat /\ Cardinality(B) <= Cardinality(A) - 1
  <2>1. /\ IsFiniteSet(A \ {e}) /\ Cardinality(A \ {e}) \in Nat
        /\ Cardinality(A \ {e}) = Cardinality(A) - 1
    BY <1>4, FS_RemoveElement, FS_CardinalityType
  <2>2. IsFiniteSet(B) /\ Cardinality(B) <= Cardinality(A \ {e})
    BY <1>4, <2>1, FS_Subset
  <2> QED BY <1>1, <2>1, <2>2, FS_CardinalityType
<1> QED BY <1>1, <1>2, <1>3, <1>4

\* The same as equations.
LEMMA SizeExact ==
  ASSUME NEW A, IsFiniteSet(A), NEW B, NEW e
  PROVE  /\ Cardinality(A) \in Nat
         /\ e \notin A /\ B = A \union {e} => Cardinality(B) = Cardinality(A) + 1
         /\ e \in A /\ B = A \ {e} => Cardinality(B) = Cardinality(A) - 1
BY FS_CardinalityType, FS_AddElement, FS_RemoveElement

\* What is left of a finite set of pairs without the row of x.
Row(x, S) == {x} \X S

\* A set of pairs is as large as its row and the rest of it together.
LEMMA SizeWithoutRow ==
  ASSUME NEW x, NEW S, IsFiniteSet(S), NEW A, IsFiniteSet(A), A \cap Row(x, S) = Row(x, S)
  PROVE  /\ IsFiniteSet(A \ Row(x, S)) /\ Cardinality(S) \in Nat
         /\ Cardinality(A \ Row(x, S)) \in Nat
         /\ Cardinality(A \ Row(x, S)) = Cardinality(A) - Cardinality(S)
<1> DEFINE X == {x}
<1>1. IsFiniteSet(X) /\ Cardinality(X) = 1
  BY FS_Singleton
<1>2. Row(x, S) = X \X S
  BY DEF Row
<1> HIDE DEF X
<1>3. IsFiniteSet(X \X S) /\ Cardinality(X \X S) = Cardinality(X) * Cardinality(S)
  BY <1>1, FS_Product
<1>4. /\ IsFiniteSet(Row(x, S)) /\ Cardinality(Row(x, S)) = Cardinality(S)
      /\ Cardinality(S) \in Nat
  BY <1>1, <1>2, <1>3, FS_CardinalityType
<1>5. /\ IsFiniteSet(A \ Row(x, S))
      /\ Cardinality(A \ Row(x, S)) = Cardinality(A) - Cardinality(A \cap Row(x, S))
  BY FS_Difference
<1> QED BY <1>4, <1>5, FS_CardinalityType

\* The kinds of actors are different; actors and page table entries are finitely
\* many.
LEMMA ActorFacts ==
  /\ IsFiniteSet(Actors) /\ IsFiniteSet(Addrs) /\ IsFiniteSet(Mms \X Addrs)
  /\ Threads \subseteq Actors /\ Compressors \subseteq Actors /\ Testers \subseteq Actors
  /\ Unloader \in Actors
  /\ Threads \cap Compressors = {} /\ Testers \cap Threads = {} /\ Testers \cap Compressors = {}
  /\ Unloader \notin Threads /\ Unloader \notin Compressors /\ Unloader \notin Testers
  /\ \A t \in Threads : MmOf[t] \in Mms
  /\ Addrs \subseteq Keys /\ BenchKeys \subseteq Keys
<1>1. IsFiniteSet(Mms \X Addrs)
  BY FiniteAssumption, FS_Product
<1> QED BY <1>1, FiniteAssumption, ActorsAssumption, MmOfAssumption DEF Actors, Keys

\* An entry is empty, a marker or present, and maps a page if it is present.
LEMMA PresentFacts ==
  ASSUME NEW p \in Pages
  PROVE  /\ Present(p, TRUE) \in Ptes
         /\ Present(p, TRUE).st = "present" /\ Present(p, TRUE).page = p
         /\ Present(p, FALSE) \in Ptes
         /\ Present(p, FALSE).st = "present" /\ Present(p, FALSE).page = p
<1>1. \A d \in BOOLEAN : Present(p, d) \in Ptes
  BY DEF Ptes
<1>2. Present(p, TRUE) \in Ptes /\ Present(p, FALSE) \in Ptes
  BY <1>1, Zenon
<1> QED BY <1>2 DEF Present

\* What Present and EmptyPte are as entries of a page table.
LEMMA PteFacts ==
  /\ NoPte \in Ptes /\ NoPte.st = "none" /\ NoPte.page = None
  /\ Marker \in Ptes /\ Marker.st = "marker" /\ Marker.page = None
  /\ \A e \in Ptes : /\ e.st = "present" => e.page \in Pages
                     /\ e.st # "present" => e.page = None
                     /\ e.st = "marker" <=> e = Marker
  /\ None \notin Pages
<1>1. None \notin Pages
  BY NoneAssumption
<1>2. /\ NoPte \in Ptes /\ NoPte.st = "none" /\ NoPte.page = None
      /\ Marker \in Ptes /\ Marker.st = "marker" /\ Marker.page = None
  BY DEF Ptes, NoPte, Marker
<1>3. \A p \in Pages, d \in BOOLEAN :
        Present(p, d).st = "present" /\ Present(p, d).page = p
  BY DEF Present
<1>4. \A e \in Ptes : \/ e = NoPte \/ e = Marker
                      \/ \E p \in Pages, d \in BOOLEAN : e = Present(p, d)
  BY DEF Ptes
<1> QED BY <1>1, <1>2, <1>3, <1>4

\* The locals of an actor that has none.
LEMMA NoRegFacts ==
  /\ NoReg \in Regs
  /\ NoReg.mm = None /\ NoReg.key = None /\ NoReg.page = None /\ NoReg.handle = None
  /\ NoReg.cleared = {}
BY PteFacts DEF NoReg, Regs

\* What the first step of an operation puts into its locals: a fault or the
\* drain, a zap, a test, an exit.
RegAt(m, k)     == [NoReg EXCEPT !.mm = m, !.key = k]
RegZap(m, k, h) == [NoReg EXCEPT !.mm = m, !.key = k, !.handle = h]
RegTest(k, h)   == [NoReg EXCEPT !.key = k, !.handle = h]
RegExit(m, z)   == [NoReg EXCEPT !.mm = m, !.cleared = z]
RegSample(m, k, e) ==
  [NoReg EXCEPT !.mm = m, !.key = k, !.pte = e, !.page = e.page]
RegNext(r, a, h) == [r EXCEPT !.cleared = @ \ {a}, !.key = a, !.handle = h]

\* What such an update leaves in each of the locals that matter.
LEMMA RegMade ==
  /\ \A m \in Mms, k \in Keys :
       RegAt(m, k) \in Regs /\ RegAt(m, k).mm = m /\ RegAt(m, k).key = k
  /\ \A m \in Mms, k \in Keys, h \in Handles \union {None} :
       /\ RegZap(m, k, h) \in Regs /\ RegZap(m, k, h).mm = m
       /\ RegZap(m, k, h).key = k /\ RegZap(m, k, h).handle = h
  /\ \A k \in Keys, h \in Handles :
       RegTest(k, h) \in Regs /\ RegTest(k, h).key = k /\ RegTest(k, h).handle = h
  /\ \A m \in Mms, z \in SUBSET Addrs :
       RegExit(m, z) \in Regs /\ RegExit(m, z).mm = m /\ RegExit(m, z).cleared = z
  /\ \A m \in Mms, k \in Keys, e \in Ptes :
       /\ RegSample(m, k, e) \in Regs /\ RegSample(m, k, e).mm = m
       /\ RegSample(m, k, e).key = k /\ RegSample(m, k, e).pte = e
       /\ RegSample(m, k, e).page = e.page
  /\ \A r \in Regs, a \in Keys, h \in Handles \union {None} :
       /\ RegNext(r, a, h) \in Regs /\ RegNext(r, a, h).mm = r.mm
       /\ RegNext(r, a, h).key = a /\ RegNext(r, a, h).handle = h
       /\ RegNext(r, a, h).page = r.page
<1>1. NoPte \in Ptes
  BY PteFacts
<1>2. ASSUME NEW m \in Mms, NEW k \in Keys
      PROVE  RegAt(m, k) \in Regs /\ RegAt(m, k).mm = m /\ RegAt(m, k).key = k
  BY <1>1 DEF RegAt, NoReg, Regs
<1>3. ASSUME NEW m \in Mms, NEW k \in Keys, NEW h \in Handles \union {None}
      PROVE  /\ RegZap(m, k, h) \in Regs /\ RegZap(m, k, h).mm = m
             /\ RegZap(m, k, h).key = k /\ RegZap(m, k, h).handle = h
  BY <1>1 DEF RegZap, NoReg, Regs
<1>4. ASSUME NEW k \in Keys, NEW h \in Handles
      PROVE  RegTest(k, h) \in Regs /\ RegTest(k, h).key = k /\ RegTest(k, h).handle = h
  BY <1>1 DEF RegTest, NoReg, Regs
<1>5. ASSUME NEW m \in Mms, NEW z \in SUBSET Addrs
      PROVE  RegExit(m, z) \in Regs /\ RegExit(m, z).mm = m /\ RegExit(m, z).cleared = z
  BY <1>1 DEF RegExit, NoReg, Regs
<1>6. ASSUME NEW r \in Regs, NEW a \in Keys, NEW h \in Handles \union {None}
      PROVE  /\ RegNext(r, a, h) \in Regs /\ RegNext(r, a, h).mm = r.mm
             /\ RegNext(r, a, h).key = a /\ RegNext(r, a, h).handle = h
             /\ RegNext(r, a, h).page = r.page
  BY DEF RegNext, Regs
<1>7. ASSUME NEW m \in Mms, NEW k \in Keys, NEW e \in Ptes
      PROVE  /\ RegSample(m, k, e) \in Regs /\ RegSample(m, k, e).mm = m
             /\ RegSample(m, k, e).key = k /\ RegSample(m, k, e).pte = e
             /\ RegSample(m, k, e).page = e.page
  <2>1. e.page \in Pages \union {None}
    BY PteFacts
  <2> QED BY <1>1, <2>1 DEF RegSample, NoReg, Regs
<1> QED BY <1>2, <1>3, <1>4, <1>5, <1>6, <1>7

\* Filling in the object or the page leaves the other locals alone.
LEMMA RegUpdates ==
  ASSUME NEW r \in Regs
  PROVE  /\ \A h \in Handles :
              /\ [r EXCEPT !.handle = h] \in Regs /\ [r EXCEPT !.handle = h].handle = h
              /\ [r EXCEPT !.handle = h].mm = r.mm /\ [r EXCEPT !.handle = h].key = r.key
              /\ [r EXCEPT !.handle = h].pte = r.pte /\ [r EXCEPT !.handle = h].page = r.page
         /\ \A p \in Pages :
              /\ [r EXCEPT !.page = p] \in Regs /\ [r EXCEPT !.page = p].page = p
              /\ [r EXCEPT !.page = p].mm = r.mm /\ [r EXCEPT !.page = p].key = r.key
              /\ [r EXCEPT !.page = p].handle = r.handle
BY DEF Regs

\* What minimem_zap_range clears and collects are markers.
LEMMA ZapRangeFacts ==
  ASSUME NEW markers, NEW z \in ZapRange(markers)
  PROVE  z[1] \subseteq markers /\ z[2] \subseteq markers
<1>1. \/ z = <<markers, markers>> \/ z = <<{}, {}>>
      \/ z = <<{a \in markers : Cardinality({b \in markers : b < a}) < ZapCap + 1},
               {a \in markers : Cardinality({b \in markers : b < a}) < ZapCap}>>
  BY DEF ZapRange
<1>2. CASE z = <<markers, markers>> \/ z = <<{}, {}>>
  BY <1>2
<1>3. CASE z = <<{a \in markers : Cardinality({b \in markers : b < a}) < ZapCap + 1},
                 {a \in markers : Cardinality({b \in markers : b < a}) < ZapCap}>>
  BY ONLY <1>3
<1> QED BY <1>1, <1>2, <1>3

\* The sets that are counted are finite.
LEMMA CountedFinite ==
  /\ \A p \in Pages : IsFiniteSet(Mapped(p)) /\ IsFiniteSet(Holding(p))
  /\ \A m \in Mms : IsFiniteSet(ResidentPages(m)) /\ IsFiniteSet(OwedBy(m))
<1>1. ASSUME NEW p \in Pages PROVE IsFiniteSet(Mapped(p)) /\ IsFiniteSet(Holding(p))
  <2>1. Mapped(p) \subseteq Mms \X Addrs /\ Holding(p) \subseteq Actors
    BY DEF Mapped, Holding
  <2> QED BY <2>1, ActorFacts, FS_Subset
<1>2. ASSUME NEW m \in Mms PROVE IsFiniteSet(ResidentPages(m)) /\ IsFiniteSet(OwedBy(m))
  <2>1. ResidentPages(m) \subseteq Addrs /\ OwedBy(m) \subseteq Actors
    BY ActorFacts DEF ResidentPages, OwedBy
  <2> QED BY <2>1, ActorFacts, FS_Subset
<1> QED BY <1>1, <1>2

\* The numbers that are added are numbers.
LEMMA CountedType ==
  /\ \A p \in Pages : /\ Cardinality(Mapped(p)) \in Nat /\ Cardinality(Holding(p)) \in Nat
                      /\ Counted(p) \in Nat
  /\ \A m \in Mms : /\ Cardinality(ResidentPages(m)) \in Nat
                    /\ Cardinality(OwedBy(m)) \in Nat
BY CountedFinite, FS_CardinalityType DEF Counted

\* A page that is mapped or held has a reference.
LEMMA InUse ==
  ASSUME NEW p \in Pages, refs[p] \in Nat, Counted(p) <= refs[p],
         Mapped(p) # {} \/ Holding(p) # {}
  PROVE  refs[p] >= 1
<1>1. Cardinality(Mapped(p)) # 0 \/ Cardinality(Holding(p)) # 0
  BY CountedFinite, FS_EmptySet
<1> QED BY <1>1, CountedType DEF Counted

\* How the counts follow a step: x and e are the entry and the actor the step
\* is about.
LEMMA CountedSteps ==
  ASSUME NEW p \in Pages, NEW x, NEW e
  PROVE  /\ (Mapped(p)' \subseteq Mapped(p) /\ Holding(p)' \subseteq Holding(p))
              => Counted(p)' \in Nat /\ Counted(p)' <= Counted(p)
         /\ (Mapped(p)' \subseteq Mapped(p) \union {x} /\ Holding(p)' \subseteq Holding(p))
              => Counted(p)' \in Nat /\ Counted(p)' <= Counted(p) + 1
         /\ (Mapped(p)' \subseteq Mapped(p) /\ Holding(p)' \subseteq Holding(p) \union {e})
              => Counted(p)' \in Nat /\ Counted(p)' <= Counted(p) + 1
         /\ (x \in Mapped(p) /\ Mapped(p)' \subseteq Mapped(p) \ {x}
            /\ Holding(p)' \subseteq Holding(p))
              => Counted(p)' \in Nat /\ Counted(p)' <= Counted(p) - 1
         /\ (e \in Holding(p) /\ Mapped(p)' \subseteq Mapped(p)
            /\ Holding(p)' \subseteq Holding(p) \ {e})
              => Counted(p)' \in Nat /\ Counted(p)' <= Counted(p) - 1
         /\ (e \in Holding(p) /\ Mapped(p)' \subseteq Mapped(p) \union {x}
            /\ Holding(p)' \subseteq Holding(p) \ {e})
              => Counted(p)' \in Nat /\ Counted(p)' <= Counted(p)
<1>1. Counted(p)' = Cardinality(Mapped(p)') + Cardinality(Holding(p)')
  BY DEF Counted
<1>2. /\ Mapped(p)' \subseteq Mapped(p) =>
           /\ Cardinality(Mapped(p)') \in Nat
           /\ Cardinality(Mapped(p)') <= Cardinality(Mapped(p))
      /\ Mapped(p)' \subseteq Mapped(p) \union {x} =>
           /\ Cardinality(Mapped(p)') \in Nat
           /\ Cardinality(Mapped(p)') <= Cardinality(Mapped(p)) + 1
      /\ x \in Mapped(p) /\ Mapped(p)' \subseteq Mapped(p) \ {x} =>
           /\ Cardinality(Mapped(p)') \in Nat
           /\ Cardinality(Mapped(p)') <= Cardinality(Mapped(p)) - 1
  BY CountedFinite, SizeSteps
<1>3. /\ Holding(p)' \subseteq Holding(p) =>
           /\ Cardinality(Holding(p)') \in Nat
           /\ Cardinality(Holding(p)') <= Cardinality(Holding(p))
      /\ Holding(p)' \subseteq Holding(p) \union {e} =>
           /\ Cardinality(Holding(p)') \in Nat
           /\ Cardinality(Holding(p)') <= Cardinality(Holding(p)) + 1
      /\ e \in Holding(p) /\ Holding(p)' \subseteq Holding(p) \ {e} =>
           /\ Cardinality(Holding(p)') \in Nat
           /\ Cardinality(Holding(p)') <= Cardinality(Holding(p)) - 1
  BY CountedFinite, SizeSteps
<1>4. /\ Cardinality(Mapped(p)) \in Nat /\ Cardinality(Holding(p)) \in Nat
      /\ Counted(p) = Cardinality(Mapped(p)) + Cardinality(Holding(p))
  BY CountedType DEF Counted
<1>5. (Mapped(p)' \subseteq Mapped(p) /\ Holding(p)' \subseteq Holding(p))
        => Counted(p)' \in Nat /\ Counted(p)' <= Counted(p)
  <2> SUFFICES ASSUME Mapped(p)' \subseteq Mapped(p),
                      Holding(p)' \subseteq Holding(p)
               PROVE  Counted(p)' \in Nat /\ Counted(p)' <= Counted(p)
    OBVIOUS
  <2>1. /\ Cardinality(Mapped(p)') \in Nat
        /\ Cardinality(Mapped(p)') <= Cardinality(Mapped(p))
    BY <1>2
  <2>2. /\ Cardinality(Holding(p)') \in Nat
        /\ Cardinality(Holding(p)') <= Cardinality(Holding(p))
    BY <1>3
  <2> QED BY <2>1, <2>2, <1>1, <1>4
<1>6. (Mapped(p)' \subseteq Mapped(p) \union {x} /\ Holding(p)' \subseteq Holding(p))
        => Counted(p)' \in Nat /\ Counted(p)' <= Counted(p) + 1
  <2> SUFFICES ASSUME Mapped(p)' \subseteq Mapped(p) \union {x},
                      Holding(p)' \subseteq Holding(p)
               PROVE  Counted(p)' \in Nat /\ Counted(p)' <= Counted(p) + 1
    OBVIOUS
  <2>1. /\ Cardinality(Mapped(p)') \in Nat
        /\ Cardinality(Mapped(p)') <= Cardinality(Mapped(p)) + 1
    BY <1>2
  <2>2. /\ Cardinality(Holding(p)') \in Nat
        /\ Cardinality(Holding(p)') <= Cardinality(Holding(p))
    BY <1>3
  <2> QED BY <2>1, <2>2, <1>1, <1>4
<1>7. (Mapped(p)' \subseteq Mapped(p) /\ Holding(p)' \subseteq Holding(p) \union {e})
        => Counted(p)' \in Nat /\ Counted(p)' <= Counted(p) + 1
  <2> SUFFICES ASSUME Mapped(p)' \subseteq Mapped(p),
                      Holding(p)' \subseteq Holding(p) \union {e}
               PROVE  Counted(p)' \in Nat /\ Counted(p)' <= Counted(p) + 1
    OBVIOUS
  <2>1. /\ Cardinality(Mapped(p)') \in Nat
        /\ Cardinality(Mapped(p)') <= Cardinality(Mapped(p))
    BY <1>2
  <2>2. /\ Cardinality(Holding(p)') \in Nat
        /\ Cardinality(Holding(p)') <= Cardinality(Holding(p)) + 1
    BY <1>3
  <2> QED BY <2>1, <2>2, <1>1, <1>4
<1>8. (x \in Mapped(p) /\ Mapped(p)' \subseteq Mapped(p) \ {x}
       /\ Holding(p)' \subseteq Holding(p))
        => Counted(p)' \in Nat /\ Counted(p)' <= Counted(p) - 1
  <2> SUFFICES ASSUME x \in Mapped(p), Mapped(p)' \subseteq Mapped(p) \ {x},
                      Holding(p)' \subseteq Holding(p)
               PROVE  Counted(p)' \in Nat /\ Counted(p)' <= Counted(p) - 1
    OBVIOUS
  <2>1. /\ Cardinality(Mapped(p)') \in Nat
        /\ Cardinality(Mapped(p)') <= Cardinality(Mapped(p)) - 1
    BY <1>2
  <2>2. /\ Cardinality(Holding(p)') \in Nat
        /\ Cardinality(Holding(p)') <= Cardinality(Holding(p))
    BY <1>3
  <2> QED BY <2>1, <2>2, <1>1, <1>4
<1>9. (e \in Holding(p) /\ Mapped(p)' \subseteq Mapped(p)
       /\ Holding(p)' \subseteq Holding(p) \ {e})
        => Counted(p)' \in Nat /\ Counted(p)' <= Counted(p) - 1
  <2> SUFFICES ASSUME e \in Holding(p), Mapped(p)' \subseteq Mapped(p),
                      Holding(p)' \subseteq Holding(p) \ {e}
               PROVE  Counted(p)' \in Nat /\ Counted(p)' <= Counted(p) - 1
    OBVIOUS
  <2>1. /\ Cardinality(Mapped(p)') \in Nat
        /\ Cardinality(Mapped(p)') <= Cardinality(Mapped(p))
    BY <1>2
  <2>2. /\ Cardinality(Holding(p)') \in Nat
        /\ Cardinality(Holding(p)') <= Cardinality(Holding(p)) - 1
    BY <1>3
  <2> QED BY <2>1, <2>2, <1>1, <1>4
<1>10. (e \in Holding(p) /\ Mapped(p)' \subseteq Mapped(p) \union {x}
       /\ Holding(p)' \subseteq Holding(p) \ {e})
        => Counted(p)' \in Nat /\ Counted(p)' <= Counted(p)
  <2> SUFFICES ASSUME e \in Holding(p), Mapped(p)' \subseteq Mapped(p) \union {x},
                      Holding(p)' \subseteq Holding(p) \ {e}
               PROVE  Counted(p)' \in Nat /\ Counted(p)' <= Counted(p)
    OBVIOUS
  <2>1. /\ Cardinality(Mapped(p)') \in Nat
        /\ Cardinality(Mapped(p)') <= Cardinality(Mapped(p)) + 1
    BY <1>2
  <2>2. /\ Cardinality(Holding(p)') \in Nat
        /\ Cardinality(Holding(p)') <= Cardinality(Holding(p)) - 1
    BY <1>3
  <2> QED BY <2>1, <2>2, <1>1, <1>4
<1> QED BY <1>5, <1>6, <1>7, <1>8, <1>9, <1>10

\* A step of one actor keeps the locals of the others.
LEMMA LocalsKept ==
  ASSUME LocalsInv, NEW x \in Actors, OnlyActor(x),
         \/ x \in Compressors /\ CompressorOk(x)'
         \/ x \in Threads /\ ThreadOk(x)'
         \/ x \in Testers /\ TesterOk(x)'
         \/ x = Unloader /\ UnloaderOk(x)'
  PROVE  LocalsInv'
<1> SUFFICES ASSUME NEW y \in Actors PROVE LocalOk(y)'
  BY DEF LocalsInv
<1>1. CASE y = x
  BY <1>1, ActorFacts DEF LocalOk
<1>2. CASE y # x
  <2>1. pc'[y] = pc[y] /\ reg'[y] = reg[y] /\ LocalOk(y)
    BY <1>2 DEF OnlyActor, LocalsInv
  <2>2. CompressorOk(y) => CompressorOk(y)'
    BY <2>1 DEF CompressorOk
  <2>3. ThreadOk(y) => ThreadOk(y)'
    BY <2>1 DEF ThreadOk
  <2>4. TesterOk(y) => TesterOk(y)'
    BY <2>1 DEF TesterOk
  <2>5. UnloaderOk(y) => UnloaderOk(y)'
    BY <2>1 DEF UnloaderOk
  <2> QED BY <2>1, <2>2, <2>3, <2>4, <2>5 DEF LocalOk
<1> QED BY <1>1, <1>2

\* How the holders of a page follow a step of one actor.
LEMMA HoldingSteps ==
  ASSUME NEW x \in Actors, OnlyActor(x), NEW p \in Pages
  PROVE  /\ (Holds(x, p)' => Holds(x, p)) => Holding(p)' \subseteq Holding(p)
         /\ Holding(p)' \subseteq Holding(p) \union {x}
         /\ ~Holds(x, p)' => Holding(p)' \subseteq Holding(p) \ {x}
<1>1. \A y \in Actors : y # x => (Holds(y, p)' <=> Holds(y, p))
  BY DEF OnlyActor, Holds
<1>2. \A y : y \in Holding(p) <=> y \in Actors /\ Holds(y, p)
  BY DEF Holding
<1>3. \A y : y \in Holding(p)' <=> y \in Actors /\ Holds(y, p)'
  BY DEF Holding
<1> QED BY <1>1, <1>2, <1>3

\* How the mappings of a page follow a change of one entry.
LEMMA MappedSteps ==
  ASSUME NEW m \in Mms, NEW a \in Addrs, OnlyEntry(m, a), NEW p \in Pages
  PROVE  /\ (pte'[m][a].page = p => pte[m][a].page = p) => Mapped(p)' \subseteq Mapped(p)
         /\ Mapped(p)' \subseteq Mapped(p) \union {<<m, a>>}
         /\ pte'[m][a].page # p => Mapped(p)' \subseteq Mapped(p) \ {<<m, a>>}
<1>1. \A n \in Mms, b \in Addrs :
        <<n, b>> # <<m, a>> => (<<n, b>> \in Mapped(p)' <=> <<n, b>> \in Mapped(p))
  BY DEF OnlyEntry, Mapped
<1>2. <<m, a>> \in Mapped(p)' <=> pte'[m][a].page = p
  BY DEF Mapped
<1>3. <<m, a>> \in Mapped(p) <=> pte[m][a].page = p
  BY DEF Mapped
<1>4. Mapped(p) \subseteq Mms \X Addrs /\ Mapped(p)' \subseteq Mms \X Addrs
  BY DEF Mapped
<1> QED BY <1>1, <1>2, <1>3, <1>4

\* A step that takes no reference needs none.
LEMMA RefsKept ==
  ASSUME RefsInv, RefsType, NEW x \in Actors, OnlyActor(x), UNCHANGED refs,
         \A p \in Pages : Holds(x, p)' => Holds(x, p),
         \A m \in Mms, a \in Addrs : pte'[m][a].page \in {pte[m][a].page, None}
  PROVE  RefsInv'
<1> SUFFICES ASSUME NEW p \in Pages PROVE Counted(p)' <= refs'[p]
  BY DEF RefsInv
<1>1. Counted(p) <= refs[p] /\ refs'[p] = refs[p] /\ refs[p] \in Nat
  BY DEF RefsInv, RefsType
<1>2. Holding(p)' \subseteq Holding(p)
  BY HoldingSteps
<1>3. Mapped(p)' \subseteq Mapped(p)
  BY NoneAssumption DEF Mapped
<1> QED BY <1>1, <1>2, <1>3, CountedSteps, CountedType

\* Who owes a decrement changes only with a compression's last two steps.
LEMMA OwedKept ==
  ASSUME NEW x \in Actors, OnlyActor(x), NEW m \in Mms,
         x \in Compressors => pc[x] # "replaced" /\ pc'[x] # "replaced"
  PROVE  OwedBy(m)' = OwedBy(m)
<1>1. \A c \in Compressors : pc'[c] = "replaced" /\ reg'[c].mm = m
                              <=> pc[c] = "replaced" /\ reg[c].mm = m
  BY ActorFacts DEF OnlyActor
<1> QED BY <1>1 DEF OwedBy

\* How the present entries follow a change of one entry.
LEMMA ResidentSteps ==
  ASSUME NEW m \in Mms, NEW a \in Addrs, OnlyEntry(m, a), NEW n \in Mms
  PROVE  /\ n # m \/ (pte'[m][a].st = "present" <=> pte[m][a].st = "present")
              => ResidentPages(n)' = ResidentPages(n)
         /\ n = m /\ pte[m][a].st # "present" /\ pte'[m][a].st = "present"
              => a \notin ResidentPages(n) /\ ResidentPages(n)' = ResidentPages(n)
                  \union {a}
         /\ n = m /\ pte[m][a].st = "present" /\ pte'[m][a].st # "present"
              => a \in ResidentPages(n) /\ ResidentPages(n)' = ResidentPages(n) \ {a}
<1>1. \A b \in Addrs : n # m \/ b # a
          => (pte'[n][b].st = "present" <=> pte[n][b].st = "present")
  BY DEF OnlyEntry
<1> QED BY <1>1 DEF ResidentPages

\* A step that changes neither MM_ANONPAGES nor what it counts.
LEMMA RssKept ==
  ASSUME RssExact, NEW x \in Actors, OnlyActor(x), UNCHANGED rss,
         x \in Compressors => pc[x] # "replaced" /\ pc'[x] # "replaced",
         \A m \in Mms, a \in Addrs : pte'[m][a].st = "present" <=> pte[m][a].st = "present"
  PROVE  RssExact'
<1> SUFFICES ASSUME NEW m \in Mms
             PROVE  rss'[m] = Cardinality(ResidentPages(m)') + Cardinality(OwedBy(m)')
  BY DEF RssExact
<1>1. ResidentPages(m)' = ResidentPages(m)
  BY DEF ResidentPages
<1> QED BY <1>1, OwedKept DEF RssExact

\* A step keeps the entries that are being zapped if it leaves the ones the
\* others zap alone and does not begin a zap.
LEMMA ZapKept ==
  ASSUME ZapInv, NEW x \in Actors, OnlyActor(x), x \in Threads => ~Zapping(x)',
         \A t \in Threads \ {x} : Zapping(t) => pte'[MmOf[t]][reg[t].key] = Marker
  PROVE  ZapInv'
<1>1. \A t \in Threads : Zapping(t)' => t # x /\ Zapping(t) /\ reg'[t] = reg[t]
  BY ActorFacts DEF OnlyActor, Zapping
<1>2. \A t \in Threads : Zapping(t)' => pte'[MmOf[t]][reg'[t].key] = Marker
  BY <1>1
<1>3. \A t, u \in Threads :
        Zapping(t)' /\ Zapping(u)' /\ t # u /\ MmOf[t] = MmOf[u] => reg'[t].key # reg'[u].key
  BY <1>1 DEF ZapInv
<1> QED BY <1>2, <1>3 DEF ZapInv

\* Who takes the page table lock of an entry does not change one that is zapped.
LEMMA LockedOut ==
  ASSUME ZapInv, LocalsInv, NEW m \in Mms, NEW a \in Addrs, PtlFree(m, a), OnlyEntry(m, a),
         NEW t \in Threads, Zapping(t)
  PROVE  pte'[MmOf[t]][reg[t].key] = Marker
<1>1. ThreadOk(t)
  BY ActorFacts DEF LocalsInv, LocalOk
<1>2. MmOf[t] \in Mms /\ reg[t].key \in Addrs /\ reg[t].mm = MmOf[t]
  BY <1>1, ActorFacts DEF ThreadOk, Zapping
<1>3. MmOf[t] # m \/ reg[t].key # a
  BY <1>2 DEF PtlFree, Zapping
<1> QED BY <1>2, <1>3 DEF OnlyEntry, ZapInv

\* A step of one actor who is not dead keeps exits alone.
LEMMA ExitKept ==
  ASSUME ExitInv, NEW x \in Actors, OnlyActor(x), dead \subseteq Threads,
         dead \subseteq dead', dead' \subseteq dead \union {x},
         x \in dead' => pc'[x] = "idle",
         x \in Threads /\ Exiting(x)' /\ ~Exiting(x) =>
           \A u \in Threads \ {x} : MmOf[u] = MmOf[x] => u \in dead
  PROVE  ExitInv'
<1>1. ASSUME NEW t \in dead' PROVE pc'[t] = "idle"
  BY ActorFacts DEF OnlyActor, ExitInv
<1>2. ASSUME NEW t \in Threads, NEW u \in Threads,
             Exiting(t)', u # t, MmOf[u] = MmOf[t]
      PROVE  u \in dead'
  BY <1>2, ActorFacts DEF OnlyActor, ExitInv, Exiting
<1> QED BY <1>1, <1>2 DEF ExitInv

\* A step that leaves the page tables, the counters and the locals alone.
LEMMA Still ==
  ASSUME LocalsInv, ZapInv, RssExact, RefsInv, UNCHANGED <<pte, refs, rss, pc, reg>>
  PROVE  LocalsInv' /\ ZapInv' /\ RssExact' /\ RefsInv'
<1>1. LocalsInv'
  BY DEF LocalsInv, LocalOk, CompressorOk, ThreadOk, TesterOk, UnloaderOk
<1>2. ZapInv'
  BY DEF ZapInv, Zapping
<1>3. RssExact'
  BY DEF RssExact, ResidentPages, OwedBy
<1>4. RefsInv'
  BY DEF RefsInv, Counted, Mapped, Holding, Holds
<1> QED BY <1>1, <1>2, <1>3, <1>4

\* Nothing is mapped, held or allocated before the module is used.
LEMMA InitIInv == Init => IInv
<1> SUFFICES ASSUME Init PROVE IInv
  OBVIOUS
<1> USE ActorFacts, PteFacts, NoRegFacts, NoneAssumption DEF Init
<1>1. MemType /\ PteType /\ RefsType /\ RssType /\ PoolType
  BY DEF MemType, PteType, RefsType, RssType, PoolType
<1>2. PcType /\ RegType /\ WorldType
  BY DEF PcType, RegType, WorldType, Labels
<1>3. LocalsInv
  BY DEF LocalsInv, LocalOk, CompressorOk, ThreadOk, TesterOk, UnloaderOk
<1>6. ZapInv /\ ExitInv
  BY DEF ZapInv, ExitInv, Zapping, Exiting
<1>4. RssExact
  <2> SUFFICES ASSUME NEW m \in Mms
               PROVE  rss[m] = Cardinality(ResidentPages(m)) + Cardinality(OwedBy(m))
    BY DEF RssExact
  <2>1. ResidentPages(m) = {} /\ OwedBy(m) = {}
    BY DEF ResidentPages, OwedBy
  <2> QED BY <2>1, FS_EmptySet
<1>5. RefsInv
  <2> SUFFICES ASSUME NEW p \in Pages PROVE Counted(p) <= refs[p]
    BY DEF RefsInv
  <2>1. Mapped(p) = {}
    BY DEF Mapped
  <2>2. Holding(p) = {}
    BY DEF Holding, Holds
  <2> QED BY <2>1, <2>2, FS_EmptySet DEF Counted
<1> QED BY <1>1, <1>2, <1>3, <1>4, <1>5, <1>6 DEF IInv

\* Every action keeps the strengthening.
LEMMA StepIInv == IInv /\ [Next]_vars => IInv'
<1> SUFFICES ASSUME IInv, [Next]_vars PROVE IInv'
  OBVIOUS
<1> USE ActorFacts, PteFacts, NoneAssumption DEF IInv, pool, pages, world
<1>1. ASSUME NEW c \in Compressors, NEW m \in Mms, NEW a \in Addrs, CompressSample(c, m, a)
      PROVE  IInv'
  <2>a. /\ OnlyActor(c) /\ pc[c] = "idle"
        /\ pc'[c] = "sampled"
        /\ reg'[c] = RegSample(m, a, pte[m][a])
    BY <1>1 DEF OnlyActor, PcType, RegType, RegSample, CompressSample, Goto
  <2>b. CompressorOk(c) /\ reg[c] \in Regs
    BY ActorFacts DEF LocalsInv, LocalOk, RegType
  <2>c. CompressorOk(c)' /\ reg'[c] \in Regs
    <3>1. pte[m][a] \in Ptes /\ pte[m][a].st = "present" /\ pte[m][a].page \in Pages
      BY <1>1 DEF PteType, CompressSample
    <3>2. /\ reg'[c] \in Regs
          /\ reg'[c].mm = m
          /\ reg'[c].key = a
          /\ reg'[c].pte = pte[m][a]
          /\ reg'[c].page = pte[m][a].page
      BY ONLY <2>a, <2>b, <3>1, ActorFacts, NoRegFacts, RegMade
    <3> QED BY <2>a, <2>b, <3>1, <3>2 DEF CompressorOk
  <2>d. pte[m][a].page \in Pages
    BY <1>1 DEF PteType, CompressSample
  <2>f. refs' \in [Pages -> Nat]
    BY <1>1, <2>d DEF RefsType, CompressSample
  <2>1. MemType' /\ PteType' /\ RssType' /\ PoolType' /\ WorldType'
    BY <1>1 DEF MemType, PteType, RssType, PoolType, WorldType, CompressSample, Goto
  <2>2. RefsType'
    BY <2>f DEF RefsType
  <2>3. PcType'
    BY <1>1 DEF PcType, Labels, CompressSample, Goto
  <2>4. RegType'
    BY <1>1, <2>c DEF RegType, CompressSample, Goto
  <2>5. LocalsInv'
    BY <2>a, <2>c, LocalsKept, ActorFacts
  <2>6. ZapInv'
    BY <1>1, <2>a, ZapKept, ActorFacts DEF ZapInv, Zapping, CompressSample, Goto
  <2>7. ExitInv'
    BY <1>1, <2>a, ExitKept, ActorFacts
      DEF ExitInv, Exiting, WorldType, CompressSample, Goto
  <2>8. RssExact'
    <3>1. \A n \in Mms, b \in Addrs : pte'[n][b].st = "present" <=> pte[n][b].st = "present"
      BY <1>1 DEF CompressSample, Goto
    <3> QED BY <1>1, <2>a, <3>1, RssKept, ActorFacts DEF CompressSample, Goto
  <2>9. RefsInv'
    <3> SUFFICES ASSUME NEW p \in Pages PROVE Counted(p)' <= refs'[p]
      BY DEF RefsInv
    <3>1. Counted(p) <= refs[p] /\ refs[p] \in Nat /\ refs'[p] \in Nat
      BY <2>f DEF RefsInv, RefsType
    <3>2. Mapped(p)' \subseteq Mapped(p)
      BY <1>1 DEF Mapped, CompressSample
    <3>3. Holding(p)' \subseteq Holding(p) \union {c}
      BY <2>a, HoldingSteps, ActorFacts
    <3>4. p # pte[m][a].page => Holding(p)' \subseteq Holding(p)
      <4>1. reg'[c].page = pte[m][a].page
        BY <2>a DEF RegSample, NoReg
      <4> QED BY <2>a, <4>1, HoldingSteps, ActorFacts DEF Holds
    <3>5. refs'[p] = IF p = pte[m][a].page THEN refs[p] + 1 ELSE refs[p]
      BY <1>1, <2>d DEF RefsType, CompressSample
    <3> QED BY <3>1, <3>2, <3>3, <3>4, <3>5, CountedSteps, CountedType
  <2> QED BY <2>1, <2>2, <2>3, <2>4, <2>5, <2>6, <2>7, <2>8, <2>9
<1>2. ASSUME NEW c \in Compressors, CompressPack(c)
      PROVE  IInv'
  <2>p. PICK h \in Handles : reg' = [reg EXCEPT ![c].handle = h]
    BY <1>2 DEF CompressPack, Goto
  <2>a. /\ OnlyActor(c) /\ pc[c] = "sampled"
        /\ pc'[c] = "packed"
        /\ reg'[c] = [reg[c] EXCEPT !.handle = h]
    BY <1>2, <2>p DEF OnlyActor, PcType, RegType, CompressPack, Goto
  <2>b. CompressorOk(c) /\ reg[c] \in Regs
    BY ActorFacts DEF LocalsInv, LocalOk, RegType
  <2>c. CompressorOk(c)' /\ reg'[c] \in Regs
    <3>1. h \in Handles
      BY <2>p
    <3>2. /\ reg'[c] \in Regs /\ reg'[c].handle = h
          /\ reg'[c].mm = reg[c].mm /\ reg'[c].key = reg[c].key
          /\ reg'[c].pte = reg[c].pte /\ reg'[c].page = reg[c].page
      BY <2>a, <2>b, <3>1, RegUpdates
    <3> QED BY <2>a, <2>b, <3>1, <3>2 DEF CompressorOk
  <2>1. MemType' /\ PteType' /\ RefsType' /\ RssType' /\ WorldType'
    BY <1>2 DEF MemType, PteType, RefsType, RssType, WorldType, CompressPack, Goto
  <2>2. PoolType'
    <3>1. ram[reg[c].page] \in Data \union {Junk}
      BY <2>a, <2>b DEF CompressorOk, MemType
    <3> QED BY <1>2, <3>1 DEF PoolType, CompressPack
  <2>3. PcType'
    BY <1>2 DEF PcType, Labels, CompressPack, Goto
  <2>4. RegType'
    BY <1>2, <2>p, <2>c DEF RegType, CompressPack, Goto
  <2>5. LocalsInv'
    BY <2>a, <2>c, LocalsKept, ActorFacts
  <2>6. ZapInv'
    BY <1>2, <2>a, ZapKept, ActorFacts DEF ZapInv, Zapping, CompressPack, Goto
  <2>7. ExitInv'
    BY <1>2, <2>a, ExitKept, ActorFacts
      DEF ExitInv, Exiting, WorldType, CompressPack, Goto
  <2>8. RssExact'
    <3>1. \A n \in Mms, b \in Addrs : pte'[n][b].st = "present" <=> pte[n][b].st = "present"
      BY <1>2 DEF CompressPack, Goto
    <3> QED BY <1>2, <2>a, <3>1, RssKept, ActorFacts DEF CompressPack, Goto
  <2>9. RefsInv'
    <3>1. \A p \in Pages : Holds(c, p)' => Holds(c, p)
      BY <2>a, <2>b, NoRegFacts DEF Holds, NoReg, CompressorOk
    <3>2. \A n \in Mms, b \in Addrs : pte'[n][b].page \in {pte[n][b].page, None}
      BY <1>2 DEF CompressPack, Goto
    <3> QED BY <1>2, <2>a, <3>1, <3>2, RefsKept, ActorFacts DEF CompressPack, Goto
  <2> QED BY <2>1, <2>2, <2>3, <2>4, <2>5, <2>6, <2>7, <2>8, <2>9
<1>3. ASSUME NEW c \in Compressors, CompressGiveUp(c)
      PROVE  IInv'
  <2>a. /\ OnlyActor(c) /\ pc[c] = "sampled"
        /\ pc'[c] = "idle"
        /\ reg'[c] = NoReg
    BY <1>3 DEF OnlyActor, PcType, RegType, CompressGiveUp, PutPage, Return, Goto
  <2>b. CompressorOk(c) /\ reg[c] \in Regs
    BY ActorFacts DEF LocalsInv, LocalOk, RegType
  <2>c. CompressorOk(c)' /\ reg'[c] \in Regs
    BY <2>a, <2>b, NoRegFacts DEF CompressorOk
  <2>d. reg[c].page \in Pages /\ c \in Holding(reg[c].page)
    BY <1>3, <2>a, <2>b, ActorFacts DEF Mapped, Holding, Holds, CompressorOk
  <2>e. refs[reg[c].page] >= 1
    BY <2>d, InUse DEF RefsInv, RefsType
  <2>f. refs' \in [Pages -> Nat]
    BY <1>3, <2>d, <2>e DEF RefsType, CompressGiveUp, PutPage, Return, Goto
  <2>1. MemType' /\ PteType' /\ RssType' /\ PoolType' /\ WorldType'
    BY <1>3 DEF MemType, PteType, RssType, PoolType, WorldType, CompressGiveUp, PutPage,
      Return, Goto
  <2>2. RefsType'
    BY <2>f DEF RefsType
  <2>3. PcType'
    BY <1>3 DEF PcType, Labels, CompressGiveUp, PutPage, Return, Goto
  <2>4. RegType'
    BY <1>3, <2>c DEF RegType, CompressGiveUp, PutPage, Return, Goto
  <2>5. LocalsInv'
    BY <2>a, <2>c, LocalsKept, ActorFacts
  <2>6. ZapInv'
    BY <1>3, <2>a, ZapKept, ActorFacts
      DEF ZapInv, Zapping, CompressGiveUp, PutPage, Return, Goto
  <2>7. ExitInv'
    BY <1>3, <2>a, ExitKept, ActorFacts
      DEF ExitInv, Exiting, WorldType, CompressGiveUp, PutPage, Return, Goto
  <2>8. RssExact'
    <3>1. \A n \in Mms, b \in Addrs : pte'[n][b].st = "present" <=> pte[n][b].st = "present"
      BY <1>3 DEF CompressGiveUp, PutPage, Return, Goto
    <3> QED BY <1>3, <2>a, <3>1, RssKept, ActorFacts
      DEF CompressGiveUp, PutPage, Return, Goto
  <2>9. RefsInv'
    <3> SUFFICES ASSUME NEW p \in Pages PROVE Counted(p)' <= refs'[p]
      BY DEF RefsInv
    <3>1. Counted(p) <= refs[p] /\ refs[p] \in Nat /\ refs'[p] \in Nat
      BY <2>f DEF RefsInv, RefsType
    <3>2. Mapped(p)' \subseteq Mapped(p)
      BY <1>3 DEF Mapped, CompressGiveUp, PutPage, Return, Goto
    <3>3. Holding(p)' \subseteq Holding(p) \ {c} /\ (c \in Holding(p) => p = reg[c].page)
      BY <2>a, NoRegFacts, HoldingSteps, ActorFacts DEF Holding, Holds
    <3>4. refs'[p] = IF p = reg[c].page THEN refs[p] - 1 ELSE refs[p]
      BY <1>3, <2>d DEF RefsType, CompressGiveUp, PutPage, Return, Goto
    <3> QED BY <3>1, <3>2, <3>3, <3>4, <2>d, CountedSteps, CountedType
  <2> QED BY <2>1, <2>2, <2>3, <2>4, <2>5, <2>6, <2>7, <2>8, <2>9
<1>4. ASSUME NEW c \in Compressors, CompressMap(c)
      PROVE  IInv'
  <2>a. /\ OnlyActor(c) /\ pc[c] = "packed"
        /\ pc'[c] = "mapped"
        /\ reg'[c] = reg[c]
    BY <1>4 DEF OnlyActor, PcType, RegType, CompressMap, Goto
  <2>b. CompressorOk(c) /\ reg[c] \in Regs
    BY ActorFacts DEF LocalsInv, LocalOk, RegType
  <2>c. CompressorOk(c)' /\ reg'[c] \in Regs
    BY <2>a, <2>b, NoRegFacts DEF CompressorOk
  <2>1. MemType' /\ PteType' /\ RefsType' /\ RssType' /\ RegType' /\ WorldType'
    BY <1>4 DEF MemType, PteType, RefsType, RssType, RegType, WorldType, CompressMap, Goto
  <2>2. PoolType'
    BY <1>4 DEF RegType, Regs, PoolType, CompressMap, Goto
  <2>3. PcType'
    BY <1>4 DEF PcType, Labels, CompressMap, Goto
  <2>4. LocalsInv'
    BY <2>a, <2>c, LocalsKept, ActorFacts
  <2>5. ZapInv'
    BY <1>4, <2>a, ZapKept, ActorFacts DEF ZapInv, Zapping, CompressMap, Goto
  <2>6. ExitInv'
    BY <1>4, <2>a, ExitKept, ActorFacts
      DEF ExitInv, Exiting, WorldType, CompressMap, Goto
  <2>7. RssExact'
    <3>1. \A n \in Mms, b \in Addrs : pte'[n][b].st = "present" <=> pte[n][b].st = "present"
      BY <1>4 DEF CompressMap, Goto
    <3> QED BY <1>4, <2>a, <3>1, RssKept, ActorFacts DEF CompressMap, Goto
  <2>8. RefsInv'
    <3>1. \A p \in Pages : Holds(c, p)' => Holds(c, p)
      BY <2>a, <2>b, NoRegFacts DEF Holds, NoReg, CompressorOk
    <3>2. \A n \in Mms, b \in Addrs : pte'[n][b].page \in {pte[n][b].page, None}
      BY <1>4 DEF CompressMap, Goto
    <3> QED BY <1>4, <2>a, <3>1, <3>2, RefsKept, ActorFacts DEF CompressMap, Goto
  <2> QED BY <2>1, <2>2, <2>3, <2>4, <2>5, <2>6, <2>7, <2>8
<1>5. ASSUME NEW c \in Compressors, CompressMapFail(c)
      PROVE  IInv'
  <2>a. /\ OnlyActor(c) /\ pc[c] = "packed"
        /\ pc'[c] = "idle"
        /\ reg'[c] = NoReg
    BY <1>5 DEF OnlyActor, PcType, RegType, CompressMapFail, PutPage, Return, Goto
  <2>b. CompressorOk(c) /\ reg[c] \in Regs
    BY ActorFacts DEF LocalsInv, LocalOk, RegType
  <2>c. CompressorOk(c)' /\ reg'[c] \in Regs
    BY <2>a, <2>b, NoRegFacts DEF CompressorOk
  <2>d. reg[c].page \in Pages /\ c \in Holding(reg[c].page)
    BY <1>5, <2>a, <2>b, ActorFacts DEF Mapped, Holding, Holds, CompressorOk
  <2>e. refs[reg[c].page] >= 1
    BY <2>d, InUse DEF RefsInv, RefsType
  <2>f. refs' \in [Pages -> Nat]
    BY <1>5, <2>d, <2>e DEF RefsType, CompressMapFail, PutPage, Return, Goto
  <2>1. MemType' /\ PteType' /\ RssType' /\ WorldType'
    BY <1>5 DEF MemType, PteType, RssType, WorldType, CompressMapFail, PutPage, Return, Goto
  <2>2. RefsType'
    BY <2>f DEF RefsType
  <2>3. PoolType'
    BY <1>5 DEF PoolType, CompressMapFail, PutPage, Return, Goto
  <2>4. PcType'
    BY <1>5 DEF PcType, Labels, CompressMapFail, PutPage, Return, Goto
  <2>5. RegType'
    BY <1>5, <2>c DEF RegType, CompressMapFail, PutPage, Return, Goto
  <2>6. LocalsInv'
    BY <2>a, <2>c, LocalsKept, ActorFacts
  <2>7. ZapInv'
    BY <1>5, <2>a, ZapKept, ActorFacts
      DEF ZapInv, Zapping, CompressMapFail, PutPage, Return, Goto
  <2>8. ExitInv'
    BY <1>5, <2>a, ExitKept, ActorFacts
      DEF ExitInv, Exiting, WorldType, CompressMapFail, PutPage, Return, Goto
  <2>9. RssExact'
    <3>1. \A n \in Mms, b \in Addrs : pte'[n][b].st = "present" <=> pte[n][b].st = "present"
      BY <1>5 DEF CompressMapFail, PutPage, Return, Goto
    <3> QED BY <1>5, <2>a, <3>1, RssKept, ActorFacts
      DEF CompressMapFail, PutPage, Return, Goto
  <2>10. RefsInv'
    <3> SUFFICES ASSUME NEW p \in Pages PROVE Counted(p)' <= refs'[p]
      BY DEF RefsInv
    <3>1. Counted(p) <= refs[p] /\ refs[p] \in Nat /\ refs'[p] \in Nat
      BY <2>f DEF RefsInv, RefsType
    <3>2. Mapped(p)' \subseteq Mapped(p)
      BY <1>5 DEF Mapped, CompressMapFail, PutPage, Return, Goto
    <3>3. Holding(p)' \subseteq Holding(p) \ {c} /\ (c \in Holding(p) => p = reg[c].page)
      BY <2>a, NoRegFacts, HoldingSteps, ActorFacts DEF Holding, Holds
    <3>4. refs'[p] = IF p = reg[c].page THEN refs[p] - 1 ELSE refs[p]
      BY <1>5, <2>d DEF RefsType, CompressMapFail, PutPage, Return, Goto
    <3> QED BY <3>1, <3>2, <3>3, <3>4, <2>d, CountedSteps, CountedType
  <2> QED BY <2>1, <2>2, <2>3, <2>4, <2>5, <2>6, <2>7, <2>8, <2>9, <2>10
<1>6. ASSUME NEW c \in Compressors, CompressReplace(c)
      PROVE  IInv'
  <2>a. /\ OnlyActor(c) /\ pc[c] = "mapped"
        /\ pc'[c] = "replaced"
        /\ reg'[c] = reg[c]
    BY <1>6 DEF OnlyActor, PcType, RegType, CompressReplace, SetPte, Goto
  <2>b. CompressorOk(c) /\ reg[c] \in Regs
    BY ActorFacts DEF LocalsInv, LocalOk, RegType
  <2>c. CompressorOk(c)' /\ reg'[c] \in Regs
    BY <2>a, <2>b, NoRegFacts DEF CompressorOk
  <2>d. /\ reg[c].mm \in Mms /\ reg[c].key \in Addrs
        /\ pte[reg[c].mm][reg[c].key].st = "present"
    BY <1>6, <2>a, <2>b DEF CompressorOk, CompressReplace
  <2>e. OnlyEntry(reg[c].mm, reg[c].key) /\ pte'[reg[c].mm][reg[c].key] = Marker
    BY <1>6, <2>d DEF OnlyEntry, PteType, CompressReplace, SetPte
  <2>1. RefsType' /\ RssType' /\ PoolType' /\ RegType' /\ WorldType'
    BY <1>6
      DEF RefsType, RssType, PoolType, RegType, WorldType, CompressReplace, SetPte, Goto
  <2>2. MemType'
    BY <1>6 DEF MemType, CompressReplace, SetPte, Goto
  <2>3. PteType'
    BY <1>6, <2>d DEF PteType, CompressReplace, SetPte
  <2>4. PcType'
    BY <1>6 DEF PcType, Labels, CompressReplace, SetPte, Goto
  <2>5. LocalsInv'
    BY <2>a, <2>c, LocalsKept, ActorFacts
  <2>6. ZapInv'
    <3>1. PtlFree(reg[c].mm, reg[c].key)
      BY <1>6 DEF CompressReplace
    <3>2. \A u \in Threads : Zapping(u) => pte'[MmOf[u]][reg[u].key] = Marker
      BY <2>d, <2>e, <3>1, LockedOut
    <3>3. c \in Threads => ~Zapping(c)'
      BY ActorFacts
    <3> QED BY <2>a, <3>2, <3>3, ZapKept, ActorFacts
  <2>7. ExitInv'
    BY <1>6, <2>a, ExitKept, ActorFacts
      DEF ExitInv, Exiting, WorldType, CompressReplace, SetPte, Goto
  <2>8. RssExact'
    <3> SUFFICES ASSUME NEW n \in Mms
                 PROVE  rss'[n] = Cardinality(ResidentPages(n)') + Cardinality(OwedBy(n)')
      BY DEF RssExact
    <3>1. rss[n] = Cardinality(ResidentPages(n)) + Cardinality(OwedBy(n)) /\ rss[n] \in Int
      BY DEF RssExact, RssType
    <3>2. n # reg[c].mm => ResidentPages(n)' = ResidentPages(n)
      BY <2>d, <2>e, ResidentSteps
    <3>3. n = reg[c].mm => /\ reg[c].key \in ResidentPages(n)
                           /\ ResidentPages(n)' = ResidentPages(n) \ {reg[c].key}
      BY <2>d, <2>e, ResidentSteps
    <3>4. n = reg[c].mm => Cardinality(ResidentPages(n)') = Cardinality(ResidentPages(n)) - 1
      BY <3>3, CountedFinite, SizeExact
    <3>5. n # reg[c].mm => OwedBy(n)' = OwedBy(n)
      BY <2>a, NoRegFacts DEF OwedBy, OnlyActor
    <3>6. n = reg[c].mm => c \notin OwedBy(n) /\ OwedBy(n)' = OwedBy(n) \union {c}
      BY <2>a, ActorFacts DEF OwedBy, OnlyActor
    <3>7. n = reg[c].mm => Cardinality(OwedBy(n)') = Cardinality(OwedBy(n)) + 1
      BY <3>6, CountedFinite, SizeExact
    <3>8. rss'[n] = rss[n]
      BY <1>6 DEF CompressReplace
    <3> QED BY <3>1, <3>2, <3>4, <3>5, <3>7, <3>8, CountedType
  <2>9. RefsInv'
    <3>1. \A p \in Pages : Holds(c, p)' => Holds(c, p)
      BY <2>a, <2>b, NoRegFacts DEF Holds, NoReg, CompressorOk
    <3>2. \A n \in Mms, b \in Addrs : pte'[n][b].page \in {pte[n][b].page, None}
      BY <2>e DEF OnlyEntry
    <3> QED BY <1>6, <2>a, <3>1, <3>2, RefsKept, ActorFacts
      DEF CompressReplace, SetPte, Goto
  <2> QED BY <2>1, <2>2, <2>3, <2>4, <2>5, <2>6, <2>7, <2>8, <2>9
<1>7. ASSUME NEW c \in Compressors, CompressChanged(c)
      PROVE  IInv'
  <2>a. /\ OnlyActor(c) /\ pc[c] = "mapped"
        /\ pc'[c] = "undo"
        /\ reg'[c] = reg[c]
    BY <1>7 DEF OnlyActor, PcType, RegType, CompressChanged, Goto
  <2>b. CompressorOk(c) /\ reg[c] \in Regs
    BY ActorFacts DEF LocalsInv, LocalOk, RegType
  <2>c. CompressorOk(c)' /\ reg'[c] \in Regs
    BY <2>a, <2>b, NoRegFacts DEF CompressorOk
  <2>1. MemType' /\ PteType' /\ RefsType' /\ RssType' /\ PoolType' /\ RegType' /\ WorldType'
    BY <1>7 DEF MemType, PteType, RefsType, RssType, PoolType, RegType, WorldType,
      CompressChanged, Goto
  <2>2. PcType'
    BY <1>7 DEF PcType, Labels, CompressChanged, Goto
  <2>3. LocalsInv'
    BY <2>a, <2>c, LocalsKept, ActorFacts
  <2>4. ZapInv'
    BY <1>7, <2>a, ZapKept, ActorFacts DEF ZapInv, Zapping, CompressChanged, Goto
  <2>5. ExitInv'
    BY <1>7, <2>a, ExitKept, ActorFacts
      DEF ExitInv, Exiting, WorldType, CompressChanged, Goto
  <2>6. RssExact'
    <3>1. \A n \in Mms, b \in Addrs : pte'[n][b].st = "present" <=> pte[n][b].st = "present"
      BY <1>7 DEF CompressChanged, Goto
    <3> QED BY <1>7, <2>a, <3>1, RssKept, ActorFacts DEF CompressChanged, Goto
  <2>7. RefsInv'
    <3>1. \A p \in Pages : Holds(c, p)' => Holds(c, p)
      BY <2>a, <2>b, NoRegFacts DEF Holds, NoReg, CompressorOk
    <3>2. \A n \in Mms, b \in Addrs : pte'[n][b].page \in {pte[n][b].page, None}
      BY <1>7 DEF CompressChanged, Goto
    <3> QED BY <1>7, <2>a, <3>1, <3>2, RefsKept, ActorFacts DEF CompressChanged, Goto
  <2> QED BY <2>1, <2>2, <2>3, <2>4, <2>5, <2>6, <2>7
<1>8. ASSUME NEW c \in Compressors, CompressUndo(c)
      PROVE  IInv'
  <2>a. /\ OnlyActor(c) /\ pc[c] = "undo"
        /\ pc'[c] = "idle"
        /\ reg'[c] = NoReg
    BY <1>8
      DEF OnlyActor, PcType, RegType, CompressUndo, RemoveAndFree, PutPage, Return, Goto
  <2>b. CompressorOk(c) /\ reg[c] \in Regs
    BY ActorFacts DEF LocalsInv, LocalOk, RegType
  <2>c. CompressorOk(c)' /\ reg'[c] \in Regs
    BY <2>a, <2>b, NoRegFacts DEF CompressorOk
  <2>d. reg[c].page \in Pages /\ c \in Holding(reg[c].page)
    BY <1>8, <2>a, <2>b, ActorFacts DEF Mapped, Holding, Holds, CompressorOk
  <2>e. refs[reg[c].page] >= 1
    BY <2>d, InUse DEF RefsInv, RefsType
  <2>f. refs' \in [Pages -> Nat]
    BY <1>8, <2>d, <2>e DEF RefsType, CompressUndo, RemoveAndFree, PutPage, Return, Goto
  <2>1. MemType' /\ PteType' /\ RssType' /\ WorldType'
    BY <1>8 DEF MemType, PteType, RssType, WorldType, CompressUndo, RemoveAndFree, PutPage,
      Return, Goto
  <2>2. RefsType'
    BY <2>f DEF RefsType
  <2>3. PoolType'
    BY <1>8 DEF PoolType, CompressUndo, RemoveAndFree, PutPage, Return, Goto
  <2>4. PcType'
    BY <1>8 DEF PcType, Labels, CompressUndo, RemoveAndFree, PutPage, Return, Goto
  <2>5. RegType'
    BY <1>8, <2>c DEF RegType, CompressUndo, RemoveAndFree, PutPage, Return, Goto
  <2>6. LocalsInv'
    BY <2>a, <2>c, LocalsKept, ActorFacts
  <2>7. ZapInv'
    BY <1>8, <2>a, ZapKept, ActorFacts
      DEF ZapInv, Zapping, CompressUndo, RemoveAndFree, PutPage, Return, Goto
  <2>8. ExitInv'
    BY <1>8, <2>a, ExitKept, ActorFacts
      DEF ExitInv, Exiting, WorldType, CompressUndo, RemoveAndFree, PutPage, Return,
          Goto
  <2>9. RssExact'
    <3>1. \A n \in Mms, b \in Addrs : pte'[n][b].st = "present" <=> pte[n][b].st = "present"
      BY <1>8 DEF CompressUndo, RemoveAndFree, PutPage, Return, Goto
    <3> QED BY <1>8, <2>a, <3>1, RssKept, ActorFacts
      DEF CompressUndo, RemoveAndFree, PutPage, Return, Goto
  <2>10. RefsInv'
    <3> SUFFICES ASSUME NEW p \in Pages PROVE Counted(p)' <= refs'[p]
      BY DEF RefsInv
    <3>1. Counted(p) <= refs[p] /\ refs[p] \in Nat /\ refs'[p] \in Nat
      BY <2>f DEF RefsInv, RefsType
    <3>2. Mapped(p)' \subseteq Mapped(p)
      BY <1>8 DEF Mapped, CompressUndo, RemoveAndFree, PutPage, Return, Goto
    <3>3. Holding(p)' \subseteq Holding(p) \ {c} /\ (c \in Holding(p) => p = reg[c].page)
      BY <2>a, NoRegFacts, HoldingSteps, ActorFacts DEF Holding, Holds
    <3>4. refs'[p] = IF p = reg[c].page THEN refs[p] - 1 ELSE refs[p]
      BY <1>8, <2>d DEF RefsType, CompressUndo, RemoveAndFree, PutPage, Return, Goto
    <3> QED BY <3>1, <3>2, <3>3, <3>4, <2>d, CountedSteps, CountedType
  <2> QED BY <2>1, <2>2, <2>3, <2>4, <2>5, <2>6, <2>7, <2>8, <2>9, <2>10
<1>9. ASSUME NEW c \in Compressors, CompressFinish(c)
      PROVE  IInv'
  <2>a. /\ OnlyActor(c) /\ pc[c] = "replaced"
        /\ pc'[c] = "idle"
        /\ reg'[c] = NoReg
    BY <1>9 DEF OnlyActor, PcType, RegType, CompressFinish, PutPage, Return, Goto
  <2>b. CompressorOk(c) /\ reg[c] \in Regs
    BY ActorFacts DEF LocalsInv, LocalOk, RegType
  <2>c. CompressorOk(c)' /\ reg'[c] \in Regs
    BY <2>a, <2>b, NoRegFacts DEF CompressorOk
  <2>d. reg[c].page \in Pages /\ c \in Holding(reg[c].page)
    BY <1>9, <2>a, <2>b, ActorFacts DEF Mapped, Holding, Holds, CompressorOk
  <2>e. refs[reg[c].page] >= 1
    BY <2>d, InUse DEF RefsInv, RefsType
  <2>f. refs' \in [Pages -> Nat]
    BY <1>9, <2>d, <2>e DEF RefsType, CompressFinish, PutPage, Return, Goto
  <2>1. MemType' /\ PteType' /\ PoolType' /\ WorldType'
    BY <1>9 DEF MemType, PteType, PoolType, WorldType, CompressFinish, PutPage, Return, Goto
  <2>2. RefsType'
    BY <2>f DEF RefsType
  <2>3. RssType'
    <3>1. reg[c].mm \in Mms /\ rss[reg[c].mm] \in Int
      BY <2>a, <2>b DEF CompressorOk, RssType
    <3> QED BY <1>9, <3>1 DEF RssType, CompressFinish
  <2>4. PcType'
    BY <1>9 DEF PcType, Labels, CompressFinish, PutPage, Return, Goto
  <2>5. RegType'
    BY <1>9, <2>c DEF RegType, CompressFinish, PutPage, Return, Goto
  <2>6. LocalsInv'
    BY <2>a, <2>c, LocalsKept, ActorFacts
  <2>7. ZapInv'
    BY <1>9, <2>a, ZapKept, ActorFacts
      DEF ZapInv, Zapping, CompressFinish, PutPage, Return, Goto
  <2>8. ExitInv'
    BY <1>9, <2>a, ExitKept, ActorFacts
      DEF ExitInv, Exiting, WorldType, CompressFinish, PutPage, Return, Goto
  <2>9. RssExact'
    <3> SUFFICES ASSUME NEW n \in Mms
                 PROVE  rss'[n] = Cardinality(ResidentPages(n)') + Cardinality(OwedBy(n)')
      BY DEF RssExact
    <3>1. rss[n] = Cardinality(ResidentPages(n)) + Cardinality(OwedBy(n)) /\ rss[n] \in Int
      BY DEF RssExact, RssType
    <3>2. n # reg[c].mm => OwedBy(n)' = OwedBy(n)
      BY <2>a, NoRegFacts DEF OwedBy, OnlyActor
    <3>3. n = reg[c].mm => c \in OwedBy(n) /\ OwedBy(n)' = OwedBy(n) \ {c}
      BY <2>a, ActorFacts DEF OwedBy, OnlyActor
    <3>4. n = reg[c].mm => Cardinality(OwedBy(n)') = Cardinality(OwedBy(n)) - 1
      BY <3>3, CountedFinite, SizeExact
    <3>5. ResidentPages(n)' = ResidentPages(n)
      BY <1>9 DEF ResidentPages, CompressFinish
    <3>6. rss'[n] = IF n = reg[c].mm THEN rss[n] - 1 ELSE rss[n]
      BY <1>9, <2>a, <2>b DEF RssType, CompressorOk, CompressFinish
    <3> QED BY <3>1, <3>2, <3>4, <3>5, <3>6, CountedType
  <2>10. RefsInv'
    <3> SUFFICES ASSUME NEW p \in Pages PROVE Counted(p)' <= refs'[p]
      BY DEF RefsInv
    <3>1. Counted(p) <= refs[p] /\ refs[p] \in Nat /\ refs'[p] \in Nat
      BY <2>f DEF RefsInv, RefsType
    <3>2. Mapped(p)' \subseteq Mapped(p)
      BY <1>9 DEF Mapped, CompressFinish, PutPage, Return, Goto
    <3>3. Holding(p)' \subseteq Holding(p) \ {c} /\ (c \in Holding(p) => p = reg[c].page)
      BY <2>a, NoRegFacts, HoldingSteps, ActorFacts DEF Holding, Holds
    <3>4. refs'[p] = IF p = reg[c].page THEN refs[p] - 1 ELSE refs[p]
      BY <1>9, <2>d DEF RefsType, CompressFinish, PutPage, Return, Goto
    <3> QED BY <3>1, <3>2, <3>3, <3>4, <2>d, CountedSteps, CountedType
  <2> QED BY <2>1, <2>2, <2>3, <2>4, <2>5, <2>6, <2>7, <2>8, <2>9, <2>10
<1>10. ASSUME NEW t \in Threads, NEW a \in Addrs, NEW d \in Data, Touch(t, a, d)
      PROVE  IInv'
  <2>p. PICK q \in Pages : /\ refs[q] = 0 /\ refs' = [refs EXCEPT ![q] = 1]
                           /\ pte' = [pte EXCEPT ![MmOf[t]][a] = Present(q, TRUE)]
    BY <1>10 DEF Touch, AllocPage, SetPte
  <2>a. OnlyActor(t) /\ MmOf[t] \in Mms
    BY <1>10, ActorFacts DEF OnlyActor, Touch
  <2>b. OnlyEntry(MmOf[t], a)
    BY <2>a, <2>p DEF OnlyEntry, PteType
  <2>c. pte[MmOf[t]][a] = NoPte /\ pte'[MmOf[t]][a] = Present(q, TRUE)
    BY <1>10, <2>a, <2>p DEF PteType, Touch
  <2>d. /\ pte[MmOf[t]][a].st # "present" /\ pte'[MmOf[t]][a].st = "present"
        /\ pte'[MmOf[t]][a].page = q
    <3>1. Present(q, TRUE).st = "present" /\ Present(q, TRUE).page = q
      BY ONLY <2>p, PresentFacts
    <3> QED BY ONLY <2>c, <3>1, PteFacts
  <2>f. refs' \in [Pages -> Nat]
    BY <2>p DEF RefsType
  <2>1. PoolType' /\ PcType' /\ RegType' /\ WorldType' /\ LocalsInv' /\ ExitInv'
    BY <1>10 DEF PoolType, PcType, Labels, RegType, WorldType, LocalsInv, LocalOk,
      CompressorOk, ThreadOk, TesterOk, UnloaderOk, ExitInv, Exiting, Touch,
      AllocPage, SetPte, Running
  <2>2. MemType'
    BY <1>10 DEF MemType, Touch, AllocPage, SetPte, Running
  <2>3. PteType'
    BY <2>a, <2>p, PresentFacts DEF PteType
  <2>4. RefsType'
    BY <2>f DEF RefsType
  <2>5. RssType'
    BY <1>10 DEF RssType, Touch, AllocPage, SetPte, Running
  <2>6. ZapInv'
    <3>1. PtlFree(MmOf[t], a)
      BY <1>10 DEF Touch
    <3>2. \A u \in Threads : Zapping(u) => pte'[MmOf[u]][reg[u].key] = Marker
      BY <2>a, <2>b, <3>1, LockedOut
    <3>3. t \in Threads => ~Zapping(t)'
      BY <1>10 DEF Touch, Running, Zapping
    <3> QED BY <2>a, <3>2, <3>3, ZapKept, ActorFacts
  <2>7. RssExact'
    <3> SUFFICES ASSUME NEW n \in Mms
                 PROVE  rss'[n] = Cardinality(ResidentPages(n)') + Cardinality(OwedBy(n)')
      BY DEF RssExact
    <3>1. rss[n] = Cardinality(ResidentPages(n)) + Cardinality(OwedBy(n)) /\ rss[n] \in Int
      BY DEF RssExact, RssType
    <3>2. n # MmOf[t] => ResidentPages(n)' = ResidentPages(n)
      BY <2>a, <2>b, <2>d, ResidentSteps
    <3>3. n = MmOf[t] => /\ a \notin ResidentPages(n)
                         /\ ResidentPages(n)' = ResidentPages(n) \union {a}
      BY <2>a, <2>b, <2>d, ResidentSteps
    <3>4. n = MmOf[t] => Cardinality(ResidentPages(n)') = Cardinality(ResidentPages(n)) + 1
      BY <3>3, CountedFinite, SizeExact
    <3>5. OwedBy(n)' = OwedBy(n)
      BY <1>10 DEF OwedBy, Touch
    <3>6. rss'[n] = IF n = MmOf[t] THEN rss[n] + 1 ELSE rss[n]
      BY <1>10, <2>a DEF RssType, Touch
    <3> QED BY <3>1, <3>2, <3>4, <3>5, <3>6, CountedType
  <2>8. RefsInv'
    <3> SUFFICES ASSUME NEW p \in Pages PROVE Counted(p)' <= refs'[p]
      BY DEF RefsInv
    <3>1. Counted(p) <= refs[p] /\ refs[p] \in Nat /\ refs'[p] \in Nat
      BY <2>f DEF RefsInv, RefsType
    <3>2. Mapped(p)' \subseteq Mapped(p) \union {<<MmOf[t], a>>}
      BY <2>a, <2>b, MappedSteps
    <3>3. p # q => Mapped(p)' \subseteq Mapped(p)
      BY <2>a, <2>b, <2>d, MappedSteps
    <3>4. Holding(p)' \subseteq Holding(p)
      BY <1>10 DEF Holding, Holds, Touch
    <3>5. refs'[p] = (IF p = q THEN 1 ELSE refs[p]) /\ (p = q => refs[p] = 0)
      BY <2>p DEF RefsType
    <3>6. CASE p = q
      <4>1. Counted(p)' \in Nat /\ Counted(p)' <= Counted(p) + 1
        BY <3>2, <3>3, <3>4, <3>6, CountedSteps
      <4> QED BY <3>1, <3>5, <3>6, <4>1, CountedType
    <3>7. CASE p # q
      <4>1. Counted(p)' \in Nat /\ Counted(p)' <= Counted(p)
        BY <3>2, <3>3, <3>4, <3>7, CountedSteps
      <4> QED BY <3>1, <3>5, <3>7, <4>1, CountedType
    <3> QED BY <3>6, <3>7
  <2> QED BY <2>1, <2>2, <2>3, <2>4, <2>5, <2>6, <2>7, <2>8
<1>11. ASSUME NEW t \in Threads, NEW a \in Addrs, NEW d \in Data, Write(t, a, d)
      PROVE  IInv'
  <2>a. OnlyActor(t)
    BY <1>11 DEF OnlyActor, Write
  <2>b. /\ pte[MmOf[t]][a].st = "present" /\ pte[MmOf[t]][a].page \in Pages
        /\ pte' = [pte EXCEPT ![MmOf[t]][a] = Present(pte[MmOf[t]][a].page, TRUE)]
    BY <1>11, ActorFacts DEF PteType, Write, SetPte
  <2>c. OnlyEntry(MmOf[t], a)
    BY <2>b, ActorFacts DEF OnlyEntry, PteType
  <2>d. /\ pte'[MmOf[t]][a] \in Ptes /\ pte'[MmOf[t]][a].st = "present"
        /\ pte'[MmOf[t]][a].page = pte[MmOf[t]][a].page
    <3>1. pte'[MmOf[t]][a] = Present(pte[MmOf[t]][a].page, TRUE)
      BY <2>b, ActorFacts DEF PteType
    <3> QED BY ONLY <2>b, <3>1, PresentFacts
  <2>1. /\ RefsType' /\ RssType' /\ PoolType' /\ PcType'
        /\ RegType' /\ WorldType' /\ LocalsInv' /\ ExitInv'
    BY <1>11 DEF RefsType, RssType, PoolType, PcType, Labels, RegType, WorldType, LocalsInv,
      LocalOk, CompressorOk, ThreadOk, TesterOk, UnloaderOk, ExitInv, Exiting,
      Write, SetPte, Running
  <2>2. MemType'
    BY <1>11 DEF PteType, MemType, Write, SetPte, Running
  <2>3. PteType'
    BY <2>b, PresentFacts DEF PteType
  <2>4. ZapInv'
    <3>1. ASSUME NEW u \in Threads, Zapping(u)
          PROVE  pte'[MmOf[u]][reg[u].key] = Marker
      <4>1. ThreadOk(u) /\ pte[MmOf[u]][reg[u].key] = Marker
        BY <3>1, ActorFacts DEF LocalsInv, LocalOk, ZapInv
      <4>2. MmOf[u] \in Mms /\ reg[u].key \in Addrs
        BY <3>1, <4>1, ActorFacts DEF ThreadOk, Zapping
      <4>3. MmOf[u] # MmOf[t] \/ reg[u].key # a
        BY <1>11, <4>1 DEF Write
      <4> QED BY <2>c, <4>1, <4>2, <4>3 DEF OnlyEntry
    <3>2. ~Zapping(t)'
      BY <1>11 DEF Write, Running, Zapping
    <3> QED BY <2>a, <3>1, <3>2, ZapKept, ActorFacts
  <2>5. RssExact'
    <3>1. \A n \in Mms, b \in Addrs : pte'[n][b].st = "present" <=> pte[n][b].st = "present"
      BY <2>b, <2>c, <2>d DEF OnlyEntry
    <3> QED BY <1>11, <2>a, <3>1, RssKept, ActorFacts DEF Write
  <2>6. RefsInv'
    <3>1. \A n \in Mms, b \in Addrs : pte'[n][b].page \in {pte[n][b].page, None}
      BY <2>c, <2>d DEF OnlyEntry
    <3> QED BY <1>11, <2>a, <3>1, RefsKept, ActorFacts DEF Write, Holds
  <2> QED BY <2>1, <2>2, <2>3, <2>4, <2>5, <2>6
<1>12. ASSUME NEW t \in Threads, NEW a \in Addrs, NEW d \in Data, StaleWrite(t, a, d)
      PROVE  IInv'
  <2>s. LocalsInv' /\ ZapInv' /\ RssExact' /\ RefsInv'
    BY <1>12, Still DEF StaleWrite, Running
  <2>1. /\ PteType' /\ RefsType' /\ RssType' /\ PoolType'
        /\ PcType' /\ RegType' /\ WorldType' /\ ExitInv'
    BY <1>12 DEF PteType, RefsType, RssType, PoolType, PcType, Labels, RegType, WorldType,
      ExitInv, Exiting, StaleWrite, Running
  <2>2. MemType'
    BY <1>12 DEF MemType, StaleWrite, Running
  <2>3. LocalsInv'
    BY <2>s
  <2>4. ZapInv'
    BY <2>s
  <2>5. RssExact'
    BY <2>s
  <2>6. RefsInv'
    BY <2>s
  <2> QED BY <2>1, <2>2, <2>3, <2>4, <2>5, <2>6
<1>13. ASSUME TlbEvict
      PROVE  IInv'
  <2>s. LocalsInv' /\ ZapInv' /\ RssExact' /\ RefsInv'
    BY <1>13, Still DEF TlbEvict
  <2>1. /\ PteType' /\ RefsType' /\ RssType' /\ PoolType'
        /\ PcType' /\ RegType' /\ WorldType' /\ ExitInv'
    BY <1>13 DEF PteType, RefsType, RssType, PoolType, PcType, Labels, RegType, WorldType,
      ExitInv, Exiting, TlbEvict
  <2>2. MemType'
    BY <1>13 DEF MemType, TlbEvict
  <2>3. LocalsInv'
    BY <2>s
  <2>4. ZapInv'
    BY <2>s
  <2>5. RssExact'
    BY <2>s
  <2>6. RefsInv'
    BY <2>s
  <2> QED BY <2>1, <2>2, <2>3, <2>4, <2>5, <2>6
<1>14. ASSUME NEW t \in Threads, NEW a \in Addrs, Discard(t, a)
      PROVE  IInv'
  <2>a. OnlyActor(t) /\ MmOf[t] \in Mms
    BY <1>14, ActorFacts DEF OnlyActor, Discard
  <2>b. OnlyEntry(MmOf[t], a)
    BY <1>14, <2>a DEF OnlyEntry, PteType, Discard, Unmap, SetPte
  <2>c. pte[MmOf[t]][a].st = "present" /\ pte'[MmOf[t]][a] = NoPte
    BY <1>14, <2>a DEF PteType, Discard, Unmap, SetPte
  <2>d. pte[MmOf[t]][a].page \in Pages /\ <<MmOf[t], a>> \in Mapped(pte[MmOf[t]][a].page)
    BY <1>14, <2>a, <2>b, ActorFacts
      DEF Mapped, Holding, Holds, PteType, Discard, Unmap, SetPte, PutPage
  <2>e. refs[pte[MmOf[t]][a].page] >= 1
    BY <2>d, InUse DEF RefsInv, RefsType
  <2>f. refs' \in [Pages -> Nat]
    BY <1>14, <2>d, <2>e DEF RefsType, Discard, Unmap, SetPte, PutPage
  <2>1. PoolType' /\ PcType' /\ RegType' /\ WorldType' /\ LocalsInv' /\ ExitInv'
    BY <1>14 DEF PoolType, PcType, Labels, RegType, WorldType, LocalsInv, LocalOk,
      CompressorOk, ThreadOk, TesterOk, UnloaderOk, ExitInv, Exiting, Discard,
      Unmap, SetPte, PutPage
  <2>2. MemType'
    BY <1>14 DEF MemType, Discard, Unmap, SetPte, PutPage
  <2>3. PteType'
    BY <1>14 DEF PteType, Discard, Unmap, SetPte, PutPage
  <2>4. RefsType'
    BY <2>f DEF RefsType
  <2>5. RssType'
    BY <1>14 DEF RssType, Discard, Unmap, SetPte, PutPage
  <2>6. ZapInv'
    <3>1. PtlFree(MmOf[t], a)
      BY <1>14 DEF Discard
    <3>2. \A u \in Threads : Zapping(u) => pte'[MmOf[u]][reg[u].key] = Marker
      BY <2>a, <2>b, <3>1, LockedOut
    <3>3. t \in Threads => ~Zapping(t)'
      BY <1>14 DEF Discard, Running, Zapping
    <3> QED BY <2>a, <3>2, <3>3, ZapKept, ActorFacts
  <2>7. RssExact'
    <3> SUFFICES ASSUME NEW n \in Mms
                 PROVE  rss'[n] = Cardinality(ResidentPages(n)') + Cardinality(OwedBy(n)')
      BY DEF RssExact
    <3>1. rss[n] = Cardinality(ResidentPages(n)) + Cardinality(OwedBy(n)) /\ rss[n] \in Int
      BY DEF RssExact, RssType
    <3>2. n # MmOf[t] => ResidentPages(n)' = ResidentPages(n)
      BY <2>a, <2>b, <2>c, ResidentSteps
    <3>3. n = MmOf[t] => /\ a \in ResidentPages(n)
                         /\ ResidentPages(n)' = ResidentPages(n) \ {a}
      BY <2>a, <2>b, <2>c, ResidentSteps
    <3>4. n = MmOf[t] => Cardinality(ResidentPages(n)') = Cardinality(ResidentPages(n)) - 1
      BY <3>3, CountedFinite, SizeExact
    <3>5. OwedBy(n)' = OwedBy(n)
      BY <1>14 DEF OwedBy, Discard
    <3>6. rss'[n] = IF n = MmOf[t] THEN rss[n] - 1 ELSE rss[n]
      BY <1>14, <2>a DEF RssType, Discard, Unmap
    <3> QED BY <3>1, <3>2, <3>4, <3>5, <3>6, CountedType
  <2>8. RefsInv'
    <3> SUFFICES ASSUME NEW p \in Pages PROVE Counted(p)' <= refs'[p]
      BY DEF RefsInv
    <3>1. Counted(p) <= refs[p] /\ refs[p] \in Nat /\ refs'[p] \in Nat
      BY <2>f DEF RefsInv, RefsType
    <3>2. Mapped(p)' \subseteq Mapped(p) \ {<<MmOf[t], a>>}
      BY <2>a, <2>b, <2>c, MappedSteps
    <3>3. Holding(p)' \subseteq Holding(p)
      BY <1>14 DEF Holding, Holds, Discard
    <3>4. refs'[p] = IF p = pte[MmOf[t]][a].page THEN refs[p] - 1 ELSE refs[p]
      BY <1>14, <2>d DEF RefsType, Discard, Unmap, SetPte, PutPage
    <3>5. Mapped(p)' \subseteq Mapped(p)
      BY <3>2
    <3> QED BY <3>1, <3>2, <3>3, <3>4, <3>5, <2>d, CountedSteps, CountedType
  <2> QED BY <2>1, <2>2, <2>3, <2>4, <2>5, <2>6, <2>7, <2>8
<1>15. ASSUME NEW t \in Threads, NEW a \in Addrs, DiscardMarker(t, a)
      PROVE  IInv'
  <2>a. /\ OnlyActor(t) /\ pc[t] = "idle"
        /\ pc'[t] = "zap"
        /\ reg'[t] = RegZap(MmOf[t], a, IF kernel = "patched" THEN map[a] ELSE None)
    BY <1>15 DEF OnlyActor, PcType, RegType, RegZap, DiscardMarker, ZapLookup, Goto
  <2>b. ThreadOk(t) /\ reg[t] \in Regs
    BY ActorFacts DEF LocalsInv, LocalOk, RegType
  <2>c. ThreadOk(t)' /\ reg'[t] \in Regs
    <3>1. map[a] \in Handles \union {None} /\ MmOf[t] \in Mms
      BY ActorFacts DEF PoolType
    <3>2. /\ reg'[t] \in Regs
          /\ reg'[t].mm = MmOf[t]
          /\ reg'[t].key = a
          /\ reg'[t].handle = IF kernel = "patched" THEN map[a] ELSE None
      BY ONLY <2>a, <2>b, <3>1, ActorFacts, NoRegFacts, RegMade
    <3> QED BY <2>a, <2>b, <3>1, <3>2 DEF ThreadOk
  <2>d. /\ PtlFree(MmOf[t], a) /\ pte[MmOf[t]][a] = Marker /\ UNCHANGED pte
        /\ reg'[t].key = a
    <3>1. reg'[t].key = a
      BY <2>a, RegMade, ActorFacts DEF PoolType
    <3> QED BY <1>15, <3>1 DEF DiscardMarker, ZapLookup
  <2>1. MemType' /\ PteType' /\ RefsType' /\ RssType' /\ PoolType' /\ WorldType'
    BY <1>15 DEF MemType, PteType, RefsType, RssType, PoolType, WorldType, DiscardMarker,
      ZapLookup, Goto
  <2>2. PcType'
    BY <1>15 DEF PcType, Labels, DiscardMarker, ZapLookup, Goto
  <2>3. RegType'
    BY <1>15, <2>c DEF RegType, DiscardMarker, ZapLookup, Goto
  <2>4. LocalsInv'
    BY <2>a, <2>c, LocalsKept, ActorFacts
  <2>5. ZapInv'
    <3>1. \A u \in Threads \ {t} :
             Zapping(u) => ThreadOk(u) /\ <<reg[u].mm, reg[u].key>> # <<MmOf[t], a>>
      BY <2>d, ActorFacts DEF PtlFree, Zapping, LocalsInv, LocalOk
    <3>2. \A u \in Threads \ {t} : /\ Zapping(u)' <=> Zapping(u)
                                  /\ reg'[u] = reg[u]
      BY <2>a, ActorFacts DEF OnlyActor, Zapping
    <3>3. \A u \in Threads \ {t} : Zapping(u) => MmOf[u] # MmOf[t] \/ reg[u].key # a
      BY <3>1 DEF ThreadOk, Zapping
    <3> QED BY <2>d, <3>2, <3>3 DEF ZapInv
  <2>6. ExitInv'
    BY <1>15, <2>a, ExitKept, ActorFacts
      DEF ExitInv, Exiting, WorldType, Running, DiscardMarker, ZapLookup, Goto
  <2>7. RssExact'
    <3>1. \A n \in Mms, b \in Addrs : pte'[n][b].st = "present" <=> pte[n][b].st = "present"
      BY <1>15 DEF DiscardMarker, ZapLookup, Goto
    <3> QED BY <1>15, <2>a, <3>1, RssKept, ActorFacts DEF DiscardMarker, ZapLookup, Goto
  <2>8. RefsInv'
    <3>1. \A p \in Pages : Holds(t, p)' => Holds(t, p)
      BY <2>a, <2>b, NoRegFacts DEF Holds, NoReg, ThreadOk
    <3>2. \A n \in Mms, b \in Addrs : pte'[n][b].page \in {pte[n][b].page, None}
      BY <1>15 DEF DiscardMarker, ZapLookup, Goto
    <3> QED BY <1>15, <2>a, <3>1, <3>2, RefsKept, ActorFacts
      DEF DiscardMarker, ZapLookup, Goto
  <2> QED BY <2>1, <2>2, <2>3, <2>4, <2>5, <2>6, <2>7, <2>8
<1>16. ASSUME NEW t \in Threads, DiscardZap(t)
      PROVE  IInv'
  <2>a. /\ OnlyActor(t) /\ pc[t] = "zap"
        /\ pc'[t] = "idle"
        /\ reg'[t] = NoReg
    BY <1>16 DEF OnlyActor, PcType, RegType, DiscardZap, ZapRemove, RemoveAndFree, SetPte,
      Return, Goto
  <2>b. ThreadOk(t) /\ reg[t] \in Regs
    BY ActorFacts DEF LocalsInv, LocalOk, RegType
  <2>c. ThreadOk(t)' /\ reg'[t] \in Regs
    BY <2>a, <2>b, NoRegFacts DEF ThreadOk
  <2>d. /\ reg[t].mm = MmOf[t] /\ MmOf[t] \in Mms /\ reg[t].key \in Addrs
        /\ pte[MmOf[t]][reg[t].key] = Marker
    BY <2>a, <2>b, ActorFacts DEF ThreadOk, ZapInv, Zapping
  <2>e. pte' = [pte EXCEPT ![MmOf[t]][reg[t].key] = NoPte]
    BY <1>16, <2>d DEF DiscardZap, ZapRemove, SetPte
  <2>1. RefsType' /\ RssType' /\ WorldType'
    BY <1>16 DEF RefsType, RssType, WorldType, DiscardZap, ZapRemove, RemoveAndFree, SetPte,
      Return, Goto
  <2>2. MemType'
    BY <1>16 DEF MemType, DiscardZap, ZapRemove, RemoveAndFree, SetPte, Return, Goto
  <2>3. PteType'
    BY <2>d, <2>e DEF PteType
  <2>4. PoolType'
    BY <1>16 DEF PoolType, DiscardZap, ZapRemove, RemoveAndFree, SetPte, Return, Goto
  <2>5. PcType'
    BY <1>16 DEF PcType, Labels, DiscardZap, ZapRemove, RemoveAndFree, SetPte, Return, Goto
  <2>6. RegType'
    BY <1>16, <2>c DEF RegType, DiscardZap, ZapRemove, RemoveAndFree, SetPte, Return, Goto
  <2>7. LocalsInv'
    BY <2>a, <2>c, LocalsKept, ActorFacts
  <2>8. ZapInv'
    <3>1. ASSUME NEW u \in Threads \ {t}, Zapping(u)
          PROVE  pte'[MmOf[u]][reg[u].key] = Marker
      <4>1. ThreadOk(u) /\ pte[MmOf[u]][reg[u].key] = Marker
        BY <3>1, ActorFacts DEF LocalsInv, LocalOk, ZapInv
      <4>2. MmOf[u] \in Mms /\ reg[u].key \in Addrs
        BY <3>1, <4>1, ActorFacts DEF ThreadOk, Zapping
      <4>3. MmOf[u] # MmOf[t] \/ reg[u].key # reg[t].key
        BY <2>a, <3>1 DEF ZapInv, Zapping
      <4> QED BY <2>d, <2>e, <4>1, <4>2, <4>3 DEF PteType
    <3>2. ~Zapping(t)'
      BY <2>a DEF Zapping
    <3> QED BY <2>a, <3>1, <3>2, ZapKept, ActorFacts
  <2>9. ExitInv'
    BY <1>16, <2>a, ExitKept, ActorFacts
      DEF ExitInv, Exiting, WorldType, DiscardZap, ZapRemove, RemoveAndFree, SetPte,
          Return, Goto
  <2>10. RssExact'
    <3>1. \A n \in Mms, b \in Addrs : pte'[n][b].st = "present" <=> pte[n][b].st = "present"
      BY <2>d, <2>e DEF PteType
    <3> QED BY <1>16, <2>a, <3>1, RssKept, ActorFacts
      DEF DiscardZap, ZapRemove, RemoveAndFree, SetPte, Return, Goto
  <2>11. RefsInv'
    <3>1. \A p \in Pages : Holds(t, p)' => Holds(t, p)
      BY <2>a, <2>b, NoRegFacts DEF Holds, NoReg, ThreadOk
    <3>2. \A n \in Mms, b \in Addrs : pte'[n][b].page \in {pte[n][b].page, None}
      BY <2>d, <2>e DEF PteType
    <3> QED BY <1>16, <2>a, <3>1, <3>2, RefsKept, ActorFacts
      DEF DiscardZap, ZapRemove, RemoveAndFree, SetPte, Return, Goto
  <2> QED BY <2>1, <2>2, <2>3, <2>4, <2>5, <2>6, <2>7, <2>8, <2>9, <2>10, <2>11
<1>17. ASSUME NEW t \in Threads, NEW a \in Addrs, FaultUnloaded(t, a)
      PROVE  IInv'
  <2>a. OnlyActor(t) /\ pc[t] = "idle" /\ dead' = dead \union {t} /\ UNCHANGED pc
    BY <1>17 DEF OnlyActor, FaultUnloaded, Sigbus, Running
  <2>s. LocalsInv' /\ ZapInv' /\ RssExact' /\ RefsInv'
    BY <1>17, Still DEF FaultUnloaded, Sigbus
  <2>1. MemType' /\ PteType' /\ RefsType' /\ RssType' /\ PoolType' /\ PcType' /\ RegType'
    BY <1>17 DEF MemType, PteType, RefsType, RssType, PoolType, PcType, Labels, RegType,
      FaultUnloaded, Sigbus
  <2>2. WorldType'
    BY <1>17 DEF WorldType, FaultUnloaded, Sigbus
  <2>3. LocalsInv'
    BY <2>s
  <2>4. ZapInv'
    BY <2>s
  <2>5. ExitInv'
    BY <2>a, ExitKept, ActorFacts DEF Exiting, WorldType
  <2>6. RssExact'
    BY <2>s
  <2>7. RefsInv'
    BY <2>s
  <2> QED BY <2>1, <2>2, <2>3, <2>4, <2>5, <2>6, <2>7
<1>18. ASSUME NEW t \in Threads, NEW a \in Addrs, FaultStart(t, a)
      PROVE  IInv'
  <2>a. /\ OnlyActor(t) /\ pc[t] = "idle"
        /\ pc'[t] = "fault"
        /\ reg'[t] = RegAt(MmOf[t], a)
    BY <1>18 DEF OnlyActor, PcType, RegType, RegAt, FaultStart, Goto
  <2>b. ThreadOk(t) /\ reg[t] \in Regs
    BY ActorFacts DEF LocalsInv, LocalOk, RegType
  <2>c. ThreadOk(t)' /\ reg'[t] \in Regs
    <3>1. MmOf[t] \in Mms
      BY ActorFacts
    <3>2. /\ reg'[t] \in Regs
          /\ reg'[t].mm = MmOf[t]
          /\ reg'[t].key = a
      BY ONLY <2>a, <2>b, <3>1, ActorFacts, NoRegFacts, RegMade
    <3> QED BY <2>a, <2>b, <3>1, <3>2 DEF ThreadOk
  <2>1. MemType' /\ PteType' /\ RefsType' /\ RssType' /\ PoolType' /\ WorldType'
    BY <1>18 DEF MemType, PteType, RefsType, RssType, PoolType, WorldType, FaultStart, Goto
  <2>2. PcType'
    BY <1>18 DEF PcType, Labels, FaultStart, Goto
  <2>3. RegType'
    BY <1>18, <2>c DEF RegType, FaultStart, Goto
  <2>4. LocalsInv'
    BY <2>a, <2>c, LocalsKept, ActorFacts
  <2>5. ZapInv'
    BY <1>18, <2>a, ZapKept, ActorFacts DEF ZapInv, Zapping, FaultStart, Goto
  <2>6. ExitInv'
    BY <1>18, <2>a, ExitKept, ActorFacts
      DEF ExitInv, Exiting, WorldType, Running, FaultStart, Goto
  <2>7. RssExact'
    <3>1. \A n \in Mms, b \in Addrs : pte'[n][b].st = "present" <=> pte[n][b].st = "present"
      BY <1>18 DEF FaultStart, Goto
    <3> QED BY <1>18, <2>a, <3>1, RssKept, ActorFacts DEF FaultStart, Goto
  <2>8. RefsInv'
    <3>1. \A p \in Pages : Holds(t, p)' => Holds(t, p)
      BY <2>a, <2>b, NoRegFacts DEF Holds, NoReg, ThreadOk
    <3>2. \A n \in Mms, b \in Addrs : pte'[n][b].page \in {pte[n][b].page, None}
      BY <1>18 DEF FaultStart, Goto
    <3> QED BY <1>18, <2>a, <3>1, <3>2, RefsKept, ActorFacts DEF FaultStart, Goto
  <2> QED BY <2>1, <2>2, <2>3, <2>4, <2>5, <2>6, <2>7, <2>8
<1>19. ASSUME NEW t \in Threads, FaultLookup(t)
      PROVE  IInv'
  <2>a. /\ OnlyActor(t) /\ pc[t] = "fault"
        /\ pc'[t] = "found"
        /\ reg'[t] = [reg[t] EXCEPT !.handle = map[reg[t].key]]
    BY <1>19 DEF OnlyActor, PcType, RegType, FaultLookup, Goto
  <2>b. ThreadOk(t) /\ reg[t] \in Regs
    BY ActorFacts DEF LocalsInv, LocalOk, RegType
  <2>c. ThreadOk(t)' /\ reg'[t] \in Regs
    <3>1. map[reg[t].key] \in Handles
      BY <1>19, <2>a, <2>b DEF PoolType, ThreadOk, FaultLookup
    <3>2. /\ reg'[t] \in Regs /\ reg'[t].handle = map[reg[t].key]
          /\ reg'[t].mm = reg[t].mm /\ reg'[t].key = reg[t].key
          /\ reg'[t].pte = reg[t].pte /\ reg'[t].page = reg[t].page
      BY <2>a, <2>b, <3>1, RegUpdates
    <3> QED BY <2>a, <2>b, <3>1, <3>2 DEF ThreadOk
  <2>1. MemType' /\ PteType' /\ RefsType' /\ RssType' /\ PoolType' /\ WorldType'
    BY <1>19 DEF MemType, PteType, RefsType, RssType, PoolType, WorldType, FaultLookup, Goto
  <2>2. PcType'
    BY <1>19 DEF PcType, Labels, FaultLookup, Goto
  <2>3. RegType'
    BY <1>19, <2>c DEF RegType, FaultLookup, Goto
  <2>4. LocalsInv'
    BY <2>a, <2>c, LocalsKept, ActorFacts
  <2>5. ZapInv'
    BY <1>19, <2>a, ZapKept, ActorFacts DEF ZapInv, Zapping, FaultLookup, Goto
  <2>6. ExitInv'
    BY <1>19, <2>a, ExitKept, ActorFacts
      DEF ExitInv, Exiting, WorldType, FaultLookup, Goto
  <2>7. RssExact'
    <3>1. \A n \in Mms, b \in Addrs : pte'[n][b].st = "present" <=> pte[n][b].st = "present"
      BY <1>19 DEF FaultLookup, Goto
    <3> QED BY <1>19, <2>a, <3>1, RssKept, ActorFacts DEF FaultLookup, Goto
  <2>8. RefsInv'
    <3>1. \A p \in Pages : Holds(t, p)' => Holds(t, p)
      BY <2>a, <2>b, NoRegFacts DEF Holds, NoReg, ThreadOk
    <3>2. \A n \in Mms, b \in Addrs : pte'[n][b].page \in {pte[n][b].page, None}
      BY <1>19 DEF FaultLookup, Goto
    <3> QED BY <1>19, <2>a, <3>1, <3>2, RefsKept, ActorFacts DEF FaultLookup, Goto
  <2> QED BY <2>1, <2>2, <2>3, <2>4, <2>5, <2>6, <2>7, <2>8
<1>20. ASSUME NEW t \in Threads, FaultMiss(t)
      PROVE  IInv'
  <2>a. /\ OnlyActor(t) /\ pc[t] = "fault"
        /\ pc'[t] = "idle"
        /\ reg'[t] = NoReg
    BY <1>20 DEF OnlyActor, PcType, RegType, FaultMiss, Sigbus, Return, Goto
  <2>b. ThreadOk(t) /\ reg[t] \in Regs
    BY ActorFacts DEF LocalsInv, LocalOk, RegType
  <2>c. ThreadOk(t)' /\ reg'[t] \in Regs
    BY <2>a, <2>b, NoRegFacts DEF ThreadOk
  <2>1. MemType' /\ PteType' /\ RefsType' /\ RssType' /\ PoolType'
    BY <1>20
      DEF MemType, PteType, RefsType, RssType, PoolType, FaultMiss, Sigbus, Return, Goto
  <2>2. PcType'
    BY <1>20 DEF PcType, Labels, FaultMiss, Sigbus, Return, Goto
  <2>3. RegType'
    BY <1>20, <2>c DEF RegType, FaultMiss, Sigbus, Return, Goto
  <2>4. WorldType'
    BY <1>20 DEF WorldType, FaultMiss, Sigbus, Return, Goto
  <2>5. LocalsInv'
    BY <2>a, <2>c, LocalsKept, ActorFacts
  <2>6. ZapInv'
    BY <1>20, <2>a, ZapKept, ActorFacts DEF ZapInv, Zapping, FaultMiss, Sigbus, Return, Goto
  <2>7. ExitInv'
    BY <1>20, <2>a, ExitKept, ActorFacts
      DEF ExitInv, Exiting, WorldType, FaultMiss, Sigbus, Return, Goto
  <2>8. RssExact'
    <3>1. \A n \in Mms, b \in Addrs : pte'[n][b].st = "present" <=> pte[n][b].st = "present"
      BY <1>20 DEF FaultMiss, Sigbus, Return, Goto
    <3> QED BY <1>20, <2>a, <3>1, RssKept, ActorFacts DEF FaultMiss, Sigbus, Return, Goto
  <2>9. RefsInv'
    <3>1. \A p \in Pages : Holds(t, p)' => Holds(t, p)
      BY <2>a, <2>b, NoRegFacts DEF Holds, NoReg, ThreadOk
    <3>2. \A n \in Mms, b \in Addrs : pte'[n][b].page \in {pte[n][b].page, None}
      BY <1>20 DEF FaultMiss, Sigbus, Return, Goto
    <3> QED BY <1>20, <2>a, <3>1, <3>2, RefsKept, ActorFacts
      DEF FaultMiss, Sigbus, Return, Goto
  <2> QED BY <2>1, <2>2, <2>3, <2>4, <2>5, <2>6, <2>7, <2>8, <2>9
<1>21. ASSUME NEW t \in Threads, FaultFill(t)
      PROVE  IInv'
  <2>p. PICK q \in Pages : /\ refs[q] = 0 /\ refs' = [refs EXCEPT ![q] = 1]
                           /\ reg' = [reg EXCEPT ![t].page = q]
    BY <1>21 DEF FaultFill, AllocPage, ReadObj, Goto
  <2>a. /\ OnlyActor(t) /\ pc[t] = "found"
        /\ pc'[t] = "filled"
        /\ reg'[t] = [reg[t] EXCEPT !.page = q]
    BY <1>21, <2>p DEF OnlyActor, PcType, RegType, FaultFill, AllocPage, ReadObj, Goto
  <2>b. ThreadOk(t) /\ reg[t] \in Regs
    BY ActorFacts DEF LocalsInv, LocalOk, RegType
  <2>c. ThreadOk(t)' /\ reg'[t] \in Regs
    <3>1. q \in Pages
      BY <2>p
    <3>2. /\ reg'[t] \in Regs /\ reg'[t].page = q
          /\ reg'[t].mm = reg[t].mm /\ reg'[t].key = reg[t].key
          /\ reg'[t].handle = reg[t].handle
      BY <2>a, <2>b, <3>1, RegUpdates
    <3> QED BY <2>a, <2>b, <3>1, <3>2 DEF ThreadOk
  <2>f. refs' \in [Pages -> Nat]
    BY <2>p DEF RefsType
  <2>1. PteType' /\ RssType' /\ PoolType' /\ WorldType'
    BY <1>21 DEF PteType, RssType, PoolType, WorldType, FaultFill, AllocPage, ReadObj, Goto
  <2>2. MemType'
    <3>1. ReadObj(reg[t].handle) \in Data \union {Junk}
      BY <2>a, <2>b DEF ThreadOk, PoolType, ReadObj
    <3> QED BY <1>21, <3>1 DEF MemType, FaultFill, AllocPage
  <2>3. RefsType'
    BY <2>f DEF RefsType
  <2>4. PcType'
    BY <1>21 DEF PcType, Labels, FaultFill, AllocPage, ReadObj, Goto
  <2>5. RegType'
    BY <1>21, <2>p, <2>c DEF RegType, FaultFill, AllocPage, ReadObj, Goto
  <2>6. LocalsInv'
    BY <2>a, <2>c, LocalsKept, ActorFacts
  <2>7. ZapInv'
    BY <1>21, <2>a, ZapKept, ActorFacts
      DEF ZapInv, Zapping, FaultFill, AllocPage, ReadObj, Goto
  <2>8. ExitInv'
    BY <1>21, <2>a, ExitKept, ActorFacts
      DEF ExitInv, Exiting, WorldType, FaultFill, AllocPage, ReadObj, Goto
  <2>9. RssExact'
    <3>1. \A n \in Mms, b \in Addrs : pte'[n][b].st = "present" <=> pte[n][b].st = "present"
      BY <1>21 DEF FaultFill, AllocPage, ReadObj, Goto
    <3> QED BY <1>21, <2>a, <3>1, RssKept, ActorFacts
      DEF FaultFill, AllocPage, ReadObj, Goto
  <2>10. RefsInv'
    <3> SUFFICES ASSUME NEW p \in Pages PROVE Counted(p)' <= refs'[p]
      BY DEF RefsInv
    <3>1. Counted(p) <= refs[p] /\ refs[p] \in Nat /\ refs'[p] \in Nat
      BY <2>f DEF RefsInv, RefsType
    <3>2. Mapped(p)' \subseteq Mapped(p)
      BY <1>21 DEF Mapped, FaultFill
    <3>3. Holding(p)' \subseteq Holding(p) \union {t}
      BY <2>a, HoldingSteps, ActorFacts
    <3>4. p # q => Holding(p)' \subseteq Holding(p)
      <4>1. reg'[t].page = q
        BY <2>a, <2>b DEF Regs
      <4> QED BY <2>a, <4>1, HoldingSteps, ActorFacts DEF Holds
    <3>5. refs'[p] = (IF p = q THEN 1 ELSE refs[p]) /\ (p = q => refs[p] = 0)
      BY <2>p DEF RefsType
    <3>6. CASE p = q
      <4>1. Counted(p)' \in Nat /\ Counted(p)' <= Counted(p) + 1
        BY <3>2, <3>3, <3>4, <3>6, CountedSteps
      <4> QED BY <3>1, <3>5, <3>6, <4>1, CountedType
    <3>7. CASE p # q
      <4>1. Counted(p)' \in Nat /\ Counted(p)' <= Counted(p)
        BY <3>2, <3>3, <3>4, <3>7, CountedSteps
      <4> QED BY <3>1, <3>5, <3>7, <4>1, CountedType
    <3> QED BY <3>6, <3>7
  <2> QED BY <2>1, <2>2, <2>3, <2>4, <2>5, <2>6, <2>7, <2>8, <2>9, <2>10
<1>22. ASSUME NEW t \in Threads, FaultOom(t)
      PROVE  IInv'
  <2>a. /\ OnlyActor(t) /\ pc[t] = "found"
        /\ pc'[t] = "idle"
        /\ reg'[t] = NoReg
    BY <1>22 DEF OnlyActor, PcType, RegType, FaultOom, Return, Goto
  <2>b. ThreadOk(t) /\ reg[t] \in Regs
    BY ActorFacts DEF LocalsInv, LocalOk, RegType
  <2>c. ThreadOk(t)' /\ reg'[t] \in Regs
    BY <2>a, <2>b, NoRegFacts DEF ThreadOk
  <2>1. MemType' /\ PteType' /\ RefsType' /\ RssType' /\ PoolType' /\ WorldType'
    BY <1>22 DEF MemType, PteType, RefsType, RssType, PoolType, WorldType, FaultOom, Return,
      Goto
  <2>2. PcType'
    BY <1>22 DEF PcType, Labels, FaultOom, Return, Goto
  <2>3. RegType'
    BY <1>22, <2>c DEF RegType, FaultOom, Return, Goto
  <2>4. LocalsInv'
    BY <2>a, <2>c, LocalsKept, ActorFacts
  <2>5. ZapInv'
    BY <1>22, <2>a, ZapKept, ActorFacts DEF ZapInv, Zapping, FaultOom, Return, Goto
  <2>6. ExitInv'
    BY <1>22, <2>a, ExitKept, ActorFacts
      DEF ExitInv, Exiting, WorldType, FaultOom, Return, Goto
  <2>7. RssExact'
    <3>1. \A n \in Mms, b \in Addrs : pte'[n][b].st = "present" <=> pte[n][b].st = "present"
      BY <1>22 DEF FaultOom, Return, Goto
    <3> QED BY <1>22, <2>a, <3>1, RssKept, ActorFacts DEF FaultOom, Return, Goto
  <2>8. RefsInv'
    <3>1. \A p \in Pages : Holds(t, p)' => Holds(t, p)
      BY <2>a, <2>b, NoRegFacts DEF Holds, NoReg, ThreadOk
    <3>2. \A n \in Mms, b \in Addrs : pte'[n][b].page \in {pte[n][b].page, None}
      BY <1>22 DEF FaultOom, Return, Goto
    <3> QED BY <1>22, <2>a, <3>1, <3>2, RefsKept, ActorFacts DEF FaultOom, Return, Goto
  <2> QED BY <2>1, <2>2, <2>3, <2>4, <2>5, <2>6, <2>7, <2>8
<1>23. ASSUME NEW t \in Threads, ProbeOom(t)
      PROVE  IInv'
  <2>a. /\ OnlyActor(t) /\ pc[t] = "found"
        /\ pc'[t] = "idle"
        /\ reg'[t] = NoReg
    BY <1>23 DEF OnlyActor, PcType, RegType, ProbeOom, Sigbus, Return, Goto
  <2>b. ThreadOk(t) /\ reg[t] \in Regs
    BY ActorFacts DEF LocalsInv, LocalOk, RegType
  <2>c. ThreadOk(t)' /\ reg'[t] \in Regs
    BY <2>a, <2>b, NoRegFacts DEF ThreadOk
  <2>1. MemType' /\ PteType' /\ RefsType' /\ RssType' /\ PoolType'
    BY <1>23
      DEF MemType, PteType, RefsType, RssType, PoolType, ProbeOom, Sigbus, Return, Goto
  <2>2. PcType'
    BY <1>23 DEF PcType, Labels, ProbeOom, Sigbus, Return, Goto
  <2>3. RegType'
    BY <1>23, <2>c DEF RegType, ProbeOom, Sigbus, Return, Goto
  <2>4. WorldType'
    BY <1>23 DEF WorldType, ProbeOom, Sigbus, Return, Goto
  <2>5. LocalsInv'
    BY <2>a, <2>c, LocalsKept, ActorFacts
  <2>6. ZapInv'
    BY <1>23, <2>a, ZapKept, ActorFacts DEF ZapInv, Zapping, ProbeOom, Sigbus, Return, Goto
  <2>7. ExitInv'
    BY <1>23, <2>a, ExitKept, ActorFacts
      DEF ExitInv, Exiting, WorldType, ProbeOom, Sigbus, Return, Goto
  <2>8. RssExact'
    <3>1. \A n \in Mms, b \in Addrs : pte'[n][b].st = "present" <=> pte[n][b].st = "present"
      BY <1>23 DEF ProbeOom, Sigbus, Return, Goto
    <3> QED BY <1>23, <2>a, <3>1, RssKept, ActorFacts DEF ProbeOom, Sigbus, Return, Goto
  <2>9. RefsInv'
    <3>1. \A p \in Pages : Holds(t, p)' => Holds(t, p)
      BY <2>a, <2>b, NoRegFacts DEF Holds, NoReg, ThreadOk
    <3>2. \A n \in Mms, b \in Addrs : pte'[n][b].page \in {pte[n][b].page, None}
      BY <1>23 DEF ProbeOom, Sigbus, Return, Goto
    <3> QED BY <1>23, <2>a, <3>1, <3>2, RefsKept, ActorFacts
      DEF ProbeOom, Sigbus, Return, Goto
  <2> QED BY <2>1, <2>2, <2>3, <2>4, <2>5, <2>6, <2>7, <2>8, <2>9
<1>24. ASSUME NEW t \in Threads, FaultBad(t)
      PROVE  IInv'
  <2>a. /\ OnlyActor(t) /\ pc[t] = "found"
        /\ pc'[t] = "idle"
        /\ reg'[t] = NoReg
    BY <1>24 DEF OnlyActor, PcType, RegType, FaultBad, Sigbus, Return, Goto
  <2>b. ThreadOk(t) /\ reg[t] \in Regs
    BY ActorFacts DEF LocalsInv, LocalOk, RegType
  <2>c. ThreadOk(t)' /\ reg'[t] \in Regs
    BY <2>a, <2>b, NoRegFacts DEF ThreadOk
  <2>1. MemType' /\ PteType' /\ RefsType' /\ RssType' /\ PoolType'
    BY <1>24
      DEF MemType, PteType, RefsType, RssType, PoolType, FaultBad, Sigbus, Return, Goto
  <2>2. PcType'
    BY <1>24 DEF PcType, Labels, FaultBad, Sigbus, Return, Goto
  <2>3. RegType'
    BY <1>24, <2>c DEF RegType, FaultBad, Sigbus, Return, Goto
  <2>4. WorldType'
    BY <1>24 DEF WorldType, FaultBad, Sigbus, Return, Goto
  <2>5. LocalsInv'
    BY <2>a, <2>c, LocalsKept, ActorFacts
  <2>6. ZapInv'
    BY <1>24, <2>a, ZapKept, ActorFacts DEF ZapInv, Zapping, FaultBad, Sigbus, Return, Goto
  <2>7. ExitInv'
    BY <1>24, <2>a, ExitKept, ActorFacts
      DEF ExitInv, Exiting, WorldType, FaultBad, Sigbus, Return, Goto
  <2>8. RssExact'
    <3>1. \A n \in Mms, b \in Addrs : pte'[n][b].st = "present" <=> pte[n][b].st = "present"
      BY <1>24 DEF FaultBad, Sigbus, Return, Goto
    <3> QED BY <1>24, <2>a, <3>1, RssKept, ActorFacts DEF FaultBad, Sigbus, Return, Goto
  <2>9. RefsInv'
    <3>1. \A p \in Pages : Holds(t, p)' => Holds(t, p)
      BY <2>a, <2>b, NoRegFacts DEF Holds, NoReg, ThreadOk
    <3>2. \A n \in Mms, b \in Addrs : pte'[n][b].page \in {pte[n][b].page, None}
      BY <1>24 DEF FaultBad, Sigbus, Return, Goto
    <3> QED BY <1>24, <2>a, <3>1, <3>2, RefsKept, ActorFacts
      DEF FaultBad, Sigbus, Return, Goto
  <2> QED BY <2>1, <2>2, <2>3, <2>4, <2>5, <2>6, <2>7, <2>8, <2>9
<1>25. ASSUME NEW t \in Threads, FaultRemove(t)
      PROVE  IInv'
  <2>a. /\ OnlyActor(t) /\ pc[t] = "filled"
        /\ pc'[t] = "removed"
        /\ reg'[t] = reg[t]
    BY <1>25 DEF OnlyActor, PcType, RegType, FaultRemove, RemoveAndFree, Goto
  <2>b. ThreadOk(t) /\ reg[t] \in Regs
    BY ActorFacts DEF LocalsInv, LocalOk, RegType
  <2>c. ThreadOk(t)' /\ reg'[t] \in Regs
    BY <2>a, <2>b, NoRegFacts DEF ThreadOk
  <2>1. MemType' /\ PteType' /\ RefsType' /\ RssType' /\ RegType' /\ WorldType'
    BY <1>25 DEF MemType, PteType, RefsType, RssType, RegType, WorldType, FaultRemove,
      RemoveAndFree, Goto
  <2>2. PoolType'
    BY <1>25 DEF PoolType, FaultRemove, RemoveAndFree, Goto
  <2>3. PcType'
    BY <1>25 DEF PcType, Labels, FaultRemove, RemoveAndFree, Goto
  <2>4. LocalsInv'
    BY <2>a, <2>c, LocalsKept, ActorFacts
  <2>5. ZapInv'
    BY <1>25, <2>a, ZapKept, ActorFacts
      DEF ZapInv, Zapping, FaultRemove, RemoveAndFree, Goto
  <2>6. ExitInv'
    BY <1>25, <2>a, ExitKept, ActorFacts
      DEF ExitInv, Exiting, WorldType, FaultRemove, RemoveAndFree, Goto
  <2>7. RssExact'
    <3>1. \A n \in Mms, b \in Addrs : pte'[n][b].st = "present" <=> pte[n][b].st = "present"
      BY <1>25 DEF FaultRemove, RemoveAndFree, Goto
    <3> QED BY <1>25, <2>a, <3>1, RssKept, ActorFacts DEF FaultRemove, RemoveAndFree, Goto
  <2>8. RefsInv'
    <3>1. \A p \in Pages : Holds(t, p)' => Holds(t, p)
      BY <2>a, <2>b, NoRegFacts DEF Holds, NoReg, ThreadOk
    <3>2. \A n \in Mms, b \in Addrs : pte'[n][b].page \in {pte[n][b].page, None}
      BY <1>25 DEF FaultRemove, RemoveAndFree, Goto
    <3> QED BY <1>25, <2>a, <3>1, <3>2, RefsKept, ActorFacts
      DEF FaultRemove, RemoveAndFree, Goto
  <2> QED BY <2>1, <2>2, <2>3, <2>4, <2>5, <2>6, <2>7, <2>8
<1>26. ASSUME NEW t \in Threads, FaultInstall(t)
      PROVE  IInv'
  <2>a. /\ OnlyActor(t) /\ pc[t] = "removed"
        /\ pc'[t] = "idle"
        /\ reg'[t] = NoReg
    BY <1>26 DEF OnlyActor, PcType, RegType, FaultInstall, Install, SetPte, PutPage, Return,
      Goto
  <2>b. ThreadOk(t) /\ reg[t] \in Regs
    BY ActorFacts DEF LocalsInv, LocalOk, RegType
  <2>c. ThreadOk(t)' /\ reg'[t] \in Regs
    BY <2>a, <2>b, NoRegFacts DEF ThreadOk
  <2>d. /\ reg[t].page \in Pages /\ reg[t].mm \in Mms /\ reg[t].key \in Addrs
        /\ t \in Holding(reg[t].page)
    BY <2>a, <2>b, ActorFacts DEF Holding, Holds, ThreadOk
  <2>e. refs[reg[t].page] >= 1
    BY <2>d, InUse DEF RefsInv, RefsType
  <2>g. \/ /\ pte[reg[t].mm][reg[t].key] = Marker
           /\ pte' = [pte EXCEPT ![reg[t].mm][reg[t].key] = Present(reg[t].page, FALSE)]
           /\ rss' = [rss EXCEPT ![reg[t].mm] = @ + 1] /\ UNCHANGED refs
        \/ /\ refs' = [refs EXCEPT ![reg[t].page] = @ - 1]
           /\ UNCHANGED <<pte, rss>>
    BY <1>26 DEF FaultInstall, Install, SetPte, PutPage, pages
  <2>f. refs' \in [Pages -> Nat]
    BY <2>d, <2>e, <2>g DEF RefsType
  <2>h. OnlyEntry(reg[t].mm, reg[t].key)
    BY <2>d, <2>g DEF OnlyEntry, PteType
  <2>i. pte'[reg[t].mm][reg[t].key] = Present(reg[t].page, FALSE) =>
           pte'[reg[t].mm][reg[t].key].st = "present"
               /\ pte'[reg[t].mm][reg[t].key].page = reg[t].page
    BY ONLY <2>d, PresentFacts
  <2>1. MemType' /\ PoolType' /\ WorldType'
    BY <1>26
      DEF MemType, PoolType, WorldType, FaultInstall, Install, SetPte, PutPage, Return,
      Goto
  <2>2. PteType'
    <3>1. Present(reg[t].page, FALSE) \in Ptes
      BY ONLY <2>d, PresentFacts
    <3>2. pte \in [Mms -> [Addrs -> Ptes]] /\ reg[t].mm \in Mms /\ reg[t].key \in Addrs
      BY <2>d DEF PteType
    <3>3. CASE pte' = [pte EXCEPT ![reg[t].mm][reg[t].key] = Present(reg[t].page, FALSE)]
      BY ONLY <3>1, <3>2, <3>3 DEF PteType
    <3>4. CASE UNCHANGED pte
      BY ONLY <3>2, <3>4 DEF PteType
    <3> QED BY <2>g, <3>3, <3>4
  <2>3. RefsType'
    BY <2>f DEF RefsType
  <2>4. RssType'
    BY <2>d, <2>g DEF RssType
  <2>5. PcType'
    BY <1>26 DEF PcType, Labels, FaultInstall, Install, SetPte, PutPage, Return, Goto
  <2>6. RegType'
    BY <1>26, <2>c DEF RegType, FaultInstall, Install, SetPte, PutPage, Return, Goto
  <2>7. LocalsInv'
    BY <2>a, <2>c, LocalsKept, ActorFacts
  <2>8. ZapInv'
    <3>1. PtlFree(reg[t].mm, reg[t].key)
      BY <1>26 DEF FaultInstall, Install
    <3>2. \A u \in Threads : Zapping(u) => pte'[MmOf[u]][reg[u].key] = Marker
      BY <2>d, <2>h, <3>1, LockedOut
    <3>3. t \in Threads => ~Zapping(t)'
      BY <2>a DEF Zapping
    <3> QED BY <2>a, <3>2, <3>3, ZapKept, ActorFacts
  <2>9. ExitInv'
    BY <1>26, <2>a, ExitKept, ActorFacts
      DEF ExitInv, Exiting, WorldType, FaultInstall, Install, SetPte, PutPage,
          Return, Goto
  <2>10. RssExact'
    <3> SUFFICES ASSUME NEW n \in Mms
                 PROVE  rss'[n] = Cardinality(ResidentPages(n)') + Cardinality(OwedBy(n)')
      BY DEF RssExact
    <3>1. rss[n] = Cardinality(ResidentPages(n)) + Cardinality(OwedBy(n)) /\ rss[n] \in Int
      BY DEF RssExact, RssType
    <3>2. OwedBy(n)' = OwedBy(n)
      BY <2>a, OwedKept, ActorFacts
    <3>3. CASE UNCHANGED <<pte, rss>>
      <4>1. ResidentPages(n)' = ResidentPages(n)
        BY <3>3 DEF ResidentPages
      <4> QED BY <3>1, <3>2, <3>3, <4>1
    <3>4. CASE /\ pte[reg[t].mm][reg[t].key] = Marker
               /\ pte' = [pte EXCEPT ![reg[t].mm][reg[t].key] = Present(reg[t].page, FALSE)]
               /\ rss' = [rss EXCEPT ![reg[t].mm] = @ + 1]
      <4>1. /\ pte[reg[t].mm][reg[t].key].st # "present"
            /\ pte'[reg[t].mm][reg[t].key].st = "present"
        BY <2>d, <2>i, <3>4 DEF PteType
      <4>2. n # reg[t].mm => ResidentPages(n)' = ResidentPages(n)
        BY <2>d, <2>h, ResidentSteps
      <4>3. n = reg[t].mm => /\ reg[t].key \notin ResidentPages(n)
                           /\ ResidentPages(n)' = ResidentPages(n) \union {reg[t].key}
        BY <2>d, <2>h, <4>1, ResidentSteps
      <4>4. n = reg[t].mm =>
              Cardinality(ResidentPages(n)') = Cardinality(ResidentPages(n)) + 1
        BY <4>3, CountedFinite, SizeExact
      <4>5. rss'[n] = IF n = reg[t].mm THEN rss[n] + 1 ELSE rss[n]
        BY <2>d, <3>4 DEF RssType
      <4> QED BY <3>1, <3>2, <4>2, <4>4, <4>5, CountedType
    <3> QED BY <2>g, <3>3, <3>4
  <2>11. RefsInv'
    <3> SUFFICES ASSUME NEW p \in Pages PROVE Counted(p)' <= refs'[p]
      BY DEF RefsInv
    <3>1. Counted(p) <= refs[p] /\ refs[p] \in Nat /\ refs'[p] \in Nat
      BY <2>f DEF RefsInv, RefsType
    <3>2. Holding(p)' \subseteq Holding(p) \ {t} /\ (t \in Holding(p) => p = reg[t].page)
      BY <2>a, NoRegFacts, HoldingSteps, ActorFacts DEF Holding, Holds
    <3>3. Mapped(p)' \subseteq Mapped(p) \union {<<reg[t].mm, reg[t].key>>}
      BY <2>d, <2>h, MappedSteps
    <3>4. p # reg[t].page \/ UNCHANGED pte => Mapped(p)' \subseteq Mapped(p)
      <4>1. p # reg[t].page /\ pte'[reg[t].mm][reg[t].key].page = p =>
               pte[reg[t].mm][reg[t].key].page = p
        <5>1. pte'[reg[t].mm][reg[t].key] \in
                 {pte[reg[t].mm][reg[t].key], Present(reg[t].page, FALSE)}
          <6>1. /\ pte \in [Mms -> [Addrs -> Ptes]]
                /\ reg[t].mm \in Mms
                /\ reg[t].key \in Addrs
            BY <2>d DEF PteType
          <6>2. CASE pte' = [pte EXCEPT ![reg[t].mm][reg[t].key] =
                         Present(reg[t].page, FALSE)]
            BY ONLY <6>1, <6>2
          <6> QED BY <2>g, <6>2
        <5> QED BY ONLY <2>i, <5>1
      <4>2. UNCHANGED pte => Mapped(p)' \subseteq Mapped(p)
        BY DEF Mapped
      <4> QED BY <2>d, <2>h, <4>1, <4>2, MappedSteps
    <3>5. CASE UNCHANGED refs
      <4>1. CASE p = reg[t].page
        <5>1. Counted(p)' \in Nat /\ Counted(p)' <= Counted(p)
          BY <2>d, <3>2, <3>3, <4>1, CountedSteps
        <5> QED BY <3>1, <3>5, <5>1, CountedType
      <4>2. CASE p # reg[t].page
        <5>1. Counted(p)' \in Nat /\ Counted(p)' <= Counted(p)
          BY <3>2, <3>4, <4>2, CountedSteps
        <5> QED BY <3>1, <3>5, <5>1, CountedType
      <4> QED BY <4>1, <4>2
    <3>6. CASE UNCHANGED pte /\ refs' = [refs EXCEPT ![reg[t].page] = @ - 1]
      <4>1. refs'[p] = IF p = reg[t].page THEN refs[p] - 1 ELSE refs[p]
        BY <3>6 DEF RefsType
      <4> QED BY <3>1, <3>2, <3>4, <3>6, <4>1, <2>d, CountedSteps, CountedType
    <3> QED BY <2>g, <3>5, <3>6
  <2> QED BY <2>1, <2>2, <2>3, <2>4, <2>5, <2>6, <2>7, <2>8, <2>9, <2>10, <2>11
<1>27. ASSUME NEW t \in Threads, ExitStart(t)
      PROVE  IInv'
  <2>p. PICK z \in ZapRange({a \in Addrs : pte[MmOf[t]][a] = Marker}) :
          /\ pte' = [pte EXCEPT ![MmOf[t]] =
               [a \in Addrs |-> IF a \in z[1] THEN NoPte ELSE pte[MmOf[t]][a]]]
          /\ reg' = [reg EXCEPT ![t] = [NoReg EXCEPT !.mm = MmOf[t], !.cleared = z[2]]]
    BY <1>27 DEF ExitStart, Goto
  <2>a. /\ OnlyActor(t) /\ pc[t] = "idle"
        /\ pc'[t] = "exit"
        /\ reg'[t] = RegExit(MmOf[t], z[2])
    BY <1>27, <2>p DEF OnlyActor, PcType, RegType, RegExit, ExitStart, Goto
  <2>b. ThreadOk(t) /\ reg[t] \in Regs
    BY ActorFacts DEF LocalsInv, LocalOk, RegType
  <2>c. ThreadOk(t)' /\ reg'[t] \in Regs
    <3>1. MmOf[t] \in Mms /\ z[2] \subseteq Addrs
      BY ActorFacts, ZapRangeFacts
    <3>2. /\ reg'[t] \in Regs
          /\ reg'[t].mm = MmOf[t]
          /\ reg'[t].cleared = z[2]
      BY ONLY <2>a, <2>b, <3>1, ActorFacts, NoRegFacts, RegMade
    <3> QED BY <2>a, <2>b, <3>1, <3>2 DEF ThreadOk
  <2>1. RefsType' /\ RssType' /\ PoolType' /\ WorldType'
    BY <1>27 DEF RefsType, RssType, PoolType, WorldType, ExitStart, Goto
  <2>2. MemType'
    BY <1>27 DEF MemType, ExitStart, Goto
  <2>3. PteType'
    BY <1>27 DEF PteType, ExitStart, Goto
  <2>4. PcType'
    BY <1>27 DEF PcType, Labels, ExitStart, Goto
  <2>5. RegType'
    BY <1>27, <2>p, <2>c DEF RegType, ExitStart, Goto
  <2>6. LocalsInv'
    BY <2>a, <2>c, LocalsKept, ActorFacts
  <2>7. ZapInv'
    <3>1. \A u \in Threads \ {t} : MmOf[u] = MmOf[t] => ~Zapping(u)
      BY <1>27, <2>a DEF ExitInv, Exiting, Zapping, ExitStart
    <3>2. ASSUME NEW u \in Threads \ {t}, Zapping(u)
          PROVE  pte'[MmOf[u]][reg[u].key] = Marker
      <4>1. pte[MmOf[u]][reg[u].key] = Marker /\ MmOf[u] # MmOf[t]
        BY <3>1, <3>2 DEF ZapInv
      <4> QED BY <2>p, ZapRangeFacts, <4>1, ActorFacts DEF PteType
    <3>3. ~Zapping(t)'
      BY <2>a DEF Zapping
    <3> QED BY <2>a, <3>2, <3>3, ZapKept, ActorFacts
  <2>8. ExitInv'
    BY <1>27, <2>a, ExitKept, ActorFacts
      DEF ExitInv, Exiting, WorldType, Running, ExitStart, Goto
  <2>9. RssExact'
    <3>1. \A n \in Mms, b \in Addrs : pte'[n][b].st = "present" <=> pte[n][b].st = "present"
      BY <2>p, ZapRangeFacts DEF PteType, PteType
    <3> QED BY <1>27, <2>a, <3>1, RssKept, ActorFacts DEF ExitStart, Goto
  <2>10. RefsInv'
    <3>1. \A p \in Pages : Holds(t, p)' => Holds(t, p)
      BY <2>a, <2>b, NoRegFacts DEF Holds, NoReg, ThreadOk
    <3>2. \A n \in Mms, b \in Addrs : pte'[n][b].page \in {pte[n][b].page, None}
      BY <2>p, ZapRangeFacts DEF PteType, PteType
    <3> QED BY <1>27, <2>a, <3>1, <3>2, RefsKept, ActorFacts DEF ExitStart, Goto
  <2> QED BY <2>1, <2>2, <2>3, <2>4, <2>5, <2>6, <2>7, <2>8, <2>9, <2>10
<1>28. ASSUME NEW t \in Threads, ExitLookup(t)
      PROVE  IInv'
  <2>p. PICK a \in reg[t].cleared :
          /\ pc[t] = "exit"
          /\ pc' = [pc EXCEPT ![t] = IF map[a] = None THEN "exit" ELSE "exit_found"]
          /\ reg' = [reg EXCEPT ![t].cleared = @ \ {a}, ![t].key = a, ![t].handle = map[a]]
    BY <1>28 DEF ExitLookup, Goto
  <2>a. /\ OnlyActor(t) /\ pc[t] = "exit"
        /\ pc'[t] \in {"exit", "exit_found"} /\ (pc'[t] = "exit_found" => map[a] # None)
        /\ reg'[t] = RegNext(reg[t], a, map[a])
    BY <1>28, <2>p DEF OnlyActor, PcType, RegType, RegNext, ExitLookup, Goto
  <2>b. ThreadOk(t) /\ reg[t] \in Regs
    BY ActorFacts DEF LocalsInv, LocalOk, RegType
  <2>c. ThreadOk(t)' /\ reg'[t] \in Regs
    <3>1. a \in Addrs /\ map[a] \in Handles \union {None}
      BY <2>b, <2>p DEF Regs, PoolType
    <3>2. /\ reg'[t] \in Regs
          /\ reg'[t].mm = reg[t].mm
          /\ reg'[t].key = a
          /\ reg'[t].handle = map[a]
      BY ONLY <2>a, <2>b, <3>1, ActorFacts, NoRegFacts, RegMade
    <3> QED BY <2>a, <2>b, <3>1, <3>2 DEF ThreadOk
  <2>1. MemType' /\ PteType' /\ RefsType' /\ RssType' /\ PoolType' /\ WorldType'
    BY <1>28 DEF MemType, PteType, RefsType, RssType, PoolType, WorldType, ExitLookup, Goto
  <2>2. PcType'
    BY <1>28 DEF PcType, Labels, ExitLookup, Goto
  <2>3. RegType'
    BY <1>28, <2>p, <2>c DEF RegType, ExitLookup, Goto
  <2>4. LocalsInv'
    BY <2>a, <2>c, LocalsKept, ActorFacts
  <2>5. ZapInv'
    <3>1. ~Zapping(t)'
      BY <2>a DEF Zapping
    <3>2. \A u \in Threads \ {t} : Zapping(u) => pte'[MmOf[u]][reg[u].key] = Marker
      BY <1>28 DEF ZapInv, ExitLookup
    <3> QED BY <2>a, <3>1, <3>2, ZapKept, ActorFacts
  <2>6. ExitInv'
    BY <1>28, <2>a, ExitKept, ActorFacts
      DEF ExitInv, Exiting, WorldType, ExitLookup, Goto
  <2>7. RssExact'
    <3>1. \A n \in Mms, b \in Addrs : pte'[n][b].st = "present" <=> pte[n][b].st = "present"
      BY <1>28 DEF ExitLookup, Goto
    <3> QED BY <1>28, <2>a, <3>1, RssKept, ActorFacts DEF ExitLookup, Goto
  <2>8. RefsInv'
    <3>1. \A p \in Pages : Holds(t, p)' => Holds(t, p)
      BY <2>a, <2>b, NoRegFacts DEF Holds, NoReg, ThreadOk
    <3>2. \A n \in Mms, b \in Addrs : pte'[n][b].page \in {pte[n][b].page, None}
      BY <1>28 DEF ExitLookup, Goto
    <3> QED BY <1>28, <2>a, <3>1, <3>2, RefsKept, ActorFacts DEF ExitLookup, Goto
  <2> QED BY <2>1, <2>2, <2>3, <2>4, <2>5, <2>6, <2>7, <2>8
<1>29. ASSUME NEW t \in Threads, ExitRemove(t)
      PROVE  IInv'
  <2>a. /\ OnlyActor(t) /\ pc[t] = "exit_found"
        /\ pc'[t] = "exit"
        /\ reg'[t] = reg[t]
    BY <1>29 DEF OnlyActor, PcType, RegType, ExitRemove, RemoveIfThere, RemoveAndFree, Goto
  <2>b. ThreadOk(t) /\ reg[t] \in Regs
    BY ActorFacts DEF LocalsInv, LocalOk, RegType
  <2>c. ThreadOk(t)' /\ reg'[t] \in Regs
    BY <2>a, <2>b, NoRegFacts DEF ThreadOk
  <2>1. MemType' /\ PteType' /\ RefsType' /\ RssType' /\ RegType' /\ WorldType'
    BY <1>29 DEF MemType, PteType, RefsType, RssType, RegType, WorldType, ExitRemove,
      RemoveIfThere, RemoveAndFree, Goto
  <2>2. PoolType'
    BY <1>29 DEF PoolType, ExitRemove, RemoveIfThere, RemoveAndFree, Goto
  <2>3. PcType'
    BY <1>29 DEF PcType, Labels, ExitRemove, RemoveIfThere, RemoveAndFree, Goto
  <2>4. LocalsInv'
    BY <2>a, <2>c, LocalsKept, ActorFacts
  <2>5. ZapInv'
    BY <1>29, <2>a, ZapKept, ActorFacts
      DEF ZapInv, Zapping, ExitRemove, RemoveIfThere, RemoveAndFree, Goto
  <2>6. ExitInv'
    BY <1>29, <2>a, ExitKept, ActorFacts
      DEF ExitInv, Exiting, WorldType, ExitRemove, RemoveIfThere, RemoveAndFree,
          Goto
  <2>7. RssExact'
    <3>1. \A n \in Mms, b \in Addrs : pte'[n][b].st = "present" <=> pte[n][b].st = "present"
      BY <1>29 DEF ExitRemove, RemoveIfThere, RemoveAndFree, Goto
    <3> QED BY <1>29, <2>a, <3>1, RssKept, ActorFacts
      DEF ExitRemove, RemoveIfThere, RemoveAndFree, Goto
  <2>8. RefsInv'
    <3>1. \A p \in Pages : Holds(t, p)' => Holds(t, p)
      BY <2>a, <2>b, NoRegFacts DEF Holds, NoReg, ThreadOk
    <3>2. \A n \in Mms, b \in Addrs : pte'[n][b].page \in {pte[n][b].page, None}
      BY <1>29 DEF ExitRemove, RemoveIfThere, RemoveAndFree, Goto
    <3> QED BY <1>29, <2>a, <3>1, <3>2, RefsKept, ActorFacts
      DEF ExitRemove, RemoveIfThere, RemoveAndFree, Goto
  <2> QED BY <2>1, <2>2, <2>3, <2>4, <2>5, <2>6, <2>7, <2>8
<1>30. ASSUME NEW t \in Threads, ExitMarker(t)
      PROVE  IInv'
  <2>p. PICK a \in Addrs : /\ ZapLookup(t, MmOf[t], a)
                           /\ Goto(t, "exit", "exit_zap")
    BY <1>30 DEF ExitMarker
  <2>a. /\ OnlyActor(t) /\ pc[t] = "exit"
        /\ pc'[t] = "exit_zap"
        /\ reg'[t] = RegZap(MmOf[t], a, IF kernel = "patched" THEN map[a] ELSE None)
    BY <1>30, <2>p DEF OnlyActor, PcType, RegType, RegZap, ExitMarker, ZapLookup, Goto
  <2>b. ThreadOk(t) /\ reg[t] \in Regs
    BY ActorFacts DEF LocalsInv, LocalOk, RegType
  <2>c. ThreadOk(t)' /\ reg'[t] \in Regs
    <3>1. map[a] \in Handles \union {None} /\ MmOf[t] \in Mms
      BY ActorFacts DEF PoolType
    <3>2. /\ reg'[t] \in Regs
          /\ reg'[t].mm = MmOf[t]
          /\ reg'[t].key = a
          /\ reg'[t].handle = IF kernel = "patched" THEN map[a] ELSE None
      BY ONLY <2>a, <2>b, <3>1, ActorFacts, NoRegFacts, RegMade
    <3> QED BY <2>a, <2>b, <3>1, <3>2 DEF ThreadOk
  <2>d. /\ PtlFree(MmOf[t], a) /\ pte[MmOf[t]][a] = Marker /\ UNCHANGED pte
        /\ reg'[t].key = a
    <3>1. reg'[t].key = a
      BY <2>a, RegMade, ActorFacts DEF PoolType
    <3> QED BY <1>30, <3>1, <2>p DEF ExitMarker, ZapLookup
  <2>1. MemType' /\ PteType' /\ RefsType' /\ RssType' /\ PoolType' /\ WorldType'
    BY <1>30 DEF MemType, PteType, RefsType, RssType, PoolType, WorldType, ExitMarker,
      ZapLookup, Goto
  <2>2. PcType'
    BY <1>30 DEF PcType, Labels, ExitMarker, ZapLookup, Goto
  <2>3. RegType'
    BY <1>30, <2>p, <2>c DEF RegType, ExitMarker, ZapLookup, Goto
  <2>4. LocalsInv'
    BY <2>a, <2>c, LocalsKept, ActorFacts
  <2>5. ZapInv'
    <3>1. \A u \in Threads \ {t} :
             Zapping(u) => ThreadOk(u) /\ <<reg[u].mm, reg[u].key>> # <<MmOf[t], a>>
      BY <2>d, ActorFacts DEF PtlFree, Zapping, LocalsInv, LocalOk
    <3>2. \A u \in Threads \ {t} : /\ Zapping(u)' <=> Zapping(u)
                                  /\ reg'[u] = reg[u]
      BY <2>a, ActorFacts DEF OnlyActor, Zapping
    <3>3. \A u \in Threads \ {t} : Zapping(u) => MmOf[u] # MmOf[t] \/ reg[u].key # a
      BY <3>1 DEF ThreadOk, Zapping
    <3> QED BY <2>d, <3>2, <3>3 DEF ZapInv
  <2>6. ExitInv'
    BY <1>30, <2>a, ExitKept, ActorFacts
      DEF ExitInv, Exiting, WorldType, ExitMarker, ZapLookup, Goto
  <2>7. RssExact'
    <3>1. \A n \in Mms, b \in Addrs : pte'[n][b].st = "present" <=> pte[n][b].st = "present"
      BY <1>30 DEF ExitMarker, ZapLookup, Goto
    <3> QED BY <1>30, <2>a, <3>1, RssKept, ActorFacts DEF ExitMarker, ZapLookup, Goto
  <2>8. RefsInv'
    <3>1. \A p \in Pages : Holds(t, p)' => Holds(t, p)
      BY <2>a, <2>b, NoRegFacts DEF Holds, NoReg, ThreadOk
    <3>2. \A n \in Mms, b \in Addrs : pte'[n][b].page \in {pte[n][b].page, None}
      BY <1>30 DEF ExitMarker, ZapLookup, Goto
    <3> QED BY <1>30, <2>a, <3>1, <3>2, RefsKept, ActorFacts DEF ExitMarker, ZapLookup, Goto
  <2> QED BY <2>1, <2>2, <2>3, <2>4, <2>5, <2>6, <2>7, <2>8
<1>31. ASSUME NEW t \in Threads, ExitZap(t)
      PROVE  IInv'
  <2>a. /\ OnlyActor(t) /\ pc[t] = "exit_zap"
        /\ pc'[t] = "exit"
        /\ reg'[t] = reg[t]
    BY <1>31 DEF OnlyActor, PcType, RegType, ExitZap, ZapRemove, RemoveAndFree, SetPte, Goto
  <2>b. ThreadOk(t) /\ reg[t] \in Regs
    BY ActorFacts DEF LocalsInv, LocalOk, RegType
  <2>c. ThreadOk(t)' /\ reg'[t] \in Regs
    BY <2>a, <2>b, NoRegFacts DEF ThreadOk
  <2>d. /\ reg[t].mm = MmOf[t] /\ MmOf[t] \in Mms /\ reg[t].key \in Addrs
        /\ pte[MmOf[t]][reg[t].key] = Marker
    BY <2>a, <2>b, ActorFacts DEF ThreadOk, ZapInv, Zapping
  <2>e. pte' = [pte EXCEPT ![MmOf[t]][reg[t].key] = NoPte]
    BY <1>31, <2>d DEF ExitZap, ZapRemove, SetPte
  <2>1. RefsType' /\ RssType' /\ RegType' /\ WorldType'
    BY <1>31 DEF RefsType, RssType, RegType, WorldType, ExitZap, ZapRemove, RemoveAndFree,
      SetPte, Goto
  <2>2. MemType'
    BY <1>31 DEF MemType, ExitZap, ZapRemove, RemoveAndFree, SetPte, Goto
  <2>3. PteType'
    BY <2>d, <2>e DEF PteType
  <2>4. PoolType'
    BY <1>31 DEF PoolType, ExitZap, ZapRemove, RemoveAndFree, SetPte, Goto
  <2>5. PcType'
    BY <1>31 DEF PcType, Labels, ExitZap, ZapRemove, RemoveAndFree, SetPte, Goto
  <2>6. LocalsInv'
    BY <2>a, <2>c, LocalsKept, ActorFacts
  <2>7. ZapInv'
    <3>1. ASSUME NEW u \in Threads \ {t}, Zapping(u)
          PROVE  pte'[MmOf[u]][reg[u].key] = Marker
      <4>1. ThreadOk(u) /\ pte[MmOf[u]][reg[u].key] = Marker
        BY <3>1, ActorFacts DEF LocalsInv, LocalOk, ZapInv
      <4>2. MmOf[u] \in Mms /\ reg[u].key \in Addrs
        BY <3>1, <4>1, ActorFacts DEF ThreadOk, Zapping
      <4>3. MmOf[u] # MmOf[t] \/ reg[u].key # reg[t].key
        BY <2>a, <3>1 DEF ZapInv, Zapping
      <4> QED BY <2>d, <2>e, <4>1, <4>2, <4>3 DEF PteType
    <3>2. ~Zapping(t)'
      BY <2>a DEF Zapping
    <3> QED BY <2>a, <3>1, <3>2, ZapKept, ActorFacts
  <2>8. ExitInv'
    BY <1>31, <2>a, ExitKept, ActorFacts
      DEF ExitInv, Exiting, WorldType, ExitZap, ZapRemove, RemoveAndFree, SetPte,
          Goto
  <2>9. RssExact'
    <3>1. \A n \in Mms, b \in Addrs : pte'[n][b].st = "present" <=> pte[n][b].st = "present"
      BY <2>d, <2>e DEF PteType
    <3> QED BY <1>31, <2>a, <3>1, RssKept, ActorFacts
      DEF ExitZap, ZapRemove, RemoveAndFree, SetPte, Goto
  <2>10. RefsInv'
    <3>1. \A p \in Pages : Holds(t, p)' => Holds(t, p)
      BY <2>a, <2>b, NoRegFacts DEF Holds, NoReg, ThreadOk
    <3>2. \A n \in Mms, b \in Addrs : pte'[n][b].page \in {pte[n][b].page, None}
      BY <2>d, <2>e DEF PteType
    <3> QED BY <1>31, <2>a, <3>1, <3>2, RefsKept, ActorFacts
      DEF ExitZap, ZapRemove, RemoveAndFree, SetPte, Goto
  <2> QED BY <2>1, <2>2, <2>3, <2>4, <2>5, <2>6, <2>7, <2>8, <2>9, <2>10
<1>32. ASSUME NEW t \in Threads, ExitFinish(t)
      PROVE  IInv'
  <2>a. /\ OnlyActor(t) /\ pc[t] = "exit"
        /\ pc'[t] = "idle"
        /\ reg'[t] = NoReg
    BY <1>32 DEF OnlyActor, PcType, RegType, ExitFinish, Return, Goto
  <2>b. ThreadOk(t) /\ reg[t] \in Regs
    BY ActorFacts DEF LocalsInv, LocalOk, RegType
  <2>c. ThreadOk(t)' /\ reg'[t] \in Regs
    BY <2>a, <2>b, NoRegFacts DEF ThreadOk
  <2> DEFINE mm == MmOf[t]
             Gone(p) == {a \in Addrs : pte[mm][a].page = p}
  <2>d. /\ mm \in Mms
        /\ pte' = [pte EXCEPT ![mm] = [a \in Addrs |-> NoPte]]
        /\ rss' = [rss EXCEPT ![mm] = @ - Cardinality(ResidentPages(mm))]
        /\ refs' = [p \in Pages |->
             refs[p] - Cardinality({a \in ResidentPages(mm) : pte[mm][a].page = p})]
    BY <1>32, ActorFacts DEF ExitFinish, ResidentPages
  <2>e. \A p \in Pages : refs'[p] = refs[p] - Cardinality(Gone(p))
    <3> SUFFICES ASSUME NEW p \in Pages
                 PROVE  refs'[p] = refs[p] - Cardinality(Gone(p))
      OBVIOUS
    <3>1. {a \in ResidentPages(mm) : pte[mm][a].page = p} = Gone(p)
      BY <2>d DEF ResidentPages, PteType
    <3> QED BY <2>d, <3>1
  <2>f. ASSUME NEW p \in Pages
        PROVE  /\ Cardinality(Mapped(p)') \in Nat /\ Cardinality(Gone(p)) \in Nat
               /\ Cardinality(Mapped(p)') = Cardinality(Mapped(p)) - Cardinality(Gone(p))
    <3>1. Gone(p) \subseteq Addrs /\ IsFiniteSet(Gone(p))
      <4>1. Gone(p) \subseteq Addrs
        OBVIOUS
      <4> QED BY <4>1, ActorFacts, FS_Subset
    <3>2. Mapped(p) \cap Row(mm, Gone(p)) = Row(mm, Gone(p))
      BY <2>d DEF Mapped, Row
    <3>3. Mapped(p)' = Mapped(p) \ Row(mm, Gone(p))
      BY <2>d DEF Mapped, PteType, Row
    <3>4. IsFiniteSet(Mapped(p))
      BY CountedFinite
    <3> HIDE DEF Gone
    <3> QED BY ONLY <3>1, <3>2, <3>3, <3>4, SizeWithoutRow
  <2>g. ASSUME NEW p \in Pages
        PROVE  refs'[p] \in Nat /\ Counted(p)' <= refs'[p]
    <3>1. Counted(p) <= refs[p] /\ refs[p] \in Nat
      BY DEF RefsInv, RefsType
    <3>2. /\ Counted(p)' = Cardinality(Mapped(p)') + Cardinality(Holding(p)')
          /\ Counted(p) = Cardinality(Mapped(p)) + Cardinality(Holding(p))
      BY DEF Counted
    <3>3. refs'[p] = refs[p] - Cardinality(Gone(p))
      BY <2>e
    <3>4. Holding(p)' \subseteq Holding(p)
      BY <2>a, NoRegFacts, HoldingSteps, ActorFacts DEF Holds
    <3>5. /\ Cardinality(Holding(p)') \in Nat
          /\ Cardinality(Holding(p)') <= Cardinality(Holding(p))
      BY <3>4, CountedFinite, SizeSteps
    <3> HIDE DEF Gone
    <3> QED BY <3>1, <3>2, <3>3, <3>5, <2>f, CountedType
  <2> HIDE DEF mm, Gone
  <2>1. PoolType'
    BY <1>32 DEF PoolType, ExitFinish, Return, Goto
  <2>2. MemType'
    BY <1>32 DEF MemType, ExitFinish, Return, Goto
  <2>3. PteType'
    BY <2>d DEF PteType
  <2>4. RefsType'
    BY <2>d, <2>g DEF RefsType
  <2>5. RssType'
    BY <2>d, CountedType DEF RssType
  <2>6. PcType'
    BY <1>32 DEF PcType, Labels, ExitFinish, Return, Goto
  <2>7. RegType'
    BY <1>32, <2>c DEF RegType, ExitFinish, Return, Goto
  <2>8. WorldType'
    BY <1>32 DEF WorldType, ExitFinish, Return, Goto
  <2>9. LocalsInv'
    BY <2>a, <2>c, LocalsKept, ActorFacts
  <2>10. ZapInv'
    <3>1. \A u \in Threads \ {t} : MmOf[u] = MmOf[t] => ~Zapping(u)
      BY <1>32, <2>a DEF ExitInv, Exiting, Zapping, ExitFinish
    <3>2. ASSUME NEW u \in Threads \ {t}, Zapping(u)
          PROVE  pte'[MmOf[u]][reg[u].key] = Marker
      <4>1. pte[MmOf[u]][reg[u].key] = Marker /\ MmOf[u] # MmOf[t]
        BY <3>1, <3>2 DEF ZapInv
      <4> QED BY <2>d, <4>1, ActorFacts DEF PteType, mm
    <3>3. ~Zapping(t)'
      BY <2>a DEF Zapping
    <3> QED BY <2>a, <3>2, <3>3, ZapKept, ActorFacts
  <2>11. ExitInv'
    BY <1>32, <2>a, ExitKept, ActorFacts
      DEF ExitInv, Exiting, WorldType, ExitFinish, Return, Goto
  <2>12. RssExact'
    <3> SUFFICES ASSUME NEW n \in Mms
                 PROVE  rss'[n] = Cardinality(ResidentPages(n)') + Cardinality(OwedBy(n)')
      BY DEF RssExact
    <3>1. rss[n] = Cardinality(ResidentPages(n)) + Cardinality(OwedBy(n)) /\ rss[n] \in Int
      BY DEF RssExact, RssType
    <3>2. OwedBy(n)' = OwedBy(n)
      BY <2>a, OwedKept, ActorFacts
    <3>3. CASE n = mm
      <4>1. ResidentPages(n)' = {}
        BY <2>d, <3>3 DEF ResidentPages, PteType
      <4>2. rss'[n] = rss[n] - Cardinality(ResidentPages(n))
        BY <2>d, <3>3 DEF RssType
      <4> QED BY <3>1, <3>2, <4>1, <4>2, CountedType, FS_EmptySet
    <3>4. CASE n # mm
      <4>1. ResidentPages(n)' = ResidentPages(n) /\ rss'[n] = rss[n]
        BY <2>d, <3>4 DEF ResidentPages, PteType, RssType
      <4> QED BY <3>1, <3>2, <4>1
    <3> QED BY <3>3, <3>4
  <2>13. RefsInv'
    BY <2>g DEF RefsInv
  <2> QED BY <2>1, <2>2, <2>3, <2>4, <2>5, <2>6, <2>7, <2>8, <2>9, <2>10, <2>11, <2>12, <2>13
<1>33. ASSUME Shrink
      PROVE  IInv'
  <2>s. LocalsInv' /\ ZapInv' /\ RssExact' /\ RefsInv'
    BY <1>33, Still DEF Shrink, RemoveAndFree
  <2>1. /\ MemType' /\ PteType' /\ RefsType' /\ RssType'
        /\ PcType' /\ RegType' /\ WorldType' /\ ExitInv'
    BY <1>33 DEF MemType, PteType, RefsType, RssType, PcType, Labels, RegType, WorldType,
      ExitInv, Exiting, Shrink, RemoveAndFree
  <2>2. PoolType'
    BY <1>33 DEF PoolType, Shrink, RemoveAndFree
  <2>3. LocalsInv'
    BY <2>s
  <2>4. ZapInv'
    BY <2>s
  <2>5. RssExact'
    BY <2>s
  <2>6. RefsInv'
    BY <2>s
  <2> QED BY <2>1, <2>2, <2>3, <2>4, <2>5, <2>6
<1>34. ASSUME NEW x \in Testers, NEW k \in BenchKeys, TestPack(x, k)
      PROVE  IInv'
  <2>p. PICK h \in Handles :
          reg' = [reg EXCEPT ![x] = [NoReg EXCEPT !.key = k, !.handle = h]]
    BY <1>34 DEF TestPack, Goto
  <2>a. /\ OnlyActor(x) /\ pc[x] = "idle"
        /\ pc'[x] = "test_packed"
        /\ reg'[x] = RegTest(k, h)
    BY <1>34, <2>p DEF OnlyActor, PcType, RegType, RegTest, TestPack, Goto
  <2>b. TesterOk(x) /\ reg[x] \in Regs
    BY ActorFacts DEF LocalsInv, LocalOk, RegType
  <2>c. TesterOk(x)' /\ reg'[x] \in Regs
    <3>1. k \in Keys /\ h \in Handles
      BY ActorFacts
    <3>2. /\ reg'[x] \in Regs
          /\ reg'[x].key = k
          /\ reg'[x].handle = h
      BY ONLY <2>a, <2>b, <3>1, ActorFacts, NoRegFacts, RegMade
    <3> QED BY <2>a, <2>b, <3>1, <3>2 DEF TesterOk
  <2>1. MemType' /\ PteType' /\ RefsType' /\ RssType' /\ WorldType'
    BY <1>34 DEF MemType, PteType, RefsType, RssType, WorldType, TestPack, Goto
  <2>2. PoolType'
    BY <1>34 DEF PoolType, TestPack, Goto
  <2>3. PcType'
    BY <1>34 DEF PcType, Labels, TestPack, Goto
  <2>4. RegType'
    BY <1>34, <2>p, <2>c DEF RegType, TestPack, Goto
  <2>5. LocalsInv'
    BY <2>a, <2>c, LocalsKept, ActorFacts
  <2>6. ZapInv'
    BY <1>34, <2>a, ZapKept, ActorFacts DEF ZapInv, Zapping, TestPack, Goto
  <2>7. ExitInv'
    BY <1>34, <2>a, ExitKept, ActorFacts
      DEF ExitInv, Exiting, WorldType, TestPack, Goto
  <2>8. RssExact'
    <3>1. \A n \in Mms, b \in Addrs : pte'[n][b].st = "present" <=> pte[n][b].st = "present"
      BY <1>34 DEF TestPack, Goto
    <3> QED BY <1>34, <2>a, <3>1, RssKept, ActorFacts DEF TestPack, Goto
  <2>9. RefsInv'
    <3>1. \A p \in Pages : Holds(x, p)' => Holds(x, p)
      BY <2>a, <2>b, NoRegFacts DEF Holds, NoReg, TesterOk
    <3>2. \A n \in Mms, b \in Addrs : pte'[n][b].page \in {pte[n][b].page, None}
      BY <1>34 DEF TestPack, Goto
    <3> QED BY <1>34, <2>a, <3>1, <3>2, RefsKept, ActorFacts DEF TestPack, Goto
  <2> QED BY <2>1, <2>2, <2>3, <2>4, <2>5, <2>6, <2>7, <2>8, <2>9
<1>35. ASSUME NEW x \in Testers, TestMap(x)
      PROVE  IInv'
  <2>a. /\ OnlyActor(x) /\ pc[x] = "test_packed"
        /\ pc'[x] = "test_mapped"
        /\ reg'[x] = reg[x]
    BY <1>35 DEF OnlyActor, PcType, RegType, TestMap, Goto
  <2>b. TesterOk(x) /\ reg[x] \in Regs
    BY ActorFacts DEF LocalsInv, LocalOk, RegType
  <2>c. TesterOk(x)' /\ reg'[x] \in Regs
    BY <2>a, <2>b, NoRegFacts DEF TesterOk
  <2>1. MemType' /\ PteType' /\ RefsType' /\ RssType' /\ RegType' /\ WorldType'
    BY <1>35 DEF MemType, PteType, RefsType, RssType, RegType, WorldType, TestMap, Goto
  <2>2. PoolType'
    BY <1>35 DEF RegType, Regs, PoolType, TestMap, Goto
  <2>3. PcType'
    BY <1>35 DEF PcType, Labels, TestMap, Goto
  <2>4. LocalsInv'
    BY <2>a, <2>c, LocalsKept, ActorFacts
  <2>5. ZapInv'
    BY <1>35, <2>a, ZapKept, ActorFacts DEF ZapInv, Zapping, TestMap, Goto
  <2>6. ExitInv'
    BY <1>35, <2>a, ExitKept, ActorFacts
      DEF ExitInv, Exiting, WorldType, TestMap, Goto
  <2>7. RssExact'
    <3>1. \A n \in Mms, b \in Addrs : pte'[n][b].st = "present" <=> pte[n][b].st = "present"
      BY <1>35 DEF TestMap, Goto
    <3> QED BY <1>35, <2>a, <3>1, RssKept, ActorFacts DEF TestMap, Goto
  <2>8. RefsInv'
    <3>1. \A p \in Pages : Holds(x, p)' => Holds(x, p)
      BY <2>a, <2>b, NoRegFacts DEF Holds, NoReg, TesterOk
    <3>2. \A n \in Mms, b \in Addrs : pte'[n][b].page \in {pte[n][b].page, None}
      BY <1>35 DEF TestMap, Goto
    <3> QED BY <1>35, <2>a, <3>1, <3>2, RefsKept, ActorFacts DEF TestMap, Goto
  <2> QED BY <2>1, <2>2, <2>3, <2>4, <2>5, <2>6, <2>7, <2>8
<1>36. ASSUME NEW x \in Testers, TestCount(x)
      PROVE  IInv'
  <2>a. /\ OnlyActor(x) /\ pc[x] = "test_mapped"
        /\ pc'[x] = "idle"
        /\ reg'[x] = NoReg
    BY <1>36 DEF OnlyActor, PcType, RegType, TestCount, Return, Goto
  <2>b. TesterOk(x) /\ reg[x] \in Regs
    BY ActorFacts DEF LocalsInv, LocalOk, RegType
  <2>c. TesterOk(x)' /\ reg'[x] \in Regs
    BY <2>a, <2>b, NoRegFacts DEF TesterOk
  <2>1. MemType' /\ PteType' /\ RefsType' /\ RssType' /\ WorldType'
    BY <1>36 DEF MemType, PteType, RefsType, RssType, WorldType, TestCount, Return, Goto
  <2>2. PoolType'
    BY <1>36 DEF PoolType, TestCount, Return, Goto
  <2>3. PcType'
    BY <1>36 DEF PcType, Labels, TestCount, Return, Goto
  <2>4. RegType'
    BY <1>36, <2>c DEF RegType, TestCount, Return, Goto
  <2>5. LocalsInv'
    BY <2>a, <2>c, LocalsKept, ActorFacts
  <2>6. ZapInv'
    BY <1>36, <2>a, ZapKept, ActorFacts DEF ZapInv, Zapping, TestCount, Return, Goto
  <2>7. ExitInv'
    BY <1>36, <2>a, ExitKept, ActorFacts
      DEF ExitInv, Exiting, WorldType, TestCount, Return, Goto
  <2>8. RssExact'
    <3>1. \A n \in Mms, b \in Addrs : pte'[n][b].st = "present" <=> pte[n][b].st = "present"
      BY <1>36 DEF TestCount, Return, Goto
    <3> QED BY <1>36, <2>a, <3>1, RssKept, ActorFacts DEF TestCount, Return, Goto
  <2>9. RefsInv'
    <3>1. \A p \in Pages : Holds(x, p)' => Holds(x, p)
      BY <2>a, <2>b, NoRegFacts DEF Holds, NoReg, TesterOk
    <3>2. \A n \in Mms, b \in Addrs : pte'[n][b].page \in {pte[n][b].page, None}
      BY <1>36 DEF TestCount, Return, Goto
    <3> QED BY <1>36, <2>a, <3>1, <3>2, RefsKept, ActorFacts DEF TestCount, Return, Goto
  <2> QED BY <2>1, <2>2, <2>3, <2>4, <2>5, <2>6, <2>7, <2>8, <2>9
<1>37. ASSUME NEW x \in Testers, TestMapFail(x)
      PROVE  IInv'
  <2>a. /\ OnlyActor(x) /\ pc[x] = "test_packed"
        /\ pc'[x] = "idle"
        /\ reg'[x] = NoReg
    BY <1>37 DEF OnlyActor, PcType, RegType, TestMapFail, Return, Goto
  <2>b. TesterOk(x) /\ reg[x] \in Regs
    BY ActorFacts DEF LocalsInv, LocalOk, RegType
  <2>c. TesterOk(x)' /\ reg'[x] \in Regs
    BY <2>a, <2>b, NoRegFacts DEF TesterOk
  <2>1. MemType' /\ PteType' /\ RefsType' /\ RssType' /\ WorldType'
    BY <1>37 DEF MemType, PteType, RefsType, RssType, WorldType, TestMapFail, Return, Goto
  <2>2. PoolType'
    BY <1>37 DEF PoolType, TestMapFail, Return, Goto
  <2>3. PcType'
    BY <1>37 DEF PcType, Labels, TestMapFail, Return, Goto
  <2>4. RegType'
    BY <1>37, <2>c DEF RegType, TestMapFail, Return, Goto
  <2>5. LocalsInv'
    BY <2>a, <2>c, LocalsKept, ActorFacts
  <2>6. ZapInv'
    BY <1>37, <2>a, ZapKept, ActorFacts DEF ZapInv, Zapping, TestMapFail, Return, Goto
  <2>7. ExitInv'
    BY <1>37, <2>a, ExitKept, ActorFacts
      DEF ExitInv, Exiting, WorldType, TestMapFail, Return, Goto
  <2>8. RssExact'
    <3>1. \A n \in Mms, b \in Addrs : pte'[n][b].st = "present" <=> pte[n][b].st = "present"
      BY <1>37 DEF TestMapFail, Return, Goto
    <3> QED BY <1>37, <2>a, <3>1, RssKept, ActorFacts DEF TestMapFail, Return, Goto
  <2>9. RefsInv'
    <3>1. \A p \in Pages : Holds(x, p)' => Holds(x, p)
      BY <2>a, <2>b, NoRegFacts DEF Holds, NoReg, TesterOk
    <3>2. \A n \in Mms, b \in Addrs : pte'[n][b].page \in {pte[n][b].page, None}
      BY <1>37 DEF TestMapFail, Return, Goto
    <3> QED BY <1>37, <2>a, <3>1, <3>2, RefsKept, ActorFacts DEF TestMapFail, Return, Goto
  <2> QED BY <2>1, <2>2, <2>3, <2>4, <2>5, <2>6, <2>7, <2>8, <2>9
<1>38. ASSUME NEW x \in Testers, NEW k \in BenchKeys, TestLookup(x, k)
      PROVE  IInv'
  <2>a. /\ OnlyActor(x) /\ pc[x] = "idle"
        /\ pc'[x] = "test_found"
        /\ reg'[x] = RegTest(k, map[k])
    BY <1>38 DEF OnlyActor, PcType, RegType, RegTest, TestLookup, Goto
  <2>b. TesterOk(x) /\ reg[x] \in Regs
    BY ActorFacts DEF LocalsInv, LocalOk, RegType
  <2>c. TesterOk(x)' /\ reg'[x] \in Regs
    <3>1. k \in Keys /\ map[k] \in Handles
      BY <1>38, ActorFacts DEF PoolType, TestLookup
    <3>2. /\ reg'[x] \in Regs
          /\ reg'[x].key = k
          /\ reg'[x].handle = map[k]
      BY ONLY <2>a, <2>b, <3>1, ActorFacts, NoRegFacts, RegMade
    <3> QED BY <2>a, <2>b, <3>1, <3>2 DEF TesterOk
  <2>1. MemType' /\ PteType' /\ RefsType' /\ RssType' /\ PoolType' /\ WorldType'
    BY <1>38 DEF MemType, PteType, RefsType, RssType, PoolType, WorldType, TestLookup, Goto
  <2>2. PcType'
    BY <1>38 DEF PcType, Labels, TestLookup, Goto
  <2>3. RegType'
    BY <1>38, <2>c DEF RegType, TestLookup, Goto
  <2>4. LocalsInv'
    BY <2>a, <2>c, LocalsKept, ActorFacts
  <2>5. ZapInv'
    BY <1>38, <2>a, ZapKept, ActorFacts DEF ZapInv, Zapping, TestLookup, Goto
  <2>6. ExitInv'
    BY <1>38, <2>a, ExitKept, ActorFacts
      DEF ExitInv, Exiting, WorldType, TestLookup, Goto
  <2>7. RssExact'
    <3>1. \A n \in Mms, b \in Addrs : pte'[n][b].st = "present" <=> pte[n][b].st = "present"
      BY <1>38 DEF TestLookup, Goto
    <3> QED BY <1>38, <2>a, <3>1, RssKept, ActorFacts DEF TestLookup, Goto
  <2>8. RefsInv'
    <3>1. \A p \in Pages : Holds(x, p)' => Holds(x, p)
      BY <2>a, <2>b, NoRegFacts DEF Holds, NoReg, TesterOk
    <3>2. \A n \in Mms, b \in Addrs : pte'[n][b].page \in {pte[n][b].page, None}
      BY <1>38 DEF TestLookup, Goto
    <3> QED BY <1>38, <2>a, <3>1, <3>2, RefsKept, ActorFacts DEF TestLookup, Goto
  <2> QED BY <2>1, <2>2, <2>3, <2>4, <2>5, <2>6, <2>7, <2>8
<1>39. ASSUME NEW x \in Testers, TestRestoreFail(x)
      PROVE  IInv'
  <2>a. /\ OnlyActor(x) /\ pc[x] = "test_found"
        /\ pc'[x] = "idle"
        /\ reg'[x] = NoReg
    BY <1>39 DEF OnlyActor, PcType, RegType, TestRestoreFail, Return, Goto
  <2>b. TesterOk(x) /\ reg[x] \in Regs
    BY ActorFacts DEF LocalsInv, LocalOk, RegType
  <2>c. TesterOk(x)' /\ reg'[x] \in Regs
    BY <2>a, <2>b, NoRegFacts DEF TesterOk
  <2>1. MemType' /\ PteType' /\ RefsType' /\ RssType' /\ PoolType' /\ WorldType'
    BY <1>39 DEF MemType, PteType, RefsType, RssType, PoolType, WorldType, TestRestoreFail,
      Return, Goto
  <2>2. PcType'
    BY <1>39 DEF PcType, Labels, TestRestoreFail, Return, Goto
  <2>3. RegType'
    BY <1>39, <2>c DEF RegType, TestRestoreFail, Return, Goto
  <2>4. LocalsInv'
    BY <2>a, <2>c, LocalsKept, ActorFacts
  <2>5. ZapInv'
    BY <1>39, <2>a, ZapKept, ActorFacts DEF ZapInv, Zapping, TestRestoreFail, Return, Goto
  <2>6. ExitInv'
    BY <1>39, <2>a, ExitKept, ActorFacts
      DEF ExitInv, Exiting, WorldType, TestRestoreFail, Return, Goto
  <2>7. RssExact'
    <3>1. \A n \in Mms, b \in Addrs : pte'[n][b].st = "present" <=> pte[n][b].st = "present"
      BY <1>39 DEF TestRestoreFail, Return, Goto
    <3> QED BY <1>39, <2>a, <3>1, RssKept, ActorFacts DEF TestRestoreFail, Return, Goto
  <2>8. RefsInv'
    <3>1. \A p \in Pages : Holds(x, p)' => Holds(x, p)
      BY <2>a, <2>b, NoRegFacts DEF Holds, NoReg, TesterOk
    <3>2. \A n \in Mms, b \in Addrs : pte'[n][b].page \in {pte[n][b].page, None}
      BY <1>39 DEF TestRestoreFail, Return, Goto
    <3> QED BY <1>39, <2>a, <3>1, <3>2, RefsKept, ActorFacts
      DEF TestRestoreFail, Return, Goto
  <2> QED BY <2>1, <2>2, <2>3, <2>4, <2>5, <2>6, <2>7, <2>8
<1>40. ASSUME NEW x \in Testers, TestRestore(x)
      PROVE  IInv'
  <2>a. /\ OnlyActor(x) /\ pc[x] = "test_found"
        /\ pc'[x] = "idle"
        /\ reg'[x] = NoReg
    BY <1>40 DEF OnlyActor, PcType, RegType, TestRestore, RemoveAndFree, Return, Goto
  <2>b. TesterOk(x) /\ reg[x] \in Regs
    BY ActorFacts DEF LocalsInv, LocalOk, RegType
  <2>c. TesterOk(x)' /\ reg'[x] \in Regs
    BY <2>a, <2>b, NoRegFacts DEF TesterOk
  <2>1. MemType' /\ PteType' /\ RefsType' /\ RssType' /\ WorldType'
    BY <1>40 DEF MemType, PteType, RefsType, RssType, WorldType, TestRestore, RemoveAndFree,
      Return, Goto
  <2>2. PoolType'
    <3>1. stored' \in Int
      BY <1>40 DEF PoolType, TestRestore
    <3>2. map' \in [Keys -> Handles \union {None}]
      BY <1>40 DEF PoolType, TestRestore, RemoveAndFree
    <3>3. zs' \in [Handles -> Data \union {Junk, Free}]
      BY <1>40 DEF PoolType, TestRestore, RemoveAndFree
    <3> QED BY <3>1, <3>2, <3>3 DEF PoolType
  <2>3. PcType'
    BY <1>40 DEF PcType, Labels, TestRestore, RemoveAndFree, Return, Goto
  <2>4. RegType'
    BY <1>40, <2>c DEF RegType, TestRestore, RemoveAndFree, Return, Goto
  <2>5. LocalsInv'
    BY <2>a, <2>c, LocalsKept, ActorFacts
  <2>6. ZapInv'
    BY <1>40, <2>a, ZapKept, ActorFacts
      DEF ZapInv, Zapping, TestRestore, RemoveAndFree, Return, Goto
  <2>7. ExitInv'
    BY <1>40, <2>a, ExitKept, ActorFacts
      DEF ExitInv, Exiting, WorldType, TestRestore, RemoveAndFree, Return, Goto
  <2>8. RssExact'
    <3>1. \A n \in Mms, b \in Addrs : pte'[n][b].st = "present" <=> pte[n][b].st = "present"
      BY <1>40 DEF TestRestore, RemoveAndFree, Return, Goto
    <3> QED BY <1>40, <2>a, <3>1, RssKept, ActorFacts
      DEF TestRestore, RemoveAndFree, Return, Goto
  <2>9. RefsInv'
    <3>1. \A p \in Pages : Holds(x, p)' => Holds(x, p)
      BY <2>a, <2>b, NoRegFacts DEF Holds, NoReg, TesterOk
    <3>2. \A n \in Mms, b \in Addrs : pte'[n][b].page \in {pte[n][b].page, None}
      BY <1>40 DEF TestRestore, RemoveAndFree, Return, Goto
    <3> QED BY <1>40, <2>a, <3>1, <3>2, RefsKept, ActorFacts
      DEF TestRestore, RemoveAndFree, Return, Goto
  <2> QED BY <2>1, <2>2, <2>3, <2>4, <2>5, <2>6, <2>7, <2>8, <2>9
<1>41. ASSUME NEW x \in Testers, TestRemove(x)
      PROVE  IInv'
  <2>a. /\ OnlyActor(x) /\ pc[x] = "test_found"
        /\ pc'[x] = "idle"
        /\ reg'[x] = NoReg
    BY <1>41
      DEF OnlyActor, PcType, RegType, TestRemove, RemoveIfThere, RemoveAndFree, Return,
      Goto
  <2>b. TesterOk(x) /\ reg[x] \in Regs
    BY ActorFacts DEF LocalsInv, LocalOk, RegType
  <2>c. TesterOk(x)' /\ reg'[x] \in Regs
    BY <2>a, <2>b, NoRegFacts DEF TesterOk
  <2>1. MemType' /\ PteType' /\ RefsType' /\ RssType' /\ WorldType'
    BY <1>41 DEF MemType, PteType, RefsType, RssType, WorldType, TestRemove, RemoveIfThere,
      RemoveAndFree, Return, Goto
  <2>2. PoolType'
    BY <1>41 DEF PoolType, TestRemove, RemoveIfThere, RemoveAndFree, Return, Goto
  <2>3. PcType'
    BY <1>41 DEF PcType, Labels, TestRemove, RemoveIfThere, RemoveAndFree, Return, Goto
  <2>4. RegType'
    BY <1>41, <2>c DEF RegType, TestRemove, RemoveIfThere, RemoveAndFree, Return, Goto
  <2>5. LocalsInv'
    BY <2>a, <2>c, LocalsKept, ActorFacts
  <2>6. ZapInv'
    BY <1>41, <2>a, ZapKept, ActorFacts
      DEF ZapInv, Zapping, TestRemove, RemoveIfThere, RemoveAndFree, Return, Goto
  <2>7. ExitInv'
    BY <1>41, <2>a, ExitKept, ActorFacts
      DEF ExitInv, Exiting, WorldType, TestRemove, RemoveIfThere, RemoveAndFree,
          Return, Goto
  <2>8. RssExact'
    <3>1. \A n \in Mms, b \in Addrs : pte'[n][b].st = "present" <=> pte[n][b].st = "present"
      BY <1>41 DEF TestRemove, RemoveIfThere, RemoveAndFree, Return, Goto
    <3> QED BY <1>41, <2>a, <3>1, RssKept, ActorFacts
      DEF TestRemove, RemoveIfThere, RemoveAndFree, Return, Goto
  <2>9. RefsInv'
    <3>1. \A p \in Pages : Holds(x, p)' => Holds(x, p)
      BY <2>a, <2>b, NoRegFacts DEF Holds, NoReg, TesterOk
    <3>2. \A n \in Mms, b \in Addrs : pte'[n][b].page \in {pte[n][b].page, None}
      BY <1>41 DEF TestRemove, RemoveIfThere, RemoveAndFree, Return, Goto
    <3> QED BY <1>41, <2>a, <3>1, <3>2, RefsKept, ActorFacts
      DEF TestRemove, RemoveIfThere, RemoveAndFree, Return, Goto
  <2> QED BY <2>1, <2>2, <2>3, <2>4, <2>5, <2>6, <2>7, <2>8, <2>9
<1>42. ASSUME UnloadStart
      PROVE  IInv'
  <2>s. LocalsInv' /\ ZapInv' /\ RssExact' /\ RefsInv'
    BY <1>42, Still DEF UnloadStart
  <2>1. /\ MemType' /\ PteType' /\ RefsType' /\ RssType'
        /\ PoolType' /\ PcType' /\ RegType' /\ ExitInv'
    BY <1>42 DEF MemType, PteType, RefsType, RssType, PoolType, PcType, Labels, RegType,
      ExitInv, Exiting, UnloadStart
  <2>2. WorldType'
    BY <1>42 DEF WorldType, UnloadStart
  <2>3. LocalsInv'
    BY <2>s
  <2>4. ZapInv'
    BY <2>s
  <2>5. RssExact'
    BY <2>s
  <2>6. RefsInv'
    BY <2>s
  <2> QED BY <2>1, <2>2, <2>3, <2>4, <2>5, <2>6
<1>43. ASSUME NEW m \in Mms, DrainSkip(m)
      PROVE  IInv'
  <2>s. LocalsInv' /\ ZapInv' /\ RssExact' /\ RefsInv'
    BY <1>43, Still DEF DrainSkip
  <2>1. /\ MemType' /\ PteType' /\ RefsType' /\ RssType'
        /\ PoolType' /\ PcType' /\ RegType' /\ ExitInv'
    BY <1>43 DEF MemType, PteType, RefsType, RssType, PoolType, PcType, Labels, RegType,
      ExitInv, Exiting, DrainSkip
  <2>2. WorldType'
    BY <1>43 DEF WorldType, DrainSkip
  <2>3. LocalsInv'
    BY <2>s
  <2>4. ZapInv'
    BY <2>s
  <2>5. RssExact'
    BY <2>s
  <2>6. RefsInv'
    BY <2>s
  <2> QED BY <2>1, <2>2, <2>3, <2>4, <2>5, <2>6
<1>44. ASSUME NEW m \in Mms, NEW a \in Addrs, DrainSample(m, a)
      PROVE  IInv'
  <2>a. /\ OnlyActor(Unloader) /\ pc[Unloader] = "idle"
        /\ pc'[Unloader] = IF pte[m][a] = Marker THEN "drain" ELSE "idle"
        /\ reg'[Unloader] = IF pte[m][a] = Marker THEN RegAt(m, a) ELSE NoReg
    BY <1>44 DEF OnlyActor, PcType, RegType, RegAt, DrainSample, Goto
  <2>b. UnloaderOk(Unloader) /\ reg[Unloader] \in Regs
    BY ActorFacts DEF LocalsInv, LocalOk, RegType
  <2>c. UnloaderOk(Unloader)' /\ reg'[Unloader] \in Regs
    <3>1. m \in Mms /\ a \in Addrs
      BY <1>44
    <3>2. /\ reg'[Unloader] \in Regs
          /\ pte[m][a] = Marker => reg'[Unloader].mm = m /\ reg'[Unloader].key = a
          /\ pte[m][a] # Marker => reg'[Unloader] = NoReg
      BY ONLY <2>a, <2>b, <3>1, ActorFacts, NoRegFacts, RegMade
    <3> QED BY <2>a, <2>b, <3>1, <3>2, NoRegFacts DEF UnloaderOk
  <2>1. MemType' /\ PteType' /\ RefsType' /\ RssType' /\ PoolType'
    BY <1>44 DEF MemType, PteType, RefsType, RssType, PoolType, DrainSample, Goto
  <2>2. PcType'
    BY <1>44 DEF PcType, Labels, DrainSample, Goto
  <2>3. RegType'
    BY <1>44, <2>c DEF RegType, DrainSample, Goto
  <2>4. WorldType'
    BY <1>44 DEF WorldType, DrainSample, Goto
  <2>5. LocalsInv'
    BY <2>a, <2>c, LocalsKept, ActorFacts
  <2>6. ZapInv'
    BY <1>44, <2>a, ZapKept, ActorFacts DEF ZapInv, Zapping, DrainSample, Goto
  <2>7. ExitInv'
    BY <1>44, <2>a, ExitKept, ActorFacts
      DEF ExitInv, Exiting, WorldType, DrainSample, Goto
  <2>8. RssExact'
    <3>1. \A n \in Mms, b \in Addrs : pte'[n][b].st = "present" <=> pte[n][b].st = "present"
      BY <1>44 DEF DrainSample, Goto
    <3> QED BY <1>44, <2>a, <3>1, RssKept, ActorFacts DEF DrainSample, Goto
  <2>9. RefsInv'
    <3>1. \A p \in Pages : Holds(Unloader, p)' => Holds(Unloader, p)
      BY <2>a, <2>b, NoRegFacts DEF Holds, NoReg, UnloaderOk
    <3>2. \A n \in Mms, b \in Addrs : pte'[n][b].page \in {pte[n][b].page, None}
      BY <1>44 DEF DrainSample, Goto
    <3> QED BY <1>44, <2>a, <3>1, <3>2, RefsKept, ActorFacts DEF DrainSample, Goto
  <2> QED BY <2>1, <2>2, <2>3, <2>4, <2>5, <2>6, <2>7, <2>8, <2>9
<1>45. ASSUME DrainLookup
      PROVE  IInv'
  <2>a. /\ OnlyActor(Unloader) /\ pc[Unloader] = "drain"
        /\ pc'[Unloader] = "drain_found"
        /\ reg'[Unloader] = [reg[Unloader] EXCEPT !.handle = map[reg[Unloader].key]]
    BY <1>45 DEF OnlyActor, PcType, RegType, DrainLookup, Goto
  <2>b. UnloaderOk(Unloader) /\ reg[Unloader] \in Regs
    BY ActorFacts DEF LocalsInv, LocalOk, RegType
  <2>c. UnloaderOk(Unloader)' /\ reg'[Unloader] \in Regs
    <3>1. map[reg[Unloader].key] \in Handles
      BY <1>45, <2>a, <2>b DEF PoolType, UnloaderOk, DrainLookup
    <3>2. /\ reg'[Unloader] \in Regs /\ reg'[Unloader].handle = map[reg[Unloader].key]
          /\ reg'[Unloader].mm = reg[Unloader].mm /\ reg'[Unloader].key = reg[Unloader].key
          /\ reg'[Unloader].pte = reg[Unloader].pte /\ reg'[Unloader].page = reg[Unloader].page
      BY <2>a, <2>b, <3>1, RegUpdates
    <3> QED BY <2>a, <2>b, <3>1, <3>2 DEF UnloaderOk
  <2>1. MemType' /\ PteType' /\ RefsType' /\ RssType' /\ PoolType' /\ WorldType'
    BY <1>45 DEF MemType, PteType, RefsType, RssType, PoolType, WorldType, DrainLookup, Goto
  <2>2. PcType'
    BY <1>45 DEF PcType, Labels, DrainLookup, Goto
  <2>3. RegType'
    BY <1>45, <2>c DEF RegType, DrainLookup, Goto
  <2>4. LocalsInv'
    BY <2>a, <2>c, LocalsKept, ActorFacts
  <2>5. ZapInv'
    BY <1>45, <2>a, ZapKept, ActorFacts DEF ZapInv, Zapping, DrainLookup, Goto
  <2>6. ExitInv'
    BY <1>45, <2>a, ExitKept, ActorFacts
      DEF ExitInv, Exiting, WorldType, DrainLookup, Goto
  <2>7. RssExact'
    <3>1. \A n \in Mms, b \in Addrs : pte'[n][b].st = "present" <=> pte[n][b].st = "present"
      BY <1>45 DEF DrainLookup, Goto
    <3> QED BY <1>45, <2>a, <3>1, RssKept, ActorFacts DEF DrainLookup, Goto
  <2>8. RefsInv'
    <3>1. \A p \in Pages : Holds(Unloader, p)' => Holds(Unloader, p)
      BY <2>a, <2>b, NoRegFacts DEF Holds, NoReg, UnloaderOk
    <3>2. \A n \in Mms, b \in Addrs : pte'[n][b].page \in {pte[n][b].page, None}
      BY <1>45 DEF DrainLookup, Goto
    <3> QED BY <1>45, <2>a, <3>1, <3>2, RefsKept, ActorFacts DEF DrainLookup, Goto
  <2> QED BY <2>1, <2>2, <2>3, <2>4, <2>5, <2>6, <2>7, <2>8
<1>46. ASSUME DrainFail
      PROVE  IInv'
  <2>a. /\ OnlyActor(Unloader) /\ pc[Unloader] \in {"drain", "drain_found"}
        /\ pc'[Unloader] = "idle"
        /\ reg'[Unloader] = NoReg
    BY <1>46 DEF OnlyActor, PcType, RegType, DrainFail, Return, Goto
  <2>b. UnloaderOk(Unloader) /\ reg[Unloader] \in Regs
    BY ActorFacts DEF LocalsInv, LocalOk, RegType
  <2>c. UnloaderOk(Unloader)' /\ reg'[Unloader] \in Regs
    BY <2>a, <2>b, NoRegFacts DEF UnloaderOk
  <2>1. MemType' /\ PteType' /\ RefsType' /\ RssType' /\ PoolType' /\ WorldType'
    BY <1>46
      DEF MemType, PteType, RefsType, RssType, PoolType, WorldType, DrainFail, Return,
      Goto
  <2>2. PcType'
    BY <1>46 DEF PcType, Labels, DrainFail, Return, Goto
  <2>3. RegType'
    BY <1>46, <2>c DEF RegType, DrainFail, Return, Goto
  <2>4. LocalsInv'
    BY <2>a, <2>c, LocalsKept, ActorFacts
  <2>5. ZapInv'
    BY <1>46, <2>a, ZapKept, ActorFacts DEF ZapInv, Zapping, DrainFail, Return, Goto
  <2>6. ExitInv'
    BY <1>46, <2>a, ExitKept, ActorFacts
      DEF ExitInv, Exiting, WorldType, DrainFail, Return, Goto
  <2>7. RssExact'
    <3>1. \A n \in Mms, b \in Addrs : pte'[n][b].st = "present" <=> pte[n][b].st = "present"
      BY <1>46 DEF DrainFail, Return, Goto
    <3> QED BY <1>46, <2>a, <3>1, RssKept, ActorFacts DEF DrainFail, Return, Goto
  <2>8. RefsInv'
    <3>1. \A p \in Pages : Holds(Unloader, p)' => Holds(Unloader, p)
      BY <2>a, <2>b, NoRegFacts DEF Holds, NoReg, UnloaderOk
    <3>2. \A n \in Mms, b \in Addrs : pte'[n][b].page \in {pte[n][b].page, None}
      BY <1>46 DEF DrainFail, Return, Goto
    <3> QED BY <1>46, <2>a, <3>1, <3>2, RefsKept, ActorFacts DEF DrainFail, Return, Goto
  <2> QED BY <2>1, <2>2, <2>3, <2>4, <2>5, <2>6, <2>7, <2>8
<1>47. ASSUME DrainFill
      PROVE  IInv'
  <2>p. PICK q \in Pages : /\ refs[q] = 0 /\ refs' = [refs EXCEPT ![q] = 1]
                           /\ reg' = [reg EXCEPT ![Unloader].page = q]
    BY <1>47 DEF DrainFill, AllocPage, ReadObj, Goto
  <2>a. /\ OnlyActor(Unloader) /\ pc[Unloader] = "drain_found"
        /\ pc'[Unloader] = "drain_filled"
        /\ reg'[Unloader] = [reg[Unloader] EXCEPT !.page = q]
    BY <1>47, <2>p DEF OnlyActor, PcType, RegType, DrainFill, AllocPage, ReadObj, Goto
  <2>b. UnloaderOk(Unloader) /\ reg[Unloader] \in Regs
    BY ActorFacts DEF LocalsInv, LocalOk, RegType
  <2>c. UnloaderOk(Unloader)' /\ reg'[Unloader] \in Regs
    <3>1. q \in Pages
      BY <2>p
    <3>2. /\ reg'[Unloader] \in Regs /\ reg'[Unloader].page = q
          /\ reg'[Unloader].mm = reg[Unloader].mm /\ reg'[Unloader].key = reg[Unloader].key
          /\ reg'[Unloader].handle = reg[Unloader].handle
      BY <2>a, <2>b, <3>1, RegUpdates
    <3> QED BY <2>a, <2>b, <3>1, <3>2 DEF UnloaderOk
  <2>f. refs' \in [Pages -> Nat]
    BY <2>p DEF RefsType
  <2>1. PteType' /\ RssType' /\ PoolType' /\ WorldType'
    BY <1>47 DEF PteType, RssType, PoolType, WorldType, DrainFill, AllocPage, ReadObj, Goto
  <2>2. MemType'
    <3>1. ReadObj(reg[Unloader].handle) \in Data \union {Junk}
      BY <2>a, <2>b DEF UnloaderOk, PoolType, ReadObj
    <3> QED BY <1>47, <3>1 DEF MemType, DrainFill, AllocPage
  <2>3. RefsType'
    BY <2>f DEF RefsType
  <2>4. PcType'
    BY <1>47 DEF PcType, Labels, DrainFill, AllocPage, ReadObj, Goto
  <2>5. RegType'
    BY <1>47, <2>p, <2>c DEF RegType, DrainFill, AllocPage, ReadObj, Goto
  <2>6. LocalsInv'
    BY <2>a, <2>c, LocalsKept, ActorFacts
  <2>7. ZapInv'
    BY <1>47, <2>a, ZapKept, ActorFacts
      DEF ZapInv, Zapping, DrainFill, AllocPage, ReadObj, Goto
  <2>8. ExitInv'
    BY <1>47, <2>a, ExitKept, ActorFacts
      DEF ExitInv, Exiting, WorldType, DrainFill, AllocPage, ReadObj, Goto
  <2>9. RssExact'
    <3>1. \A n \in Mms, b \in Addrs : pte'[n][b].st = "present" <=> pte[n][b].st = "present"
      BY <1>47 DEF DrainFill, AllocPage, ReadObj, Goto
    <3> QED BY <1>47, <2>a, <3>1, RssKept, ActorFacts
      DEF DrainFill, AllocPage, ReadObj, Goto
  <2>10. RefsInv'
    <3> SUFFICES ASSUME NEW p \in Pages PROVE Counted(p)' <= refs'[p]
      BY DEF RefsInv
    <3>1. Counted(p) <= refs[p] /\ refs[p] \in Nat /\ refs'[p] \in Nat
      BY <2>f DEF RefsInv, RefsType
    <3>2. Mapped(p)' \subseteq Mapped(p)
      BY <1>47 DEF Mapped, DrainFill
    <3>3. Holding(p)' \subseteq Holding(p) \union {Unloader}
      BY <2>a, HoldingSteps, ActorFacts
    <3>4. p # q => Holding(p)' \subseteq Holding(p)
      <4>1. reg'[Unloader].page = q
        BY <2>a, <2>b DEF Regs
      <4> QED BY <2>a, <4>1, HoldingSteps, ActorFacts DEF Holds
    <3>5. refs'[p] = (IF p = q THEN 1 ELSE refs[p]) /\ (p = q => refs[p] = 0)
      BY <2>p DEF RefsType
    <3>6. CASE p = q
      <4>1. Counted(p)' \in Nat /\ Counted(p)' <= Counted(p) + 1
        BY <3>2, <3>3, <3>4, <3>6, CountedSteps
      <4> QED BY <3>1, <3>5, <3>6, <4>1, CountedType
    <3>7. CASE p # q
      <4>1. Counted(p)' \in Nat /\ Counted(p)' <= Counted(p)
        BY <3>2, <3>3, <3>4, <3>7, CountedSteps
      <4> QED BY <3>1, <3>5, <3>7, <4>1, CountedType
    <3> QED BY <3>6, <3>7
  <2> QED BY <2>1, <2>2, <2>3, <2>4, <2>5, <2>6, <2>7, <2>8, <2>9, <2>10
<1>48. ASSUME DrainBad
      PROVE  IInv'
  <2>a. /\ OnlyActor(Unloader) /\ pc[Unloader] = "drain_found"
        /\ pc'[Unloader] = "idle"
        /\ reg'[Unloader] = NoReg
    BY <1>48 DEF OnlyActor, PcType, RegType, DrainBad, RemoveAndFree, Return, Goto
  <2>b. UnloaderOk(Unloader) /\ reg[Unloader] \in Regs
    BY ActorFacts DEF LocalsInv, LocalOk, RegType
  <2>c. UnloaderOk(Unloader)' /\ reg'[Unloader] \in Regs
    BY <2>a, <2>b, NoRegFacts DEF UnloaderOk
  <2>1. MemType' /\ PteType' /\ RefsType' /\ RssType' /\ WorldType'
    BY <1>48 DEF MemType, PteType, RefsType, RssType, WorldType, DrainBad, RemoveAndFree,
      Return, Goto
  <2>2. PoolType'
    <3>1. stored' \in Int
      BY <1>48 DEF PoolType, DrainBad
    <3>2. map' \in [Keys -> Handles \union {None}]
      BY <1>48 DEF PoolType, DrainBad, RemoveAndFree
    <3>3. zs' \in [Handles -> Data \union {Junk, Free}]
      BY <1>48 DEF PoolType, DrainBad, RemoveAndFree
    <3> QED BY <3>1, <3>2, <3>3 DEF PoolType
  <2>3. PcType'
    BY <1>48 DEF PcType, Labels, DrainBad, RemoveAndFree, Return, Goto
  <2>4. RegType'
    BY <1>48, <2>c DEF RegType, DrainBad, RemoveAndFree, Return, Goto
  <2>5. LocalsInv'
    BY <2>a, <2>c, LocalsKept, ActorFacts
  <2>6. ZapInv'
    BY <1>48, <2>a, ZapKept, ActorFacts
      DEF ZapInv, Zapping, DrainBad, RemoveAndFree, Return, Goto
  <2>7. ExitInv'
    BY <1>48, <2>a, ExitKept, ActorFacts
      DEF ExitInv, Exiting, WorldType, DrainBad, RemoveAndFree, Return, Goto
  <2>8. RssExact'
    <3>1. \A n \in Mms, b \in Addrs : pte'[n][b].st = "present" <=> pte[n][b].st = "present"
      BY <1>48 DEF DrainBad, RemoveAndFree, Return, Goto
    <3> QED BY <1>48, <2>a, <3>1, RssKept, ActorFacts
      DEF DrainBad, RemoveAndFree, Return, Goto
  <2>9. RefsInv'
    <3>1. \A p \in Pages : Holds(Unloader, p)' => Holds(Unloader, p)
      BY <2>a, <2>b, NoRegFacts DEF Holds, NoReg, UnloaderOk
    <3>2. \A n \in Mms, b \in Addrs : pte'[n][b].page \in {pte[n][b].page, None}
      BY <1>48 DEF DrainBad, RemoveAndFree, Return, Goto
    <3> QED BY <1>48, <2>a, <3>1, <3>2, RefsKept, ActorFacts
      DEF DrainBad, RemoveAndFree, Return, Goto
  <2> QED BY <2>1, <2>2, <2>3, <2>4, <2>5, <2>6, <2>7, <2>8, <2>9
<1>49. ASSUME DrainInstall
      PROVE  IInv'
  <2>a. /\ OnlyActor(Unloader) /\ pc[Unloader] = "drain_filled"
        /\ pc'[Unloader] = "drain_installed"
        /\ reg'[Unloader] = reg[Unloader]
    BY <1>49 DEF OnlyActor, PcType, RegType, DrainInstall, Install, SetPte, PutPage, Goto
  <2>b. UnloaderOk(Unloader) /\ reg[Unloader] \in Regs
    BY ActorFacts DEF LocalsInv, LocalOk, RegType
  <2>c. UnloaderOk(Unloader)' /\ reg'[Unloader] \in Regs
    BY <2>a, <2>b, NoRegFacts DEF UnloaderOk
  <2>d. /\ reg[Unloader].page \in Pages /\ reg[Unloader].mm \in Mms /\ reg[Unloader].key \in Addrs
        /\ Unloader \in Holding(reg[Unloader].page)
    BY <2>a, <2>b, ActorFacts DEF Holding, Holds, UnloaderOk
  <2>e. refs[reg[Unloader].page] >= 1
    BY <2>d, InUse DEF RefsInv, RefsType
  <2>g. \/ /\ pte[reg[Unloader].mm][reg[Unloader].key] = Marker
           /\ pte' = [pte EXCEPT ![reg[Unloader].mm][reg[Unloader].key] =
                  Present(reg[Unloader].page, FALSE)]
           /\ rss' = [rss EXCEPT ![reg[Unloader].mm] = @ + 1] /\ UNCHANGED refs
        \/ /\ refs' = [refs EXCEPT ![reg[Unloader].page] = @ - 1]
           /\ UNCHANGED <<pte, rss>>
    BY <1>49 DEF DrainInstall, Install, SetPte, PutPage, pages
  <2>f. refs' \in [Pages -> Nat]
    BY <2>d, <2>e, <2>g DEF RefsType
  <2>h. OnlyEntry(reg[Unloader].mm, reg[Unloader].key)
    BY <2>d, <2>g DEF OnlyEntry, PteType
  <2>i. pte'[reg[Unloader].mm][reg[Unloader].key] = Present(reg[Unloader].page, FALSE) =>
           pte'[reg[Unloader].mm][reg[Unloader].key].st = "present"
               /\ pte'[reg[Unloader].mm][reg[Unloader].key].page = reg[Unloader].page
    BY ONLY <2>d, PresentFacts
  <2>1. MemType' /\ PoolType' /\ RegType' /\ WorldType'
    BY <1>49
      DEF MemType, PoolType, RegType, WorldType, DrainInstall, Install, SetPte, PutPage,
      Goto
  <2>2. PteType'
    <3>1. Present(reg[Unloader].page, FALSE) \in Ptes
      BY ONLY <2>d, PresentFacts
    <3>2. /\ pte \in [Mms -> [Addrs -> Ptes]]
          /\ reg[Unloader].mm \in Mms
          /\ reg[Unloader].key \in Addrs
      BY <2>d DEF PteType
    <3>3. CASE pte' = [pte EXCEPT ![reg[Unloader].mm][reg[Unloader].key] =
                   Present(reg[Unloader].page, FALSE)]
      BY ONLY <3>1, <3>2, <3>3 DEF PteType
    <3>4. CASE UNCHANGED pte
      BY ONLY <3>2, <3>4 DEF PteType
    <3> QED BY <2>g, <3>3, <3>4
  <2>3. RefsType'
    BY <2>f DEF RefsType
  <2>4. RssType'
    BY <2>d, <2>g DEF RssType
  <2>5. PcType'
    BY <1>49 DEF PcType, Labels, DrainInstall, Install, SetPte, PutPage, Goto
  <2>6. LocalsInv'
    BY <2>a, <2>c, LocalsKept, ActorFacts
  <2>7. ZapInv'
    <3>1. PtlFree(reg[Unloader].mm, reg[Unloader].key)
      BY <1>49 DEF DrainInstall, Install
    <3>2. \A u \in Threads : Zapping(u) => pte'[MmOf[u]][reg[u].key] = Marker
      BY <2>d, <2>h, <3>1, LockedOut
    <3>3. Unloader \in Threads => ~Zapping(Unloader)'
      BY ActorFacts
    <3> QED BY <2>a, <3>2, <3>3, ZapKept, ActorFacts
  <2>8. ExitInv'
    BY <1>49, <2>a, ExitKept, ActorFacts
      DEF ExitInv, Exiting, WorldType, DrainInstall, Install, SetPte, PutPage, Goto
  <2>9. RssExact'
    <3> SUFFICES ASSUME NEW n \in Mms
                 PROVE  rss'[n] = Cardinality(ResidentPages(n)') + Cardinality(OwedBy(n)')
      BY DEF RssExact
    <3>1. rss[n] = Cardinality(ResidentPages(n)) + Cardinality(OwedBy(n)) /\ rss[n] \in Int
      BY DEF RssExact, RssType
    <3>2. OwedBy(n)' = OwedBy(n)
      BY <2>a, OwedKept, ActorFacts
    <3>3. CASE UNCHANGED <<pte, rss>>
      <4>1. ResidentPages(n)' = ResidentPages(n)
        BY <3>3 DEF ResidentPages
      <4> QED BY <3>1, <3>2, <3>3, <4>1
    <3>4. CASE /\ pte[reg[Unloader].mm][reg[Unloader].key] = Marker
               /\ pte' = [pte EXCEPT ![reg[Unloader].mm][reg[Unloader].key] =
                      Present(reg[Unloader].page, FALSE)]
               /\ rss' = [rss EXCEPT ![reg[Unloader].mm] = @ + 1]
      <4>1. /\ pte[reg[Unloader].mm][reg[Unloader].key].st # "present"
            /\ pte'[reg[Unloader].mm][reg[Unloader].key].st = "present"
        BY <2>d, <2>i, <3>4 DEF PteType
      <4>2. n # reg[Unloader].mm => ResidentPages(n)' = ResidentPages(n)
        BY <2>d, <2>h, ResidentSteps
      <4>3. n = reg[Unloader].mm => /\ reg[Unloader].key \notin ResidentPages(n)
                                  /\ ResidentPages(n)' = ResidentPages(n)
                                         \union {reg[Unloader].key}
        BY <2>d, <2>h, <4>1, ResidentSteps
      <4>4. n = reg[Unloader].mm =>
              Cardinality(ResidentPages(n)') = Cardinality(ResidentPages(n)) + 1
        BY <4>3, CountedFinite, SizeExact
      <4>5. rss'[n] = IF n = reg[Unloader].mm THEN rss[n] + 1 ELSE rss[n]
        BY <2>d, <3>4 DEF RssType
      <4> QED BY <3>1, <3>2, <4>2, <4>4, <4>5, CountedType
    <3> QED BY <2>g, <3>3, <3>4
  <2>10. RefsInv'
    <3> SUFFICES ASSUME NEW p \in Pages PROVE Counted(p)' <= refs'[p]
      BY DEF RefsInv
    <3>1. Counted(p) <= refs[p] /\ refs[p] \in Nat /\ refs'[p] \in Nat
      BY <2>f DEF RefsInv, RefsType
    <3>2. /\ Holding(p)' \subseteq Holding(p) \ {Unloader}
          /\ (Unloader \in Holding(p) => p = reg[Unloader].page)
      BY <2>a, NoRegFacts, HoldingSteps, ActorFacts DEF Holding, Holds
    <3>3. Mapped(p)' \subseteq Mapped(p) \union {<<reg[Unloader].mm, reg[Unloader].key>>}
      BY <2>d, <2>h, MappedSteps
    <3>4. p # reg[Unloader].page \/ UNCHANGED pte => Mapped(p)' \subseteq Mapped(p)
      <4>1. p # reg[Unloader].page /\ pte'[reg[Unloader].mm][reg[Unloader].key].page = p =>
               pte[reg[Unloader].mm][reg[Unloader].key].page = p
        <5>1. pte'[reg[Unloader].mm][reg[Unloader].key] \in
                 {pte[reg[Unloader].mm][reg[Unloader].key], Present(reg[Unloader].page, FALSE)}
          <6>1. /\ pte \in [Mms -> [Addrs -> Ptes]]
                /\ reg[Unloader].mm \in Mms
                /\ reg[Unloader].key \in Addrs
            BY <2>d DEF PteType
          <6>2. CASE pte' = [pte EXCEPT ![reg[Unloader].mm][reg[Unloader].key] =
                         Present(reg[Unloader].page, FALSE)]
            BY ONLY <6>1, <6>2
          <6> QED BY <2>g, <6>2
        <5> QED BY ONLY <2>i, <5>1
      <4>2. UNCHANGED pte => Mapped(p)' \subseteq Mapped(p)
        BY DEF Mapped
      <4> QED BY <2>d, <2>h, <4>1, <4>2, MappedSteps
    <3>5. CASE UNCHANGED refs
      <4>1. CASE p = reg[Unloader].page
        <5>1. Counted(p)' \in Nat /\ Counted(p)' <= Counted(p)
          BY <2>d, <3>2, <3>3, <4>1, CountedSteps
        <5> QED BY <3>1, <3>5, <5>1, CountedType
      <4>2. CASE p # reg[Unloader].page
        <5>1. Counted(p)' \in Nat /\ Counted(p)' <= Counted(p)
          BY <3>2, <3>4, <4>2, CountedSteps
        <5> QED BY <3>1, <3>5, <5>1, CountedType
      <4> QED BY <4>1, <4>2
    <3>6. CASE UNCHANGED pte /\ refs' = [refs EXCEPT ![reg[Unloader].page] = @ - 1]
      <4>1. refs'[p] = IF p = reg[Unloader].page THEN refs[p] - 1 ELSE refs[p]
        BY <3>6 DEF RefsType
      <4> QED BY <3>1, <3>2, <3>4, <3>6, <4>1, <2>d, CountedSteps, CountedType
    <3> QED BY <2>g, <3>5, <3>6
  <2> QED BY <2>1, <2>2, <2>3, <2>4, <2>5, <2>6, <2>7, <2>8, <2>9, <2>10
<1>50. ASSUME DrainRemove
      PROVE  IInv'
  <2>a. /\ OnlyActor(Unloader) /\ pc[Unloader] = "drain_installed"
        /\ pc'[Unloader] = "idle"
        /\ reg'[Unloader] = NoReg
    BY <1>50 DEF OnlyActor, PcType, RegType, DrainRemove, RemoveAndFree, Return, Goto
  <2>b. UnloaderOk(Unloader) /\ reg[Unloader] \in Regs
    BY ActorFacts DEF LocalsInv, LocalOk, RegType
  <2>c. UnloaderOk(Unloader)' /\ reg'[Unloader] \in Regs
    BY <2>a, <2>b, NoRegFacts DEF UnloaderOk
  <2>1. MemType' /\ PteType' /\ RefsType' /\ RssType' /\ WorldType'
    BY <1>50 DEF MemType, PteType, RefsType, RssType, WorldType, DrainRemove, RemoveAndFree,
      Return, Goto
  <2>2. PoolType'
    <3>1. stored' \in Int
      BY <1>50 DEF PoolType, DrainRemove
    <3>2. map' \in [Keys -> Handles \union {None}]
      BY <1>50 DEF PoolType, DrainRemove, RemoveAndFree
    <3>3. zs' \in [Handles -> Data \union {Junk, Free}]
      BY <1>50 DEF PoolType, DrainRemove, RemoveAndFree
    <3> QED BY <3>1, <3>2, <3>3 DEF PoolType
  <2>3. PcType'
    BY <1>50 DEF PcType, Labels, DrainRemove, RemoveAndFree, Return, Goto
  <2>4. RegType'
    BY <1>50, <2>c DEF RegType, DrainRemove, RemoveAndFree, Return, Goto
  <2>5. LocalsInv'
    BY <2>a, <2>c, LocalsKept, ActorFacts
  <2>6. ZapInv'
    BY <1>50, <2>a, ZapKept, ActorFacts
      DEF ZapInv, Zapping, DrainRemove, RemoveAndFree, Return, Goto
  <2>7. ExitInv'
    BY <1>50, <2>a, ExitKept, ActorFacts
      DEF ExitInv, Exiting, WorldType, DrainRemove, RemoveAndFree, Return, Goto
  <2>8. RssExact'
    <3>1. \A n \in Mms, b \in Addrs : pte'[n][b].st = "present" <=> pte[n][b].st = "present"
      BY <1>50 DEF DrainRemove, RemoveAndFree, Return, Goto
    <3> QED BY <1>50, <2>a, <3>1, RssKept, ActorFacts
      DEF DrainRemove, RemoveAndFree, Return, Goto
  <2>9. RefsInv'
    <3>1. \A p \in Pages : Holds(Unloader, p)' => Holds(Unloader, p)
      BY <2>a, <2>b, NoRegFacts DEF Holds, NoReg, UnloaderOk
    <3>2. \A n \in Mms, b \in Addrs : pte'[n][b].page \in {pte[n][b].page, None}
      BY <1>50 DEF DrainRemove, RemoveAndFree, Return, Goto
    <3> QED BY <1>50, <2>a, <3>1, <3>2, RefsKept, ActorFacts
      DEF DrainRemove, RemoveAndFree, Return, Goto
  <2> QED BY <2>1, <2>2, <2>3, <2>4, <2>5, <2>6, <2>7, <2>8, <2>9
<1>51. ASSUME UnloadFinish
      PROVE  IInv'
  <2>s. LocalsInv' /\ ZapInv' /\ RssExact' /\ RefsInv'
    BY <1>51, Still DEF UnloadFinish
  <2>1. MemType' /\ PteType' /\ RefsType' /\ RssType' /\ PcType' /\ RegType' /\ ExitInv'
    BY <1>51 DEF MemType, PteType, RefsType, RssType, PcType, Labels, RegType, ExitInv,
      Exiting, UnloadFinish
  <2>2. PoolType'
    BY <1>51 DEF PoolType, UnloadFinish
  <2>3. WorldType'
    BY <1>51 DEF WorldType, UnloadFinish
  <2>4. LocalsInv'
    BY <2>s
  <2>5. ZapInv'
    BY <2>s
  <2>6. RssExact'
    BY <2>s
  <2>7. RefsInv'
    BY <2>s
  <2> QED BY <2>1, <2>2, <2>3, <2>4, <2>5, <2>6, <2>7
<1>52. ASSUME UNCHANGED vars
      PROVE  IInv'
  <2>s. LocalsInv' /\ ZapInv' /\ RssExact' /\ RefsInv'
    BY <1>52, Still DEF vars
  <2>1. /\ MemType' /\ PteType' /\ RefsType' /\ RssType' /\ PoolType'
        /\ PcType' /\ RegType' /\ WorldType' /\ ExitInv'
    BY <1>52 DEF MemType, PteType, RefsType, RssType, PoolType, PcType, Labels, RegType,
      WorldType, ExitInv, Exiting, vars
  <2>2. LocalsInv'
    BY <2>s
  <2>3. ZapInv'
    BY <2>s
  <2>4. RssExact'
    BY <2>s
  <2>5. RefsInv'
    BY <2>s
  <2> QED BY <2>1, <2>2, <2>3, <2>4, <2>5
<1> QED BY <1>1, <1>2, <1>3, <1>4, <1>5, <1>6, <1>7, <1>8, <1>9, <1>10, <1>11, <1>12, <1>13,
  <1>14, <1>15, <1>16, <1>17, <1>18, <1>19, <1>20, <1>21, <1>22, <1>23, <1>24,
  <1>25, <1>26, <1>27, <1>28, <1>29, <1>30, <1>31, <1>32, <1>33, <1>34, <1>35,
  <1>36, <1>37, <1>38, <1>39, <1>40, <1>41, <1>42, <1>43, <1>44, <1>45, <1>46,
  <1>47, <1>48, <1>49, <1>50, <1>51, <1>52
  DEF Next, App, Fault, Restore, Exit, Compress, Test, Unload, vars, world, pool,
      pages

\* Every variable keeps its type; in particular no page's reference count goes
\* below zero, whoever maps, pins, restores, undoes, discards and exits.
THEOREM TypeCorrect == Spec => []TypeOK
<1>1. IInv => TypeOK
  BY DEF IInv, TypeOK, MemType, PteType, RefsType, RssType, PoolType, PcType, RegType,
         WorldType, Regs
<1> QED BY <1>1, InitIInv, StepIInv, PTL DEF Spec

\* MM_ANONPAGES counts the present entries and the decrements still owed.
THEOREM RssIsExact == Spec => []RssExact
<1>1. IInv => RssExact
  BY DEF IInv
<1> QED BY <1>1, InitIInv, StepIInv, PTL DEF Spec

\* A page that is mapped, pinned or being restored is never given back.
THEOREM UsersAreCovered == Spec => []RefsCoverUsers
<1>1. IInv => RefsCoverUsers
  <2> SUFFICES ASSUME IInv, NEW p \in Pages PROVE Cardinality(Users(p)) <= refs[p]
    BY DEF RefsCoverUsers
  <2>1. Users(p) = Mapped(p) \union Holding(p)
    BY DEF Users, Mapped, Holding
  <2>2. Cardinality(Mapped(p) \cap Holding(p)) \in Nat
    BY CountedFinite, FS_Intersection, FS_CardinalityType
  <2>3. Cardinality(Users(p)) <= Counted(p)
    BY <2>1, <2>2, CountedFinite, CountedType, FS_Union DEF Counted
  <2>4. Cardinality(Users(p)) \in Nat
    BY <2>1, CountedFinite, FS_Union, FS_CardinalityType
  <2> QED BY <2>3, <2>4, CountedType DEF IInv, RefsInv, RefsType
<1> QED BY <1>1, InitIInv, StepIInv, PTL DEF Spec

-----------------------------------------------------------------------------
(***************************************************************************)
(* Who owns a compressed object, and that no page's contents are lost.     *)
(*                                                                         *)
(* The map is keyed by the address alone and nothing serialises two actors *)
(* on one entry, so this holds for one process with one thread, with one   *)
(* compression at a time and one test at a time, and without the shrinker  *)
(* and the unload (OneProcess); the README's section on divergences shows  *)
(* what happens otherwise.  Applications may run while their pages are     *)
(* compressed, discard memory and exit, on a patched or a stock kernel.    *)
(*                                                                         *)
(* The invariant (Ownership) says for every actor which entry it relies on *)
(* at each point of the code: what it found is still the map's, what it    *)
(* packed is in nobody's hands, and a marker has an entry unless the fault *)
(* that restores it has just removed it.                                   *)
(***************************************************************************)

AtMostOne(S) == \A x, y \in S : x = y

\* One process with one thread, one compression, one test; nobody takes entries
\* away from under them.
OneProcess ==
  /\ AtMostOne(Mms) /\ AtMostOne(Threads) /\ AtMostOne(Compressors) /\ AtMostOne(Testers)
  /\ BenchKeys \cap Addrs = {}
  /\ {"pressure", "unload"} \cap Env = {}

\* The module stays, and on a patched kernel no fault fails.
Resident ==
  /\ module = "loaded" /\ todo = {} /\ pc[Unloader] = "idle"
  /\ "stock" \notin Env => kernel = "patched" /\ sigbus = {}

\* The objects in the map are allocated, and each is there once.
EntryInv ==
  /\ \A k \in Keys : map[k] # None => zs[map[k]] # Free
  /\ \A j, k \in Keys : map[j] # None /\ map[j] = map[k] => j = k

\* An object that was packed and is not in the map yet is known to its packer
\* alone.
Packing(x) == pc[x] \in {"packed", "test_packed"}
PackedInv ==
  /\ \A x \in Compressors \union Testers : Packing(x) =>
       zs[reg[x].handle] # Free /\ \A k \in Keys : map[k] # reg[x].handle
  /\ \A c \in Compressors, x \in Testers :
       Packing(c) /\ Packing(x) => reg[c].handle # reg[x].handle

\* Until it replaces the entry, a compression is not at a marker; once it is
\* mapped, its object is what the map has.
CompressInv ==
  \A c \in Compressors :
    /\ pc[c] \in {"sampled", "packed", "mapped", "undo"} => pte[reg[c].mm][reg[c].key] # Marker
    /\ pc[c] \in {"mapped", "undo"} => map[reg[c].key] = reg[c].handle

\* A fault is at a marker, and until it removes the entry that entry is there;
\* what it or a zap found is what the map has.
FaultInv ==
  \A t \in Threads :
    /\ pc[t] \in {"fault", "found", "filled", "removed"} =>
         pte[MmOf[t]][reg[t].key] = Marker
    /\ pc[t] = "fault" => map[reg[t].key] # None
    /\ pc[t] \in {"found", "filled"} => map[reg[t].key] = reg[t].handle
    /\ pc[t] = "removed" => map[reg[t].key] = None
    /\ Zapping(t) /\ reg[t].handle # None => map[reg[t].key] = reg[t].handle

\* An exit runs without compressions, and the addresses it has cleared stay
\* clear of markers.
ExitingInv ==
  \A t \in Threads :
    /\ Exiting(t) => \A c \in Compressors : pc[c] = "idle"
    /\ ~ Exiting(t) => reg[t].cleared = {}
    /\ pc[t] = "exit_found" =>
         map[reg[t].key] = reg[t].handle /\ pte[MmOf[t]][reg[t].key] # Marker
    /\ \A a \in reg[t].cleared : pte[MmOf[t]][a] # Marker

\* A test works on its own addresses.
TestInv ==
  \A x \in Testers :
    /\ pc[x] # "idle" => reg[x].key \in BenchKeys
    /\ pc[x] = "test_found" => map[reg[x].key] = reg[x].handle

\* A marker has an entry, or a fault that has just taken it.
BackedInv ==
  \A m \in Mms, a \in Addrs :
    pte[m][a] = Marker =>
      map[a] # None \/ \E t \in Threads : pc[t] = "removed" /\ reg[t].key = a

Ownership ==
  /\ Resident /\ EntryInv /\ PackedInv /\ CompressInv /\ FaultInv /\ ExitingInv
  /\ TestInv /\ BackedInv

-----------------------------------------------------------------------------
(* Nothing is left behind on a kernel that calls the zap callback, when an *)
(* exit can collect the address space at once and the tests are not used,  *)
(* which store twice under one index.                                      *)

Tidy == /\ OneProcess
        /\ Testers = {} /\ "stock" \notin Env /\ Cardinality(Addrs) <= ZapCap

\* A zap has what the map has, even if that is nothing.
ZapSees == \A t \in Threads : Zapping(t) => reg[t].handle = map[reg[t].key]

TidyInv == ZapSees /\ EntriesOwned /\ NoObjectLeak

-----------------------------------------------------------------------------
(* Contents survive when the application is stopped while its pages are    *)
(* compressed and no CPU keeps a translation of a replaced entry.          *)

Stopped == OneProcess /\ {"async", "tlb"} \cap Env = {}

\* While a compression runs the thread does nothing, and the entry is the
\* sampled one.
StoppedInv ==
  /\ \A c \in Compressors, t \in Threads : pc[c] # "idle" => pc[t] = "idle"
  /\ \A c \in Compressors : pc[c] \in {"sampled", "packed", "mapped"} =>
       pte[reg[c].mm][reg[c].key] = reg[c].pte
  /\ tlb = {}

\* A page is mapped once, and one that is being filled is not mapped.
PageInv ==
  /\ \A m, n \in Mms, a, b \in Addrs :
       pte[m][a].page # None /\ pte[m][a].page = pte[n][b].page => a = b
  /\ \A t \in Threads, m \in Mms, a \in Addrs :
       pc[t] \in {"filled", "removed"} => pte[m][a].page # reg[t].page

\* What the application last wrote is in its page, or in the object its marker
\* leads to.
MemoryInv ==
  \A m \in Mms, a \in Addrs : mem[m][a] # None =>
    /\ pte[m][a].st = "present" => ram[pte[m][a].page] = mem[m][a]
    /\ pte[m][a] = Marker /\ map[a] # None => zs[map[a]] = mem[m][a]
    /\ pte[m][a] # NoPte

\* An object holds what is in the page it was made from.
ObjectInv ==
  \A c \in Compressors : pc[c] \in {"packed", "mapped"} => zs[reg[c].handle] = ram[reg[c].page]

\* A page a fault has filled holds what the application last wrote there.
FilledInv ==
  \A t \in Threads :
    pc[t] \in {"filled", "removed"} /\ mem[MmOf[t]][reg[t].key] # None =>
      ram[reg[t].page] = mem[MmOf[t]][reg[t].key]

LosslessInv == StoppedInv /\ PageInv /\ MemoryInv /\ ObjectInv /\ FilledInv

-----------------------------------------------------------------------------
\* What the locals of each kind of actor are.
LEMMA LocalFacts ==
  ASSUME IInv
  PROVE  /\ \A c \in Compressors : CompressorOk(c) /\ reg[c] \in Regs
         /\ \A t \in Threads : ThreadOk(t) /\ reg[t] \in Regs
         /\ \A x \in Testers : TesterOk(x) /\ reg[x] \in Regs
BY ActorFacts DEF IInv, LocalsInv, LocalOk, RegType

\* The shrinker and the unload do nothing here.
LEMMA NoUnload ==
  ASSUME OneProcess, Resident
  PROVE  /\ ~ Shrink
         /\ Unload => \E m \in Mms : DrainSkip(m)
         /\ \A t \in Threads, a \in Addrs : ~ FaultUnloaded(t, a)
<1>1. ~ Shrink /\ ~ UnloadStart
  BY DEF OneProcess, Shrink, UnloadStart
<1>2. \A m \in Mms, a \in Addrs : ~ DrainSample(m, a)
  BY DEF Resident, DrainSample
<1>3. ~ DrainLookup /\ ~ DrainFail /\ ~ DrainFill
  BY DEF Resident, DrainLookup, DrainFail, DrainFill, Return, Goto
<1>4. ~ DrainBad /\ ~ DrainInstall /\ ~ DrainRemove
  BY DEF Resident, DrainBad, DrainInstall, DrainRemove, Return, Goto
<1>5. ~ UnloadFinish
  BY DEF Resident, UnloadFinish
<1>6. \A t \in Threads, a \in Addrs : ~ FaultUnloaded(t, a)
  BY DEF Resident, FaultUnloaded
<1> QED BY <1>1, <1>2, <1>3, <1>4, <1>5, <1>6 DEF Unload

\* Setting one page table entry.
LEMMA EntrySet ==
  ASSUME PteType, NEW m \in Mms, NEW a \in Addrs, NEW e, SetPte(m, a, e)
  PROVE  OnlyEntry(m, a) /\ pte'[m][a] = e
BY DEF PteType, SetPte, OnlyEntry

\* What the first step of an operation finds in the locals it has made.
LEMMA MadeFacts ==
  /\ \A m, k : RegAt(m, k).mm = m /\ RegAt(m, k).key = k /\ RegAt(m, k).cleared = {}
  /\ \A m, k, h : /\ RegZap(m, k, h).key = k /\ RegZap(m, k, h).handle = h
                  /\ RegZap(m, k, h).cleared = {}
  /\ \A k, h : RegTest(k, h).key = k /\ RegTest(k, h).handle = h
  /\ \A m, z : RegExit(m, z).cleared = z
  /\ \A m, k, e : /\ RegSample(m, k, e).mm = m /\ RegSample(m, k, e).key = k
                  /\ RegSample(m, k, e).pte = e /\ RegSample(m, k, e).page = e.page
  /\ \A r \in Regs : \A k, h :
       /\ RegNext(r, k, h).key = k /\ RegNext(r, k, h).handle = h
       /\ RegNext(r, k, h).cleared = r.cleared \ {k}
<1>1. \A m, k : RegAt(m, k).mm = m /\ RegAt(m, k).key = k /\ RegAt(m, k).cleared = {}
  BY DEF RegAt, NoReg
<1>2. \A m, k, h : /\ RegZap(m, k, h).key = k /\ RegZap(m, k, h).handle = h
                   /\ RegZap(m, k, h).cleared = {}
  BY DEF RegZap, NoReg
<1>3. /\ \A k, h : RegTest(k, h).key = k /\ RegTest(k, h).handle = h
      /\ \A m, z : RegExit(m, z).cleared = z
  BY DEF RegTest, RegExit, NoReg
<1>4. \A m, k, e : /\ RegSample(m, k, e).mm = m /\ RegSample(m, k, e).key = k
                   /\ RegSample(m, k, e).pte = e /\ RegSample(m, k, e).page = e.page
  BY DEF RegSample, NoReg
<1>5. ASSUME NEW r \in Regs, NEW k, NEW h
      PROVE  /\ RegNext(r, k, h).key = k /\ RegNext(r, k, h).handle = h
             /\ RegNext(r, k, h).cleared = r.cleared \ {k}
  BY DEF RegNext, Regs
<1> QED BY <1>1, <1>2, <1>3, <1>4, <1>5

\* At most the entry at k goes, and its object with it.
Leaves(k) ==
  /\ \A j \in Keys : map'[j] # map[j] => j = k /\ map'[j] = None /\ zs'[map[j]] = Free
  /\ \A h \in Handles : zs'[h] # zs[h] => h = map[k] /\ map[k] # None /\ map'[k] = None

\* An entry and its object leave the map and the pool together.
LEMMA Removed ==
  ASSUME PoolType, EntryInv, NEW k \in Keys, map[k] # None, RemoveAndFree(k, map[k])
  PROVE  Leaves(k) /\ map'[k] = None /\ zs'[map[k]] = Free /\ EntryInv'
<1>1. map[k] \in Handles
  BY DEF PoolType
<1>2. \A j \in Keys : map'[j] = IF j = k THEN None ELSE map[j]
  BY DEF PoolType, RemoveAndFree
<1>3. \A h \in Handles : zs'[h] = IF h = map[k] THEN Free ELSE zs[h]
  BY <1>1 DEF PoolType, RemoveAndFree
<1>4. EntryInv'
  <2>1. \A j \in Keys : map'[j] # None =>
          map'[j] = map[j] /\ map[j] \in Handles /\ map[j] # map[k]
    BY <1>2 DEF PoolType, EntryInv
  <2> QED BY <2>1, <1>3 DEF EntryInv
<1> QED BY <1>1, <1>2, <1>3, <1>4 DEF Leaves

\* A packed object enters the map.
Enters(k, h) ==
  /\ \A j \in Keys : map'[j] = IF j = k THEN h ELSE map[j]
  /\ UNCHANGED zs

\* A packed object that is mapped leaves the entries right.
LEMMA Entered ==
  ASSUME PoolType, EntryInv, NEW k \in Keys, NEW h \in Handles,
         zs[h] # Free, \A j \in Keys : map[j] # h,
         map' = [map EXCEPT ![k] = h], UNCHANGED zs
  PROVE  Enters(k, h) /\ EntryInv'
<1>1. \A j \in Keys : map'[j] = IF j = k THEN h ELSE map[j]
  BY DEF PoolType
<1>2. EntryInv'
  BY <1>1 DEF EntryInv
<1> QED BY <1>1, <1>2 DEF Enters

\* An object nobody has is allocated or given up.
Sets(h) == UNCHANGED map /\ \A g \in Handles : g # h => zs'[g] = zs[g]

\* So does a change of an object no entry has.
LEMMA SetApart ==
  ASSUME PoolType, EntryInv, NEW h \in Handles, \A j \in Keys : map[j] # h,
         NEW d, zs' = [zs EXCEPT ![h] = d], UNCHANGED map
  PROVE  Sets(h) /\ zs'[h] = d /\ EntryInv'
<1>1. \A g \in Handles : zs'[g] = IF g = h THEN d ELSE zs[g]
  BY DEF PoolType
<1>2. \A j \in Keys : map[j] # None => map[j] \in Handles
  BY DEF PoolType
<1>3. EntryInv'
  BY <1>1, <1>2 DEF EntryInv
<1> QED BY <1>1, <1>3 DEF Sets

\* What others have packed is untouched by any of the three.
LEMMA PackedKept ==
  ASSUME OneProcess, IInv, Ownership, NEW x \in Actors, OnlyActor(x), ~ Packing(x)',
         \/ \E k \in Keys : Leaves(k)
         \/ \E k \in Keys : Packing(x) /\ Enters(k, reg[x].handle)
         \/ Packing(x) /\ Sets(reg[x].handle)
  PROVE  PackedInv'
<1> USE LocalFacts, ActorFacts DEF Ownership, CompressorOk, TesterOk
<1>1. ASSUME NEW y \in Compressors \union Testers, Packing(y)'
      PROVE  y # x /\ Packing(y) /\ reg'[y] = reg[y] /\ reg[y].handle \in Handles
  <2>1. y # x /\ y \in Actors
    BY <1>1
  <2>2. pc'[y] = pc[y] /\ reg'[y] = reg[y]
    BY <2>1 DEF OnlyActor
  <2> QED BY <1>1, <2>1, <2>2 DEF Packing
<1>2. ASSUME NEW y \in Compressors \union Testers, Packing(y)', Packing(x)
      PROVE  x \in Compressors \union Testers /\ reg[y].handle # reg[x].handle
  <2>1. x \in Compressors \union Testers
    BY <1>2 DEF Packing, ThreadOk, Actors, Resident
  <2> QED BY <1>1, <1>2, <2>1 DEF PackedInv, OneProcess, AtMostOne
<1>3. ASSUME NEW y \in Compressors \union Testers, Packing(y)'
      PROVE  zs'[reg[y].handle] # Free /\ \A j \in Keys : map'[j] # reg[y].handle
  <2>1. zs[reg[y].handle] # Free /\ \A j \in Keys : map[j] # reg[y].handle
    BY <1>1, <1>3 DEF PackedInv
  <2>2. reg[y].handle \in Handles /\ reg[y].handle # None
    BY <1>1, <1>3, NoneAssumption
  <2>3. CASE \E k \in Keys : Leaves(k)
    BY <2>1, <2>2, <2>3 DEF Leaves
  <2>4. CASE \E k \in Keys : Packing(x) /\ Enters(k, reg[x].handle)
    BY <1>2, <1>3, <2>1, <2>2, <2>4 DEF Enters
  <2>5. CASE Packing(x) /\ Sets(reg[x].handle)
    BY <1>2, <1>3, <2>1, <2>2, <2>5 DEF Sets
  <2> QED BY <2>3, <2>4, <2>5
<1> QED BY <1>1, <1>3 DEF PackedInv

\* A step that turns no entry into a marker or out of one.
SameMarkers == \A m \in Mms, a \in Addrs : pte'[m][a] = Marker <=> pte[m][a] = Marker

\* What depends on the markers alone survives such a step.
LEMMA MarkersKept ==
  ASSUME OneProcess, IInv, Ownership, UNCHANGED <<map, pc, reg>>, SameMarkers
  PROVE  CompressInv' /\ FaultInv' /\ ExitingInv' /\ BackedInv'
<1> USE LocalFacts, ActorFacts DEF Ownership, CompressorOk, ThreadOk
<1>1. CompressInv'
  BY DEF CompressInv, SameMarkers
<1>2. FaultInv'
  BY DEF FaultInv, SameMarkers, Zapping
<1>3. ExitingInv'
  <2>1. \A t \in Threads : reg[t].cleared \subseteq Addrs
    BY DEF Regs
  <2> QED BY <2>1 DEF ExitingInv, SameMarkers, Exiting
<1>4. BackedInv'
  BY DEF BackedInv, SameMarkers
<1> QED BY <1>1, <1>2, <1>3, <1>4

\* An exit and a compression do not overlap, and a compression that has not
\* replaced its entry is at another address than a fault or a zap.
LEMMA Apart ==
  ASSUME OneProcess, IInv, Ownership, NEW c \in Compressors, NEW t \in Threads
  PROVE  /\ pc[c] # "idle" => ~ Exiting(t)
         /\ pc[c] \in {"sampled", "packed", "mapped", "undo"}
            /\ pc[t] \in {"fault", "found", "filled", "removed", "zap"}
              => reg[t].key # reg[c].key
<1> USE LocalFacts, ActorFacts DEF Ownership
<1>1. pc[c] # "idle" => ~ Exiting(t)
  BY DEF ExitingInv
<1>2. ASSUME pc[c] \in {"sampled", "packed", "mapped", "undo"},
             pc[t] \in {"fault", "found", "filled", "removed", "zap"}
      PROVE  reg[t].key # reg[c].key
  <2>1. pte[MmOf[t]][reg[t].key] = Marker
    BY <1>2 DEF FaultInv, IInv, ZapInv, Zapping
  <2>2. reg[c].mm = MmOf[t] /\ pte[reg[c].mm][reg[c].key] # Marker
    BY <1>2 DEF CompressInv, CompressorOk, OneProcess, AtMostOne
  <2> QED BY <2>1, <2>2
<1> QED BY <1>1, <1>2

\* What minimem_zap_range collects it has cleared.
LEMMA CollectedCleared ==
  ASSUME NEW markers \in SUBSET Addrs, NEW z \in ZapRange(markers)
  PROVE  z[2] \subseteq z[1]
<1>1. \/ z = <<markers, markers>> \/ z = <<{}, {}>>
      \/ z = <<{a \in markers : Cardinality({b \in markers : b < a}) < ZapCap + 1},
               {a \in markers : Cardinality({b \in markers : b < a}) < ZapCap}>>
  BY DEF ZapRange
<1>2. CASE z = <<markers, markers>> \/ z = <<{}, {}>>
  BY <1>2
<1>3. CASE z = <<{a \in markers : Cardinality({b \in markers : b < a}) < ZapCap + 1},
                 {a \in markers : Cardinality({b \in markers : b < a}) < ZapCap}>>
  <2>1. ASSUME NEW a \in markers PROVE Cardinality({b \in markers : b < a}) \in Nat
    <3>1. {b \in markers : b < a} \subseteq Addrs
      OBVIOUS
    <3>2. IsFiniteSet({b \in markers : b < a})
      BY ONLY <3>1, ActorFacts, FS_Subset
    <3> QED BY ONLY <3>2, FS_CardinalityType
  <2>2. \A a \in markers : Cardinality({b \in markers : b < a}) < ZapCap =>
          Cardinality({b \in markers : b < a}) < ZapCap + 1
    BY <2>1, BoundsAssumption
  <2> QED BY ONLY <1>3, <2>2
<1> QED BY <1>1, <1>2, <1>3

\* The objects of the entries that stay.
OthersKept ==
  \A j \in Keys : map'[j] # None /\ map'[j] = map[j] => zs'[map[j]] = zs[map[j]]

\* Removing an entry, or changing an object no entry has, keeps them.
LEMMA ObjectsKept ==
  ASSUME PoolType, EntryInv,
         \/ \E k \in Keys : Leaves(k)
         \/ \E h \in Handles : Sets(h) /\ \A j \in Keys : map[j] # h
  PROVE  OthersKept
<1> SUFFICES ASSUME NEW j \in Keys, map'[j] # None, map'[j] = map[j]
             PROVE  zs'[map[j]] = zs[map[j]]
  BY DEF OthersKept
<1>1. map[j] \in Handles
  BY DEF PoolType
<1>2. CASE \E k \in Keys : Leaves(k)
  BY <1>1, <1>2 DEF Leaves, EntryInv
<1>3. CASE \E h \in Handles : Sets(h) /\ \A i \in Keys : map[i] # h
  BY <1>1, <1>3 DEF Sets
<1> QED BY <1>2, <1>3

\* A page without references is neither mapped nor held.
LEMMA FreshPage ==
  ASSUME IInv, NEW p \in Pages, refs[p] = 0
  PROVE  /\ \A m \in Mms, a \in Addrs : pte[m][a].page # p
         /\ \A t \in Threads : pc[t] \in {"filled", "removed"} => reg[t].page # p
         /\ \A c \in Compressors : reg[c].page # p
<1>1. Counted(p) <= refs[p] /\ refs[p] \in Nat
  BY DEF IInv, RefsInv, RefsType
<1>2. Mapped(p) = {} /\ Holding(p) = {}
  <2>1. ~ (refs[p] >= 1)
    OBVIOUS
  <2> QED BY <1>1, <2>1, InUse
<1>3. \A x \in Actors : ~ Holds(x, p)
  BY <1>2 DEF Holding
<1>4. \A m \in Mms, a \in Addrs : pte[m][a].page # p
  <2>1. \A m \in Mms, a \in Addrs : <<m, a>> \notin Mapped(p)
    BY <1>2
  <2> QED BY <2>1 DEF Mapped
<1>5. \A t \in Threads : pc[t] \in {"filled", "removed"} => reg[t].page # p
  BY <1>3, ActorFacts DEF Holds
<1>6. \A c \in Compressors : reg[c].page # p
  BY <1>3, ActorFacts DEF Holds
<1> QED BY <1>4, <1>5, <1>6

\* An application that acts finds no compression.
LEMMA NoneRuns ==
  ASSUME Stopped, IInv, NEW t \in Threads, Running(t)
  PROVE  \A c \in Compressors : pc[c] = "idle"
<1> SUFFICES ASSUME NEW c \in Compressors, pc[c] # "idle" PROVE FALSE
  OBVIOUS
<1>1. reg[c].mm \in Mms /\ MmOf[t] \in Mms
  BY LocalFacts, ActorFacts DEF CompressorOk
<1>2. reg[c].mm = MmOf[t]
  BY <1>1 DEF Stopped, OneProcess, AtMostOne
<1> QED BY <1>2 DEF Running, Stopped

\* Where the array can hold them all, minimem_zap_range collects what it clears.
LEMMA ClearedCollected ==
  ASSUME Tidy, NEW markers \in SUBSET Addrs, NEW z \in ZapRange(markers)
  PROVE  z[1] \subseteq z[2]
<1>1. ~ (Cardinality(markers) > ZapCap)
  <2>1. /\ IsFiniteSet(Addrs) /\ markers \subseteq Addrs
    BY ActorFacts
  <2>2. /\ Cardinality(markers) <= Cardinality(Addrs)
        /\ Cardinality(markers) \in Nat /\ Cardinality(Addrs) \in Nat
    BY ONLY <2>1, FS_Subset, FS_CardinalityType
  <2> QED BY <2>2, BoundsAssumption DEF Tidy
<1>2. z = <<markers, markers>> \/ z = <<{}, {}>>
  BY <1>1 DEF ZapRange
<1> QED BY <1>2

\* What a step keeps.
Kept == /\ Ownership'
        /\ Tidy /\ TidyInv => TidyInv'
        /\ Stopped /\ LosslessInv => LosslessInv'

\* Every action keeps who owns what, what is left behind, and the contents.
LEMMA Step == ASSUME OneProcess, IInv, Ownership, [Next]_vars PROVE Kept
<1> USE ActorFacts, PteFacts, NoneAssumption, NoRegFacts, LocalFacts, NoUnload
    DEF OneProcess, AtMostOne, IInv, Ownership, TidyInv, LosslessInv, pool, pages, world
<1>1. ASSUME NEW c \in Compressors, NEW m \in Mms, NEW a \in Addrs, CompressSample(c, m, a)
      PROVE  Kept
  <2>a. /\ OnlyActor(c) /\ pc[c] = "idle" /\ pc'[c] = "sampled"
        /\ reg'[c] = RegSample(m, a, pte[m][a])
    BY <1>1 DEF OnlyActor, PcType, RegType, RegSample, CompressSample, Goto
  <2>b. reg'[c].mm = m /\ reg'[c].key = a
    BY ONLY <2>a, MadeFacts
  <2>1. EntryInv'
    BY <1>1 DEF EntryInv, CompressSample, Goto
  <2>2. Resident'
    BY <1>1, <2>a, <2>b DEF Resident, CompressSample, Goto
  <2>3. PackedInv'
    BY <1>1, <2>a, <2>b DEF PackedInv, Packing, CompressSample, Goto
  <2>4. CompressInv'
    BY <1>1, <2>a, <2>b DEF CompressInv, CompressSample, Goto
  <2>5. FaultInv'
    BY <1>1, <2>a, <2>b DEF FaultInv, Zapping, CompressSample, Goto
  <2>6. ExitingInv'
    <3>1. \A u \in Threads : ~ Exiting(u)
      BY <1>1 DEF CompressSample, Alive, Exiting
    <3> QED BY <1>1, <2>a, <2>b, <3>1
      DEF OnlyActor, Exiting, ExitingInv, CompressSample, Goto
  <2>7. TestInv'
    BY <1>1, <2>a, <2>b DEF TestInv, CompressSample, Goto
  <2>8. BackedInv'
    BY <1>1, <2>a, <2>b DEF BackedInv, CompressSample, Goto
  <2>9. ASSUME Tidy, TidyInv PROVE TidyInv'
    <3>1. ZapSees'
      BY <1>1, <2>a, <2>b, <2>9 DEF ZapSees, Zapping, CompressSample, Goto
    <3>2. EntriesOwned'
      BY <1>1, <2>a, <2>b, <2>9 DEF EntriesOwned, Owner, CompressSample, Goto
    <3>3. NoObjectLeak'
      BY <1>1, <2>a, <2>b, <2>9 DEF NoObjectLeak, CompressSample, Goto
    <3> QED BY <3>1, <3>2, <3>3
  <2>10. ASSUME Stopped, LosslessInv PROVE LosslessInv'
    <3>m. \A u \in Threads : pc'[u] = "idle"
      <4>1. \A u \in Threads : pc[u] = "idle"
        BY <1>1, <2>10 DEF Stopped, CompressSample
      <4> QED BY <2>a, <4>1 DEF OnlyActor
    <3>1. MemoryInv'
      BY <1>1, <2>10 DEF MemoryInv, CompressSample, Goto
    <3>2. StoppedInv'
      BY <1>1, <2>a, <2>b, <2>10, <3>m
        DEF OnlyActor, OnlyEntry, CompressorOk, ThreadOk, TesterOk, Leaves, Enters,
        Sets, PoolType, MemType, PteType, StoppedInv, CompressSample, Goto
    <3>3. PageInv'
      BY <1>1, <2>a, <2>b, <2>10, <3>m DEF PageInv, CompressSample, Goto
    <3>4. ObjectInv'
      BY <1>1, <2>a, <2>b, <2>10, <3>m DEF ObjectInv, CompressSample, Goto
    <3>5. FilledInv'
      BY <3>m DEF FilledInv
    <3> QED BY <3>1, <3>2, <3>3, <3>4, <3>5
  <2> QED BY <2>1, <2>2, <2>3, <2>4, <2>5, <2>6, <2>7, <2>8, <2>9, <2>10 DEF Kept
<1>2. ASSUME NEW c \in Compressors, CompressPack(c)
      PROVE  Kept
  <2>p. PICK h \in Handles : /\ zs[h] = Free
                             /\ zs' = [zs EXCEPT ![h] = ram[reg[c].page]]
                             /\ reg' = [reg EXCEPT ![c].handle = h]
    BY <1>2 DEF CompressPack, Goto
  <2>a. /\ OnlyActor(c) /\ pc[c] = "sampled" /\ pc'[c] = "packed"
        /\ reg'[c] = [reg[c] EXCEPT !.handle = h]
    BY <1>2, <2>p DEF OnlyActor, PcType, RegType, CompressPack, Goto
  <2>b. /\ reg'[c].handle = h /\ reg'[c].mm = reg[c].mm
        /\ reg'[c].key = reg[c].key
    BY <2>a DEF Regs
  <2>r. Sets(h) /\ zs'[h] # Free /\ EntryInv' /\ \A j \in Keys : map[j] # h
    <3>1. \A j \in Keys : map[j] # h
      BY <2>p DEF EntryInv
    <3>2. ram[reg[c].page] # Free
      BY <2>a, NoneAssumption DEF MemType, CompressorOk
    <3>3. UNCHANGED map
      BY <1>2 DEF CompressPack
    <3> QED BY <2>p, <3>1, <3>2, <3>3, SetApart
  <2>1. Resident'
    BY <1>2, <2>p, <2>a, <2>b, <2>r DEF Resident, CompressPack, Goto
  <2>2. EntryInv'
    BY <2>r
  <2>3. PackedInv'
    BY <1>2, <2>p, <2>a, <2>b, <2>r DEF PackedInv, Packing, CompressPack, Goto
  <2>4. CompressInv'
    BY <1>2, <2>p, <2>a, <2>b, <2>r DEF CompressInv, CompressPack, Goto
  <2>5. FaultInv'
    BY <1>2, <2>p, <2>a, <2>b, <2>r DEF FaultInv, Zapping, CompressPack, Goto
  <2>6. ExitingInv'
    BY <1>2, <2>p, <2>a, <2>b, <2>r DEF ExitingInv, Exiting, CompressPack, Goto
  <2>7. TestInv'
    BY <1>2, <2>p, <2>a, <2>b, <2>r DEF TestInv, CompressPack, Goto
  <2>8. BackedInv'
    BY <1>2, <2>p, <2>a, <2>b, <2>r DEF BackedInv, CompressPack, Goto
  <2>9. ASSUME Tidy, TidyInv PROVE TidyInv'
    <3>1. ZapSees'
      BY <1>2, <2>p, <2>a, <2>b, <2>r, <2>9 DEF ZapSees, Zapping, CompressPack, Goto
    <3>2. EntriesOwned'
      BY <1>2, <2>p, <2>a, <2>b, <2>r, <2>9 DEF EntriesOwned, Owner, CompressPack, Goto
    <3>3. NoObjectLeak'
      BY <1>2, <2>p, <2>a, <2>b, <2>r, <2>9 DEF NoObjectLeak, CompressPack, Goto
    <3> QED BY <3>1, <3>2, <3>3
  <2>10. ASSUME Stopped, LosslessInv PROVE LosslessInv'
    <3>m. \A u \in Threads : pc'[u] = "idle"
      BY <2>a, <2>10 DEF StoppedInv, OnlyActor
    <3>1. StoppedInv'
      BY <1>2, <2>p, <2>a, <2>b, <2>r, <2>10, <3>m DEF StoppedInv, CompressPack, Goto
    <3>2. PageInv'
      BY <1>2, <2>p, <2>a, <2>b, <2>r, <2>10, <3>m DEF PageInv, CompressPack, Goto
    <3>3. MemoryInv'
      BY <1>2, <2>p, <2>a, <2>b, <2>r, <2>10, <3>m DEF MemoryInv, CompressPack, Goto
    <3>4. ObjectInv'
      BY <1>2, <2>p, <2>a, <2>b, <2>r, <2>10, <3>m DEF ObjectInv, CompressPack, Goto
    <3>5. FilledInv'
      BY <3>m DEF FilledInv
    <3> QED BY <3>1, <3>2, <3>3, <3>4, <3>5
  <2> QED BY <2>1, <2>2, <2>3, <2>4, <2>5, <2>6, <2>7, <2>8, <2>9, <2>10 DEF Kept
<1>3. ASSUME NEW c \in Compressors, CompressGiveUp(c)
      PROVE  Kept
  <2>a. /\ OnlyActor(c) /\ pc[c] = "sampled" /\ pc'[c] = "idle"
        /\ reg'[c] = NoReg
    BY <1>3 DEF OnlyActor, PcType, RegType, CompressGiveUp, PutPage, Return, Goto
  <2>1. EntryInv'
    BY <1>3 DEF EntryInv, CompressGiveUp, PutPage, Return, Goto
  <2>2. Resident'
    BY <1>3, <2>a DEF Resident, CompressGiveUp, PutPage, Return, Goto
  <2>3. PackedInv'
    BY <1>3, <2>a DEF PackedInv, Packing, CompressGiveUp, PutPage, Return, Goto
  <2>4. CompressInv'
    BY <1>3, <2>a DEF CompressInv, CompressGiveUp, PutPage, Return, Goto
  <2>5. FaultInv'
    BY <1>3, <2>a DEF FaultInv, Zapping, CompressGiveUp, PutPage, Return, Goto
  <2>6. ExitingInv'
    BY <1>3, <2>a DEF ExitingInv, Exiting, CompressGiveUp, PutPage, Return, Goto
  <2>7. TestInv'
    BY <1>3, <2>a DEF TestInv, CompressGiveUp, PutPage, Return, Goto
  <2>8. BackedInv'
    BY <1>3, <2>a DEF BackedInv, CompressGiveUp, PutPage, Return, Goto
  <2>9. ASSUME Tidy, TidyInv PROVE TidyInv'
    <3>1. ZapSees'
      BY <1>3, <2>a, <2>9 DEF ZapSees, Zapping, CompressGiveUp, PutPage, Return, Goto
    <3>2. EntriesOwned'
      BY <1>3, <2>a, <2>9 DEF EntriesOwned, Owner, CompressGiveUp, PutPage, Return, Goto
    <3>3. NoObjectLeak'
      BY <1>3, <2>a, <2>9 DEF NoObjectLeak, CompressGiveUp, PutPage, Return, Goto
    <3> QED BY <3>1, <3>2, <3>3
  <2>10. ASSUME Stopped, LosslessInv PROVE LosslessInv'
    <3>m. \A u \in Threads : pc'[u] = "idle"
      BY <2>a, <2>10 DEF StoppedInv, OnlyActor
    <3>1. MemoryInv'
      BY <1>3, <2>10 DEF MemoryInv, CompressGiveUp, PutPage, Return, Goto
    <3>2. StoppedInv'
      BY <1>3, <2>a, <2>10, <3>m DEF StoppedInv, CompressGiveUp, PutPage, Return, Goto
    <3>3. PageInv'
      BY <1>3, <2>a, <2>10, <3>m DEF PageInv, CompressGiveUp, PutPage, Return, Goto
    <3>4. ObjectInv'
      BY <1>3, <2>a, <2>10, <3>m DEF ObjectInv, CompressGiveUp, PutPage, Return, Goto
    <3>5. FilledInv'
      BY <3>m DEF FilledInv
    <3> QED BY <3>1, <3>2, <3>3, <3>4, <3>5
  <2> QED BY <2>1, <2>2, <2>3, <2>4, <2>5, <2>6, <2>7, <2>8, <2>9, <2>10 DEF Kept
<1>4. ASSUME NEW c \in Compressors, CompressMap(c)
      PROVE  Kept
  <2>a. /\ OnlyActor(c) /\ pc[c] = "packed" /\ pc'[c] = "mapped"
        /\ reg'[c] = reg[c]
    BY <1>4 DEF OnlyActor, PcType, RegType, CompressMap, Goto
  <2>m. reg[c].key \in Addrs /\ reg[c].handle \in Handles
    BY <2>a DEF CompressorOk, TestInv
  <2>r. Enters(reg[c].key, reg[c].handle) /\ EntryInv'
    <3>1. zs[reg[c].handle] # Free /\ \A j \in Keys : map[j] # reg[c].handle
      BY <2>a DEF PackedInv, Packing
    <3> QED BY <1>4, <2>m, <3>1, Entered DEF CompressMap
  <2>t. \A t \in Threads : /\ reg'[t] = reg[t] /\ pc'[t] = pc[t] /\ ~ Exiting(t)
                           /\ pc[t] # "idle" => map'[reg[t].key] = map[reg[t].key]
    <3>1. \A t \in Threads : /\ reg'[t] = reg[t] /\ pc'[t] = pc[t] /\ ~ Exiting(t)
                             /\ pc[t] # "idle" => reg[t].key # reg[c].key
      BY <2>a, Apart DEF OnlyActor, ThreadOk, Exiting
    <3> QED BY <2>m, <2>r, <3>1 DEF Enters, ThreadOk, Exiting
  <2>1. Resident'
    BY <1>4, <2>a, <2>m, <2>r, <2>t DEF Resident, CompressMap, Goto
  <2>2. EntryInv'
    BY <2>r
  <2>3. PackedInv'
    BY <2>a, <2>m, <2>r, PackedKept DEF Packing
  <2>4. CompressInv'
    BY <1>4, <2>a, <2>m, <2>r, <2>t
      DEF OnlyActor, OnlyEntry, CompressorOk, ThreadOk, TesterOk, Leaves, Enters, Sets,
      CompressInv, CompressMap, Goto
  <2>5. FaultInv'
    <3>1. UNCHANGED pte
      BY <1>4 DEF CompressMap
    <3> QED BY <2>t, <3>1 DEF FaultInv, Zapping
  <2>6. ExitingInv'
    BY <1>4, <2>a, <2>m, <2>r, <2>t DEF ExitingInv, Exiting, CompressMap, Goto
  <2>7. TestInv'
    BY <1>4, <2>a, <2>m, <2>r, <2>t DEF TestInv, CompressMap, Goto
  <2>8. BackedInv'
    BY <1>4, <2>a, <2>m, <2>r, <2>t DEF BackedInv, CompressMap, Goto
  <2>9. ASSUME Tidy, TidyInv PROVE TidyInv'
    <3>e. map[reg[c].key] = None
      BY <2>a, <2>m, <2>t, <2>9 DEF EntriesOwned, Owner, CompressInv, CompressorOk,
         Resident, ExitingInv, Exiting
    <3>1. ZapSees'
      BY <2>9, <2>t DEF ZapSees, Zapping
    <3>2. EntriesOwned'
      BY <1>4, <2>a, <2>m, <2>r, <2>t, <2>9, <3>e DEF EntriesOwned, Owner, CompressMap, Goto
    <3>3. NoObjectLeak'
      BY <1>4, <2>a, <2>m, <2>r, <2>t, <2>9, <3>e
        DEF OnlyActor, OnlyEntry, CompressorOk, ThreadOk, TesterOk, Leaves, Enters,
        Sets, PoolType, FaultInv, ExitingInv, CompressInv, Resident, NoObjectLeak,
        CompressMap, Goto
    <3> QED BY <3>1, <3>2, <3>3
  <2>10. ASSUME Stopped, LosslessInv PROVE LosslessInv'
    <3>m. \A u \in Threads : pc'[u] = "idle"
      BY <2>a, <2>10 DEF StoppedInv, OnlyActor
    <3>a. \A n \in Mms : pte[n][reg[c].key] # Marker
      BY <2>a, <2>m DEF CompressInv, CompressorOk
    <3>o. UNCHANGED <<pte, mem, ram, zs>>
      BY <1>4 DEF CompressMap
    <3>1. StoppedInv'
      BY <1>4, <2>a, <2>m, <2>r, <2>t, <2>10, <3>m, <3>a, <3>o
        DEF StoppedInv, CompressMap, Goto
    <3>2. PageInv'
      BY <1>4, <2>a, <2>m, <2>r, <2>t, <2>10, <3>m, <3>a, <3>o
        DEF PageInv, CompressMap, Goto
    <3>3. MemoryInv'
      BY <2>10, <2>m, <2>r, <3>a, <3>o DEF MemoryInv, Enters
    <3>4. ObjectInv'
      BY <1>4, <2>a, <2>m, <2>r, <2>t, <2>10, <3>m, <3>a, <3>o
        DEF ObjectInv, CompressMap, Goto
    <3>5. FilledInv'
      BY <3>m DEF FilledInv
    <3> QED BY <3>1, <3>2, <3>3, <3>4, <3>5
  <2> QED BY <2>1, <2>2, <2>3, <2>4, <2>5, <2>6, <2>7, <2>8, <2>9, <2>10 DEF Kept
<1>5. ASSUME NEW c \in Compressors, CompressMapFail(c)
      PROVE  Kept
  <2>a. /\ OnlyActor(c) /\ pc[c] = "packed" /\ pc'[c] = "idle"
        /\ reg'[c] = NoReg
    BY <1>5 DEF OnlyActor, PcType, RegType, CompressMapFail, PutPage, Return, Goto
  <2>m. reg[c].handle \in Handles
    BY <2>a DEF CompressorOk
  <2>r. Sets(reg[c].handle) /\ EntryInv'
    <3>1. \A j \in Keys : map[j] # reg[c].handle
      BY <2>a DEF PackedInv, Packing
    <3> QED BY <1>5, <2>m, <3>1, SetApart DEF CompressMapFail
  <2>1. Resident'
    BY <1>5, <2>a, <2>m, <2>r DEF Resident, CompressMapFail, PutPage, Return, Goto
  <2>2. EntryInv'
    BY <2>r
  <2>3. PackedInv'
    BY <2>a, <2>m, <2>r, PackedKept DEF Packing
  <2>4. CompressInv'
    BY <1>5, <2>a, <2>m, <2>r DEF CompressInv, CompressMapFail, PutPage, Return, Goto
  <2>5. FaultInv'
    BY <1>5, <2>a, <2>m, <2>r DEF FaultInv, Zapping, CompressMapFail, PutPage, Return, Goto
  <2>6. ExitingInv'
    BY <1>5, <2>a, <2>m, <2>r
      DEF ExitingInv, Exiting, CompressMapFail, PutPage, Return, Goto
  <2>7. TestInv'
    BY <1>5, <2>a, <2>m, <2>r DEF TestInv, CompressMapFail, PutPage, Return, Goto
  <2>8. BackedInv'
    BY <1>5, <2>a, <2>m, <2>r DEF BackedInv, CompressMapFail, PutPage, Return, Goto
  <2>9. ASSUME Tidy, TidyInv PROVE TidyInv'
    <3>1. ZapSees'
      BY <1>5, <2>a, <2>m, <2>r, <2>9
        DEF ZapSees, Zapping, CompressMapFail, PutPage, Return, Goto
    <3>2. EntriesOwned'
      BY <1>5, <2>a, <2>m, <2>r, <2>9
        DEF EntriesOwned, Owner, CompressMapFail, PutPage, Return, Goto
    <3>3. NoObjectLeak'
      BY <1>5, <2>a, <2>m, <2>r, <2>9
        DEF OnlyActor, OnlyEntry, CompressorOk, ThreadOk, TesterOk, Leaves, Enters,
        Sets, PoolType, FaultInv, ExitingInv, CompressInv, Resident, NoObjectLeak,
        CompressMapFail, PutPage, Return, Goto
    <3> QED BY <3>1, <3>2, <3>3
  <2>10. ASSUME Stopped, LosslessInv PROVE LosslessInv'
    <3>m. \A u \in Threads : pc'[u] = "idle"
      BY <2>a, <2>10 DEF StoppedInv, OnlyActor
    <3>o. OthersKept /\ UNCHANGED <<pte, mem, ram, map>>
      <4>1. \A j \in Keys : map[j] # reg[c].handle
        BY <2>a DEF PackedInv, Packing
      <4> QED BY <1>5, <2>m, <2>r, <4>1, ObjectsKept
        DEF CompressMapFail, PutPage
    <3>1. StoppedInv'
      BY <1>5, <2>a, <2>m, <2>r, <2>10, <3>m, <3>o
        DEF StoppedInv, CompressMapFail, PutPage, Return, Goto
    <3>2. PageInv'
      BY <1>5, <2>a, <2>m, <2>r, <2>10, <3>m, <3>o
        DEF PageInv, CompressMapFail, PutPage, Return, Goto
    <3>3. MemoryInv'
      BY <2>10, <3>o DEF MemoryInv, OthersKept
    <3>4. ObjectInv'
      BY <1>5, <2>a, <2>m, <2>r, <2>10, <3>m, <3>o
        DEF ObjectInv, CompressMapFail, PutPage, Return, Goto
    <3>5. FilledInv'
      BY <3>m DEF FilledInv
    <3> QED BY <3>1, <3>2, <3>3, <3>4, <3>5
  <2> QED BY <2>1, <2>2, <2>3, <2>4, <2>5, <2>6, <2>7, <2>8, <2>9, <2>10 DEF Kept
<1>6. ASSUME NEW c \in Compressors, CompressReplace(c)
      PROVE  Kept
  <2>a. /\ OnlyActor(c) /\ pc[c] = "mapped" /\ pc'[c] = "replaced"
        /\ reg'[c] = reg[c]
    BY <1>6 DEF OnlyActor, PcType, RegType, CompressReplace, SetPte, Goto
  <2>m. reg[c].mm \in Mms /\ reg[c].key \in Addrs
    BY <2>a DEF CompressorOk
  <2>w. OnlyEntry(reg[c].mm, reg[c].key) /\ pte'[reg[c].mm][reg[c].key] = Marker
    BY <1>6, <2>m, EntrySet DEF CompressReplace
  <2>1. EntryInv'
    BY <1>6 DEF EntryInv, CompressReplace, SetPte, Goto
  <2>2. Resident'
    BY <1>6, <2>a, <2>m, <2>w DEF Resident, CompressReplace, SetPte, Goto
  <2>3. PackedInv'
    BY <1>6, <2>a, <2>m, <2>w DEF PackedInv, Packing, CompressReplace, SetPte, Goto
  <2>4. CompressInv'
    BY <1>6, <2>a, <2>m, <2>w DEF CompressInv, CompressReplace, SetPte, Goto
  <2>5. FaultInv'
    BY <1>6, <2>a, <2>m, <2>w DEF FaultInv, Zapping, CompressReplace, SetPte, Goto
  <2>6. ExitingInv'
    BY <1>6, <2>a, <2>m, <2>w DEF ExitingInv, Exiting, CompressReplace, SetPte, Goto
  <2>7. TestInv'
    BY <1>6, <2>a, <2>m, <2>w DEF TestInv, CompressReplace, SetPte, Goto
  <2>8. BackedInv'
    <3>1. map[reg[c].key] # None
      BY <2>a DEF CompressInv, CompressorOk
    <3> QED BY <1>6, <2>a, <2>m, <2>w, <3>1
      DEF OnlyActor, OnlyEntry, BackedInv, CompressReplace, SetPte, Goto
  <2>9. ASSUME Tidy, TidyInv PROVE TidyInv'
    <3>1. ZapSees'
      BY <1>6, <2>a, <2>m, <2>w, <2>9 DEF ZapSees, Zapping, CompressReplace, SetPte, Goto
    <3>2. EntriesOwned'
      BY <1>6, <2>a, <2>m, <2>w, <2>9 DEF EntriesOwned, Owner, CompressReplace, SetPte, Goto
    <3>3. NoObjectLeak'
      BY <1>6, <2>a, <2>m, <2>w, <2>9 DEF NoObjectLeak, CompressReplace, SetPte, Goto
    <3> QED BY <3>1, <3>2, <3>3
  <2>10. ASSUME Stopped, LosslessInv PROVE LosslessInv'
    <3>m. \A u \in Threads : pc'[u] = "idle"
      BY <2>a, <2>10 DEF StoppedInv, OnlyActor
    <3>o. UNCHANGED <<map, mem, ram, zs>>
      BY <1>6 DEF CompressReplace
    <3>e. /\ pte[reg[c].mm][reg[c].key].st = "present"
          /\ pte[reg[c].mm][reg[c].key].page = reg[c].page
          /\ map[reg[c].key] = reg[c].handle /\ zs[reg[c].handle] = ram[reg[c].page]
      BY <2>10, <2>a DEF StoppedInv, CompressInv, ObjectInv, CompressorOk
    <3>f. /\ pte'[reg[c].mm][reg[c].key].st # "present"
          /\ pte'[reg[c].mm][reg[c].key] # NoPte
      BY <2>w DEF Marker, NoPte
    <3>1. StoppedInv'
      BY <1>6, <2>a, <2>m, <2>w, <2>10, <3>m, <3>o, <3>e, <3>f
        DEF StoppedInv, CompressReplace, SetPte, Goto
    <3>2. PageInv'
      BY <1>6, <2>a, <2>m, <2>w, <2>10, <3>m, <3>o, <3>e, <3>f
        DEF OnlyActor, OnlyEntry, CompressorOk, ThreadOk, TesterOk, Leaves, Enters,
        Sets, PageInv, CompressReplace, SetPte, Goto
    <3>3. MemoryInv'
      <4>1. mem[reg[c].mm][reg[c].key] # None =>
              zs[map[reg[c].key]] = mem[reg[c].mm][reg[c].key]
        BY <2>10, <2>m, <3>e DEF MemoryInv
      <4> QED BY <2>10, <2>m, <2>w, <3>o, <3>f, <4>1 DEF MemoryInv, OnlyEntry
    <3>4. ObjectInv'
      BY <1>6, <2>a, <2>m, <2>w, <2>10, <3>m, <3>o, <3>e, <3>f
        DEF ObjectInv, CompressReplace, SetPte, Goto
    <3>5. FilledInv'
      BY <3>m DEF FilledInv
    <3> QED BY <3>1, <3>2, <3>3, <3>4, <3>5
  <2> QED BY <2>1, <2>2, <2>3, <2>4, <2>5, <2>6, <2>7, <2>8, <2>9, <2>10 DEF Kept
<1>7. ASSUME NEW c \in Compressors, CompressChanged(c)
      PROVE  Kept
  <2>a. /\ OnlyActor(c) /\ pc[c] = "mapped" /\ pc'[c] = "undo"
        /\ reg'[c] = reg[c]
    BY <1>7 DEF OnlyActor, PcType, RegType, CompressChanged, Goto
  <2>1. EntryInv'
    BY <1>7 DEF EntryInv, CompressChanged, Goto
  <2>2. Resident'
    BY <1>7, <2>a DEF Resident, CompressChanged, Goto
  <2>3. PackedInv'
    BY <1>7, <2>a DEF PackedInv, Packing, CompressChanged, Goto
  <2>4. CompressInv'
    BY <1>7, <2>a DEF CompressInv, CompressChanged, Goto
  <2>5. FaultInv'
    BY <1>7, <2>a DEF FaultInv, Zapping, CompressChanged, Goto
  <2>6. ExitingInv'
    BY <1>7, <2>a DEF ExitingInv, Exiting, CompressChanged, Goto
  <2>7. TestInv'
    BY <1>7, <2>a DEF TestInv, CompressChanged, Goto
  <2>8. BackedInv'
    BY <1>7, <2>a DEF BackedInv, CompressChanged, Goto
  <2>9. ASSUME Tidy, TidyInv PROVE TidyInv'
    <3>1. ZapSees'
      BY <1>7, <2>a, <2>9 DEF ZapSees, Zapping, CompressChanged, Goto
    <3>2. EntriesOwned'
      BY <1>7, <2>a, <2>9 DEF EntriesOwned, Owner, CompressChanged, Goto
    <3>3. NoObjectLeak'
      BY <1>7, <2>a, <2>9 DEF NoObjectLeak, CompressChanged, Goto
    <3> QED BY <3>1, <3>2, <3>3
  <2>10. ASSUME Stopped, LosslessInv PROVE LosslessInv'
    <3>m. \A u \in Threads : pc'[u] = "idle"
      BY <2>a, <2>10 DEF StoppedInv, OnlyActor
    <3>1. MemoryInv'
      BY <1>7, <2>10 DEF MemoryInv, CompressChanged, Goto
    <3>2. StoppedInv'
      BY <1>7, <2>a, <2>10, <3>m DEF StoppedInv, CompressChanged, Goto
    <3>3. PageInv'
      BY <1>7, <2>a, <2>10, <3>m DEF PageInv, CompressChanged, Goto
    <3>4. ObjectInv'
      BY <1>7, <2>a, <2>10, <3>m DEF ObjectInv, CompressChanged, Goto
    <3>5. FilledInv'
      BY <3>m DEF FilledInv
    <3> QED BY <3>1, <3>2, <3>3, <3>4, <3>5
  <2> QED BY <2>1, <2>2, <2>3, <2>4, <2>5, <2>6, <2>7, <2>8, <2>9, <2>10 DEF Kept
<1>8. ASSUME NEW c \in Compressors, CompressUndo(c)
      PROVE  Kept
  <2>a. /\ OnlyActor(c) /\ pc[c] = "undo" /\ pc'[c] = "idle"
        /\ reg'[c] = NoReg
    BY <1>8
      DEF OnlyActor, PcType, RegType, CompressUndo, RemoveAndFree, PutPage, Return, Goto
  <2>m. reg[c].key \in Addrs /\ map[reg[c].key] = reg[c].handle /\ reg[c].handle # None
    BY <2>a DEF CompressInv, CompressorOk
  <2>r. Leaves(reg[c].key) /\ map'[reg[c].key] = None /\ EntryInv'
    <3>1. RemoveAndFree(reg[c].key, map[reg[c].key])
      BY <1>8, <2>m DEF CompressUndo, Return, Goto
    <3> QED BY <2>m, <3>1, Removed
  <2>t. \A t \in Threads : /\ reg'[t] = reg[t] /\ pc'[t] = pc[t] /\ ~ Exiting(t)
                           /\ pc[t] # "idle" => map'[reg[t].key] = map[reg[t].key]
    <3>1. \A t \in Threads : /\ reg'[t] = reg[t] /\ pc'[t] = pc[t] /\ ~ Exiting(t)
                             /\ pc[t] # "idle" => reg[t].key # reg[c].key
      BY <2>a, Apart DEF OnlyActor, ThreadOk, Exiting
    <3> QED BY <2>m, <2>r, <3>1 DEF Leaves, ThreadOk, Exiting
  <2>1. Resident'
    BY <1>8, <2>a, <2>m, <2>r, <2>t
      DEF Resident, CompressUndo, RemoveAndFree, PutPage, Return, Goto
  <2>2. EntryInv'
    BY <2>r
  <2>3. PackedInv'
    BY <2>a, <2>m, <2>r, PackedKept DEF Packing
  <2>4. CompressInv'
    BY <1>8, <2>a, <2>m, <2>r, <2>t
      DEF CompressInv, CompressUndo, RemoveAndFree, PutPage, Return, Goto
  <2>5. FaultInv'
    <3>1. UNCHANGED pte
      BY <1>8 DEF CompressUndo
    <3> QED BY <2>t, <3>1 DEF FaultInv, Zapping
  <2>6. ExitingInv'
    BY <1>8, <2>a, <2>m, <2>r, <2>t
      DEF ExitingInv, Exiting, CompressUndo, RemoveAndFree, PutPage, Return, Goto
  <2>7. TestInv'
    BY <1>8, <2>a, <2>m, <2>r, <2>t
      DEF TestInv, CompressUndo, RemoveAndFree, PutPage, Return, Goto
  <2>8. BackedInv'
    <3>1. \A m \in Mms : pte[m][reg[c].key] # Marker
      BY <2>a DEF CompressInv, CompressorOk
    <3> QED BY <1>8, <2>a, <2>m, <2>r, <3>1
      DEF OnlyActor, Leaves, BackedInv, CompressUndo, RemoveAndFree, PutPage, Return,
      Goto
  <2>9. ASSUME Tidy, TidyInv PROVE TidyInv'
    <3>1. ZapSees'
      BY <2>9, <2>t DEF ZapSees, Zapping
    <3>2. EntriesOwned'
      BY <1>8, <2>a, <2>m, <2>r, <2>t, <2>9
        DEF EntriesOwned, Owner, CompressUndo, RemoveAndFree, PutPage, Return, Goto
    <3>3. NoObjectLeak'
      BY <1>8, <2>a, <2>m, <2>r, <2>t, <2>9
        DEF OnlyActor, OnlyEntry, CompressorOk, ThreadOk, TesterOk, Leaves, Enters,
        Sets, PoolType, FaultInv, ExitingInv, CompressInv, Resident, NoObjectLeak,
        CompressUndo, RemoveAndFree, PutPage, Return, Goto
    <3> QED BY <3>1, <3>2, <3>3
  <2>10. ASSUME Stopped, LosslessInv PROVE LosslessInv'
    <3>m. \A u \in Threads : pc'[u] = "idle"
      BY <2>a, <2>10 DEF StoppedInv, OnlyActor
    <3>a. \A n \in Mms : pte[n][reg[c].key] # Marker
      BY <2>a, <2>m DEF CompressInv, CompressorOk
    <3>o. OthersKept /\ UNCHANGED <<pte, mem, ram>>
      BY <1>8, <2>m, <2>r, ObjectsKept DEF CompressUndo, PutPage
    <3>1. StoppedInv'
      BY <1>8, <2>a, <2>m, <2>r, <2>t, <2>10, <3>m, <3>a, <3>o
        DEF StoppedInv, CompressUndo, RemoveAndFree, PutPage, Return, Goto
    <3>2. PageInv'
      BY <1>8, <2>a, <2>m, <2>r, <2>t, <2>10, <3>m, <3>a, <3>o
        DEF PageInv, CompressUndo, RemoveAndFree, PutPage, Return, Goto
    <3>3. MemoryInv'
      BY <2>10, <2>m, <2>r, <3>o DEF MemoryInv, OthersKept, Leaves
    <3>4. ObjectInv'
      BY <1>8, <2>a, <2>m, <2>r, <2>t, <2>10, <3>m, <3>a, <3>o
        DEF ObjectInv, CompressUndo, RemoveAndFree, PutPage, Return, Goto
    <3>5. FilledInv'
      BY <3>m DEF FilledInv
    <3> QED BY <3>1, <3>2, <3>3, <3>4, <3>5
  <2> QED BY <2>1, <2>2, <2>3, <2>4, <2>5, <2>6, <2>7, <2>8, <2>9, <2>10 DEF Kept
<1>9. ASSUME NEW c \in Compressors, CompressFinish(c)
      PROVE  Kept
  <2>a. /\ OnlyActor(c) /\ pc[c] = "replaced" /\ pc'[c] = "idle"
        /\ reg'[c] = NoReg
    BY <1>9 DEF OnlyActor, PcType, RegType, CompressFinish, PutPage, Return, Goto
  <2>1. EntryInv'
    BY <1>9 DEF EntryInv, CompressFinish, PutPage, Return, Goto
  <2>2. Resident'
    BY <1>9, <2>a DEF Resident, CompressFinish, PutPage, Return, Goto
  <2>3. PackedInv'
    BY <1>9, <2>a DEF PackedInv, Packing, CompressFinish, PutPage, Return, Goto
  <2>4. CompressInv'
    BY <1>9, <2>a DEF CompressInv, CompressFinish, PutPage, Return, Goto
  <2>5. FaultInv'
    BY <1>9, <2>a DEF FaultInv, Zapping, CompressFinish, PutPage, Return, Goto
  <2>6. ExitingInv'
    BY <1>9, <2>a DEF ExitingInv, Exiting, CompressFinish, PutPage, Return, Goto
  <2>7. TestInv'
    BY <1>9, <2>a DEF TestInv, CompressFinish, PutPage, Return, Goto
  <2>8. BackedInv'
    BY <1>9, <2>a DEF BackedInv, CompressFinish, PutPage, Return, Goto
  <2>9. ASSUME Tidy, TidyInv PROVE TidyInv'
    <3>1. ZapSees'
      BY <1>9, <2>a, <2>9 DEF ZapSees, Zapping, CompressFinish, PutPage, Return, Goto
    <3>2. EntriesOwned'
      BY <1>9, <2>a, <2>9 DEF EntriesOwned, Owner, CompressFinish, PutPage, Return, Goto
    <3>3. NoObjectLeak'
      BY <1>9, <2>a, <2>9 DEF NoObjectLeak, CompressFinish, PutPage, Return, Goto
    <3> QED BY <3>1, <3>2, <3>3
  <2>10. ASSUME Stopped, LosslessInv PROVE LosslessInv'
    <3>m. \A u \in Threads : pc'[u] = "idle"
      BY <2>a, <2>10 DEF StoppedInv, OnlyActor
    <3>1. MemoryInv'
      BY <1>9, <2>10 DEF MemoryInv, CompressFinish, PutPage, Return, Goto
    <3>2. StoppedInv'
      BY <1>9, <2>a, <2>10, <3>m DEF StoppedInv, CompressFinish, PutPage, Return, Goto
    <3>3. PageInv'
      BY <1>9, <2>a, <2>10, <3>m DEF PageInv, CompressFinish, PutPage, Return, Goto
    <3>4. ObjectInv'
      BY <1>9, <2>a, <2>10, <3>m DEF ObjectInv, CompressFinish, PutPage, Return, Goto
    <3>5. FilledInv'
      BY <3>m DEF FilledInv
    <3> QED BY <3>1, <3>2, <3>3, <3>4, <3>5
  <2> QED BY <2>1, <2>2, <2>3, <2>4, <2>5, <2>6, <2>7, <2>8, <2>9, <2>10 DEF Kept
<1>10. ASSUME NEW t \in Threads, NEW a \in Addrs, NEW d \in Data, Touch(t, a, d)
      PROVE  Kept
  <2>w. SameMarkers
    <3>1. \E e : SetPte(MmOf[t], a, e) /\ e # Marker /\ pte[MmOf[t]][a] # Marker
      BY <1>10 DEF Touch, Present, Marker, NoPte
    <3> QED BY <3>1, EntrySet DEF SameMarkers, OnlyEntry
  <2>1. Resident' /\ EntryInv' /\ PackedInv' /\ TestInv'
    BY <1>10 DEF Resident, EntryInv, PackedInv, Packing, TestInv, Touch, AllocPage, SetPte,
      Running
  <2>2. CompressInv'
    BY <1>10, <2>w, MarkersKept DEF Touch, AllocPage, SetPte, Running
  <2>3. FaultInv'
    BY <1>10, <2>w, MarkersKept DEF Touch, AllocPage, SetPte, Running
  <2>4. ExitingInv'
    BY <1>10, <2>w, MarkersKept DEF Touch, AllocPage, SetPte, Running
  <2>5. BackedInv'
    BY <1>10, <2>w, MarkersKept DEF Touch, AllocPage, SetPte, Running
  <2>6. ASSUME Tidy, TidyInv PROVE TidyInv'
    <3>1. ZapSees' /\ NoObjectLeak'
      BY <1>10, <2>6 DEF ZapSees, Zapping, NoObjectLeak, Touch, AllocPage, SetPte, Running
    <3>2. EntriesOwned'
      BY <1>10, <2>6, <2>w DEF EntriesOwned, Owner, SameMarkers, Touch
    <3> QED BY <3>1, <3>2
  <2>7. ASSUME Stopped, LosslessInv PROVE LosslessInv'
    <3>n. \A c \in Compressors : pc[c] = "idle" /\ pc'[c] = "idle"
      BY <1>10, <2>7, NoneRuns DEF Stopped, Touch
    <3>m. \A u \in Threads : pc[u] = "idle" /\ pc'[u] = "idle"
      BY <1>10 DEF Touch, Running
    <3>p. PICK p \in Pages :
            /\ refs[p] = 0 /\ ram' = [ram EXCEPT ![p] = d]
            /\ \E e : SetPte(MmOf[t], a, e) /\ e.st = "present" /\ e.page = p
      BY <1>10 DEF Touch, AllocPage, Present
    <3>e. /\ OnlyEntry(MmOf[t], a)
          /\ pte'[MmOf[t]][a].st = "present" /\ pte'[MmOf[t]][a].page = p
      BY <3>p, EntrySet
    <3>f. \A n \in Mms, b \in Addrs : pte[n][b].page # p
      BY <3>p, FreshPage
    <3>g. /\ \A q \in Pages : ram'[q] = IF q = p THEN d ELSE ram[q]
          /\ \A n \in Mms, b \in Addrs :
               mem'[n][b] = IF n = MmOf[t] /\ b = a THEN d ELSE mem[n][b]
      BY <1>10, <3>p DEF MemType, Touch
    <3>1. StoppedInv'
      BY <1>10, <2>7, <3>n DEF StoppedInv, Stopped, Touch, AllocPage, SetPte, Running
    <3>2. PageInv'
      BY <2>7, <3>e, <3>f, <3>m DEF PageInv, OnlyEntry
    <3>3. MemoryInv'
      <4>1. UNCHANGED <<map, zs>>
        BY <1>10 DEF Touch
      <4>2. \A n \in Mms, b \in Addrs : pte[n][b].st = "present" => pte[n][b].page \in Pages
        BY DEF PteType
      <4> QED BY <2>7, <3>e, <3>f, <3>g, <4>1, <4>2 DEF MemoryInv, OnlyEntry
    <3>4. ObjectInv'
      BY <3>n DEF ObjectInv
    <3>5. FilledInv'
      BY <3>m DEF FilledInv
    <3> QED BY <3>1, <3>2, <3>3, <3>4, <3>5
  <2> QED BY <2>1, <2>2, <2>3, <2>4, <2>5, <2>6, <2>7 DEF Kept
<1>11. ASSUME NEW t \in Threads, NEW a \in Addrs, NEW d \in Data, Write(t, a, d)
      PROVE  Kept
  <2>w. SameMarkers
    <3>1. \E e : SetPte(MmOf[t], a, e) /\ e # Marker /\ pte[MmOf[t]][a] # Marker
      BY <1>11 DEF Write, Present, Marker
    <3> QED BY <3>1, EntrySet DEF SameMarkers, OnlyEntry
  <2>1. Resident' /\ EntryInv' /\ PackedInv' /\ TestInv'
    BY <1>11 DEF Resident, EntryInv, PackedInv, Packing, TestInv, Write, SetPte, Running
  <2>2. CompressInv'
    BY <1>11, <2>w, MarkersKept DEF Write, SetPte, Running
  <2>3. FaultInv'
    BY <1>11, <2>w, MarkersKept DEF Write, SetPte, Running
  <2>4. ExitingInv'
    BY <1>11, <2>w, MarkersKept DEF Write, SetPte, Running
  <2>5. BackedInv'
    BY <1>11, <2>w, MarkersKept DEF Write, SetPte, Running
  <2>6. ASSUME Tidy, TidyInv PROVE TidyInv'
    <3>1. ZapSees' /\ NoObjectLeak'
      BY <1>11, <2>6 DEF ZapSees, Zapping, NoObjectLeak, Write, SetPte, Running
    <3>2. EntriesOwned'
      BY <1>11, <2>6, <2>w DEF EntriesOwned, Owner, SameMarkers, Write
    <3> QED BY <3>1, <3>2
  <2>7. ASSUME Stopped, LosslessInv PROVE LosslessInv'
    <3>n. \A c \in Compressors : pc[c] = "idle" /\ pc'[c] = "idle"
      BY <1>11, <2>7, NoneRuns DEF Stopped, Write
    <3>m. \A u \in Threads : pc[u] = "idle" /\ pc'[u] = "idle"
      BY <1>11 DEF Write, Running
    <3>p. /\ pte[MmOf[t]][a].st = "present" /\ pte[MmOf[t]][a].page \in Pages
          /\ \E e : /\ SetPte(MmOf[t], a, e) /\ e.st = "present"
                   /\ e.page = pte[MmOf[t]][a].page
      <4>1. pte[MmOf[t]][a].st = "present"
        BY <1>11 DEF Write
      <4>2. pte[MmOf[t]][a].page \in Pages
        BY <4>1 DEF PteType
      <4>3. \E e : /\ SetPte(MmOf[t], a, e) /\ e.st = "present"
                   /\ e.page = pte[MmOf[t]][a].page
        BY <1>11 DEF Write, Present
      <4> QED BY <4>1, <4>2, <4>3
    <3>e. /\ OnlyEntry(MmOf[t], a) /\ pte'[MmOf[t]][a].st = "present"
          /\ pte'[MmOf[t]][a].page = pte[MmOf[t]][a].page
      BY <3>p, EntrySet
    <3>g. /\ \A q \in Pages : ram'[q] = IF q = pte[MmOf[t]][a].page THEN d ELSE ram[q]
          /\ \A n \in Mms, b \in Addrs :
               mem'[n][b] = IF n = MmOf[t] /\ b = a THEN d ELSE mem[n][b]
      BY <1>11, <3>p DEF MemType, Write
    <3>1. StoppedInv'
      BY <1>11, <2>7, <3>n DEF StoppedInv, Stopped, Write, SetPte, Running
    <3>2. PageInv'
      BY <2>7, <3>e, <3>m DEF PageInv, OnlyEntry
    <3>3. MemoryInv'
      <4>1. UNCHANGED <<map, zs>>
        BY <1>11 DEF Write
      <4>2. \A n \in Mms, b \in Addrs : /\ pte[n][b].st = "present" => pte[n][b].page \in Pages
                                        /\ n = MmOf[t]
        BY DEF PteType
      <4>3. \A b \in Addrs : b # a /\ pte[MmOf[t]][b].st = "present"
              => pte[MmOf[t]][b].page # pte[MmOf[t]][a].page
        BY <2>7, <3>p, <4>2 DEF PageInv
      <4>4. ASSUME NEW n \in Mms, NEW b \in Addrs, mem'[n][b] # None, b # a
            PROVE  /\ pte'[n][b].st = "present" => ram'[pte'[n][b].page] = mem'[n][b]
                   /\ pte'[n][b] = Marker /\ map'[b] # None => zs'[map'[b]] = mem'[n][b]
                   /\ pte'[n][b] # NoPte
        BY <2>7, <3>e, <3>g, <4>1, <4>2, <4>3, <4>4 DEF MemoryInv, OnlyEntry
      <4>5. /\ pte'[MmOf[t]][a].st = "present" /\ pte'[MmOf[t]][a] # Marker
            /\ pte'[MmOf[t]][a] # NoPte /\ mem'[MmOf[t]][a] = d
            /\ ram'[pte'[MmOf[t]][a].page] = d
        BY <3>p, <3>e, <3>g
      <4> QED BY <4>2, <4>4, <4>5 DEF MemoryInv
    <3>4. ObjectInv'
      BY <3>n DEF ObjectInv
    <3>5. FilledInv'
      BY <3>m DEF FilledInv
    <3> QED BY <3>1, <3>2, <3>3, <3>4, <3>5
  <2> QED BY <2>1, <2>2, <2>3, <2>4, <2>5, <2>6, <2>7 DEF Kept
<1>12. ASSUME NEW t \in Threads, NEW a \in Addrs, NEW d \in Data, StaleWrite(t, a, d)
      PROVE  Kept
  <2>1. /\ Resident' /\ EntryInv' /\ PackedInv' /\ CompressInv'
        /\ FaultInv' /\ ExitingInv' /\ TestInv' /\ BackedInv'
    BY <1>12 DEF Resident, EntryInv, PackedInv, Packing, CompressInv, FaultInv, Zapping,
      ExitingInv, Exiting, TestInv, BackedInv, StaleWrite, Running
  <2>2. Tidy /\ TidyInv => TidyInv'
    BY <1>12 DEF ZapSees, Zapping, EntriesOwned, Owner, NoObjectLeak, StaleWrite, Running
  <2>3. Stopped /\ LosslessInv => LosslessInv'
    <3>1. ASSUME LosslessInv PROVE FALSE
      BY <1>12, <3>1 DEF StoppedInv, StaleWrite
    <3> QED BY <3>1
  <2> QED BY <2>1, <2>2, <2>3 DEF Kept
<1>13. ASSUME TlbEvict
      PROVE  Kept
  <2>1. /\ Resident' /\ EntryInv' /\ PackedInv' /\ CompressInv'
        /\ FaultInv' /\ ExitingInv' /\ TestInv' /\ BackedInv'
    BY <1>13 DEF Resident, EntryInv, PackedInv, Packing, CompressInv, FaultInv, Zapping,
      ExitingInv, Exiting, TestInv, BackedInv, TlbEvict
  <2>2. Tidy /\ TidyInv => TidyInv'
    BY <1>13 DEF ZapSees, Zapping, EntriesOwned, Owner, NoObjectLeak, TlbEvict
  <2>3. ASSUME Stopped, LosslessInv PROVE LosslessInv'
    <3>1. PageInv' /\ MemoryInv' /\ ObjectInv' /\ FilledInv'
      BY <1>13, <2>3 DEF PageInv, MemoryInv, ObjectInv, FilledInv, TlbEvict
    <3>2. StoppedInv'
      BY <1>13, <2>3 DEF StoppedInv, TlbEvict
    <3> QED BY <3>1, <3>2
  <2> QED BY <2>1, <2>2, <2>3 DEF Kept
<1>14. ASSUME NEW t \in Threads, NEW a \in Addrs, Discard(t, a)
      PROVE  Kept
  <2>w. SameMarkers
    <3>1. SetPte(MmOf[t], a, NoPte) /\ pte[MmOf[t]][a] # Marker
      BY <1>14 DEF Discard, Unmap
    <3> QED BY <3>1, EntrySet DEF SameMarkers, OnlyEntry
  <2>1. Resident' /\ EntryInv' /\ PackedInv' /\ TestInv'
    BY <1>14 DEF Resident, EntryInv, PackedInv, Packing, TestInv, Discard, Unmap, SetPte,
      PutPage
  <2>2. CompressInv'
    BY <1>14, <2>w, MarkersKept DEF Discard, Unmap, SetPte, PutPage
  <2>3. FaultInv'
    BY <1>14, <2>w, MarkersKept DEF Discard, Unmap, SetPte, PutPage
  <2>4. ExitingInv'
    BY <1>14, <2>w, MarkersKept DEF Discard, Unmap, SetPte, PutPage
  <2>5. BackedInv'
    BY <1>14, <2>w, MarkersKept DEF Discard, Unmap, SetPte, PutPage
  <2>6. ASSUME Tidy, TidyInv PROVE TidyInv'
    <3>1. ZapSees' /\ NoObjectLeak'
      BY <1>14, <2>6 DEF ZapSees, Zapping, NoObjectLeak, Discard, Unmap, SetPte, PutPage
    <3>2. EntriesOwned'
      BY <1>14, <2>w, <2>6 DEF EntriesOwned, Owner, Discard, Unmap, SetPte, PutPage
    <3> QED BY <3>1, <3>2
  <2>7. ASSUME Stopped, LosslessInv PROVE LosslessInv'
    <3>n. \A c \in Compressors : pc[c] = "idle" /\ pc'[c] = "idle"
      BY <1>14, <2>7, NoneRuns DEF Stopped, Discard
    <3>m. \A u \in Threads : pc[u] = "idle" /\ pc'[u] = "idle"
      BY <1>14 DEF Discard, Running
    <3>e. OnlyEntry(MmOf[t], a) /\ pte'[MmOf[t]][a] = NoPte
      BY <1>14, EntrySet DEF Discard, Unmap
    <3>g. \A n \in Mms, b \in Addrs :
            mem'[n][b] = IF n = MmOf[t] /\ b = a THEN None ELSE mem[n][b]
      BY <1>14 DEF MemType, Discard, Unmap
    <3>1. StoppedInv'
      BY <1>14, <2>7, <3>n DEF StoppedInv, Stopped, Discard, Unmap, SetPte, PutPage
    <3>2. PageInv'
      BY <2>7, <3>e, <3>m DEF PageInv, OnlyEntry
    <3>3. MemoryInv'
      BY <1>14, <2>7, <3>e, <3>g DEF MemoryInv, OnlyEntry, Discard, Unmap, PutPage
    <3>4. ObjectInv'
      BY <3>n DEF ObjectInv
    <3>5. FilledInv'
      BY <3>m DEF FilledInv
    <3> QED BY <3>1, <3>2, <3>3, <3>4, <3>5
  <2> QED BY <2>1, <2>2, <2>3, <2>4, <2>5, <2>6, <2>7 DEF Kept
<1>15. ASSUME NEW t \in Threads, NEW a \in Addrs, DiscardMarker(t, a)
      PROVE  Kept
  <2>a. /\ OnlyActor(t) /\ pc[t] = "idle" /\ pc'[t] = "zap"
        /\ reg'[t] = RegZap(MmOf[t], a, IF kernel = "patched" THEN map[a] ELSE None)
    BY <1>15 DEF OnlyActor, PcType, RegType, RegZap, DiscardMarker, ZapLookup, Goto
  <2>b. /\ reg'[t].key = a /\ reg'[t].cleared = {}
        /\ reg'[t].handle = IF kernel = "patched" THEN map[a] ELSE None
    BY ONLY <2>a, MadeFacts
  <2>1. EntryInv'
    BY <1>15 DEF EntryInv, DiscardMarker, ZapLookup, Goto
  <2>2. Resident'
    BY <1>15, <2>a, <2>b DEF Resident, DiscardMarker, ZapLookup, Goto
  <2>3. PackedInv'
    BY <1>15, <2>a, <2>b DEF PackedInv, Packing, DiscardMarker, ZapLookup, Goto
  <2>4. CompressInv'
    BY <1>15, <2>a, <2>b DEF CompressInv, DiscardMarker, ZapLookup, Goto
  <2>5. FaultInv'
    BY <1>15, <2>a, <2>b DEF FaultInv, Zapping, DiscardMarker, ZapLookup, Goto
  <2>6. ExitingInv'
    BY <1>15, <2>a, <2>b DEF ExitingInv, Exiting, DiscardMarker, ZapLookup, Goto
  <2>7. TestInv'
    BY <1>15, <2>a, <2>b DEF TestInv, DiscardMarker, ZapLookup, Goto
  <2>8. BackedInv'
    BY <1>15, <2>a, <2>b DEF BackedInv, DiscardMarker, ZapLookup, Goto
  <2>9. ASSUME Tidy, TidyInv PROVE TidyInv'
    <3>e. kernel = "patched"
      BY <2>9 DEF Tidy, Resident
    <3>1. ZapSees'
      BY <1>15, <2>a, <2>b, <2>9, <3>e
        DEF OnlyActor, OnlyEntry, CompressorOk, ThreadOk, TesterOk, Leaves, Enters,
        Sets, PoolType, FaultInv, ExitingInv, CompressInv, Resident, ZapSees,
        Zapping, DiscardMarker, ZapLookup, Goto
    <3>2. EntriesOwned'
      BY <1>15, <2>a, <2>b, <2>9, <3>e
        DEF OnlyActor, OnlyEntry, CompressorOk, ThreadOk, TesterOk, Leaves, Enters,
        Sets, EntriesOwned, Owner, DiscardMarker, ZapLookup, Goto
    <3>3. NoObjectLeak'
      BY <1>15, <2>a, <2>b, <2>9, <3>e DEF NoObjectLeak, DiscardMarker, ZapLookup, Goto
    <3> QED BY <3>1, <3>2, <3>3
  <2>10. ASSUME Stopped, LosslessInv PROVE LosslessInv'
    <3>n. \A c \in Compressors : pc'[c] = "idle"
      <4>1. \A c \in Compressors : pc[c] = "idle"
        BY <1>15, <2>10, NoneRuns DEF DiscardMarker
      <4> QED BY <2>a, <4>1 DEF OnlyActor
    <3>1. MemoryInv'
      BY <1>15, <2>10 DEF MemoryInv, DiscardMarker, ZapLookup, Goto
    <3>2. StoppedInv'
      BY <1>15, <2>10, <3>n DEF StoppedInv, Stopped, DiscardMarker, ZapLookup, Goto
    <3>3. PageInv'
      BY <1>15, <2>a, <2>b, <2>10, <3>n DEF PageInv, DiscardMarker, ZapLookup, Goto
    <3>4. ObjectInv'
      BY <3>n DEF ObjectInv
    <3>5. FilledInv'
      BY <1>15, <2>a, <2>b, <2>10, <3>n DEF FilledInv, DiscardMarker, ZapLookup, Goto
    <3> QED BY <3>1, <3>2, <3>3, <3>4, <3>5
  <2> QED BY <2>1, <2>2, <2>3, <2>4, <2>5, <2>6, <2>7, <2>8, <2>9, <2>10 DEF Kept
<1>16. ASSUME NEW t \in Threads, DiscardZap(t)
      PROVE  Kept
  <2>a. /\ OnlyActor(t) /\ pc[t] = "zap" /\ pc'[t] = "idle"
        /\ reg'[t] = NoReg
    BY <1>16 DEF OnlyActor, PcType, RegType, DiscardZap, ZapRemove, RemoveAndFree, SetPte,
      Return, Goto
  <2>m. reg[t].key \in Addrs /\ MmOf[t] \in Mms /\ reg[t].mm = MmOf[t]
    BY <2>a DEF ThreadOk
  <2>r. /\ Leaves(reg[t].key) /\ EntryInv'
        /\ IF reg[t].handle = None THEN UNCHANGED map ELSE map'[reg[t].key] = None
    <3>1. CASE reg[t].handle = None
      <4>1. UNCHANGED <<map, zs>>
        BY <1>16, <3>1 DEF DiscardZap, ZapRemove
      <4> QED BY <3>1, <4>1 DEF Leaves, EntryInv
    <3>2. CASE reg[t].handle # None
      <4>1. map[reg[t].key] = reg[t].handle
        BY <2>a, <3>2 DEF FaultInv, Zapping
      <4>2. RemoveAndFree(reg[t].key, map[reg[t].key])
        BY <1>16, <3>2, <4>1 DEF DiscardZap, ZapRemove
      <4> QED BY <2>m, <3>2, <4>1, <4>2, Removed
    <3> QED BY <3>1, <3>2
  <2>w. OnlyEntry(MmOf[t], reg[t].key) /\ pte'[MmOf[t]][reg[t].key] = NoPte
    BY <1>16, <2>m, EntrySet DEF DiscardZap, ZapRemove
  <2>1. Resident'
    BY <1>16, <2>a, <2>m, <2>r, <2>w
      DEF Resident, DiscardZap, ZapRemove, RemoveAndFree, SetPte, Return, Goto
  <2>2. EntryInv'
    BY <2>r
  <2>3. PackedInv'
    BY <2>a, <2>m, <2>r, PackedKept DEF Packing
  <2>4. CompressInv'
    <3>1. \A c \in Compressors : pc'[c] \in {"sampled", "packed", "mapped", "undo"} =>
          /\ pc'[c] = pc[c] /\ reg'[c] = reg[c] /\ reg[c].key # reg[t].key
          /\ reg[c].mm \in Mms /\ reg[c].key \in Addrs
      BY <2>a, Apart DEF OnlyActor, CompressorOk
    <3> QED BY <1>16, <2>a, <2>m, <2>r, <2>w, <3>1
      DEF Leaves, OnlyEntry, CompressInv, DiscardZap, ZapRemove, RemoveAndFree, SetPte,
      Return, Goto
  <2>5. FaultInv'
    BY <1>16, <2>a, <2>m, <2>r, <2>w
      DEF FaultInv, Zapping, DiscardZap, ZapRemove, RemoveAndFree, SetPte, Return, Goto
  <2>6. ExitingInv'
    BY <1>16, <2>a, <2>m, <2>r, <2>w
      DEF ExitingInv, Exiting, DiscardZap, ZapRemove, RemoveAndFree, SetPte, Return,
      Goto
  <2>7. TestInv'
    BY <1>16, <2>a, <2>m, <2>r, <2>w
      DEF OnlyActor, OnlyEntry, CompressorOk, ThreadOk, TesterOk, Leaves, Enters, Sets,
      TestInv, DiscardZap, ZapRemove, RemoveAndFree, SetPte, Return, Goto
  <2>8. BackedInv'
    BY <1>16, <2>a, <2>m, <2>r, <2>w
      DEF OnlyActor, OnlyEntry, CompressorOk, ThreadOk, TesterOk, Leaves, Enters, Sets,
      BackedInv, DiscardZap, ZapRemove, RemoveAndFree, SetPte, Return, Goto
  <2>9. ASSUME Tidy, TidyInv PROVE TidyInv'
    <3>e. map'[reg[t].key] = None
      BY <2>a, <2>m, <2>r, <2>9 DEF ZapSees, Zapping
    <3>1. ZapSees'
      BY <1>16, <2>a, <2>m, <2>r, <2>w, <2>9, <3>e
        DEF ZapSees, Zapping, DiscardZap, ZapRemove, RemoveAndFree, SetPte, Return, Goto
    <3>2. EntriesOwned'
      <4>1. \A u \in Threads :
              reg[u].cleared \subseteq reg'[u].cleared /\ pc[u] # "exit_found"
        BY <1>16, <2>a DEF ExitingInv, Exiting, ExitZap
      <4>2. \A c \in Compressors : pc'[c] = pc[c] /\ reg'[c] = reg[c]
        BY <2>a DEF OnlyActor
      <4>3. pc[Unloader] # "drain_installed"
        BY DEF Resident
      <4>4. ASSUME NEW a \in Addrs, map'[a] # None PROVE Owner(a)'
        <5>1. a # reg[t].key /\ map[a] # None
          BY <2>r, <3>e, <4>4 DEF Leaves
        <5>2. Owner(a)
          BY <2>9, <5>1 DEF EntriesOwned
        <5> QED BY <2>w, <4>1, <4>2, <4>3, <5>1, <5>2 DEF Owner, OnlyEntry
      <4> QED BY <4>4 DEF EntriesOwned
    <3>3. NoObjectLeak'
      <4>1. ASSUME NEW h \in Handles, zs'[h] # Free PROVE zs[h] # Free
        BY <2>m, <2>r, <4>1 DEF Leaves
      <4>2. \A x \in Actors : pc[x] \in {"packed", "test_packed"} =>
              pc'[x] = pc[x] /\ reg'[x] = reg[x]
        BY <2>a DEF OnlyActor
      <4>3. \A k \in Keys : map'[k] # map[k] => zs'[map[k]] = Free
        BY <2>r DEF Leaves
      <4> QED BY <2>9, <4>1, <4>2, <4>3 DEF NoObjectLeak
    <3> QED BY <3>1, <3>2, <3>3
  <2>10. ASSUME Stopped, LosslessInv PROVE LosslessInv'
    <3>n. \A c \in Compressors : pc'[c] = "idle"
      BY <2>a, <2>10 DEF StoppedInv, OnlyActor
    <3>g. \A n \in Mms, b \in Addrs :
            mem'[n][b] = IF n = MmOf[t] /\ b = reg[t].key THEN None ELSE mem[n][b]
      BY <1>16, <2>m DEF MemType, DiscardZap, ZapRemove
    <3>o. OthersKept /\ UNCHANGED ram
      BY <1>16, <2>m, <2>r, ObjectsKept DEF DiscardZap, ZapRemove
    <3>f. \A u \in Threads : pc'[u] \notin {"filled", "removed"}
      BY <2>a
    <3>1. StoppedInv'
      BY <1>16, <2>10, <3>n
        DEF StoppedInv, Stopped, DiscardZap, ZapRemove, RemoveAndFree, SetPte, Return,
            Goto
    <3>2. PageInv'
      BY <2>10, <2>w, <3>f DEF PageInv, OnlyEntry
    <3>3. MemoryInv'
      BY <2>10, <2>m, <2>r, <2>w, <3>g, <3>o DEF MemoryInv, OnlyEntry, OthersKept, Leaves
    <3>4. ObjectInv'
      BY <3>n DEF ObjectInv
    <3>5. FilledInv'
      BY <3>f DEF FilledInv
    <3> QED BY <3>1, <3>2, <3>3, <3>4, <3>5
  <2> QED BY <2>1, <2>2, <2>3, <2>4, <2>5, <2>6, <2>7, <2>8, <2>9, <2>10 DEF Kept
<1>17. ASSUME NEW t \in Threads, NEW a \in Addrs, FaultStart(t, a)
      PROVE  Kept
  <2>a. /\ OnlyActor(t) /\ pc[t] = "idle" /\ pc'[t] = "fault"
        /\ reg'[t] = RegAt(MmOf[t], a)
    BY <1>17 DEF OnlyActor, PcType, RegType, RegAt, FaultStart, Goto
  <2>b. reg'[t].key = a /\ reg'[t].cleared = {}
    BY ONLY <2>a, MadeFacts
  <2>1. EntryInv'
    BY <1>17 DEF EntryInv, FaultStart, Goto
  <2>2. Resident'
    BY <1>17, <2>a, <2>b DEF Resident, FaultStart, Goto
  <2>3. PackedInv'
    BY <1>17, <2>a, <2>b DEF PackedInv, Packing, FaultStart, Goto
  <2>4. CompressInv'
    BY <1>17, <2>a, <2>b DEF CompressInv, FaultStart, Goto
  <2>5. FaultInv'
    <3>1. map[a] # None
      BY <1>17, <2>a DEF BackedInv, FaultStart
    <3> QED BY <1>17, <2>a, <2>b, <3>1 DEF OnlyActor, Zapping, FaultInv, FaultStart, Goto
  <2>6. ExitingInv'
    BY <1>17, <2>a, <2>b DEF ExitingInv, Exiting, FaultStart, Goto
  <2>7. TestInv'
    BY <1>17, <2>a, <2>b DEF TestInv, FaultStart, Goto
  <2>8. BackedInv'
    BY <1>17, <2>a, <2>b DEF BackedInv, FaultStart, Goto
  <2>9. ASSUME Tidy, TidyInv PROVE TidyInv'
    <3>1. ZapSees'
      BY <1>17, <2>a, <2>b, <2>9 DEF ZapSees, Zapping, FaultStart, Goto
    <3>2. EntriesOwned'
      BY <1>17, <2>a, <2>b, <2>9
        DEF OnlyActor, OnlyEntry, CompressorOk, ThreadOk, TesterOk, Leaves, Enters,
        Sets, EntriesOwned, Owner, FaultStart, Goto
    <3>3. NoObjectLeak'
      BY <1>17, <2>a, <2>b, <2>9 DEF NoObjectLeak, FaultStart, Goto
    <3> QED BY <3>1, <3>2, <3>3
  <2>10. ASSUME Stopped, LosslessInv PROVE LosslessInv'
    <3>n. \A c \in Compressors : pc'[c] = "idle"
      <4>1. \A c \in Compressors : pc[c] = "idle"
        BY <1>17, <2>10, NoneRuns DEF FaultStart
      <4> QED BY <2>a, <4>1 DEF OnlyActor
    <3>1. MemoryInv'
      BY <1>17, <2>10 DEF MemoryInv, FaultStart, Goto
    <3>2. StoppedInv'
      BY <1>17, <2>10, <3>n DEF StoppedInv, Stopped, FaultStart, Goto
    <3>3. PageInv'
      BY <1>17, <2>a, <2>b, <2>10, <3>n DEF PageInv, FaultStart, Goto
    <3>4. ObjectInv'
      BY <3>n DEF ObjectInv
    <3>5. FilledInv'
      BY <1>17, <2>a, <2>b, <2>10, <3>n DEF FilledInv, FaultStart, Goto
    <3> QED BY <3>1, <3>2, <3>3, <3>4, <3>5
  <2> QED BY <2>1, <2>2, <2>3, <2>4, <2>5, <2>6, <2>7, <2>8, <2>9, <2>10 DEF Kept
<1>18. ASSUME NEW t \in Threads, FaultLookup(t)
      PROVE  Kept
  <2>a. /\ OnlyActor(t) /\ pc[t] = "fault" /\ pc'[t] = "found"
        /\ reg'[t] = [reg[t] EXCEPT !.handle = map[reg[t].key]]
    BY <1>18 DEF OnlyActor, PcType, RegType, FaultLookup, Goto
  <2>b. /\ reg'[t].key = reg[t].key /\ reg'[t].cleared = reg[t].cleared
        /\ reg'[t].handle = map[reg[t].key]
    BY <2>a DEF Regs
  <2>1. EntryInv'
    BY <1>18 DEF EntryInv, FaultLookup, Goto
  <2>2. Resident'
    BY <1>18, <2>a, <2>b DEF Resident, FaultLookup, Goto
  <2>3. PackedInv'
    BY <1>18, <2>a, <2>b DEF PackedInv, Packing, FaultLookup, Goto
  <2>4. CompressInv'
    BY <1>18, <2>a, <2>b DEF CompressInv, FaultLookup, Goto
  <2>5. FaultInv'
    BY <1>18, <2>a, <2>b DEF FaultInv, Zapping, FaultLookup, Goto
  <2>6. ExitingInv'
    BY <1>18, <2>a, <2>b DEF ExitingInv, Exiting, FaultLookup, Goto
  <2>7. TestInv'
    BY <1>18, <2>a, <2>b DEF TestInv, FaultLookup, Goto
  <2>8. BackedInv'
    BY <1>18, <2>a, <2>b DEF BackedInv, FaultLookup, Goto
  <2>9. ASSUME Tidy, TidyInv PROVE TidyInv'
    <3>1. ZapSees'
      BY <1>18, <2>a, <2>b, <2>9 DEF ZapSees, Zapping, FaultLookup, Goto
    <3>2. EntriesOwned'
      BY <1>18, <2>a, <2>b, <2>9 DEF EntriesOwned, Owner, FaultLookup, Goto
    <3>3. NoObjectLeak'
      BY <1>18, <2>a, <2>b, <2>9 DEF NoObjectLeak, FaultLookup, Goto
    <3> QED BY <3>1, <3>2, <3>3
  <2>10. ASSUME Stopped, LosslessInv PROVE LosslessInv'
    <3>n. \A c \in Compressors : pc'[c] = "idle"
      BY <2>a, <2>10 DEF StoppedInv, OnlyActor
    <3>1. MemoryInv'
      BY <1>18, <2>10 DEF MemoryInv, FaultLookup, Goto
    <3>2. StoppedInv'
      BY <1>18, <2>10, <3>n DEF StoppedInv, Stopped, FaultLookup, Goto
    <3>3. PageInv'
      BY <1>18, <2>a, <2>b, <2>10, <3>n DEF PageInv, FaultLookup, Goto
    <3>4. ObjectInv'
      BY <3>n DEF ObjectInv
    <3>5. FilledInv'
      BY <1>18, <2>a, <2>b, <2>10, <3>n DEF FilledInv, FaultLookup, Goto
    <3> QED BY <3>1, <3>2, <3>3, <3>4, <3>5
  <2> QED BY <2>1, <2>2, <2>3, <2>4, <2>5, <2>6, <2>7, <2>8, <2>9, <2>10 DEF Kept
<1>19. ASSUME NEW t \in Threads, FaultMiss(t)
      PROVE  Kept
  <2>a. /\ OnlyActor(t) /\ pc[t] = "fault" /\ pc'[t] = "idle"
        /\ reg'[t] = NoReg
    BY <1>19 DEF OnlyActor, PcType, RegType, FaultMiss, Sigbus, Return, Goto
  <2>1. EntryInv'
    BY <1>19 DEF EntryInv, FaultMiss, Sigbus, Return, Goto
  <2>2. Resident'
    BY <1>19, <2>a DEF FaultInv, FaultMiss
  <2>3. PackedInv'
    BY <1>19, <2>a DEF PackedInv, Packing, FaultMiss, Sigbus, Return, Goto
  <2>4. CompressInv'
    BY <1>19, <2>a DEF CompressInv, FaultMiss, Sigbus, Return, Goto
  <2>5. FaultInv'
    BY <1>19, <2>a DEF FaultInv, Zapping, FaultMiss, Sigbus, Return, Goto
  <2>6. ExitingInv'
    BY <1>19, <2>a DEF ExitingInv, Exiting, FaultMiss, Sigbus, Return, Goto
  <2>7. TestInv'
    BY <1>19, <2>a DEF TestInv, FaultMiss, Sigbus, Return, Goto
  <2>8. BackedInv'
    BY <1>19, <2>a DEF BackedInv, FaultMiss, Sigbus, Return, Goto
  <2>9. ASSUME Tidy, TidyInv PROVE TidyInv'
    <3>1. ZapSees'
      BY <1>19, <2>a, <2>9 DEF ZapSees, Zapping, FaultMiss, Sigbus, Return, Goto
    <3>2. EntriesOwned'
      BY <1>19, <2>a, <2>9
        DEF OnlyActor, OnlyEntry, CompressorOk, ThreadOk, TesterOk, Leaves, Enters,
        Sets, PoolType, FaultInv, ExitingInv, CompressInv, Resident, EntriesOwned,
        Owner, FaultMiss, Sigbus, Return, Goto
    <3>3. NoObjectLeak'
      BY <1>19, <2>a, <2>9 DEF NoObjectLeak, FaultMiss, Sigbus, Return, Goto
    <3> QED BY <3>1, <3>2, <3>3
  <2>10. ASSUME Stopped, LosslessInv PROVE LosslessInv'
    <3>n. \A c \in Compressors : pc'[c] = "idle"
      BY <2>a, <2>10 DEF StoppedInv, OnlyActor
    <3>1. MemoryInv'
      BY <1>19, <2>10 DEF MemoryInv, FaultMiss, Sigbus, Return, Goto
    <3>2. StoppedInv'
      BY <1>19, <2>10, <3>n DEF StoppedInv, Stopped, FaultMiss, Sigbus, Return, Goto
    <3>3. PageInv'
      BY <1>19, <2>a, <2>10, <3>n DEF PageInv, FaultMiss, Sigbus, Return, Goto
    <3>4. ObjectInv'
      BY <3>n DEF ObjectInv
    <3>5. FilledInv'
      BY <1>19, <2>a, <2>10, <3>n DEF FilledInv, FaultMiss, Sigbus, Return, Goto
    <3> QED BY <3>1, <3>2, <3>3, <3>4, <3>5
  <2> QED BY <2>1, <2>2, <2>3, <2>4, <2>5, <2>6, <2>7, <2>8, <2>9, <2>10 DEF Kept
<1>20. ASSUME NEW t \in Threads, FaultFill(t)
      PROVE  Kept
  <2>p. PICK p \in Pages : AllocPage(p, ReadObj(reg[t].handle)) /\ reg' = [reg EXCEPT ![t].page = p]
    BY <1>20 DEF FaultFill
  <2>a. /\ OnlyActor(t) /\ pc[t] = "found" /\ pc'[t] = "filled"
        /\ reg'[t] = [reg[t] EXCEPT !.page = p]
    BY <1>20, <2>p DEF OnlyActor, PcType, RegType, FaultFill, AllocPage, ReadObj, Goto
  <2>b. /\ reg'[t].key = reg[t].key /\ reg'[t].cleared = reg[t].cleared
        /\ reg'[t].handle = reg[t].handle
    BY <2>a DEF Regs
  <2>1. EntryInv'
    BY <1>20 DEF EntryInv, FaultFill, AllocPage, ReadObj, Goto
  <2>2. Resident'
    BY <1>20, <2>p, <2>a, <2>b DEF Resident, FaultFill, AllocPage, ReadObj, Goto
  <2>3. PackedInv'
    BY <1>20, <2>p, <2>a, <2>b DEF PackedInv, Packing, FaultFill, AllocPage, ReadObj, Goto
  <2>4. CompressInv'
    BY <1>20, <2>p, <2>a, <2>b DEF CompressInv, FaultFill, AllocPage, ReadObj, Goto
  <2>5. FaultInv'
    BY <1>20, <2>p, <2>a, <2>b DEF FaultInv, Zapping, FaultFill, AllocPage, ReadObj, Goto
  <2>6. ExitingInv'
    BY <1>20, <2>p, <2>a, <2>b DEF ExitingInv, Exiting, FaultFill, AllocPage, ReadObj, Goto
  <2>7. TestInv'
    BY <1>20, <2>p, <2>a, <2>b DEF TestInv, FaultFill, AllocPage, ReadObj, Goto
  <2>8. BackedInv'
    BY <1>20, <2>p, <2>a, <2>b DEF BackedInv, FaultFill, AllocPage, ReadObj, Goto
  <2>9. ASSUME Tidy, TidyInv PROVE TidyInv'
    <3>1. ZapSees'
      BY <1>20, <2>p, <2>a, <2>b, <2>9
        DEF ZapSees, Zapping, FaultFill, AllocPage, ReadObj, Goto
    <3>2. EntriesOwned'
      BY <1>20, <2>p, <2>a, <2>b, <2>9
        DEF EntriesOwned, Owner, FaultFill, AllocPage, ReadObj, Goto
    <3>3. NoObjectLeak'
      BY <1>20, <2>p, <2>a, <2>b, <2>9 DEF NoObjectLeak, FaultFill, AllocPage, ReadObj, Goto
    <3> QED BY <3>1, <3>2, <3>3
  <2>10. ASSUME Stopped, LosslessInv PROVE LosslessInv'
    <3>n. \A c \in Compressors : pc'[c] = "idle"
      BY <2>a, <2>10 DEF StoppedInv, OnlyActor
    <3>f. \A n \in Mms, b \in Addrs : pte[n][b].page # p
      BY <2>p, FreshPage DEF AllocPage
    <3>g. /\ \A q \in Pages : ram'[q] = IF q = p THEN zs[reg[t].handle] ELSE ram[q]
          /\ reg'[t].page = p /\ map[reg[t].key] = reg[t].handle /\ reg[t].key \in Addrs
          /\ pte[MmOf[t]][reg[t].key] = Marker /\ MmOf[t] \in Mms /\ reg[t].handle # None
      <4>1. /\ map[reg[t].key] = reg[t].handle
            /\ reg[t].key \in Addrs
            /\ reg[t].handle \in Handles
        BY <2>a DEF FaultInv, ThreadOk
      <4>2. zs[reg[t].handle] # Free
        BY <4>1 DEF EntryInv
      <4>3. ram' = [ram EXCEPT ![p] = zs[reg[t].handle]]
        BY <2>p, <4>2 DEF AllocPage, ReadObj
      <4>4. reg'[t].page = p
        BY <2>a DEF Regs
      <4> QED BY <2>a, <4>1, <4>3, <4>4 DEF MemType, FaultInv
    <3>h. UNCHANGED <<pte, map, zs, mem>>
      BY <1>20 DEF FaultFill
    <3>1. StoppedInv'
      BY <1>20, <2>10, <3>n DEF StoppedInv, Stopped, FaultFill, AllocPage, ReadObj, Goto
    <3>2. PageInv'
      BY <2>10, <3>f, <3>g, <3>h DEF PageInv
    <3>3. MemoryInv'
      <4>1. \A n \in Mms, b \in Addrs : pte[n][b].st = "present" => pte[n][b].page \in Pages
        BY DEF PteType
      <4> QED BY <2>10, <3>f, <3>g, <3>h, <4>1 DEF MemoryInv
    <3>4. ObjectInv'
      BY <3>n DEF ObjectInv
    <3>5. FilledInv'
      <4>1. \A u \in Threads : u = t
        OBVIOUS
      <4>2. mem[MmOf[t]][reg[t].key] # None => zs[reg[t].handle] = mem[MmOf[t]][reg[t].key]
        BY <2>10, <3>g DEF MemoryInv
      <4> QED BY <2>b, <3>g, <3>h, <4>1, <4>2 DEF FilledInv
    <3> QED BY <3>1, <3>2, <3>3, <3>4, <3>5
  <2> QED BY <2>1, <2>2, <2>3, <2>4, <2>5, <2>6, <2>7, <2>8, <2>9, <2>10 DEF Kept
<1>21. ASSUME NEW t \in Threads, FaultOom(t)
      PROVE  Kept
  <2>a. /\ OnlyActor(t) /\ pc[t] = "found" /\ pc'[t] = "idle"
        /\ reg'[t] = NoReg
    BY <1>21 DEF OnlyActor, PcType, RegType, FaultOom, Return, Goto
  <2>1. EntryInv'
    BY <1>21 DEF EntryInv, FaultOom, Return, Goto
  <2>2. Resident'
    BY <1>21, <2>a DEF Resident, FaultOom, Return, Goto
  <2>3. PackedInv'
    BY <1>21, <2>a DEF PackedInv, Packing, FaultOom, Return, Goto
  <2>4. CompressInv'
    BY <1>21, <2>a DEF CompressInv, FaultOom, Return, Goto
  <2>5. FaultInv'
    BY <1>21, <2>a DEF FaultInv, Zapping, FaultOom, Return, Goto
  <2>6. ExitingInv'
    BY <1>21, <2>a DEF ExitingInv, Exiting, FaultOom, Return, Goto
  <2>7. TestInv'
    BY <1>21, <2>a DEF TestInv, FaultOom, Return, Goto
  <2>8. BackedInv'
    BY <1>21, <2>a DEF BackedInv, FaultOom, Return, Goto
  <2>9. ASSUME Tidy, TidyInv PROVE TidyInv'
    <3>e. reg[t].cleared = {}
      BY <2>a DEF ExitingInv, Exiting
    <3>1. ZapSees'
      BY <1>21, <2>a, <2>9, <3>e DEF ZapSees, Zapping, FaultOom, Return, Goto
    <3>2. EntriesOwned'
      <4>1. UNCHANGED <<map, pte>>
        BY <1>21 DEF FaultOom
      <4>2. \A c \in Compressors : pc'[c] = pc[c] /\ reg'[c] = reg[c]
        BY <2>a DEF OnlyActor
      <4>3. \A u \in Threads : reg[u].cleared = {} /\ pc[u] # "exit_found"
        BY <2>a, <3>e
      <4> QED BY <2>9, <4>1, <4>2, <4>3 DEF EntriesOwned, Owner, Resident
    <3>3. NoObjectLeak'
      BY <1>21, <2>a, <2>9, <3>e DEF NoObjectLeak, FaultOom, Return, Goto
    <3> QED BY <3>1, <3>2, <3>3
  <2>10. ASSUME Stopped, LosslessInv PROVE LosslessInv'
    <3>n. \A c \in Compressors : pc'[c] = "idle"
      BY <2>a, <2>10 DEF StoppedInv, OnlyActor
    <3>1. MemoryInv'
      BY <1>21, <2>10 DEF MemoryInv, FaultOom, Return, Goto
    <3>2. StoppedInv'
      BY <1>21, <2>10, <3>n DEF StoppedInv, Stopped, FaultOom, Return, Goto
    <3>3. PageInv'
      BY <1>21, <2>a, <2>10, <3>n DEF PageInv, FaultOom, Return, Goto
    <3>4. ObjectInv'
      BY <3>n DEF ObjectInv
    <3>5. FilledInv'
      BY <1>21, <2>a, <2>10, <3>n DEF FilledInv, FaultOom, Return, Goto
    <3> QED BY <3>1, <3>2, <3>3, <3>4, <3>5
  <2> QED BY <2>1, <2>2, <2>3, <2>4, <2>5, <2>6, <2>7, <2>8, <2>9, <2>10 DEF Kept
<1>22. ASSUME NEW t \in Threads, ProbeOom(t)
      PROVE  Kept
  <2>a. /\ OnlyActor(t) /\ pc[t] = "found" /\ pc'[t] = "idle"
        /\ reg'[t] = NoReg
    BY <1>22 DEF OnlyActor, PcType, RegType, ProbeOom, Sigbus, Return, Goto
  <2>1. EntryInv'
    BY <1>22 DEF EntryInv, ProbeOom, Sigbus, Return, Goto
  <2>2. Resident'
    BY <1>22, <2>a DEF Resident, ProbeOom, Sigbus, Return, Goto
  <2>3. PackedInv'
    BY <1>22, <2>a DEF PackedInv, Packing, ProbeOom, Sigbus, Return, Goto
  <2>4. CompressInv'
    BY <1>22, <2>a DEF CompressInv, ProbeOom, Sigbus, Return, Goto
  <2>5. FaultInv'
    BY <1>22, <2>a DEF FaultInv, Zapping, ProbeOom, Sigbus, Return, Goto
  <2>6. ExitingInv'
    BY <1>22, <2>a DEF ExitingInv, Exiting, ProbeOom, Sigbus, Return, Goto
  <2>7. TestInv'
    BY <1>22, <2>a DEF TestInv, ProbeOom, Sigbus, Return, Goto
  <2>8. BackedInv'
    BY <1>22, <2>a DEF BackedInv, ProbeOom, Sigbus, Return, Goto
  <2>9. ASSUME Tidy, TidyInv PROVE TidyInv'
    <3>e. reg[t].cleared = {}
      BY <2>a DEF ExitingInv, Exiting
    <3>1. ZapSees'
      BY <1>22, <2>a, <2>9, <3>e DEF ZapSees, Zapping, ProbeOom, Sigbus, Return, Goto
    <3>2. EntriesOwned'
      <4>1. UNCHANGED <<map, pte>>
        BY <1>22 DEF ProbeOom
      <4>2. \A c \in Compressors : pc'[c] = pc[c] /\ reg'[c] = reg[c]
        BY <2>a DEF OnlyActor
      <4>3. \A u \in Threads : reg[u].cleared = {} /\ pc[u] # "exit_found"
        BY <2>a, <3>e
      <4> QED BY <2>9, <4>1, <4>2, <4>3 DEF EntriesOwned, Owner, Resident
    <3>3. NoObjectLeak'
      BY <1>22, <2>a, <2>9, <3>e DEF NoObjectLeak, ProbeOom, Sigbus, Return, Goto
    <3> QED BY <3>1, <3>2, <3>3
  <2>10. ASSUME Stopped, LosslessInv PROVE LosslessInv'
    <3>n. \A c \in Compressors : pc'[c] = "idle"
      BY <2>a, <2>10 DEF StoppedInv, OnlyActor
    <3>1. MemoryInv'
      BY <1>22, <2>10 DEF MemoryInv, ProbeOom, Sigbus, Return, Goto
    <3>2. StoppedInv'
      BY <1>22, <2>10, <3>n DEF StoppedInv, Stopped, ProbeOom, Sigbus, Return, Goto
    <3>3. PageInv'
      BY <1>22, <2>a, <2>10, <3>n DEF PageInv, ProbeOom, Sigbus, Return, Goto
    <3>4. ObjectInv'
      BY <3>n DEF ObjectInv
    <3>5. FilledInv'
      BY <1>22, <2>a, <2>10, <3>n DEF FilledInv, ProbeOom, Sigbus, Return, Goto
    <3> QED BY <3>1, <3>2, <3>3, <3>4, <3>5
  <2> QED BY <2>1, <2>2, <2>3, <2>4, <2>5, <2>6, <2>7, <2>8, <2>9, <2>10 DEF Kept
<1>23. ASSUME NEW t \in Threads, FaultBad(t)
      PROVE  Kept
  <2>a. /\ OnlyActor(t) /\ pc[t] = "found" /\ pc'[t] = "idle"
        /\ reg'[t] = NoReg
    BY <1>23 DEF OnlyActor, PcType, RegType, FaultBad, Sigbus, Return, Goto
  <2>1. EntryInv'
    BY <1>23 DEF EntryInv, FaultBad, Sigbus, Return, Goto
  <2>2. Resident'
    <3>1. zs[reg[t].handle] # Free
      BY <2>a DEF FaultInv, EntryInv, ThreadOk
    <3> QED BY <1>23, <3>1 DEF FaultBad
  <2>3. PackedInv'
    BY <1>23, <2>a DEF PackedInv, Packing, FaultBad, Sigbus, Return, Goto
  <2>4. CompressInv'
    BY <1>23, <2>a DEF CompressInv, FaultBad, Sigbus, Return, Goto
  <2>5. FaultInv'
    BY <1>23, <2>a DEF FaultInv, Zapping, FaultBad, Sigbus, Return, Goto
  <2>6. ExitingInv'
    BY <1>23, <2>a DEF ExitingInv, Exiting, FaultBad, Sigbus, Return, Goto
  <2>7. TestInv'
    BY <1>23, <2>a DEF TestInv, FaultBad, Sigbus, Return, Goto
  <2>8. BackedInv'
    BY <1>23, <2>a DEF BackedInv, FaultBad, Sigbus, Return, Goto
  <2>9. ASSUME Tidy, TidyInv PROVE TidyInv'
    <3>e. reg[t].cleared = {}
      BY <2>a DEF ExitingInv, Exiting
    <3>1. ZapSees'
      BY <1>23, <2>a, <2>9, <3>e DEF ZapSees, Zapping, FaultBad, Sigbus, Return, Goto
    <3>2. EntriesOwned'
      <4>1. UNCHANGED <<map, pte>>
        BY <1>23 DEF FaultBad
      <4>2. \A c \in Compressors : pc'[c] = pc[c] /\ reg'[c] = reg[c]
        BY <2>a DEF OnlyActor
      <4>3. \A u \in Threads : reg[u].cleared = {} /\ pc[u] # "exit_found"
        BY <2>a, <3>e
      <4> QED BY <2>9, <4>1, <4>2, <4>3 DEF EntriesOwned, Owner, Resident
    <3>3. NoObjectLeak'
      BY <1>23, <2>a, <2>9, <3>e DEF NoObjectLeak, FaultBad, Sigbus, Return, Goto
    <3> QED BY <3>1, <3>2, <3>3
  <2>10. ASSUME Stopped, LosslessInv PROVE LosslessInv'
    <3>n. \A c \in Compressors : pc'[c] = "idle"
      BY <2>a, <2>10 DEF StoppedInv, OnlyActor
    <3>1. MemoryInv'
      BY <1>23, <2>10 DEF MemoryInv, FaultBad, Sigbus, Return, Goto
    <3>2. StoppedInv'
      BY <1>23, <2>10, <3>n DEF StoppedInv, Stopped, FaultBad, Sigbus, Return, Goto
    <3>3. PageInv'
      BY <1>23, <2>a, <2>10, <3>n DEF PageInv, FaultBad, Sigbus, Return, Goto
    <3>4. ObjectInv'
      BY <3>n DEF ObjectInv
    <3>5. FilledInv'
      BY <1>23, <2>a, <2>10, <3>n DEF FilledInv, FaultBad, Sigbus, Return, Goto
    <3> QED BY <3>1, <3>2, <3>3, <3>4, <3>5
  <2> QED BY <2>1, <2>2, <2>3, <2>4, <2>5, <2>6, <2>7, <2>8, <2>9, <2>10 DEF Kept
<1>24. ASSUME NEW t \in Threads, FaultRemove(t)
      PROVE  Kept
  <2>a. /\ OnlyActor(t) /\ pc[t] = "filled" /\ pc'[t] = "removed"
        /\ reg'[t] = reg[t]
    BY <1>24 DEF OnlyActor, PcType, RegType, FaultRemove, RemoveAndFree, Goto
  <2>m. reg[t].key \in Addrs /\ map[reg[t].key] = reg[t].handle /\ reg[t].handle # None
    BY <2>a DEF FaultInv, ThreadOk
  <2>r. Leaves(reg[t].key) /\ map'[reg[t].key] = None /\ EntryInv'
    <3>1. RemoveAndFree(reg[t].key, map[reg[t].key])
      BY <1>24, <2>m DEF FaultRemove, Goto
    <3> QED BY <2>m, <3>1, Removed
  <2>1. Resident'
    BY <1>24, <2>a, <2>m, <2>r DEF Resident, FaultRemove, RemoveAndFree, Goto
  <2>2. EntryInv'
    BY <2>r
  <2>3. PackedInv'
    BY <2>a, <2>m, <2>r, PackedKept DEF Packing
  <2>4. CompressInv'
    <3>1. \A c \in Compressors : pc'[c] \in {"sampled", "packed", "mapped", "undo"} =>
          /\ pc'[c] = pc[c] /\ reg'[c] = reg[c] /\ reg[c].key # reg[t].key
          /\ reg[c].mm \in Mms /\ reg[c].key \in Addrs
      BY <2>a, Apart DEF OnlyActor, CompressorOk
    <3> QED BY <1>24, <2>a, <2>m, <2>r, <3>1
      DEF Leaves, OnlyEntry, CompressInv, FaultRemove, RemoveAndFree, Goto
  <2>5. FaultInv'
    BY <1>24, <2>a, <2>m, <2>r DEF FaultInv, Zapping, FaultRemove, RemoveAndFree, Goto
  <2>6. ExitingInv'
    BY <1>24, <2>a, <2>m, <2>r DEF ExitingInv, Exiting, FaultRemove, RemoveAndFree, Goto
  <2>7. TestInv'
    BY <1>24, <2>a, <2>m, <2>r DEF TestInv, FaultRemove, RemoveAndFree, Goto
  <2>8. BackedInv'
    BY <1>24, <2>a, <2>m, <2>r DEF BackedInv, FaultRemove, RemoveAndFree, Goto
  <2>9. ASSUME Tidy, TidyInv PROVE TidyInv'
    <3>1. ZapSees'
      BY <1>24, <2>a, <2>m, <2>r, <2>9
        DEF ZapSees, Zapping, FaultRemove, RemoveAndFree, Goto
    <3>2. EntriesOwned'
      BY <1>24, <2>a, <2>m, <2>r, <2>9
        DEF EntriesOwned, Owner, FaultRemove, RemoveAndFree, Goto
    <3>3. NoObjectLeak'
      BY <1>24, <2>a, <2>m, <2>r, <2>9
        DEF OnlyActor, OnlyEntry, CompressorOk, ThreadOk, TesterOk, Leaves, Enters,
        Sets, PoolType, FaultInv, ExitingInv, CompressInv, Resident, NoObjectLeak,
        FaultRemove, RemoveAndFree, Goto
    <3> QED BY <3>1, <3>2, <3>3
  <2>10. ASSUME Stopped, LosslessInv PROVE LosslessInv'
    <3>n. \A c \in Compressors : pc'[c] = "idle"
      BY <2>a, <2>10 DEF StoppedInv, OnlyActor
    <3>o. OthersKept /\ UNCHANGED <<ram, mem, pte>>
      BY <1>24, <2>m, <2>r, ObjectsKept DEF FaultRemove
    <3>1. StoppedInv'
      BY <1>24, <2>10, <3>n DEF StoppedInv, Stopped, FaultRemove, RemoveAndFree, Goto
    <3>2. PageInv'
      BY <1>24, <2>a, <2>m, <2>r, <2>10, <3>n, <3>o
        DEF PageInv, FaultRemove, RemoveAndFree, Goto
    <3>3. MemoryInv'
      BY <2>10, <2>m, <2>r, <3>o DEF MemoryInv, OthersKept, Leaves
    <3>4. ObjectInv'
      BY <3>n DEF ObjectInv
    <3>5. FilledInv'
      BY <1>24, <2>a, <2>m, <2>r, <2>10, <3>n, <3>o
        DEF FilledInv, FaultRemove, RemoveAndFree, Goto
    <3> QED BY <3>1, <3>2, <3>3, <3>4, <3>5
  <2> QED BY <2>1, <2>2, <2>3, <2>4, <2>5, <2>6, <2>7, <2>8, <2>9, <2>10 DEF Kept
<1>25. ASSUME NEW t \in Threads, FaultInstall(t)
      PROVE  Kept
  <2>a. /\ OnlyActor(t) /\ pc[t] = "removed" /\ pc'[t] = "idle"
        /\ reg'[t] = NoReg
    BY <1>25 DEF OnlyActor, PcType, RegType, FaultInstall, Install, SetPte, PutPage, Return,
      Goto
  <2>m. /\ MmOf[t] \in Mms /\ reg[t].key \in Addrs /\ reg[t].mm = MmOf[t]
        /\ reg[t].page \in Pages /\ pte[MmOf[t]][reg[t].key] = Marker
    BY <2>a DEF ThreadOk, FaultInv
  <2>w. OnlyEntry(MmOf[t], reg[t].key) /\ pte'[MmOf[t]][reg[t].key] # Marker
    <3>1. \E e : SetPte(MmOf[t], reg[t].key, e) /\ e # Marker
      BY <1>25, <2>m DEF FaultInstall, Install, Present, Marker
    <3> QED BY <2>m, <3>1, EntrySet
  <2>1. EntryInv'
    BY <1>25 DEF EntryInv, FaultInstall, Install, SetPte, PutPage, Return, Goto
  <2>2. Resident'
    BY <1>25, <2>a, <2>m, <2>w
      DEF Resident, FaultInstall, Install, SetPte, PutPage, Return, Goto
  <2>3. PackedInv'
    BY <1>25, <2>a, <2>m, <2>w
      DEF PackedInv, Packing, FaultInstall, Install, SetPte, PutPage, Return, Goto
  <2>4. CompressInv'
    BY <1>25, <2>a, <2>m, <2>w
      DEF OnlyActor, OnlyEntry, CompressorOk, ThreadOk, TesterOk, Leaves, Enters, Sets,
      CompressInv, FaultInstall, Install, SetPte, PutPage, Return, Goto
  <2>5. FaultInv'
    BY <1>25, <2>a, <2>m, <2>w
      DEF FaultInv, Zapping, FaultInstall, Install, SetPte, PutPage, Return, Goto
  <2>6. ExitingInv'
    BY <1>25, <2>a, <2>m, <2>w
      DEF ExitingInv, Exiting, FaultInstall, Install, SetPte, PutPage, Return, Goto
  <2>7. TestInv'
    BY <1>25, <2>a, <2>m, <2>w
      DEF TestInv, FaultInstall, Install, SetPte, PutPage, Return, Goto
  <2>8. BackedInv'
    BY <1>25, <2>a, <2>m, <2>w
      DEF OnlyActor, OnlyEntry, PoolType, PteType, CompressorOk, ThreadOk, TesterOk,
      TestInv, Leaves, Enters, Sets, EntryInv, BackedInv, FaultInstall, Install,
      SetPte, PutPage, Return, Goto
  <2>9. ASSUME Tidy, TidyInv PROVE TidyInv'
    <3>e. reg[t].cleared = {} /\ map[reg[t].key] = None
      BY <2>a DEF FaultInv, ExitingInv, Exiting
    <3>1. ZapSees'
      BY <1>25, <2>a, <2>m, <2>w, <2>9, <3>e
        DEF ZapSees, Zapping, FaultInstall, Install, SetPte, PutPage, Return, Goto
    <3>2. EntriesOwned'
      <4>1. UNCHANGED map
        BY <1>25 DEF FaultInstall
      <4>2. \A c \in Compressors : pc'[c] = pc[c] /\ reg'[c] = reg[c]
        BY <2>a DEF OnlyActor
      <4>3. \A u \in Threads : reg[u].cleared = {} /\ pc[u] # "exit_found"
        BY <2>a, <3>e
      <4>4. \A a \in Addrs : map[a] # None => a # reg[t].key
        BY <3>e
      <4> QED BY <2>9, <2>w, <4>1, <4>2, <4>3, <4>4
        DEF EntriesOwned, Owner, Resident, OnlyEntry
    <3>3. NoObjectLeak'
      BY <1>25, <2>a, <2>m, <2>w, <2>9, <3>e
        DEF NoObjectLeak, FaultInstall, Install, SetPte, PutPage, Return, Goto
    <3> QED BY <3>1, <3>2, <3>3
  <2>10. ASSUME Stopped, LosslessInv PROVE LosslessInv'
    <3>n. \A c \in Compressors : pc'[c] = "idle"
      BY <2>a, <2>10 DEF StoppedInv, OnlyActor
    <3>e. /\ OnlyEntry(MmOf[t], reg[t].key) /\ pte'[MmOf[t]][reg[t].key].st = "present"
          /\ pte'[MmOf[t]][reg[t].key].page = reg[t].page
      <4>1. \E e : /\ SetPte(MmOf[t], reg[t].key, e) /\ e.st = "present"
                 /\ e.page = reg[t].page
        BY <1>25, <2>m DEF FaultInstall, Install, Present
      <4> QED BY <2>m, <4>1, EntrySet
    <3>f. \A n \in Mms, b \in Addrs : pte[n][b].page # reg[t].page
      BY <2>a, <2>10 DEF PageInv
    <3>g. UNCHANGED <<mem, map, zs, ram>>
      BY <1>25, <2>m DEF FaultInstall, Install
    <3>m. \A u \in Threads : pc'[u] = "idle"
      BY <2>a
    <3>1. StoppedInv'
      BY <1>25, <2>10, <3>n
        DEF StoppedInv, Stopped, FaultInstall, Install, SetPte, PutPage, Return, Goto
    <3>2. PageInv'
      BY <2>10, <3>e, <3>f, <3>m DEF PageInv, OnlyEntry
    <3>3. MemoryInv'
      <4>1. mem[MmOf[t]][reg[t].key] # None => ram[reg[t].page] = mem[MmOf[t]][reg[t].key]
        BY <2>10, <2>a DEF FilledInv
      <4>2. \A n \in Mms : n = MmOf[t]
        BY <2>m
      <4>3. pte'[MmOf[t]][reg[t].key] # Marker /\ pte'[MmOf[t]][reg[t].key] # NoPte
        BY <3>e
      <4> QED BY <2>10, <2>m, <3>e, <3>g, <4>1, <4>2, <4>3 DEF MemoryInv, OnlyEntry
    <3>4. ObjectInv'
      BY <3>n DEF ObjectInv
    <3>5. FilledInv'
      BY <3>m DEF FilledInv
    <3> QED BY <3>1, <3>2, <3>3, <3>4, <3>5
  <2> QED BY <2>1, <2>2, <2>3, <2>4, <2>5, <2>6, <2>7, <2>8, <2>9, <2>10 DEF Kept
<1>26. ASSUME NEW t \in Threads, ExitStart(t)
      PROVE  Kept
  <2>p. PICK z \in ZapRange({a \in Addrs : pte[MmOf[t]][a] = Marker}) :
          /\ pte' = [pte EXCEPT ![MmOf[t]] =
               [a \in Addrs |-> IF a \in z[1] THEN NoPte ELSE pte[MmOf[t]][a]]]
          /\ mem' = [mem EXCEPT ![MmOf[t]] =
               [a \in Addrs |-> IF a \in z[1] THEN None ELSE mem[MmOf[t]][a]]]
          /\ reg' = [reg EXCEPT ![t] = [NoReg EXCEPT !.mm = MmOf[t], !.cleared = z[2]]]
    BY <1>26 DEF ExitStart, Goto
  <2>a. /\ OnlyActor(t) /\ pc[t] = "idle" /\ pc'[t] = "exit"
        /\ reg'[t] = RegExit(MmOf[t], z[2])
    BY <1>26, <2>p DEF OnlyActor, PcType, RegType, RegExit, ExitStart, Goto
  <2>b. reg'[t].cleared = z[2]
    BY ONLY <2>a, MadeFacts
  <2>1. EntryInv'
    BY <1>26 DEF EntryInv, ExitStart, Goto
  <2>2. Resident'
    BY <1>26, <2>p, <2>a, <2>b DEF Resident, ExitStart, Goto
  <2>3. PackedInv'
    BY <1>26, <2>p, <2>a, <2>b DEF PackedInv, Packing, ExitStart, Goto
  <2>4. CompressInv'
    BY <1>26, <2>p, <2>a, <2>b DEF CompressInv, ExitStart, Goto
  <2>5. FaultInv'
    BY <1>26, <2>p, <2>a, <2>b DEF FaultInv, Zapping, ExitStart, Goto
  <2>6. ExitingInv'
    <3>1. \A c \in Compressors : pc'[c] = "idle"
      BY <1>26, <2>a DEF OnlyActor, CompressorOk, ExitStart
    <3>2. \A a \in z[2] : a \in z[1] /\ a \in Addrs
      BY CollectedCleared, ZapRangeFacts
    <3>3. \A a \in z[2] : pte'[MmOf[t]][a] # Marker
      BY <2>p, <3>2 DEF PteType
    <3> QED BY <2>a, <2>b, <3>1, <3>3 DEF ExitingInv, Exiting
  <2>7. TestInv'
    BY <1>26, <2>p, <2>a, <2>b DEF TestInv, ExitStart, Goto
  <2>8. BackedInv'
    BY <1>26, <2>p, <2>a, <2>b DEF BackedInv, ExitStart, Goto
  <2>9. ASSUME Tidy, TidyInv PROVE TidyInv'
    <3>1. ZapSees'
      BY <1>26, <2>p, <2>a, <2>b, <2>9 DEF ZapSees, Zapping, ExitStart, Goto
    <3>2. EntriesOwned'
      <4>1. ASSUME NEW b \in Addrs, map'[b] # None PROVE Owner(b)'
        <5>1. map[b] # None
          BY <1>26, <4>1 DEF ExitStart
        <5>2. \A c \in Compressors : pc[c] = "idle"
          BY <1>26 DEF ExitStart, CompressorOk
        <5>3. Owner(b) /\ \A u \in Threads : reg[u].cleared = {} /\ pc[u] # "exit_found"
          BY <2>a, <2>9, <5>1 DEF EntriesOwned, ExitingInv, Exiting
        <5>4. \E n \in Mms : pte[n][b] = Marker
          BY <5>2, <5>3 DEF Owner, Resident
        <5>5. CASE b \in z[1]
          BY <2>b, <5>5, ClearedCollected, <2>9 DEF Owner
        <5>6. CASE b \notin z[1]
          BY <2>p, <5>4, <5>6 DEF Owner, PteType
        <5> QED BY <5>5, <5>6
      <4> QED BY <4>1 DEF EntriesOwned
    <3>3. NoObjectLeak'
      BY <1>26, <2>p, <2>a, <2>b, <2>9 DEF NoObjectLeak, ExitStart, Goto
    <3> QED BY <3>1, <3>2, <3>3
  <2>10. ASSUME Stopped, LosslessInv PROVE LosslessInv'
    <3>n. \A c \in Compressors : pc'[c] = "idle"
      <4>1. \A c \in Compressors : pc[c] = "idle"
        BY <1>26, <2>10, NoneRuns DEF ExitStart
      <4> QED BY <2>a, <4>1 DEF OnlyActor
    <3>e. \A n \in Mms, b \in Addrs :
            \/ pte'[n][b] = pte[n][b] /\ mem'[n][b] = mem[n][b]
            \/ pte'[n][b] = NoPte /\ mem'[n][b] = None
      BY <1>26, <2>p DEF PteType, MemType
    <3>o. UNCHANGED <<map, ram, zs>>
      BY <1>26 DEF ExitStart
    <3>1. StoppedInv'
      BY <1>26, <2>10, <3>n DEF StoppedInv, Stopped, ExitStart, Goto
    <3>2. PageInv'
      BY <1>26, <2>p, <2>a, <2>b, <2>10, <3>n, <3>e, <3>o DEF PageInv, ExitStart, Goto
    <3>3. MemoryInv'
      BY <2>10, <3>e, <3>o DEF MemoryInv
    <3>4. ObjectInv'
      BY <3>n DEF ObjectInv
    <3>5. FilledInv'
      BY <1>26, <2>p, <2>a, <2>b, <2>10, <3>n, <3>e, <3>o DEF FilledInv, ExitStart, Goto
    <3> QED BY <3>1, <3>2, <3>3, <3>4, <3>5
  <2> QED BY <2>1, <2>2, <2>3, <2>4, <2>5, <2>6, <2>7, <2>8, <2>9, <2>10 DEF Kept
<1>27. ASSUME NEW t \in Threads, ExitLookup(t)
      PROVE  Kept
  <2>p. PICK a \in reg[t].cleared :
          /\ pc[t] = "exit"
          /\ pc' = [pc EXCEPT ![t] = IF map[a] = None THEN "exit" ELSE "exit_found"]
          /\ reg' = [reg EXCEPT ![t].cleared = @ \ {a}, ![t].key = a, ![t].handle = map[a]]
    BY <1>27 DEF ExitLookup, Goto
  <2>i. pc[t] = "exit" /\ pc'[t] = IF map[a] = None THEN "exit" ELSE "exit_found"
    BY <2>p DEF PcType
  <2>a. /\ OnlyActor(t) /\ pc[t] = "exit"
        /\ reg'[t] = RegNext(reg[t], a, map[a])
    BY <2>p DEF OnlyActor, PcType, RegType, RegNext
  <2>r. reg[t] \in Regs /\ reg[t].cleared \subseteq Addrs /\ a \in Addrs
    BY <2>p DEF Regs
  <2>b. /\ reg'[t].key = a /\ reg'[t].handle = map[a]
        /\ reg'[t].cleared = reg[t].cleared \ {a}
    BY ONLY <2>a, <2>r, MadeFacts
  <2>1. EntryInv'
    BY <1>27 DEF EntryInv, ExitLookup, Goto
  <2>2. Resident'
    BY <1>27, <2>p, <2>i, <2>a, <2>r, <2>b DEF Resident, ExitLookup, Goto
  <2>3. PackedInv'
    <3>1. UNCHANGED <<map, zs, pte>>
      BY <1>27 DEF ExitLookup
    <3>2. \A x \in Compressors \union Testers : pc'[x] = pc[x] /\ reg'[x] = reg[x]
      BY <2>a DEF OnlyActor
    <3> QED BY <3>1, <3>2 DEF PackedInv, Packing
  <2>4. CompressInv'
    <3>1. \A c \in Compressors : pc'[c] = "idle"
      BY <2>a, Apart DEF OnlyActor, Exiting
    <3> QED BY <3>1 DEF CompressInv
  <2>5. FaultInv'
    BY <1>27, <2>p, <2>i, <2>a, <2>r, <2>b DEF FaultInv, Zapping, ExitLookup, Goto
  <2>6. ExitingInv'
    <3>1. UNCHANGED <<map, zs, pte>>
      BY <1>27 DEF ExitLookup
    <3>2. pc'[t] \in {"exit", "exit_found"} /\ (pc'[t] = "exit_found" => map[a] # None)
      BY <2>i
    <3>3. \A c \in Compressors : pc'[c] = "idle"
      BY <2>a, Apart DEF OnlyActor, Exiting
    <3>4. pte[MmOf[t]][a] # Marker /\ \A b \in reg'[t].cleared : pte[MmOf[t]][b] # Marker
      BY <2>p, <2>b DEF ExitingInv
    <3> QED BY <2>b, <3>1, <3>2, <3>3, <3>4 DEF ExitingInv, Exiting
  <2>7. TestInv'
    <3>1. UNCHANGED <<map, zs, pte>>
      BY <1>27 DEF ExitLookup
    <3>2. \A x \in Compressors \union Testers : pc'[x] = pc[x] /\ reg'[x] = reg[x]
      BY <2>a DEF OnlyActor
    <3> QED BY <3>1, <3>2 DEF TestInv
  <2>8. BackedInv'
    BY <1>27, <2>p, <2>i, <2>a, <2>r, <2>b DEF BackedInv, ExitLookup, Goto
  <2>9. ASSUME Tidy, TidyInv PROVE TidyInv'
    <3>o. UNCHANGED <<map, zs, pte>>
      BY <1>27 DEF ExitLookup
    <3>c. \A c \in Actors : c # t => pc'[c] = pc[c] /\ reg'[c] = reg[c]
      BY <2>a DEF OnlyActor
    <3>1. ZapSees'
      BY <1>27, <2>p, <2>i, <2>a, <2>r, <2>b, <2>9, <3>o, <3>c
        DEF ZapSees, Zapping, ExitLookup, Goto
    <3>2. EntriesOwned'
      <4>1. ASSUME NEW b \in Addrs, map[b] # None PROVE Owner(b)'
        <5>1. Owner(b) /\ \A u \in Threads : pc[u] # "exit_found"
          BY <2>9, <2>i, <4>1 DEF EntriesOwned
        <5>2. CASE \E u \in Threads : b \in reg[u].cleared
          <6>1. b \in reg[t].cleared
            BY <5>2
          <6>2. CASE b = a
            BY <2>b, <2>i, <4>1, <6>2 DEF Owner
          <6>3. CASE b # a
            BY <2>b, <6>1, <6>3 DEF Owner
          <6> QED BY <6>2, <6>3
        <5>3. CASE ~ \E u \in Threads : b \in reg[u].cleared
          BY <3>o, <3>c, <5>1, <5>3 DEF Owner
        <5> QED BY <5>2, <5>3
      <4> QED BY <3>o, <4>1 DEF EntriesOwned
    <3>3. NoObjectLeak'
      BY <2>9, <2>i, <3>o, <3>c DEF NoObjectLeak
    <3> QED BY <3>1, <3>2, <3>3
  <2>10. ASSUME Stopped, LosslessInv PROVE LosslessInv'
    <3>n. \A c \in Compressors : pc'[c] = "idle"
      BY <1>27, <2>10 DEF StoppedInv, OnlyActor, ExitLookup, Goto
    <3>1. MemoryInv'
      BY <1>27, <2>10 DEF MemoryInv, ExitLookup, Goto
    <3>2. StoppedInv'
      BY <1>27, <2>10, <3>n DEF StoppedInv, Stopped, ExitLookup, Goto
    <3>3. PageInv'
      BY <1>27, <2>p, <2>i, <2>a, <2>r, <2>b, <2>10, <3>n DEF PageInv, ExitLookup, Goto
    <3>4. ObjectInv'
      BY <3>n DEF ObjectInv
    <3>5. FilledInv'
      BY <1>27, <2>p, <2>i, <2>a, <2>r, <2>b, <2>10, <3>n DEF FilledInv, ExitLookup, Goto
    <3> QED BY <3>1, <3>2, <3>3, <3>4, <3>5
  <2> QED BY <2>1, <2>2, <2>3, <2>4, <2>5, <2>6, <2>7, <2>8, <2>9, <2>10 DEF Kept
<1>28. ASSUME NEW t \in Threads, ExitRemove(t)
      PROVE  Kept
  <2>a. /\ OnlyActor(t) /\ pc[t] = "exit_found" /\ pc'[t] = "exit"
        /\ reg'[t] = reg[t]
    BY <1>28 DEF OnlyActor, PcType, RegType, ExitRemove, RemoveIfThere, RemoveAndFree, Goto
  <2>m. reg[t].key \in Addrs /\ map[reg[t].key] = reg[t].handle /\ reg[t].handle # None
    BY <2>a DEF ExitingInv, ThreadOk
  <2>r. Leaves(reg[t].key) /\ map'[reg[t].key] = None /\ EntryInv'
    <3>1. RemoveAndFree(reg[t].key, map[reg[t].key])
      BY <1>28, <2>m DEF ExitRemove, RemoveIfThere, Goto
    <3> QED BY <2>m, <3>1, Removed
  <2>1. Resident'
    BY <1>28, <2>a, <2>m, <2>r DEF Resident, ExitRemove, RemoveIfThere, RemoveAndFree, Goto
  <2>2. EntryInv'
    BY <2>r
  <2>3. PackedInv'
    BY <2>a, <2>m, <2>r, PackedKept DEF Packing
  <2>4. CompressInv'
    <3>1. \A c \in Compressors : pc'[c] = "idle"
      BY <2>a, Apart DEF OnlyActor, Exiting
    <3> QED BY <3>1 DEF CompressInv
  <2>5. FaultInv'
    BY <1>28, <2>a, <2>m, <2>r
      DEF FaultInv, Zapping, ExitRemove, RemoveIfThere, RemoveAndFree, Goto
  <2>6. ExitingInv'
    BY <1>28, <2>a, <2>m, <2>r
      DEF ExitingInv, Exiting, ExitRemove, RemoveIfThere, RemoveAndFree, Goto
  <2>7. TestInv'
    BY <1>28, <2>a, <2>m, <2>r
      DEF OnlyActor, OnlyEntry, CompressorOk, ThreadOk, TesterOk, Leaves, Enters, Sets,
      TestInv, ExitRemove, RemoveIfThere, RemoveAndFree, Goto
  <2>8. BackedInv'
    <3>1. \A m \in Mms : pte[m][reg[t].key] # Marker
      BY <2>a DEF ExitingInv
    <3>2. map[reg[t].key] # None
      BY <2>m
    <3> QED BY <1>28, <2>a, <2>m, <2>r, <3>1, <3>2
      DEF OnlyActor, Leaves, BackedInv, ExitRemove, RemoveIfThere, RemoveAndFree, Goto
  <2>9. ASSUME Tidy, TidyInv PROVE TidyInv'
    <3>1. ZapSees'
      BY <1>28, <2>a, <2>m, <2>r, <2>9
        DEF ZapSees, Zapping, ExitRemove, RemoveIfThere, RemoveAndFree, Goto
    <3>2. EntriesOwned'
      BY <1>28, <2>a, <2>m, <2>r, <2>9
        DEF OnlyActor, OnlyEntry, CompressorOk, ThreadOk, TesterOk, Leaves, Enters,
        Sets, EntriesOwned, Owner, ExitRemove, RemoveIfThere, RemoveAndFree, Goto
    <3>3. NoObjectLeak'
      BY <1>28, <2>a, <2>m, <2>r, <2>9
        DEF OnlyActor, OnlyEntry, CompressorOk, ThreadOk, TesterOk, Leaves, Enters,
        Sets, PoolType, FaultInv, ExitingInv, CompressInv, Resident, NoObjectLeak,
        ExitRemove, RemoveIfThere, RemoveAndFree, Goto
    <3> QED BY <3>1, <3>2, <3>3
  <2>10. ASSUME Stopped, LosslessInv PROVE LosslessInv'
    <3>n. \A c \in Compressors : pc'[c] = "idle"
      BY <2>a, <2>10 DEF StoppedInv, OnlyActor
    <3>o. OthersKept /\ UNCHANGED <<pte, mem, ram>>
      BY <1>28, <2>m, <2>r, ObjectsKept DEF ExitRemove
    <3>1. StoppedInv'
      BY <1>28, <2>10, <3>n
        DEF StoppedInv, Stopped, ExitRemove, RemoveIfThere, RemoveAndFree, Goto
    <3>2. PageInv'
      BY <1>28, <2>a, <2>m, <2>r, <2>10, <3>n, <3>o
        DEF PageInv, ExitRemove, RemoveIfThere, RemoveAndFree, Goto
    <3>3. MemoryInv'
      BY <2>10, <2>m, <2>r, <3>o DEF MemoryInv, OthersKept, Leaves
    <3>4. ObjectInv'
      BY <3>n DEF ObjectInv
    <3>5. FilledInv'
      BY <1>28, <2>a, <2>m, <2>r, <2>10, <3>n, <3>o
        DEF FilledInv, ExitRemove, RemoveIfThere, RemoveAndFree, Goto
    <3> QED BY <3>1, <3>2, <3>3, <3>4, <3>5
  <2> QED BY <2>1, <2>2, <2>3, <2>4, <2>5, <2>6, <2>7, <2>8, <2>9, <2>10 DEF Kept
<1>29. ASSUME NEW t \in Threads, ExitMarker(t)
      PROVE  Kept
  <2>p. PICK a \in Addrs : /\ ZapLookup(t, MmOf[t], a)
                           /\ Goto(t, "exit", "exit_zap")
    BY <1>29 DEF ExitMarker
  <2>a. /\ OnlyActor(t) /\ pc[t] = "exit" /\ pc'[t] = "exit_zap"
        /\ reg'[t] = RegZap(MmOf[t], a, IF kernel = "patched" THEN map[a] ELSE None)
    BY <1>29, <2>p DEF OnlyActor, PcType, RegType, RegZap, ExitMarker, ZapLookup, Goto
  <2>b. /\ reg'[t].key = a /\ reg'[t].cleared = {}
        /\ reg'[t].handle = IF kernel = "patched" THEN map[a] ELSE None
    BY ONLY <2>a, MadeFacts
  <2>1. EntryInv'
    BY <1>29 DEF EntryInv, ExitMarker, ZapLookup, Goto
  <2>2. Resident'
    BY <1>29, <2>p, <2>a, <2>b DEF Resident, ExitMarker, ZapLookup, Goto
  <2>3. PackedInv'
    BY <1>29, <2>p, <2>a, <2>b DEF PackedInv, Packing, ExitMarker, ZapLookup, Goto
  <2>4. CompressInv'
    BY <1>29, <2>p, <2>a, <2>b DEF CompressInv, ExitMarker, ZapLookup, Goto
  <2>5. FaultInv'
    BY <1>29, <2>p, <2>a, <2>b DEF FaultInv, Zapping, ExitMarker, ZapLookup, Goto
  <2>6. ExitingInv'
    BY <1>29, <2>p, <2>a, <2>b DEF ExitingInv, Exiting, ExitMarker, ZapLookup, Goto
  <2>7. TestInv'
    BY <1>29, <2>p, <2>a, <2>b DEF TestInv, ExitMarker, ZapLookup, Goto
  <2>8. BackedInv'
    BY <1>29, <2>p, <2>a, <2>b DEF BackedInv, ExitMarker, ZapLookup, Goto
  <2>9. ASSUME Tidy, TidyInv PROVE TidyInv'
    <3>e. kernel = "patched"
      BY <2>9 DEF Tidy, Resident
    <3>1. ZapSees'
      BY <1>29, <2>p, <2>a, <2>b, <2>9, <3>e
        DEF OnlyActor, OnlyEntry, CompressorOk, ThreadOk, TesterOk, Leaves, Enters,
        Sets, PoolType, FaultInv, ExitingInv, CompressInv, Resident, ZapSees,
        Zapping, ExitMarker, ZapLookup, Goto
    <3>2. EntriesOwned'
      BY <1>29, <2>p, <2>a, <2>b, <2>9, <3>e
        DEF EntriesOwned, Owner, ExitMarker, ZapLookup, Goto
    <3>3. NoObjectLeak'
      BY <1>29, <2>p, <2>a, <2>b, <2>9, <3>e DEF NoObjectLeak, ExitMarker, ZapLookup, Goto
    <3> QED BY <3>1, <3>2, <3>3
  <2>10. ASSUME Stopped, LosslessInv PROVE LosslessInv'
    <3>n. \A c \in Compressors : pc'[c] = "idle"
      BY <2>a, <2>10 DEF StoppedInv, OnlyActor
    <3>1. MemoryInv'
      BY <1>29, <2>10 DEF MemoryInv, ExitMarker, ZapLookup, Goto
    <3>2. StoppedInv'
      BY <1>29, <2>10, <3>n DEF StoppedInv, Stopped, ExitMarker, ZapLookup, Goto
    <3>3. PageInv'
      BY <1>29, <2>p, <2>a, <2>b, <2>10, <3>n DEF PageInv, ExitMarker, ZapLookup, Goto
    <3>4. ObjectInv'
      BY <3>n DEF ObjectInv
    <3>5. FilledInv'
      BY <1>29, <2>p, <2>a, <2>b, <2>10, <3>n DEF FilledInv, ExitMarker, ZapLookup, Goto
    <3> QED BY <3>1, <3>2, <3>3, <3>4, <3>5
  <2> QED BY <2>1, <2>2, <2>3, <2>4, <2>5, <2>6, <2>7, <2>8, <2>9, <2>10 DEF Kept
<1>30. ASSUME NEW t \in Threads, ExitZap(t)
      PROVE  Kept
  <2>a. /\ OnlyActor(t) /\ pc[t] = "exit_zap" /\ pc'[t] = "exit"
        /\ reg'[t] = reg[t]
    BY <1>30 DEF OnlyActor, PcType, RegType, ExitZap, ZapRemove, RemoveAndFree, SetPte, Goto
  <2>m. reg[t].key \in Addrs /\ MmOf[t] \in Mms /\ reg[t].mm = MmOf[t]
    BY <2>a DEF ThreadOk
  <2>r. /\ Leaves(reg[t].key) /\ EntryInv'
        /\ IF reg[t].handle = None THEN UNCHANGED map ELSE map'[reg[t].key] = None
    <3>1. CASE reg[t].handle = None
      <4>1. UNCHANGED <<map, zs>>
        BY <1>30, <3>1 DEF ExitZap, ZapRemove
      <4> QED BY <3>1, <4>1 DEF Leaves, EntryInv
    <3>2. CASE reg[t].handle # None
      <4>1. map[reg[t].key] = reg[t].handle
        BY <2>a, <3>2 DEF FaultInv, Zapping
      <4>2. RemoveAndFree(reg[t].key, map[reg[t].key])
        BY <1>30, <3>2, <4>1 DEF ExitZap, ZapRemove
      <4> QED BY <2>m, <3>2, <4>1, <4>2, Removed
    <3> QED BY <3>1, <3>2
  <2>w. OnlyEntry(MmOf[t], reg[t].key) /\ pte'[MmOf[t]][reg[t].key] = NoPte
    BY <1>30, <2>m, EntrySet DEF ExitZap, ZapRemove
  <2>1. Resident'
    BY <1>30, <2>a, <2>m, <2>r, <2>w
      DEF Resident, ExitZap, ZapRemove, RemoveAndFree, SetPte, Goto
  <2>2. EntryInv'
    BY <2>r
  <2>3. PackedInv'
    BY <2>a, <2>m, <2>r, PackedKept DEF Packing
  <2>4. CompressInv'
    <3>1. \A c \in Compressors : pc'[c] = "idle"
      BY <2>a, Apart DEF OnlyActor, Exiting
    <3> QED BY <3>1 DEF CompressInv
  <2>5. FaultInv'
    BY <1>30, <2>a, <2>m, <2>r, <2>w
      DEF FaultInv, Zapping, ExitZap, ZapRemove, RemoveAndFree, SetPte, Goto
  <2>6. ExitingInv'
    BY <1>30, <2>a, <2>m, <2>r, <2>w
      DEF ExitingInv, Exiting, ExitZap, ZapRemove, RemoveAndFree, SetPte, Goto
  <2>7. TestInv'
    BY <1>30, <2>a, <2>m, <2>r, <2>w
      DEF OnlyActor, OnlyEntry, CompressorOk, ThreadOk, TesterOk, Leaves, Enters, Sets,
      TestInv, ExitZap, ZapRemove, RemoveAndFree, SetPte, Goto
  <2>8. BackedInv'
    BY <1>30, <2>a, <2>m, <2>r, <2>w
      DEF OnlyActor, OnlyEntry, CompressorOk, ThreadOk, TesterOk, Leaves, Enters, Sets,
      BackedInv, ExitZap, ZapRemove, RemoveAndFree, SetPte, Goto
  <2>9. ASSUME Tidy, TidyInv PROVE TidyInv'
    <3>e. map'[reg[t].key] = None
      BY <2>a, <2>m, <2>r, <2>9 DEF ZapSees, Zapping
    <3>1. ZapSees'
      BY <1>30, <2>a, <2>m, <2>r, <2>w, <2>9, <3>e
        DEF ZapSees, Zapping, ExitZap, ZapRemove, RemoveAndFree, SetPte, Goto
    <3>2. EntriesOwned'
      <4>1. \A u \in Threads :
              reg[u].cleared \subseteq reg'[u].cleared /\ pc[u] # "exit_found"
        BY <1>30, <2>a DEF ExitingInv, Exiting, ExitZap
      <4>2. \A c \in Compressors : pc'[c] = pc[c] /\ reg'[c] = reg[c]
        BY <2>a DEF OnlyActor
      <4>3. pc[Unloader] # "drain_installed"
        BY DEF Resident
      <4>4. ASSUME NEW a \in Addrs, map'[a] # None PROVE Owner(a)'
        <5>1. a # reg[t].key /\ map[a] # None
          BY <2>r, <3>e, <4>4 DEF Leaves
        <5>2. Owner(a)
          BY <2>9, <5>1 DEF EntriesOwned
        <5> QED BY <2>w, <4>1, <4>2, <4>3, <5>1, <5>2 DEF Owner, OnlyEntry
      <4> QED BY <4>4 DEF EntriesOwned
    <3>3. NoObjectLeak'
      <4>1. ASSUME NEW h \in Handles, zs'[h] # Free PROVE zs[h] # Free
        BY <2>m, <2>r, <4>1 DEF Leaves
      <4>2. \A x \in Actors : pc[x] \in {"packed", "test_packed"} =>
              pc'[x] = pc[x] /\ reg'[x] = reg[x]
        BY <2>a DEF OnlyActor
      <4>3. \A k \in Keys : map'[k] # map[k] => zs'[map[k]] = Free
        BY <2>r DEF Leaves
      <4> QED BY <2>9, <4>1, <4>2, <4>3 DEF NoObjectLeak
    <3> QED BY <3>1, <3>2, <3>3
  <2>10. ASSUME Stopped, LosslessInv PROVE LosslessInv'
    <3>n. \A c \in Compressors : pc'[c] = "idle"
      BY <2>a, <2>10 DEF StoppedInv, OnlyActor
    <3>g. \A n \in Mms, b \in Addrs :
            mem'[n][b] = IF n = MmOf[t] /\ b = reg[t].key THEN None ELSE mem[n][b]
      BY <1>30, <2>m DEF MemType, ExitZap, ZapRemove
    <3>o. OthersKept /\ UNCHANGED ram
      BY <1>30, <2>m, <2>r, ObjectsKept DEF ExitZap, ZapRemove
    <3>f. \A u \in Threads : pc'[u] \notin {"filled", "removed"}
      BY <2>a
    <3>1. StoppedInv'
      BY <1>30, <2>10, <3>n
        DEF StoppedInv, Stopped, ExitZap, ZapRemove, RemoveAndFree, SetPte, Goto
    <3>2. PageInv'
      BY <2>10, <2>w, <3>f DEF PageInv, OnlyEntry
    <3>3. MemoryInv'
      BY <2>10, <2>m, <2>r, <2>w, <3>g, <3>o DEF MemoryInv, OnlyEntry, OthersKept, Leaves
    <3>4. ObjectInv'
      BY <3>n DEF ObjectInv
    <3>5. FilledInv'
      BY <3>f DEF FilledInv
    <3> QED BY <3>1, <3>2, <3>3, <3>4, <3>5
  <2> QED BY <2>1, <2>2, <2>3, <2>4, <2>5, <2>6, <2>7, <2>8, <2>9, <2>10 DEF Kept
<1>31. ASSUME NEW t \in Threads, ExitFinish(t)
      PROVE  Kept
  <2>a. /\ OnlyActor(t) /\ pc[t] = "exit" /\ pc'[t] = "idle"
        /\ reg'[t] = NoReg
    BY <1>31 DEF OnlyActor, PcType, RegType, ExitFinish, Return, Goto
  <2>w. /\ \A m \in Mms, a \in Addrs : pte'[m][a] # Marker /\ pte[m][a] # Marker
        /\ UNCHANGED <<map, zs>>
    BY <1>31 DEF PteType, ExitFinish
  <2>1. EntryInv'
    BY <1>31 DEF EntryInv, ExitFinish, Return, Goto
  <2>2. Resident'
    BY <1>31, <2>a, <2>w DEF Resident, ExitFinish, Return, Goto
  <2>3. PackedInv'
    BY <1>31, <2>a, <2>w DEF PackedInv, Packing, ExitFinish, Return, Goto
  <2>4. CompressInv'
    BY <1>31, <2>a, <2>w
      DEF OnlyActor, OnlyEntry, CompressorOk, ThreadOk, TesterOk, Leaves, Enters, Sets,
      CompressInv, ExitFinish, Return, Goto
  <2>5. FaultInv'
    BY <1>31, <2>a, <2>w DEF FaultInv, Zapping, ExitFinish, Return, Goto
  <2>6. ExitingInv'
    BY <1>31, <2>a, <2>w DEF ExitingInv, Exiting, ExitFinish, Return, Goto
  <2>7. TestInv'
    BY <1>31, <2>a, <2>w DEF TestInv, ExitFinish, Return, Goto
  <2>8. BackedInv'
    BY <1>31, <2>a, <2>w DEF BackedInv, ExitFinish, Return, Goto
  <2>9. ASSUME Tidy, TidyInv PROVE TidyInv'
    <3>1. ZapSees'
      BY <1>31, <2>a, <2>w, <2>9 DEF ZapSees, Zapping, ExitFinish, Return, Goto
    <3>2. EntriesOwned'
      BY <1>31, <2>a, <2>w, <2>9 DEF EntriesOwned, Owner, ExitFinish, Return, Goto
    <3>3. NoObjectLeak'
      BY <1>31, <2>a, <2>w, <2>9 DEF NoObjectLeak, ExitFinish, Return, Goto
    <3> QED BY <3>1, <3>2, <3>3
  <2>10. ASSUME Stopped, LosslessInv PROVE LosslessInv'
    <3>n. \A c \in Compressors : pc'[c] = "idle"
      BY <1>31, <2>10 DEF StoppedInv, OnlyActor, ExitFinish, Return, Goto
    <3>e. \A n \in Mms, b \in Addrs : mem'[n][b] = None
      BY <1>31 DEF MemType, ExitFinish
    <3>1. StoppedInv'
      BY <1>31, <2>10, <3>n DEF StoppedInv, Stopped, ExitFinish, Return, Goto
    <3>2. PageInv'
      BY <1>31, <2>a, <2>w, <2>10, <3>n, <3>e DEF PageInv, ExitFinish, Return, Goto
    <3>3. MemoryInv'
      BY <3>e DEF MemoryInv
    <3>4. ObjectInv'
      BY <3>n DEF ObjectInv
    <3>5. FilledInv'
      BY <1>31, <2>a, <2>w, <2>10, <3>n, <3>e DEF FilledInv, ExitFinish, Return, Goto
    <3> QED BY <3>1, <3>2, <3>3, <3>4, <3>5
  <2> QED BY <2>1, <2>2, <2>3, <2>4, <2>5, <2>6, <2>7, <2>8, <2>9, <2>10 DEF Kept
<1>32. ASSUME NEW x \in Testers, NEW k \in BenchKeys, TestPack(x, k)
      PROVE  Kept
  <2>p. PICK h \in Handles :
          /\ zs[h] = Free /\ zs' = [zs EXCEPT ![h] = Junk]
          /\ reg' = [reg EXCEPT ![x] = [NoReg EXCEPT !.key = k, !.handle = h]]
    BY <1>32 DEF TestPack, Goto
  <2>a. /\ OnlyActor(x) /\ pc[x] = "idle" /\ pc'[x] = "test_packed"
        /\ reg'[x] = RegTest(k, h)
    BY <1>32, <2>p DEF OnlyActor, PcType, RegType, RegTest, TestPack, Goto
  <2>b. reg'[x].key = k /\ reg'[x].handle = h
    BY ONLY <2>a, MadeFacts
  <2>r. Sets(h) /\ zs'[h] # Free /\ EntryInv' /\ \A j \in Keys : map[j] # h
    <3>1. \A j \in Keys : map[j] # h
      BY <2>p DEF EntryInv
    <3>2. Junk # Free
      BY <2>a, NoneAssumption DEF MemType, CompressorOk
    <3>3. UNCHANGED map
      BY <1>32 DEF TestPack
    <3> QED BY <2>p, <3>1, <3>2, <3>3, SetApart
  <2>1. Resident'
    BY <1>32, <2>p, <2>a, <2>b, <2>r DEF Resident, TestPack, Goto
  <2>2. EntryInv'
    BY <2>r
  <2>3. PackedInv'
    BY <1>32, <2>p, <2>a, <2>b, <2>r DEF PackedInv, Packing, TestPack, Goto
  <2>4. CompressInv'
    BY <1>32, <2>p, <2>a, <2>b, <2>r DEF CompressInv, TestPack, Goto
  <2>5. FaultInv'
    BY <1>32, <2>p, <2>a, <2>b, <2>r DEF FaultInv, Zapping, TestPack, Goto
  <2>6. ExitingInv'
    BY <1>32, <2>p, <2>a, <2>b, <2>r DEF ExitingInv, Exiting, TestPack, Goto
  <2>7. TestInv'
    BY <1>32, <2>p, <2>a, <2>b, <2>r DEF TestInv, TestPack, Goto
  <2>8. BackedInv'
    BY <1>32, <2>p, <2>a, <2>b, <2>r DEF BackedInv, TestPack, Goto
  <2>9. Tidy /\ TidyInv => TidyInv'
    BY DEF Tidy
  <2>10. ASSUME Stopped, LosslessInv PROVE LosslessInv'
    <3>o. OthersKept
      BY <2>p, <2>r, ObjectsKept
    <3>e. UNCHANGED <<pte, mem, ram>>
      BY <1>32 DEF TestPack
    <3>c. \A c \in Compressors : pc'[c] = pc[c] /\ reg'[c] = reg[c]
      BY <2>a DEF OnlyActor
    <3>d. \A c \in Compressors : pc[c] \in {"packed", "mapped"} =>
            zs'[reg[c].handle] = zs[reg[c].handle]
      <4>1. \A c \in Compressors : pc[c] \in {"packed", "mapped"} =>
              reg[c].handle \in Handles /\ zs[reg[c].handle] # Free
        BY DEF PackedInv, Packing, CompressInv, EntryInv, CompressorOk
      <4> QED BY <2>p, <2>r, <4>1 DEF Sets
    <3>1. StoppedInv'
      BY <1>32, <2>p, <2>a, <2>b, <2>r, <2>10, <3>o, <3>e, <3>c, <3>d
        DEF StoppedInv, TestPack, Goto
    <3>2. PageInv'
      BY <1>32, <2>p, <2>a, <2>b, <2>r, <2>10, <3>o, <3>e, <3>c, <3>d
        DEF PageInv, TestPack, Goto
    <3>3. MemoryInv'
      BY <2>10, <2>r, <3>o, <3>e DEF MemoryInv, OthersKept, Sets
    <3>4. ObjectInv'
      BY <2>10, <3>c, <3>d, <3>e DEF ObjectInv
    <3>5. FilledInv'
      BY <1>32, <2>p, <2>a, <2>b, <2>r, <2>10, <3>o, <3>e, <3>c, <3>d
        DEF FilledInv, TestPack, Goto
    <3> QED BY <3>1, <3>2, <3>3, <3>4, <3>5
  <2> QED BY <2>1, <2>2, <2>3, <2>4, <2>5, <2>6, <2>7, <2>8, <2>9, <2>10 DEF Kept
<1>33. ASSUME NEW x \in Testers, TestMap(x)
      PROVE  Kept
  <2>a. /\ OnlyActor(x) /\ pc[x] = "test_packed" /\ pc'[x] = "test_mapped"
        /\ reg'[x] = reg[x]
    BY <1>33 DEF OnlyActor, PcType, RegType, TestMap, Goto
  <2>m. reg[x].key \in BenchKeys /\ reg[x].handle \in Handles
    BY <2>a DEF TesterOk, TestInv
  <2>r. Enters(reg[x].key, reg[x].handle) /\ EntryInv'
    <3>1. zs[reg[x].handle] # Free /\ \A j \in Keys : map[j] # reg[x].handle
      BY <2>a DEF PackedInv, Packing
    <3> QED BY <1>33, <2>m, <3>1, Entered DEF TestMap
  <2>1. Resident'
    BY <1>33, <2>a, <2>m, <2>r DEF Resident, TestMap, Goto
  <2>2. EntryInv'
    BY <2>r
  <2>3. PackedInv'
    BY <2>a, <2>m, <2>r, PackedKept DEF Packing
  <2>4. CompressInv'
    BY <1>33, <2>a, <2>m, <2>r
      DEF OnlyActor, OnlyEntry, CompressorOk, ThreadOk, TesterOk, Leaves, Enters, Sets,
      CompressInv, TestMap, Goto
  <2>5. FaultInv'
    BY <1>33, <2>a, <2>m, <2>r
      DEF OnlyActor, OnlyEntry, CompressorOk, ThreadOk, TesterOk, Leaves, Enters, Sets,
      FaultInv, Zapping, TestMap, Goto
  <2>6. ExitingInv'
    BY <1>33, <2>a, <2>m, <2>r
      DEF OnlyActor, OnlyEntry, CompressorOk, ThreadOk, TesterOk, Leaves, Enters, Sets,
      ExitingInv, Exiting, TestMap, Goto
  <2>7. TestInv'
    BY <1>33, <2>a, <2>m, <2>r DEF TestInv, TestMap, Goto
  <2>8. BackedInv'
    BY <1>33, <2>a, <2>m, <2>r DEF BackedInv, TestMap, Goto
  <2>9. Tidy /\ TidyInv => TidyInv'
    BY DEF Tidy
  <2>10. ASSUME Stopped, LosslessInv PROVE LosslessInv'
    <3>1. StoppedInv'
      BY <1>33, <2>a, <2>m, <2>r, <2>10 DEF StoppedInv, TestMap, Goto
    <3>2. PageInv'
      BY <1>33, <2>a, <2>m, <2>r, <2>10 DEF PageInv, TestMap, Goto
    <3>3. MemoryInv'
      BY <1>33, <2>a, <2>m, <2>r, <2>10 DEF MemoryInv, TestMap, Goto
    <3>4. ObjectInv'
      BY <1>33, <2>a, <2>m, <2>r, <2>10 DEF ObjectInv, TestMap, Goto
    <3>5. FilledInv'
      BY <1>33, <2>a, <2>m, <2>r, <2>10 DEF FilledInv, TestMap, Goto
    <3> QED BY <3>1, <3>2, <3>3, <3>4, <3>5
  <2> QED BY <2>1, <2>2, <2>3, <2>4, <2>5, <2>6, <2>7, <2>8, <2>9, <2>10 DEF Kept
<1>34. ASSUME NEW x \in Testers, TestCount(x)
      PROVE  Kept
  <2>a. /\ OnlyActor(x) /\ pc[x] = "test_mapped" /\ pc'[x] = "idle"
        /\ reg'[x] = NoReg
    BY <1>34 DEF OnlyActor, PcType, RegType, TestCount, Return, Goto
  <2>1. EntryInv'
    BY <1>34 DEF EntryInv, TestCount, Return, Goto
  <2>2. Resident'
    BY <1>34, <2>a DEF Resident, TestCount, Return, Goto
  <2>3. PackedInv'
    BY <1>34, <2>a DEF PackedInv, Packing, TestCount, Return, Goto
  <2>4. CompressInv'
    BY <1>34, <2>a DEF CompressInv, TestCount, Return, Goto
  <2>5. FaultInv'
    BY <1>34, <2>a DEF FaultInv, Zapping, TestCount, Return, Goto
  <2>6. ExitingInv'
    BY <1>34, <2>a DEF ExitingInv, Exiting, TestCount, Return, Goto
  <2>7. TestInv'
    BY <1>34, <2>a DEF TestInv, TestCount, Return, Goto
  <2>8. BackedInv'
    BY <1>34, <2>a DEF BackedInv, TestCount, Return, Goto
  <2>9. Tidy /\ TidyInv => TidyInv'
    BY DEF Tidy
  <2>10. ASSUME Stopped, LosslessInv PROVE LosslessInv'
    <3>1. MemoryInv'
      BY <1>34, <2>10 DEF MemoryInv, TestCount, Return, Goto
    <3>2. StoppedInv'
      BY <1>34, <2>a, <2>10 DEF StoppedInv, TestCount, Return, Goto
    <3>3. PageInv'
      BY <1>34, <2>a, <2>10 DEF PageInv, TestCount, Return, Goto
    <3>4. ObjectInv'
      BY <1>34, <2>a, <2>10 DEF ObjectInv, TestCount, Return, Goto
    <3>5. FilledInv'
      BY <1>34, <2>a, <2>10 DEF FilledInv, TestCount, Return, Goto
    <3> QED BY <3>1, <3>2, <3>3, <3>4, <3>5
  <2> QED BY <2>1, <2>2, <2>3, <2>4, <2>5, <2>6, <2>7, <2>8, <2>9, <2>10 DEF Kept
<1>35. ASSUME NEW x \in Testers, TestMapFail(x)
      PROVE  Kept
  <2>a. /\ OnlyActor(x) /\ pc[x] = "test_packed" /\ pc'[x] = "idle"
        /\ reg'[x] = NoReg
    BY <1>35 DEF OnlyActor, PcType, RegType, TestMapFail, Return, Goto
  <2>m. reg[x].handle \in Handles
    BY <2>a DEF TesterOk
  <2>r. Sets(reg[x].handle) /\ EntryInv'
    <3>1. \A j \in Keys : map[j] # reg[x].handle
      BY <2>a DEF PackedInv, Packing
    <3> QED BY <1>35, <2>m, <3>1, SetApart DEF TestMapFail
  <2>1. Resident'
    BY <1>35, <2>a, <2>m, <2>r DEF Resident, TestMapFail, Return, Goto
  <2>2. EntryInv'
    BY <2>r
  <2>3. PackedInv'
    BY <2>a, <2>m, <2>r, PackedKept DEF Packing
  <2>4. CompressInv'
    BY <1>35, <2>a, <2>m, <2>r DEF CompressInv, TestMapFail, Return, Goto
  <2>5. FaultInv'
    BY <1>35, <2>a, <2>m, <2>r DEF FaultInv, Zapping, TestMapFail, Return, Goto
  <2>6. ExitingInv'
    BY <1>35, <2>a, <2>m, <2>r DEF ExitingInv, Exiting, TestMapFail, Return, Goto
  <2>7. TestInv'
    BY <1>35, <2>a, <2>m, <2>r DEF TestInv, TestMapFail, Return, Goto
  <2>8. BackedInv'
    BY <1>35, <2>a, <2>m, <2>r DEF BackedInv, TestMapFail, Return, Goto
  <2>9. Tidy /\ TidyInv => TidyInv'
    BY DEF Tidy
  <2>10. ASSUME Stopped, LosslessInv PROVE LosslessInv'
    <3>o. OthersKept
      <4>1. \A j \in Keys : map[j] # reg[x].handle
        BY <2>a DEF PackedInv, Packing
      <4> QED BY <2>m, <2>r, <4>1, ObjectsKept
    <3>e. UNCHANGED <<pte, mem, ram>>
      BY <1>35 DEF TestMapFail
    <3>c. \A c \in Compressors : pc'[c] = pc[c] /\ reg'[c] = reg[c]
      BY <2>a DEF OnlyActor
    <3>d. \A c \in Compressors : pc[c] \in {"packed", "mapped"} =>
            zs'[reg[c].handle] = zs[reg[c].handle]
      <4>1. \A c \in Compressors : pc[c] \in {"packed", "mapped"} =>
              reg[c].handle \in Handles /\ reg[c].handle # reg[x].handle
        BY <2>a DEF PackedInv, Packing, CompressInv, CompressorOk
      <4> QED BY <2>r, <4>1 DEF Sets
    <3>1. StoppedInv'
      BY <1>35, <2>a, <2>m, <2>r, <2>10, <3>o, <3>e, <3>c, <3>d
        DEF StoppedInv, TestMapFail, Return, Goto
    <3>2. PageInv'
      BY <1>35, <2>a, <2>m, <2>r, <2>10, <3>o, <3>e, <3>c, <3>d
        DEF PageInv, TestMapFail, Return, Goto
    <3>3. MemoryInv'
      BY <2>10, <2>r, <3>o, <3>e DEF MemoryInv, OthersKept, Sets
    <3>4. ObjectInv'
      BY <2>10, <3>c, <3>d, <3>e DEF ObjectInv
    <3>5. FilledInv'
      BY <1>35, <2>a, <2>m, <2>r, <2>10, <3>o, <3>e, <3>c, <3>d
        DEF FilledInv, TestMapFail, Return, Goto
    <3> QED BY <3>1, <3>2, <3>3, <3>4, <3>5
  <2> QED BY <2>1, <2>2, <2>3, <2>4, <2>5, <2>6, <2>7, <2>8, <2>9, <2>10 DEF Kept
<1>36. ASSUME NEW x \in Testers, NEW k \in BenchKeys, TestLookup(x, k)
      PROVE  Kept
  <2>a. /\ OnlyActor(x) /\ pc[x] = "idle" /\ pc'[x] = "test_found"
        /\ reg'[x] = RegTest(k, map[k])
    BY <1>36 DEF OnlyActor, PcType, RegType, RegTest, TestLookup, Goto
  <2>b. reg'[x].key = k /\ reg'[x].handle = map[k]
    BY ONLY <2>a, MadeFacts
  <2>1. EntryInv'
    BY <1>36 DEF EntryInv, TestLookup, Goto
  <2>2. Resident'
    BY <1>36, <2>a, <2>b DEF Resident, TestLookup, Goto
  <2>3. PackedInv'
    BY <1>36, <2>a, <2>b DEF PackedInv, Packing, TestLookup, Goto
  <2>4. CompressInv'
    BY <1>36, <2>a, <2>b DEF CompressInv, TestLookup, Goto
  <2>5. FaultInv'
    BY <1>36, <2>a, <2>b DEF FaultInv, Zapping, TestLookup, Goto
  <2>6. ExitingInv'
    BY <1>36, <2>a, <2>b DEF ExitingInv, Exiting, TestLookup, Goto
  <2>7. TestInv'
    BY <1>36, <2>a, <2>b DEF TestInv, TestLookup, Goto
  <2>8. BackedInv'
    BY <1>36, <2>a, <2>b DEF BackedInv, TestLookup, Goto
  <2>9. Tidy /\ TidyInv => TidyInv'
    BY DEF Tidy
  <2>10. ASSUME Stopped, LosslessInv PROVE LosslessInv'
    <3>1. MemoryInv'
      BY <1>36, <2>10 DEF MemoryInv, TestLookup, Goto
    <3>2. StoppedInv'
      BY <1>36, <2>a, <2>b, <2>10 DEF StoppedInv, TestLookup, Goto
    <3>3. PageInv'
      BY <1>36, <2>a, <2>b, <2>10 DEF PageInv, TestLookup, Goto
    <3>4. ObjectInv'
      BY <1>36, <2>a, <2>b, <2>10 DEF ObjectInv, TestLookup, Goto
    <3>5. FilledInv'
      BY <1>36, <2>a, <2>b, <2>10 DEF FilledInv, TestLookup, Goto
    <3> QED BY <3>1, <3>2, <3>3, <3>4, <3>5
  <2> QED BY <2>1, <2>2, <2>3, <2>4, <2>5, <2>6, <2>7, <2>8, <2>9, <2>10 DEF Kept
<1>37. ASSUME NEW x \in Testers, TestRestoreFail(x)
      PROVE  Kept
  <2>a. /\ OnlyActor(x) /\ pc[x] = "test_found" /\ pc'[x] = "idle"
        /\ reg'[x] = NoReg
    BY <1>37 DEF OnlyActor, PcType, RegType, TestRestoreFail, Return, Goto
  <2>1. EntryInv'
    BY <1>37 DEF EntryInv, TestRestoreFail, Return, Goto
  <2>2. Resident'
    BY <1>37, <2>a DEF Resident, TestRestoreFail, Return, Goto
  <2>3. PackedInv'
    BY <1>37, <2>a DEF PackedInv, Packing, TestRestoreFail, Return, Goto
  <2>4. CompressInv'
    BY <1>37, <2>a DEF CompressInv, TestRestoreFail, Return, Goto
  <2>5. FaultInv'
    BY <1>37, <2>a DEF FaultInv, Zapping, TestRestoreFail, Return, Goto
  <2>6. ExitingInv'
    BY <1>37, <2>a DEF ExitingInv, Exiting, TestRestoreFail, Return, Goto
  <2>7. TestInv'
    BY <1>37, <2>a DEF TestInv, TestRestoreFail, Return, Goto
  <2>8. BackedInv'
    BY <1>37, <2>a DEF BackedInv, TestRestoreFail, Return, Goto
  <2>9. Tidy /\ TidyInv => TidyInv'
    BY DEF Tidy
  <2>10. ASSUME Stopped, LosslessInv PROVE LosslessInv'
    <3>1. MemoryInv'
      BY <1>37, <2>10 DEF MemoryInv, TestRestoreFail, Return, Goto
    <3>2. StoppedInv'
      BY <1>37, <2>a, <2>10 DEF StoppedInv, TestRestoreFail, Return, Goto
    <3>3. PageInv'
      BY <1>37, <2>a, <2>10 DEF PageInv, TestRestoreFail, Return, Goto
    <3>4. ObjectInv'
      BY <1>37, <2>a, <2>10 DEF ObjectInv, TestRestoreFail, Return, Goto
    <3>5. FilledInv'
      BY <1>37, <2>a, <2>10 DEF FilledInv, TestRestoreFail, Return, Goto
    <3> QED BY <3>1, <3>2, <3>3, <3>4, <3>5
  <2> QED BY <2>1, <2>2, <2>3, <2>4, <2>5, <2>6, <2>7, <2>8, <2>9, <2>10 DEF Kept
<1>38. ASSUME NEW x \in Testers, TestRestore(x)
      PROVE  Kept
  <2>a. /\ OnlyActor(x) /\ pc[x] = "test_found" /\ pc'[x] = "idle"
        /\ reg'[x] = NoReg
    BY <1>38 DEF OnlyActor, PcType, RegType, TestRestore, RemoveAndFree, Return, Goto
  <2>m. reg[x].key \in BenchKeys /\ map[reg[x].key] = reg[x].handle /\ reg[x].handle # None
    BY <2>a DEF TestInv, TesterOk
  <2>r. Leaves(reg[x].key) /\ map'[reg[x].key] = None /\ EntryInv'
    <3>1. RemoveAndFree(reg[x].key, map[reg[x].key])
      BY <1>38, <2>m DEF TestRestore, Return, Goto
    <3> QED BY <2>m, <3>1, Removed
  <2>1. Resident'
    BY <1>38, <2>a, <2>m, <2>r DEF Resident, TestRestore, RemoveAndFree, Return, Goto
  <2>2. EntryInv'
    BY <2>r
  <2>3. PackedInv'
    BY <2>a, <2>m, <2>r, PackedKept DEF Packing
  <2>4. CompressInv'
    BY <1>38, <2>a, <2>m, <2>r
      DEF OnlyActor, OnlyEntry, CompressorOk, ThreadOk, TesterOk, Leaves, Enters, Sets,
      CompressInv, TestRestore, RemoveAndFree, Return, Goto
  <2>5. FaultInv'
    BY <1>38, <2>a, <2>m, <2>r
      DEF OnlyActor, OnlyEntry, CompressorOk, ThreadOk, TesterOk, Leaves, Enters, Sets,
      FaultInv, Zapping, TestRestore, RemoveAndFree, Return, Goto
  <2>6. ExitingInv'
    BY <1>38, <2>a, <2>m, <2>r
      DEF OnlyActor, OnlyEntry, CompressorOk, ThreadOk, TesterOk, Leaves, Enters, Sets,
      ExitingInv, Exiting, TestRestore, RemoveAndFree, Return, Goto
  <2>7. TestInv'
    BY <1>38, <2>a, <2>m, <2>r DEF TestInv, TestRestore, RemoveAndFree, Return, Goto
  <2>8. BackedInv'
    BY <1>38, <2>a, <2>m, <2>r DEF BackedInv, TestRestore, RemoveAndFree, Return, Goto
  <2>9. Tidy /\ TidyInv => TidyInv'
    BY DEF Tidy
  <2>10. ASSUME Stopped, LosslessInv PROVE LosslessInv'
    <3>o. OthersKept
      BY <2>m, <2>r, ObjectsKept
    <3>e. UNCHANGED <<pte, mem, ram>>
      BY <1>38 DEF TestRestore
    <3>c. \A c \in Compressors : pc'[c] = pc[c] /\ reg'[c] = reg[c]
      BY <2>a DEF OnlyActor
    <3>d. \A c \in Compressors : pc[c] \in {"packed", "mapped"} =>
            zs'[reg[c].handle] = zs[reg[c].handle]
      <4>1. \A c \in Compressors : pc[c] \in {"packed", "mapped"} =>
              reg[c].handle \in Handles /\ reg[c].handle # map[reg[x].key]
        BY <2>m DEF PackedInv, Packing, CompressInv, CompressorOk, EntryInv
      <4> QED BY <2>m, <2>r, <4>1 DEF Leaves
    <3>1. StoppedInv'
      BY <1>38, <2>a, <2>m, <2>r, <2>10, <3>o, <3>e, <3>c, <3>d
        DEF StoppedInv, TestRestore, RemoveAndFree, Return, Goto
    <3>2. PageInv'
      BY <1>38, <2>a, <2>m, <2>r, <2>10, <3>o, <3>e, <3>c, <3>d
        DEF PageInv, TestRestore, RemoveAndFree, Return, Goto
    <3>3. MemoryInv'
      BY <2>10, <2>r, <3>o, <3>e DEF MemoryInv, OthersKept, Leaves
    <3>4. ObjectInv'
      BY <2>10, <3>c, <3>d, <3>e DEF ObjectInv
    <3>5. FilledInv'
      BY <1>38, <2>a, <2>m, <2>r, <2>10, <3>o, <3>e, <3>c, <3>d
        DEF FilledInv, TestRestore, RemoveAndFree, Return, Goto
    <3> QED BY <3>1, <3>2, <3>3, <3>4, <3>5
  <2> QED BY <2>1, <2>2, <2>3, <2>4, <2>5, <2>6, <2>7, <2>8, <2>9, <2>10 DEF Kept
<1>39. ASSUME NEW x \in Testers, TestRemove(x)
      PROVE  Kept
  <2>a. /\ OnlyActor(x) /\ pc[x] = "test_found" /\ pc'[x] = "idle"
        /\ reg'[x] = NoReg
    BY <1>39
      DEF OnlyActor, PcType, RegType, TestRemove, RemoveIfThere, RemoveAndFree, Return,
      Goto
  <2>m. reg[x].key \in BenchKeys /\ map[reg[x].key] = reg[x].handle /\ reg[x].handle # None
    BY <2>a DEF TestInv, TesterOk
  <2>r. Leaves(reg[x].key) /\ map'[reg[x].key] = None /\ EntryInv'
    <3>1. RemoveAndFree(reg[x].key, map[reg[x].key])
      BY <1>39, <2>m DEF TestRemove, RemoveIfThere, Return, Goto
    <3> QED BY <2>m, <3>1, Removed
  <2>1. Resident'
    BY <1>39, <2>a, <2>m, <2>r
      DEF Resident, TestRemove, RemoveIfThere, RemoveAndFree, Return, Goto
  <2>2. EntryInv'
    BY <2>r
  <2>3. PackedInv'
    BY <2>a, <2>m, <2>r, PackedKept DEF Packing
  <2>4. CompressInv'
    BY <1>39, <2>a, <2>m, <2>r
      DEF OnlyActor, OnlyEntry, CompressorOk, ThreadOk, TesterOk, Leaves, Enters, Sets,
      CompressInv, TestRemove, RemoveIfThere, RemoveAndFree, Return, Goto
  <2>5. FaultInv'
    BY <1>39, <2>a, <2>m, <2>r
      DEF OnlyActor, OnlyEntry, CompressorOk, ThreadOk, TesterOk, Leaves, Enters, Sets,
      FaultInv, Zapping, TestRemove, RemoveIfThere, RemoveAndFree, Return, Goto
  <2>6. ExitingInv'
    BY <1>39, <2>a, <2>m, <2>r
      DEF OnlyActor, OnlyEntry, CompressorOk, ThreadOk, TesterOk, Leaves, Enters, Sets,
      ExitingInv, Exiting, TestRemove, RemoveIfThere, RemoveAndFree, Return, Goto
  <2>7. TestInv'
    BY <1>39, <2>a, <2>m, <2>r
      DEF TestInv, TestRemove, RemoveIfThere, RemoveAndFree, Return, Goto
  <2>8. BackedInv'
    BY <1>39, <2>a, <2>m, <2>r
      DEF OnlyActor, OnlyEntry, CompressorOk, ThreadOk, TesterOk, Leaves, Enters, Sets,
      BackedInv, TestRemove, RemoveIfThere, RemoveAndFree, Return, Goto
  <2>9. Tidy /\ TidyInv => TidyInv'
    BY DEF Tidy
  <2>10. ASSUME Stopped, LosslessInv PROVE LosslessInv'
    <3>o. OthersKept
      BY <2>m, <2>r, ObjectsKept
    <3>e. UNCHANGED <<pte, mem, ram>>
      BY <1>39 DEF TestRemove
    <3>c. \A c \in Compressors : pc'[c] = pc[c] /\ reg'[c] = reg[c]
      BY <2>a DEF OnlyActor
    <3>d. \A c \in Compressors : pc[c] \in {"packed", "mapped"} =>
            zs'[reg[c].handle] = zs[reg[c].handle]
      <4>1. \A c \in Compressors : pc[c] \in {"packed", "mapped"} =>
              reg[c].handle \in Handles /\ reg[c].handle # map[reg[x].key]
        BY <2>m DEF PackedInv, Packing, CompressInv, CompressorOk, EntryInv
      <4> QED BY <2>m, <2>r, <4>1 DEF Leaves
    <3>1. StoppedInv'
      BY <1>39, <2>a, <2>m, <2>r, <2>10, <3>o, <3>e, <3>c, <3>d
        DEF StoppedInv, TestRemove, RemoveIfThere, RemoveAndFree, Return, Goto
    <3>2. PageInv'
      BY <1>39, <2>a, <2>m, <2>r, <2>10, <3>o, <3>e, <3>c, <3>d
        DEF PageInv, TestRemove, RemoveIfThere, RemoveAndFree, Return, Goto
    <3>3. MemoryInv'
      BY <2>10, <2>r, <3>o, <3>e DEF MemoryInv, OthersKept, Leaves
    <3>4. ObjectInv'
      BY <2>10, <3>c, <3>d, <3>e DEF ObjectInv
    <3>5. FilledInv'
      BY <1>39, <2>a, <2>m, <2>r, <2>10, <3>o, <3>e, <3>c, <3>d
        DEF FilledInv, TestRemove, RemoveIfThere, RemoveAndFree, Return, Goto
    <3> QED BY <3>1, <3>2, <3>3, <3>4, <3>5
  <2> QED BY <2>1, <2>2, <2>3, <2>4, <2>5, <2>6, <2>7, <2>8, <2>9, <2>10 DEF Kept
<1>40. ASSUME NEW m \in Mms, DrainSkip(m)
      PROVE  Kept
  <2>1. /\ EntryInv' /\ PackedInv' /\ CompressInv' /\ FaultInv'
        /\ ExitingInv' /\ TestInv' /\ BackedInv'
    BY <1>40 DEF EntryInv, PackedInv, Packing, CompressInv, FaultInv, Zapping, ExitingInv,
      Exiting, TestInv, BackedInv, DrainSkip
  <2>2. Resident'
    BY <1>40 DEF Resident, DrainSkip
  <2>3. Tidy /\ TidyInv => TidyInv'
    BY <1>40 DEF ZapSees, Zapping, EntriesOwned, Owner, NoObjectLeak, DrainSkip
  <2>4. Stopped /\ LosslessInv => LosslessInv'
    BY <1>40 DEF StoppedInv, PageInv, MemoryInv, ObjectInv, FilledInv, DrainSkip
  <2> QED BY <2>1, <2>2, <2>3, <2>4 DEF Kept
<1>41. ASSUME UNCHANGED vars
      PROVE  Kept
  <2>1. /\ Resident' /\ EntryInv' /\ PackedInv' /\ CompressInv'
        /\ FaultInv' /\ ExitingInv' /\ TestInv' /\ BackedInv'
    BY <1>41 DEF Resident, EntryInv, PackedInv, Packing, CompressInv, FaultInv, Zapping,
      ExitingInv, Exiting, TestInv, BackedInv, vars
  <2>2. Tidy /\ TidyInv => TidyInv'
    BY <1>41 DEF ZapSees, Zapping, EntriesOwned, Owner, NoObjectLeak, vars
  <2>3. Stopped /\ LosslessInv => LosslessInv'
    BY <1>41 DEF StoppedInv, PageInv, MemoryInv, ObjectInv, FilledInv, vars
  <2> QED BY <2>1, <2>2, <2>3 DEF Kept
<1> QED BY <1>1, <1>2, <1>3, <1>4, <1>5, <1>6, <1>7, <1>8, <1>9, <1>10, <1>11, <1>12, <1>13,
  <1>14, <1>15, <1>16, <1>17, <1>18, <1>19, <1>20, <1>21, <1>22, <1>23, <1>24,
  <1>25, <1>26, <1>27, <1>28, <1>29, <1>30, <1>31, <1>32, <1>33, <1>34, <1>35,
  <1>36, <1>37, <1>38, <1>39, <1>40, <1>41
  DEF Next, App, Fault, Restore, Exit, Compress, Test, vars, world, pool, pages

-----------------------------------------------------------------------------
(* The theorems.                                                           *)

\* Nothing is compressed or running at first.
LEMMA InitOwnership ==
  ASSUME OneProcess, Init PROVE Ownership /\ TidyInv /\ LosslessInv
<1> USE ActorFacts, NoRegFacts, NoneAssumption DEF Init
<1>1. \A k \in Keys, h \in Handles : map[k] = None /\ zs[h] = Free
  OBVIOUS
<1>2. \A x \in Actors : pc[x] = "idle" /\ reg[x] = NoReg
  OBVIOUS
<1>3. \A m \in Mms, a \in Addrs : pte[m][a] = NoPte /\ mem[m][a] = None
  OBVIOUS
<1>4. NoPte # Marker /\ NoPte.page = None
  BY PteFacts DEF NoPte, Marker
<1>5. Resident
  BY DEF Resident
<1>6. EntryInv /\ PackedInv /\ CompressInv /\ TestInv
  BY <1>1, <1>2 DEF EntryInv, PackedInv, Packing, CompressInv, TestInv
<1>7. FaultInv /\ ExitingInv /\ BackedInv
  BY <1>2, <1>3, <1>4 DEF FaultInv, Zapping, ExitingInv, Exiting, BackedInv
<1>8. TidyInv
  BY <1>1, <1>2 DEF TidyInv, ZapSees, Zapping, EntriesOwned, NoObjectLeak
<1>9. LosslessInv
  BY <1>2, <1>3, <1>4
  DEF LosslessInv, StoppedInv, PageInv, MemoryInv, ObjectInv, FilledInv
<1> QED BY <1>5, <1>6, <1>7, <1>8, <1>9 DEF Ownership

\* What holds in every state; the contents and what is left behind under the
\* conditions of each.
Always == IInv /\ Ownership /\ (Tidy => TidyInv) /\ (Stopped => LosslessInv)

\* It is inductive.
LEMMA AlwaysHolds == ASSUME OneProcess PROVE Spec => []Always
<1>1. Init => Always
  BY InitIInv, InitOwnership DEF Always
<1>2. Always /\ [Next]_vars => Always'
  BY StepIInv, Step DEF Always, Kept
<1> QED BY <1>1, <1>2, PTL DEF Spec

\* The next access to a compressed page finds an entry with an allocated
\* object, whatever compression, discards, faults and the tests do in between.
THEOREM MarkersAreBacked == ASSUME OneProcess PROVE Spec => []MarkerBacked
<1>1. Always => MarkerBacked
  <2> SUFFICES ASSUME Always, NEW m \in Mms, NEW a \in Addrs, pte[m][a] = Marker,
                      \A t \in Threads : pc[t] = "removed" => reg[t].key # a
               PROVE  map[a] # None /\ zs[map[a]] # Free
    BY DEF MarkerBacked
  <2>1. map[a] # None
    BY DEF Always, Ownership, BackedInv
  <2> QED BY <2>1, ActorFacts DEF Always, Ownership, EntryInv
<1> QED BY <1>1, AlwaysHolds, PTL

\* What somebody looked up is not freed before it is read, removed or freed by
\* the one that looked it up.
THEOREM LookupsStayValid == ASSUME OneProcess PROVE Spec => []NoUseAfterFree
<1>1. Always => NoUseAfterFree
  <2> USE LocalFacts, ActorFacts DEF Always, Ownership
  <2> SUFFICES ASSUME Always, NEW x \in Actors, reg[x].handle # None,
                      pc[x] \in {"found", "filled", "mapped", "undo", "zap", "exit_zap",
                                 "test_found", "drain_found", "drain_filled",
                                 "drain_installed"}
               PROVE  zs[reg[x].handle] # Free
    BY DEF NoUseAfterFree
  <2>1. CASE x \in Threads
    <3>1. pc[x] \in {"found", "filled", "zap", "exit_zap"} /\ reg[x].key \in Keys
      BY <2>1 DEF ThreadOk
    <3>2. map[reg[x].key] = reg[x].handle
      BY <2>1, <3>1 DEF FaultInv, Zapping
    <3> QED BY <3>1, <3>2 DEF EntryInv
  <2>2. CASE x \in Compressors
    <3>1. pc[x] \in {"mapped", "undo"} /\ reg[x].key \in Keys
      BY <2>2 DEF CompressorOk
    <3>2. map[reg[x].key] = reg[x].handle
      BY <2>2, <3>1 DEF CompressInv
    <3> QED BY <3>1, <3>2 DEF EntryInv
  <2>3. CASE x \in Testers
    <3>1. pc[x] = "test_found" /\ reg[x].key \in Keys
      BY <2>3 DEF TesterOk
    <3>2. map[reg[x].key] = reg[x].handle
      BY <2>3, <3>1 DEF TestInv
    <3> QED BY <3>1, <3>2 DEF EntryInv
  <2>4. x # Unloader
    BY DEF Resident
  <2> QED BY <2>1, <2>2, <2>3, <2>4 DEF Actors
<1> QED BY <1>1, AlwaysHolds, PTL

\* On a patched kernel no access to a compressed page kills the thread: it finds
\* the entry, its object decompresses, and being out of memory is retried.
THEOREM FaultsSucceed ==
  ASSUME OneProcess, "stock" \notin Env PROVE Spec => []NoSigbus
<1>1. Always => NoSigbus
  BY DEF Always, Ownership, Resident, NoSigbus
<1> QED BY <1>1, AlwaysHolds, PTL

\* Discarded memory and an exited process leave no entry behind.
THEOREM EntriesAreOwned == ASSUME Tidy PROVE Spec => []EntriesOwned
<1>1. OneProcess
  BY DEF Tidy
<1>2. Always => EntriesOwned
  BY DEF Always, TidyInv
<1> QED BY <1>1, <1>2, AlwaysHolds, PTL

\* Nor do they, or a compression that is undone, leave an object nobody can
\* reach.
THEOREM ObjectsAreReachable == ASSUME Tidy PROVE Spec => []NoObjectLeak
<1>1. OneProcess
  BY DEF Tidy
<1>2. Always => NoObjectLeak
  BY DEF Always, TidyInv
<1> QED BY <1>1, <1>2, AlwaysHolds, PTL

\* The application reads what it last wrote, from its page, from the object of
\* its marker, or from the page a fault has filled.
THEOREM NothingIsLost == ASSUME Stopped PROVE Spec => []Lossless
<1>1. OneProcess
  BY DEF Stopped
<1>2. Always => Lossless
  <2> SUFFICES ASSUME Always, NEW m \in Mms, NEW a \in Addrs, mem[m][a] # None
               PROVE  Readable(m, a) = mem[m][a]
    BY DEF Lossless
  <2> USE <1>1, LocalFacts, ActorFacts DEF Always, Ownership
  <2> DEFINE restoring ==
        {t \in Threads : pc[t] = "removed" /\ reg[t].mm = m /\ reg[t].key = a}
  <2>1. LosslessInv
    OBVIOUS
  <2>2. CASE pte[m][a].st = "present"
    BY <2>1, <2>2 DEF LosslessInv, MemoryInv, Readable
  <2>3. CASE pte[m][a].st # "present"
    <3>1. pte[m][a] = Marker
      <4>1. pte[m][a] \in Ptes /\ pte[m][a] # NoPte
        BY <2>1 DEF LosslessInv, MemoryInv, IInv, PteType
      <4> QED BY <2>3, <4>1 DEF Ptes, Present
    <3>2. CASE restoring # {}
      <4>1. PICK t \in Threads : t = CHOOSE u \in restoring : TRUE
        BY <3>2
      <4>2. t \in restoring
        BY <3>2, <4>1
      <4>3. ram[reg[t].page] = mem[m][a]
        BY <2>1, <4>2 DEF LosslessInv, FilledInv, ThreadOk
      <4>4. Readable(m, a) = ram[reg[t].page]
        BY <2>3, <3>2, <4>1 DEF Readable
      <4> QED BY <4>3, <4>4
    <3>3. CASE restoring = {}
      <4>1. \A t \in Threads : pc[t] = "removed" => reg[t].mm = m
        BY DEF ThreadOk, OneProcess, AtMostOne
      <4>2. map[a] # None
        BY <3>1, <3>3, <4>1 DEF BackedInv
      <4>3. zs[map[a]] # Free /\ zs[map[a]] = mem[m][a]
        BY <2>1, <3>1, <4>2 DEF LosslessInv, MemoryInv, EntryInv
      <4> QED BY <2>3, <3>3, <4>2, <4>3 DEF Readable, ReadObj
    <3> QED BY <3>2, <3>3
  <2> QED BY <2>2, <2>3
<1> QED BY <1>1, <1>2, AlwaysHolds, PTL
================================================================================
