---------------------------- MODULE LifecycleProofs ----------------------------
(***************************************************************************)
(* Proofs about Lifecycle, for any pages and threads, any number of CPUs,  *)
(* any kernel and any number of loads.                                     *)
(*                                                                         *)
(* The argument is the one minimem_init and minimem_exit are written by:   *)
(* at every moment there is a set of exit functions that would still have  *)
(* to run (Pending), and it accounts for everything.  What is held, but    *)
(* for what leaks, and every call in progress has its exit function        *)
(* pending (OwnInv, CallInv); a pending exit function still has what it    *)
(* gives back (NeedInv, BufInv); and the lists are in such an order that   *)
(* with an exit function that waits for calls, those that take away what   *)
(* the calls rely on are pending too (PlanInv).                            *)
(*                                                                         *)
(* For NoDataLost, the marker of a page that is not harmed and that no     *)
(* fault carries exists only while the drain is still to come and somebody *)
(* intercepts its faults (MarkerInv), nobody sweeps outside that time      *)
(* (SweepInv), and the drain leaves no such marker behind where it has     *)
(* been (DrainInv).  That no page is harmed at all if nothing in Env goes  *)
(* wrong needs that a kernel which passes the check has a hook (CheckInv,  *)
(* HookInv).                                                               *)
(***************************************************************************)
EXTENDS Lifecycle, TLAPS

Steps == {ExitOrder[i] : i \in DOMAIN ExitOrder}

\* Lists of exit functions: the functions in one, none twice, and a before b.
Within(q)      == {q[i] : i \in 1 .. Len(q)}
NoneTwice(q)   == \A i, j \in 1 .. Len(q) : q[i] = q[j] => i = j
Before(q, a, b) == \A i \in 1 .. Len(q) : q[i] = a => \E j \in 1 .. Len(q) : i < j /\ q[j] = b

\* The exit functions that wait for calls run before those that take the pool
\* and the buffers away, and the packers' before the notifier's work queue, the
\* cluster's work queue and the drain; the drain runs with the hook in place.
Orderly(q) ==
  /\ \A a \in {"hook", "mmu", "shrinker", "scanner", "group", "debugfs"} :
       Before(q, a, "zswap") /\ Before(q, a, "compress")
  /\ \A a \in {"scanner", "group", "debugfs"} : Before(q, a, "mmu")
  /\ Before(q, "debugfs", "parallel")
DrainOrderly(q) ==
  /\ \A a \in {"scanner", "group", "debugfs"} : Before(q, a, "drain")
  /\ Before(q, "drain", "hook")

\* The exit functions of what is set up when an init function is called.
SetUp == [compress |-> {},
          zswap    |-> {"compress"},
          parallel |-> {"compress", "zswap"},
          shrinker |-> {"compress", "zswap", "parallel"},
          mmu      |-> {"compress", "zswap", "parallel", "shrinker"},
          scanner  |-> {"compress", "zswap", "parallel", "shrinker", "mmu"},
          hook     |-> {"compress", "zswap", "parallel", "shrinker", "mmu", "scanner"},
          kobj     |-> {"compress", "zswap", "parallel", "shrinker", "mmu", "scanner",
                        "hook"},
          group    |-> {"compress", "zswap", "parallel", "shrinker", "mmu", "scanner",
                        "hook", "kobj"},
          files    |-> {"compress", "zswap", "parallel", "shrinker", "mmu", "scanner",
                        "hook", "kobj", "group"}]
Pending ==
  CASE phase = "loading" -> SetUp[step]
    [] phase = "loaded"  -> Steps
    [] OTHER             -> Within(todo)

\* The exit function that gives a resource back, and the one that waits for a
\* call.
Owned == Resources \ (Leaks \union {"entries"})
Owner == [pool |-> "zswap", dec_wq |-> "parallel", shrinker |-> "shrinker",
          mmu_wq |-> "mmu", request |-> "mmu", notifier |-> "mmu", thread |-> "scanner",
          handler |-> "hook", zap_cb |-> "hook", kretprobe |-> "hook",
          kobj |-> "kobj", group |-> "group", files |-> "files", debugfs |-> "debugfs"]
Home == [fault |-> "hook", probe |-> "hook", zap |-> "hook", release |-> "mmu",
         reclaim |-> "shrinker", sweep |-> "scanner", sysfs |-> "group",
         debugfs |-> "debugfs"]

CtlType == /\ kernel \subseteq Features /\ loads \in 0 .. MaxLoads
           /\ phase \in {"absent", "loading", "loaded", "unwinding", "unloading"}
           /\ step \in {"compat", "compress", "hook", "files"} \union DOMAIN Acquires
           /\ todo \in Seq(Steps)
HeldType == held \subseteq Resources
BufType == bufs \subseteq Buffers
OneHook == ~ {"handler", "kretprobe"} \subseteq held
FlagType == symbols \in BOOLEAN /\ enabled \in BOOLEAN /\ tracking \in BOOLEAN
CallType == /\ call \in [Threads -> Calls \union {"none"}]
            /\ at \in [Threads -> Pages \union {"none"}]
            /\ stage \in [Threads -> {"in", "copied", "removed"}]
            /\ \A t \in Threads : call[t] # "none" => at[t] \in Pages
PageType == /\ page \in [Pages -> {"present", "marker"}]
            /\ stored \subseteq Pages /\ killed \subseteq Pages /\ harmed \subseteq Pages
DrainType == drained \subseteq Pages /\ drain \in {"idle", "walk"} \union Pages

\* What is to be called, and in which order.
PlanInv ==
  /\ phase = "loading" => step # "compat"
  /\ phase \in {"absent", "loading", "loaded"} => todo = <<>>
  /\ NoneTwice(todo) /\ Orderly(todo)
  /\ phase = "unloading" => DrainOrderly(todo)
  /\ phase = "unwinding" =>
       Within(todo) \cap {"files", "debugfs", "group", "drain"} = {}

OwnInv == \A r \in held \cap Owned : Owner[r] \in Pending
NeedInv == /\ "zswap" \in Pending => "pool" \in held
           /\ "mmu" \in Pending => "mmu_wq" \in held
           /\ "parallel" \in Pending => "dec_wq" \in held
BufInv == /\ "compress" \in Pending => bufs = Buffers
          /\ bufs # {} => "compress" \in Pending \/ phase = "loading"

\* Entries come from debugfs, which is there after all else was set up.
EntriesInv == "entries" \in held => phase \in {"loaded", "unloading"}

\* Except that the last faults and zaps may come late.
CallInv == \A t \in Threads : call[t] # "none" =>
             \/ "late" \in Env /\ call[t] \in {"fault", "zap"}
             \/ Home[call[t]] \in Pending

IInv == /\ CtlType /\ HeldType /\ BufType /\ OneHook /\ FlagType
        /\ CallType /\ PageType /\ DrainType
        /\ PlanInv /\ OwnInv /\ NeedInv /\ BufInv /\ EntriesInv /\ CallInv

\* What was checked before the load.
CheckInv == phase = "loading" => Has(Critical)

\* Nothing sweeps until the files are there that enable it.
Packing == /\ phase \in {"loading", "loaded", "unloading"}
           /\ phase = "loading" => step = "files"
SweepInv == ~ Packing => /\ phase # "absent" => ~ enabled
                         /\ \A t \in Threads : call[t] # "sweep"

\* Where nothing went wrong, markers have their data and are intercepted, or a
\* fault has their page.  Those without such a fault are gone once the drain is
\* through.
MayHold == Packing /\ (phase = "unloading" => "drain" \in Within(todo))
Safe == MayHold /\ Intercepts
MarkerInv == \A p \in Pages \ harmed :
               page[p] = "marker" => (p \in stored /\ Safe) \/ Carried(p)
DrainInv ==
  /\ drain = "idle" => drained = {}
  /\ drain # "idle" => phase = "unloading" /\ todo # <<>> /\ Head(todo) = "drain"
  /\ \A p \in drained \ harmed : page[p] = "marker" => p = drain \/ Carried(p)
DInv == SweepInv /\ MarkerInv /\ DrainInv

\* Where the hook can always be placed it is, before anybody can compress.
HookInv == /\ MayHold => Intercepts
           /\ phase = "loading" /\ step \in {"kobj", "group"} => Intercepts

-----------------------------------------------------------------------------
(* Lists of exit functions.                                                *)

\* The exit functions, by name.
LEMMA StepsAre ==
  Steps = {"files", "debugfs", "group", "kobj", "scanner", "drain", "hook", "mmu",
           "shrinker", "fault", "parallel", "zswap", "compress"}
BY DEF ExitOrder, Steps

\* minimem_exit's list has every exit function once, in the order that matters.
LEMMA ExitOrderFacts ==
  /\ ExitOrder \in Seq(Steps) /\ Within(ExitOrder) = Steps
  /\ NoneTwice(ExitOrder) /\ Orderly(ExitOrder) /\ DrainOrderly(ExitOrder)
<1>1. ExitOrder \in Seq(Steps) /\ Within(ExitOrder) = Steps
  BY DEF ExitOrder, Steps, Within
<1>2. NoneTwice(ExitOrder)
  BY DEF ExitOrder, NoneTwice
<1>3. Orderly(ExitOrder) /\ DrainOrderly(ExitOrder)
  BY DEF ExitOrder, Orderly, DrainOrderly, Before
<1> QED BY <1>1, <1>2, <1>3

\* What minimem_init undoes when a step fails is exactly what was set up before
\* it (and the fault handler, which it never set up), in the order that matters.
LEMMA UnwindFacts ==
  ASSUME NEW s \in DOMAIN Acquires
  PROVE  /\ Unwind(s) \in Seq(Steps)
         /\ NoneTwice(Unwind(s)) /\ Orderly(Unwind(s))
         /\ SetUp[s] \subseteq Within(Unwind(s))
         /\ Within(Unwind(s)) \subseteq SetUp[s] \union {"fault"}
<1>1. CASE s = "zswap"
  BY <1>1, StepsAre DEF Unwind, NoneTwice, Orderly, Before, Within, SetUp
<1>2. CASE s = "parallel"
  BY <1>2, StepsAre DEF Unwind, NoneTwice, Orderly, Before, Within, SetUp
<1>3. CASE s = "shrinker"
  BY <1>3, StepsAre DEF Unwind, NoneTwice, Orderly, Before, Within, SetUp
<1>4. CASE s = "mmu"
  BY <1>4, StepsAre DEF Unwind, NoneTwice, Orderly, Before, Within, SetUp
<1>5. CASE s = "scanner"
  BY <1>5, StepsAre DEF Unwind, NoneTwice, Orderly, Before, Within, SetUp
<1>6. CASE s = "kobj"
  BY <1>6, StepsAre DEF Unwind, NoneTwice, Orderly, Before, Within, SetUp
<1>7. CASE s = "group"
  BY <1>7, StepsAre DEF Unwind, NoneTwice, Orderly, Before, Within, SetUp
<1> QED BY <1>1, <1>2, <1>3, <1>4, <1>5, <1>6, <1>7 DEF Acquires

\* Nothing is left to call in an empty list.
LEMMA EmptyFacts == Within(<<>>) = {} /\ NoneTwice(<<>>) /\ Orderly(<<>>)
BY DEF Within, NoneTwice, Orderly, Before

\* The function called leaves the list, and the others keep their order.
LEMMA TailFacts ==
  ASSUME NEW q \in Seq(Steps), q # <<>>, NoneTwice(q)
  PROVE  /\ Tail(q) \in Seq(Steps) /\ Head(q) \in Within(q)
         /\ Within(Tail(q)) = Within(q) \ {Head(q)}
         /\ NoneTwice(Tail(q))
         /\ \A a, b : Before(q, a, b) => Before(Tail(q), a, b)
<1>1. /\ Len(q) \in Nat \ {0} /\ Head(q) = q[1]
      /\ Tail(q) \in Seq(Steps) /\ Len(Tail(q)) = Len(q) - 1
      /\ \A i \in 1 .. Len(q) - 1 : Tail(q)[i] = q[i + 1]
  OBVIOUS
<1>2. Within(Tail(q)) = Within(q) \ {Head(q)}
  <2>1. ASSUME NEW x \in Within(Tail(q)) PROVE x \in Within(q) \ {Head(q)}
    <3>1. PICK i \in 1 .. Len(q) - 1 : x = q[i + 1]
      BY <1>1, <2>1 DEF Within
    <3>2. i + 1 \in 1 .. Len(q) /\ i + 1 # 1 /\ 1 \in 1 .. Len(q)
      BY <1>1
    <3> QED BY <1>1, <3>1, <3>2 DEF Within, NoneTwice
  <2>2. ASSUME NEW x \in Within(q), x # Head(q) PROVE x \in Within(Tail(q))
    <3>1. PICK i \in 1 .. Len(q) : x = q[i]
      BY <2>2 DEF Within
    <3>2. i # 1 /\ i - 1 \in 1 .. Len(q) - 1 /\ (i - 1) + 1 = i
      BY <1>1, <2>2, <3>1
    <3>3. Tail(q)[i - 1] = x
      BY <1>1, <3>1, <3>2
    <3> QED BY <1>1, <3>2, <3>3 DEF Within
  <2> QED BY <2>1, <2>2
<1>3. NoneTwice(Tail(q))
  <2> SUFFICES ASSUME NEW i \in 1 .. Len(q) - 1, NEW j \in 1 .. Len(q) - 1,
                      Tail(q)[i] = Tail(q)[j]
               PROVE  i = j
    BY <1>1 DEF NoneTwice
  <2>1. i + 1 \in 1 .. Len(q) /\ j + 1 \in 1 .. Len(q) /\ q[i + 1] = q[j + 1]
    BY <1>1
  <2> QED BY <2>1 DEF NoneTwice
<1>4. ASSUME NEW a, NEW b, Before(q, a, b) PROVE Before(Tail(q), a, b)
  <2> SUFFICES ASSUME NEW i \in 1 .. Len(q) - 1, q[i + 1] = a
               PROVE  \E j \in 1 .. Len(q) - 1 : i < j /\ Tail(q)[j] = b
    BY <1>1 DEF Before
  <2>1. i + 1 \in 1 .. Len(q)
    BY <1>1
  <2>2. PICK j \in 1 .. Len(q) : i + 1 < j /\ q[j] = b
    BY <1>4, <2>1 DEF Before
  <2>3. j - 1 \in 1 .. Len(q) - 1 /\ i < j - 1 /\ Tail(q)[j - 1] = b
    BY <1>1, <2>2
  <2> QED BY <2>3
<1>5. Head(q) \in Within(q)
  BY <1>1 DEF Within
<1> QED BY <1>1, <1>2, <1>3, <1>4, <1>5

\* What is called before another leaves that one to be called, and is gone by
\* the time it is called.
LEMMA BeforeFacts ==
  ASSUME NEW q \in Seq(Steps), q # <<>>, NoneTwice(q), NEW a, NEW b, Before(q, a, b),
         a \in Within(q)
  PROVE  b \in Within(q) /\ b # Head(q)
<1>1. Len(q) \in Nat \ {0} /\ Head(q) = q[1]
  OBVIOUS
<1>2. PICK i \in 1 .. Len(q) : q[i] = a
  BY DEF Within
<1>3. PICK j \in 1 .. Len(q) : i < j /\ q[j] = b
  BY <1>2 DEF Before
<1>4. j # 1 /\ 1 \in 1 .. Len(q)
  BY <1>1, <1>3
<1> QED BY <1>1, <1>3, <1>4 DEF Within, NoneTwice

\* An orderly list stays so.
LEMMA OrderlyTail ==
  ASSUME NEW q \in Seq(Steps), q # <<>>, NoneTwice(q)
  PROVE  /\ Orderly(q) => Orderly(Tail(q))
         /\ DrainOrderly(q) => DrainOrderly(Tail(q))
BY TailFacts DEF Orderly, DrainOrderly

-----------------------------------------------------------------------------
(* The invariant.                                                          *)

\* With a pending exit function that waits for calls, those that take away
\* what the calls rely on are pending too.
LEMMA PendingCloses ==
  ASSUME CtlType, PlanInv
  PROVE  /\ \A a \in {"hook", "mmu", "shrinker", "scanner", "group", "debugfs"} :
              a \in Pending => "zswap" \in Pending /\ "compress" \in Pending
         /\ \A a \in {"scanner", "group", "debugfs"} : a \in Pending => "mmu" \in Pending
         /\ "debugfs" \in Pending => "parallel" \in Pending
<1>1. CASE phase = "loading"
  BY <1>1 DEF CtlType, PlanInv, Pending, SetUp, Acquires
<1>2. CASE phase = "loaded"
  BY <1>2, StepsAre DEF Pending
<1>3. CASE phase \notin {"loading", "loaded"} /\ todo = <<>>
  BY <1>3, EmptyFacts DEF Pending
<1>4. CASE phase \notin {"loading", "loaded"} /\ todo # <<>>
  <2>1. Pending = Within(todo) /\ todo \in Seq(Steps) /\ NoneTwice(todo) /\ Orderly(todo)
    BY <1>4 DEF Pending, CtlType, PlanInv
  <2> QED BY <1>4, <2>1, BeforeFacts DEF Orderly
<1> QED BY <1>1, <1>2, <1>3, <1>4

\* An exit function gives back what it owns, and waits for the calls that come
\* in by its doors, or they are in time.
LEMMA OwnerFacts ==
  ASSUME NEW s \in Steps
  PROVE  /\ \A r \in Owned : r \in GivesBack(s) <=> Owner[r] = s
         /\ GivesBack(s) \subseteq Owned /\ Forgotten(s) \subseteq {"mm_users"}
         /\ \A c \in Calls : Home[c] = s =>
              c \in WaitsFor(s) \/ (s = "hook" /\ c \in {"fault", "zap"})
<1>1. \A r \in Owned : r \in GivesBack(s) <=> Owner[r] = s
  BY StepsAre DEF Owned, Resources, Leaks, GivesBack, Owner
<1>2. GivesBack(s) \subseteq Owned /\ Forgotten(s) \subseteq {"mm_users"}
  BY StepsAre DEF Owned, Resources, Leaks, GivesBack, Forgotten
<1>3. \A c \in Calls : Home[c] = s =>
        c \in WaitsFor(s) \/ (s = "hook" /\ c \in {"fault", "zap"})
  BY StepsAre DEF Calls, Relies, WaitsFor, Home
<1> QED BY <1>1, <1>2, <1>3

\* An init function acquires what its exit function gives back, and is followed
\* by one that finds both set up.
LEMMA AcquireFacts ==
  ASSUME NEW s \in DOMAIN Acquires
  PROVE  /\ Then[s] \in {"hook", "files"} \union DOMAIN Acquires
         /\ SetUp[Then[s]] = SetUp[s] \union {s} /\ "compress" \in SetUp[s]
         /\ Acquires[s] \subseteq Resources \ {"handler", "kretprobe", "entries"}
         /\ \A r \in Acquires[s] : Owner[r] = s
         /\ s = "zswap" => "pool" \in Acquires[s]
         /\ s = "mmu" => "mmu_wq" \in Acquires[s]
         /\ s = "parallel" => "dec_wq" \in Acquires[s]
         /\ Then[s] \in {"kobj", "group", "files"} => s \in {"kobj", "group"}
BY DEF Acquires, Then, SetUp, Resources, Owner

\* A call enters by a door that its exit function closes.
LEMMA EntryPending ==
  ASSUME OwnInv, NEW c \in Calls, NEW p \in Pages, Entry(c, p)
  PROVE  Home[c] \in Pending
<1>1. {"handler", "kretprobe", "zap_cb", "notifier", "shrinker", "thread", "group",
       "debugfs"} \subseteq Owned
  BY DEF Owned, Resources, Leaks
<1> QED BY <1>1 DEF OwnInv, Entry, Intercepts, Calls, Relies, Home, Owner

\* What leaves the control alone leaves the plan alone.
LEMMA ControlFrame ==
  ASSUME CtlType, PlanInv, UNCHANGED <<kernel, control>>
  PROVE  CtlType' /\ PlanInv' /\ Pending' = Pending
BY DEF control, CtlType, PlanInv, Pending

\* What besides only adds to what is held, and that of what is pending, keeps
\* what is said of the resources.
LEMMA HeldFrame ==
  ASSUME IInv, UNCHANGED <<kernel, control, bufs>>,
         NEW new \in SUBSET {"request", "notifier", "entries", "mm_users"},
         held' = held \union new,
         new \cap {"request", "notifier"} # {} => "mmu" \in Pending,
         "entries" \in new => phase \in {"loaded", "unloading"}
  PROVE  /\ CtlType' /\ PlanInv' /\ Pending' = Pending
         /\ HeldType' /\ BufType' /\ OneHook' /\ OwnInv' /\ NeedInv' /\ BufInv'
         /\ EntriesInv'
<1> USE DEF IInv
<1>1. CtlType' /\ PlanInv' /\ Pending' = Pending /\ phase' = phase
  BY ControlFrame DEF control
<1>2. HeldType'
  BY DEF HeldType, Resources
<1>3. OneHook'
  BY DEF OneHook
<1>4. OwnInv'
  <2>1. Owner["request"] = "mmu" /\ Owner["notifier"] = "mmu"
    BY DEF Owner
  <2>2. "entries" \notin Owned /\ "mm_users" \notin Owned
    BY DEF Owned, Leaks
  <2> QED BY <1>1, <2>1, <2>2 DEF OwnInv
<1>5. NeedInv'
  BY <1>1 DEF NeedInv
<1>6. BufType' /\ BufInv'
  BY <1>1 DEF BufType, BufInv
<1>7. EntriesInv'
  BY <1>1 DEF EntriesInv
<1> QED BY <1>1, <1>2, <1>3, <1>4, <1>5, <1>6, <1>7

\* What happens besides while all is held as it was.
LEMMA StillFrame ==
  ASSUME IInv, UNCHANGED <<kernel, control, bufs, held>>
  PROVE  /\ CtlType' /\ PlanInv' /\ Pending' = Pending
         /\ HeldType' /\ BufType' /\ OneHook' /\ OwnInv' /\ NeedInv' /\ BufInv'
         /\ EntriesInv'
<1>1. held' = held \union {} /\ {} \in SUBSET {"request", "notifier", "entries", "mm_users"}
  OBVIOUS
<1> QED BY <1>1, HeldFrame

\* A call that ends disturbs nothing that is said of the others.
LEMMA LeaveFrame ==
  ASSUME IInv, NEW t \in Threads, Leave(t)
  PROVE  /\ UNCHANGED <<kernel, control, bufs>> /\ DrainType' /\ CallType' /\ CallInv'
         /\ tracking' \in BOOLEAN => FlagType'
<1>1. UNCHANGED <<kernel, control, bufs, symbols, enabled, drain, drained>>
  BY DEF Leave, passes
<1>2. CallType'
  BY DEF IInv, CallType, Leave
<1>3. Pending' = Pending
  BY <1>1, ControlFrame DEF IInv
<1>4. CallInv'
  BY <1>3 DEF IInv, CallInv, CallType, Leave
<1>5. DrainType'
  BY <1>1 DEF IInv, DrainType
<1>6. tracking' \in BOOLEAN => FlagType'
  BY <1>1 DEF IInv, FlagType
<1> QED BY <1>1, <1>2, <1>4, <1>5, <1>6

\* Whoever compresses has its exit function pending, and with it the notifier's.
LEMMA PackerHome ==
  ASSUME IInv, NEW t \in Threads, call[t] \in Packers
  PROVE  Home[call[t]] \in Pending /\ "mmu" \in Pending
<1>1. /\ call[t] # "none" /\ call[t] \notin {"fault", "zap"}
      /\ Home[call[t]] \in {"scanner", "group", "debugfs"}
  BY DEF Packers, Home
<1>2. Home[call[t]] \in Pending
  BY <1>1 DEF IInv, CallInv
<1> QED BY <1>1, <1>2, PendingCloses DEF IInv

\* debugfs is there when all is set up.
LEMMA DebugfsPhase ==
  ASSUME CtlType, PlanInv, "debugfs" \in Pending
  PROVE  phase \in {"loaded", "unloading"}
<1>1. phase # "loading"
  BY DEF CtlType, PlanInv, Pending, SetUp, Acquires
<1>2. phase # "absent"
  BY EmptyFacts DEF PlanInv, Pending
<1>3. phase # "unwinding"
  BY DEF PlanInv, Pending
<1> QED BY <1>1, <1>2, <1>3 DEF CtlType

\* Nothing is set up before the module is loaded.
LEMMA InitIInv == Init => IInv
<1> SUFFICES ASSUME Init PROVE IInv
  OBVIOUS
<1> USE DEF Init
<1>1. CtlType /\ HeldType /\ BufType /\ OneHook
  BY BoundsAssumption DEF CtlType, HeldType, BufType, OneHook
<1>2. FlagType /\ DrainType
  BY DEF FlagType, DrainType
<1>3. CallType /\ PageType
  BY DEF CallType, PageType
<1>4. PlanInv
  BY EmptyFacts DEF PlanInv
<1>5. OwnInv /\ NeedInv /\ BufInv /\ CallInv /\ EntriesInv
  BY EmptyFacts DEF OwnInv, NeedInv, BufInv, CallInv, EntriesInv, Pending
<1> QED BY <1>1, <1>2, <1>3, <1>4, <1>5 DEF IInv

\* Every action keeps the invariant: first those of loading, ...
LEMMA LoadingIInv == IInv /\ Loading => IInv'
<1> SUFFICES ASSUME IInv, Loading PROVE IInv'
  OBVIOUS
<1> USE BoundsAssumption DEF IInv, flags, passes, threads, fates, world, control, module
<1>1. ASSUME Load
      PROVE  IInv'
  <2>a. Pending' = Pending
    <3>1. Pending = {} /\ todo' = <<>>
      BY <1>1, EmptyFacts DEF PlanInv, Pending, Load
    <3>2. CASE Has(Critical)
      <4>1. phase' = "loading" /\ step' = "compress"
        BY <1>1, <3>2 DEF Load
      <4>2. SetUp["compress"] = {}
        BY DEF SetUp
      <4> QED BY <3>1, <4>1, <4>2 DEF Pending
    <3>3. CASE ~ Has(Critical)
      BY <1>1, <3>1, <3>3, EmptyFacts DEF Pending, Load
    <3> QED BY <3>2, <3>3
  <2>1. HeldType' /\ BufType' /\ OneHook' /\ CallType' /\ PageType' /\ DrainType'
    BY <1>1 DEF HeldType, BufType, OneHook, CallType, PageType, DrainType, Load
  <2>2. CtlType'
    BY <1>1 DEF CtlType, Load
  <2>3. FlagType'
    BY <1>1 DEF FlagType, Load
  <2>4. PlanInv'
    BY <1>1 DEF PlanInv, Load
  <2>5. OwnInv' /\ NeedInv' /\ EntriesInv'
    BY <1>1, <2>a DEF OwnInv, NeedInv, EntriesInv, Load
  <2>6. BufInv'
    BY <1>1, <2>a DEF BufInv, Load
  <2>7. CallInv'
    BY <1>1, <2>a DEF CallInv, Load
  <2> QED BY <2>1, <2>2, <2>3, <2>4, <2>5, <2>6, <2>7
<1>2. ASSUME AllocBuffer
      PROVE  IInv'
  <2>a. Pending' = Pending /\ Pending = {} /\ phase = "loading" /\ phase' = phase
    BY <1>2, EmptyFacts DEF CtlType, PlanInv, Pending, SetUp, AllocBuffer
  <2>1. /\ CtlType' /\ HeldType' /\ OneHook' /\ FlagType' /\ CallType' /\ PageType'
        /\ DrainType' /\ PlanInv'
    BY <1>2 DEF CtlType, HeldType, OneHook, FlagType, CallType, PageType, DrainType,
      PlanInv, AllocBuffer
  <2>2. BufType'
    BY <1>2 DEF BufType, Buffers, AllocBuffer
  <2>3. OwnInv' /\ NeedInv' /\ EntriesInv'
    BY <1>2, <2>a DEF OwnInv, NeedInv, EntriesInv, AllocBuffer
  <2>4. BufInv'
    BY <1>2, <2>a DEF BufInv, AllocBuffer
  <2>5. CallInv'
    BY <1>2, <2>a DEF CallInv, AllocBuffer
  <2> QED BY <2>1, <2>2, <2>3, <2>4, <2>5
<1>3. ASSUME AllocFail
      PROVE  IInv'
  <2>a. Pending' = Pending /\ Pending = {}
    BY <1>3, EmptyFacts DEF CtlType, PlanInv, Pending, SetUp, AllocFail
  <2>1. /\ HeldType' /\ OneHook' /\ FlagType' /\ CallType' /\ PageType' /\ DrainType'
    BY <1>3 DEF HeldType, OneHook, FlagType, CallType, PageType, DrainType, AllocFail
  <2>2. CtlType'
    BY <1>3 DEF CtlType, AllocFail
  <2>3. BufType'
    BY <1>3 DEF BufType, AllocFail, FreeBuffers
  <2>4. PlanInv'
    BY <1>3 DEF PlanInv, AllocFail
  <2>5. OwnInv' /\ NeedInv' /\ EntriesInv'
    BY <1>3, <2>a DEF OwnInv, NeedInv, EntriesInv, AllocFail
  <2>6. BufInv'
    BY <1>3, <2>a DEF BufInv, AllocFail, FreeBuffers
  <2>7. CallInv'
    BY <1>3, <2>a DEF CallInv, AllocFail
  <2> QED BY <2>1, <2>2, <2>3, <2>4, <2>5, <2>6, <2>7
<1>4. ASSUME BuffersDone
      PROVE  IInv'
  <2>a. Pending' = {"compress"} /\ Pending = {}
    BY <1>4 DEF CtlType, PlanInv, Pending, SetUp, BuffersDone
  <2>1. /\ HeldType' /\ BufType' /\ OneHook' /\ FlagType' /\ CallType' /\ PageType'
        /\ DrainType'
    BY <1>4 DEF HeldType, BufType, OneHook, FlagType, CallType, PageType, DrainType,
      BuffersDone
  <2>2. CtlType'
    BY <1>4 DEF CtlType, Acquires, BuffersDone
  <2>3. PlanInv'
    BY <1>4 DEF PlanInv, BuffersDone
  <2>4. OwnInv' /\ NeedInv' /\ EntriesInv'
    BY <1>4, <2>a DEF OwnInv, NeedInv, EntriesInv, BuffersDone
  <2>5. BufInv'
    BY <1>4, <2>a DEF BufInv, BuffersDone
  <2>6. CallInv'
    BY <1>4, <2>a DEF CallInv, BuffersDone
  <2> QED BY <2>1, <2>2, <2>3, <2>4, <2>5, <2>6
<1>5. ASSUME NEW s \in DOMAIN Acquires, InitOk(s)
      PROVE  IInv'
  <2>a. Pending' = Pending \union {s} /\ Pending = SetUp[s]
    BY <1>5, AcquireFacts DEF CtlType, PlanInv, Pending, InitOk
  <2>1. BufType' /\ FlagType' /\ CallType' /\ PageType' /\ DrainType'
    BY <1>5 DEF BufType, FlagType, CallType, PageType, DrainType, InitOk
  <2>2. CtlType'
    BY <1>5, AcquireFacts DEF CtlType, InitOk
  <2>3. HeldType'
    BY <1>5, AcquireFacts DEF HeldType, InitOk
  <2>4. OneHook'
    BY <1>5, AcquireFacts DEF OneHook, InitOk
  <2>5. PlanInv'
    BY <1>5, AcquireFacts DEF PlanInv, CtlType, Acquires, InitOk
  <2>6. OwnInv'
    BY <1>5, <2>a, AcquireFacts DEF OwnInv, InitOk
  <2>7. NeedInv'
    BY <1>5, <2>a, AcquireFacts DEF NeedInv, InitOk
  <2>8. BufInv'
    BY <1>5, <2>a, AcquireFacts DEF BufInv, InitOk
  <2>9. CallInv'
    BY <1>5, <2>a DEF CallInv, InitOk
  <2>10. EntriesInv'
    BY <1>5, AcquireFacts DEF EntriesInv, InitOk
  <2> QED BY <2>1, <2>2, <2>3, <2>4, <2>5, <2>6, <2>7, <2>8, <2>9, <2>10
<1>6. ASSUME NEW s \in DOMAIN Acquires, InitFail(s)
      PROVE  IInv'
  <2>a. /\ "compress" \in Pending
        /\ Pending \subseteq Pending'
        /\ Pending' \subseteq Pending \union {"fault"}
    BY <1>6, UnwindFacts, AcquireFacts DEF CtlType, PlanInv, Pending, InitFail
  <2>1. /\ HeldType' /\ BufType' /\ OneHook' /\ FlagType' /\ CallType' /\ PageType'
        /\ DrainType'
    BY <1>6 DEF HeldType, BufType, OneHook, FlagType, CallType, PageType, DrainType,
      InitFail
  <2>2. CtlType'
    BY <1>6, UnwindFacts DEF CtlType, InitFail
  <2>3. PlanInv'
    BY <1>6, UnwindFacts DEF PlanInv, SetUp, Acquires, InitFail
  <2>4. OwnInv' /\ NeedInv' /\ EntriesInv'
    BY <1>6, <2>a DEF OwnInv, NeedInv, EntriesInv, InitFail
  <2>5. BufInv'
    BY <1>6, <2>a DEF BufInv, InitFail
  <2>6. CallInv'
    BY <1>6, <2>a DEF CallInv, InitFail
  <2> QED BY <2>1, <2>2, <2>3, <2>4, <2>5, <2>6
<1>7. ASSUME HookInit
      PROVE  IInv'
  <2>a. Pending' = Pending \union {"hook"} /\ "hook" \notin Pending
    BY <1>7 DEF CtlType, PlanInv, Pending, SetUp, HookInit
  <2>b. held' = held \/ held' = held \union Hooks \/ held' = held \union {"kretprobe"}
    BY <1>7 DEF HookInit
  <2>c. /\ Hooks \subseteq {"handler", "zap_cb", "kretprobe"}
        /\ "handler" \notin Hooks \/ "kretprobe" \notin Hooks
    BY DEF Hooks
  <2>1. BufType' /\ CallType' /\ PageType' /\ DrainType'
    BY <1>7 DEF BufType, CallType, PageType, DrainType, HookInit
  <2>2. CtlType'
    BY <1>7 DEF CtlType, Acquires, HookInit
  <2>3. HeldType'
    BY <2>b, <2>c DEF HeldType, Resources
  <2>4. OneHook'
    <3>1. "handler" \notin held /\ "kretprobe" \notin held
      BY <2>a DEF OwnInv, Owner, Owned, Resources, Leaks
    <3> QED BY <2>b, <2>c, <3>1 DEF OneHook
  <2>5. FlagType'
    <3>1. symbols' = Has({"kallsyms"} \union HookSymbols) /\ UNCHANGED <<enabled, tracking>>
      BY <1>7 DEF HookInit
    <3> QED BY <3>1 DEF FlagType, Has
  <2>6. PlanInv'
    BY <1>7 DEF PlanInv, HookInit
  <2>7. OwnInv'
    <3>1. \A r \in {"handler", "zap_cb", "kretprobe"} : Owner[r] = "hook"
      BY DEF Owner
    <3> QED BY <2>a, <2>b, <2>c, <3>1 DEF OwnInv
  <2>8. NeedInv' /\ EntriesInv'
    BY <1>7, <2>a, <2>b, <2>c DEF NeedInv, EntriesInv, HookInit
  <2>9. BufInv'
    BY <1>7, <2>a DEF BufInv, HookInit
  <2>10. CallInv'
    BY <1>7, <2>a DEF CallInv, HookInit
  <2> QED BY <2>1, <2>2, <2>3, <2>4, <2>5, <2>6, <2>7, <2>8, <2>9, <2>10
<1>8. ASSUME FilesInit
      PROVE  IInv'
  <2>a. /\ {"zswap", "mmu", "parallel", "compress"} \subseteq Pending
        /\ Pending \subseteq Pending'
        /\ Pending' = Steps
    BY <1>8, StepsAre DEF CtlType, PlanInv, Pending, SetUp, FilesInit
  <2>b. held \subseteq held' /\ held' \subseteq held \union {"files", "debugfs"}
    BY <1>8 DEF FilesInit
  <2>1. BufType' /\ FlagType' /\ CallType' /\ PageType' /\ DrainType'
    BY <1>8 DEF BufType, FlagType, CallType, PageType, DrainType, FilesInit
  <2>2. CtlType'
    BY <1>8 DEF CtlType, FilesInit
  <2>3. HeldType' /\ OneHook'
    BY <2>b DEF HeldType, OneHook, Resources
  <2>4. PlanInv'
    BY <1>8 DEF PlanInv, FilesInit
  <2>5. OwnInv'
    <3>1. Owner["files"] \in Pending' /\ Owner["debugfs"] \in Pending'
      BY <2>a, StepsAre DEF Owner
    <3> QED BY <2>a, <2>b, <3>1 DEF OwnInv
  <2>6. NeedInv' /\ EntriesInv'
    BY <1>8, <2>a, <2>b DEF NeedInv, EntriesInv, FilesInit
  <2>7. BufInv'
    BY <1>8, <2>a DEF BufInv, FilesInit
  <2>8. CallInv'
    BY <1>8, <2>a DEF CallInv, FilesInit
  <2> QED BY <2>1, <2>2, <2>3, <2>4, <2>5, <2>6, <2>7, <2>8
<1> QED BY <1>1, <1>2, <1>3, <1>4, <1>5, <1>6, <1>7, <1>8 DEF Loading

\* ... then those of the drain, ...
LEMMA DrainIInv == IInv /\ Drain => IInv'
<1> SUFFICES ASSUME IInv, Drain PROVE IInv'
  OBVIOUS
<1> USE DEF IInv, flags, passes, threads, fates, world, control, module, Draining, Undoing
<1>1. ASSUME todo # <<>>, Head(todo) = "drain", phase \in {"unwinding", "unloading"},
             todo' = Tail(todo),
             UNCHANGED <<phase, step, loads, held, bufs, flags, world>>, DrainType'
      PROVE  IInv'
  <2>a. Pending' = Pending \ {"drain"}
    BY <1>1, TailFacts DEF CtlType, PlanInv, Pending
  <2>b. \A r \in Owned : Owner[r] # "drain"
    BY DEF Owned, Resources, Leaks, Owner
  <2>c. \A c \in Calls : Home[c] # "drain"
    BY DEF Calls, Relies, Home
  <2>1. HeldType' /\ BufType' /\ OneHook' /\ FlagType' /\ CallType' /\ PageType'
    BY <1>1 DEF HeldType, BufType, OneHook, FlagType, CallType, PageType
  <2>2. CtlType'
    BY <1>1 DEF CtlType
  <2>3. PlanInv'
    BY <1>1, TailFacts, OrderlyTail DEF CtlType, PlanInv
  <2>4. OwnInv'
    BY <1>1, <2>a, <2>b DEF OwnInv
  <2>5. NeedInv' /\ EntriesInv'
    BY <1>1, <2>a DEF NeedInv, EntriesInv
  <2>6. BufInv'
    BY <1>1, <2>a DEF BufInv
  <2>7. CallInv'
    BY <1>1, <2>a, <2>c DEF CallInv, CallType
  <2> QED BY <1>1, <2>1, <2>2, <2>3, <2>4, <2>5, <2>6, <2>7
<1>2. CASE DrainEmpty
  BY <1>1, <1>2 DEF DrainEmpty, DrainType
<1>3. CASE DrainDone
  BY <1>1, <1>3 DEF DrainDone, DrainType
<1>4. CASE DrainBegin
  <2>1. {"mm_users"} \in SUBSET {"request", "notifier", "entries", "mm_users"}
    OBVIOUS
  <2>2. UNCHANGED <<kernel, control, bufs>> /\ held' = held \union {"mm_users"}
    BY <1>4 DEF DrainBegin
  <2>3. /\ CtlType' /\ PlanInv' /\ Pending' = Pending
        /\ HeldType' /\ BufType' /\ OneHook' /\ OwnInv' /\ NeedInv' /\ BufInv'
        /\ EntriesInv'
    BY <2>1, <2>2, HeldFrame
  <2>4. FlagType' /\ CallType' /\ PageType' /\ DrainType'
    BY <1>4 DEF FlagType, CallType, PageType, DrainType, DrainBegin
  <2>5. CallInv'
    BY <1>4, <2>3 DEF CallInv, DrainBegin
  <2> QED BY <2>3, <2>4, <2>5
<1>5. CASE DrainRestore \/ \E p \in Pages : DrainSkip(p) \/ DrainLose(p) \/ DrainRead(p)
  <2>1. UNCHANGED <<kernel, control, bufs, held, flags, threads>>
    BY <1>5 DEF DrainRestore, DrainSkip, DrainLose, DrainRead
  <2>2. /\ CtlType' /\ PlanInv' /\ Pending' = Pending
        /\ HeldType' /\ BufType' /\ OneHook' /\ OwnInv' /\ NeedInv' /\ BufInv'
        /\ EntriesInv'
    BY <2>1, StillFrame
  <2>3. FlagType' /\ CallType' /\ CallInv'
    BY <2>1, <2>2 DEF FlagType, CallType, CallInv
  <2>4. PageType' /\ DrainType'
    BY <1>5 DEF PageType, DrainType, DrainRestore, DrainSkip, DrainLose, DrainRead, Harm
  <2> QED BY <2>2, <2>3, <2>4
<1> QED BY <1>2, <1>3, <1>4, <1>5 DEF Drain

\* ... those of the calls, ...
LEMMA CallIInv ==
  ASSUME NEW t \in Threads PROVE IInv /\ Call(t) => IInv'
<1> SUFFICES ASSUME IInv, Call(t) PROVE IInv'
  OBVIOUS
<1> USE DEF IInv, flags, passes, threads, fates, world, control, module
<1>1. ASSUME NEW c \in Calls, NEW p \in Pages, Enter(t, c, p)
      PROVE  IInv'
  <2>1. UNCHANGED <<kernel, control, bufs, held>> /\ UNCHANGED <<module, page, stored, fates>>
    BY <1>1 DEF Enter
  <2>2. /\ CtlType' /\ PlanInv' /\ Pending' = Pending
        /\ HeldType' /\ BufType' /\ OneHook' /\ OwnInv' /\ NeedInv' /\ BufInv'
        /\ EntriesInv'
    BY <2>1, StillFrame
  <2>3. FlagType' /\ PageType' /\ DrainType'
    BY <2>1 DEF FlagType, PageType, DrainType
  <2>4. CallType'
    BY <1>1 DEF CallType, Enter
  <2>5. CallInv'
    BY <1>1, <2>2, EntryPending DEF CallInv, CallType, Enter
  <2> QED BY <2>2, <2>3, <2>4, <2>5
<1>2. ASSUME Leave(t), UNCHANGED <<held, tracking>>, PageType'
      PROVE  IInv'
  <2>1. /\ UNCHANGED <<kernel, control, bufs>> /\ DrainType' /\ CallType' /\ CallInv'
        /\ FlagType'
    BY <1>2, LeaveFrame DEF FlagType
  <2>2. /\ CtlType' /\ PlanInv' /\ Pending' = Pending
        /\ HeldType' /\ BufType' /\ OneHook' /\ OwnInv' /\ NeedInv' /\ BufInv'
        /\ EntriesInv'
    BY <1>2, <2>1, StillFrame
  <2> QED BY <1>2, <2>1, <2>2
<1>3. call[t] # "none" => at[t] \in Pages
  BY DEF CallType
<1>4. call[t] \in Faults => call[t] # "none"
  BY DEF Faults
<1>5. CASE FaultMiss(t)
  BY <1>2, <1>3, <1>4, <1>5 DEF PageType, FaultMiss, AtStage, Sigbus
<1>6. CASE FaultFail(t)
  BY <1>2, <1>3, <1>4, <1>6 DEF PageType, FaultFail, AtStage, Sigbus, Harm
<1>7. CASE FaultRead(t) \/ FaultRemove(t)
  <2>1. /\ UNCHANGED <<kernel, control, bufs, held>>
        /\ UNCHANGED <<module, call, at, page, fates>>
    BY <1>7 DEF FaultRead, FaultRemove
  <2>2. /\ CtlType' /\ PlanInv' /\ Pending' = Pending
        /\ HeldType' /\ BufType' /\ OneHook' /\ OwnInv' /\ NeedInv' /\ BufInv'
        /\ EntriesInv'
    BY <2>1, StillFrame
  <2>3. FlagType' /\ DrainType' /\ CallInv'
    BY <2>1, <2>2 DEF FlagType, DrainType, CallInv
  <2>4. CallType' /\ PageType'
    BY <1>7, <2>1 DEF CallType, PageType, FaultRead, FaultRemove
  <2> QED BY <2>2, <2>3, <2>4
<1>8. CASE FaultInstall(t)
  BY <1>2, <1>3, <1>4, <1>8 DEF PageType, FaultInstall, AtStage, Harm
<1>9. CASE Drop(t)
  BY <1>2, <1>9 DEF PageType, Drop
<1>10. CASE Shrink(t)
  BY <1>2, <1>3, <1>10 DEF PageType, Shrink, Harm
<1>11. CASE Pack(t)
  <2>1. "mmu" \in Pending /\ call[t] # "none" /\ at[t] \in Pages
    BY <1>3, <1>11, PackerHome DEF Packers, Pack
  <2>2. /\ UNCHANGED <<kernel, control, bufs>> /\ DrainType' /\ CallType' /\ CallInv'
        /\ FlagType'
    BY <1>11, LeaveFrame DEF FlagType, Pack
  <2>3. PICK leaked \in SUBSET {"mm_users"} : held' = held \union {"request"} \union leaked
    BY <1>11 DEF Pack
  <2>4. /\ {"request"} \union leaked \in SUBSET {"request", "notifier", "entries", "mm_users"}
        /\ held' = held \union ({"request"} \union leaked)
        /\ "entries" \notin {"request"} \union leaked
    BY <2>3
  <2>5. /\ CtlType' /\ PlanInv' /\ Pending' = Pending
        /\ HeldType' /\ BufType' /\ OneHook' /\ OwnInv' /\ NeedInv' /\ BufInv'
        /\ EntriesInv'
    BY <2>1, <2>2, <2>4, HeldFrame
  <2>6. PageType'
    BY <1>11, <2>1 DEF PageType, Pack, Harm
  <2> QED BY <2>2, <2>5, <2>6
<1>12. CASE PackNone(t)
  <2>1. PageType'
    BY <1>12 DEF PageType, PackNone
  <2>2. CASE UNCHANGED held
    BY <1>2, <1>12, <2>1, <2>2 DEF PackNone
  <2>3. CASE call[t] = "debugfs" /\ held' = held \union {"entries"}
    <3>1. /\ UNCHANGED <<kernel, control, bufs>> /\ DrainType' /\ CallType' /\ CallInv'
          /\ FlagType'
      BY <1>12, LeaveFrame DEF FlagType, PackNone
    <3>2. phase \in {"loaded", "unloading"}
      BY <2>3, PackerHome, DebugfsPhase DEF Packers, Home
    <3>3. {"entries"} \in SUBSET {"request", "notifier", "entries", "mm_users"}
      OBVIOUS
    <3>4. /\ CtlType' /\ PlanInv' /\ Pending' = Pending
          /\ HeldType' /\ BufType' /\ OneHook' /\ OwnInv' /\ NeedInv' /\ BufInv'
          /\ EntriesInv'
      BY <2>3, <3>1, <3>2, <3>3, HeldFrame
    <3> QED BY <2>1, <3>1, <3>4
  <2> QED BY <1>12, <2>2, <2>3 DEF PackNone
<1> QED BY <1>1, <1>5, <1>6, <1>7, <1>8, <1>9, <1>10, <1>11, <1>12 DEF Call, Fault

\* ... and the others.
LEMMA StepIInv == IInv /\ [Next]_vars => IInv'
<1> SUFFICES ASSUME IInv, [Next]_vars PROVE IInv'
  OBVIOUS
<1> USE DEF IInv, flags, passes, threads, fates, world, control, module
<1>1. ASSUME Unload
      PROVE  IInv'
  <2>a. Pending' = Pending
    BY <1>1, ExitOrderFacts DEF CtlType, PlanInv, Pending, Unload
  <2>1. /\ HeldType' /\ BufType' /\ OneHook' /\ FlagType' /\ CallType' /\ PageType'
        /\ DrainType'
    BY <1>1 DEF HeldType, BufType, OneHook, FlagType, CallType, PageType, DrainType, Unload
  <2>2. CtlType'
    BY <1>1, ExitOrderFacts DEF CtlType, Unload
  <2>3. PlanInv'
    BY <1>1, ExitOrderFacts DEF PlanInv, Unload
  <2>4. OwnInv' /\ NeedInv' /\ EntriesInv'
    BY <1>1, <2>a DEF OwnInv, NeedInv, EntriesInv, Unload
  <2>5. BufInv'
    BY <1>1, <2>a DEF BufInv, Unload
  <2>6. CallInv'
    BY <1>1, <2>a DEF CallInv, Unload
  <2> QED BY <2>1, <2>2, <2>3, <2>4, <2>5, <2>6
<1>2. ASSUME Close
      PROVE  IInv'
  <2>a. CtlType' /\ PlanInv' /\ Pending' = Pending
    BY <1>2, ControlFrame DEF Close
  <2>b. held' = held \ Open /\ Open \subseteq Doors /\ UNCHANGED bufs
    BY <1>2 DEF Close, Open
  <2>1. BufType' /\ CallType' /\ PageType' /\ DrainType'
    BY <1>2 DEF BufType, CallType, PageType, DrainType, Close
  <2>2. HeldType' /\ OneHook' /\ OwnInv'
    BY <2>a, <2>b DEF HeldType, OneHook, OwnInv
  <2>3. FlagType'
    BY <1>2 DEF FlagType, Close
  <2>4. NeedInv'
    BY <2>a, <2>b DEF NeedInv, Doors
  <2>5. BufInv' /\ EntriesInv'
    BY <1>2, <2>a, <2>b DEF BufInv, EntriesInv, Close
  <2>6. CallInv'
    BY <1>2, <2>a DEF CallInv, Close
  <2> QED BY <2>a, <2>1, <2>2, <2>3, <2>4, <2>5, <2>6
<1>3. ASSUME Exit
      PROVE  IInv'
  <2>a. Pending' = Pending \ {Head(todo)} /\ Head(todo) \in Pending
    BY <1>3, TailFacts DEF CtlType, PlanInv, Pending, Exit, Undoing
  <2>b. Head(todo) \in Steps /\ {"pool", "mmu_wq", "dec_wq"} \subseteq Owned
    BY <1>3 DEF CtlType, Owned, Resources, Leaks, Exit, Undoing
  <2>c. held' = (held \ GivesBack(Head(todo))) \union Forgotten(Head(todo))
    BY <1>3 DEF Exit
  <2>d. "mm_users" \notin Owned /\ "mm_users" \in Resources
    BY DEF Owned, Resources, Leaks
  <2>1. FlagType' /\ DrainType' /\ CallType'
    BY <1>3 DEF FlagType, DrainType, CallType, Exit
  <2>2. CtlType'
    BY <1>3 DEF CtlType, Exit, Undoing
  <2>3. HeldType' /\ OneHook'
    BY <2>b, <2>c, <2>d, OwnerFacts DEF HeldType, OneHook
  <2>4. BufType'
    BY <1>3 DEF BufType, Exit, FreeBuffers
  <2>5. PageType'
    BY <1>3 DEF PageType, Exit
  <2>6. PlanInv'
    BY <1>3, TailFacts, OrderlyTail DEF CtlType, PlanInv, Exit, Undoing
  <2>7. OwnInv'
    BY <2>a, <2>b, <2>c, <2>d, OwnerFacts DEF OwnInv
  <2>8. NeedInv'
    <3>1. /\ Owner["pool"] = "zswap" /\ Owner["mmu_wq"] = "mmu"
          /\ Owner["dec_wq"] = "parallel"
      BY DEF Owner
    <3> QED BY <2>a, <2>b, <2>c, <3>1, OwnerFacts DEF NeedInv
  <2>9. BufInv'
    BY <1>3, <2>a DEF BufInv, Exit, Undoing, FreeBuffers
  <2>10. EntriesInv'
    BY <1>3, <2>b, <2>c, OwnerFacts DEF EntriesInv, Exit
  <2>11. CallInv'
    <3>1. /\ ~ InProgress(WaitsFor(Head(todo))) /\ Prompt(Head(todo)) /\ call' = call
      BY <1>3 DEF Exit
    <3> SUFFICES ASSUME NEW t \in Threads, call[t] # "none",
                        ~ ("late" \in Env /\ call[t] \in {"fault", "zap"})
                 PROVE  Home[call[t]] \in Pending'
      BY <3>1 DEF CallInv
    <3>2. call[t] \in Calls
      BY DEF CallType
    <3>3. Home[call[t]] # Head(todo)
      BY <2>b, <3>1, <3>2, OwnerFacts DEF InProgress, Prompt
    <3> QED BY <2>a, <3>3 DEF CallInv
  <2> QED BY <2>1, <2>2, <2>3, <2>4, <2>5, <2>6, <2>7, <2>8, <2>9, <2>10, <2>11
<1>4. ASSUME Gone
      PROVE  IInv'
  <2>a. Pending' = Pending /\ Pending = {}
    BY <1>4, EmptyFacts DEF CtlType, PlanInv, Pending, Gone
  <2>b. /\ held' \subseteq held \union {"orphans"} /\ "entries" \notin held'
        /\ "orphans" \notin Owned /\ "orphans" \in Resources
    BY <1>4 DEF Gone, Owned, Resources, Leaks
  <2>1. BufType' /\ FlagType' /\ CallType' /\ PageType' /\ DrainType'
    BY <1>4 DEF BufType, FlagType, CallType, PageType, DrainType, Gone
  <2>2. HeldType' /\ OneHook' /\ OwnInv' /\ NeedInv' /\ EntriesInv'
    BY <2>a, <2>b DEF HeldType, OneHook, OwnInv, NeedInv, EntriesInv
  <2>3. CtlType'
    BY <1>4 DEF CtlType, Gone
  <2>4. PlanInv'
    BY <1>4 DEF PlanInv, Gone
  <2>5. BufInv'
    BY <1>4, <2>a DEF BufInv, Gone
  <2>6. CallInv'
    BY <1>4, <2>a DEF CallInv, Gone
  <2> QED BY <2>1, <2>2, <2>3, <2>4, <2>5, <2>6
<1>5. ASSUME Register
      PROVE  IInv'
  <2>a. CtlType' /\ PlanInv' /\ Pending' = Pending
    BY <1>5, ControlFrame DEF Register
  <2>b. /\ held \ {"request"} \subseteq held' /\ held' \subseteq held \union {"notifier"}
        /\ "mmu_wq" \in held /\ "mmu_wq" \in Owned
    BY <1>5 DEF Register, Owned, Resources, Leaks
  <2>c. "mmu" \in Pending /\ Owner["notifier"] = "mmu"
    BY <2>b DEF OwnInv, Owner
  <2>1. BufType' /\ FlagType' /\ CallType' /\ PageType' /\ DrainType'
    BY <1>5 DEF BufType, FlagType, CallType, PageType, DrainType, Register
  <2>2. HeldType' /\ OneHook'
    BY <2>b DEF HeldType, Resources, OneHook
  <2>3. OwnInv'
    BY <2>a, <2>b, <2>c DEF OwnInv
  <2>4. NeedInv' /\ EntriesInv'
    BY <1>5, <2>a, <2>b DEF NeedInv, EntriesInv, Register
  <2>5. BufInv'
    BY <1>5, <2>a DEF BufInv, Register
  <2>6. CallInv'
    BY <1>5, <2>a DEF CallInv, Register
  <2> QED BY <2>a, <2>1, <2>2, <2>3, <2>4, <2>5, <2>6
<1>6. ASSUME SetEnabled \/ SetTracking
      PROVE  IInv'
  <2>a. UNCHANGED <<kernel, control, bufs, world, passes>>
    BY <1>6 DEF SetEnabled, SetTracking
  <2>b. held' = held \/ held' = held \ {"entries"}
    BY <1>6 DEF SetEnabled, SetTracking
  <2>c. CtlType' /\ PlanInv' /\ Pending' = Pending
    BY <2>a, ControlFrame
  <2>1. HeldType' /\ BufType' /\ OneHook' /\ CallType' /\ PageType' /\ DrainType'
    BY <2>a, <2>b DEF HeldType, BufType, OneHook, CallType, PageType, DrainType
  <2>2. OwnInv' /\ NeedInv' /\ EntriesInv'
    BY <2>a, <2>b, <2>c DEF OwnInv, NeedInv, EntriesInv
  <2>3. FlagType'
    BY <1>6 DEF FlagType, SetEnabled, SetTracking
  <2>4. BufInv' /\ CallInv'
    BY <2>a, <2>c DEF BufInv, CallInv
  <2> QED BY <2>c, <2>1, <2>2, <2>3, <2>4
<1>7. ASSUME NEW p \in Pages, TouchLost(p)
      PROVE  IInv'
  <2>1. /\ UNCHANGED <<kernel, control, bufs, held>>
        /\ UNCHANGED <<module, threads, page, stored>>
    BY <1>7 DEF TouchLost
  <2>2. /\ CtlType' /\ PlanInv' /\ Pending' = Pending
        /\ HeldType' /\ BufType' /\ OneHook' /\ OwnInv' /\ NeedInv' /\ BufInv'
        /\ EntriesInv'
    BY <2>1, StillFrame
  <2>3. FlagType' /\ DrainType' /\ CallType' /\ CallInv'
    BY <2>1, <2>2 DEF FlagType, DrainType, CallType, CallInv
  <2>4. PageType'
    BY <1>7 DEF PageType, TouchLost, Sigbus
  <2> QED BY <2>2, <2>3, <2>4
<1>8. CASE UNCHANGED vars
  <2>1. /\ UNCHANGED <<kernel, control, bufs, held>>
        /\ UNCHANGED <<module, threads, page, stored, fates>>
    BY <1>8 DEF vars
  <2>2. /\ CtlType' /\ PlanInv' /\ Pending' = Pending
        /\ HeldType' /\ BufType' /\ OneHook' /\ OwnInv' /\ NeedInv' /\ BufInv'
        /\ EntriesInv'
    BY <2>1, StillFrame
  <2>3. FlagType' /\ DrainType' /\ CallType' /\ PageType' /\ CallInv'
    BY <2>1, <2>2 DEF FlagType, DrainType, CallType, PageType, CallInv
  <2> QED BY <2>2, <2>3
<1>9. CASE Loading \/ Drain \/ \E t \in Threads : Call(t)
  BY <1>9, LoadingIInv, DrainIInv, CallIInv
<1> QED BY <1>1, <1>2, <1>3, <1>4, <1>5, <1>6, <1>7, <1>8, <1>9 DEF Next, Unloading

-----------------------------------------------------------------------------
(* No data is lost.                                                        *)

\* The files of sysfs and debugfs are there when all is set up.
LEMMA FilesMeanPacking ==
  ASSUME CtlType, PlanInv, "group" \in Pending \/ "debugfs" \in Pending
  PROVE  Packing
<1>1. CASE phase = "loading"
  BY <1>1 DEF CtlType, PlanInv, Pending, SetUp, Packing, Acquires
<1>2. CASE phase = "absent"
  BY <1>2, EmptyFacts DEF PlanInv, Pending
<1>3. CASE phase = "unwinding"
  BY <1>3 DEF PlanInv, Pending
<1> QED BY <1>1, <1>2, <1>3 DEF CtlType, Packing

\* The hook is in place, the pool is, and the drain is yet to come as long as
\* there may be markers.
LEMMA HoldsOn ==
  ASSUME CtlType, PlanInv, MayHold, Undoing
  PROVE  /\ phase = "unloading" /\ "drain" \in Within(todo)
         /\ Head(todo) # "hook" /\ Head(todo) # "zswap"
<1>1. phase = "unloading" /\ "drain" \in Within(todo)
  BY DEF MayHold, Packing, Undoing
<1>2. /\ todo \in Seq(Steps) /\ todo # <<>> /\ NoneTwice(todo)
      /\ Before(todo, "drain", "hook") /\ Before(todo, "hook", "zswap")
  BY <1>1 DEF CtlType, PlanInv, Undoing, Orderly, DrainOrderly
<1>3. "hook" \in Within(todo) /\ "hook" # Head(todo)
  BY <1>1, <1>2, BeforeFacts
<1>4. "zswap" # Head(todo)
  BY <1>2, <1>3, BeforeFacts
<1> QED BY <1>1, <1>3, <1>4

\* Those who compress are gone before the drain starts.
LEMMA PackersHold ==
  ASSUME IInv, SweepInv, DrainInv, NEW t \in Threads, call[t] \in Packers
  PROVE  MayHold /\ drained = {}
<1>1. Home[call[t]] \in Pending /\ Home[call[t]] \in {"scanner", "group", "debugfs"}
  BY PackerHome DEF Packers, Home
<1>2. Packing
  <2>1. CASE call[t] = "sweep"
    BY <2>1 DEF SweepInv
  <2>2. CASE call[t] # "sweep"
    BY <1>1, <2>2, FilesMeanPacking DEF IInv, Packers, Home
  <2> QED BY <2>1, <2>2
<1>3. CASE phase = "unloading"
  <2>1. todo \in Seq(Steps) /\ NoneTwice(todo) /\ Before(todo, Home[call[t]], "drain")
    BY <1>1, <1>3 DEF IInv, CtlType, PlanInv, DrainOrderly
  <2>2. Home[call[t]] \in Within(todo)
    BY <1>1, <1>3 DEF Pending
  <2>3. todo # <<>>
    BY <2>2, EmptyFacts
  <2>4. "drain" \in Within(todo) /\ Head(todo) # "drain"
    BY <2>1, <2>2, <2>3, BeforeFacts
  <2> QED BY <1>2, <2>4 DEF MayHold, DrainInv
<1>4. CASE phase # "unloading"
  BY <1>2, <1>4 DEF MayHold, DrainInv
<1> QED BY <1>3, <1>4

\* Nobody sweeps an absent module.
LEMMA NoSweep ==
  ASSUME IInv, Pending = {}, NEW t \in Threads
  PROVE  call[t] # "sweep"
<1>1. call[t] = "sweep" => call[t] \in Packers
  BY DEF Packers
<1> QED BY <1>1, PackerHome

\* As long as the control, what is held, the switch and the calls stay, what is
\* said of sweeping and hooking does.
LEMMA StandStill ==
  ASSUME DInv, UNCHANGED <<control, enabled>>,
         held' \cap {"handler", "kretprobe"} = held \cap {"handler", "kretprobe"},
         \A t \in Threads : call'[t] = "sweep" => call[t] = "sweep"
  PROVE  SweepInv' /\ (Safe' <=> Safe)
BY DEF DInv, SweepInv, Safe, MayHold, Packing, Intercepts, control

\* And when the pages and the drain stay too, and the faults, all does.
LEMMA PagesStill ==
  ASSUME DrainType, DInv, UNCHANGED <<control, page, stored, passes>>, Safe' <=> Safe,
         harmed \subseteq harmed',
         \A p \in Pages : Carried(p) => Carried(p)'
  PROVE  MarkerInv' /\ DrainInv'
BY DEF DrainType, DInv, MarkerInv, DrainInv, control, passes

\* No page is a marker before the module is loaded.
LEMMA InitDInv == Init => DInv
BY DEF Init, DInv, SweepInv, MarkerInv, DrainInv, Packing

\* While loading nobody compresses before the files are there.
LEMMA LoadingDInv == IInv /\ DInv /\ Loading => DInv'
<1> SUFFICES ASSUME IInv, DInv, Loading PROVE DInv'
  OBVIOUS
<1> USE DEF IInv, DInv, flags, passes, threads, fates, world, control, module, Carried, Carries
<1>1. ASSUME UNCHANGED <<call, at, stage, page, stored, drain, drained, harmed, enabled>>,
             ~ Packing, drain = "idle", phase' # "absent" => phase # "absent" \/ ~ enabled
      PROVE  DInv'
  <2>1. SweepInv'
    BY <1>1 DEF SweepInv
  <2>2. MarkerInv'
    BY <1>1 DEF MarkerInv, Safe, MayHold
  <2>3. DrainInv'
    BY <1>1 DEF DrainInv
  <2> QED BY <2>1, <2>2, <2>3
<1>2. phase # "unloading" => drain = "idle"
  BY DEF DrainInv
<1>3. CASE Load
  <2>1. SweepInv' /\ DrainInv'
    BY <1>3 DEF SweepInv, Packing, DrainInv, Load
  <2>2. MarkerInv'
    BY <1>3 DEF MarkerInv, Safe, MayHold, Packing, Load
  <2> QED BY <2>1, <2>2
<1>4. CASE AllocBuffer \/ AllocFail \/ BuffersDone
  BY <1>1, <1>2, <1>4 DEF Packing, AllocBuffer, AllocFail, BuffersDone
<1>5. ASSUME NEW s \in DOMAIN Acquires, InitOk(s) \/ InitFail(s)
      PROVE  DInv'
  <2>1. s # "files"
    BY DEF Acquires
  <2> QED BY <1>1, <1>2, <1>5, <2>1 DEF Packing, InitOk, InitFail
<1>6. CASE HookInit
  BY <1>1, <1>2, <1>6 DEF Packing, HookInit
<1>7. CASE FilesInit
  <2>1. SweepInv' /\ DrainInv'
    BY <1>7 DEF SweepInv, Packing, DrainInv, FilesInit
  <2>2. MarkerInv'
    BY <1>7 DEF MarkerInv, Safe, MayHold, Packing, Intercepts, FilesInit
  <2> QED BY <2>1, <2>2
<1> QED BY <1>3, <1>4, <1>5, <1>6, <1>7 DEF Loading

\* Unloading drains before it removes the hook.
LEMMA UnloadingDInv == IInv /\ DInv /\ (Unload \/ Unloading) => DInv'
<1> SUFFICES ASSUME IInv, DInv, Unload \/ Unloading PROVE DInv'
  OBVIOUS
<1> USE DEF IInv, DInv, flags, passes, threads, fates, world, control, module, Carried, Carries
<1>1. ASSUME Unload
      PROVE  DInv'
  <2>1. SweepInv' /\ DrainInv'
    BY <1>1 DEF SweepInv, Packing, DrainInv, Unload
  <2>2. MarkerInv'
    BY <1>1, ExitOrderFacts, StepsAre
      DEF MarkerInv, Safe, MayHold, Packing, Intercepts, Unload
  <2> QED BY <2>1, <2>2
<1>2. ASSUME Close
      PROVE  DInv'
  <2>1. Safe => Safe'
    BY <1>2, HoldsOn DEF Safe, MayHold, Packing, Intercepts, Open, GivesBack, Close
  <2>2. MarkerInv' /\ DrainInv'
    BY <1>2, <2>1 DEF MarkerInv, DrainInv, Close
  <2>3. SweepInv'
    BY <1>2 DEF SweepInv, Packing, Close, Undoing
  <2> QED BY <2>2, <2>3
<1>3. ASSUME Exit
      PROVE  DInv'
  <2>1. SweepInv'
    BY <1>3 DEF SweepInv, Packing, Exit, Undoing
  <2>2. MayHold => MayHold'
    BY <1>3, TailFacts, HoldsOn DEF MayHold, Packing, CtlType, PlanInv, Exit, Undoing
  <2>3. MayHold => Head(todo) # "hook" /\ Head(todo) # "zswap"
    BY <1>3, HoldsOn DEF Exit
  <2>4. Safe => Safe'
    BY <1>3, <2>2, <2>3 DEF Safe, Intercepts, GivesBack, Forgotten, CtlType, Exit, Undoing
  <2>5. MarkerInv'
    BY <1>3, <2>3, <2>4 DEF MarkerInv, Safe, Exit
  <2>6. DrainInv'
    BY <1>3 DEF DrainInv, Exit
  <2> QED BY <2>1, <2>5, <2>6
<1>4. ASSUME Gone
      PROVE  DInv'
  <2>1. SweepInv'
    <3>1. Pending = {}
      BY <1>4, EmptyFacts DEF Pending, Gone
    <3> QED BY <1>4, <3>1, NoSweep DEF SweepInv, Gone
  <2>2. MarkerInv'
    BY <1>4, EmptyFacts DEF MarkerInv, Safe, MayHold, Packing, Gone
  <2>3. DrainInv'
    BY <1>4 DEF DrainInv, Gone
  <2> QED BY <2>1, <2>2, <2>3
<1>5. ASSUME todo # <<>>, Head(todo) = "drain", phase \in {"unwinding", "unloading"},
             todo' = Tail(todo), drain' = "idle", drained' = {},
             UNCHANGED <<phase, step, loads, held, bufs, flags, world>>,
             \A p \in Pages \ harmed : page[p] = "marker" => Carried(p)
      PROVE  DInv'
  <2>1. phase = "unloading"
    BY <1>5, TailFacts DEF CtlType, PlanInv
  <2>2. SweepInv'
    BY <1>5, <2>1 DEF SweepInv, Packing
  <2>3. MarkerInv' /\ DrainInv'
    BY <1>5 DEF MarkerInv, DrainInv
  <2> QED BY <2>2, <2>3
<1>6. CASE DrainEmpty
  <2>1. \A p \in Pages \ harmed : page[p] = "marker" => Carried(p)
    BY <1>6 DEF MarkerInv, DrainEmpty
  <2>2. drain' = "idle" /\ drained' = {}
    BY <1>6 DEF DrainInv, DrainEmpty
  <2> QED BY <1>5, <1>6, <2>1, <2>2 DEF DrainEmpty, Draining, Undoing
<1>7. CASE DrainDone
  <2>1. \A p \in Pages \ harmed : page[p] = "marker" => Carried(p)
    BY <1>7, PagesAssumption DEF DrainInv, DrainDone
  <2> QED BY <1>5, <1>7, <2>1 DEF DrainDone, Draining, Undoing
<1>8. CASE DrainBegin
  <2>1. phase = "unloading"
    BY <1>8, TailFacts DEF CtlType, PlanInv, DrainBegin, Draining, Undoing
  <2>2. SweepInv' /\ (Safe' <=> Safe)
    BY <1>8, StandStill DEF DrainBegin
  <2>3. MarkerInv' /\ DrainInv'
    BY <1>8, <2>1, <2>2 DEF MarkerInv, DrainInv, DrainBegin, Draining, Undoing
  <2> QED BY <2>2, <2>3
<1>9. CASE DrainRestore \/ \E p \in Pages : DrainSkip(p) \/ DrainLose(p) \/ DrainRead(p)
  <2>1. UNCHANGED <<kernel, control, enabled, held, call, at, stage>>
    BY <1>9 DEF DrainRestore, DrainSkip, DrainLose, DrainRead
  <2>2. SweepInv' /\ (Safe' <=> Safe)
    BY <2>1, StandStill
  <2>3. CASE DrainRestore
    <3>1. /\ drain' = "walk" /\ drained' = drained
          /\ \A p \in Pages \ harmed' : page'[p] = "marker" => page[p] = "marker" /\ p # drain
          /\ \A p \in stored : p # drain => p \in stored'
          /\ harmed \subseteq harmed'
      BY <2>3 DEF PageType, DrainRestore, Harm
    <3>2. MarkerInv'
      BY <2>1, <2>2, <3>1 DEF MarkerInv
    <3>3. DrainInv'
      BY <2>1, <2>3, <3>1, PagesAssumption DEF DrainInv, DrainType, DrainRestore
    <3> QED BY <2>2, <3>2, <3>3
  <2>4. ASSUME NEW p \in Pages, DrainSkip(p) \/ DrainLose(p)
        PROVE  DInv'
    <3>1. /\ drain = "walk" /\ drain' = drain /\ drained' = drained \union {p}
          /\ page' = page /\ harmed \subseteq harmed'
          /\ \A q \in stored : q # p => q \in stored'
      BY <2>4 DEF DrainSkip, DrainLose, Harm
    <3>2. p \notin harmed' => stored' = stored
      BY <2>4 DEF DrainSkip, DrainLose, Harm
    <3>3. p \notin harmed' /\ page[p] = "marker" => Carried(p)
      BY <2>4 DEF MarkerInv, DrainSkip, DrainLose, Harm
    <3>4. MarkerInv'
      BY <2>1, <2>2, <3>1, <3>2 DEF MarkerInv
    <3>5. DrainInv'
      BY <2>1, <3>1, <3>3 DEF DrainInv
    <3> QED BY <2>2, <3>4, <3>5
  <2>5. ASSUME NEW p \in Pages, DrainRead(p)
        PROVE  DInv'
    <3>1. MarkerInv'
      BY <2>1, <2>2, <2>5 DEF MarkerInv, DrainRead
    <3>2. DrainInv'
      BY <2>1, <2>5, PagesAssumption DEF DrainInv, DrainType, DrainRead, Draining, Undoing
    <3> QED BY <2>2, <3>1, <3>2
  <2> QED BY <1>9, <2>3, <2>4, <2>5
<1> QED BY <1>1, <1>2, <1>3, <1>4, <1>6, <1>7, <1>8, <1>9 DEF Unloading, Drain

\* A call keeps a marker backed, or carries its page.
LEMMA CallDInv ==
  ASSUME NEW t \in Threads PROVE IInv /\ DInv /\ Call(t) => DInv'
<1> SUFFICES ASSUME IInv, DInv, Call(t) PROVE DInv'
  OBVIOUS
<1> USE DEF IInv, DInv, flags, passes, threads, fates, world, control, module
<1>1. ASSUME NEW c \in Calls, NEW p \in Pages, Enter(t, c, p)
      PROVE  DInv'
  <2>1. UNCHANGED <<kernel, control, enabled, held, page, stored, drain, drained, harmed>>
    BY <1>1 DEF Enter
  <2>2. (Safe' <=> Safe) /\ (Packing' <=> Packing)
    BY <2>1 DEF Safe, MayHold, Packing, Intercepts
  <2>3. SweepInv'
    <3>1. CASE c = "sweep"
      <4>1. enabled /\ "scanner" \in Pending
        <5>1. "thread" \in Owned /\ Owner["thread"] = "scanner"
          BY DEF Owned, Resources, Leaks, Owner
        <5> QED BY <1>1, <3>1, <5>1 DEF OwnInv, Enter, Entry
      <4>2. phase # "absent"
        BY <4>1, EmptyFacts DEF PlanInv, Pending
      <4>3. Packing
        BY <4>1, <4>2 DEF SweepInv
      <4> QED BY <2>2, <4>3 DEF SweepInv
    <3>2. CASE c # "sweep"
      BY <1>1, <2>1, <2>2, <3>2 DEF SweepInv, CallType, Enter
    <3> QED BY <3>1, <3>2
  <2>4. \A q \in Pages : Carried(q) => Carried(q)'
    BY <1>1 DEF Carried, Carries, CallType, Faults, Enter
  <2>5. MarkerInv' /\ DrainInv'
    BY <2>1, <2>2, <2>4, PagesStill
  <2> QED BY <2>3, <2>5
<1>2. ASSUME Leave(t), held' \cap {"handler", "kretprobe"} = held \cap {"handler", "kretprobe"}
      PROVE  SweepInv' /\ (Safe' <=> Safe)
  <2>1. UNCHANGED <<control, enabled>>
    BY <1>2 DEF Leave
  <2>2. \A u \in Threads : call'[u] = "sweep" => call[u] = "sweep"
    BY <1>2 DEF Leave, CallType
  <2> QED BY <1>2, <2>1, <2>2, StandStill
<1>3. ASSUME Leave(t)
      PROVE  \A q \in Pages : Carried(q) /\ ~ Carries(t, q) => Carried(q)'
  BY <1>3 DEF Carried, Carries, CallType, Leave
<1>4. ASSUME Leave(t), UNCHANGED <<held, page, stored>>, harmed \subseteq harmed',
             \A q \in Pages : ~ Carries(t, q)
      PROVE  DInv'
  <2>1. SweepInv' /\ (Safe' <=> Safe)
    BY <1>2, <1>4
  <2>2. UNCHANGED <<control, page, stored, passes>>
    BY <1>4 DEF Leave
  <2>3. MarkerInv' /\ DrainInv'
    BY <1>3, <1>4, <2>1, <2>2, PagesStill
  <2> QED BY <2>1, <2>3
<1>5. CASE FaultMiss(t) \/ FaultFail(t)
  BY <1>4, <1>5 DEF FaultMiss, FaultFail, AtStage, Carries, Harm
<1>6. CASE FaultRead(t)
  <2>1. UNCHANGED <<control, enabled, held, call, at, page, stored, drain, drained, harmed>>
    BY <1>6 DEF FaultRead
  <2>2. SweepInv' /\ (Safe' <=> Safe)
    BY <2>1, StandStill
  <2>3. \A q \in Pages : Carried(q) => Carried(q)'
    BY <1>6 DEF Carried, Carries, CallType, FaultRead, AtStage
  <2>4. MarkerInv' /\ DrainInv'
    BY <2>1, <2>2, <2>3, PagesStill
  <2> QED BY <2>2, <2>4
<1>7. CASE FaultRemove(t)
  <2>1. UNCHANGED <<control, enabled, held, call, at, page, drain, drained, harmed>>
    BY <1>7 DEF FaultRemove
  <2>2. SweepInv' /\ (Safe' <=> Safe)
    BY <2>1, StandStill
  <2>3. \A q \in Pages : Carried(q) => Carried(q)'
    BY <1>7 DEF Carried, Carries, CallType, FaultRemove, AtStage
  <2>4. Carried(at[t])'
    BY <1>7 DEF Carried, Carries, CallType, FaultRemove, AtStage
  <2>5. \A q \in Pages : q # at[t] /\ q \in stored => q \in stored'
    BY <1>7 DEF FaultRemove
  <2>6. MarkerInv'
    BY <2>1, <2>2, <2>3, <2>4, <2>5 DEF MarkerInv
  <2>7. DrainInv'
    BY <2>1, <2>3 DEF DrainInv, DrainType
  <2> QED BY <2>2, <2>6, <2>7
<1>8. ASSUME Leave(t), UNCHANGED held, harmed \subseteq harmed',
             \A q \in Pages \ harmed' : page'[q] = "marker" => page[q] = "marker" /\ q # at[t],
             stored \ {at[t]} \subseteq stored'
      PROVE  DInv'
  <2>1. SweepInv' /\ (Safe' <=> Safe)
    BY <1>2, <1>8
  <2>2. \A q \in Pages : q # at[t] => ~ Carries(t, q)
    BY DEF Carries
  <2>3. MarkerInv'
    BY <1>3, <1>8, <2>1, <2>2 DEF MarkerInv
  <2>4. UNCHANGED <<control, drain, drained>>
    BY <1>8 DEF Leave
  <2>5. DrainInv'
    BY <1>3, <1>8, <2>2, <2>4 DEF DrainInv, DrainType
  <2> QED BY <2>1, <2>3, <2>5
<1>9. CASE FaultInstall(t)
  BY <1>8, <1>9 DEF PageType, FaultInstall, Harm
<1>10. CASE Drop(t)
  BY <1>8, <1>10 DEF PageType, Drop
<1>11. CASE Shrink(t)
  <2>1. \A q \in Pages : ~ Carries(t, q)
    BY <1>11 DEF Shrink, Carries, Faults
  <2>2. CASE UNCHANGED <<stored, harmed>>
    BY <1>4, <1>11, <2>1, <2>2 DEF Shrink
  <2>3. CASE stored' = stored \ {at[t]} /\ Harm(at[t])
    <3>1. SweepInv' /\ (Safe' <=> Safe)
      BY <1>2, <1>11 DEF Shrink
    <3>2. UNCHANGED <<control, page, drain, drained>>
      BY <1>11 DEF Shrink, Leave
    <3>3. \A q \in Pages : Carried(q) => Carried(q)'
      BY <1>3, <1>11, <2>1 DEF Shrink
    <3>4. MarkerInv'
      BY <2>3, <3>1, <3>2, <3>3 DEF MarkerInv, Harm
    <3>5. DrainInv'
      BY <2>3, <3>2, <3>3 DEF DrainInv, DrainType, Harm
    <3> QED BY <3>1, <3>4, <3>5
  <2> QED BY <1>11, <2>2, <2>3 DEF Shrink
<1>12. ASSUME Leave(t), call[t] \in Packers
       PROVE  /\ \A q \in Pages : Carried(q) => Carried(q)'
              /\ \A q \in Pages : ~ Carries(t, q)
  <2>1. \A q \in Pages : ~ Carries(t, q)
    BY <1>12 DEF Carries, Faults, Packers
  <2> QED BY <1>3, <1>12, <2>1
<1>13. CASE Pack(t)
  <2>1. SweepInv' /\ (Safe' <=> Safe)
    BY <1>2, <1>13 DEF Pack
  <2>2. MayHold /\ drained = {}
    BY <1>13, PackersHold DEF Pack
  <2>3. harmed \subseteq harmed' /\ (at[t] \in harmed' \/ Safe)
    BY <1>13, <2>2 DEF Safe, Pack, Harm
  <2>4. MarkerInv'
    BY <1>12, <1>13, <2>1, <2>3 DEF MarkerInv, PageType, Pack
  <2>5. UNCHANGED <<control, drain, drained>>
    BY <1>13 DEF Pack, Leave
  <2>6. DrainInv'
    BY <2>2, <2>5 DEF DrainInv
  <2> QED BY <2>1, <2>4, <2>6
<1>14. CASE PackNone(t)
  <2>1. SweepInv' /\ (Safe' <=> Safe)
    BY <1>2, <1>14 DEF PackNone
  <2>2. UNCHANGED <<control, page, stored, passes, harmed>>
    BY <1>14 DEF PackNone, Leave
  <2>3. MarkerInv' /\ DrainInv'
    BY <1>12, <1>14, <2>1, <2>2, PagesStill DEF PackNone
  <2> QED BY <2>1, <2>3
<1> QED BY <1>1, <1>5, <1>6, <1>7, <1>9, <1>10, <1>11, <1>13, <1>14 DEF Call, Fault

\* Every action keeps markers backed and intercepted, or carried.
LEMMA StepDInv == IInv /\ DInv /\ [Next]_vars => DInv'
<1> SUFFICES ASSUME IInv, DInv, [Next]_vars PROVE DInv'
  OBVIOUS
<1> USE DEF IInv, DInv, flags, passes, threads, fates, world, control, module
<1>1. ASSUME UNCHANGED <<control, enabled, call, at, stage, page, stored, drain, drained, harmed>>,
             held' \cap {"handler", "kretprobe"} = held \cap {"handler", "kretprobe"}
      PROVE  DInv'
  <2>1. SweepInv' /\ (Safe' <=> Safe)
    BY <1>1, StandStill
  <2>2. \A q \in Pages : Carried(q) => Carried(q)'
    BY <1>1 DEF Carried, Carries
  <2>3. MarkerInv' /\ DrainInv'
    BY <1>1, <2>1, <2>2, PagesStill
  <2> QED BY <2>1, <2>3
<1>2. CASE Register
  BY <1>1, <1>2 DEF Register
<1>3. CASE SetTracking
  BY <1>1, <1>3 DEF SetTracking
<1>4. ASSUME NEW p \in Pages, TouchLost(p)
      PROVE  DInv'
  BY <1>1, <1>4 DEF TouchLost
<1>5. CASE UNCHANGED vars
  BY <1>1, <1>5 DEF vars
<1>6. CASE SetEnabled
  <2>1. "group" \in Owned /\ Owner["group"] = "group"
    BY DEF Owned, Resources, Leaks, Owner
  <2>2. "group" \in Pending
    BY <1>6, <2>1 DEF OwnInv, SetEnabled
  <2>3. Packing
    BY <2>2, FilesMeanPacking
  <2>4. UNCHANGED <<control, held, call, at, stage, page, stored, drain, drained, harmed>>
    BY <1>6 DEF SetEnabled
  <2>5. SweepInv' /\ (Safe' <=> Safe)
    BY <2>3, <2>4 DEF SweepInv, Safe, MayHold, Packing, Intercepts
  <2>6. \A q \in Pages : Carried(q) => Carried(q)'
    BY <2>4 DEF Carried, Carries
  <2>7. MarkerInv' /\ DrainInv'
    BY <2>4, <2>5, <2>6, PagesStill
  <2> QED BY <2>5, <2>7
<1>7. CASE Loading \/ Unload \/ Unloading \/ \E t \in Threads : Call(t)
  BY <1>7, LoadingDInv, UnloadingDInv, CallDInv
<1> QED BY <1>2, <1>3, <1>4, <1>5, <1>6, <1>7 DEF Next

-----------------------------------------------------------------------------
(* The theorems.                                                           *)

\* A call whose exit function is pending finds what it relies on.
LEMMA PendingServes ==
  ASSUME IInv, NEW c \in Calls, Home[c] \in Pending
  PROVE  Relies[c] \subseteq held /\ (c \in Packers => bufs = Buffers)
<1>1. "pool" \in held /\ bufs = Buffers
  BY PendingCloses DEF IInv, NeedInv, BufInv, Calls, Relies, Home
<1>2. c \in Packers => "mmu_wq" \in held
  BY PendingCloses DEF IInv, NeedInv, Home, Packers
<1>3. c = "debugfs" => "dec_wq" \in held
  BY PendingCloses DEF IInv, NeedInv, Home
<1> QED BY <1>1, <1>2, <1>3 DEF Calls, Relies, Packers

\* Every variable keeps its type, and the patched kernel's handler and the
\* kretprobe are never both in place.
THEOREM TypeCorrect == Spec => []TypeOK
<1>1. IInv => TypeOK
  <2> SUFFICES ASSUME IInv PROVE TypeOK
    OBVIOUS
  <2> USE DEF IInv
  <2>1. todo \in Seq({ExitOrder[i] : i \in DOMAIN ExitOrder})
    BY DEF CtlType, Steps
  <2>2. symbols \in BOOLEAN /\ enabled \in BOOLEAN /\ tracking \in BOOLEAN
    BY DEF FlagType
  <2>3. /\ call \in [Threads -> Calls \union {"none"}]
        /\ at \in [Threads -> Pages \union {"none"}]
        /\ stage \in [Threads -> {"in", "copied", "removed"}]
    BY DEF CallType
  <2>4. /\ page \in [Pages -> {"present", "marker"}]
        /\ stored \subseteq Pages /\ killed \subseteq Pages /\ harmed \subseteq Pages
        /\ drained \subseteq Pages /\ drain \in {"idle", "walk"} \union Pages
    BY DEF PageType, DrainType
  <2> QED BY <2>1, <2>2, <2>3, <2>4 DEF TypeOK, CtlType, HeldType, BufType, OneHook
<1> QED BY <1>1, InitIInv, StepIInv, PTL DEF Spec

\* However far minimem_init gets before it fails, and whatever fails, and when
\* minimem_exit is through, nothing the module has registered or allocated is
\* left but references to address spaces and entries of the statistics.
THEOREM OnlyLeaksAreLeft == Spec => []OnlyLeaksRemain
<1>1. IInv => OnlyLeaksRemain
  <2> SUFFICES ASSUME IInv, phase = "absent" PROVE bufs = {} /\ held \subseteq Leaks
    BY DEF OnlyLeaksRemain
  <2>1. Pending = {}
    BY EmptyFacts DEF IInv, PlanInv, Pending
  <2>2. held \cap Owned = {} /\ "entries" \notin held /\ held \subseteq Resources
    BY <2>1 DEF IInv, OwnInv, EntriesInv, HeldType
  <2>3. held \subseteq Leaks
    BY <2>2 DEF Owned
  <2> QED BY <2>1, <2>3 DEF IInv, BufInv
<1> QED BY <1>1, InitIInv, StepIInv, PTL DEF Spec

\* If the handlers and zap callbacks of a patched kernel are through before the
\* wait that follows their unregistering is, no call runs on what is torn down
\* or not yet there.
THEOREM CallsFindTheirs ==
  ASSUME "late" \notin Env PROVE Spec => []NoUseAfterTeardown
<1>1. IInv => NoUseAfterTeardown
  <2> SUFFICES ASSUME IInv, NEW t \in Threads, call[t] # "none"
               PROVE  /\ Relies[call[t]] \subseteq held
                      /\ call[t] \in Packers => bufs = Buffers
    BY DEF NoUseAfterTeardown
  <2>1. call[t] \in Calls /\ Home[call[t]] \in Pending
    BY DEF IInv, CallType, CallInv
  <2> QED BY <2>1, PendingServes
<1> QED BY <1>1, InitIInv, StepIInv, PTL DEF Spec

\* And if they are not, they are the only calls it can happen to.
THEOREM OthersFindTheirs ==
  Spec => [](\A t \in Threads : call[t] \notin {"none", "fault", "zap"} =>
               Relies[call[t]] \subseteq held /\ (call[t] \in Packers => bufs = Buffers))
<1> DEFINE Served ==
      \A t \in Threads : call[t] \notin {"none", "fault", "zap"} =>
        Relies[call[t]] \subseteq held /\ (call[t] \in Packers => bufs = Buffers)
<1>1. IInv => Served
  <2> SUFFICES ASSUME IInv, NEW t \in Threads, call[t] \notin {"none", "fault", "zap"}
               PROVE  /\ Relies[call[t]] \subseteq held
                      /\ call[t] \in Packers => bufs = Buffers
    OBVIOUS
  <2>1. call[t] \in Calls /\ Home[call[t]] \in Pending
    BY DEF IInv, CallType, CallInv
  <2> QED BY <2>1, PendingServes
<1> QED BY <1>1, InitIInv, StepIInv, PTL DEF Spec

\* No application loses a page to loading, a failed load or unloading, however
\* its faults and zaps race the drain and one another, unless one of the things
\* that Env names went wrong at this page.
THEOREM NoPageIsLost == Spec => []NoDataLost
<1>1. DInv => NoDataLost
  BY DEF DInv, MarkerInv, Safe, NoDataLost
<1> QED BY <1>1, InitIInv, StepIInv, InitDInv, StepDInv, PTL DEF Spec

\* And whoever gets a SIGBUS where nothing went wrong faulted on a page that was
\* there again by then, or that another fault was about to install.
THEOREM SigbusIsLate == Spec => SigbusOnlyToLosers
<1> DEFINE Late == \A p \in killed' \ killed :
                     p \in harmed' \/ page[p] = "present" \/ Carried(p)
<1>1. IInv /\ DInv /\ [Next]_vars => [Late]_vars
  <2> SUFFICES ASSUME IInv, DInv, Next, NEW p \in killed' \ killed, p \notin harmed'
               PROVE  page[p] = "present" \/ Carried(p)
    OBVIOUS
  <2> USE DEF IInv, DInv, flags, passes, threads, fates, world, control, module
  <2>1. CASE Loading
    BY <2>1 DEF Loading, Load, AllocBuffer, AllocFail, BuffersDone, InitOk, InitFail,
      HookInit, FilesInit
  <2>2. CASE Unload \/ Close \/ Exit \/ Gone
    BY <2>2 DEF Unload, Close, Exit, Gone
  <2>3. CASE Drain
    BY <2>3 DEF Drain, DrainEmpty, DrainBegin, DrainRestore, DrainDone, DrainSkip,
      DrainLose, DrainRead
  <2>4. CASE Register \/ SetEnabled \/ SetTracking
    BY <2>4 DEF Register, SetEnabled, SetTracking
  <2>5. ASSUME NEW q \in Pages, TouchLost(q)
        PROVE  page[p] = "present" \/ Carried(p)
    <3>1. p = q /\ page[p] = "marker" /\ ~ Intercepts /\ p \notin harmed
      BY <2>5 DEF TouchLost, Sigbus
    <3> QED BY <3>1 DEF MarkerInv, Safe
  <2>6. ASSUME NEW t \in Threads, Call(t)
        PROVE  page[p] = "present" \/ Carried(p)
    <3>1. FaultMiss(t) \/ FaultFail(t)
      BY <2>6 DEF Call, Fault, Enter, FaultRead, FaultRemove, FaultInstall, Drop, Pack,
        PackNone, Shrink
    <3>2. FaultMiss(t)
      BY <3>1 DEF FaultFail, Sigbus, Harm
    <3>3. p = at[t] /\ p \notin stored /\ p \in Pages /\ p \notin harmed
      BY <3>2 DEF FaultMiss, AtStage, Sigbus, Faults, CallType
    <3> QED BY <3>3 DEF MarkerInv, PageType
  <2> QED BY <2>1, <2>2, <2>3, <2>4, <2>5, <2>6 DEF Next, Unloading
<1>2. Spec => [](IInv /\ DInv)
  BY InitIInv, StepIInv, InitDInv, StepDInv, PTL DEF Spec
<1> QED BY <1>1, <1>2, PTL DEF Spec, SigbusOnlyToLosers

\* If the hook can be placed, the drain finds every mmap lock free, no page
\* fails to be allocated, read or installed and reclaim takes no stored page,
\* nothing goes wrong anywhere: a marker is intercepted from when it is
\* installed, as the hook comes before the files and goes after the drain.
THEOREM NobodyIsHarmed ==
  ASSUME Env \subseteq {"late"} PROVE Spec => [](harmed = {})
<1> DEFINE HInv == CheckInv /\ HookInv /\ harmed = {}
<1>1. Init => HInv
  BY DEF Init, CheckInv, HookInv, MayHold, Packing
<1>2. IInv /\ DInv /\ HInv /\ [Next]_vars => HInv'
  <2> SUFFICES ASSUME IInv, DInv, HInv, [Next]_vars PROVE HInv'
    OBVIOUS
  <2> USE DEF IInv, DInv, flags, passes, threads, fates, world, control, module
  <2>1. ASSUME UNCHANGED <<kernel, control, harmed>>,
               held' \cap {"handler", "kretprobe"} = held \cap {"handler", "kretprobe"}
        PROVE  HInv'
    BY <2>1 DEF CheckInv, Has, HookInv, MayHold, Packing, Intercepts
  <2>2. CASE Load \/ AllocBuffer \/ AllocFail \/ BuffersDone
    <3>1. (CheckInv /\ HookInv)'
      BY <2>2 DEF CheckInv, Has, HookInv, MayHold, Packing, Load, AllocBuffer, AllocFail,
        BuffersDone
    <3> QED BY <2>2, <3>1 DEF Load, AllocBuffer, AllocFail, BuffersDone
  <2>3. ASSUME NEW s \in DOMAIN Acquires, InitOk(s)
        PROVE  HInv'
    <3>1. HookInv'
      BY <2>3, AcquireFacts
        DEF HookInv, MayHold, Packing, Intercepts, CtlType, PlanInv, Acquires, InitOk
    <3> QED BY <2>3, <3>1 DEF CheckInv, Has, InitOk
  <2>4. ASSUME NEW s \in DOMAIN Acquires, InitFail(s)
        PROVE  HInv'
    BY <2>4 DEF CheckInv, Has, HookInv, MayHold, Packing, Intercepts, InitFail
  <2>5. CASE HookInit
    <3>1. HookInv'
      BY <2>5 DEF HookInv, MayHold, Packing, Intercepts, CheckInv, Has, Critical,
        CheckedSymbols, HookSymbols, Hooks, HookInit
    <3> QED BY <2>5, <3>1 DEF CheckInv, Has, HookInit
  <2>6. CASE FilesInit
    BY <2>6 DEF CheckInv, HookInv, MayHold, Packing, Intercepts, FilesInit
  <2>7. CASE Unload
    <3>1. HookInv'
      BY <2>7, ExitOrderFacts, StepsAre DEF HookInv, MayHold, Packing, Intercepts, Unload
    <3> QED BY <2>7, <3>1 DEF CheckInv, Unload
  <2>8. CASE Close
    <3>1. HookInv'
      BY <2>8, HoldsOn
        DEF HookInv, MayHold, Packing, Intercepts, Open, GivesBack, Close, Undoing
    <3> QED BY <2>8, <3>1 DEF CheckInv, Has, Close
  <2>9. CASE Exit
    <3>1. HookInv'
      BY <2>9, HoldsOn, TailFacts
        DEF HookInv, MayHold, Packing, Intercepts, GivesBack, CtlType, PlanInv, Exit, Undoing
    <3> QED BY <2>9, <3>1 DEF CheckInv, Exit, Undoing
  <2>10. CASE Gone
    BY <2>10 DEF CheckInv, HookInv, MayHold, Packing, Gone
  <2>11. CASE DrainEmpty \/ DrainDone
    <3>1. /\ todo \in Seq(Steps) /\ todo # <<>> /\ Head(todo) = "drain"
          /\ phase \in {"unwinding", "unloading"} /\ todo' = Tail(todo)
          /\ UNCHANGED <<phase, step, kernel, held, harmed>>
      BY <2>11 DEF DrainEmpty, DrainDone, Draining, Undoing, CtlType
    <3>2. ~ MayHold'
      BY <3>1, TailFacts DEF MayHold, Packing, PlanInv
    <3> QED BY <3>1, <3>2 DEF CheckInv, HookInv
  <2>12. CASE DrainBegin \/ DrainRestore
              \/ \E p \in Pages : DrainSkip(p) \/ DrainLose(p) \/ DrainRead(p)
    BY <2>1, <2>12 DEF DrainBegin, DrainRestore, DrainSkip, DrainLose, DrainRead
  <2>13. ASSUME NEW t \in Threads, Pack(t)
         PROVE  HInv'
    <3>1. Intercepts
      BY <2>13, PackersHold DEF HookInv, Pack
    <3> QED BY <2>1, <2>13, <3>1 DEF Pack, Leave
  <2>14. ASSUME NEW t \in Threads, Call(t), ~ Pack(t)
         PROVE  HInv'
    BY <2>1, <2>14 DEF Call, Enter, Fault, FaultMiss, FaultFail, FaultRead, FaultRemove,
      FaultInstall, Drop, PackNone, Shrink, Leave
  <2>15. CASE Register \/ SetEnabled \/ SetTracking \/ \E p \in Pages : TouchLost(p)
    BY <2>1, <2>15 DEF Register, SetEnabled, SetTracking, TouchLost
  <2>16. CASE UNCHANGED vars
    BY <2>1, <2>16 DEF vars
  <2> QED BY <2>2, <2>3, <2>4, <2>5, <2>6, <2>7, <2>8, <2>9, <2>10, <2>11, <2>12, <2>13,
             <2>14, <2>15, <2>16 DEF Next, Loading, Unloading, Drain
<1> QED BY <1>1, <1>2, InitIInv, StepIInv, InitDInv, StepDInv, PTL DEF Spec
=============================================================================
