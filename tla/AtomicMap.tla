------------------------------ MODULE AtomicMap ------------------------------
(***************************************************************************)
(* What src/kernel/minimem_map.h promises its callers: a set of page       *)
(* indices with compressed data, into which a store puts a page and from   *)
(* which a removal or a step of a drain takes one, each at once.  A caller *)
(* may pin the map (minimem_map_read_lock): pages are put in, and none is  *)
(* taken out, until every caller has let go of it.                         *)
(***************************************************************************)
EXTENDS FiniteSets

CONSTANTS Pages, Callers

VARIABLES
  stored, \* the pages with compressed data
  pinned  \* the callers that pin the map

Init == stored = {} /\ pinned = {}

Put(k)  == stored' = stored \union {k} /\ UNCHANGED pinned
Take(k) == pinned = {} /\ stored' = stored \ {k} /\ UNCHANGED pinned
Pin(t)  == pinned' = pinned \union {t} /\ UNCHANGED stored
Unpin(t) == t \in pinned /\ pinned' = pinned \ {t} /\ UNCHANGED stored
Clear   == pinned = {} /\ stored' = {} /\ UNCHANGED pinned

Next == \/ \E k \in Pages : Put(k) \/ Take(k)
        \/ \E t \in Callers : Pin(t) \/ Unpin(t)
        \/ Clear

Spec == Init /\ [][Next]_<<stored, pinned>>
=============================================================================
