----------------------------- MODULE LayoutCache -----------------------------
(***************************************************************************)
(* GlobalReference.getLayout: the cache of parsed layout templates that    *)
(* all threads that write to graylog share.                                *)
(*                                                                         *)
(* layoutMap is a java.util.HashMap used without a lock.  While another    *)
(* thread changes it, a get may miss, a put may get lost or not be         *)
(* counted, iterator().next() may throw, and two threads that resize the   *)
(* table may close a bucket to a cycle, in which later calls never end.    *)
(***************************************************************************)
EXTENDS Integers, FiniteSets, Functions, DecodingThreads

CONSTANTS
    Templates,    \* layout templates
    Improper,     \* those the constructor of Layout throws on
    MaxCapacity,  \* MAX_CAPACITY
    MaxDrift      \* bound on the difference of size and entries

ASSUME LayoutAssumption ==
    /\ Improper \subseteq Templates
    /\ None \notin Templates
    /\ IsFiniteSet(Threads)
    /\ MaxCapacity \in Nat \ {0}
    /\ MaxDrift \in Nat

VARIABLES
    layoutMap,  \* layout of each cached template: the template it was made from
    size,       \* the map's own count of its entries
    cyclic,     \* has a race closed a bucket to a cycle?
    where,      \* where each thread is in getLayout
    template,   \* its argument
    excess,     \* entries it still has to remove
    layout,     \* its result
    crowded,    \* has size ever exceeded MaxCapacity?
    damaged     \* has a race lost a change or its count?

layoutVars == <<layoutMap, size, cyclic, where, template, excess, layout, crowded, damaged>>

LayoutSteps == {"out", "get", "size", "evict", "put", "hang", "returned", "thrown"}

LayoutTypeOK ==
    /\ DOMAIN layoutMap \subseteq Templates \ Improper
    /\ Range(layoutMap) \subseteq Templates
    /\ size \in Nat
    /\ cyclic \in BOOLEAN
    /\ where \in [Threads -> LayoutSteps]
    /\ template \in [Threads -> Templates \cup {None}]
    /\ excess \in [Threads -> Nat]
    /\ layout \in [Threads -> Templates \cup {None}]
    /\ crowded \in BOOLEAN
    /\ damaged \in BOOLEAN

LayoutInit ==
    /\ layoutMap = <<>>
    /\ size = 0
    /\ cyclic = FALSE
    /\ where = [t \in Threads |-> "out"]
    /\ template = [t \in Threads |-> None]
    /\ excess = [t \in Threads |-> 0]
    /\ layout = [t \in Threads |-> None]
    /\ crowded = FALSE
    /\ damaged = FALSE

In(t, s) == where[t] = s
GoTo(t, s) == where' = [where EXCEPT ![t] = s]

\* Another thread is changing the structure of the map.
Racing(t) == \E u \in Threads \ {t} : where[u] \in {"evict", "put"}

-----------------------------------------------------------------------------
\* A caller calls getLayout(p); an empty template is answered with null.
GetLayout(t, p) ==
    /\ template' = [template EXCEPT ![t] = p]
    /\ layout' = [layout EXCEPT ![t] = None]
    /\ GoTo(t, IF p = None THEN "returned" ELSE "get")
    /\ UNCHANGED <<layoutMap, size, cyclic, excess, crowded, damaged>>

Hit(t) ==
    /\ In(t, "get")
    /\ template[t] \in DOMAIN layoutMap
    /\ layout' = [layout EXCEPT ![t] = layoutMap[template[t]]]
    /\ GoTo(t, "returned")
    /\ UNCHANGED <<layoutMap, size, cyclic, template, excess, crowded, damaged>>

\* Faulty variant: elements of a wrong form are passed over.
MissUnchecked(t) ==
    /\ In(t, "get")
    /\ template[t] \notin DOMAIN layoutMap \/ Racing(t)
    /\ GoTo(t, "size")
    /\ UNCHANGED <<layoutMap, size, cyclic, template, excess, layout, crowded, damaged>>

\* A miss: new Layout(template), which throws if an element is not of three
\* parts or its type is unknown.
Miss(t) ==
    /\ In(t, "get")
    /\ template[t] \notin DOMAIN layoutMap \/ Racing(t)
    /\ GoTo(t, IF template[t] \in Improper THEN "thrown" ELSE "size")
    /\ UNCHANGED <<layoutMap, size, cyclic, template, excess, layout, crowded, damaged>>

\* Faulty variant: nothing is ever too much.
SizeUnlimited(t) ==
    /\ In(t, "size")
    /\ GoTo(t, "put")
    /\ UNCHANGED <<layoutMap, size, cyclic, template, excess, layout, crowded, damaged>>

\* At MaxCapacity itself nothing is removed.
Size(t) ==
    /\ In(t, "size")
    /\ excess' = [excess EXCEPT ![t] = IF size >= MaxCapacity THEN size - MaxCapacity ELSE 0]
    /\ GoTo(t, IF excess'[t] > 0 THEN "evict" ELSE "put")
    /\ UNCHANGED <<layoutMap, size, cyclic, template, layout, crowded, damaged>>

\* NoSuchElementException, or ConcurrentModificationException.
EvictThrows(t) ==
    /\ In(t, "evict")
    /\ layoutMap = <<>> \/ Racing(t)
    /\ excess' = [excess EXCEPT ![t] = 0]
    /\ GoTo(t, "thrown")
    /\ UNCHANGED <<layoutMap, size, cyclic, template, layout, crowded, damaged>>

\* The map becomes m and its count n.
Becomes(m, n) ==
    /\ n >= 0
    /\ Cardinality(DOMAIN m) - n \in -MaxDrift .. MaxDrift
    /\ layoutMap' = m
    /\ size' = n
    /\ crowded' = (crowded \/ n > MaxCapacity)

\* A change of the map to m with count n.  If another thread changes it, too, the
\* change or its count may be lost.
Changed(t, m, n) ==
    \/ Becomes(m, n) /\ UNCHANGED damaged
    \/ /\ Racing(t)
       /\ Becomes(m, size) \/ Becomes(layoutMap, n) \/ Becomes(layoutMap, size)
       /\ damaged' = TRUE

\* entrySet().iterator().next(), in no particular order, and remove.
Evict(t) ==
    /\ In(t, "evict")
    /\ \E p \in DOMAIN layoutMap :
          Changed(t, Restrict(layoutMap, DOMAIN layoutMap \ {p}), size - 1)
    /\ excess' = [excess EXCEPT ![t] = @ - 1]
    /\ GoTo(t, IF excess'[t] > 0 THEN "evict" ELSE "put")
    /\ UNCHANGED <<cyclic, template, layout>>

With(p) == [q \in DOMAIN layoutMap \cup {p} |-> IF q = p THEN p ELSE layoutMap[q]]

Put(t) ==
    /\ In(t, "put")
    /\ LET m == With(template[t])
           n == IF template[t] \in DOMAIN layoutMap THEN size ELSE size + 1
       IN  Changed(t, m, n)
    /\ cyclic' \in {cyclic} \cup {c \in {TRUE} : \E u \in Threads \ {t} : In(u, "put")}
    /\ layout' = [layout EXCEPT ![t] = template[t]]
    /\ GoTo(t, "returned")
    /\ UNCHANGED <<template, excess>>

\* A call that follows the cycle does not come back.
Loops(t) ==
    /\ cyclic
    /\ where[t] \in {"get", "evict", "put"}
    /\ GoTo(t, "hang")
    /\ UNCHANGED <<layoutMap, size, cyclic, template, excess, layout, crowded, damaged>>

LayoutStep(t) ==
    \/ Hit(t)
    \/ Miss(t)
    \/ Size(t)
    \/ Evict(t)
    \/ EvictThrows(t)
    \/ Put(t)
    \/ Loops(t)

-----------------------------------------------------------------------------
\* GlobalReference: the check of the size and the put are apart, so threads may act
\* on a size that is out of date; still, unless a race damages the map itself, the
\* cache never exceeds its capacity by more than the number of threads.
CacheBounded ==
    ~damaged => Cardinality(DOMAIN layoutMap) <= MaxCapacity + Cardinality(Threads)
==============================================================================
