---------------------------- MODULE HandleTable ----------------------------
(***************************************************************************)
(* The table behind every StableHandle: slots are reused last-in first-out *)
(* and each reuse raises the slot's generation, until the generation is    *)
(* exhausted and the slot is retired for good.  Slots are numbered from 1; *)
(* slot s of the model is slot s - 1 of the code.  MaxGeneration is        *)
(* u16::MAX.                                                               *)
(***************************************************************************)
EXTENDS Naturals, Sequences

CONSTANTS Capacity, MaxGeneration, Runtime, ForeignRuntime, Value, Gone

ASSUME CapacityAssumption == Capacity \in Nat
ASSUME GenerationAssumption == MaxGeneration \in Nat \ {0}
ASSUME RuntimeAssumption == Runtime # ForeignRuntime
ASSUME GoneAssumption == Gone \notin Value

VARIABLES
  entries,   \* what each slot handed out so far holds
  free,      \* the vacant slots, the next one to reuse last
  retired,   \* how many slots ran out of generations
  given      \* history: what every handle ever returned stands for

vars == <<entries, free, retired, given>>

Slot == 1..Capacity
Generation == 0..MaxGeneration
StableHandle == [runtime : {Runtime, ForeignRuntime}, slot : Slot,
                 generation : Generation]

Vacant(g) == [tag |-> "vacant", generation |-> g]
Live(g, v) == [tag |-> "live", generation |-> g, value |-> v]
Retired == [tag |-> "retired"]
Entry == {Vacant(g) : g \in Generation}
         \cup {Live(g, v) : g \in Generation, v \in Value}
         \cup {Retired}

HandleAt(s) == [runtime |-> Runtime, slot |-> s,
                generation |-> entries[s].generation]

\* As if the generation were not compared.
ValidatesSlot(h) ==
  /\ h.runtime = Runtime
  /\ h.slot \in DOMAIN entries
  /\ entries[h.slot].tag = "live"

Validates(h) ==
  /\ h.runtime = Runtime
  /\ h.slot \in DOMAIN entries
  /\ entries[h.slot].tag = "live"
  /\ entries[h.slot].generation = h.generation

LiveHandles == {HandleAt(s) : s \in {t \in DOMAIN entries : entries[t].tag = "live"}}

-----------------------------------------------------------------------------
Init ==
  /\ entries = <<>>
  /\ free = <<>>
  /\ retired = 0
  /\ given = << >>

\* As if the slot to reuse were read and left on the free list.
Peeked == free

Popped == SubSeq(free, 1, Len(free) - 1)

\* As if a reused slot kept its generation.
SameGeneration(g) == g

NextGeneration(g) == g + 1

\* As if u16::MAX were not special.
NeverExhausted(g) == FALSE

Exhausted(g) == g = MaxGeneration

Issue(h, v) ==
  given' = [k \in DOMAIN given \cup {h} |-> IF k = h THEN v ELSE given[k]]

\* allocate, when a slot can be reused
AllocateReused(v) ==
  /\ free # <<>>
  /\ LET s == free[Len(free)]
     IN /\ entries[s].tag = "vacant"
        /\ entries' = [entries EXCEPT ![s] = Live(entries[s].generation, v)]
        /\ Issue(HandleAt(s), v)
  /\ free' = Popped
  /\ UNCHANGED retired

\* allocate, when the table has to grow
AllocateGrown(v) ==
  /\ free = <<>>
  /\ Len(entries) < Capacity
  /\ entries' = Append(entries, Live(1, v))
  /\ Issue([runtime |-> Runtime, slot |-> Len(entries) + 1, generation |-> 1], v)
  /\ UNCHANGED <<free, retired>>

\* a write through resolve_mut
Write(h, v) ==
  /\ Validates(h)
  /\ entries' = [entries EXCEPT ![h.slot] = Live(h.generation, v)]
  /\ given' = [given EXCEPT ![h] = v]
  /\ UNCHANGED <<free, retired>>

ReleaseReusable(h) ==
  /\ Validates(h)
  /\ ~Exhausted(h.generation)
  /\ entries' = [entries EXCEPT ![h.slot] = Vacant(NextGeneration(h.generation))]
  /\ free' = Append(free, h.slot)
  /\ given' = [given EXCEPT ![h] = Gone]
  /\ UNCHANGED retired

ReleaseExhausted(h) ==
  /\ Validates(h)
  /\ Exhausted(h.generation)
  /\ entries' = [entries EXCEPT ![h.slot] = Retired]
  /\ retired' = retired + 1
  /\ given' = [given EXCEPT ![h] = Gone]
  /\ UNCHANGED free

Next ==
  \/ \E v \in Value : AllocateReused(v) \/ AllocateGrown(v)
  \/ \E h \in StableHandle :
       \/ \E v \in Value : Write(h, v)
       \/ ReleaseReusable(h)
       \/ ReleaseExhausted(h)

Spec == Init /\ [][Next]_vars

-----------------------------------------------------------------------------
TypeOK ==
  /\ entries \in Seq(Entry)
  /\ Len(entries) <= Capacity
  /\ free \in Seq(Slot)
  /\ retired \in Nat
  /\ DOMAIN given \subseteq StableHandle
  /\ \A h \in DOMAIN given : given[h] \in Value \cup {Gone}

\* The free list names every vacant slot exactly once, and nothing else: a slot
\* pushed twice would be handed to two owners, a slot lost would leak capacity.
FreeListExact ==
  /\ \A i \in DOMAIN free :
       free[i] \in DOMAIN entries /\ entries[free[i]].tag = "vacant"
  /\ \A i, j \in DOMAIN free : i # j => free[i] # free[j]
  /\ \A s \in DOMAIN entries :
       entries[s].tag = "vacant" => \E i \in DOMAIN free : free[i] = s

\* Every handle ever returned resolves to what was last written through it until
\* it is released, and to nothing from then on, however often its slot is reused.
ResolvesToOwnValue ==
  \A h \in DOMAIN given :
    IF given[h] = Gone THEN ~Validates(h)
    ELSE Validates(h) /\ entries[h.slot].value = given[h]

\* A released handle is never returned again: allocation cannot bring a dead
\* handle back to life (no ABA across slot reuse).
NeverReissued ==
  [][\A h \in DOMAIN given : given[h] = Gone => given'[h] = Gone]_vars
=============================================================================
