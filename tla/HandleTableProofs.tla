------------------------- MODULE HandleTableProofs -------------------------
(***************************************************************************)
(* For every capacity and every generation width: the free list stays      *)
(* exact, a handle resolves to its own value or to nothing, and a released *)
(* handle is never returned again.                                         *)
(***************************************************************************)
EXTENDS HandleTable, TLAPS

\* A slot's generation never falls behind a handle that was returned for it, and
\* has moved past every handle once the slot is vacant.
GenerationsGrow ==
  \A h \in DOMAIN given :
    /\ h.runtime = Runtime
    /\ h.slot \in DOMAIN entries
    /\ entries[h.slot].tag = "live" => h.generation <= entries[h.slot].generation
    /\ entries[h.slot].tag = "vacant" => h.generation < entries[h.slot].generation

IInv == TypeOK /\ FreeListExact /\ ResolvesToOwnValue /\ GenerationsGrow

-----------------------------------------------------------------------------
\* What an entry of each kind looks like, the only facts about Entry the proofs use.
LEMMA EntryKinds ==
  ASSUME NEW e \in Entry
  PROVE  /\ e.tag \in {"vacant", "live", "retired"}
         /\ e.tag = "vacant" => e.generation \in Generation
         /\ e.tag = "live" => e.generation \in Generation /\ e.value \in Value
  BY DEF Entry, Vacant, Live, Retired

LEMMA MakeEntry ==
  ASSUME NEW g \in Generation, NEW v \in Value
  PROVE  Vacant(g) \in Entry /\ Live(g, v) \in Entry /\ Retired \in Entry
  BY DEF Entry

LEMMA InitInv == Init => IInv
  BY CapacityAssumption
     DEF Init, IInv, TypeOK, FreeListExact, ResolvesToOwnValue, GenerationsGrow, Entry

LEMMA ReusedInv ==
  ASSUME IInv, NEW v \in Value, AllocateReused(v)
  PROVE  IInv' /\ (\A h \in DOMAIN given : given[h] = Gone => given'[h] = Gone)
<1> DEFINE s == free[Len(free)]
           k == HandleAt(s)
<1>a. /\ Len(free) \in DOMAIN free /\ Len(free) \in Nat \ {0}
      /\ s \in Slot
  BY DEF IInv, TypeOK, AllocateReused
<1>b. s \in DOMAIN entries /\ entries[s].tag = "vacant"
  BY <1>a DEF IInv, FreeListExact
<1>c. entries[s] \in Entry
  BY <1>b DEF IInv, TypeOK
<1>d. entries[s].generation \in Generation
  BY <1>b, <1>c, EntryKinds
<1>1. /\ s \in DOMAIN entries /\ entries[s] \in Entry
      /\ entries[s].tag = "vacant" /\ entries[s].generation \in Generation
      /\ s \in Slot /\ Len(free) \in DOMAIN free
  BY <1>a, <1>b, <1>c, <1>d
<1>2. /\ k \in StableHandle /\ k \notin DOMAIN given
      /\ k.runtime = Runtime /\ k.slot = s /\ k.generation = entries[s].generation
  BY <1>1 DEF IInv, GenerationsGrow, HandleAt, StableHandle, Generation
<1>3. /\ entries' = [entries EXCEPT ![s] = Live(entries[s].generation, v)]
      /\ given' = [h \in DOMAIN given \cup {k} |-> IF h = k THEN v ELSE given[h]]
      /\ free' = SubSeq(free, 1, Len(free) - 1)
  BY DEF AllocateReused, Issue, Popped
<1>4. /\ Len(free) \in Nat \ {0} /\ free \in Seq(Slot)
      /\ DOMAIN free' = 1..(Len(free) - 1) /\ free' \in Seq(Slot)
      /\ \A i \in DOMAIN free' : free'[i] = free[i] /\ i \in DOMAIN free /\ i # Len(free)
  BY <1>1, <1>3 DEF IInv, TypeOK, AllocateReused
<1>5. /\ DOMAIN entries' = DOMAIN entries /\ entries' \in Seq(Entry)
      /\ Len(entries') = Len(entries)
      /\ entries'[s].tag = "live" /\ entries'[s].value = v
      /\ entries'[s].generation = entries[s].generation
      /\ \A t \in DOMAIN entries : t # s => entries'[t] = entries[t]
  BY <1>1, <1>3, MakeEntry DEF IInv, TypeOK, Live
<1>6. TypeOK'
  BY <1>2, <1>3, <1>4, <1>5 DEF IInv, TypeOK, AllocateReused
<1>7. FreeListExact'
  <2>1. \A i \in DOMAIN free' : free'[i] # s
    BY <1>1, <1>4 DEF IInv, FreeListExact
  <2>2. \A i \in DOMAIN free' :
          free'[i] \in DOMAIN entries' /\ entries'[free'[i]].tag = "vacant"
    BY <2>1, <1>4, <1>5 DEF IInv, FreeListExact
  <2>3. \A i, j \in DOMAIN free' : i # j => free'[i] # free'[j]
    BY <1>4 DEF IInv, FreeListExact
  <2>4. ASSUME NEW t \in DOMAIN entries', entries'[t].tag = "vacant"
        PROVE  \E i \in DOMAIN free' : free'[i] = t
    <3>1. t # s /\ entries[t].tag = "vacant"
      BY <2>4, <1>5
    <3>2. PICK i \in DOMAIN free : free[i] = t
      BY <2>4, <3>1, <1>5 DEF IInv, FreeListExact
    <3>3. i \in 1..Len(free) /\ i # Len(free)
      BY <3>1, <3>2, <1>4
    <3>4. i \in DOMAIN free'
      BY <3>3, <1>4
    <3> QED BY <3>2, <3>4, <1>4
  <2> QED BY <2>2, <2>3, <2>4 DEF FreeListExact
<1>8. ResolvesToOwnValue'
  <2> SUFFICES ASSUME NEW h \in DOMAIN given'
               PROVE  IF given'[h] = Gone THEN ~Validates(h)'
                      ELSE Validates(h)' /\ entries'[h.slot].value = given'[h]
    BY DEF ResolvesToOwnValue
  <2>1. CASE h = k
    BY <2>1, <1>1, <1>2, <1>3, <1>5, GoneAssumption DEF Validates
  <2>2. CASE h # k
    <3>1. h \in DOMAIN given /\ given'[h] = given[h] /\ h \in StableHandle
      BY <2>2, <1>3 DEF IInv, TypeOK
    <3>2. Validates(h)' <=> Validates(h)
      BY <2>2, <3>1, <1>1, <1>2, <1>5 DEF Validates, StableHandle, IInv, GenerationsGrow
    <3>3. Validates(h) => h.slot # s
      BY <1>1 DEF Validates
    <3> QED BY <3>1, <3>2, <3>3, <1>5 DEF IInv, ResolvesToOwnValue, Validates
  <2> QED BY <2>1, <2>2
<1>9. GenerationsGrow'
  BY <1>1, <1>2, <1>3, <1>5 DEF IInv, TypeOK, GenerationsGrow, Generation, StableHandle
<1>10. \A h \in DOMAIN given : given[h] = Gone => given'[h] = Gone
  BY <1>2, <1>3
<1> QED BY <1>6, <1>7, <1>8, <1>9, <1>10 DEF IInv

LEMMA GrownInv ==
  ASSUME IInv, NEW v \in Value, AllocateGrown(v)
  PROVE  IInv' /\ (\A h \in DOMAIN given : given[h] = Gone => given'[h] = Gone)
<1> DEFINE s == Len(entries) + 1
           k == [runtime |-> Runtime, slot |-> s, generation |-> 1]
<1>1. /\ s \in Slot /\ s \notin DOMAIN entries /\ 1 \in Generation
      /\ Len(entries) \in Nat /\ DOMAIN entries = 1..Len(entries)
  BY CapacityAssumption, GenerationAssumption
     DEF IInv, TypeOK, AllocateGrown, Slot, Generation
<1>2. /\ k \in StableHandle /\ k \notin DOMAIN given
      /\ k.runtime = Runtime /\ k.slot = s /\ k.generation = 1
  BY <1>1 DEF IInv, GenerationsGrow, StableHandle
<1>3. /\ entries' = Append(entries, Live(1, v))
      /\ given' = [h \in DOMAIN given \cup {k} |-> IF h = k THEN v ELSE given[h]]
      /\ free' = free /\ retired' = retired
  BY DEF AllocateGrown, Issue
<1>4. Live(1, v) \in Entry
  BY <1>1, MakeEntry
<1>5. /\ entries' \in Seq(Entry) /\ Len(entries') = s
      /\ DOMAIN entries' = DOMAIN entries \cup {s}
      /\ entries'[s] = Live(1, v)
      /\ \A t \in DOMAIN entries : entries'[t] = entries[t]
  BY <1>1, <1>3, <1>4 DEF IInv, TypeOK
<1>6. entries'[s].tag = "live" /\ entries'[s].value = v /\ entries'[s].generation = 1
  BY <1>5 DEF Live
<1>7. TypeOK'
  BY <1>1, <1>2, <1>3, <1>5 DEF IInv, TypeOK, Slot
<1>8. FreeListExact'
  BY <1>1, <1>3, <1>5, <1>6 DEF IInv, FreeListExact
<1>9. ResolvesToOwnValue'
  <2> SUFFICES ASSUME NEW h \in DOMAIN given'
               PROVE  IF given'[h] = Gone THEN ~Validates(h)'
                      ELSE Validates(h)' /\ entries'[h.slot].value = given'[h]
    BY DEF ResolvesToOwnValue
  <2>1. CASE h = k
    BY <2>1, <1>2, <1>3, <1>5, <1>6, GoneAssumption DEF Validates
  <2>2. CASE h # k
    <3>1. h \in DOMAIN given /\ given'[h] = given[h] /\ h.slot \in DOMAIN entries
      BY <2>2, <1>3 DEF IInv, GenerationsGrow
    <3>2. entries'[h.slot] = entries[h.slot] /\ (Validates(h)' <=> Validates(h))
      BY <3>1, <1>5 DEF Validates
    <3> QED BY <3>1, <3>2 DEF IInv, ResolvesToOwnValue
  <2> QED BY <2>1, <2>2
<1>10. GenerationsGrow'
  BY <1>1, <1>2, <1>3, <1>5, <1>6 DEF IInv, GenerationsGrow
<1>11. \A h \in DOMAIN given : given[h] = Gone => given'[h] = Gone
  BY <1>2, <1>3
<1> QED BY <1>7, <1>8, <1>9, <1>10, <1>11 DEF IInv

\* Two handles that resolve through the same slot are the same handle.
LEMMA OneHandlePerSlot ==
  ASSUME NEW h \in StableHandle, NEW k \in StableHandle,
         Validates(h), Validates(k), h.slot = k.slot
  PROVE  h = k
  BY DEF Validates, StableHandle

LEMMA WriteInv ==
  ASSUME IInv, NEW w \in StableHandle, NEW v \in Value, Write(w, v)
  PROVE  IInv' /\ (\A h \in DOMAIN given : given[h] = Gone => given'[h] = Gone)
<1> DEFINE s == w.slot
<1>1. /\ Validates(w) /\ s \in DOMAIN entries /\ entries[s] \in Entry
      /\ entries[s].tag = "live" /\ entries[s].generation = w.generation
      /\ w.generation \in Generation /\ w.runtime = Runtime
  BY DEF Write, Validates, IInv, TypeOK, StableHandle
<1>2. Live(w.generation, v) \in Entry
  BY <1>1, MakeEntry
<1>3. /\ entries' \in Seq(Entry) /\ Len(entries') = Len(entries)
      /\ DOMAIN entries' = DOMAIN entries
      /\ entries'[s] = Live(w.generation, v)
      /\ \A t \in DOMAIN entries : t # s => entries'[t] = entries[t]
  BY <1>1, <1>2 DEF Write, IInv, TypeOK
<1>4. /\ entries'[s].tag = "live" /\ entries'[s].value = v
      /\ entries'[s].generation = entries[s].generation
  BY <1>1, <1>3 DEF Live
<1>5. /\ free' = free /\ retired' = retired /\ DOMAIN given' = DOMAIN given
      /\ w \in DOMAIN given => given'[w] = v
      /\ \A h \in DOMAIN given : h # w => given'[h] = given[h]
  BY DEF Write
<1>6. \A h : Validates(h)' <=> Validates(h)
  BY <1>1, <1>3, <1>4 DEF Validates
<1>7. TypeOK'
  BY <1>3, <1>5 DEF IInv, TypeOK
<1>8. FreeListExact'
  BY <1>1, <1>3, <1>4, <1>5 DEF IInv, FreeListExact
<1>9. ResolvesToOwnValue'
  <2> SUFFICES ASSUME NEW h \in DOMAIN given
               PROVE  IF given'[h] = Gone THEN ~Validates(h)'
                      ELSE Validates(h)' /\ entries'[h.slot].value = given'[h]
    BY <1>5 DEF ResolvesToOwnValue
  <2>0. h \in StableHandle
    BY DEF IInv, TypeOK
  <2>1. CASE h = w
    BY <2>1, <1>1, <1>4, <1>5, <1>6, GoneAssumption
  <2>2. CASE h # w
    <3>1. Validates(h) => h.slot # s
      BY <2>0, <2>2, <1>1, OneHandlePerSlot
    <3>2. Validates(h) => entries'[h.slot] = entries[h.slot]
      BY <3>1, <1>3 DEF Validates
    <3> QED BY <2>2, <3>2, <1>5, <1>6 DEF IInv, ResolvesToOwnValue
  <2> QED BY <2>1, <2>2
<1>10. GenerationsGrow'
  BY <1>1, <1>3, <1>4, <1>5 DEF IInv, GenerationsGrow
<1>11. \A h \in DOMAIN given : given[h] = Gone => given'[h] = Gone
  BY <1>1, <1>5 DEF IInv, ResolvesToOwnValue
<1> QED BY <1>7, <1>8, <1>9, <1>10, <1>11 DEF IInv

\* What both ways of releasing have in common: the slot stops being live, and only
\* the released handle changes meaning.
LEMMA ReleaseCommon ==
  ASSUME IInv, NEW w \in StableHandle, Validates(w), NEW e \in Entry, e.tag # "live",
         entries' = [entries EXCEPT ![w.slot] = e],
         given' = [given EXCEPT ![w] = Gone]
  PROVE  /\ w.slot \in DOMAIN entries /\ entries[w.slot].tag = "live"
         /\ w.slot \in Slot /\ w.generation \in Generation
         /\ entries[w.slot].generation = w.generation
         /\ entries' \in Seq(Entry) /\ Len(entries') = Len(entries)
         /\ DOMAIN entries' = DOMAIN entries /\ entries'[w.slot] = e
         /\ \A t \in DOMAIN entries : t # w.slot => entries'[t] = entries[t]
         /\ DOMAIN given' = DOMAIN given
         /\ \A h \in DOMAIN given' : given'[h] \in Value \cup {Gone}
         /\ ResolvesToOwnValue'
         /\ \A h \in DOMAIN given : given[h] = Gone => given'[h] = Gone
<1> DEFINE s == w.slot
<1>1. /\ s \in DOMAIN entries /\ entries[s].tag = "live" /\ s \in Slot
      /\ entries[s].generation = w.generation /\ w.generation \in Generation
  BY DEF Validates, StableHandle
<1>2. /\ entries' \in Seq(Entry) /\ Len(entries') = Len(entries)
      /\ DOMAIN entries' = DOMAIN entries /\ entries'[s] = e
      /\ \A t \in DOMAIN entries : t # s => entries'[t] = entries[t]
  BY <1>1 DEF IInv, TypeOK
<1>3. /\ DOMAIN given' = DOMAIN given
      /\ w \in DOMAIN given => given'[w] = Gone
      /\ \A h \in DOMAIN given : h # w => given'[h] = given[h]
  OBVIOUS
<1>4. ASSUME NEW h \in DOMAIN given
      PROVE  /\ given'[h] = Gone => ~Validates(h)'
             /\ given'[h] # Gone => Validates(h)' /\ entries'[h.slot].value = given'[h]
  <2>0. h \in StableHandle
    BY DEF IInv, TypeOK
  <2>1. CASE h = w
    BY <2>1, <1>1, <1>2, <1>3 DEF Validates
  <2>2. CASE h # w
    <3>1. Validates(h) => h.slot # s
      BY <2>0, <2>2, OneHandlePerSlot
    <3>2. h.slot # s /\ h.slot \in DOMAIN entries
            => entries'[h.slot] = entries[h.slot]
      BY <1>2
    <3>3. Validates(h)' <=> Validates(h)
      BY <3>1, <3>2, <1>1, <1>2 DEF Validates
    <3> QED BY <2>2, <3>1, <3>2, <3>3, <1>3 DEF IInv, ResolvesToOwnValue, Validates
  <2> QED BY <2>1, <2>2
<1>5. ResolvesToOwnValue'
  BY <1>3, <1>4 DEF ResolvesToOwnValue
<1>6. \A h \in DOMAIN given' : given'[h] \in Value \cup {Gone}
  BY <1>3 DEF IInv, TypeOK
<1> QED BY <1>1, <1>2, <1>3, <1>5, <1>6

LEMMA ReusableInv ==
  ASSUME IInv, NEW w \in StableHandle, ReleaseReusable(w)
  PROVE  IInv' /\ (\A h \in DOMAIN given : given[h] = Gone => given'[h] = Gone)
<1> DEFINE s == w.slot
           e == Vacant(w.generation + 1)
<1>1. w.generation + 1 \in Generation /\ w.generation \in Nat
  BY GenerationAssumption DEF ReleaseReusable, StableHandle, Generation, Exhausted
<1>2. e \in Entry /\ e.tag = "vacant" /\ e.generation = w.generation + 1
  BY <1>1 DEF Entry, Vacant
<1>3. /\ s \in DOMAIN entries /\ entries[s].tag = "live" /\ s \in Slot
      /\ entries[s].generation = w.generation
      /\ entries' \in Seq(Entry) /\ Len(entries') = Len(entries)
      /\ DOMAIN entries' = DOMAIN entries /\ entries'[s] = e
      /\ \A t \in DOMAIN entries : t # s => entries'[t] = entries[t]
      /\ DOMAIN given' = DOMAIN given
      /\ \A h \in DOMAIN given' : given'[h] \in Value \cup {Gone}
      /\ ResolvesToOwnValue'
      /\ \A h \in DOMAIN given : given[h] = Gone => given'[h] = Gone
  BY <1>2, ReleaseCommon DEF ReleaseReusable, NextGeneration
<1>4. /\ free' = Append(free, s) /\ free' \in Seq(Slot) /\ retired' = retired
      /\ Len(free) \in Nat /\ DOMAIN free = 1..Len(free)
      /\ DOMAIN free' = 1..(Len(free) + 1) /\ free'[Len(free) + 1] = s
      /\ \A i \in DOMAIN free : free'[i] = free[i] /\ i \in DOMAIN free'
  BY <1>3 DEF ReleaseReusable, IInv, TypeOK
<1>5. TypeOK'
  BY <1>3, <1>4 DEF IInv, TypeOK
<1>6. FreeListExact'
  <2>1. \A i \in DOMAIN free : free[i] # s
    BY <1>3 DEF IInv, FreeListExact
  <2>2. \A i \in DOMAIN free' : i = Len(free) + 1 \/ i \in DOMAIN free
    BY <1>4
  <2>3. ASSUME NEW i \in DOMAIN free'
        PROVE  free'[i] \in DOMAIN entries' /\ entries'[free'[i]].tag = "vacant"
    BY <2>1, <2>2, <1>2, <1>3, <1>4 DEF IInv, FreeListExact
  <2>4. \A i, j \in DOMAIN free' : i # j => free'[i] # free'[j]
    BY <2>1, <2>2, <1>4 DEF IInv, FreeListExact
  <2>5. ASSUME NEW t \in DOMAIN entries', entries'[t].tag = "vacant"
        PROVE  \E i \in DOMAIN free' : free'[i] = t
    <3>1. CASE t = s
      BY <3>1, <1>4
    <3>2. CASE t # s
      BY <2>5, <3>2, <1>3, <1>4 DEF IInv, FreeListExact
    <3> QED BY <3>1, <3>2
  <2> QED BY <2>3, <2>4, <2>5 DEF FreeListExact
<1>7. GenerationsGrow'
  <2> SUFFICES ASSUME NEW h \in DOMAIN given
               PROVE  /\ h.runtime = Runtime /\ h.slot \in DOMAIN entries
                      /\ entries'[h.slot].tag = "live"
                           => h.generation <= entries'[h.slot].generation
                      /\ entries'[h.slot].tag = "vacant"
                           => h.generation < entries'[h.slot].generation
    BY <1>3 DEF GenerationsGrow
  <2>0. h.generation \in Nat
    BY DEF IInv, TypeOK, StableHandle, Generation
  <2>1. CASE h.slot = s
    BY <2>0, <2>1, <1>1, <1>2, <1>3 DEF IInv, GenerationsGrow
  <2>2. CASE h.slot # s
    BY <2>2, <1>3 DEF IInv, GenerationsGrow
  <2> QED BY <2>1, <2>2
<1> QED BY <1>3, <1>5, <1>6, <1>7 DEF IInv

LEMMA ExhaustedInv ==
  ASSUME IInv, NEW w \in StableHandle, ReleaseExhausted(w)
  PROVE  IInv' /\ (\A h \in DOMAIN given : given[h] = Gone => given'[h] = Gone)
<1> DEFINE s == w.slot
<1>1. Retired \in Entry /\ Retired.tag = "retired"
  BY DEF Entry, Retired
<1>2. /\ s \in DOMAIN entries /\ entries[s].tag = "live"
      /\ entries' \in Seq(Entry) /\ Len(entries') = Len(entries)
      /\ DOMAIN entries' = DOMAIN entries /\ entries'[s] = Retired
      /\ \A t \in DOMAIN entries : t # s => entries'[t] = entries[t]
      /\ DOMAIN given' = DOMAIN given
      /\ \A h \in DOMAIN given' : given'[h] \in Value \cup {Gone}
      /\ ResolvesToOwnValue'
      /\ \A h \in DOMAIN given : given[h] = Gone => given'[h] = Gone
  BY <1>1, ReleaseCommon DEF ReleaseExhausted
<1>3. TypeOK'
  BY <1>2 DEF IInv, TypeOK, ReleaseExhausted
<1>4. FreeListExact'
  <2>1. free' = free
    BY DEF ReleaseExhausted
  <2>2. \A i \in DOMAIN free : free[i] # s
    BY <1>2 DEF IInv, FreeListExact
  <2> QED BY <2>1, <2>2, <1>1, <1>2 DEF IInv, FreeListExact
<1>5. GenerationsGrow'
  BY <1>1, <1>2 DEF IInv, GenerationsGrow
<1> QED BY <1>2, <1>3, <1>4, <1>5 DEF IInv

LEMMA StutterInv ==
  ASSUME IInv, UNCHANGED vars
  PROVE  IInv' /\ (\A h \in DOMAIN given : given[h] = Gone => given'[h] = Gone)
  BY DEF vars, IInv, TypeOK, FreeListExact, ResolvesToOwnValue, GenerationsGrow, Validates

LEMMA NextInv ==
  ASSUME IInv, [Next]_vars
  PROVE  IInv' /\ (\A h \in DOMAIN given : given[h] = Gone => given'[h] = Gone)
<1>1. ASSUME NEW v \in Value, AllocateReused(v) \/ AllocateGrown(v)
      PROVE  IInv' /\ (\A h \in DOMAIN given : given[h] = Gone => given'[h] = Gone)
  BY <1>1, ReusedInv, GrownInv
<1>2. ASSUME NEW w \in StableHandle, NEW v \in Value, Write(w, v)
      PROVE  IInv' /\ (\A h \in DOMAIN given : given[h] = Gone => given'[h] = Gone)
  BY <1>2, WriteInv
<1>3. ASSUME NEW w \in StableHandle, ReleaseReusable(w) \/ ReleaseExhausted(w)
      PROVE  IInv' /\ (\A h \in DOMAIN given : given[h] = Gone => given'[h] = Gone)
  BY <1>3, ReusableInv, ExhaustedInv
<1> QED BY <1>1, <1>2, <1>3, StutterInv DEF Next

LEMMA Inductive == Spec => []IInv
<1>1. IInv /\ [Next]_vars => IInv'
  BY NextInv
<1> QED BY InitInv, <1>1, PTL DEF Spec

\* For every capacity and generation width, the table keeps its type.
THEOREM TypeCorrect == Spec => []TypeOK
<1>1. IInv => TypeOK
  BY DEF IInv
<1> QED BY <1>1, Inductive, PTL

\* The free list is exactly the vacant slots, each once (allocate pops and release
\* pushes without ever looking at the rest of the list).
THEOREM FreeListCorrect == Spec => []FreeListExact
<1>1. IInv => FreeListExact
  BY DEF IInv
<1> QED BY <1>1, Inductive, PTL

\* A handle resolves to its own value until it is released and to nothing after.
THEOREM ResolveCorrect == Spec => []ResolvesToOwnValue
<1>1. IInv => ResolvesToOwnValue
  BY DEF IInv
<1> QED BY <1>1, Inductive, PTL

\* allocate never returns a handle that was released before.
THEOREM NoHandleReissued == Spec => NeverReissued
<1>1. IInv /\ [Next]_vars
        => [\A h \in DOMAIN given : given[h] = Gone => given'[h] = Gone]_vars
  BY NextInv
<1> QED BY <1>1, Inductive, PTL DEF Spec, NeverReissued
=============================================================================
