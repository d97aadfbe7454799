--------------------------- MODULE CodeCacheProofs ---------------------------
(***************************************************************************)
(* For every set of keys, sizes, limits and holders of leases: code that   *)
(* is leased stays, nothing is kept without cause, and the books balance.  *)
(***************************************************************************)
EXTENDS CodeCache, FiniteSetTheorems, TLAPS

-----------------------------------------------------------------------------
(* The bytes of a set of keys.                                             *)

Block(k) == {k} \X (1 .. Bytes[k])
Blocks(keys) == UNION {Block(k) : k \in keys}

LEMMA BlockSize ==
  ASSUME NEW k \in Key
  PROVE  IsFiniteSet(Block(k)) /\ Cardinality(Block(k)) = Bytes[k] /\ Bytes[k] \in Nat
<1>1. Bytes[k] \in Nat
  BY CacheAssumption
<1>2. IsFiniteSet(1 .. Bytes[k]) /\ Cardinality(1 .. Bytes[k]) = Bytes[k]
  BY <1>1, FS_Interval
<1>3. IsFiniteSet({k}) /\ Cardinality({k}) = 1
  BY FS_Singleton
<1>4. IsFiniteSet(Block(k)) /\ Cardinality(Block(k)) = 1 * Bytes[k]
  BY <1>2, <1>3, FS_Product DEF Block
<1> QED BY <1>1, <1>4

LEMMA SizeIs ==
  ASSUME NEW keys \in SUBSET Key
  PROVE  IsFiniteSet(Blocks(keys)) /\ Size(keys) = Cardinality(Blocks(keys))
         /\ Size(keys) \in Nat
<1> DEFINE all == {Block(k) : k \in keys}
           f == [k \in keys |-> Block(k)]
<1>1. IsFiniteSet(keys)
  BY CacheAssumption, FS_Subset
<1>2. f \in Surjection(keys, all)
  BY DEF Surjection
<1>3. IsFiniteSet(all)
  BY <1>1, <1>2, FS_Surjection
<1>4. \A T \in all : IsFiniteSet(T)
  BY BlockSize
<1>5. IsFiniteSet(Blocks(keys))
  BY <1>3, <1>4, FS_UNION DEF Blocks
<1>6. Size(keys) = Cardinality(Blocks(keys))
  BY DEF Size, Blocks, Block
<1> QED BY <1>5, <1>6, FS_CardinalityType

LEMMA SizeEmpty == Size({}) = 0
<1>1. Blocks({}) = {}
  BY DEF Blocks
<1> QED BY <1>1, FS_EmptySet, SizeIs

LEMMA SizeOne ==
  ASSUME NEW k \in Key
  PROVE  Size({k}) = Bytes[k]
<1>1. Blocks({k}) = Block(k)
  BY DEF Blocks
<1> QED BY <1>1, BlockSize, SizeIs

\* Sizes of sets without a key in common add up.
LEMMA SizeJoin ==
  ASSUME NEW S \in SUBSET Key, NEW T \in SUBSET Key, S \cap T = {}
  PROVE  Size(S \cup T) = Size(S) + Size(T)
<1>1. Blocks(S \cup T) = Blocks(S) \cup Blocks(T)
  BY Zenon DEF Blocks
<1>2. Blocks(S) \cap Blocks(T) = {}
  BY DEF Blocks, Block
<1>3. Cardinality(Blocks(S) \cup Blocks(T)) = Cardinality(Blocks(S)) + Cardinality(Blocks(T)) - 0
  BY <1>2, SizeIs, FS_Union, FS_EmptySet
<1>4. S \cup T \in SUBSET Key
  OBVIOUS
<1>5. Size(S \cup T) = Cardinality(Blocks(S) \cup Blocks(T))
  BY <1>1, <1>4, SizeIs
<1>6. /\ Size(S) = Cardinality(Blocks(S)) /\ Size(S) \in Nat
      /\ Size(T) = Cardinality(Blocks(T)) /\ Size(T) \in Nat
  BY SizeIs
<1> QED BY <1>3, <1>5, <1>6

\* Taking keys out takes their size off, and no more than there is.
LEMMA SizeSplit ==
  ASSUME NEW S \in SUBSET Key, NEW T \in SUBSET S
  PROVE  Less(Size(S), Size(T)) = Size(S \ T)
<1>1. Size(T \cup (S \ T)) = Size(T) + Size(S \ T)
  BY SizeJoin
<1>2. T \cup (S \ T) = S
  OBVIOUS
<1>3. Size(S) = Size(T) + Size(S \ T)
  BY <1>1, <1>2
<1>4. Size(T) \in Nat /\ Size(S \ T) \in Nat
  BY SizeIs
<1> QED BY <1>3, <1>4 DEF Less

LEMMA SizeMonotone ==
  ASSUME NEW S \in SUBSET Key, NEW T \in SUBSET S
  PROVE  Size(T) <= Size(S)
<1>1. Size(T \cup (S \ T)) = Size(T) + Size(S \ T)
  BY SizeJoin
<1>2. T \cup (S \ T) = S
  OBVIOUS
<1>3. Size(S) = Size(T) + Size(S \ T)
  BY <1>1, <1>2
<1>4. Size(T) \in Nat /\ Size(S \ T) \in Nat
  BY SizeIs
<1> QED BY <1>3, <1>4
-----------------------------------------------------------------------------
(* Caches, as values: what taking entries out does to them.                *)

\* The stamps of last uses order the keys strictly.
Ordered(b, keys) ==
  /\ b \subseteq keys \X keys
  /\ \A k \in keys : <<k, k>> \notin b
  /\ \A i, j, k \in keys : <<i, j>> \in b /\ <<j, k>> \in b => <<i, k>> \in b

EntryType == [version : Nat, active : Nat, stale : BOOLEAN]

IsCache(c) ==
  /\ DOMAIN c.entries \subseteq Key
  /\ \A k \in DOMAIN c.entries : c.entries[k] \in EntryType
  /\ Ordered(c.before, DOMAIN c.entries)
  /\ c.bytes = Size(DOMAIN c.entries)

\* Cache d is c without some of its keys, whose values are evicted.
Loses(c, d, keys) ==
  /\ DOMAIN d.entries = DOMAIN c.entries \ keys
  /\ \A k \in DOMAIN d.entries : d.entries[k] = c.entries[k]
  /\ d.evicted = c.evicted \cup {c.entries[k].version : k \in keys}

LEMMA WithoutFacts ==
  ASSUME NEW c, IsCache(c), NEW keys \in SUBSET DOMAIN c.entries
  PROVE  /\ IsCache(Without(c, keys)) /\ Loses(c, Without(c, keys), keys)
         /\ DOMAIN Without(c, keys).entries = DOMAIN c.entries \ keys
         /\ Without(c, keys).bytes = Size(DOMAIN c.entries \ keys)
<1> DEFINE d == Without(c, keys)
           kept == DOMAIN c.entries \ keys
<1>1. /\ d.entries = [k \in kept |-> c.entries[k]]
      /\ d.before = c.before \cap (kept \X kept)
      /\ d.bytes = Less(c.bytes, Size(keys))
      /\ d.evicted = c.evicted \cup {c.entries[k].version : k \in keys}
  BY DEF Without
<1>2. DOMAIN d.entries = kept /\ \A k \in kept : d.entries[k] = c.entries[k]
  BY <1>1
<1>3. Loses(c, d, keys)
  BY <1>1, <1>2 DEF Loses
<1>4. d.bytes = Size(kept)
  BY <1>1, SizeSplit DEF IsCache
<1>5. Ordered(d.before, kept)
  BY <1>1 DEF IsCache, Ordered
<1> QED BY <1>2, <1>3, <1>4, <1>5 DEF IsCache

LEMMA KeysFinite ==
  ASSUME NEW c, IsCache(c), NEW keys \in SUBSET DOMAIN c.entries
  PROVE  IsFiniteSet(keys) /\ Cardinality(keys) \in Nat /\ Size(keys) \in Nat
  BY CacheAssumption, FS_Subset, FS_CardinalityType, SizeIs DEF IsCache

\* What is over a limit was over it when there was more.
LEMMA OverMonotone ==
  ASSUME NEW c, IsCache(c), NEW few \in SUBSET DOMAIN c.entries, NEW many \in SUBSET DOMAIN c.entries,
         few \subseteq many, Over(Without(c, many))
  PROVE  Over(Without(c, few))
<1> DEFINE D == DOMAIN c.entries
<1>1. /\ DOMAIN Without(c, many).entries = D \ many /\ Without(c, many).bytes = Size(D \ many)
      /\ DOMAIN Without(c, few).entries = D \ few /\ Without(c, few).bytes = Size(D \ few)
  BY WithoutFacts
<1>2. D \ many \in SUBSET (D \ few) /\ D \ few \in SUBSET D /\ D \ many \in SUBSET D
  OBVIOUS
<1>3. /\ Cardinality(D \ many) <= Cardinality(D \ few)
      /\ Cardinality(D \ many) \in Nat /\ Cardinality(D \ few) \in Nat
  BY <1>2, KeysFinite, FS_Subset
<1>4. D \ few \in SUBSET Key
  BY DEF IsCache
<1>5. /\ Size(D \ many) <= Size(D \ few)
      /\ Size(D \ many) \in Nat /\ Size(D \ few) \in Nat
  BY <1>2, <1>4, KeysFinite, SizeMonotone
<1> HIDE DEF D
<1> QED BY <1>1, <1>3, <1>5, CacheAssumption DEF Over

\* A set of idle keys that is not empty has one that no other of them is older than.
LEMMA OldestExists ==
  ASSUME NEW c, IsCache(c), NEW rest \in SUBSET Idle(c), rest # {}
  PROVE  \E k \in rest : \A j \in rest : j \notin Older(c, k)
<1> DEFINE D == DOMAIN c.entries
           sets == {Older(c, k) : k \in rest}
<1>1. rest \subseteq D /\ \A k \in rest : Older(c, k) \in SUBSET D
  BY DEF Idle, Older
<1>2. IsFiniteSet(D)
  BY KeysFinite
<1>3. sets \subseteq FiniteSubsetsOf(D) /\ sets # {}
  BY <1>1, <1>2, FS_FiniteSubsetsOfFinite
<1>4. PICK x \in sets : \A y \in sets : <<y, x>> \notin StrictSubsetOrdering(D)
  BY <1>3, WFMin, FS_StrictSubsetOrderingWellFounded
<1>5. PICK k \in rest : x = Older(c, k)
  OBVIOUS
<1>6. ASSUME NEW j \in rest, j \in Older(c, k)
      PROVE  FALSE
  <2>1. Ordered(c.before, D) /\ j \in D /\ k \in D /\ <<j, k>> \in c.before
    BY <1>1, <1>6 DEF IsCache, Older
  <2>2. Older(c, j) \subseteq Older(c, k)
    BY <2>1, <1>1 DEF Ordered, Older
  <2>3. j \notin Older(c, j)
    BY <2>1 DEF Ordered, Older
  <2>4. <<Older(c, j), x>> \in StrictSubsetOrdering(D)
    BY <2>2, <2>3, <1>1, <1>5, <1>6 DEF StrictSubsetOrdering
  <2> QED BY <2>4, <1>4
<1> QED BY <1>6

\* The loop of evict_shared takes idle entries, and stops under the limits or when
\* none is left.
LEMMA TrimFacts ==
  ASSUME NEW c, IsCache(c)
  PROVE  /\ Victims(c) \in SUBSET Idle(c) /\ Idle(c) \in SUBSET DOMAIN c.entries
         /\ IsCache(Trim(c)) /\ Loses(c, Trim(c), Victims(c))
         /\ Over(Trim(c)) => Idle(Trim(c)) = {}
<1>1. Victims(c) \in SUBSET Idle(c) /\ Idle(c) \in SUBSET DOMAIN c.entries
  BY DEF Victims, Idle
<1>2. IsCache(Trim(c)) /\ Loses(c, Trim(c), Victims(c))
  BY <1>1, WithoutFacts DEF Trim
<1>3. ASSUME Over(Trim(c)), Idle(Trim(c)) # {}
      PROVE  FALSE
  <2> DEFINE rest == Idle(c) \ Victims(c)
  <2>1. rest # {}
    BY <1>2, <1>3 DEF Idle, Loses
  <2>2. PICK k \in rest : \A j \in rest : j \notin Older(c, k)
    BY <2>1, OldestExists
  <2>3. Older(c, k) \subseteq Victims(c) /\ Older(c, k) \in SUBSET DOMAIN c.entries
    BY <2>2, <1>1 DEF Older
  <2>4. Over(Without(c, Older(c, k)))
    BY <2>3, <1>1, <1>3, OverMonotone DEF Trim
  <2> QED BY <2>4 DEF Victims
<1> QED BY <1>1, <1>2, <1>3

\* evict_shared takes idle entries, all that are stale among them.
LEMMA EvictFacts ==
  ASSUME NEW c, IsCache(c)
  PROVE  /\ IsCache(Evict(c))
         /\ \E gone \in SUBSET Idle(c) : Loses(c, Evict(c), gone)
         /\ \A k \in DOMAIN Evict(c).entries : Evict(c).entries[k].stale => k \notin Idle(Evict(c))
         /\ Over(Evict(c)) => Idle(Evict(c)) = {}
<1> DEFINE old == {k \in Idle(c) : c.entries[k].stale}
           d == Without(c, old)
<1>1. old \in SUBSET DOMAIN c.entries
  BY DEF Idle
<1>2. IsCache(d) /\ Loses(c, d, old)
  BY <1>1, WithoutFacts
<1>3. Evict(c) = Trim(d)
  BY DEF Evict
<1> HIDE DEF d
<1>4. /\ Victims(d) \in SUBSET Idle(d) /\ Idle(d) \in SUBSET DOMAIN d.entries
      /\ IsCache(Evict(c)) /\ Loses(d, Evict(c), Victims(d))
      /\ Over(Evict(c)) => Idle(Evict(c)) = {}
  BY <1>2, <1>3, TrimFacts
<1>5. Idle(d) = Idle(c) \ old
  BY <1>2 DEF Idle, Loses
<1>6. Loses(c, Evict(c), old \cup Victims(d))
  BY <1>2, <1>4 DEF Loses
<1>7. old \cup Victims(d) \in SUBSET Idle(c)
  BY <1>4, <1>5
<1>8. ASSUME NEW k \in DOMAIN Evict(c).entries, Evict(c).entries[k].stale
      PROVE  k \notin Idle(Evict(c))
  BY <1>6, <1>8 DEF Loses, Idle
<1> QED BY <1>4, <1>6, <1>7, <1>8
-----------------------------------------------------------------------------
(* The invariant, on a cache, the leases, and what was inserted and drained. *)

LeaseType == [Holder -> [key : Key, version : 1 .. MaxVersion] \cup {NoLease}]
Has(l, h, k) == l[h] # NoLease /\ l[h].key = k
HeldBy(l, k) == {h \in Holder : Has(l, h, k)}

VersionsOf(c) == {c.entries[k].version : k \in DOMAIN c.entries}

Leasing(c, l) ==
  /\ \A h \in Holder, k \in Key :
       Has(l, h, k) => k \in DOMAIN c.entries /\ c.entries[k].version = l[h].version
  /\ \A k \in DOMAIN c.entries : c.entries[k].active = Cardinality(HeldBy(l, k))

\* Each value is in one place, and under one key if it is cached.
Placed(c, v, out) ==
  /\ VersionsOf(c) \cup c.evicted \cup out = 1 .. v
  /\ VersionsOf(c) \cap c.evicted = {} /\ (VersionsOf(c) \cup c.evicted) \cap out = {}
  /\ \A j, k \in DOMAIN c.entries : c.entries[j].version = c.entries[k].version => j = k

Sound(c, l, v, out) == IsCache(c) /\ Leasing(c, l) /\ Placed(c, v, out)

Trimmed(c) ==
  /\ \A k \in DOMAIN c.entries : c.entries[k].stale => c.entries[k].active # 0
  /\ Over(c) => Idle(c) = {}

CacheInv ==
  /\ lease \in LeaseType /\ version \in 0 .. MaxVersion
  /\ Sound(Cache, lease, version, drained)
  /\ Trimmed(Cache)

LEMMA CacheFields ==
  /\ Cache.entries = entries /\ Cache.before = before
  /\ Cache.bytes = usedBytes /\ Cache.evicted = evicted
  BY DEF Cache

LEMMA HeldFinite ==
  ASSUME NEW l, NEW k
  PROVE  IsFiniteSet(HeldBy(l, k)) /\ Cardinality(HeldBy(l, k)) \in Nat
         /\ (Cardinality(HeldBy(l, k)) = 0 <=> HeldBy(l, k) = {})
  BY CacheAssumption, FS_Subset, FS_CardinalityType, FS_EmptySet DEF HeldBy

LEMMA LeaseFields ==
  ASSUME lease \in LeaseType, NEW h \in Holder
  PROVE  /\ Free(h) <=> lease[h] = NoLease
         /\ ~Free(h) => lease[h].key \in Key /\ lease[h].version \in 1 .. MaxVersion
  BY DEF LeaseType, Free

\* An eviction takes no leased entry and hands what it takes over to be drained.
LEMMA EvictSound ==
  ASSUME NEW c, NEW l, NEW v, NEW out, Sound(c, l, v, out)
  PROVE  Sound(Evict(c), l, v, out) /\ Trimmed(Evict(c))
<1> DEFINE d == Evict(c)
<1>1. /\ IsCache(d)
      /\ \A k \in DOMAIN d.entries : d.entries[k].stale => k \notin Idle(d)
      /\ Over(d) => Idle(d) = {}
  BY EvictFacts DEF Sound
<1>2. PICK gone \in SUBSET Idle(c) : Loses(c, d, gone)
  BY EvictFacts DEF Sound
<1> HIDE DEF d
<1>3. Trimmed(d)
  BY <1>1 DEF Trimmed, Idle
<1>4. ASSUME NEW h \in Holder, NEW k \in Key, Has(l, h, k)
      PROVE  k \in DOMAIN d.entries /\ d.entries[k].version = l[h].version
  <2>1. k \in DOMAIN c.entries /\ c.entries[k].version = l[h].version
        /\ c.entries[k].active = Cardinality(HeldBy(l, k))
    BY <1>4 DEF Sound, Leasing
  <2>2. h \in HeldBy(l, k)
    BY <1>4 DEF HeldBy
  <2>3. k \notin Idle(c)
    BY <2>1, <2>2, HeldFinite DEF Idle
  <2> QED BY <2>1, <2>3, <1>2 DEF Loses
<1>5. \A k \in DOMAIN d.entries : d.entries[k].active = Cardinality(HeldBy(l, k))
  BY <1>2 DEF Loses, Sound, Leasing
<1>6. Leasing(d, l)
  BY <1>4, <1>5 DEF Leasing
<1>7. /\ VersionsOf(c) = VersionsOf(d) \cup {c.entries[k].version : k \in gone}
      /\ VersionsOf(d) \cap {c.entries[k].version : k \in gone} = {}
      /\ d.evicted = c.evicted \cup {c.entries[k].version : k \in gone}
      /\ \A j, k \in DOMAIN d.entries : d.entries[j].version = d.entries[k].version => j = k
  BY <1>2 DEF Loses, Idle, VersionsOf, Sound, Placed
<1>8. Placed(d, v, out)
  BY <1>7 DEF Sound, Placed
<1> QED BY <1>1, <1>3, <1>6, <1>8 DEF Sound, d

\* A cache that changes its entries' use counts and marks only is as sound as before.
LEMMA SameValues ==
  ASSUME NEW c, NEW d, NEW v, NEW out, Placed(c, v, out),
         DOMAIN d.entries = DOMAIN c.entries, d.evicted = c.evicted,
         \A k \in DOMAIN c.entries : d.entries[k].version = c.entries[k].version
  PROVE  Placed(d, v, out)
<1>1. VersionsOf(d) = VersionsOf(c)
  BY DEF VersionsOf
<1> QED BY <1>1 DEF Placed
-----------------------------------------------------------------------------
(* The operations.                                                         *)

LEMMA TouchedOrdered ==
  ASSUME NEW b, NEW keys, NEW k, Ordered(b, keys)
  PROVE  Ordered(Touched(b, keys, k), keys \cup {k})
<1> DEFINE new == Touched(b, keys, k)
<1>1. \A i, j \in keys \cup {k} :
        <<i, j>> \in new <=> (i # k /\ j # k /\ <<i, j>> \in b) \/ (j = k /\ i \in keys \ {k})
  BY DEF Touched
<1>2. new \subseteq (keys \cup {k}) \X (keys \cup {k})
  BY DEF Touched, Ordered
<1> HIDE DEF new
<1>3. \A i \in keys \cup {k} : <<i, i>> \notin new
  BY <1>1 DEF Ordered
<1>4. ASSUME NEW h \in keys \cup {k}, NEW i \in keys \cup {k}, NEW j \in keys \cup {k},
             <<h, i>> \in new, <<i, j>> \in new
      PROVE  <<h, j>> \in new
  <2>1. i # k /\ i \in keys /\ h # k /\ h \in keys /\ <<h, i>> \in b
    BY <1>1, <1>4
  <2>2. CASE j = k
    BY <2>1, <2>2, <1>1
  <2>3. CASE j # k
    BY <2>1, <2>3, <1>1, <1>4 DEF Ordered
  <2> QED BY <2>2, <2>3
<1> QED BY <1>2, <1>3, <1>4 DEF new, Ordered

\* What insert and insert_and_lease do before they evict; the leases become m.
LEMMA AddedSound ==
  ASSUME NEW c, NEW l, NEW v \in Nat, NEW out, Sound(c, l, v, out),
         NEW k \in Key, HeldBy(l, k) = {},
         NEW active \in Nat, NEW m, active = Cardinality(HeldBy(m, k)),
         \A h \in Holder : Has(m, h, k) => m[h].version = v + 1,
         \A h \in Holder, j \in Key \ {k} : Has(m, h, j) <=> Has(l, h, j),
         \A h \in Holder, j \in Key \ {k} : Has(m, h, j) => m[h] = l[h]
  PROVE  Sound(Added(c, k, v + 1, active), m, v + 1, out)
<1> DEFINE r == Replaced(c, k)
           d == Added(c, k, v + 1, active)
           was == {k} \cap DOMAIN c.entries
<1>1. IsCache(r) /\ Loses(c, r, was)
  <2>1. CASE k \in DOMAIN c.entries
    <3>1. was = {k} /\ r = Without(c, {k}) /\ {k} \in SUBSET DOMAIN c.entries
      BY <2>1 DEF Replaced
    <3>2. IsCache(Without(c, {k})) /\ Loses(c, Without(c, {k}), {k})
      BY <3>1, WithoutFacts DEF Sound
    <3> HIDE DEF was, r
    <3> QED BY <3>1, <3>2
  <2>2. CASE k \notin DOMAIN c.entries
    <3>1. was = {} /\ r = c
      BY <2>2 DEF Replaced
    <3> QED BY <3>1 DEF Sound, Loses
  <2> QED BY <2>1, <2>2
<1>2. k \notin DOMAIN r.entries /\ DOMAIN r.entries = DOMAIN c.entries \ {k}
  BY <1>1 DEF Loses
<1> HIDE DEF r
<1>3. /\ d.entries = [j \in DOMAIN r.entries \cup {k} |->
                        IF j = k THEN NewEntry(v + 1, active) ELSE r.entries[j]]
      /\ d.before = Touched(r.before, DOMAIN r.entries, k)
      /\ d.bytes = r.bytes + Bytes[k]
      /\ d.evicted = r.evicted
  BY DEF Added, r
<1> HIDE DEF d
<1>9. /\ d.entries[k] = NewEntry(v + 1, active) /\ NewEntry(v + 1, active) \in EntryType
      /\ NewEntry(v + 1, active).version = v + 1 /\ NewEntry(v + 1, active).active = active
  BY <1>3 DEF NewEntry, EntryType
<1>4. /\ DOMAIN d.entries = DOMAIN r.entries \cup {k} /\ DOMAIN r.entries \subseteq Key
      /\ \A j \in DOMAIN r.entries : d.entries[j] = c.entries[j] /\ j # k
      /\ d.entries[k].version = v + 1 /\ d.entries[k].active = active
      /\ d.entries[k] \in EntryType
  <2>1. DOMAIN d.entries = DOMAIN r.entries \cup {k} /\ DOMAIN r.entries \subseteq Key
    BY <1>1, <1>3 DEF IsCache
  <2>2. \A j \in DOMAIN r.entries : d.entries[j] = c.entries[j] /\ j # k
    BY <1>1, <1>2, <1>3 DEF Loses
  <2> QED BY <2>1, <2>2, <1>9
<1>5. IsCache(d)
  <2>1. Size(DOMAIN r.entries \cup {k}) = Size(DOMAIN r.entries) + Size({k})
    BY <1>2, <1>4, SizeJoin
  <2>2. d.bytes = Size(DOMAIN d.entries)
    BY <2>1, <1>1, <1>3, <1>4, SizeOne DEF IsCache
  <2>3. Ordered(d.before, DOMAIN d.entries)
    BY <1>1, <1>3, <1>4, TouchedOrdered DEF IsCache
  <2>4. \A j \in DOMAIN d.entries : d.entries[j] \in EntryType
    BY <1>2, <1>4 DEF Sound, IsCache
  <2> QED BY <2>2, <2>3, <2>4, <1>4 DEF IsCache
<1>6. Leasing(d, m)
  <2>1. ASSUME NEW h \in Holder, NEW j \in Key, Has(m, h, j)
        PROVE  j \in DOMAIN d.entries /\ d.entries[j].version = m[h].version
    <3>1. CASE j = k
      BY <3>1, <2>1, <1>4
    <3>2. CASE j # k
      <4>1. Has(l, h, j) /\ m[h] = l[h]
        BY <3>2, <2>1
      <4>2. j \in DOMAIN c.entries /\ c.entries[j].version = l[h].version
        BY <4>1 DEF Sound, Leasing
      <4> QED BY <4>1, <4>2, <3>2, <1>2, <1>4
    <3> QED BY <3>1, <3>2
  <2>2. ASSUME NEW j \in DOMAIN d.entries
        PROVE  d.entries[j].active = Cardinality(HeldBy(m, j))
    <3>1. CASE j = k
      BY <3>1, <1>4
    <3>2. CASE j # k
      <4>1. HeldBy(m, j) = HeldBy(l, j)
        <5>1. j \in Key \ {k}
          BY <3>2, <2>2, <1>4
        <5> QED BY <5>1 DEF HeldBy, Has
      <4> QED BY <4>1, <3>2, <2>2, <1>2, <1>4 DEF Sound, Leasing
    <3> QED BY <3>1, <3>2
  <2> QED BY <2>1, <2>2 DEF Leasing
<1>7. Placed(d, v + 1, out)
  <2>1. VersionsOf(d) = VersionsOf(r) \cup {v + 1}
    BY <1>1, <1>4 DEF VersionsOf, Loses
  <2>2. /\ VersionsOf(c) = VersionsOf(r) \cup {c.entries[j].version : j \in was}
        /\ VersionsOf(r) \cap {c.entries[j].version : j \in was} = {}
        /\ d.evicted = c.evicted \cup {c.entries[j].version : j \in was}
    BY <1>1, <1>3 DEF Loses, VersionsOf, Sound, Placed
  <2>3. v + 1 \notin 1 .. v /\ 1 .. (v + 1) = (1 .. v) \cup {v + 1}
    OBVIOUS
  <2>4. \A j \in DOMAIN r.entries : c.entries[j].version # v + 1
    BY <2>3, <1>2 DEF Sound, Placed, VersionsOf
  <2>5. \A i, j \in DOMAIN d.entries : d.entries[i].version = d.entries[j].version => i = j
    BY <2>4, <1>2, <1>4 DEF Sound, Placed
  <2> QED BY <2>1, <2>2, <2>3, <2>5 DEF Sound, Placed
<1> QED BY <1>5, <1>6, <1>7 DEF Sound, d

LEMMA CacheInit == Init => CacheInv
<1> SUFFICES ASSUME Init PROVE CacheInv
  OBVIOUS
<1>1. DOMAIN Cache.entries = {} /\ before = {} /\ usedBytes = 0 /\ evicted = {} /\ drained = {}
      /\ version = 0
  BY CacheFields DEF Init, NoEntry
<1>2. IsCache(Cache)
  BY <1>1, CacheFields, SizeEmpty DEF IsCache, Ordered
<1>3. lease \in LeaseType /\ \A h \in Holder : lease[h] = NoLease
  BY DEF Init, LeaseType
<1>4. Leasing(Cache, lease)
  BY <1>1, <1>3 DEF Leasing, Has
<1>5. Placed(Cache, version, drained)
  BY <1>1, CacheFields DEF Placed, VersionsOf
<1>6. Trimmed(Cache)
  BY <1>1 DEF Trimmed, Idle
<1> QED BY <1>1, <1>2, <1>3, <1>4, <1>5, <1>6, CacheAssumption DEF CacheInv, Sound

\* The caches of the model are what Becomes says they become.
LEMMA BecomesSound ==
  ASSUME NEW c, Sound(c, lease', version', drained'), Becomes(Evict(c))
  PROVE  Sound(Cache', lease', version', drained') /\ Trimmed(Cache')
<1> DEFINE d == Evict(c)
<1>1. /\ Cache'.entries = d.entries /\ Cache'.before = d.before
      /\ Cache'.bytes = d.bytes /\ Cache'.evicted = d.evicted
  BY DEF Becomes, Cache
<1>2. Sound(d, lease', version', drained') /\ Trimmed(d)
  BY EvictSound
<1> HIDE DEF d
<1>3. IsCache(Cache')
  BY <1>1, <1>2 DEF Sound, IsCache
<1>4. Leasing(Cache', lease')
  BY <1>1, <1>2 DEF Sound, Leasing
<1>5. Placed(Cache', version', drained')
  BY <1>1, <1>2 DEF Sound, Placed, VersionsOf
<1>6. Trimmed(Cache')
  BY <1>1, <1>2 DEF Trimmed, Over, Idle
<1> QED BY <1>3, <1>4, <1>5, <1>6 DEF Sound

LEMMA InsertSafe ==
  ASSUME CacheInv, NEW k \in Key, Insert(k)
  PROVE  CacheInv'
<1>1. /\ version' = version + 1 /\ version' \in 0 .. MaxVersion /\ version \in Nat
      /\ lease' = lease /\ drained' = drained
      /\ Becomes(Evict(Added(Cache, k, version + 1, 0)))
  BY CacheAssumption DEF Insert, NewVersion, CacheInv
<1>2. HeldBy(lease, k) = {}
  BY DEF Insert, NewVersion, Leases, Free, HeldBy, Has
<1>3. Cardinality(HeldBy(lease, k)) = 0 /\ \A h \in Holder : ~Has(lease, h, k)
  BY <1>2, HeldFinite DEF HeldBy
<1>4. Sound(Added(Cache, k, version + 1, 0), lease, version + 1, drained)
  <2>1. Sound(Cache, lease, version, drained)
    BY DEF CacheInv
  <2>2. /\ \A h \in Holder, j \in Key \ {k} : Has(lease, h, j) <=> Has(lease, h, j)
        /\ \A h \in Holder, j \in Key \ {k} : Has(lease, h, j) => lease[h] = lease[h]
    OBVIOUS
  <2>3. \A h \in Holder : Has(lease, h, k) => lease[h].version = version + 1
    BY <1>3
  <2>4. 0 = Cardinality(HeldBy(lease, k)) /\ 0 \in Nat
    BY <1>3
  <2> QED BY <2>1, <2>2, <2>3, <2>4, <1>1, <1>2, AddedSound
<1>5. Sound(Cache', lease', version', drained') /\ Trimmed(Cache')
  BY <1>1, <1>4, BecomesSound
<1> QED BY <1>1, <1>5 DEF CacheInv

LEMMA InsertAndLeaseSafe ==
  ASSUME CacheInv, NEW g \in Holder, NEW k \in Key, InsertAndLease(g, k)
  PROVE  CacheInv'
<1> DEFINE mine == [key |-> k, version |-> version + 1]
<1>1. /\ version' = version + 1 /\ version' \in 0 .. MaxVersion /\ version \in Nat
      /\ version' \in 1 .. MaxVersion
      /\ lease[g] = NoLease /\ lease' = [lease EXCEPT ![g] = mine] /\ drained' = drained
      /\ Becomes(Evict(Added(Cache, k, version + 1, 1)))
  BY CacheAssumption DEF InsertAndLease, NewVersion, CacheInv, Free
<1>2. HeldBy(lease, k) = {} /\ \A h \in Holder : ~Has(lease, h, k)
  BY DEF InsertAndLease, NewVersion, Leases, Free, HeldBy, Has
<1>3. /\ lease'[g] = mine /\ mine # NoLease /\ mine.key = k /\ mine.version = version + 1
      /\ \A h \in Holder \ {g} : lease'[h] = lease[h]
      /\ lease' \in LeaseType
  BY <1>1, CacheAssumption DEF CacheInv, LeaseType
<1> HIDE DEF mine
<1>4. \A h \in Holder : Has(lease', h, k) <=> h = g
  BY <1>2, <1>3 DEF Has
<1>5. \A h \in Holder, j \in Key \ {k} : Has(lease', h, j) <=> Has(lease, h, j)
  BY <1>1, <1>3 DEF Has
<1>6. \A h \in Holder, j \in Key \ {k} : Has(lease', h, j) => lease'[h] = lease[h]
  BY <1>1, <1>3 DEF Has
<1>7. HeldBy(lease', k) = {g} /\ Cardinality({g}) = 1
  BY <1>4, FS_Singleton DEF HeldBy
<1>8. Sound(Added(Cache, k, version + 1, 1), lease', version + 1, drained)
  <2>1. \A h \in Holder : Has(lease', h, k) => lease'[h].version = version + 1
    BY <1>3, <1>4
  <2> QED BY <2>1, <1>1, <1>2, <1>5, <1>6, <1>7, AddedSound DEF CacheInv
<1>9. Sound(Cache', lease', version', drained') /\ Trimmed(Cache')
  BY <1>1, <1>8, BecomesSound
<1> QED BY <1>1, <1>3, <1>9 DEF CacheInv

LEMMA TakeLeaseSafe ==
  ASSUME CacheInv, NEW g \in Holder, NEW k \in Key, TakeLease(g, k)
  PROVE  CacheInv'
<1> DEFINE mine == [key |-> k, version |-> entries[k].version]
<1>0. /\ IsCache(Cache) /\ Leasing(Cache, lease) /\ Placed(Cache, version, drained)
      /\ Trimmed(Cache) /\ lease \in LeaseType /\ version \in 0 .. MaxVersion
  BY DEF CacheInv, Sound
<1>1. /\ lease[g] = NoLease /\ lease' = [lease EXCEPT ![g] = mine]
      /\ k \in Cached /\ ~entries[k].stale /\ entries[k] \in EntryType
      /\ entries' = [entries EXCEPT ![k].active = @ + 1]
      /\ before' = Touched(before, Cached, k)
      /\ UNCHANGED <<usedBytes, evicted, version, drained>>
  BY <1>0, CacheFields DEF TakeLease, Free, Leasable, IsCache, Cached
<1>2. entries[k].version \in 1 .. MaxVersion
  <2>1. entries[k].version \in 1 .. version
    BY <1>0, <1>1, CacheFields DEF Placed, VersionsOf, Cached
  <2> QED BY <2>1, <1>0, CacheAssumption
<1>3. /\ lease'[g] = mine /\ mine # NoLease /\ mine.key = k /\ mine.version = entries[k].version
      /\ \A h \in Holder \ {g} : lease'[h] = lease[h]
      /\ lease' \in LeaseType
  BY <1>0, <1>1, <1>2, CacheAssumption DEF LeaseType
<1> HIDE DEF mine
<1>4. /\ Cached' = Cached
      /\ entries'[k].active = entries[k].active + 1 /\ entries'[k].version = entries[k].version
      /\ entries'[k].stale = entries[k].stale /\ entries'[k] \in EntryType
      /\ \A j \in Cached \ {k} : entries'[j] = entries[j]
  BY <1>1 DEF Cached, EntryType
<1>5. /\ Cache'.entries = entries' /\ Cache'.before = before' /\ Cache'.bytes = usedBytes
      /\ Cache'.evicted = evicted
  BY <1>1 DEF Cache
<1>6. IsCache(Cache')
  <2>1. Ordered(before', Cached \cup {k}) /\ Cached \cup {k} = Cached
    BY <1>0, <1>1, CacheFields, TouchedOrdered DEF IsCache, Cached
  <2> QED BY <2>1, <1>0, <1>4, <1>5, CacheFields DEF IsCache, Cached
<1>7. Leasing(Cache', lease')
  <2>1. ASSUME NEW h \in Holder, NEW j \in Key, Has(lease', h, j)
        PROVE  j \in Cached' /\ entries'[j].version = lease'[h].version
    <3>1. CASE h = g
      BY <3>1, <2>1, <1>1, <1>3, <1>4 DEF Has
    <3>2. CASE h # g
      <4>1. Has(lease, h, j) /\ lease'[h] = lease[h]
        BY <3>2, <2>1, <1>3 DEF Has
      <4>2. j \in Cached /\ entries[j].version = lease[h].version
        BY <4>1, <1>0, CacheFields DEF Leasing, Cached
      <4> QED BY <4>1, <4>2, <1>4
    <3> QED BY <3>1, <3>2
  <2>2. ASSUME NEW j \in Cached
        PROVE  entries'[j].active = Cardinality(HeldBy(lease', j))
    <3>1. entries[j].active = Cardinality(HeldBy(lease, j))
      BY <1>0, CacheFields DEF Leasing, Cached
    <3>2. CASE j = k
      <4>1. HeldBy(lease', k) = HeldBy(lease, k) \cup {g} /\ g \notin HeldBy(lease, k)
        BY <1>1, <1>3 DEF HeldBy, Has
      <4>2. Cardinality(HeldBy(lease', k)) = Cardinality(HeldBy(lease, k)) + 1
        BY <4>1, HeldFinite, FS_AddElement
      <4> QED BY <4>2, <3>1, <3>2, <1>4
    <3>3. CASE j # k
      <4>1. HeldBy(lease', j) = HeldBy(lease, j)
        BY <3>3, <1>1, <1>3 DEF HeldBy, Has
      <4> QED BY <4>1, <3>1, <3>3, <1>4
    <3> QED BY <3>2, <3>3
  <2> QED BY <2>1, <2>2, <1>4, <1>5 DEF Leasing, Cached
<1>8. Placed(Cache', version', drained')
  BY <1>0, <1>1, <1>4, <1>5, CacheFields, SameValues DEF Cached
<1>9. Trimmed(Cache')
  <2>1. \A j \in Cached : entries'[j].stale => entries'[j].active # 0
    BY <1>0, <1>1, <1>4, CacheFields DEF Trimmed, Cached
  <2>2. Idle(Cache') \subseteq Idle(Cache)
    BY <1>1, <1>4, <1>5, CacheFields DEF Idle, Cached, EntryType
  <2>3. Over(Cache') => Over(Cache)
    BY <1>4, <1>5, CacheFields DEF Over, Cached
  <2> QED BY <2>1, <2>2, <2>3, <1>0, <1>4, <1>5 DEF Trimmed, Cached
<1> QED BY <1>0, <1>1, <1>3, <1>6, <1>7, <1>8, <1>9 DEF CacheInv, Sound

LEMMA DropLeaseSafe ==
  ASSUME CacheInv, NEW g \in Holder, DropLease(g)
  PROVE  CacheInv'
<1> DEFINE k == lease[g].key
           c == [Cache EXCEPT !.entries = Released(entries, k)]
<1>0. /\ IsCache(Cache) /\ Leasing(Cache, lease) /\ Placed(Cache, version, drained)
      /\ lease \in LeaseType /\ version \in 0 .. MaxVersion
  BY DEF CacheInv, Sound
<1>1. /\ lease[g] # NoLease /\ k \in Key /\ Has(lease, g, k)
      /\ lease' = [lease EXCEPT ![g] = NoLease]
      /\ Becomes(Evict([Cache EXCEPT !.entries = Released(@, k)]))
      /\ UNCHANGED <<version, drained>>
  BY <1>0, LeaseFields DEF DropLease, Free, Has
<1>2. k \in Cached /\ entries[k].active = Cardinality(HeldBy(lease, k)) /\ entries[k] \in EntryType
  BY <1>0, <1>1, CacheFields DEF Leasing, IsCache, Cached
<1>3. /\ c.entries = Released(entries, k) /\ c.before = before /\ c.bytes = usedBytes
      /\ c.evicted = evicted /\ [Cache EXCEPT !.entries = Released(@, k)] = c
  BY DEF Cache
<1> HIDE DEF c, k
<1>4. g \in HeldBy(lease, k) /\ HeldBy(lease', k) = HeldBy(lease, k) \ {g}
  <2>1. lease'[g] = NoLease /\ \A h \in Holder \ {g} : lease'[h] = lease[h]
    BY <1>0, <1>1 DEF LeaseType
  <2> QED BY <2>1, <1>1 DEF HeldBy, Has
<1>5. /\ Cardinality(HeldBy(lease, k)) > 0
      /\ Cardinality(HeldBy(lease', k)) = Cardinality(HeldBy(lease, k)) - 1
      /\ Cardinality(HeldBy(lease, k)) \in Nat
  BY <1>4, HeldFinite, FS_RemoveElement, FS_EmptySet
<1>6. /\ DOMAIN c.entries = Cached
      /\ c.entries[k] = [entries[k] EXCEPT !.active = @ - 1]
      /\ \A j \in Cached \ {k} : c.entries[j] = entries[j]
  BY <1>2, <1>3, <1>5 DEF Released, Cached
<1>7. /\ c.entries[k].active = Cardinality(HeldBy(lease', k))
      /\ c.entries[k].version = entries[k].version /\ c.entries[k] \in EntryType
  BY <1>2, <1>5, <1>6 DEF EntryType
<1>8. IsCache(c)
  BY <1>0, <1>3, <1>6, <1>7, CacheFields DEF IsCache, Cached
<1>9. Leasing(c, lease')
  <2>1. ASSUME NEW h \in Holder, NEW j \in Key, Has(lease', h, j)
        PROVE  j \in Cached /\ c.entries[j].version = lease'[h].version
    <3>1. h # g
      BY <1>0, <1>1, <2>1 DEF Has, LeaseType
    <3>2. Has(lease, h, j) /\ lease'[h] = lease[h]
      BY <3>1, <1>1, <2>1 DEF Has
    <3>3. j \in Cached /\ entries[j].version = lease[h].version
      BY <3>2, <1>0, CacheFields DEF Leasing, Cached
    <3> QED BY <3>2, <3>3, <1>6, <1>7
  <2>2. ASSUME NEW j \in Cached
        PROVE  c.entries[j].active = Cardinality(HeldBy(lease', j))
    <3>1. CASE j = k
      BY <3>1, <1>7
    <3>2. CASE j # k
      <4>1. HeldBy(lease', j) = HeldBy(lease, j)
        BY <3>2, <1>0, <1>1 DEF HeldBy, Has, LeaseType
      <4> QED BY <4>1, <3>2, <2>2, <1>0, <1>6, CacheFields DEF Leasing, Cached
    <3> QED BY <3>1, <3>2
  <2> QED BY <2>1, <2>2, <1>6 DEF Leasing
<1>10. Placed(c, version, drained)
  <2>1. /\ DOMAIN c.entries = DOMAIN Cache.entries /\ c.evicted = Cache.evicted
        /\ \A j \in DOMAIN Cache.entries : c.entries[j].version = Cache.entries[j].version
    BY <1>3, <1>6, <1>7, CacheFields DEF Cached
  <2> QED BY <2>1, <1>0, SameValues
<1>11. Sound(c, lease', version', drained') /\ lease' \in LeaseType
  BY <1>0, <1>1, <1>8, <1>9, <1>10 DEF Sound, LeaseType
<1>12. Becomes(Evict(c))
  BY <1>1, <1>3
<1> QED BY <1>0, <1>1, <1>11, <1>12, BecomesSound DEF CacheInv

LEMMA InvalidateSafe ==
  ASSUME CacheInv, NEW s \in Snapshot, InvalidateSnapshot(s)
  PROVE  CacheInv'
<1> DEFINE c == [Cache EXCEPT !.entries = Outdated(entries, s)]
<1>0. /\ IsCache(Cache) /\ Leasing(Cache, lease) /\ Placed(Cache, version, drained)
      /\ lease \in LeaseType /\ version \in 0 .. MaxVersion
  BY DEF CacheInv, Sound
<1>1. /\ Becomes(Evict([Cache EXCEPT !.entries = Outdated(@, s)]))
      /\ UNCHANGED <<lease, version, drained>>
  BY DEF InvalidateSnapshot
<1>2. /\ c.entries = Outdated(entries, s) /\ c.before = before /\ c.bytes = usedBytes
      /\ c.evicted = evicted /\ [Cache EXCEPT !.entries = Outdated(@, s)] = c
  BY DEF Cache
<1> HIDE DEF c
<1>3. DOMAIN c.entries = Cached /\ \A k \in Cached : entries[k] \in EntryType
  BY <1>0, <1>2, CacheFields DEF Outdated, Cached, IsCache
<1>4. \A k \in Cached :
        /\ c.entries[k] \in EntryType /\ c.entries[k].version = entries[k].version
        /\ c.entries[k].active = entries[k].active
  <2> SUFFICES ASSUME NEW k \in Cached
               PROVE  /\ c.entries[k] \in EntryType /\ c.entries[k].version = entries[k].version
                      /\ c.entries[k].active = entries[k].active
    OBVIOUS
  <2>1. entries[k] \in EntryType
    BY <1>3
  <2>2. \/ c.entries[k] = entries[k]
        \/ c.entries[k] = [entries[k] EXCEPT !.stale = TRUE]
    BY <1>2 DEF Outdated, Cached
  <2> QED BY <2>1, <2>2 DEF EntryType
<1>5. IsCache(c)
  BY <1>0, <1>2, <1>3, <1>4, CacheFields DEF IsCache, Cached
<1>6. Leasing(c, lease)
  BY <1>0, <1>3, <1>4, CacheFields DEF Leasing, Cached
<1>7. Placed(c, version, drained)
  BY <1>0, <1>2, <1>3, <1>4, CacheFields, SameValues DEF Cached
<1>8. Sound(c, lease', version', drained')
  BY <1>1, <1>5, <1>6, <1>7 DEF Sound
<1>9. Becomes(Evict(c))
  BY <1>1, <1>2
<1> QED BY <1>0, <1>1, <1>8, <1>9, BecomesSound DEF CacheInv

LEMMA DrainSafe ==
  ASSUME CacheInv, DrainEvicted
  PROVE  CacheInv'
<1>1. /\ Cache'.entries = Cache.entries /\ Cache'.before = Cache.before
      /\ Cache'.bytes = Cache.bytes /\ Cache'.evicted = {}
      /\ drained' = drained \cup Cache.evicted /\ UNCHANGED <<lease, version>>
  BY DEF DrainEvicted, Cache
<1>2. IsCache(Cache') /\ Leasing(Cache', lease')
  BY <1>1 DEF CacheInv, Sound, IsCache, Leasing
<1>3. Placed(Cache', version', drained')
  <2>1. VersionsOf(Cache') = VersionsOf(Cache)
    BY <1>1 DEF VersionsOf
  <2> QED BY <2>1, <1>1 DEF CacheInv, Sound, Placed
<1>4. Trimmed(Cache')
  BY <1>1 DEF CacheInv, Trimmed, Over, Idle
<1> QED BY <1>1, <1>2, <1>3, <1>4 DEF CacheInv, Sound

LEMMA CacheNext == CacheInv /\ [Next]_vars => CacheInv'
<1> SUFFICES ASSUME CacheInv, [Next]_vars PROVE CacheInv'
  OBVIOUS
<1>1. ASSUME NEW k \in Key, Insert(k) PROVE CacheInv'
  BY <1>1, InsertSafe
<1>2. ASSUME NEW h \in Holder, NEW k \in Key, InsertAndLease(h, k) PROVE CacheInv'
  BY <1>2, InsertAndLeaseSafe
<1>3. ASSUME NEW h \in Holder, NEW k \in Key, TakeLease(h, k) PROVE CacheInv'
  BY <1>3, TakeLeaseSafe
<1>4. ASSUME NEW h \in Holder, DropLease(h) PROVE CacheInv'
  BY <1>4, DropLeaseSafe
<1>5. ASSUME NEW s \in Snapshot, InvalidateSnapshot(s) PROVE CacheInv'
  BY <1>5, InvalidateSafe
<1>6. CASE DrainEvicted
  BY <1>6, DrainSafe
<1>7. CASE UNCHANGED vars
  <2>1. Cache' = Cache /\ UNCHANGED <<lease, version, drained>>
    BY <1>7 DEF vars, Cache
  <2> QED BY <2>1 DEF CacheInv, Sound, Trimmed, IsCache, Leasing, Placed, VersionsOf, Over, Idle
<1> QED BY <1>1, <1>2, <1>3, <1>4, <1>5, <1>6, <1>7 DEF Next

-----------------------------------------------------------------------------
(* What the invariant says of the cache.                                   *)

LEMMA HeldIsLeases ==
  ASSUME NEW k
  PROVE  Leases(k) = HeldBy(lease, k)
  BY DEF Leases, HeldBy, Has, Free

LEMMA CacheSays == CacheInv => LeasedCodeStays /\ KeptForCause /\ BooksExact
<1> SUFFICES ASSUME CacheInv PROVE LeasedCodeStays /\ KeptForCause /\ BooksExact
  OBVIOUS
<1>0. /\ IsCache(Cache) /\ Leasing(Cache, lease) /\ Placed(Cache, version, drained)
      /\ Trimmed(Cache) /\ lease \in LeaseType
  BY DEF CacheInv, Sound
<1>1. LeasedCodeStays
  <2>1. ASSUME NEW h \in Holder, ~Free(h)
        PROVE  lease[h].key \in Cached /\ entries[lease[h].key].version = lease[h].version
    <3>1. lease[h].key \in Key /\ Has(lease, h, lease[h].key)
      BY <1>0, <2>1, LeaseFields DEF Has
    <3> QED BY <3>1, <1>0, CacheFields DEF Leasing, Cached
  <2>2. \A k \in Cached : entries[k].active = Cardinality(Leases(k))
    BY <1>0, CacheFields, HeldIsLeases DEF Leasing, Cached
  <2> QED BY <2>1, <2>2 DEF LeasedCodeStays
<1>2. KeptForCause
  <2>1. ASSUME NEW k \in Cached, entries[k].stale
        PROVE  Leases(k) # {}
    BY <2>1, <1>0, CacheFields, HeldIsLeases, HeldFinite DEF Trimmed, Leasing, Cached
  <2> QED BY <2>1, <1>0 DEF KeptForCause, Trimmed
<1>3. BytesExact
  BY <1>0, CacheFields DEF BytesExact, IsCache, Cached
<1>4. EvictedOnce
  <2>1. Versions = VersionsOf(Cache)
    BY CacheFields DEF Versions, VersionsOf, Cached
  <2> QED BY <2>1, <1>0, CacheFields DEF EvictedOnce, Placed
<1> QED BY <1>1, <1>2, <1>3, <1>4 DEF BooksExact

\* The inductive invariant of every operation of the cache.
THEOREM CacheInvariant == Spec => []CacheInv
<1> QED BY CacheInit, CacheNext, PTL DEF Spec

\* Whatever is inserted, invalidated or dropped, by however many holders: code that is
\* leased is not taken out (evict_shared), and an entry counts its leases exactly.
THEOREM LeasedStays == Spec => []LeasedCodeStays
<1>1. CacheInv => LeasedCodeStays
  BY CacheSays
<1> QED BY <1>1, CacheInvariant, PTL

\* evict_shared leaves nothing that is stale without a lease, and nothing idle over a
\* limit: the loop over the entries used longest ago does not stop early.
THEOREM EvictionIsComplete == Spec => []KeptForCause
<1>1. CacheInv => KeptForCause
  BY CacheSays
<1> QED BY <1>1, CacheInvariant, PTL

\* The bytes in use are those of the entries there are, although they are kept by adding
\* and saturating subtraction, and each value is handed back for reclamation once.
THEOREM BooksBalance == Spec => []BooksExact
<1>1. CacheInv => BooksExact
  BY CacheSays
<1> QED BY <1>1, CacheInvariant, PTL
=============================================================================
