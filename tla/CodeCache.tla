------------------------------ MODULE CodeCache ------------------------------
(***************************************************************************)
(* SharedCodeCache: compiled code by key, with leases that keep an entry   *)
(* from being evicted and a limit on the number and the bytes of entries.  *)
(* Every operation takes the lock once, so each is one action.  The clock  *)
(* stamps that order last uses are abstracted to the order itself.         *)
(***************************************************************************)
EXTENDS Naturals, FiniteSets

CONSTANTS
  Key,
  Snapshot,          \* the snapshots code is compiled from
  SnapshotOf,        \* [Key -> Snapshot]
  Bytes,             \* [Key -> Nat]: estimated size of a key's code
  MaxCount, MaxBytes,
  Holder,            \* the lease objects that can exist at a time
  NoLease,
  MaxVersion         \* bound: values inserted in all

ASSUME CacheAssumption ==
  /\ IsFiniteSet(Key) /\ IsFiniteSet(Holder)
  /\ SnapshotOf \in [Key -> Snapshot]
  /\ Bytes \in [Key -> Nat]
  /\ MaxCount \in Nat /\ MaxBytes \in Nat /\ MaxVersion \in Nat
  /\ \A k \in Key, v \in 1 .. MaxVersion : NoLease # [key |-> k, version |-> v]

VARIABLES
  entries,    \* [cached keys -> version, active, stale]
  before,     \* the pairs <<j, k>> of cached keys, j used longer ago than k
  usedBytes,
  evicted,    \* the versions taken out and not yet drained
  lease,      \* [Holder -> the key it leases and, as history, the version, or NoLease]
  version,    \* history: values inserted so far
  drained     \* history: the versions drained

vars == <<entries, before, usedBytes, evicted, lease, version, drained>>

Cached == DOMAIN entries
Cache == [entries |-> entries, before |-> before, bytes |-> usedBytes, evicted |-> evicted]

\* The bytes of the code for a set of keys, counted one by one.
Size(keys) == Cardinality(UNION {{k} \X (1 .. Bytes[k]) : k \in keys})

\* saturating_sub
Less(m, n) == IF m > n THEN m - n ELSE 0

\* Cache c when some of its keys are taken out.
Without(c, keys) ==
  LET kept == DOMAIN c.entries \ keys
  IN [entries |-> [k \in kept |-> c.entries[k]],
      before |-> c.before \cap (kept \X kept),
      bytes |-> Less(c.bytes, Size(keys)),
      evicted |-> c.evicted \cup {c.entries[k].version : k \in keys}]

Idle(c) == {k \in DOMAIN c.entries : c.entries[k].active = 0}
Over(c) == Cardinality(DOMAIN c.entries) > MaxCount \/ c.bytes > MaxBytes

Older(c, k) == {j \in Idle(c) : <<j, k>> \in c.before}

\* As if the limit took any entry, leased or not.
AnyVictims(c) ==
  {k \in DOMAIN c.entries : Over(Without(c, {j \in DOMAIN c.entries : <<j, k>> \in c.before}))}

\* What the loop of evict_shared takes: while over a limit, the idle entry used
\* longest ago.  An idle entry goes if all that is older does not make room enough.
Victims(c) == {k \in Idle(c) : Over(Without(c, Older(c, k)))}

Trim(c) == Without(c, Victims(c))

\* As if stale entries were left to the limit.
KeepsStale(c) == Trim(c)

\* evict_shared: first what is stale and idle.
Evict(c) == Trim(Without(c, {k \in Idle(c) : c.entries[k].stale}))

Leasable(k) == ~entries[k].stale

\* The entries after a lease on k is dropped.
Released(e, k) == [e EXCEPT ![k].active = IF @ > 0 THEN @ - 1 ELSE 0]

\* In order b, key k becomes the one of the keys that was used last.
Touched(b, keys, k) ==
  {p \in b : k \notin {p[1], p[2]}} \cup {<<j, k>> : j \in keys \ {k}}

\* As if the code that was there before were just dropped.
Overwritten(c, k) ==
  IF k \in DOMAIN c.entries THEN [Without(c, {k}) EXCEPT !.evicted = c.evicted] ELSE c

Replaced(c, k) == IF k \in DOMAIN c.entries THEN Without(c, {k}) ELSE c

NewEntry(v, active) == [version |-> v, active |-> active, stale |-> FALSE]

\* entries.insert with its bookkeeping; what was there before is evicted.
Added(c, k, v, active) ==
  LET d == Replaced(c, k)
      keys == DOMAIN d.entries
  IN [entries |-> [j \in keys \cup {k} |-> IF j = k THEN NewEntry(v, active) ELSE d.entries[j]],
      before |-> Touched(d.before, keys, k),
      bytes |-> d.bytes + Bytes[k],
      evicted |-> d.evicted]

\* Every entry of snapshot s is stale.
Outdated(e, s) ==
  [k \in DOMAIN e |-> IF SnapshotOf[k] = s THEN [e[k] EXCEPT !.stale = TRUE] ELSE e[k]]

Becomes(c) ==
  /\ entries' = c.entries
  /\ before' = c.before
  /\ usedBytes' = c.bytes
  /\ evicted' = c.evicted

NoEntry == [k \in {} |-> NewEntry(0, 0)]

-----------------------------------------------------------------------------
Init ==
  /\ entries = NoEntry
  /\ before = {}
  /\ usedBytes = 0
  /\ evicted = {}
  /\ lease = [h \in Holder |-> NoLease]
  /\ version = 0
  /\ drained = {}

Free(h) == lease[h] = NoLease
Leases(k) == {h \in Holder : ~Free(h) /\ lease[h].key = k}

\* A caller inserts a key after looking it up in vain, while it has no lease on it.
NewVersion(k) ==
  /\ version < MaxVersion
  /\ Leases(k) = {}
  /\ version' = version + 1

\* insert
Insert(k) ==
  /\ NewVersion(k)
  /\ Becomes(Evict(Added(Cache, k, version', 0)))
  /\ UNCHANGED <<lease, drained>>

\* insert_and_lease
InsertAndLease(h, k) ==
  /\ Free(h)
  /\ NewVersion(k)
  /\ Becomes(Evict(Added(Cache, k, version', 1)))
  /\ lease' = [lease EXCEPT ![h] = [key |-> k, version |-> version']]
  /\ UNCHANGED drained

\* lease, of an entry that is there and not stale.
TakeLease(h, k) ==
  /\ Free(h)
  /\ k \in Cached
  /\ Leasable(k)
  /\ entries' = [entries EXCEPT ![k].active = @ + 1]
  /\ before' = Touched(before, Cached, k)
  /\ lease' = [lease EXCEPT ![h] = [key |-> k, version |-> entries[k].version]]
  /\ UNCHANGED <<usedBytes, evicted, version, drained>>

\* Drop of a CacheLease.
DropLease(h) ==
  /\ ~Free(h)
  /\ Becomes(Evict([Cache EXCEPT !.entries = Released(@, lease[h].key)]))
  /\ lease' = [lease EXCEPT ![h] = NoLease]
  /\ UNCHANGED <<version, drained>>

\* invalidate_snapshot
InvalidateSnapshot(s) ==
  /\ \E k \in Cached : SnapshotOf[k] = s
  /\ Becomes(Evict([Cache EXCEPT !.entries = Outdated(@, s)]))
  /\ UNCHANGED <<lease, version, drained>>

\* drain_evicted
DrainEvicted ==
  /\ evicted # {}
  /\ evicted' = {}
  /\ drained' = drained \cup evicted
  /\ UNCHANGED <<entries, before, usedBytes, lease, version>>

Next ==
  \/ \E k \in Key : Insert(k)
  \/ \E h \in Holder, k \in Key : InsertAndLease(h, k) \/ TakeLease(h, k)
  \/ \E h \in Holder : DropLease(h)
  \/ \E s \in Snapshot : InvalidateSnapshot(s)
  \/ DrainEvicted

Spec == Init /\ [][Next]_vars

-----------------------------------------------------------------------------
Versions == {entries[k].version : k \in Cached}

\* The bytes on the books are those of the code that is there, so that the cache
\* neither fills up with nothing nor outgrows its limit unnoticed.
BytesExact == usedBytes = Size(Cached)

\* Code that is leased is not evicted nor exchanged, whatever is inserted or
\* invalidated meanwhile, and the use count of an entry is that of its leases.
LeasedCodeStays ==
  /\ \A h \in Holder : ~Free(h) =>
       lease[h].key \in Cached /\ entries[lease[h].key].version = lease[h].version
  /\ \A k \in Cached : entries[k].active = Cardinality(Leases(k))

\* Nothing is kept without cause: stale code is there for its leases only, and over
\* a limit there is nothing that is idle.
KeptForCause ==
  /\ \A k \in Cached : entries[k].stale => Leases(k) # {}
  /\ Over(Cache) => Idle(Cache) = {}

\* Everything ever inserted is cached, waits to be drained or was drained, and
\* only one of the three: the report of evicted bytes counts it once.
EvictedOnce ==
  /\ Versions \cup evicted \cup drained = 1 .. version
  /\ Versions \cap evicted = {} /\ (Versions \cup evicted) \cap drained = {}

\* The books of the cache balance: bytes in use, and each value handed back once.
BooksExact == BytesExact /\ EvictedOnce
=============================================================================
