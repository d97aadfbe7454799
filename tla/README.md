# Wustite: a verification project

Wustite compiles Python source to a register bytecode (WVM), verifies it, runs it in an
interpreter and specialises what gets hot. This directory holds TLA+ models of its stateful
core, the TLC runs that check them, and TLAPS proofs of what matters most. Paths below are
relative to the repository; the crate is under `src/`, so that a source named in
`PROJECT.json` reads `src/src/...`.

## 1. Inventory

### The pipeline and where its state is

    Python source -> frontend (HIR) -> bytecode -> verifier -> structure map
                                                      |
                    WVM interpreter <-> profiler / planner <-> WXIR v1 -> JIT v1
                          |
                    adaptive_v2: profile -> trace -> WXIR v2 -> tier 1 -> bridges, tier 2
                          |
                    adaptive heap: handles, generations, collections, safepoints

The second row is the first JIT; `adaptive_v2` is the default core of the command line
(`src/cli.rs:109`) and the only part of the program that several threads share: a
`SharedRuntime` hands one `AdaptiveVm` to every clone (`src/runtime/shared.rs:57`), and each
execution makes a WVM of its own around it. The heap components are shared in the same way by
every `RootedValue`.

| component | state | operations | what makes it correct |
|---|---|---|---|
| stable handle table | entries with generations, free list, capacity | allocate, resolve, write, release | a handle names its own value until released, nothing afterwards; none is issued twice |
| generational heap | nursery, old space, pins, remembered set, barrier, live count | allocate, batch, store, pin, minor collection, major cycle | nothing reachable from a root is freed, the counters and the limit are exact |
| safepoint coordinator | epoch, request, parked flags, condition variable | register, request, poll, park, drop | the world is stopped while an operation runs, and runs on afterwards |
| public heap | payload maps, leases | allocate, read, store, pop, collect | leases keep objects and payloads, payloads do not outlive handles |
| adaptive profile | lifecycle, windows, cases | observe, permits, invalidate | recording and compilation follow full windows; generic sites are left alone |
| entry sites and tiers | profile, trace, code, bridges, thread-local caches | one call of a function | a call never fails because of specialisation; guard exits end |
| native code cache | entries, uses, leases, bytes | insert, lease, drop, invalidate, drain | leased code stays, limits are restored, books are exact |
| loop OSR over lists | registry of cases, profiles, preheaders, code, calls in progress | one arrival at a loop header or at the edge into it | the loop ends with the heap and registers the interpreter would leave; nothing is done twice |
| object OSR, storage transfer | shards checked out, objects moved between heaps | enter, operate, leave | what is moved comes back on every path |
| typed lists, dense objects, shapes, PICs | storage kind, elements, native leases, shapes | push, get, set, insert, remove, widen, transition | a change of representation changes no element |
| WXIR v2 snapshots, optimizer, deoptimisation | a body that passes rewrite, the run of it, the frame given back | seal, six passes, enter, materialise | every pass keeps the meaning and the verifier's approval; an exit rebuilds the interpreter's state or nothing |
| native code generation and runs | plan of the lists, checks left out, lent lists, machine words | plan, compile, enter, run a block, leave | code ends as the snapshot says and touches nothing past a list |
| trace recording | snapshot under construction | record, observe | a snapshot means what the bytecode means |
| native context (public heap) | handles and leases of helper calls | helpers | each handle is given back once |
| object heap of the WVM | sequence storage, layout versions; slots, generations | access, lend, commit; allocate | the invariants of `object/heap/invariants.rs` |
| front end | scopes, registers, loops under construction | compile a function and those it refers to | code means what the source means |
| structure map, verifier | none (fixed points) | finish, verify | nothing unset is read; types, origins and failures are true at run time |
| WVM interpreter, quick forms, numeric leaves | frames, heap | execute | each dispatch gives the same result |
| profiler, planner, WXIR v1, JIT v1 | regions, counters, suppression, tiers | enter a region | same results as the interpreter |
| command line | none beyond the run | parse, report | out of scope (section 8) |

### How they interact

* Every call of a function asks `AdaptiveVm::try_execute_entry` first. `None` means "the
  interpreter runs it", `Some(Err)` fails the guest call (`src/wvm.rs:337`).
* A site's lock protects its profile and is released before code runs. Bridges have locks of
  their own; the code of bridges and of tier 2 is kept in a cache of the *thread*.
* The public heap calls the generational heap, which calls the handle table; each call is one
  critical section of its own lock, and an operation of the public heap is a sequence of them.
* Minor collections run inside a stop-the-world operation of the safepoint coordinator.
* Major cycles mark on a thread of their own, from a copy of the heap.

### Hard behaviours

Threads interleave between any two critical sections of an operation; collections overlap
operations and each other; stops are requested while mutators come and go; code is evicted,
invalidated and replaced while it is leased; profiles see long sequences of calls; integers
reach the ends of their range. `PROJECT.json` lists each hazard at its line, with the property
that covers it or the reason why none does. Nothing but the profile file of the command line
is persistent, so that crashes are not a subject.

## 2. Modules

| module | models | extends / instantiates |
|---|---|---|
| `HandleTable` | `adaptive_v2/handles.rs` | |
| `Reachability` | what a set of handles reaches, as a least fixed point without recursion | |
| `ManagedHeap` | abstract: what a heap promises its users | `Reachability` |
| `GcHeap` | `adaptive_v2/heap.rs` and `heap/*`; in its last section, the heap under clients that root what they name | `Reachability`, instance of `ManagedHeap` |
| `Safepoint` | `adaptive_v2/safepoint.rs` | |
| `PublicHeap` | `adaptive_v2/public_heap/*` | `GcHeap` |
| `AdaptiveProfile` | `adaptive_v2/profile.rs`, as operators on a record | |
| `ProfileGate` | one profile under every order of calls | `AdaptiveProfile` |
| `CodeCache` | `adaptive_v2/native/cache.rs` | |
| `EntrySite` | one function of an `AdaptiveVm`: `integration.rs`, `integration/tiered*`, `native/bridge.rs` | `AdaptiveProfile` |
| `ObjectHeap` | `object/sequence.rs`, `object/heap.rs` (lists, tuples, commits) | |
| `LoopCode` | a counted loop, what it is recorded for and what its machine code does: `integration.rs`, `integration/loop_snapshot/*` | `ObjectHeap` |
| `ObjectLoop` | `integration.rs`, `integration/loop_osr.rs`: registry, gates, calls, commits | `LoopCode` |
| `Snapshot` | `adaptive_v2/wxir_v2/ir.rs` and the verifier of snapshots | |
| `SnapshotReplay` | `wxir_v2/replay.rs` | `Snapshot` |
| `OptimizerPasses` | `native/optimizer.rs`, `native/optimizer/scalar_replacement*` | `SnapshotReplay` |
| `SnapshotPipeline` | the life of a snapshot: seal, passes, run, side exit, with `wxir_v2/materialize.rs` and `materialize/*` | `OptimizerPasses` |
| `DirectStorage` | `native/direct_storage.rs`: which lists code may reach, and which checks it may leave out | `Snapshot` |
| `NativeRun` | `native/mod.rs`, `abi.rs`, `context.rs`, `helpers.rs`: a call of compiled code | `DirectStorage`, `SnapshotReplay` |
| `CraneliftEngine`, `LlvmEngine` | `native/cranelift.rs`; `native/llvm.rs`, `native/llvm/*` | `NativeRun` |
| `NativeLists` | one snapshot from its seal to the end of a call | `LlvmEngine` |
| `Bytecode` | `bytecode.rs`, what an instruction reads and writes | |
| `PythonSource` | first half of `frontend/python`: syntax tree to HIR | `Bytecode` |
| `PythonLowering` | second half: HIR to bytecode, sites and regions; the compilation of a module | `PythonSource`, `BytecodeVerifier` |
| `StructureMap` | `structure_map/*`: blocks, reaching definitions, types, failures, dependencies | `Bytecode` |
| `BytecodeVerifier` | `verifier.rs`, `verifier/*`, `structure_map/verify.rs` | `StructureMap` |
| `WvmValues` | `value.rs`, `wvm/arithmetic*`, `wvm/objects*`, `wvm/equality.rs` | `Bytecode` |
| `PythonMeaning` | no code: what a function means, told on its source | `PythonSource`, `WvmValues` |
| `WvmInterpreter` | `wvm.rs`, `wvm/interpreter.rs`, `runtime_dispatch.rs`, `callables.rs`, `quickening.rs`, `wvm/native_jit/leaf*` | `PythonLowering`, `PythonMeaning` |
| `HandleTableProofs`, `GcHeapProofs`, `SafepointProofs`, `ProfileGateProofs`, `CodeCacheProofs`, `EntrySiteProofs`, `SnapshotProofs` | theorems | the component |
| `PublicHeapProofs` | theorems | `PublicHeap`, `GcHeapProofs` |
| `MC...` | constants for TLC, where they are more than sets of model values | the component |

### State and actions

**HandleTable.** `entries` is the vector of slots (vacant, live or retired, with a
generation), `free` the free list. `Allocate...`, `Write...` and `Release...` follow the early
returns of the code: a foreign runtime, a slot out of range, a stale generation. `given` is a
history of what each returned handle stands for. A slot whose generation is used up is retired.

**GcHeap.** One action per call that takes the heap lock. A handle is an opaque value here:
that it is never reissued is `HandleTable`'s result. `MinorCollect` is `copy_nursery` run with
the world stopped; a major cycle is `StartMajor`, `FinishMajor` and `DropMajor`, with the marks
fixed at the start since the marker works on a copy. Callers are not trusted: any issued handle
may be named. `RootedSpec` restricts them to what they have rooted, the discipline the public
heap follows, for the properties that need it.

**Safepoint.** A thread is outside, running, stopping (waiting for peers), operating, refreshing
its epoch, parked, or awaiting. `asleep` is the wait set of the condition variable: what a wait
does is split at the points where the lock is released, so that a wake-up and the acquisition of
the lock are different steps. `seen` is the epoch of a mutator.

**PublicHeap.** `task[t]` is where the thread is in its operation, with the handles in its local
variables; an action is one critical section, and takes the step of `GcHeap` that the call under
the lock is. `BeginMarking`, `EndMarking` and `LeaveCycle` are the major cycle seen from here. The three payload maps are one, and a payload is
the set of handles stored in it.

**AdaptiveProfile / ProfileGate.** The record has the fields of the struct; each operator is a
method. `ProfileGate` calls them in any order.

**CodeCache.** `before` is the order of `last_use` values. Values carry the number of their
insertion, so that a property can tell two values of a key apart. A key is inserted only after
it was looked up in vain by a caller that has no lease on it (the callers' discipline: the cache
itself decrements the uses of a key, not of an entry).

**EntrySite.** The thread steps are: the call under the site's lock; the look-up of a bridge;
the bridge; the choice of a tier; tier 1 or tier 2; the observation of a guard exit under the
compiler's and the bridges' locks. `has_linked_bridge` is raised under the bridges' lock with the
first child and is modelled by the children themselves. The function of the model returns its
second parameter, since only such functions have a guard in scalar entry code
(`entry_trace.rs:76`). Two Boolean cases exist (`observed_case` is 0 or 1), so that the limit of
four bridges for a guard is never reached, in the model and in the program.

**ObjectHeap, LoopCode, ObjectLoop.** A heap is a sequence of functions, lists and tuples; a list
has its storage kind and its layout version. `Arguments` gives the heaps and registers a loop is
called with. `phase` is where the call is: at the `Edge` into the loop (the jump of a guaranteed
range, looked up by types), there again with the `Words` of its storages, at the `Header`, in the
`Body` (interpreted), or in `Native` code. `states` is the registry: each case with its stage and
its code, which `LoopCode` derives from what was observed when it was recorded. `CallNative` is
one call on lent copies with the commit of what it wrote, and `GoOn` the next row's. When a thing
is recorded or compiled is left open (the profile's windows are `ProfileGate`'s subject). The
words machine code works on have no type, so that code run for the wrong case misreads them.
`expected` is the interpreter's result, computed when the loop is entered.

**Snapshot, SnapshotReplay, OptimizerPasses, SnapshotPipeline.** A body is a record of
blocks, instructions, dependencies, root maps and recipes. `Verified` is the conjunction of the
verifier's checks, with `Dominators` as the greatest solution the code's loop ends with; each pass
is a function on bodies; `Replay` is the reference interpreter of the
code itself. `SnapshotPipeline` has one action for the seal, one for each pass (with the verification
that follows it), one for a run and one for the rebuilding of the frame after a side exit.

**DirectStorage, NativeRun, CraneliftEngine, LlvmEngine, NativeLists.** `Plan` is the analysis of
the code, refusals included. A machine has words for values, the lists it was lent with their
capacity, and an outcome; `wild` is raised by an access outside a list, which the code makes
without noticing. A block is one step, and the meaning of the snapshot (`ref`) takes the same step.

**PythonSource to WvmInterpreter.** Functions are syntax trees, written in `MCPrograms`. The two
halves of the front end, the structure map and the verifier are functions on trees and code, applied
to each program in the constant `Executables`, whose value an assumption pins to `CompileNamed`; so
with `Meanings` and `Reference`. The state machine is the interpreter: `Start` checks the arguments,
then each action is one instruction, by its quick form, by a leaf, by a call's own frame or in
general. `from` and `went` in a frame are histories: which definition each register holds and
which way each branch last went.

## 3. Runs

| run | configuration | shows |
|---|---|---|
| `handles` | 3 slots, 3 generations, 2 values | no ABA, exact free list |
| `heap_overlap` | 2 objects, 2 cycles, any caller | pins, counters, remembered set, barrier; the heap implements `ManagedHeap` |
| `safepoint` | 3 threads, 2 initiators, 3 epochs | the world is stopped, operations exclude each other, no stale epoch; a stop that does not clash with another comes about and releases what it parked |
| `public_heap` | 2 threads, 2 handles; minor and major collections, or a collection before every allocation and major ones | leases, pins, rooted reads; swept payloads in the first setting |
| `profile_gate` | 3 cases of which 2 are specialised, window 3 | recording and compilation each follow a full window of their own, generic sites are never compiled |
| `code_cache` | 3 keys, room for 2, 2 leases, 4 insertions | leased code stays, nothing is kept without cause, books are exact and each value is handed back once |
| `entry_site` | 2 threads, 8 calls, every backend, LLVM, caches that lose code, bridge threshold 2 | guard exits end, a call fails for two known reasons only |
| `snapshot_optimizer` | 2000 drafts of three shapes, integers of -4..3, every input | the passes keep meaning and approval, no undefined read, the frame at an exit is the unoptimised code's |
| `native_lists` | 1600 snapshots, two back ends, lists lent or served by helpers, room ample or tight | machine code agrees with the snapshot, stays inside its lists and refuses for cause |
| `object_loops` | 8 loops, 3 calls each, up to 3 trips, case limit 2, integers of -8..7 | the loop ends as interpreted, and every step brings it nearer to its end |
| `loop_replay` | one of these loops | **violation**: rows committed before a failing call are written again |
| `programs` | 46 programs with their calls, 4-bit SmallInts, call depth 3, with and without leaves | nothing unset is read, the structure map is true at run time, failures are foreseen, results are the source's |

### Bounds and why they are enough

Every bound is a named constant. Handles, keys and threads: two objects suffice for an edge
across generations, three for a chain across them; two threads for every race between two
critical sections, three in `Safepoint` because an initiator, a peer and a newcomer play
different parts. `MaxGeneration` 3 lets a slot be reused twice and retired. `MaxEpoch` bounds the
stops and `MaxIds` the registrations. `HotThreshold`, `BridgeThreshold` and `Tier2Threshold`
replace 40, 32 and 10: each is large enough for the counter to be below, at and above it within
the bound on calls. `CountCap` saturates counters above every threshold, as `saturating_add`
does at the end of `u64`. `Width` of four bits has every overflow that 64 have, and so have
integers of -4..3 in snapshots and of -8..7 in loops (`Half`); lists that a loop starts from hold a 7,
whose sums overflow, and a BigInt. How much room a list is lent follows from the call's numbers and
lists (`ReserveFor`); the calls of `TightDrafts` leave little, so that the capacity check of a loop
passes in some of them and fails in others. Where a system
stops because a bound is reached (`MaxCalls`, `MaxSteps`, `MaxVersion`, issued handles) the
configuration says `CHECK_DEADLOCK FALSE`; invariants and action properties do not depend on it.
The snapshots, loops and programs of the other runs are enumerated in their MC modules, each family
over the choices its component tells apart: the order of accesses to an object and its key, aliases,
which value leaves at a guard, loops that prove, shrink, append or reverse; element types, aliased
rows, functions and empty lists; nested and empty loops, breaks, short circuits, promotion, errors.
Three trips are one more than the two that make a loop differ from straight code; three calls are
one to record, one to compile and one to run, and a case limit of two (four in the code) is passed
by the third element type.

### Fairness

Only `Safepoint` has liveness properties. Weak fairness of a thread's steps is assumed for what
the code does without waiting for anybody's decision: a woken thread gets the lock, an operation
ends, and a registered mutator polls when a stop is requested, which is what a mutator's contract
is (`heap/collection.rs`, the tests' mutator loops). Registering, dropping and requesting are
never forced. `parking_lot`-like fairness of the lock is not assumed: a thread that leaves the
lock may take it again before a woken one does, which is how a second stop comes to hang (section 4). The
liveness properties of `safepoint` therefore exempt behaviours in which requests clash, and
`RequestsClash` names the two ways they do: a waiting request is overwritten by another one or by
the end of another one's operation, or a request comes in before a parked mutator has woken. In
both cases the hang is real; in every other behaviour the handshake works.

## 4. Findings

`PROJECT.json` quotes the first at its line and the run `loop_replay` shows it. The others came up
while modelling; where a property would be violated by one, it names the exception, and it holds
for everything else.

**Loops over lists.**
1. *Committed rows are written again* (`loop_replay`). `execute_object_loop` applies `?` to each
   call (`adaptive_v2/integration.rs:1095`): a later call that gives up drops the registers the
   earlier, committed ones reached, and the interpreter starts from the old ones.
2. *Code runs for the wrong case* at the preheader: the fast path (`loop_osr.rs:262`) compares only
   the type tags of inputs, and `preheader_storage_matches` (`loop_osr.rs:539`) takes a low byte of
   1 for 2 in words that are no list's, functions' included. `AsInterpreted` exempts "misread".
3. *Widened commits make floats of integers*: a list of integers run by float code comes back as
   floats; the comparison is numerical there ("widened").

**The optimizer.**
4. Scalar replacement looks for uses in the block of the object only (`scalar_replacement.rs:38`); a
   use in another block is left behind and the snapshot refused. `PassesVerify` asks `ReadWhereMade`.
5. It keeps fields by the value that holds the key (`scalar_replacement.rs:83`), so that two values
   with one key are two fields. `MeansTheSame` asks `KeysApart`.
   Two more passes keep the verifier's approval only for what the recorders make of it today
   (`RecordersAssumption`): the verifier asks nothing of the types of a call, so that the inlining
   of a proven callee (`optimizer.rs:201`) could add values that are not integers; and the
   forwarding of fields (`optimizer.rs:243`) does not forget at a read that has the effect of a
   barrier, so that a borrowed view could be carried past one.

**Machine code on lists.**
6. The first back end leaves out the check of a read that a loop bounds by the list's length, also
   when the loop shrinks that list (`cranelift.rs:724-904`). `StaysInside` exempts `ShrinksItsBound`.
   The capacity a loop's appends need is checked once, where the list is emptied, against the
   length the bounding list has there (`direct_storage.rs:333-652`, `cranelift.rs:363,578`): appends
   to the list that the loop's bound does not count, and appends that lengthen the bounding list
   after the check, write past the capacity. `StaysInside` exempts `FillsPastItsCheck`. The capacity
   of the model is exactly what was asked for; a `Vec` may round it up and hide the overrun.
7. The second back end writes to a fixed storage through a helper that a lent call does not have;
   the write is lost. `MachineAgrees` exempts `Unserved`. It does not widen the one bit of a
   comparison, so that guards on comparisons in list code are refused, and never become fast.
8. `replay.rs:149` divides by Euclid where the back ends floor: they differ for negative divisors
   with a remainder.

**From source to result.**
9. *Types go stale in loops.* A variable that widens to Any in a loop's body (`lower/assignment.rs:108`)
   leaves sites and tests lowered for its first type: a Bool condition then fails at its Branch
   where Python takes the truth of the value (`m = True; while m: m = xs.pop()`), and the structure
   map's types are false there. `DefinitionsHold` and `FailuresHold` exempt `StaleSite`,
   `LoweringMeans` exempts `StaleTest`.
10. *`//` by a negative number with a remainder* rounds up in the interpreter
   (`wvm/arithmetic.rs:204`, `checked_div_euclid`) and down in a leaf (`leaf.rs:343`) and on BigInts:
   the result depends on the dispatch. `LoweringMeans` exempts such a run of a leaf (`rounded`).
11. Where the language of the front end is not Python's, `PythonMeaning` follows the code, since
   no doc claims otherwise: a list iterated over is read through its variable, so that rebinding
   the variable changes what is iterated; the length is taken once; `if x:` on an Any compares with
   0, so that an empty list is true; `None == None` is false; `xs += ys` makes a new list; unpacking
   does not compare lengths; a module constant is the first assignment to it.
12. *Integers wrap* in machine code of the adaptive tiers: recorded loops and hot functions lower an
   addition without a guard (`loop_snapshot/cfg/instruction/ops.rs:323`) to `iadd`
   (`native/cranelift.rs:221`), although `README.md:107` promises promotion to a BigInt, which is what
   the interpreter does (`wvm/arithmetic.rs:147`). `SnapshotReplay` wraps as the code does. In
   `LoopCode`, `Sum` promotes and `MachineSum` wraps; `AsInterpreted` exempts "wrapped": once a sum
   has overflowed in machine code, an integer may differ from the interpreter's by a multiple of the
   size of a word, and nothing else may.

**Threads, calls and the heap.**
13. *A second stop can hang* (`safepoint.rs:147`): the end of a stop clears the parked flags; a mutator
   that gets the lock only after the next request sleeps on without a flag. Two requests at a time
   deadlock (`safepoint.rs:82`). The liveness properties exempt `RequestsClash`.
14. *A bridge has code in one thread's cache only* (`tiered/bridge.rs:162`): calls of other threads
   fail, and so do calls after an eviction. *A guard exit from tier-2 code fails the call*
   (`integration.rs:2124`). `NoOtherFailure` names both.
15. *Payloads outlive handles* when every allocation collects: boxing a scalar collects and does
   not sweep (`public_heap/runtime.rs:94`), and neither does an allocation that fails at its limit
   (`public_heap/operations.rs:60`), while `public_heap/tests/implicit_collection.rs:29` says
   "every detached payload is gone in the allocation that killed its handle". `PayloadsSwept`
   is stated for the other setting.

## 5. Proofs

TLAPS proves the following for every value of the constants that meets the named assumptions of
the modules (`CapacityAssumption`, `BoundsAssumption`, `NoOneAssumption`, ...).

* **HandleTableProofs**: type correctness, `FreeListExact`, `ResolvesToOwnValue`,
  `NeverReissued`. The invariants are not inductive: a release must know that the generation it
  moves on from is not below any handle given out for the slot. `GenerationsGrow` says so, and
  `IInv` is its conjunction with the other three. `NeverReissued` is an action property that
  follows from it: a reused slot's generation is above every handle of that slot.
* **GcHeapProofs**: type correctness, `PinnedLive`, `LiveCountExact`, `WithinLimit`, the collector's sets
  (`CollectorSets`: `RememberedOld` and `BarrierWhileMarking`), `FinishKeepsRoots`, and the refinement
  `KeepsPromise`: each step of the heap maps to a step of `ManagedHeap` or to a stutter.
  `GcInv` is inductive as a conjunction; `LiveCountExact` needs the cardinality lemmas
  `SplitCount` and `JoinCount`. The refinement rests on five lemmas on `Reach` (it contains its
  seed, is closed, is the least such set, is monotone, and stays when what is unreachable is
  removed). `RootedStaysLive` adds, under the rooting discipline, that references of reachable
  objects do not dangle; it needs that what the barrier and the snapshot marks hold covers what
  became reachable since a cycle began.
* **SafepointProofs**: type correctness, `WorldStopped`, `OneOperation`, `PeersSeeTheStop`. The
  strengthening relates the flags to the program counters (`ParkedAreParked`), says that no
  request implies no flags (`ReleasedUnparked`) and that the flags last as long as the operation
  (`StopHolds`). The request itself does not last: another initiator's is erased by a release.
* **PublicHeapProofs**: `LeaseHolds`, `PinsExact`, `ReadsRoot`, `PayloadsSwept`, and that all that
  the public heap does refines `ManagedHeap` (`PublicKeepsPromise`), for any number of threads and
  handles. A critical section is a step of `GcHeap` with changes of the payloads, so that `GcInv`
  carries over from `GcHeapProofs`. The rest of `PublicInv` is about what is *between* the sections of an
  operation: what a thread borrows is leased (`Borrowed`); a handle that is being created is known
  to its creator alone (`Alone`), without which the release of a failed creation could free what
  another thread uses; and every word in a payload has its edge in the heap, the one a thread has
  read but not rooted included (`Contents`), which is why a collection in that gap cannot free it.
* **ProfileGateProofs**: `StepsNeedWindows` and `NoGenericCode`, for any windows, case limit and
  cases. The field `stable` serves two windows; `RunsKept` says of which run it is the length in each stage,
  and `CasesKnown` that the cases kept are all those seen until the site is generic.
* **CodeCacheProofs**: `LeasedCodeStays`, `KeptForCause`, `BooksExact`, for any keys, sizes, limits
  and holders. `Sound` is kept by each operation on its own, with an order of uses that is strict and total
  (`IsCache`); `Trimmed` is what an eviction leaves. The bytes are the cardinality of a union of blocks, one for each key, so that
  additions and saturating subtractions become facts about finite sets.
* **EntrySiteProofs**: `GuardExitsStop` and `NoOtherFailure`, for any number of threads and any
  thresholds. The bound on exits is not inductive: `Accounted` adds, while a case has no bridge, the threads that
  are about to be counted, and afterwards those that had passed the test for a bridge before
  there was one.
* **SnapshotProofs**: that the check of uses does what it is for. `VerifiedReadsDefined`: whatever
  body the verifier accepts, of any size and control flow, no replay of it reads a value that was
  not to be defined before, for any arguments, heap and integer width; `ReadsAreDefined` is the
  run's property. A replay is followed through `Between` two blocks and `Within` one: what
  has been defined there is what the dominators of the block define, and, in front of an
  instruction, what the block defines before it. `DominatorsPassOn` (a dominator of a block
  that is not the block dominates its predecessors) is what the step from block to block needs.
  The second half is about the passes that rewrite instructions one by one. Five theorems
  (`FoldingMeansTheSame`, `LoweringMeansTheSame`, `InliningMeansTheSame`, `ForwardingMeansTheSame`,
  `NumberingMeansTheSame`) say that the replay of the body they make *is* the replay of the body they
  were given: outcome, values, heap, reads of undefined values and all, for every verified body,
  arguments and heap. A pass remembers something of the instructions it has walked past
  (constants, sums, the last store), and the invariant along the walk says that the run holds it: `Folded`,
  `Numbered`, `Stored`. It survives the next instruction because the verifier lets a value be
  defined once and be used after that only (`OutsDiffer`, `UsedBefore`). `SameAlong` turns a walk
  that does the same instruction by instruction into a block that does, `SameRuns` blocks into bodies.
  `PassesKeepRuns` and `UnmovedMeansTheSame` put them together in the pipeline: whatever the drafts,
  a compilation in which no object is replaced and no instruction is hoisted keeps `MeansTheSame`,
  and by `UnmovedFrameIsRebuilt` what the engine rebuilds at an exit is the draft's frame
  (`FrameIsRebuilt`): the run that exits is the draft's run and the recipe is the draft's recipe.
  The third part is about the verifier's approval. `RefitVerified`: a body whose instructions are
  replaced by ones that fit (same output and type, operands that may be used there, well typed, no new
  barrier, new operands neither borrowed across a barrier nor names of the owned list) is verified
  if the first was. By it
  `FoldingVerifies`, `LoweringVerifies` and `NumberingVerifies` hold of every verified body,
  `InliningVerifies` of those with calls recorded as `CallsAdd` says, and `ForwardingVerifies` of
  those with reads recorded as `GetsRead` says. `StillPassesVerify` is `PassesVerify` for every compilation
  that replaces no object and hoists nothing. Its invariant, `GoesWell`, adds to the stage that
  a sealed body is still recorded so: a pass makes no call and no read of a field that was not there.

The assumptions are those of the modules: `Handle`, `Cycle`, `Key`, `Holder` and `Thread` are
finite sets, `NoOne` is not a thread and `Unset` no case, `MaxBridges` is at least the number of
cases there are (4 and 2 in the code), and limits and thresholds are numbers. `DraftsAssumption` and
`HeapAssumption` say that a body is entered with a vector of values, and that the handles of a heap
are among the numbers it has room for. `RecordersAssumption` says of the drafts that pass the verifier what
`object_osr/snapshot.rs`, where calls and single reads are recorded, writes down: a call of a proven callee takes two
integers and gives one (`direct_call_draft`), and a read of a field has the effect of a read
(`operation_parts`); `trace/recording.rs` could record others, but only tests use it. TLC checks all three on the drafts of the run, some of which the verifier refuses.

**What is model-checked only, and why.**

* The liveness properties of `Safepoint`: temporal reasoning with
  fairness is beyond the installed provers.
* `MeansTheSame`, `PassesVerify` and `FrameIsRebuilt` past `ScalarReplace` and `HoistOne`, the two passes that
  move or drop instructions. After them runs agree in their `Effect` only; the first keeps the
  meaning under `KeysApart` and the approval under `ReadWhereMade` only, predicates on whole bodies and runs, and
  walks the code with folds, about which nothing can be proved by induction here. The second
  runs an instruction before the loop that the loop may not have reached: that it cannot fail
  there needs the types of the values at run time, which the verifier gives the code and not the inputs.
* `LoopEnds` of `ObjectLoop`: a step of a loop is a whole run of recorded code, and that a pass over it makes
  progress is what its bytecode says, not the module.
* `MachineAgrees`, `StaysInside`, `RefusesForCause`, `AsInterpreted`: they compare a model of a back end, or of recorded
  loops, with a meaning, over all of their operations; what they hold for is given by exemptions
  (section 4) that are predicates on whole runs.
* Everything about `WvmInterpreter`: it reaches the `RECURSIVE` operators of the front end, which a module with
  a theorem may not.

## 6. Mutants

Each property of each passing run has a mutant: an operator defined before the one it replaces,
with a comment that begins "As if". It is a bug the code could have: a missing reset, a sweep that
forgets the pins, a count that is off by one, an eviction that ignores leases.

## 7. Plan

Done: all modules of section 2 and the eight proof modules, with every safety property proved that
section 5 does not leave to TLC. What would come next, in this order:

1. Proofs: a typed run (each value defined has the type the verifier gave it, from inputs that
   do), and by it that hoisting leaves the `Effect` of a run as it is.
2. `ObjectTransfer` (`integration/object_osr/*`, `object/heap.rs`): objects moved between the two
   heaps, on every exit and every error path; abstractly, each object is in exactly one place.
3. `RegionTiering` (`profiler.rs`, `planner.rs`, `wvm/jit_runtime*`): region states, suppression,
   exits and tiers of the first JIT.
4. `TypedList`, `DenseObjects` (`lists.rs`, `objects.rs`, `shapes.rs`, `pic.rs`): storage kinds of the
   adaptive heap, shape transitions and the caches of them.
5. The recorders (`entry_trace/*`, the rest of `loop_snapshot/*`): bytecode to snapshot, composed with
   `WvmInterpreter` and `SnapshotReplay`, which have both ends of it.
6. `LockOrder` (`integration.rs:36`): the order of locks stated in its comment.

## 8. Not modelled, and why

* **Command line, reports, metrics**: formatting and counting; the profile file is read and
  written in one go.
* **WXIR v1 and the code generation of JIT v1**: superseded by `adaptive_v2`, which is the default.
* **Parts with a module in the plan**: listed there; `PROJECT.json` has the status of each.
* Of the front end and the interpreter: strings, dictionaries, classes, methods, attributes, slices,
  `/` and `**`; floats are whole numbers. Of the structure map: escape and mutation facts, guard
  placement and region summaries, which no modelled part reads. The caches of constants and call
  targets, which hold what would be made again.
* Of the loops: lists that are split or owned by the code, handle scopes, collisions of case hashes,
  and a loop inside another that is being recorded (`loop_osr.rs:170`), which is declined.
  Of the snapshots: floats' division and power, calls of other functions in machine code. The back
  ends have their rules for `Backedge`, an exit to a header's pc, but no draft ends a block with one:
  nothing outside the tests makes one, and a replay has no meaning for it (`replay.rs:95`).
* Of arithmetic: `LoweringMeans` compares the code a program is lowered to with the program's
  meaning over the same operations on values, `WvmValues`. It judges lowering and dispatch; that
  an addition adds is not checked there.
* Of the heap: `PublicHeap` sweeps its payloads in one step, the code handle by handle under the lock
  of each map. `CodeCache` has no caller that inserts a key it holds a lease of.
* Of the other parts: lock poisoning (no code panics under the locks in question), the scan
  order of collections, static hints, which nothing reads, statistics, object arguments of
  `EntrySite` (part of `ObjectTransfer`), a bridge or tier-2 code that fails to compile
  (`tiered/bridge.rs:74`, `tiered.rs:214`).
