# A verification project for nvhashmap

nvhashmap is a header-only C++ library of hash maps: an open-addressing table
whose buckets are searched with SIMD kernels (`map`), a set-associative
cache on the same layout (`cache`), wrappers that make either of them thread-safe
(`guarded`) and spread it over several tables (`sharded`), and a small shared
mutex (`spin_wait_mutex`). This directory models it in TLA+, checks the models
with TLC on small instances, and proves the central invariants with TLAPS for
every size. Paths below are relative to `src/include/nvhashmap/`.

## 1. Inventory

| Component | State it keeps | Operations | What makes it correct |
|---|---|---|---|
| `map` (map.hpp) | arrays of slot states, keys, values and blobs; `bucket_mask_`; the counters `num_empty_`, `num_tombstone_`; `grow_threshold_` | find, insert, update, erase (first, next, at, if, all), resize, scrub, shrink, clear | a look-up finds exactly what is stored; no key twice unless allowed; no operation loses an entry; searches end; counters are exact |
| `raw_map_base`, `swiss_map_base` | the configuration | the public interface of map and cache, iterators, copying and moving | the same, seen from the caller |
| `conf` | capacities and biases | thresholds of growth, scrub and shrink | an empty slot is left in every table |
| `probe_seq` | base, shift, probe length | next, advance | every bucket is visited once |
| `kernel`, `mask` | none | masks of the slots of a bucket | every kernel, on every platform, returns the lanes that the portable one returns, and changes no other slot |
| `hash` | none | start position and fingerprint of a hash | both are functions of the key |
| `spin_wait_mutex` (mutex.hpp) | one atomic integer | lock, lock_shared, try_lock, try_lock_shared, unlock, unlock_shared, downgrade, try_upgrade, upgrade_or_relock | exclusion; no lost wake-up; upgrade and downgrade let nobody in between |
| `cache` (cache.hpp) | slot states and, per slot, a count of hits; one bucket per key; `num_empty_` | as map; every hit updates the counts of its bucket; insert replaces the entry with the lowest count | an entry is in the bucket of its key, once; nothing goes but by a replacement, an erasure or a change of capacity; a resize keeps the hottest |
| `guarded` (guarded.hpp) | a map and a shared mutex; positions and iterators hold a lock | as map, under a shared or an exclusive lock; find_all, update_all; walks with callbacks; assignment, swap and comparison of two maps | what was found under a lock is still there when used; no lock is left behind; calls return |
| `sharded` (sharded.hpp) | an array of guarded maps; iterators and positions hold the lock of one shard | forwards to the shard of the key; walks, sums and iterators over all shards | iterators own the lock of the shard they are in; a loop meets everything that stays and nothing twice; loops and walks do not deadlock |
| `common`, `stdlib_ext` | none | positions and alignment; bit operations that stand in for those of the standard | they agree with the standard at every width used, at zero and at the top bit |
| `std_map_shim`, `container`, `allocator`, `memory`, `prefetch` | none of their own | adapters, traits, memory, hints | — |

How they interact: `map` and `cache` call the kernel, the mask and the probe
sequence in every search; `resize_` and `scrub_` are called in the middle of
`insert_` and of the erasures. `guarded` calls the map under its mutex, and
`sharded` calls one or all of its guarded maps. Nothing is concurrent below
`guarded`; the mutex is where threads meet.

What is hard here: a table's correctness is a property of its whole history (an
erasure decides by the neighbours of a slot whether a search may end there
later); entries move while the table is walked over; a bounded sequence makes an
insertion or a resize start over half-way; the mutex is a hand-written protocol
of loads, exchanges, sleeps and notifications; an iterator over shards holds one
lock while it waits for the next; and one contract is implemented by a dozen kernels
of which a machine runs one. `PROJECT.json` lists the hazards
with their lines and the properties that cover them.

## 2. Plan

Done:

1. `SwissMap` with `Dictionary` (what a map promises), `ProbeSeq`; proofs of type
   correctness and of the reachability of entries.
2. `SpinWaitMutex` with `RWLock` (what a shared mutex promises), `upgrade_or_relock`
   included; proofs of exclusion, wake-ups and refinement.
3. `Cache` with `LossyDictionary` (what a cache promises); proofs of the placement
   of entries and of what a resize keeps.
4. `Guarded`: threads that call maps behind the shared mutex, with the positions and
   iterators that keep its lock.
5. `Sharded`: operations with a key, walks and iterators over several guarded maps,
   forwards and backwards, with end iterators and erasure in the middle of a loop.
6. The kernels and masks: one contract (`KernelContract`, `MaskContract`), the portable
   kernel as its reference (`ArrayKernel`, `BitsetMask`), and a module for each of the
   other kernels, down to the instructions and the bits.

7. The proofs of what the runs check: the counters, keys, iteration, refinement and end of
   probing of `SwissMap`; the counts, refinement and growth of `Cache`; locks, positions and
   walks of `Guarded`; locks, positions, loops and walks of `Sharded`.
8. The proofs about the pure algorithms: the probe sequences, with which the end of probing
   rests on nothing but the configuration, and the word-at-a-time kernel at every size.

Next, in this order:

9. Proofs about the other kernels, starting with those whose mask has a bit per slot, and
   about the counts of hits and the cuts of masks (`CountsAgree`, `MasksWalk`).
10. Copying, moving and swapping whole maps.

## 3. Modules

### SwissMap (map.hpp, conf.hpp, raw_map_base.hpp)

The state is the table: the number of buckets, the slots (each `Empty`,
`Tombstone` or an entry `<<key, value>>`) indexed by `<<bucket, lane>>`, and the
two counters. Fingerprints are left out: equal keys have equal fingerprints and
each match is confirmed by the keys. `Probe(k, n, j)` is the bucket that step `j`
of the sequence of `k` meets in a table of `n` buckets; for the proofs it is any
operator that stays in the table.

The map is sequential, so a search together with the write at the slot it found
is one action. `resize_` and `scrub_` are walks over the whole table that other
code calls in its middle; they take a step per entry (`RehashEntry`,
`ScrubEntry`), so that what holds half-way is visible, and `pc` keeps other
operations out. `pending` is the insertion that has to be finished after a growth.

| Code | Model |
|---|---|
| `find_first_`, `find_next_` | `FoundAt`, `FindsNext` (with `FirstIn`, `LowestIn` for the probe loop and the mask) |
| `insert_` | `Insert`, `InsertTurn`, `RetryInsert` (the turn after a growth) |
| `update` | `Update` |
| `erase_first_`, `erase_next_`, `erase_at_`, `erase_if_`, `erase_all_` | `EraseFirst`, `EraseNext`, `EraseAt`, `EraseIf`, `EraseAll`, all through `EraseSlots` (`reset_slot_` and `auto_shrink_and_scub_`) |
| `resize_` | `StartResize`, `RehashEntry`, `FinishResize` |
| `scrub_` | `StartScrub`, `ScrubEntry`, `NextPass`, `FinishScrub` |
| `resize`, `reserve`, `grow`, `shrink`, `scrub`, `clear` | the actions of these names |
| `conf::should_scrub`, `should_shrink`, `grow_threshold`; `shrink_target_` | the operators of these names |

An insertion stands for `operator[]` and for `insert` followed by a write of the
value through the position, so it overwrites the value of a key it finds. The
scrub's local counters are updated in place. A request that would lead to more
than `MaxBuckets` buckets is not made; this is the only bound of the model.

### Dictionary

A multiset of entries (`content`) with `busy` and `request` for an operation that
takes time. `SwissMap!content` is the refinement mapping: the entries in the
slots, and during a resize those still in the old table.

### ProbeSeq

`linear_seq` and `quadratic_seq` with their aligned and unaligned variants, in
positions as the code has them. `MCSwissMap` takes its `Probe` from it, and
`MCProbeSeq` walks every sequence through a table.

### SpinWaitMutex and RWLock

`state` is `state_`; per thread there are the place in the code, the function it
is in, the local `s` and the local `i`. Each load, exchange, wait and notification
is a step. `compare_exchange_weak` may fail for no reason; `std::atomic::wait`
sleeps only if the value is the one given, and goes back to sleep if it is woken
and the value is the same. The value of `seen` is forgotten (set to 0) when the
code does not use it any more, and `iter` stops at `SpinIterations`. All accesses
are to one atomic, so the order of its modifications is total and memory orders
are irrelevant to the protocol; what they order (accesses to the data the mutex
protects) is not part of this module. `RWLock` is the promise: one exclusive owner
or any number of sharers, with upgrade and downgrade as single steps.
`upgrade_or_relock` is `TryUpgrade`, or `UpgradeFails` and then `Relock` (its
`unlock_shared()`), a notification if it was the last reader, and `lock()`.

### Cache and LossyDictionary (cache.hpp, kernel.hpp)

The slots are `Empty` or an entry, and each has a count (`lru_t`), which it keeps
when it is erased. There are no tombstones, since a key is only looked for in one
bucket (`Home`). `update_lru` is the function of the kernel: the slot that is hit
counts one more, and if its count is at the limit all counts of the bucket are halved
first. A look-up is const in the code but writes the counts of the whole bucket;
`OverlappingFinds` is two look-ups of one bucket under a shared lock, whose stores
race: each count then is what one of the two wrote. A hit can be lost, and halved counts can
stand beside others, so that the ranking of `HitRanks` is not kept; `RacingHits` is what is. `resize_` takes a step per
entry of the old table (`RehashEntry`), which puts an entry into a free slot, replaces
a colder entry or drops the entry. `LossyDictionary` is what is promised: a set of
entries from which a replacement, an erasure or a change of the capacity may remove.

### Guarded (guarded.hpp, with `downgrade` of mutex.hpp)

Each map has its places (`place`: the key at each position) and its mutex (`owner`,
`shares`: the abstract lock of `RWLock`, with a count per thread because a thread may
share a mutex several times). A thread is in a call (`pc`, `call`) or its caller has
positions (`held`), each with the place, the key it was given for, and the lock
it owns. An inner operation is one step under its lock; if it writes, it may move
every entry, as a resize does. Walks take a step per entry, because they call back
(`ForEachVisits`) or lock again (`FindAllVisits`). `update_all` returns positions
without locks and moves its own into the last one. Operations of two maps use
`std::lock`, which is external: one mutex is locked, the other is tried, and the first
is released if that fails. A caller drops its positions before it makes a call
that would wait for them; it may make further const calls of the same map.

| Code | Model |
|---|---|
| `find`, `find_first`, `find_if`, `update`, `update_first`, `update_if` | `Find` |
| `begin`; `++`, `--` and `to_iterator` | `Begin`; `MoveIterator` |
| `insert`, `insert_ex`; `erase_first`; `erase_next`, `erase_at` | `Insert`; `EraseFirst`; `EraseThrough` |
| `erase`, `erase_if`, `erase_all`, `clear`, `grow`, `reserve`, `resize`, `scrub`, `shrink` | `Change` |
| `for_each` of all kinds, `find_all`, `update_all` | `StartWalk`, `ForEachVisits`, `FindAllVisits`, `UpdateAllVisits`, `WalkEnds`, `UpdateAllEnds` |
| `find_next`, `update_next`; `downgrade` | `FindNext`; `Downgrade` |
| `operator=`, `swap`, `operator==` | `LockOne`, `TryOther`, `BackOff`, `Pair` |
| destructors of positions and iterators | `Drop` |

### Sharded (sharded.hpp, with the iterators of guarded.hpp and raw_map_base.hpp)

Each shard is a map (`place`: the key at each of its positions) and a mutex (`writer`,
`readers`). A call of one shard is a single step, since `Guarded` shows that calls of one
guarded map do not disturb one another; what outlives it is the lock in a position or an
iterator (`iter`). When a shard is written, its entries may be rearranged and its
capacity may change, within `Caps`. Walks over all shards (`call.shard` is the next one)
are a step per shard. An iterator that leaves a shard evaluates `begin()` of the next
one, which locks it (`LockNext`), and is then assigned, which releases the lock before
(`Enter`): in between it holds both. `seen` and `span` are history variables: the keys a
walk has met, and the keys that were in the table all the time and some time during it.

| Code | Model |
|---|---|
| `hash_to_shard_idx`, `to_shard` | `to_shard_idx` |
| `find`, `find_first`, `find_all`, `update`, ...; `insert`, `operator[]`; `erase` | `Find`; `Insert`; `Erase` |
| `erase_at`, `erase_next`; `downgrade`; `to_iterator` | `EraseAt`; `Downgrade`; `ToIterator` |
| `size`, `capacity`, `count_if`; `is_empty`, `is_full`, `check_integrity` | `AddSize`; `IsEmpty` |
| `find_if`, `update_if`; `for_each` | `FindIf`; `ForEach` |
| `erase_if`, `clear`, `grow`, `reserve`, `resize`, `scrub`, `shrink` | `Change` |
| `begin()`; `it != end()` | `Begin`, `BeginIsEnd`; `Test` |
| `operator++`; `operator--`; `iterator::erase` | `Advance`, `LockNext`, `Enter`; `Retreat`; `EraseIt` |
| destructors | `Drop` |

Using an iterator without a lock, or one behind the end, fails an assertion of the
code; the model stops there (`Aborted`). This can happen in two ways: backwards over
the border of shards (the run `sharded_backward`), and after `begin()` on a table that
was empty, whose iterator without a lock is no longer the end when another thread has
resized the last shard before the comparison.

### Kernels and masks (kernel.hpp, mask.hpp, common.hpp, stdlib_ext.hpp)

`ArrayKernel` is the kernel that is written as loops over the slots; with masks as sets
of slots (`BitsetMask`) it is what all the others must compute, and what `SwissMap` and
`Cache` take a bucket to be. `Bytes` has signed and unsigned bytes, `Words` integers of a
given width as the sets of their one bits (so that 64 and 128 bits can be checked), and
`BitOps` the bit operations of stdlib_ext.hpp with their fallbacks. `UintMask` and
`SveMask` are the other mask types. `UintKernel` is the word-at-a-time kernel, exact and
fast; `SseKernel` (in its variants for SSE2, SSSE3, SSE4.1 and AVX-512BW/VL), `AvxKernel`,
`Avx512Kernel`, `Neon8Kernel` to `Neon64Kernel` and `SveKernel` follow their code
instruction by instruction, on the instructions in `X86`, `Neon` and `SveKernel`, which
are external: they are modelled from the documented effect that the code relies on. Each
of them instantiates `KernelContract` with its own definitions; a mask of a vector kernel
is whatever the code has (a word with one, four or eight bits per slot, a predicate).

`MCKernels` is the driver, and models no code: a bucket that is written as the map and the
cache write it (insert, erase, hit, scrub, expire) by the portable kernel. It may be
discarded in every state, and everything the kernel at hand computes on it is then compared
with the portable one: the properties are action properties of that one step, so that each
state of a bucket is examined exactly once.
`MCAlgorithms` puts it and `MCProbeSeq` into one run.

## 4. Runs

| Run | What it checks |
|---|---|
| `swissmap` | all orders of operations with automatic scrub and shrink: `TypeOK`, `CountersExact`, `TombstonesOnlyInFullBuckets`, `EntriesReachable`, `PassProgress`, `KeysUnique`, `LookupFindsStoredKeys`, `ProbingEnds`; the map implements `Dictionary`; `OperationsEnd` |
| `multimap` | duplicates: `IterationComplete` (no entry of a key is missed, none is met twice), `EraseIsExact` |
| `bounded` | a bounded sequence, insertions and resizes that start over: `ImplementsDictionary`, `OperationsEnd` |
| `algorithms` | `VisitsEveryBucketOnce` (and the line it starts in first) for all sequences, starts and alignments; for 17 kernels `MasksAgree`, `SearchesAgree`, `RewritesAgree`, `CountsAgree`; `MasksWalk` for their masks; `BitOpsAgree` for 32, 64 and 128 bits |
| `mutex` | three fair threads, as many as the integer can count: `StateCountsHolders`, `NoLostWakeUp`, `ImplementsRWLock`, `CallsReturn` |
| `cache` | `NumEmptyExact`, `EntriesAtHome`, `HottestKept`, `HitsRank` (a hit ranks the entries of a bucket also when it halves the counts; two that race leave every count between its half and one more); the cache implements `LossyDictionary` |
| `cache_growth` | duplicates and growth: `GrowthKeepsEntries` |
| `guarded` | two threads, two maps: `PositionsValid`, `LocksAccountedFor`, `CallsUndisturbed` (nobody else changes a map that a call is inside or walks over), `CallsReturn` |
| `sharded` | two threads, two shards: `LocksFollowIterators`, `PositionsValid`, `LoopsMeetAll`, `WalksConsistent`, `CallsReturn` |
| `kernel_of_one`, `find_next`, `sharded_backward` | disagreements between the code and what it says of itself, below |

Bounds. `swissmap` has buckets of two slots, up to four buckets
and six keys of which three start in bucket 0 and two in bucket 1: chains run over
two and three buckets, tombstones appear, are reused and reclaimed, the table grows
twice and shrinks, and a scrub needs several passes. Three buckets of one chain are
what it takes for an entry to be hidden by a slot emptied between it and its start.
`multimap` has four slots per bucket, so that a search resumes in the middle, at the
end and behind the end of a bucket. `bounded` allows one probe and has three keys
whose starts differ only in bits that a larger table uses, so that a growth is in
vain twice. In `mutex` three threads are one or two sleepers, one that wakes them
and one that interferes, with upgrades and downgrades while the lock is held, two
readers that upgrade at the same time among them; `MaxReaders` is 3, so that the count
of readers reaches its limit. It does not go beyond: one reader more would wrap the integer
around, and as the code only asserts that this does not happen ("Mutex reader overflow!",
mutex.hpp), `ReadersAssumption` excludes it and no property is about it. The theorems about the mutex hold for any number of
threads and calls. `algorithms` covers all alignments smaller than, equal to and larger
than the kernel and the table, and kernels of 1 to 64 slots with the smallest and the
largest fingerprint, counts that start just below the sign bit and at the limit, and
slots at both ends and on both sides of the middle of a register, where halves of it are
packed together; a bucket starts empty, or with entries and either empty slots or
tombstones between them, and takes two operations, one if it has more than eight slots.
`cache` has buckets of two slots, one or two of them, and counts of two bits, so that they are halved often; `cache_growth` goes from
two to four buckets with duplicates. In `guarded` both maps start empty or full of
duplicates, so that `find_all` and `update_all` have no match or two, insertions grow,
replace or find, and one thread makes a second call while it has positions. In
`sharded` one thread walks or loops over the table, from empty or filled shards of one or
two positions, while the other one makes two calls, loops that erase as they go among
them: everything in the table can be added, moved and removed in front of the walk and
behind it.

The type invariant of `SwissMap` is a property of its own, stated by a theorem; those of
`Cache`, `Guarded` and `Sharded` are the first conjunct of `NumEmptyExact`,
`LocksAccountedFor` and `LocksFollowIterators`.

Deadlock is not checked in `mutex`, `guarded` and `sharded`, where each thread makes a
limited number of calls and then stops, and in `algorithms`, where a walk ends and the
history of a bucket is bounded; there `CallsReturn` says that nobody waits for ever.

Fairness. `SwissMap!FairSpec` assumes only that an operation that has begun goes on
(`WF` of its internal steps): the map is sequential code. `SpinWaitMutex!FairSpec`
assumes that a thread inside a function is not suspended for ever (`WF` of its
steps), that an owner releases the lock in the end (`SF`, since a downgrade or an
upgrade can interrupt), and that an exchange that can succeed again and again does
(`SF` of `Claim`: the weak exchange does not fail for no reason for ever).
`Guarded!FairSpec` assumes that threads inside a call go on, that callers drop their
positions in the end, and that a try of `std::lock` that could succeed again and again
does (`SF`): two threads that back off in step for ever are excluded.
`Sharded!FairSpec` assumes that threads inside a call or a loop go on and that callers
drop what they have (`WF`); its `CallsReturn` ends when the program aborts. A stream of
readers without end may keep a writer out; the number of calls is finite.

### Disagreements

* `kernel_of_one`: with one slot per bucket `scrub_` can hide an entry. It stops
  after a pass that moved one entry (map.hpp:1010); the slot that entry left can be
  a bucket of its own on the way to an entry visited earlier, and is reclaimed as
  dead. The comments (map.hpp:944-946, 1027) say that all passes are complete then.
  With two or more slots the theorem `Reachability` shows that it cannot happen.
* `find_next`: from the last slot of a bucket `find_next_` and `erase_next_` go on to
  the next bucket without the test for an empty slot. If no other bucket has one,
  the assertion "Table is full. Should not happen!" (map.hpp:508, 531) fails.
* `sharded_backward`: an iterator of `sharded<guarded>` that moves backwards past the
  first entry of a shard becomes the `end()` of the shard before (sharded.hpp:201), which
  owns no lock, and is moved on: the assertion "Unsupported operation with this
  iterator!" (guarded.hpp:187) fails, and without it the shard is read unlocked.

Observed while modelling, without a run of their own:

* `insert_ex` returns the position of a reused tombstone with the sequence at which the
  search ended, which is not the "associated probe sequence" (raw_map_base.hpp:937) and
  fails the assertion of `find_next_` (map.hpp:500).
* The cache is said to have an "LRU replacement policy" (cache.hpp:33); it replaces the
  entry with the fewest hits (cache.hpp:555), which can be the one that was used last.
* The false positives of the fast kernels are said to affect "only `mask(k, s)`"
  (kernel.hpp:96-98); `mask_not` is its complement (kernel.hpp:476) and misses the same
  slots, and `count_collisions` counts them. No container calls `mask_not` of a hash on
  them, and the tests leave it out (tests/test_kernels.cpp:98). `SearchesAgree` allows it.
* Two look-ups of the cache under a shared lock overwrite each other's counts: one hit may be
  lost, and if one of the two halves the counts, an entry may fall behind others that it was
  level with. `HitsRank` states what still holds.
* An iterator that erases with `iterator::erase` while the map shrinks can be left at a
  position behind the end; `LoopsMeetAll` says what still holds then.
* A map that was moved from, and one whose `resize_` failed to allocate, keep their
  capacity with null arrays; an assignment from a map of the same capacity copies into
  them (raw_map_base.hpp:320-340).

## 5. Proofs

Every theorem is about all sizes: any kernel, table, set of keys, number of threads,
maps, shards and calls, and any contents they start with. Liveness apart, each property of
the runs of `SwissMap`, `SpinWaitMutex`, `Cache`, `Guarded` and `Sharded` that are expected
to hold has a theorem, and so has that of the probe sequences; of the properties of kernels
there are theorems for the word-at-a-time kernel only.

### Assumptions

Those of the modules, which TLC evaluates in every run: sizes are positive, `Empty`,
`Tombstone` and `None` are no entries, keys or threads, a probe sequence stays in the table
(`ProbeAssumption`), there are no more threads than the mutex can count
(`ReadersAssumption`, an assertion of the code), and the tables that threads start with hold each key once, in its
shard (`ContentsAssumption`). Some theorems have more:

* `KernelSize > 1`: all of `SwissMap` but `TypeCorrect`. With one slot per bucket they are
  false (`kernel_of_one`).
* `Configured` of `SwissMapCountProofs` (for `ProbingAlwaysEnds`): the kernel size and the
  capacities are powers of two and `2 <= GrowBias <= MinCapacity`, which is what
  `conf::set_capacity`, `set_grow_bias` and `is_valid` see to (conf.hpp:63-68, 123-136, 155);
  `MaxBuckets * KernelSize <= 2^23`, since `bit_ceil` ends at `2^24` in the model.
* `SequencesNeverRepeat`, `MaxProbes = 0` and `Configured` (for `IterationMeetsAll`): in a
  table of a power of two of buckets no two steps of a sequence are in one bucket. It is
  proved of the quadratic sequence: `QuadraticIterationMeetsAll`. A bounded sequence may be
  longer than the table and come round; that it misses nothing is `IterationMissesNone`.
* `SequencesMeetAll` (for `ProbingAlwaysEnds`): in a table of a power of two of buckets the
  sequence of every key meets every bucket. It is proved of the quadratic sequence, the
  default of the map: `QuadraticProbingEnds` has the code's sequence for `Probe`, from any
  start, and assumes nothing else about it.
* `WalkAssumption` of `ProbeWalkProofs` (for `EveryBucketOnce`): tables, kernels and alignments
  are powers of two, which the code asserts (common.hpp:399-412, conf.hpp:66, hash.hpp:51).
* `Fits` of `AlgorithmProofs` (for the kernels): at least one slot, and a mask with a bit for
  each bit of the bucket.
* `Configured` of `CacheProofs` (for `GrowthDropsNothing`): the kernel size and the capacities
  are powers of two, and no table has more than `2^24` slots.

`MCSwissMap.cfg`, `MCCache.cfg`, `MCCacheGrowth.cfg` and `MCAlgorithms.cfg` satisfy them.

### SwissMap

The proofs build on one another. `SwissMapProofs` has `TypeCorrect` (`TypeOK`), by one lemma
per action: every write is at a position of the table at hand, also across a change of the
table in the middle of an insertion, and a walk only visits positions of the table it walks
over. Its lemmas `CallCases` and `NextCases` sort the actions by what they do to the table
and all later proofs split on them.

`Reachability`: `TombstonesOnlyInFullBuckets` and `EntriesReachable`.
The latter is not inductive: an insertion that reuses a tombstone keeps it
because a bucket with a tombstone has no empty slot, and the end of a scrub turns
tombstones into empty slots, which is harmless only for what the passes have established.
This is `PassProgress`: the entries already visited in the present pass are in their first
bucket as long as `psl_bits` is zero; if nothing was moved in the pass, no bucket
on the way to a visited entry has a free slot; and if at most one entry was moved,
each of these buckets still holds an entry, so it is not dead. The last part is
where the kernel size comes in: a bucket that was full before the one move holds
`KernelSize - 1 > 0` entries after it. `LookupCorrect` follows: a look-up finds
exactly the stored keys, for every hash function and every sequence, bounded or not.

`SwissMapCountProofs` adds the counters and uniqueness; the inductive invariant is now the
`IInv` of `SwissMap` (`InductiveInvariant`). `CountersExact` needs `ResizeCounters`, because
`resize_` subtracts the entries it moves only at its end: until then `num_empty` is the
number of empty slots plus the entries moved so far. `KeysUnique` needs `ResizeUnique`, the
same for a key on the way from the old table to the new, and it needs the counters: `insert_`
ends its search by `num_tombstone_`, so a wrong count would let a key in twice. From
`IInv` follow `CountersCorrect`, `KeysStayUnique`, `BucketsSound`, `ScrubFlagsSound` and
`IterationMissesNone` (`NoneMissed`): when no entry follows, all have been passed.

`IterationMeetsAll` (`IterationComplete`) adds that none is met again (`NoneTwice`): the
entry that follows lies behind the position at hand, or in a bucket no earlier step has met.
It has the sequences of tables of a power of two of buckets, hence `Room`, which is next.
Both are about the steps below the capacity, in which `find_next_` asserts that it stays;
the run `find_next` shows when it does not.

`ProbingAlwaysEnds` (`ProbingEnds`) has an invariant of its own, `Room`: the table has a
power of two of buckets, and one slot is empty beyond what the entries still to be moved
will take (`Spare`), two while an insertion waits for a resize. It is where the arithmetic
of conf.hpp is needed: every capacity that `resize`, `reserve`, `grow`, `shrink` or `clear`
asks for, halved capacities of `shrink_target_` included, is a power of two or zero
(`AskedSizes`), the capacity `resize_` makes of it is a power of two above the number of
entries (`ResizeTarget`), hence a whole number of buckets, and the growth threshold is never
zero (`Threshold`), so an insertion that need not grow leaves an empty slot.

`QuadraticProbingEnds` adds that the code's sequence satisfies `SequencesMeetAll`, below, and
`QuadraticIterationMeetsAll` that it satisfies `SequencesNeverRepeat`.

`MapImplementsDictionary` is proved step by step, and with it `ErasuresExact` (`EraseIsExact`). The mapping counts an entry in the slots and among those to be moved
(`content`), so a move of `resize_` or `scrub_` is a stutter. Two invariants are added: what
is to be moved and what was moved together are the old table, also when a resize starts
over (`ResizeConserves`), and no request is kept outside of a growth (`NoRequest`).

### SpinWaitMutex

`HoldersExact`, `WakeUpsReach` and `MutexRefinesLock`. The inductive invariant is `IInv`: the
state counts the owners, a sleeper has an awake thread to rely on, and a thread about to sleep
saw a state it could not claim (`SleepersSawOwner`); without the last part a thread could
fall asleep on a free mutex and be the only one.

### Cache

The inductive invariant `IInv` has, besides the type, `EntriesAtHome` (an entry is in the bucket
of its key, and the only one of its key unless duplicates are allowed: `AtHome`),
`HottestKept` (an entry that a resize dropped belongs to a bucket full of entries that are at
least as hot: `ResizeKeepsHottest`) and `ResizeUnique`: in the middle of a resize no key is
both in the new table and among the entries still to be moved, without which the next
`RehashEntry` could store it twice. `EmptyCounted` (`NumEmptyExact`) counts the slots each
action writes. `HitsCount` (`HitsRank`) is an action property and needs the type only: the
halving of the counts keeps their order (`HitRanks`), and of two look-ups that race
each count is what one of them stored (`OneOfTwoStores`), within the bounds of
`OneStore` (`RacingHits`). `CacheForgetsOnly` is the refinement of
`LossyDictionary`, by the entries in the slots and those still to be moved. `GrowthDropsNothing`
(`GrowthKeepsEntries`) has the inductive invariant `GrowthInv`: with powers of two,
a bucket of a larger table gets entries from one bucket of the old table only, and never holds
more than were visited for it, so that it is not full when the next one comes.

### Guarded

The inductive invariant `IInv` is `Core`, the shapes of calls and positions by the place in the
code (`CallShape`), exclusion of owners and sharers, and an account of each thread's locks
by its call and its positions (`Accounted`), and `PositionsValid`. Every action is a lemma; the
core of the argument is that a place changes only under the lock of its owner, and by
`Accounted` nobody else has a position with a lock of that map then. `LocksAccounted`,
`PositionsStayValid` and, for steps, `NobodyDisturbsCalls` (`CallsUndisturbed`) follow. The
attempt brought up a definition that was wrong with three or more maps: the try of `std::lock`
was stated for a map outside of the call, where its mode is undefined.

### Sharded

`Core` is the type, the shapes of calls and iterators, locks (`LockOK`: the lock of a shard is
with the positions and iterators in it, and with both shards while an iterator goes from one
to the next), places (`PlaceOK`: each key is in its shard, once) and `PositionsValid`:
`LocksFollow`, `PositionsStayValid`. `LoopsMeetEverything` and `WalksStayConsistent` are about
the history variables, and their invariants say what holds half-way: what a loop has not
met is ahead of its iterator and what it has met is behind it (`OnTheWay`), and a walk
that is done with the shards below `s` has found what is bounded by what was in these
all the time and some time (`WalkOK`).

### Probe sequences

`AlgorithmProofs` has the closed form of a sequence: the object after `j` steps (`SeqAfter`)
and its bucket (`BucketAt`). In a line of `a` buckets, a sequence that starts at bucket `h` is
at place `(h + j) % a` of the line that is `moved` lines further, with `moved` the number
`j \div a` of turns it has completed or, for the quadratic kind, the triangular number of
it. The position that `MCSwissMap` takes from the recursive function of `ProbeSeq` has that
value: of the steps at which it had not there would be a least one. Two
triangular numbers `l (l + 1) / 2` and `m (m + 1) / 2` that agree modulo a power of two have
`(l - m) (l + m + 1)` divisible by its double; one of the factors is odd, so the other is
divisible by it, for which it is too small. Hence the first `n` steps are in different buckets, and by counting in all
of them: `QuadraticNeverRepeats` and `QuadraticMeetsAll`. `ProbeWalkProofs` carries this to the walk that the run
`algorithms` makes: `WalkInv` says that the object is the one `SeqAfter` names and that the
buckets visited are those of the steps made, and `EveryBucketOnce` (`VisitsEveryBucketOnce`)
follows for every kind, start, alignment, kernel and table.

### The word-at-a-time kernel

`AlgorithmProofs` instantiates `UintKernel` with any number of slots `N`, any width `B` of the
mask (`Fits`) and either comparison. Words are sets of bits there, so the lemmas are about a
bit `8 * i + b` of slot `i`. `Broadcast`: the product of the fingerprint and the word of
lowest bits is the fingerprint in each byte. `ExactMarks` and `FastMarks`: the sum of the exact
comparison carries into the highest bit of a byte and never out of it; the borrow of the fast
one starts in a match and enters only bytes above it, of which it marks those that were one.
Folds of a sum over a set have their value by comparing them with a second function on all
subsets (`FoldsEqual`), which takes the place of an induction. The theorems are clauses of
`KernelContract`: `SwarSearches`, `SwarStates` (the masks and tests of states, the walks over
these masks, and reading a slot), `SwarCompares` and `SwarRewrites`; the first and the last are
what `SearchesAgree` and `RewritesAgree` compare (`SwarAgrees`).

### Only model-checked

Liveness (`OperationsEnd`, `CallsReturn`), which needs `ENABLED` and fairness. Of the kernels:
`MasksAgree`, `SearchesAgree` and `RewritesAgree` for the vector kernels (SSE, AVX, AVX-512,
NEON, SVE), each of which has instructions of its own; the counts of collisions
(`CollisionsExact`, a sum over fingerprints); the counts of hits (`CountsAgree`), whose lowest
slot is found by a recursive function and whose increments are sums of whole words; the
operations that cut masks (`MasksWalk`); and the bit operations with their fallbacks
(`BitOpsAgree`).

## 6. Not modelled

Copying, moving and swapping whole maps and failing allocations, because nothing in the
repository says what such a map is worth afterwards beyond the obvious; prefetching, blobs
(they move with the values), accessors, statistics and the drawing of tables. `Guarded`
leaves out accessors of a position (they check that it belongs to the mutex of the map and
read or write its value) and positions of `update_all` after the one with the lock is
dropped, which nothing protects. `Sharded` leaves out comparison, swap and assignment of
whole tables, which go over the shards as `Pair` of `Guarded` does over one. Iterators that
erase are modelled over the abstract shards of `Sharded`, not over `SwissMap`: where an
automatic shrink or scrub puts the entries is left open there. The relocking versions of
`downgrade` and `upgrade_or_relock` for mutexes that can do neither are not used by the
containers. The allocator, memory, prefetch, container and portability headers keep no
state of their own. `std_map_shim` adapts `std::unordered_map` for comparison, and the
tools are benchmarks.
