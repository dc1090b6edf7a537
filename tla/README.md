# TLA+ models of bonsai_debug

bonsai_debug is the profiling and memory-introspection library of the bonsai
engine. The profiled program calls it from every thread: timers on the stack
build a tree of calls per thread and per frame, mutexes and allocations leave
records, arenas register themselves, and a window drawn by the main thread shows
all of it. Almost none of this is protected by a lock. The modules here model
those data structures and the protocols between the threads that share them;
TLC checks them on small instances and TLAPS proves the main invariants for
every instance.

Paths are relative to the repository root. All line numbers are in `PROJECT.json`
(`map`), which says what every definition is translated from.

## Inventory

| component | where | state | operations | shared with |
|---|---|---|---|---|
| profile scope trees | `debug.cpp`, `src/debug_data_system.cpp` | per thread: 128 trees (`Root`, `WriteScope`, `ParentOfNextScope`), the scopes, a free list | timer constructor and destructor, `GetProfileScope`, `FreeScopes`, `InitScopeTree`, `AdvanceThreadState` | the main thread reads every thread's trees |
| frame ring and statistics | `src/debug_data_system.cpp` | `WriteIndex` per thread, `FrameRecorded` per tree, `Frames`, `ReadScopeIndex` | `MainThreadAdvanceDebugSystem`, `WorkerThreadAdvanceDebugSystem`, the frame ticker | workers read the main thread's `WriteIndex`; the callgraph reads the stamps |
| mutex records | `src/debug_data_system.cpp` | an array per thread and frame | `ReserveMutexOpRecord`, `FindRecord` | read by the main thread's window |
| arena registry | `src/debug_data_system.cpp` | 1024 slots, never reclaimed | register, name, unregister, look up | every thread, with one compare-exchange |
| allocation records | `src/debug_data_system.cpp` | a hash table per thread | `WriteMemoryRecord`, `ClearMemoryRecordsFor` | any thread clears records in all tables |
| histogram | both systems | a ring of samples, a cursor, a futex | push (futex), reset and draw (no futex) | every thread pushes |
| draw calls | `src/debug_render_system.cpp`, `debug.cpp` | a hash table | `TrackDrawCall`, the reset of `DebugFrameEnd` | main thread |
| hot function | `src/debug_render_system.cpp` | one pointer to a scope | set by a click, walked each frame | outlives the frame it points into |
| memory window | `src/debug_render_system.cpp` | selected blocks, scratch tables | register memory without an owner, list, select, collate, pack, sort | reads and writes the registry, reads every thread's table |
| context switch stream | `src/platform/win32_etw.cpp` | per thread: list of blocks and free blocks | append, sort, trim | tracing thread writes, main thread draws |
| tracing start-up | `src/platform/win32_etw.cpp` | a status; the kernel's one trace session | wait for threads, close, start, open, process, fail | main thread polls; other programs; the run before |
| start-up | `debug.cpp`, `src/debug_data_system.cpp` | `Initialized`, `ThreadStates` and their fields, one by one | `InitDebugState`, `RegisterThread` | other threads may already call in |

The hard parts are interleavings without locks (the callgraph against workers
that recycle, registrations against each other, clearing against probing), state
kept across frames (timers open while the frame or the profiling flag changes,
`HotFunction`), and structures at their limits (full tables, a ring overrun).
There is no network and there are no timeouts; nothing is persisted, but the
kernel's trace session outlives a process that crashed. `hazards` in
`PROJECT.json` lists the places, each with the properties that would notice it
going wrong or the reason none does.

What makes each component correct:

* trees: no scope leaks, is freed twice or is shared; the cursor never
  overwrites a link; parents and links agree; a reader sees the calls of a frame
  in order; other frames are left alone;
* frame ring: a tree shown to the user is complete and of the frame shown; no
  slot mixes frames; workers follow the main thread and catch up;
* registry: a registered arena is in exactly one live slot, found by lookups;
  slots are refused only when all are taken;
* allocation records: the table accounts for what was pushed, and every call
  returns;
* start-up: whoever uses a thread's state unchecked finds it, whatever the order in
  which threads and callbacks come;
* tracing: the status settles and tells the truth, and a session that a crash left
  behind does not stop the next run;
* context switches: the block list and the free list stay apart, blocks are freed by
  what they hold, only batches of events that lie outside the frames shown, or reach
  over them on both sides, are lost, and drawing follows the list;
* histogram: no push is out of bounds or lost, and a bar is larger than the graph only
  when its sample came while it was drawn;
* draw calls: every call is counted, in the row of its name and count;
* memory window: it registers an arena it found once, and every row it shows has all
  the allocations of its kind in the blocks selected, the largest first.

## Modules

`ScopeTree` is one thread: its trees, its timers and its two ways to advance
(`IsMainThread`). Pointers to pointers are *cells*: `WriteScope` is a cell and
`link` is the memory behind the cells. `store` collects the heap because
`MainThreadAdvance`, which is itself timed, passes it through three operators
(`Push`, `Recycle`, `Pop`) in one step. Each operator of the thread is one step:
no other thread writes these structures, and what a concurrent reader sees is the
subject of `FrameRing`. `Reach` states what `FreeScopes` visits as a least closed
set, so that it can be reasoned about without recursion; the order of the free
list and the arena behind it never reach a tree and are left out. `home` is a
history field.

`CallLog` is what the trees promise: per frame, the calls in order with their
depth. `ScopeTreeWalk` reads a tree with the recursive descent of the readers and
states that `ScopeTree` implements `CallLog`. The descent, and the ascent along the
`Parent`s, are recursive functions of the number of calls a path may still make: no
path is longer than there are live scopes.

`FrameRing` composes the main thread, the workers and the callgraph over the ring.
It abstracts a tree to the set of frames whose scopes it holds, and splits the
worker's advance at every store that another thread can notice: the read of the
main thread's `WriteIndex`, the store of its own, the end of `FreeScopes` and
`InitScopeTree` (which also clears the stamp), the reset of the mutex records with
the final stamp. The callgraph checks a thread's stamp and then walks in a
separate step. The main thread's own advance is one step: others read nothing of
it but `WriteIndex`. `AdvanceThreadState` is thus split between the two modules:
the links in `ScopeTree`, the stamps, indices and mutex records here.

`ArenaRegistry` has the registration at the grain of its atomic accesses (read of
`SourceLocation`, compare-exchange, stores of the fields), with the table full and
addresses that are used again. Naming and unregistering walk the table but touch
only slots that hold the caller's own arena, so each is one step.

`MetaTable` is one thread's table, the probe of `WriteToMetaTable` one round at a
time against `ClearMemoryRecordsFor` in another thread, one record at a time and
each record in two halves, because `Name` is the first field to be zeroed and the
one the probe looks at.

`DebugStartup` is three actors: the main thread in `InitDebugState`, a field or a
group of fields per step; the workers' `RegisterThread`; and `Win32TracingThread`,
a call of the kernel per step. `fields` says which fields of each thread's zeroed
state are set, and the properties ask for those that other code uses unchecked.
The kernel is external: its calls succeed or fail as they like, but it refuses a
second session. `session` says whose its one session is; `CrashAndRestart` may
happen at any step, resets everything else and leaves the session `"stale"`.

`ContextSwitches` is the stream of one thread: the blocks with their `Next`, the
free list threaded through it, and the events of each block. The tracing thread's
push is a step (it checks for room, reuses or allocates a block and calls itself
once); `ETWBufferCallback` takes a step per pass of the sort, per block it frees
and for the block it empties. The main thread draws by reading `Next` of one block
at a time, and stores the two ends of the range shown in two steps. A pass is
stated as what it leaves (the prefix maxima carried along), not swap by swap: the
passes run on one thread, and `SettledBlocksInOrder` says what drawing sees between
them. The reads of a block's events by the drawing thread are not ordered against
the stores of one pass.

`EventLog` is what a stream promises, which is less than one would wish: a multiset of
events from which a batch may go when none of its events is in the range shown, or
when it has events on both sides of it. The code's test asks whether one end of a
block's cycle range is shown. So a block that is newer than the range goes too,
although its frames have yet to be shown, and one that begins before the range and
ends after it takes the events in between along. `Tracing` composes `DebugStartup` and `ContextSwitches`:
callbacks run within `ProcessTrace`, drawing begins with the renderer and goes on
when the trace has ended, and a crash takes the stream and leaves the session.

`DrawCalls` is `TrackedDrawCalls`: the place where a probe begins comes from the
pointer (`Home`), the row is recognised by the text (`NameOf`), so that two
pointers can spell one name. `tracked` is a history of the frame. A draw call is a
step, as all of them are made by the main thread. `Histogram` splits the push at
the futex, the wrap and the store, and the window's work sample by sample: the reset,
the pass that measures and the pass that reads the samples again and draws them. Of
the measures it keeps `MaxCycles`, by which the bars are divided; `late` is a history
of the slots that were pushed to between the two passes. `FrameTables` composes the two; they meet in the main thread only.

`RecordSort` is the double loop of `PackSortAndBufferMemoryRecords`, a comparison
per step. `MemoryWindow` composes it with the rest of `DebugDrawMemoryHud`: a step
per record that is looked at, the search for its owner, the reading of the record
again and the registration being steps of their own; then the list, a click, the
collation (comparison and collation of a record are two steps), the sort. It walks the
tables of all threads and gathers records in one scratch table of the size of each of
them, so the scratch table may overflow, as the code's does, without a word. The other
threads allocate, register, grow, push on and free arenas in between, each call a step,
for `ArenaRegistry` and `MetaTable` have shown what their grain does. They may do so
while the window goes over the tables and the registry; while it sorts rows of its own
a step of theirs changes nothing it looks at, and the model has it come before. `found` and `sought` tell apart the claims the window makes for an arena
whose owner it had looked for.

`MCArenaRegistry`, `MCMetaTable`, `MCFrameTables` and `MCMemoryWindow` (and the end
of `ScopeTreeWalk`) hold the symmetry sets and the functions that instances are
given; `*Proofs` hold the theorems and `DataInduction` the lemmas about sums and
about functions defined by iteration that several of them cite. Operators whose
comment begins "Mutant of" are plausible bugs: with one of them in place of the
operator it names, the property listed with it in `PROJECT.json` must fail. They
are not part of the model.

### What the models assume of the program

* No timer is open for as many frames as the ring holds (`Quiet`). The code cannot
  check it and would free the timer's scope.
* The timers of a thread nest, as objects on a stack do. Profiling is toggled
  in `DebugFrameBegin`; `ScopeTree` allows it at any step, for workers see it at any.
* `GetCycleCount` never goes backwards on one thread.
* `WriteIndex` does not wrap (2^32 frames).
* An arena is registered, named and unregistered by its owner, one call at a time,
  and its address is not allocated again before it is unregistered. Source
  locations are not null. `AtomicCompareExchange` is what its name says.
* Nothing is allocated from an arena that is being cleared, and one thread clears
  at a time. The owner's comparison with a record is one read.
* Freeing an arena unregisters it and clears its records; the code that does so is
  another library's, so `FreeingBegins` leaves the order open. Its blocks and its
  address may be used again after both. An arena is registered before anything is
  pushed on it, or never.
* Which arenas are expanded, which blocks are clicked and when is the user's, so
  nondeterministic. The user selects at most `MaxSelected` blocks at a time: the
  code does not stop anyone from selecting more than its array holds.
* The program calls `SetDebugRenderer` and `Platform_EnableContextSwitchTracing` once,
  after `InitDebugState`. Workers may call `RegisterThread` while it runs, once it has
  allocated `ThreadStates`; an earlier call writes through a null pointer and counts
  as a crash.
* Buffers the kernel delivers when the session has ended count as delivered
  before. The frames shown move forward only.
* `GetAllocationSize` does not overflow.

## Runs

| run | question | bounds |
|---|---|---|
| `scope_tree_main` | are the trees sound, do their intervals nest, and do they implement the call log, with timers across frames and profiling toggled anywhere? | 4 scopes, depth 3, 3 frames, 2 ticks |
| `scope_tree_worker` | does a worker, which may reuse any slot, implement the call log? | 4 scopes, depth 3, 2 frames, 1 tick |
| `scope_tree_same_tick` | does the reader's assertion hold? (it does not) | 2 scopes, 2 ticks |
| `frame_ring` | one worker against the callgraph | ring of 3, 5 frames, 1 mutex record per frame |
| `frame_ring_two_workers` | do two workers catch up, whatever the other one does? | ring of 2, 3 frames, no mutex records |
| `arena_registry` | registrations, names and unregistrations racing | 3 threads, 3 addresses, 3 slots |
| `arena_registry_lookup` | does the lookup's assertion hold? (it does not) | 1 thread, 2 addresses, 3 slots |
| `meta_table` | is every push accounted for, and does every call return? | 3 keys, 2 arenas, 2 slots, 2 pushes a key |
| `tracing` | does everyone find the state they use; does the status settle; is the stream sound and in order while it is drawn, and does it lose only what `EventLog` lets go? | main thread and 1 worker, 3 blocks of 2 events, events of cycles 1 and 3, frames that begin at cycles 1 and 2, any number of crashes |
| `frame_tables` | is every draw call counted, is no sample lost, and does a bar fit its scale but for samples that came between the passes? | 3 callers with 2 names, 2 counts, 2 slots, 3 calls a frame; 2 threads, 2 slots, samples up to 2 |
| `memory_window` | is memory found registered once, and do the rows show all of each kind that was selected, in order, although the scratch table overflows? | 2 threads, 1 arena address, 2 blocks, 1 name, 2 shapes of one size, 2 slots of each table and of the registry, 3 pushes, at most 1 of them without an arena, 1 step of the other threads while a frame is drawn |
| `memory_window_race` | does the registry's sanity check hold with the window as a client? (it does not) | 1 thread's table, 1 arena, 1 block, 3 registry slots, 4 steps of its owner while a frame is drawn |

Four scopes are enough for a parent with two children or a chain of three beside
the scope the main thread's advance opens; two or three frames are enough to reuse
a tree while timers of the previous frame are open. Five frames on a ring of three
let a worker be lapped, also by exactly one ring. Three threads on three slots race
for one slot, lose and find the table full; re-registration needs one slot more
than live arenas. In the meta table two keys hash to the first slot and one to the
second, so that a chain has a hole, a duplicate and a wrap, and there are fewer
slots than keys. Interval properties only compare ticks, so two ticks tell apart
every order that matters; the worker's run leaves the clock out.

Three blocks of two events let a block wait on the free list while another is at
the front of the list and the third is being filled, and be reused. The range shown
goes from nothing through [1, 1] and [1, 2] to [2, 2], so the events of cycles 1 and 3
are inside it, newer, older and on both sides of it, also between the two stores that
change it. Two slots with three callers fill the draw call table and make rows
overwritten. Two blocks of one arena are a current block and its `Prev`, both of
which can be selected, expanded, freed and allocated again at the same addresses. Two
threads and two shapes make four kinds, so three pushes of different kinds overflow
the scratch table of two slots; the two shapes have the same size and differ in
`StructSize` and `StructCount`. Two registry slots are full after one arena has been
freed and come back. Between two frames the other threads take any number of steps;
while a frame is drawn, `memory_window` lets them take one, anywhere, and
`memory_window_race` the four that its counterexample needs.

`MaxDepth`, `MaxCycle`, `MaxFrame`, `MaxPushes`, `MaxUntracked`, `MaxMoves`,
`MaxCalls`, `MaxSample`, `MaxBlocks`, `MaxSelected` and `BlockCount` are bounds and nothing else; what is
proved is proved for every value of them. Deadlock is checked everywhere: a bound
never stops a module entirely.

### What the three failing runs show

* `scope_tree_same_tick`: the destructor's comment (`debug.cpp:329`) says that short
  scopes can share a timer tick and asserts `>=`; the reader's `GetCycleCount`
  (`src/debug_data_system.cpp:550`) asserts `>`. A scope that opens and closes in
  one tick satisfies the first and fails the second.
* `arena_registry_lookup`: `GetRegisteredMemoryArena`
  (`src/debug_data_system.cpp:274`) asserts that the first slot holding an arena is
  not a tombstone. Unregister an arena, register another at its address: the
  tombstone is still there, first. `DebugRegisterArenaName` names that slot too.
* `memory_window_race`: `DebugSanityCheckArenaRegistration`
  (`src/debug_data_system.cpp:96`) asserts that an arena has one slot that is not
  tombstoned, at most. The memory window finds a record whose memory has no owner
  and registers that memory (`src/debug_render_system.cpp:1429`). If its owner
  clears the record, unregisters, and registers an arena at the same address
  before the window's claim, the claim makes a second live slot, and the next call
  for that arena fails the assertion.

### Fairness

`FrameRing!FairSpec`: weak fairness of each worker's advance, which every worker
loop calls each time around. Nothing is asked of the main thread, which need not
go on. `MetaTable!FairSpec`: weak fairness of the steps inside a call: neither
loop waits for anything, so a call proceeds whenever its thread runs. Starting
calls is not fair.

`Tracing!FairSpec`: weak fairness of the main thread's start-up, which is straight
code, of the tracing thread's, whose loops only sleep, and of each worker's
`RegisterThread`, which its loop calls each time around; and of
`ETWBufferCallback` once it was called while the session lasts. Nothing is asked
of the kernel (it may never call back), of other programs, of crashes or of the
drawing. `TracingSettles` excepts a process that dies.

## Proofs

Each of the `*Proofs` modules proves `Spec => []IInv` for an inductive invariant of
its module (in `TracingProofs` one for each of the two components, in
`FrameTablesProofs` one for each table, in `MemoryWindowProofs` several that build on
each other) and draws the properties from it. They assume only the constants'
assumptions stated in the modules; among these, `DrawCalls` asks for finite sets of
callers and counts and `ContextSwitches` for room for at least one block and one
event. Every safety invariant a passing run checks is proved, as are the action
properties `HistoryFrozen` and `WorkersFollow` and the refinements
`ImplementsEventLog` and `ImplementsCallLog`. Only proved, and not in the runs any more, are the inductive
invariants themselves, the type invariants of `ScopeTree`, `FrameRing`,
`ArenaRegistry`, `DebugStartup` and `FrameTables`, and `ClaimedIsPrefix`,
`AllocationsFindState`, `RunningIsNotStale`, `RowsPermuted` and `PushedInBounds`.

Sums over a table and operators that follow links are defined by recursion. What
they compute is found by an induction that needs no operator as a parameter: the
set of the finite sets (or numbers) for which a claim fails, were it not empty,
would have a least element (`LeastSet`, `LeastNumber`), and there is none
(`DataInduction`).

* **ScopeTree.** The properties are not inductive by themselves. `CursorAt` says
  where a cursor can be: at its tree's root, or below or beside a live scope of the
  same tree, with `ParentOfNextScope` the parent a scope linked there must get.
  `TimerValid` keeps the scope of an open timer without a sibling and without any
  cursor beside it, which is what makes the cell its destructor moves the cursor to
  empty. `LinksStayHome` and `AllReachable` relate the history field to the walk and
  give `NoLeak`. Lemmas show that `Push`, `Pop` and `Recycle` each preserve
  `HeapInv` of any store; the actions follow by composition.
  `OthersFrozen` composes, for each step, that no operation touches the trees of other
  slots. `IntervalsNest` needs an invariant of its own, `SpanInv`: what is linked next
  gets a parent that has not ended and follows a sibling that has (`CursorsTimely`),
  and the parent of an open timer's scope has not ended, because its timer, if it is
  still open, was opened before (`ParentsOutlast`). A timer that is abandoned when
  profiling is toggled leaves a scope that never ends, and below it nothing can end late.
* **The call log** (`ScopeTreeProofs`). A log in call order determines the tree: a
  call right after a shallower one is its first child, and what follows the calls
  nested in a call (`After`) is its sibling if it is as deep. `IsLogOf` says so of
  a tree, its cursor (`CursorFor`: the root, below the last call, or beside the last
  call of a depth) and its chain of parents (`Encloses`: each call the next one is
  nested in is still the last of its depth). `Push`, `Pop` and `Recycle` take
  `IsLogOf` from one log to the next, the other slots keep theirs, and `LogIsFound`
  shows, by induction over the rounds of `Descent` and `Ascent`, that the readers
  find that log. A `Return` of the log needs one thing more of the open timers
  (`StackNested`): the scope of each is nested in those of the timers opened before
  it, so that the destructor's `Pop` cuts the nesting at its own scope and leaves
  the others in it, although abandoned scopes may lie between.
* **FrameRing.** `CallgraphConsistent` rests on `WalkGuarded`: while the walk goes
  on, the guard stays true. A worker could only recycle the tree being walked if the
  main thread had started a frame of that slot, and then the main thread's own stamp
  would be newer than the worker's (`CurrentStamped`, `TreesStamped`,
  `WorkersBehind`); the main thread, which draws, starts no frame meanwhile.
  `StatsTrack` ties `Frames` to the last `FramesTracked` frames, by arithmetic modulo
  the ring in lemmas of its own.
* **ArenaRegistry.** Every slot below a scanning thread's is claimed
  (`ScannedAreClaimed`), which makes the claimed slots a prefix and makes giving up
  mean full; an arena in registration belongs to one call (`CallsOwnArenas`), which
  makes the owner's slot the only live one.

* **Tracing** (`TracingProofs`). The start-up's loops are counted: `CoreLoop` and
  `StreamLoop` say which threads' fields are set when the loops are at a thread,
  `ProfilingComesLast` that nothing is enabled before they are through, `WaitLoop`
  that the tracing thread has seen the ids of those it has passed. An id is never
  taken back but by a crash, which also ends the wait; so at `ProcessTrace` all ids
  and all streams are there. `DrawnThreadsHaveStreams` needs the composition: a walk
  begins after the renderer was set, and a crash ends it.
* **ContextSwitches** (`TracingProofs`). That two lists threaded through one `Next`
  stay apart is said of two sequences (`Linked`): the blocks from `first` and the
  blocks from `firstFree`, without repetitions, each block linked to the one after it,
  and together everything that was handed out. Every action changes the sequences in
  one plain way (append one, take the head of the free one, move one over:
  `LinkedReuse`, `LinkedAllocate`, `LinkedFree`), and `FollowsPath` shows that
  following `Next` finds such a sequence, by induction over its tails; so `ListsSound`
  and the walks of the drawing thread (`Visits`: a prefix of the sequence) come back to
  facts about sequences. A pass of the sort leaves a block in order once it was
  (`PassKeepsOrder`) and permutes it (`PassPermutes`): every place is filled from where
  its event was carried from, which can be inverted. For `ImplementsEventLog`, the
  events of a cycle are the number of places that hold it (`Kept`): an append adds a
  place, a pass moves places, a freed or emptied block takes its places away, and the
  cycle range that the trim looked at is that of all events of the block because it is
  sorted (`SettledBlocksInOrder`): either no event of the block is in the range, or its
first is older and its last newer than the range. The inductive invariant `StreamInv` was
  checked by TLC on the instance of the run `tracing` before it was proved.
* **MetaTable** (`MetaTableProofs`). `NeverOvercounts` and `ExactUnlessTorn` are kept
  by every step only together with where the two threads are: the record the owner is
  about to commit to has its key or none, and if it has the key but not yet a cleared
  arena, then it is torn and counts nothing (`CommitInv`); the records behind the
  clearing thread's index are of other arenas (`ClearInv`). Each step changes one
  record, so each sum by what that record was worth.
* **DrawCalls** (`FrameTablesProofs`). A row that is counted up or taken over keeps its
  number of calls, so the sum grows by one either way. While nothing was overwritten,
  the row a probe ends on holds the same text and count or nothing, and so each sum
  over the rows of a key changes with the key's number of draw calls.
* **MemoryWindow** and its sort (`MemoryWindowProofs`). The rows the outer loop has left
  behind are in order (`PrefixInOrder`), and a smallest record is right above the outer
  row until the inner loop comes there and swaps it in (`LeastAbove`, `LeastReached`).
  On the way the inner loop inserts the outer row's record among the rows above
  (`PassedAreLarger`), and below the outer row nothing is smaller than what it
  holds. That is why swaps in both directions sort after all. `RowsPermuted`
  composes the permutation so far with each swap. A click finds the first equal
  element, so removing it by moving the last one keeps the others apart. For
  `FoundOnce`, an arena that is sought has not been registered as found before
  (`SoughtIsNew`): the search looks at dead slots too, slots never lose their arena,
  and meanwhile only the owner claims. For `CollatedWhole`, the scratch table accounts
  for the records taken so far, kind by kind (`Collates`): a kind has all their pushes
  in one slot, or no slot at all, and then every slot is another kind's (`Accounts`).
  What keeps a kind from being split is `Chained`, that no slot between a record's home
  and its place is empty: the probe finds the record of a kind if there is one, and
  once the table is full it stays full. Packing keeps the sums and the distinctness
  (`RowsOf`). Where a table changes during a collation `steady` is lost, and nothing is
  claimed.
* **Histogram** (`FrameTablesProofs`, with the types of both tables). The holder of the futex is the only one between
  the wrap and the store. The sample pushed `d` pushes before the last is `d` slots
  below the cursor, around the ring (`Spot`): a wrap changes no such place, a push
  moves all by one and overwrites the oldest. The bars need `ScaleInv`: `MaxCycles` is at
  least every sample that the measuring pass has read, but for the slots in `late`;
  with the last slot read that is so of all slots, so of each that is drawn.

Only model-checked: the liveness properties (`WorkersCatchUp`, `CallsReturn`,
`TracingSettles`, `CallbackReturns`).

## Not modelled

* Compiled out or not behaviour: `win32_pmc.cpp` (`#if 0`), `api.h`'s function types,
  `make.sh`, window layout, colours, formatting.
* `NumScopes`, an unsynchronised counter nothing depends on; `FrameMs` and the
  averages made of it; `FindRecord`, which pairs mutex records for drawing and
  changes nothing.
* `HotFunction`: a pointer into a tree that may be recycled, about whose target the
  code promises nothing. `CollateAllFunctionCalls` has no caller that is compiled.
  The first pass of `BufferFirstCallToEach` groups siblings by name in a scratch
  list; the callgraph's walk itself is in `FrameRing`.
* The unguarded walk of `DrawThreadsWindow` over scopes, whose comparison of stamps
  is commented out, has no promise to check; the guarded one is modelled, and so is
  its walk over context switches.
* `GetMemoryArenaStats` and the totals read memory of arenas that may be freed
  meanwhile; the models have no memory behind an arena.
* `DuplicateMetaTableNameStrings` copies the strings that records point to before a
  library is unloaded.

## Plan

Done: `ScopeTree` with its abstract log, `FrameRing`, `ArenaRegistry`, `MetaTable`;
`DebugStartup`, `ContextSwitches` with its abstract log and their composition
`Tracing`; `DrawCalls`, `Histogram`; `RecordSort` and `MemoryWindow`; the proofs
listed above.

Left, in this order:

1. a finer `FrameRing`, in which a scope is linked before its fields are written;
2. mutex records paired by `FindRecord`, as a reader of records that a thread resets.
