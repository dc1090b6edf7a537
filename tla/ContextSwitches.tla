--------------------------- MODULE ContextSwitches ---------------------------
(***************************************************************************)
(* The context switches of one thread: a list of blocks, each a buffer of  *)
(* events.  The tracing thread appends to the last block, takes blocks     *)
(* from its free list when that is full, and after every buffer the kernel *)
(* delivers it sorts the blocks and frees those at the front that none of  *)
(* the frames shown needs any more.  The main thread draws the events by   *)
(* walking the same list, without a lock, and tells the tracing thread     *)
(* which cycles are shown.                                                 *)
(*                                                                         *)
(* An event is its CycleCount: whether the thread was switched on or off   *)
(* and by which processor is carried along.  The streams of other threads  *)
(* are the same and share nothing with this one.                           *)
(***************************************************************************)
EXTENDS Integers, SequencesExt

CONSTANTS
    BlockCount,     \* bound: the blocks the arena ever provides
    BlockSize,      \* MAX_CONTEXT_SWITCH_EVENTS
    Cycles,         \* the cycles of events
    FrameCycles     \* the cycles at which frames begin and end

ASSUME StreamAssumption ==
    /\ BlockCount \in Nat \ {0} /\ BlockSize \in Nat \ {0}
    /\ Cycles \subseteq Nat \ {0} /\ FrameCycles \subseteq Nat \ {0}

Blocks == 1 .. BlockCount
NoBlock == 0

VARIABLES
    first,      \* FirstBlock
    current,    \* CurrentBlock
    firstFree,  \* FirstFreeBlock
    next,       \* block -> Next
    events,     \* block -> the first At events of its buffer
    allocated,  \* how many blocks the arena has provided
    callback,   \* where the tracing thread is in ETWBufferCallback
    range,      \* DebugState's MinCycles and MaxCycles: [lo, hi]
    draw,       \* the main thread's walk: [at, block]; history: visited, the
                \* blocks come by, none any more once the trim has freed one
    unsorted    \* history: blocks appended to since the last sort was complete

listVars == <<first, current, firstFree, next, allocated>>
streamVars == <<first, current, firstFree, next, events, allocated, callback, range, draw, unsorted>>

NotDrawing == [at |-> "idle", block |-> NoBlock, visited |-> {}]

NoLinks == [b \in Blocks |-> NoBlock]
NoEvents == [b \in Blocks |-> << >>]

\* AllocateContextSwitchBufferStream; zeroed debug state; nothing drawn.
StreamInit ==
    /\ first = 1 /\ current = 1 /\ firstFree = NoBlock
    /\ next = NoLinks
    /\ events = NoEvents
    /\ allocated = 1
    /\ callback = "idle"
    /\ range = [lo |-> 0, hi |-> 0]
    /\ draw = NotDrawing
    /\ unsorted = {}

(***************************************************************************)
(* ETWEventCallback: a switch to or from this thread is pushed.            *)
(***************************************************************************)

HasRoom(b) == Len(events[b]) < BlockSize

\* PushContextSwitch when the last block has room.
Append1(c) ==
    /\ callback = "idle"
    /\ HasRoom(current)
    /\ events' = [events EXCEPT ![current] = Append(@, c)]
    /\ unsorted' = unsorted \cup {current}
    /\ UNCHANGED <<listVars, callback, range, draw>>

\* The event goes to block b, which becomes the last one of the list.
Extend(b, c) ==
    /\ callback = "idle"
    /\ ~HasRoom(current)
    /\ events' = [events EXCEPT ![b] = <<c>>]
    /\ current' = b
    /\ unsorted' = unsorted \cup {b}
    /\ UNCHANGED <<first, callback, range, draw>>

\* Mutant of Reuse: ClearBlock leaves the block's place in the free list.
ReuseKeepingNext(c) ==
    /\ firstFree # NoBlock
    /\ Extend(firstFree, c)
    /\ firstFree' = next[firstFree]
    /\ next' = [next EXCEPT ![current] = firstFree]
    /\ UNCHANGED allocated

\* Mutant of Reuse: the block is not taken off the free list.
ReuseKeepingFree(c) ==
    /\ firstFree # NoBlock
    /\ Extend(firstFree, c)
    /\ next' = [next EXCEPT ![current] = firstFree, ![firstFree] = NoBlock]
    /\ UNCHANGED <<firstFree, allocated>>

\* PushContextSwitch takes the first free block, cleared ...
Reuse(c) ==
    /\ firstFree # NoBlock
    /\ Extend(firstFree, c)
    /\ firstFree' = next[firstFree]
    /\ next' = [next EXCEPT ![current] = firstFree, ![firstFree] = NoBlock]
    /\ UNCHANGED allocated

\* ... or allocates one, and in either case calls itself once.
Allocate(c) ==
    /\ firstFree = NoBlock
    /\ allocated < BlockCount
    /\ Extend(allocated + 1, c)
    /\ allocated' = allocated + 1
    /\ next' = [next EXCEPT ![current] = allocated + 1]
    /\ UNCHANGED firstFree

PushContextSwitch(c) == Append1(c) \/ Reuse(c) \/ Allocate(c)

(***************************************************************************)
(* ETWBufferCallback.                                                      *)
(***************************************************************************)

PrefixMax(s, n) == Max({s[i] : i \in 1 .. n})

\* One pass over a block swaps neighbours that are out of order, so that it
\* carries the largest event so far along.
SortPass(s) ==
    [i \in 1 .. Len(s) |->
        IF i = Len(s) \/ PrefixMax(s, i) <= s[i + 1] THEN PrefixMax(s, i) ELSE s[i + 1]]

OutOfOrder(s) == \E i \in 1 .. Len(s) - 1 : s[i] > s[i + 1]

\* Following Next, n times at most, from any block.
Following(links) ==
    LET walk[n \in 0 .. BlockCount + 1] ==
            [x \in Blocks \cup {NoBlock} |->
                IF n = 0 \/ x = NoBlock THEN << >> ELSE <<x>> \o walk[n - 1][links[x]]]
    IN walk

\* The list, or the free list.
BlocksFrom(b) == Following(next)[BlockCount + 1][b]

Listed == Range(BlocksFrom(first))

\* What the last pass leaves in a block's MinCycles and MaxCycles: the first
\* event and the largest one.
MinCycles(b) == events[b][1]
MaxCycles(b) == PrefixMax(events[b], Len(events[b]))

RangeContains(c) == range.lo <= c /\ c <= range.hi

\* Mutant of Shown: both ends of the block have to be in the range.
ShownWhole(b) == RangeContains(MinCycles(b)) /\ RangeContains(MaxCycles(b))

\* One end of the block is in the range shown.
Shown(b) == RangeContains(MinCycles(b)) \/ RangeContains(MaxCycles(b))

BeginBufferCallback ==
    /\ callback = "idle"
    /\ callback' = "sort"
    /\ UNCHANGED <<listVars, events, range, draw, unsorted>>

SortedOnce(list) == [b \in Blocks |-> IF b \in list THEN SortPass(events[b]) ELSE events[b]]

\* Mutant of Sort: the passes stop before the last block.
SortAllButLast ==
    /\ callback = "sort"
    /\ events' = SortedOnce(Listed \ {current})
    /\ IF \E b \in Listed \ {current} : OutOfOrder(events[b])
       THEN UNCHANGED <<callback, unsorted>>
       ELSE callback' = "trim" /\ unsorted' = {}
    /\ UNCHANGED <<listVars, range, draw>>

\* Mutant of Sort: finding equal cycles counts as finding them out of order.
SortForever ==
    /\ callback = "sort"
    /\ events' = SortedOnce(Listed)
    /\ IF \E b \in Listed : \E i \in 1 .. Len(events[b]) - 1 : events[b][i] >= events[b][i + 1]
       THEN UNCHANGED <<callback, unsorted>>
       ELSE callback' = "trim" /\ unsorted' = {}
    /\ UNCHANGED <<listVars, range, draw>>

\* A pass over every block of the list, repeated until one finds them in order.
Sort ==
    /\ callback = "sort"
    /\ events' = SortedOnce(Listed)
    /\ IF \E b \in Listed : OutOfOrder(events[b])
       THEN UNCHANGED <<callback, unsorted>>
       ELSE callback' = "trim" /\ unsorted' = {}
    /\ UNCHANGED <<listVars, range, draw>>

\* The block at the front of the list goes to the free list; its events stay
\* in it, and so may a walk that has reached it.
FreeFirst ==
    /\ callback = "trim"
    /\ first # current
    /\ ~Shown(first)
    /\ first' = next[first]
    /\ next' = [next EXCEPT ![first] = firstFree]
    /\ firstFree' = first
    /\ draw' = [draw EXCEPT !.visited = {}]
    /\ UNCHANGED <<current, events, allocated, callback, range, unsorted>>

StopFreeing ==
    /\ callback = "trim"
    /\ first # current => Shown(first)
    /\ callback' = "last"
    /\ UNCHANGED <<listVars, events, range, draw, unsorted>>

\* MaybeFreeBlock of the last block, which empties it; an empty block's cycles
\* are whatever its buffer holds, and emptying it again changes nothing.
EmptyLast ==
    /\ callback = "last"
    /\ events' = IF events[current] = << >> \/ Shown(current) THEN events
                 ELSE [events EXCEPT ![current] = << >>]
    /\ callback' = "idle"
    /\ UNCHANGED <<listVars, range, draw, unsorted>>

BufferCallback == Sort \/ FreeFirst \/ StopFreeing \/ EmptyLast

(***************************************************************************)
(* The main thread's frame: DrawFrameTicker, then DrawThreadsWindow.       *)
(***************************************************************************)

\* MaxCycles is stored first.  The frames shown only ever move forward, and
\* MinCycles is at most MaxCycles once one of them has ended; until then it is where
\* the first frame began.
StoreMaxCycles(hi) ==
    /\ draw.at = "idle"
    /\ hi >= range.hi
    /\ hi >= range.lo \/ hi = 0
    /\ range' = [range EXCEPT !.hi = hi]
    /\ draw' = [draw EXCEPT !.at = "ticker"]
    /\ UNCHANGED <<listVars, events, callback, unsorted>>

StoreMinCycles(lo) ==
    /\ draw.at = "ticker"
    /\ lo >= range.lo
    /\ lo <= range.hi \/ (range.hi = 0 /\ range.lo \in {0, lo})
    /\ range' = [range EXCEPT !.lo = lo]
    /\ draw' = [at |-> "walk", block |-> first, visited |-> {first}]
    /\ UNCHANGED <<listVars, events, callback, unsorted>>

\* The bars of a block are drawn, then its Next is read.
DrawNextBlock ==
    /\ draw.at = "walk"
    /\ draw' = IF next[draw.block] = NoBlock THEN NotDrawing
               ELSE [draw EXCEPT !.block = next[draw.block],
                                 !.visited = IF @ = {} THEN {} ELSE @ \cup {next[draw.block]}]
    /\ UNCHANGED <<listVars, events, callback, range, unsorted>>

TracerStep == (\E c \in Cycles : PushContextSwitch(c)) \/ BeginBufferCallback \/ BufferCallback

\* The process dies and is started again.
StreamRestart ==
    /\ first' = 1 /\ current' = 1 /\ firstFree' = NoBlock
    /\ next' = NoLinks
    /\ events' = NoEvents
    /\ allocated' = 1
    /\ callback' = "idle"
    /\ range' = [lo |-> 0, hi |-> 0]
    /\ draw' = NotDrawing
    /\ unsorted' = {}

DrawStep ==
    \/ \E hi \in FrameCycles \cup {0} : StoreMaxCycles(hi)
    \/ \E lo \in FrameCycles : StoreMinCycles(lo)
    \/ DrawNextBlock

StreamNext == TracerStep \/ DrawStep \/ StreamRestart

StreamSpec == StreamInit /\ [][StreamNext]_streamVars

\* The tracing thread does not stop within a callback.
StreamFairSpec == StreamSpec /\ WF_streamVars(BufferCallback)

(***************************************************************************)
(* Properties.                                                             *)
(***************************************************************************)

\* The list runs from FirstBlock to CurrentBlock and ends there, the free list
\* ends, and every block the arena provided is on one of the two, once: no push
\* and no trim loses a block or links one twice.  No block is overfull, and every
\* listed one but the last is full, whatever was emptied and reused.  (MaybeFreeBlock
\* and the trim assert parts of it.)
ListsSound ==
    LET list == BlocksFrom(first)
        free == BlocksFrom(firstFree)
        both == list \o free
    IN /\ list[Len(list)] = current
       /\ next[current] = NoBlock
       /\ Len(both) = allocated
       /\ Range(both) = 1 .. allocated
       /\ \A b \in Blocks : Len(events[b]) <= BlockSize
       /\ \A b \in Range(list) \ {current} : Len(events[b]) = BlockSize

\* A block that nothing was appended to since the last sort stays in order, also
\* while the next sort runs: the bars the main thread draws from it do not run
\* backwards.  To the trim, which follows a complete sort, every block is settled:
\* its MinCycles and MaxCycles are the least and the greatest of its events.
SettledBlocksInOrder ==
    \A b \in Listed \ unsorted : ~OutOfOrder(events[b])

\* A walk during which no block was freed has come along the list: it has visited
\* its blocks from the first one on, and no other.
WalkFollowsList ==
    draw.at = "walk" /\ draw.visited # {} =>
        LET list == BlocksFrom(first) IN
        \E n \in DOMAIN list : list[n] = draw.block /\ draw.visited = {list[i] : i \in 1 .. n}

\* The buffer callback returns: sorting ends, ties included, and so does trimming.
CallbackReturns == callback # "idle" ~> callback = "idle"

\* The places of the list that hold an event.
Places == {p \in Listed \X (1 .. BlockSize) : p[2] <= Len(events[p[1]])}

Log == INSTANCE EventLog WITH
    log <- [c \in Cycles |-> Cardinality({p \in Places : events[p[1]][p[2]] = c})]

\* Sorting, extending and reusing blocks neither lose nor repeat an event, and a
\* push adds one.  The trim frees, and the emptying empties, a block that holds no
\* event of the range shown, be its events older or newer, or one that begins
\* before the range and ends after it, whose events of the range then go, too.
\* Nothing else is ever dropped.
ImplementsEventLog == Log!LogSpec
=============================================================================
