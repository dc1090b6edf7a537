------------------------------ MODULE ScopeTree ------------------------------
(***************************************************************************)
(* The call trees one thread of the debug system records.                  *)
(*                                                                         *)
(* A thread owns DEBUG_FRAMES_TRACKED scope trees and writes to the one of *)
(* the current frame.  A timer (a debug_timed_function on the stack of the *)
(* profiled program) links a profile scope into that tree when it is       *)
(* constructed and moves the tree's write cursor when it is destroyed.     *)
(* Advancing to the next frame frees the tree that the frame will reuse.   *)
(*                                                                         *)
(* Pointers to pointers are cells: WriteScope holds the address of a tree's*)
(* Root or of some scope's Child or Sibling, and `link' is what is stored  *)
(* at each of those addresses.  The free list is the set of scopes that    *)
(* are not live (its order, and whether a scope came from it or from the   *)
(* arena, never reaches a tree).                                           *)
(***************************************************************************)
EXTENDS Integers, Sequences

CONSTANTS
    Scopes,         \* the debug_profile_scope records the thread can allocate
    NULL,
    FramesTracked,  \* DEBUG_FRAMES_TRACKED
    IsMainThread,   \* TRUE for ThreadLocal_ThreadIndex = 0
    MaxDepth,       \* bound: timers open at once
    MaxCycle        \* bound: the last value GetCycleCount returns

ASSUME NullAssumption == NULL \notin Scopes
ASSUME FramesAssumption == FramesTracked \in Nat /\ FramesTracked >= 2
ASSUME ThreadAssumption == IsMainThread \in BOOLEAN
ASSUME BoundsAssumption == MaxDepth \in Nat /\ MaxCycle \in Nat /\ MaxCycle >= 1

Slots == 0 .. FramesTracked - 1
ScopeOrNull == Scopes \cup {NULL}

\* The addresses a debug_profile_scope** can hold.
RootCell(s) == <<"Root", s>>
ChildCell(x) == <<"Child", x>>
SiblingCell(x) == <<"Sibling", x>>
RootCells == {RootCell(s) : s \in Slots}
ScopeCells(X) == {ChildCell(x) : x \in X} \cup {SiblingCell(x) : x \in X}
Cells == RootCells \cup ScopeCells(Scopes)

VARIABLES
    store,      \* the scopes and the trees, see Store
    writeSlot,  \* WriteIndex % DEBUG_FRAMES_TRACKED
    timers,     \* the open debug_timed_functions, outermost first
    profiling,  \* DebugDoScopeProfiling
    clock       \* the last value GetCycleCount returned

vars == <<store, writeSlot, timers, profiling, clock>>

\* Per scope: Parent, StartingCycle, EndingCycle; per tree: WriteScope and
\* ParentOfNextScope.  live is the complement of the free list.  home is a
\* history field: the slot whose tree a live scope was linked into.
Store ==
    [link   : [Cells -> ScopeOrNull],
     parent : [Scopes -> ScopeOrNull],
     start  : [Scopes -> 0 .. MaxCycle],
     end    : [Scopes -> 0 .. MaxCycle],
     write  : [Slots -> Cells],
     next   : [Slots -> ScopeOrNull],
     live   : SUBSET Scopes,
     home   : [Scopes -> Slots \cup {NULL}]]

\* A timer remembers its scope (NULL when profiling was off) and its tree.
Timer == [scope : ScopeOrNull, tree : Slots]

(***************************************************************************)
(* What the code computes over the store.                                  *)
(***************************************************************************)

\* Following Child and Sibling from a member of X stays in X.
Closed(h, X) ==
    \A x \in X : {h.link[ChildCell(x)], h.link[SiblingCell(x)]} \subseteq X \cup {NULL}

\* The scopes a walk of slot s visits: the least closed set holding its root.
Reach(h, s) ==
    {x \in Scopes : \A X \in SUBSET Scopes :
        (h.link[RootCell(s)] \in X \cup {NULL} /\ Closed(h, X)) => x \in X}

\* The constructor: link scope x at the write cursor of slot s.
Push(h, s, x, now) ==
    [link   |-> [[h.link EXCEPT ![ChildCell(x)] = NULL, ![SiblingCell(x)] = NULL]
                    EXCEPT ![h.write[s]] = x],
     parent |-> [h.parent EXCEPT ![x] = h.next[s]],
     start  |-> [h.start EXCEPT ![x] = now],
     end    |-> [h.end EXCEPT ![x] = 0],
     write  |-> [h.write EXCEPT ![s] = ChildCell(x)],
     next   |-> [h.next EXCEPT ![s] = x],
     live   |-> h.live \cup {x},
     home   |-> [h.home EXCEPT ![x] = s]]

\* Mutant of Pop: the cursor returns to the Child of the scope that ends.
PopToChild(h, timer, now) ==
    [h EXCEPT !.end[timer.scope] = now,
              !.write[timer.tree] = ChildCell(timer.scope),
              !.next[timer.tree] = h.parent[timer.scope]]

\* Mutant of Pop: ParentOfNextScope is not restored.
PopForgettingParent(h, timer, now) ==
    [h EXCEPT !.end[timer.scope] = now, !.write[timer.tree] = SiblingCell(timer.scope)]

\* The destructor of a timer whose scope was recorded.
Pop(h, timer, now) ==
    [h EXCEPT !.end[timer.scope] = now,
              !.write[timer.tree] = SiblingCell(timer.scope),
              !.next[timer.tree] = h.parent[timer.scope]]

\* Mutant of Recycle: FreeScopes gives the scopes back, the tree keeps its Root.
RecycleKeepingRoot(h, s) ==
    LET freed == Reach(h, s) IN
    [h EXCEPT !.link = [c \in Cells |-> IF c \in ScopeCells(freed) THEN NULL ELSE h.link[c]],
              !.write[s] = RootCell(s), !.next[s] = NULL, !.live = h.live \ freed]

\* Mutant of Recycle: FreeScopes does not descend.
RecycleRootOnly(h, s) ==
    LET freed == {h.link[RootCell(s)]} \ {NULL} IN
    [h EXCEPT !.link = [c \in Cells |-> IF c \in ScopeCells(freed) \cup {RootCell(s)} THEN NULL ELSE h.link[c]],
              !.write[s] = RootCell(s), !.next[s] = NULL, !.live = h.live \ freed]

\* AdvanceThreadState: FreeScopes on the tree of slot s, then InitScopeTree.
Recycle(h, s) ==
    LET freed == Reach(h, s)
        clear(f, zero) == [x \in Scopes |-> IF x \in freed THEN zero ELSE f[x]]
    IN  [link   |-> [c \in Cells |-> IF c \in ScopeCells(freed) \cup {RootCell(s)}
                                       THEN NULL ELSE h.link[c]],
         parent |-> clear(h.parent, NULL),
         start  |-> clear(h.start, 0),
         end    |-> clear(h.end, 0),
         write  |-> [h.write EXCEPT ![s] = RootCell(s)],
         next   |-> [h.next EXCEPT ![s] = NULL],
         live   |-> h.live \ freed,
         home   |-> clear(h.home, NULL)]

(***************************************************************************)
(* The steps of the thread.                                                *)
(***************************************************************************)
EmptyStore ==
    [link   |-> [c \in Cells |-> NULL],
     parent |-> [x \in Scopes |-> NULL],
     start  |-> [x \in Scopes |-> 0],
     end    |-> [x \in Scopes |-> 0],
     write  |-> [s \in Slots |-> RootCell(s)],
     next   |-> [s \in Slots |-> NULL],
     live   |-> {},
     home   |-> [x \in Scopes |-> NULL]]

\* InitDebugDataSystem: every tree is initialised, WriteIndex is 1.
Init ==
    /\ store = EmptyStore
    /\ writeSlot = 1
    /\ timers = <<>>
    /\ profiling = TRUE
    /\ clock = 1

\* The values GetCycleCount may return next: it never goes backwards, and two
\* calls may return the same tick.
Ticks == clock .. MaxCycle

\* Mutant of OpenTimer: GetProfileScope hands out a scope without taking it off
\* the free list.
OpenTimerAnyScope ==
    /\ profiling
    /\ Len(timers) < MaxDepth
    /\ \E x \in Scopes, now \in Ticks :
        /\ store' = Push(store, writeSlot, x, now)
        /\ timers' = Append(timers, [scope |-> x, tree |-> writeSlot])
        /\ clock' = now
    /\ UNCHANGED <<writeSlot, profiling>>

\* Mutant of OpenTimer: GetWriteScopeTree is off by one.
OpenTimerInNextTree ==
    /\ profiling
    /\ Len(timers) < MaxDepth
    /\ \E x \in Scopes \ store.live, now \in Ticks :
        /\ store' = Push(store, (writeSlot + 1) % FramesTracked, x, now)
        /\ timers' = Append(timers, [scope |-> x, tree |-> writeSlot])
        /\ clock' = now
    /\ UNCHANGED <<writeSlot, profiling>>

\* A timer comes into scope while the thread is profiling.
OpenTimer ==
    /\ profiling
    /\ Len(timers) < MaxDepth
    /\ \E x \in Scopes \ store.live, now \in Ticks :
        /\ store' = Push(store, writeSlot, x, now)
        /\ timers' = Append(timers, [scope |-> x, tree |-> writeSlot])
        /\ clock' = now
    /\ UNCHANGED <<writeSlot, profiling>>

\* A timer comes into scope while profiling is off: the constructor returns
\* before it touches the tree.
OpenTimerUnprofiled ==
    /\ ~profiling
    /\ Len(timers) < MaxDepth
    /\ timers' = Append(timers, [scope |-> NULL, tree |-> writeSlot])
    /\ UNCHANGED <<store, writeSlot, profiling, clock>>

Innermost == timers[Len(timers)]
WithoutInnermost == SubSeq(timers, 1, Len(timers) - 1)

\* The innermost timer is destroyed and its scope recorded.
CloseTimer ==
    /\ timers # <<>>
    /\ profiling
    /\ Innermost.scope # NULL
    /\ \E now \in Ticks :
        /\ store' = Pop(store, Innermost, now)
        /\ clock' = now
    /\ timers' = WithoutInnermost
    /\ UNCHANGED <<writeSlot, profiling>>

\* The destructor returns early: profiling is off now, or was off when the
\* timer was constructed.
CloseTimerUnprofiled ==
    /\ timers # <<>>
    /\ ~profiling \/ Innermost.scope = NULL
    /\ timers' = WithoutInnermost
    /\ UNCHANGED <<store, writeSlot, profiling, clock>>

\* DebugFrameBegin toggles profiling; timers of any depth may be open.
ToggleProfiling ==
    /\ profiling' = ~profiling
    /\ UNCHANGED <<store, writeSlot, timers, clock>>

\* The callers' obligation: no timer outlives the frames the ring holds, so
\* none is open in the tree that is about to be reused.
Quiet(s) == \A i \in DOMAIN timers : timers[i].tree # s \/ timers[i].scope = NULL

NextSlot == (writeSlot + 1) % FramesTracked

\* MainThreadAdvanceDebugSystem: it is itself a TIMED_FUNCTION, so its own
\* scope opens in the old tree, the next tree is recycled, and its scope is
\* closed in the old tree.
MainThreadAdvance ==
    /\ IsMainThread
    /\ profiling
    /\ Quiet(NextSlot)
    /\ \E x \in Scopes \ store.live, opened \in Ticks, closed \in Ticks :
        /\ opened <= closed
        /\ store' = Pop(Recycle(Push(store, writeSlot, x, opened), NextSlot),
                        [scope |-> x, tree |-> writeSlot], closed)
        /\ clock' = closed
    /\ writeSlot' = NextSlot
    /\ UNCHANGED <<timers, profiling>>

\* WorkerThreadAdvanceDebugSystem: the worker adopts the frame of the main
\* thread, which may be any number of frames ahead (a multiple of
\* FramesTracked too: then it reuses the tree it has been writing).
WorkerThreadAdvance ==
    /\ ~IsMainThread
    /\ \E s \in Slots :
        /\ Quiet(s)
        /\ store' = Recycle(store, s)
        /\ writeSlot' = s
    /\ UNCHANGED <<timers, profiling, clock>>

Next ==
    \/ OpenTimer
    \/ OpenTimerUnprofiled
    \/ CloseTimer
    \/ CloseTimerUnprofiled
    \/ ToggleProfiling
    \/ MainThreadAdvance
    \/ WorkerThreadAdvance

Spec == Init /\ [][Next]_vars

(***************************************************************************)
(* Properties.                                                             *)
(***************************************************************************)

\* Every variable has the type its declaration gives it.
TypeOK ==
    /\ store \in Store
    /\ writeSlot \in Slots
    /\ timers \in Seq(Timer)
    /\ profiling \in BOOLEAN
    /\ clock \in 1 .. MaxCycle

\* Memory discipline of FreeScopes and GetProfileScope: a live scope hangs off
\* exactly one cell, a free one off none, and a free scope points nowhere.
\* Broken, a scope is freed twice or reused while a tree still links to it.
OneOwner ==
    /\ \A c \in Cells : store.link[c] \in store.live \cup {NULL}
    /\ \A c, d \in Cells : store.link[c] = store.link[d] /\ store.link[c] # NULL => c = d
    /\ \A x \in store.live : \E c \in Cells : store.link[c] = x
    /\ \A c \in ScopeCells(Scopes \ store.live) : store.link[c] = NULL

\* The write cursor of every tree stands on an empty cell, so the assignment
\* *WriteScope = Scope in the constructor never drops a subtree, whatever
\* timers were abandoned by a toggle of profiling.
WriteCellEmpty == \A s \in Slots : store.link[store.write[s]] = NULL

\* The Parent pointers the destructor follows agree with the Child and Sibling
\* links the readers follow.
ParentLinksAgree ==
    /\ \A s \in Slots : store.link[RootCell(s)] # NULL
                          => store.parent[store.link[RootCell(s)]] = NULL
    /\ \A p \in store.live :
        /\ store.link[ChildCell(p)] # NULL
             => store.parent[store.link[ChildCell(p)]] = p
        /\ store.link[SiblingCell(p)] # NULL
             => store.parent[store.link[SiblingCell(p)]] = store.parent[p]

\* Nothing leaks: the walk FreeScopes makes of a tree visits every scope that
\* was ever linked into it and not yet freed, and no other.
NoLeak ==
    \A s \in Slots : Reach(store, s) = {x \in store.live : store.home[x] = s}

\* The intervals drawn in the callgraph nest: a child starts after its parent
\* and, once the parent has ended, ended before it; a sibling starts only after
\* its elder ended.
IntervalsNest ==
    \A p \in store.live :
        LET child == store.link[ChildCell(p)]
            sibling == store.link[SiblingCell(p)]
        IN  /\ child # NULL /\ store.end[p] # 0
                 => /\ store.start[p] <= store.start[child]
                    /\ store.end[child] <= store.end[p]
            /\ sibling # NULL
                 => store.end[p] # 0 /\ store.end[p] <= store.start[sibling]

\* The scope a timer will close is still the one it opened: live, in the tree
\* the timer remembers, not yet ended, and never shared with another timer.
OpenTimersValid ==
    /\ \A i \in DOMAIN timers : timers[i].scope # NULL =>
        /\ timers[i].scope \in store.live
        /\ store.home[timers[i].scope] = timers[i].tree
        /\ store.end[timers[i].scope] = 0
    /\ \A i, j \in DOMAIN timers :
        timers[i].scope = timers[j].scope /\ timers[i].scope # NULL => i = j

\* A step adds or removes scopes only in the slot being written before it or
\* after it; the trees of the other frames keep their scopes and links, which
\* is what lets a reader walk them.
HistoryFrozen ==
    [][\A s \in Slots \ {writeSlot, writeSlot'} :
        LET tree == Reach(store, s) IN
        /\ Reach(store', s) = tree
        /\ \A c \in ScopeCells(tree) \cup {RootCell(s)} : store'.link[c] = store.link[c]
        /\ \A x \in tree : store.end[x] # 0 => store'.end[x] = store.end[x]]_vars

\* The assertion of GetCycleCount(debug_profile_scope*): a scope that has ended
\* ended strictly after it started.
EndsAfterStart ==
    \A x \in store.live : store.end[x] # 0 => store.end[x] > store.start[x]

(***************************************************************************)
(* The inductive invariant behind OneOwner, WriteCellEmpty,                *)
(* ParentLinksAgree, NoLeak and OpenTimersValid.  Its parts are stated of  *)
(* a store h, because MainThreadAdvance passes through two stores that are *)
(* never a state.                                                          *)
(***************************************************************************)

LinksOwned(h) ==
    /\ \A c \in Cells : h.link[c] \in h.live \cup {NULL}
    /\ \A c, d \in Cells : h.link[c] = h.link[d] /\ h.link[c] # NULL => c = d
    /\ \A x \in h.live : \E c \in Cells : h.link[c] = x
    /\ \A x \in Scopes \ h.live : h.link[ChildCell(x)] = NULL /\ h.link[SiblingCell(x)] = NULL

\* A link never leads from one tree into another.
LinksStayHome(h) ==
    /\ \A x \in h.live : h.home[x] \in Slots
    /\ \A s \in Slots : \A x \in Scopes : h.link[RootCell(s)] = x => h.home[x] = s
    /\ \A p \in h.live, x \in Scopes :
        h.link[ChildCell(p)] = x \/ h.link[SiblingCell(p)] = x => h.home[x] = h.home[p]

\* The cursor of a tree stands on an empty cell of that tree, and
\* ParentOfNextScope is the parent a scope linked there must get.
CursorAt(h, s) ==
    \/ h.write[s] = RootCell(s) /\ h.next[s] = NULL
    \/ \E x \in h.live :
        /\ h.home[x] = s
        /\ \/ h.write[s] = ChildCell(x) /\ h.next[s] = x
           \/ h.write[s] = SiblingCell(x) /\ h.next[s] = h.parent[x]

CursorsPlaced(h) == \A s \in Slots : CursorAt(h, s) /\ h.link[h.write[s]] = NULL

ParentsAgree(h) ==
    /\ \A s \in Slots : \A x \in Scopes : h.link[RootCell(s)] = x => h.parent[x] = NULL
    /\ \A p \in h.live, x \in Scopes :
        /\ h.link[ChildCell(p)] = x => h.parent[x] = p
        /\ h.link[SiblingCell(p)] = x => h.parent[x] = h.parent[p]

AllReachable(h) == \A x \in h.live : x \in Reach(h, h.home[x])

HeapInv(h) ==
    /\ h \in Store
    /\ LinksOwned(h)
    /\ LinksStayHome(h)
    /\ CursorsPlaced(h)
    /\ ParentsAgree(h)
    /\ AllReachable(h)

\* An open timer's scope has not been given a sibling, and no cursor is placed
\* to give it one before the timer closes.
TimerValid(h, timer) ==
    timer.scope # NULL =>
        /\ timer.scope \in h.live
        /\ h.home[timer.scope] = timer.tree
        /\ h.end[timer.scope] = 0
        /\ h.link[SiblingCell(timer.scope)] = NULL
        /\ \A s \in Slots : h.write[s] # SiblingCell(timer.scope)

\* The state invariant the induction goes through on.
IInv ==
    /\ TypeOK
    /\ HeapInv(store)
    /\ \A i \in DOMAIN timers : TimerValid(store, timers[i])
    /\ \A i, j \in DOMAIN timers :
        timers[i].scope = timers[j].scope /\ timers[i].scope # NULL => i = j

(***************************************************************************)
(* The inductive invariant behind IntervalsNest, stated of a store h, a    *)
(* stack of timers and the clock.                                          *)
(***************************************************************************)

\* The Parent of a live scope is live, and in the same tree.
ParentsAtHome(h) ==
    \A x \in h.live : h.parent[x] # NULL =>
        h.parent[x] \in h.live /\ h.home[h.parent[x]] = h.home[x]

\* Nothing has started or ended later than now.
UpTo(h, now) == \A x \in h.live : h.start[x] <= now /\ h.end[x] <= now

SpansNest(h) ==
    \A p \in h.live, x \in Scopes :
        /\ h.link[ChildCell(p)] = x
             => h.start[p] <= h.start[x] /\ (h.end[p] # 0 => h.end[x] <= h.end[p])
        /\ h.link[SiblingCell(p)] = x
             => h.end[p] # 0 /\ h.end[p] <= h.start[x]

\* What is linked next gets a parent that has not ended and follows one that has.
CursorsTimely(h) ==
    \A s \in Slots :
        /\ h.next[s] # NULL => h.end[h.next[s]] = 0
        /\ \A p \in h.live : h.write[s] = SiblingCell(p) => h.end[p] # 0

\* The parent of a scope whose timer is open has not ended: its own timer, if it is
\* open, was opened before.  This is what fails when a destructor is run twice or
\* out of order.
ParentsOutlast(h, stack) ==
    \A i \in DOMAIN stack : stack[i].scope # NULL =>
        LET outer == h.parent[stack[i].scope] IN
        outer # NULL => /\ h.end[outer] = 0
                        /\ \A j \in DOMAIN stack : stack[j].scope = outer => j < i

SpanInv(h, stack, now) ==
    /\ ParentsAtHome(h)
    /\ UpTo(h, now)
    /\ SpansNest(h)
    /\ CursorsTimely(h)
    /\ ParentsOutlast(h, stack)

SpansInv == SpanInv(store, timers, clock)
=============================================================================
