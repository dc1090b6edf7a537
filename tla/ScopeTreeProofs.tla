--------------------------- MODULE ScopeTreeProofs ---------------------------
(***************************************************************************)
(* Proofs about ScopeTree, for every number of scopes, frames and timers.  *)
(*                                                                         *)
(* The steps of the thread are compositions of Push, Recycle and Pop, so   *)
(* there is one lemma per operation: it preserves HeapInv and the validity *)
(* of the timers it does not touch.  The theorem about Spec combines them. *)
(* Lemmas of the same kind show what an operation leaves of the other      *)
(* trees (Frozen), of the order of the intervals (SpanInv), and of the     *)
(* calls a reader of the trees finds (IsLogOf), which is what the          *)
(* refinement of CallLog needs.                                            *)
(***************************************************************************)
EXTENDS ScopeTreeWalk, DataInduction, SequenceTheorems

(***************************************************************************)
(* Cells.                                                                  *)
(***************************************************************************)

\* Distinct addresses are distinct cells, and there are no other cells.
LEMMA CellFacts ==
    /\ \A s \in Slots : RootCell(s) \in Cells
    /\ \A x \in Scopes : ChildCell(x) \in Cells /\ SiblingCell(x) \in Cells
    /\ \A s, t : RootCell(s) = RootCell(t) => s = t
    /\ \A x, y : ChildCell(x) = ChildCell(y) => x = y
    /\ \A x, y : SiblingCell(x) = SiblingCell(y) => x = y
    /\ \A s, x : RootCell(s) # ChildCell(x)
    /\ \A s, x : RootCell(s) # SiblingCell(x)
    /\ \A x, y : ChildCell(x) # SiblingCell(y)
    /\ \A c \in Cells : \/ \E s \in Slots : c = RootCell(s)
                        \/ \E x \in Scopes : c = ChildCell(x) \/ c = SiblingCell(x)
  BY DEF Cells, RootCells, ScopeCells, RootCell, ChildCell, SiblingCell

\* The cells of a set of scopes are the Child and Sibling of its members.
LEMMA ScopeCellsFacts ==
  ASSUME NEW X
  PROVE  \A c : c \in ScopeCells(X) <=> \E x \in X : c = ChildCell(x) \/ c = SiblingCell(x)
  BY DEF ScopeCells

(***************************************************************************)
(* Reach.                                                                  *)
(***************************************************************************)

\* A walk of a tree finds scopes of that tree only.
LEMMA ReachStaysHome ==
  ASSUME NEW h, HeapInv(h), NEW s \in Slots
  PROVE  /\ Reach(h, s) \subseteq h.live
         /\ \A x \in Reach(h, s) : h.home[x] = s
  <1> DEFINE X == {x \in h.live : h.home[x] = s}
  <1>1. X \in SUBSET Scopes
    BY DEF HeapInv, Store
  <1>2. h.link[RootCell(s)] \in X \cup {NULL}
    BY CellFacts, NullAssumption DEF HeapInv, Store, LinksOwned, LinksStayHome
  <1>3. ASSUME NEW x \in X, NEW y \in {h.link[ChildCell(x)], h.link[SiblingCell(x)]}
        PROVE  y \in X \cup {NULL}
    <2>1. x \in Scopes /\ y \in h.live \cup {NULL}
      BY <1>1, CellFacts DEF HeapInv, LinksOwned
    <2>2. y # NULL => y \in Scopes /\ h.home[y] = h.home[x]
      BY <1>1, <2>1, NullAssumption DEF HeapInv, LinksStayHome, Store
    <2> QED BY <2>1, <2>2
  <1>5. Closed(h, X)
    BY <1>3 DEF Closed
  <1>4. Reach(h, s) \subseteq X
    BY <1>1, <1>2, <1>5 DEF Reach
  <1> QED BY <1>4

\* Nothing leaks: a walk of a tree finds every live scope of that tree.
LEMMA ReachIsHome ==
  ASSUME NEW h, HeapInv(h), NEW s \in Slots
  PROVE  Reach(h, s) = {x \in h.live : h.home[x] = s}
  BY ReachStaysHome DEF HeapInv, AllReachable

(***************************************************************************)
(* Push.                                                                   *)
(***************************************************************************)

\* Push changes one cell, the cursor's: the cells of a free scope were empty.
LEMMA PushFields ==
  ASSUME NEW h, HeapInv(h), NEW s \in Slots, NEW x \in Scopes \ h.live,
         NEW now \in 0 .. MaxCycle, NEW g, g = Push(h, s, x, now)
  PROVE  /\ g \in Store
         /\ h.write[s] \in Cells
         /\ h.link[h.write[s]] = NULL
         /\ h.write[s] # ChildCell(x) /\ h.write[s] # SiblingCell(x)
         /\ g.link[h.write[s]] = x
         /\ \A c \in Cells \ {h.write[s]} : g.link[c] = h.link[c]
         /\ g.parent[x] = h.next[s] /\ g.home[x] = s /\ g.end[x] = 0
         /\ \A y \in Scopes \ {x} :
              g.parent[y] = h.parent[y] /\ g.home[y] = h.home[y] /\ g.end[y] = h.end[y]
         /\ g.write[s] = ChildCell(x) /\ g.next[s] = x
         /\ \A t \in Slots \ {s} : g.write[t] = h.write[t] /\ g.next[t] = h.next[t]
         /\ g.live = h.live \cup {x}
  <1>1. /\ h \in Store /\ x \in Scopes
        /\ h.link \in [Cells -> ScopeOrNull] /\ h.write \in [Slots -> Cells]
        /\ h.next \in [Slots -> ScopeOrNull] /\ h.parent \in [Scopes -> ScopeOrNull]
        /\ h.start \in [Scopes -> 0 .. MaxCycle] /\ h.end \in [Scopes -> 0 .. MaxCycle]
        /\ h.live \in SUBSET Scopes /\ h.home \in [Scopes -> Slots \cup {NULL}]
    BY DEF HeapInv, Store
  <1>2. /\ h.write[s] \in Cells
        /\ h.link[h.write[s]] = NULL
        /\ h.write[s] # ChildCell(x) /\ h.write[s] # SiblingCell(x)
    <2>1. CursorAt(h, s) /\ h.link[h.write[s]] = NULL
      BY DEF HeapInv, CursorsPlaced
    <2>2. h.write[s] # ChildCell(x) /\ h.write[s] # SiblingCell(x)
      BY <1>1, <2>1, CellFacts DEF CursorAt
    <2> QED BY <1>1, <2>1, <2>2
  <1>3. h.link[ChildCell(x)] = NULL /\ h.link[SiblingCell(x)] = NULL
    BY DEF HeapInv, LinksOwned
  <1>4. g.link \in [Cells -> ScopeOrNull]
    BY <1>1, <1>2 DEF Push, ScopeOrNull
  <1>5. g.link[h.write[s]] = x /\ \A c \in Cells \ {h.write[s]} : g.link[c] = h.link[c]
    BY <1>1, <1>2, <1>3, CellFacts DEF Push
  <1>6. /\ g.parent \in [Scopes -> ScopeOrNull]
        /\ g.start \in [Scopes -> 0 .. MaxCycle] /\ g.end \in [Scopes -> 0 .. MaxCycle]
        /\ g.home \in [Scopes -> Slots \cup {NULL}] /\ g.live \in SUBSET Scopes
    <2>1. 0 \in 0 .. MaxCycle
      BY BoundsAssumption
    <2> QED BY <1>1, <2>1 DEF Push
  <1>7. /\ g.write \in [Slots -> Cells] /\ g.next \in [Slots -> ScopeOrNull]
    BY <1>1, CellFacts DEF Push, ScopeOrNull
  <1>8. g \in Store
    BY <1>4, <1>6, <1>7 DEF Store, Push
  <1>9. g.parent[x] = h.next[s] /\ g.home[x] = s /\ g.end[x] = 0
    BY <1>1 DEF Push
  <1>10. \A y \in Scopes \ {x} :
           g.parent[y] = h.parent[y] /\ g.home[y] = h.home[y] /\ g.end[y] = h.end[y]
    BY <1>1 DEF Push
  <1>11. g.write[s] = ChildCell(x) /\ g.next[s] = x
    BY <1>1 DEF Push
  <1>12. \A t \in Slots \ {s} : g.write[t] = h.write[t] /\ g.next[t] = h.next[t]
    BY <1>1 DEF Push
  <1>13. g.live = h.live \cup {x}
    BY DEF Push
  <1> QED BY <1>2, <1>5, <1>8, <1>9, <1>10, <1>11, <1>12, <1>13

\* The scopes of the other trees stay reachable, the cursor's owner does too,
\* and so the new scope is.
LEMMA PushReach ==
  ASSUME NEW h, HeapInv(h), NEW s \in Slots, NEW x \in Scopes \ h.live,
         NEW now \in 0 .. MaxCycle, NEW g, g = Push(h, s, x, now)
  PROVE  AllReachable(g)
  <1>1. /\ h.live \subseteq Scopes /\ \A c \in Cells : h.link[c] \in h.live \cup {NULL}
        /\ \A y \in h.live : h.home[y] \in Slots
    BY DEF HeapInv, Store, LinksOwned, LinksStayHome
  <1>2. ASSUME NEW t \in Slots, NEW X \in SUBSET Scopes,
               g.link[RootCell(t)] \in X \cup {NULL}, Closed(g, X)
        PROVE  h.link[RootCell(t)] \in X \cup {NULL} /\ Closed(h, X)
    <2>1. \A c \in Cells : h.link[c] \in {g.link[c], NULL}
      BY PushFields
    <2>2. h.link[RootCell(t)] \in X \cup {NULL}
      BY <1>2, <2>1, CellFacts
    <2>3. ASSUME NEW y \in X
          PROVE  {h.link[ChildCell(y)], h.link[SiblingCell(y)]} \subseteq X \cup {NULL}
      BY <1>2, <2>1, <2>3, CellFacts DEF Closed
    <2> QED BY <2>2, <2>3 DEF Closed
  <1>3. ASSUME NEW y \in h.live
        PROVE  y \in Reach(g, h.home[y])
    <2>1. y \in Reach(h, h.home[y])
      BY DEF HeapInv, AllReachable
    <2> QED BY <1>1, <1>2, <2>1 DEF Reach
  <1>4. ASSUME NEW X \in SUBSET Scopes, g.link[RootCell(s)] \in X \cup {NULL}, Closed(g, X)
        PROVE  x \in X
    <2>1. CursorAt(h, s)
      BY DEF HeapInv, CursorsPlaced
    <2>2. CASE h.write[s] = RootCell(s)
      BY <1>4, <2>2, PushFields, NullAssumption
    <2>3. ASSUME NEW y \in h.live, h.home[y] = s,
                 h.write[s] = ChildCell(y) \/ h.write[s] = SiblingCell(y)
          PROVE  x \in X
      <3>1. y \in X
        BY <1>3, <1>4, <2>3 DEF Reach
      <3>2. x \in {g.link[ChildCell(y)], g.link[SiblingCell(y)]}
        BY <2>3, PushFields
      <3> QED BY <1>4, <3>1, <3>2, NullAssumption DEF Closed
    <2> QED BY <2>1, <2>2, <2>3 DEF CursorAt
  <1>5. x \in Reach(g, s)
    BY <1>4 DEF Reach
  <1>6. g.live = h.live \cup {x} /\ g.home[x] = s /\ \A y \in h.live : g.home[y] = h.home[y]
    BY <1>1, PushFields
  <1> QED BY <1>3, <1>5, <1>6 DEF AllReachable

\* Linking a free scope at the cursor keeps the heap invariant: the cursor's cell
\* was empty and of slot s, so the new scope has one owner and the right parent.
LEMMA PushKeepsHeap ==
  ASSUME NEW h, HeapInv(h), NEW s \in Slots, NEW x \in Scopes \ h.live,
         NEW now \in 0 .. MaxCycle, NEW g, g = Push(h, s, x, now)
  PROVE  HeapInv(g)
  <1> DEFINE w == h.write[s]
  <1>1. /\ h.live \subseteq Scopes
        /\ \A c \in Cells : h.link[c] \in h.live \cup {NULL}
    BY DEF HeapInv, Store, LinksOwned
  <1>2. /\ g \in Store
        /\ w \in Cells /\ g.link[w] = x /\ h.link[w] = NULL
        /\ \A c \in Cells \ {w} : g.link[c] = h.link[c]
        /\ g.live = h.live \cup {x}
        /\ g.parent[x] = h.next[s] /\ g.home[x] = s
        /\ \A y \in h.live : g.parent[y] = h.parent[y] /\ g.home[y] = h.home[y]
        /\ w # ChildCell(x) /\ w # SiblingCell(x)
    BY <1>1, PushFields
  <1>3. CursorAt(h, s)
    BY DEF HeapInv, CursorsPlaced
  <1>4. /\ g.link[ChildCell(x)] = NULL /\ g.link[SiblingCell(x)] = NULL
    BY <1>2, CellFacts DEF HeapInv, LinksOwned
  <1>5. LinksOwned(g)
    <2>1. \A c \in Cells : g.link[c] \in g.live \cup {NULL}
      BY <1>1, <1>2
    <2>2. \A c, d \in Cells : g.link[c] = g.link[d] /\ g.link[c] # NULL => c = d
      BY <1>1, <1>2, NullAssumption DEF HeapInv, LinksOwned
    <2>3. \A y \in g.live : \E c \in Cells : g.link[c] = y
      BY <1>1, <1>2, NullAssumption DEF HeapInv, LinksOwned
    <2>4. \A y \in Scopes \ g.live : w # ChildCell(y) /\ w # SiblingCell(y)
      BY <1>1, <1>2, <1>3, CellFacts DEF CursorAt
    <2>5. ASSUME NEW y \in Scopes \ g.live
          PROVE  g.link[ChildCell(y)] = NULL /\ g.link[SiblingCell(y)] = NULL
      <3>1. h.link[ChildCell(y)] = NULL /\ h.link[SiblingCell(y)] = NULL
        BY <1>2 DEF HeapInv, LinksOwned
      <3> QED BY <1>2, <2>4, <3>1, CellFacts
    <2> QED BY <2>1, <2>2, <2>3, <2>5 DEF LinksOwned
  <1>6. LinksStayHome(g)
    <2>1. \A y \in g.live : g.home[y] \in Slots
      BY <1>2 DEF HeapInv, LinksStayHome
    <2>2. ASSUME NEW t \in Slots, NEW y \in Scopes, g.link[RootCell(t)] = y
          PROVE  g.home[y] = t
      <3>1. CASE RootCell(t) = w
        BY <1>2, <1>3, <2>2, <3>1, CellFacts DEF CursorAt
      <3>2. CASE RootCell(t) # w
        BY <1>1, <1>2, <2>2, <3>2, CellFacts, NullAssumption DEF HeapInv, LinksStayHome
      <3> QED BY <3>1, <3>2
    <2>3. ASSUME NEW p \in g.live, NEW y \in Scopes, NEW c \in {ChildCell(p), SiblingCell(p)},
                 g.link[c] = y
          PROVE  g.home[y] = g.home[p]
      <3>1. p # x
        BY <1>4, <2>3, NullAssumption
      <3>2. CASE c = w
        BY <1>2, <1>3, <2>3, <3>1, <3>2, CellFacts DEF CursorAt
      <3>3. CASE c # w
        <4>1. c \in Cells /\ h.link[c] = y /\ p \in h.live /\ y \in h.live
          BY <1>1, <1>2, <2>3, <3>1, <3>3, CellFacts, NullAssumption
        <4> QED BY <1>2, <4>1, <2>3 DEF HeapInv, LinksStayHome
      <3> QED BY <3>2, <3>3
    <2> QED BY <2>1, <2>2, <2>3 DEF LinksStayHome
  <1>7. ParentsAgree(g)
    <2>2. ASSUME NEW t \in Slots, NEW y \in Scopes, g.link[RootCell(t)] = y
          PROVE  g.parent[y] = NULL
      <3>1. CASE RootCell(t) = w
        BY <1>2, <1>3, <2>2, <3>1, CellFacts DEF CursorAt
      <3>2. CASE RootCell(t) # w
        BY <1>1, <1>2, <2>2, <3>2, CellFacts, NullAssumption DEF HeapInv, ParentsAgree
      <3> QED BY <3>1, <3>2
    <2>3. ASSUME NEW p \in g.live, NEW y \in Scopes, g.link[ChildCell(p)] = y
          PROVE  g.parent[y] = p
      <3>1. p # x
        BY <1>4, <2>3, NullAssumption
      <3>2. CASE ChildCell(p) = w
        BY <1>2, <1>3, <2>3, <3>1, <3>2, CellFacts DEF CursorAt
      <3>3. CASE ChildCell(p) # w
        <4>1. h.link[ChildCell(p)] = y /\ p \in h.live /\ y \in h.live
          BY <1>1, <1>2, <2>3, <3>1, <3>3, CellFacts, NullAssumption
        <4> QED BY <1>2, <4>1 DEF HeapInv, ParentsAgree
      <3> QED BY <3>2, <3>3
    <2>4. ASSUME NEW p \in g.live, NEW y \in Scopes, g.link[SiblingCell(p)] = y
          PROVE  g.parent[y] = g.parent[p]
      <3>1. p # x
        BY <1>4, <2>4, NullAssumption
      <3>2. CASE SiblingCell(p) = w
        BY <1>2, <1>3, <2>4, <3>1, <3>2, CellFacts DEF CursorAt
      <3>3. CASE SiblingCell(p) # w
        <4>1. h.link[SiblingCell(p)] = y /\ p \in h.live /\ y \in h.live
          BY <1>1, <1>2, <2>4, <3>1, <3>3, CellFacts, NullAssumption
        <4> QED BY <1>2, <4>1 DEF HeapInv, ParentsAgree
      <3> QED BY <3>2, <3>3
    <2> QED BY <2>2, <2>3, <2>4 DEF ParentsAgree
  <1>8. CursorsPlaced(g)
    <2>1. CursorAt(g, s) /\ g.link[g.write[s]] = NULL
      BY <1>2, <1>4, PushFields DEF CursorAt
    <2>2. ASSUME NEW t \in Slots \ {s}
          PROVE  CursorAt(g, t) /\ g.link[g.write[t]] = NULL
      <3>1. CursorAt(h, t) /\ h.link[h.write[t]] = NULL
        BY DEF HeapInv, CursorsPlaced
      <3>2. g.write[t] = h.write[t] /\ g.next[t] = h.next[t]
        BY PushFields
      <3>3. h.write[t] # w /\ h.write[t] \in Cells
        BY <1>1, <1>3, <3>1, CellFacts DEF CursorAt
      <3> QED BY <1>2, <3>1, <3>2, <3>3 DEF CursorAt
    <2> QED BY <2>1, <2>2 DEF CursorsPlaced
  <1>9. AllReachable(g)
    BY PushReach
  <1> QED BY <1>2, <1>5, <1>6, <1>7, <1>8, <1>9 DEF HeapInv

(***************************************************************************)
(* Recycle.                                                                *)
(***************************************************************************)

\* Recycling a slot empties its tree and leaves every other tree as it was.
LEMMA RecycleFields ==
  ASSUME NEW h, HeapInv(h), NEW s \in Slots, NEW g, g = Recycle(h, s)
  PROVE  /\ g \in Store
         /\ g.live = {x \in h.live : h.home[x] # s}
         /\ \A c \in Cells : g.link[c] \in {h.link[c], NULL}
         /\ g.link[RootCell(s)] = NULL
         /\ \A t \in Slots \ {s} : g.link[RootCell(t)] = h.link[RootCell(t)]
         /\ \A x \in g.live : /\ g.link[ChildCell(x)] = h.link[ChildCell(x)]
                              /\ g.link[SiblingCell(x)] = h.link[SiblingCell(x)]
                              /\ g.parent[x] = h.parent[x] /\ g.home[x] = h.home[x]
                              /\ g.end[x] = h.end[x]
         /\ \A x \in Scopes \ g.live : g.link[ChildCell(x)] = NULL /\ g.link[SiblingCell(x)] = NULL
         /\ g.write[s] = RootCell(s) /\ g.next[s] = NULL
         /\ \A t \in Slots \ {s} : g.write[t] = h.write[t] /\ g.next[t] = h.next[t]
  <1> DEFINE R == Reach(h, s)
             gone == ScopeCells(R) \cup {RootCell(s)}
  <1>1. /\ h.link \in [Cells -> ScopeOrNull] /\ h.write \in [Slots -> Cells]
        /\ h.next \in [Slots -> ScopeOrNull] /\ h.parent \in [Scopes -> ScopeOrNull]
        /\ h.start \in [Scopes -> 0 .. MaxCycle] /\ h.end \in [Scopes -> 0 .. MaxCycle]
        /\ h.live \in SUBSET Scopes /\ h.home \in [Scopes -> Slots \cup {NULL}]
    BY DEF HeapInv, Store
  <1>2. R = {x \in h.live : h.home[x] = s}
    BY ReachIsHome
  <1>3. g.link = [c \in Cells |-> IF c \in gone THEN NULL ELSE h.link[c]]
    BY DEF Recycle
  <1>4. \A c : c \in gone <=> c = RootCell(s) \/ \E x \in R : c = ChildCell(x) \/ c = SiblingCell(x)
    BY ScopeCellsFacts
  <1>5. g.live = h.live \ R
    BY DEF Recycle
  <1>6. g \in Store
    <2>1. g.link \in [Cells -> ScopeOrNull]
      BY <1>1, <1>3 DEF ScopeOrNull
    <2>2. /\ g.parent \in [Scopes -> ScopeOrNull] /\ g.home \in [Scopes -> Slots \cup {NULL}]
      BY <1>1 DEF Recycle, ScopeOrNull
    <2>3. /\ g.start \in [Scopes -> 0 .. MaxCycle] /\ g.end \in [Scopes -> 0 .. MaxCycle]
      <3>1. 0 \in 0 .. MaxCycle
        BY BoundsAssumption
      <3> QED BY <1>1, <3>1 DEF Recycle
    <2>4. g.write \in [Slots -> Cells] /\ g.next \in [Slots -> ScopeOrNull]
      BY <1>1, CellFacts DEF Recycle, ScopeOrNull
    <2>5. g.live \in SUBSET Scopes
      BY <1>1, <1>5
    <2> QED BY <2>1, <2>2, <2>3, <2>4, <2>5 DEF Store, Recycle
  <1>7. \A c \in Cells : g.link[c] \in {h.link[c], NULL}
    BY <1>3
  <1>8. g.link[RootCell(s)] = NULL
    BY <1>3, CellFacts
  <1>9. \A t \in Slots \ {s} : g.link[RootCell(t)] = h.link[RootCell(t)]
    <2>1. \A t \in Slots \ {s} : RootCell(t) \in Cells /\ RootCell(t) \notin gone
      BY <1>4, CellFacts
    <2> QED BY <1>3, <2>1
  <1>10. ASSUME NEW x \in g.live
         PROVE  /\ g.link[ChildCell(x)] = h.link[ChildCell(x)]
                /\ g.link[SiblingCell(x)] = h.link[SiblingCell(x)]
                /\ g.parent[x] = h.parent[x] /\ g.home[x] = h.home[x]
                /\ g.end[x] = h.end[x]
    <2>1. x \in Scopes /\ x \notin R
      BY <1>1, <1>5
    <2>2. /\ ChildCell(x) \in Cells /\ ChildCell(x) \notin gone
          /\ SiblingCell(x) \in Cells /\ SiblingCell(x) \notin gone
      BY <1>4, <2>1, CellFacts
    <2>3. /\ g.parent[x] = h.parent[x] /\ g.home[x] = h.home[x] /\ g.end[x] = h.end[x]
      BY <2>1 DEF Recycle
    <2> QED BY <1>3, <2>2, <2>3
  <1>11. ASSUME NEW x \in Scopes \ g.live
         PROVE  g.link[ChildCell(x)] = NULL /\ g.link[SiblingCell(x)] = NULL
    <2>1. CASE x \in R
      BY <1>3, <1>4, <2>1, CellFacts
    <2>2. CASE x \notin R
      <3>1. h.link[ChildCell(x)] = NULL /\ h.link[SiblingCell(x)] = NULL
        BY <1>5, <2>2 DEF HeapInv, LinksOwned
      <3> QED BY <1>7, <3>1, CellFacts
    <2> QED BY <2>1, <2>2
  <1>12. g.write[s] = RootCell(s) /\ g.next[s] = NULL
    BY <1>1 DEF Recycle
  <1>13. \A t \in Slots \ {s} : g.write[t] = h.write[t] /\ g.next[t] = h.next[t]
    BY <1>1 DEF Recycle
  <1>14. g.live = {x \in h.live : h.home[x] # s}
    BY <1>2, <1>5
  <1> QED BY <1>6, <1>7, <1>8, <1>9, <1>10, <1>11, <1>12, <1>13, <1>14

\* Freeing slot s leaves what the walks of the other slots visit.
LEMMA RecycleReach ==
  ASSUME NEW h, HeapInv(h), NEW s \in Slots, NEW g, g = Recycle(h, s)
  PROVE  AllReachable(g)
  <1> SUFFICES ASSUME NEW x \in g.live, NEW X \in SUBSET Scopes,
                      g.link[RootCell(g.home[x])] \in X \cup {NULL}, Closed(g, X)
               PROVE  x \in X
    BY RecycleFields DEF AllReachable, Reach, Store
  <1> DEFINE t == h.home[x]
             Y == X \cup {y \in Scopes : h.home[y] # t}
  <1>1. /\ h.live \subseteq Scopes /\ \A c \in Cells : h.link[c] \in h.live \cup {NULL}
    BY DEF HeapInv, Store, LinksOwned
  <1>2. /\ x \in h.live /\ t # s /\ t \in Slots /\ g.home[x] = t
        /\ g.live = {y \in h.live : h.home[y] # s}
    BY RecycleFields DEF HeapInv, LinksStayHome
  <1>3. h.link[RootCell(t)] \in Y \cup {NULL}
    BY <1>2, RecycleFields
  <1>4. ASSUME NEW y \in Y, NEW z \in {h.link[ChildCell(y)], h.link[SiblingCell(y)]}
        PROVE  z \in Y \cup {NULL}
    <2>1. CASE y \notin h.live
      BY <1>1, <2>1, NullAssumption DEF HeapInv, LinksOwned
    <2>2. CASE y \in h.live /\ h.home[y] # t
      <3>1. z \in h.live \cup {NULL}
        BY <1>1, <2>2, CellFacts
      <3>2. z # NULL => h.home[z] = h.home[y]
        BY <1>1, <2>2, <3>1 DEF HeapInv, LinksStayHome
      <3> QED BY <1>1, <2>2, <3>1, <3>2
    <2>3. CASE y \in h.live /\ h.home[y] = t
      <3>1. y \in X /\ y \in g.live
        BY <1>2, <2>3
      <3>2. z \in {g.link[ChildCell(y)], g.link[SiblingCell(y)]}
        BY <3>1, RecycleFields
      <3> QED BY <3>1, <3>2 DEF Closed
    <2> QED BY <2>1, <2>2, <2>3
  <1>5. Closed(h, Y) /\ Y \in SUBSET Scopes
    BY <1>4 DEF Closed
  <1>6. x \in Reach(h, t)
    BY <1>2 DEF HeapInv, AllReachable
  <1>7. x \in Y
    BY <1>3, <1>5, <1>6 DEF Reach
  <1> QED BY <1>7

\* Freeing a whole tree keeps the heap invariant: no link of another tree, and no
\* cursor of another slot, led into it.
LEMMA RecycleKeepsHeap ==
  ASSUME NEW h, HeapInv(h), NEW s \in Slots, NEW g, g = Recycle(h, s)
  PROVE  HeapInv(g)
  <1>1. /\ g \in Store
        /\ h.live \subseteq Scopes /\ g.live = {x \in h.live : h.home[x] # s}
        /\ \A c \in Cells : h.link[c] \in h.live \cup {NULL}
        /\ \A c \in Cells : g.link[c] \in {h.link[c], NULL}
        /\ \A x \in g.live : /\ g.link[ChildCell(x)] = h.link[ChildCell(x)]
                             /\ g.link[SiblingCell(x)] = h.link[SiblingCell(x)]
                             /\ g.parent[x] = h.parent[x] /\ g.home[x] = h.home[x]
    BY RecycleFields DEF HeapInv, Store, LinksOwned
  <1>2. \A x \in Scopes \ g.live : g.link[ChildCell(x)] = NULL /\ g.link[SiblingCell(x)] = NULL
    BY RecycleFields
  <1>3. /\ g.link[RootCell(s)] = NULL
        /\ \A t \in Slots \ {s} : g.link[RootCell(t)] = h.link[RootCell(t)]
    BY RecycleFields
  <1>4. ASSUME NEW p \in g.live, NEW y \in Scopes,
               NEW c \in {ChildCell(p), SiblingCell(p)}, g.link[c] = y
        PROVE  h.link[c] = y /\ y \in g.live /\ h.home[y] = h.home[p] /\ p \in h.live
    <2>1. p \in h.live /\ h.home[p] # s /\ h.link[c] = y /\ c \in Cells
      BY <1>1, <1>4, CellFacts
    <2>2. y \in h.live /\ h.home[y] = h.home[p]
      BY <1>1, <2>1, NullAssumption DEF HeapInv, LinksStayHome
    <2> QED BY <1>1, <2>1, <2>2
  <1>5. ASSUME NEW t \in Slots, NEW y \in Scopes, g.link[RootCell(t)] = y
        PROVE  h.link[RootCell(t)] = y /\ y \in g.live /\ h.home[y] = t
    <2>1. t # s /\ h.link[RootCell(t)] = y
      BY <1>3, <1>5, NullAssumption
    <2>2. y \in h.live /\ h.home[y] = t
      BY <1>1, <2>1, CellFacts, NullAssumption DEF HeapInv, LinksStayHome
    <2> QED BY <1>1, <2>1, <2>2
  <1>6. LinksOwned(g)
    <2>1. ASSUME NEW c \in Cells
          PROVE  g.link[c] \in g.live \cup {NULL}
      <3>1. SUFFICES ASSUME g.link[c] # NULL PROVE g.link[c] \in g.live
        OBVIOUS
      <3>2. g.link[c] \in Scopes
        BY <1>1, <3>1
      <3>3. CASE \E t \in Slots : c = RootCell(t)
        BY <1>5, <3>2, <3>3
      <3>4. ASSUME NEW p \in Scopes, c = ChildCell(p) \/ c = SiblingCell(p)
            PROVE  g.link[c] \in g.live
        <4>1. p \in g.live
          BY <1>2, <3>1, <3>4
        <4> QED BY <1>4, <3>2, <3>4, <4>1
      <3> QED BY <3>3, <3>4, CellFacts
    <2>2. \A c, d \in Cells : g.link[c] = g.link[d] /\ g.link[c] # NULL => c = d
      BY <1>1 DEF HeapInv, LinksOwned
    <2>3. ASSUME NEW y \in g.live
          PROVE  \E c \in Cells : g.link[c] = y
      <3>1. PICK c \in Cells : h.link[c] = y
        BY <1>1 DEF HeapInv, LinksOwned
      <3>2. y \in Scopes /\ y # NULL /\ h.home[y] # s
        BY <1>1, NullAssumption
      <3>3. ASSUME NEW t \in Slots, c = RootCell(t)
            PROVE  g.link[c] = y
        <4>1. t # s
          BY <3>1, <3>2, <3>3 DEF HeapInv, LinksStayHome
        <4> QED BY <1>3, <3>1, <3>3, <4>1
      <3>4. ASSUME NEW p \in Scopes, c = ChildCell(p) \/ c = SiblingCell(p)
            PROVE  g.link[c] = y
        <4>1. p \in h.live
          BY <3>1, <3>2, <3>4 DEF HeapInv, LinksOwned
        <4>2. p \in g.live
          BY <1>1, <3>1, <3>2, <3>4, <4>1 DEF HeapInv, LinksStayHome
        <4> QED BY <1>1, <3>1, <3>4, <4>2
      <3> QED BY <3>3, <3>4, CellFacts
    <2> QED BY <1>2, <2>1, <2>2, <2>3 DEF LinksOwned
  <1>7. LinksStayHome(g)
    <2>1. \A y \in g.live : g.home[y] \in Slots
      BY <1>1 DEF HeapInv, LinksStayHome
    <2> QED BY <1>1, <1>4, <1>5, <2>1 DEF LinksStayHome
  <1>8. ParentsAgree(g)
    <2>1. ASSUME NEW t \in Slots, NEW y \in Scopes, g.link[RootCell(t)] = y
          PROVE  g.parent[y] = NULL
      BY <1>1, <1>5, <2>1 DEF HeapInv, ParentsAgree
    <2>2. ASSUME NEW p \in g.live, NEW y \in Scopes, g.link[ChildCell(p)] = y
          PROVE  g.parent[y] = p
      <3>1. h.link[ChildCell(p)] = y /\ y \in g.live /\ p \in h.live
        BY <1>4, <2>2
      <3> QED BY <1>1, <3>1 DEF HeapInv, ParentsAgree
    <2>3. ASSUME NEW p \in g.live, NEW y \in Scopes, g.link[SiblingCell(p)] = y
          PROVE  g.parent[y] = g.parent[p]
      <3>1. h.link[SiblingCell(p)] = y /\ y \in g.live /\ p \in h.live
        BY <1>4, <2>3
      <3> QED BY <1>1, <3>1 DEF HeapInv, ParentsAgree
    <2> QED BY <2>1, <2>2, <2>3 DEF ParentsAgree
  <1>9. CursorsPlaced(g)
    <2>1. CursorAt(g, s) /\ g.link[g.write[s]] = NULL
      BY <1>3, RecycleFields DEF CursorAt
    <2>2. ASSUME NEW t \in Slots \ {s}
          PROVE  CursorAt(g, t) /\ g.link[g.write[t]] = NULL
      <3>1. CursorAt(h, t) /\ h.link[h.write[t]] = NULL /\ h.write[t] \in Cells
        BY DEF HeapInv, CursorsPlaced, Store
      <3>2. g.write[t] = h.write[t] /\ g.next[t] = h.next[t]
        BY RecycleFields
      <3>3. CursorAt(g, t)
        BY <1>1, <3>1, <3>2 DEF CursorAt
      <3>4. g.link[g.write[t]] = NULL
        BY <1>1, <3>1, <3>2
      <3> QED BY <3>3, <3>4
    <2> QED BY <2>1, <2>2 DEF CursorsPlaced
  <1>10. AllReachable(g)
    BY RecycleReach
  <1> QED BY <1>1, <1>6, <1>7, <1>8, <1>9, <1>10 DEF HeapInv

(***************************************************************************)
(* Pop.                                                                    *)
(***************************************************************************)

\* Pop moves one cursor and ends one scope; no link changes.
LEMMA PopFields ==
  ASSUME NEW h, HeapInv(h), NEW timer \in Timer, timer.scope # NULL, timer.scope \in h.live,
         NEW now \in 0 .. MaxCycle, NEW g, g = Pop(h, timer, now)
  PROVE  /\ g \in Store
         /\ g.link = h.link /\ g.parent = h.parent /\ g.live = h.live /\ g.home = h.home
         /\ g.write[timer.tree] = SiblingCell(timer.scope)
         /\ g.next[timer.tree] = h.parent[timer.scope]
         /\ \A t \in Slots \ {timer.tree} : g.write[t] = h.write[t] /\ g.next[t] = h.next[t]
         /\ \A y \in Scopes \ {timer.scope} : g.end[y] = h.end[y]
  <1>1. /\ h \in Store
        /\ h.link \in [Cells -> ScopeOrNull] /\ h.write \in [Slots -> Cells]
        /\ h.next \in [Slots -> ScopeOrNull] /\ h.parent \in [Scopes -> ScopeOrNull]
        /\ h.start \in [Scopes -> 0 .. MaxCycle] /\ h.end \in [Scopes -> 0 .. MaxCycle]
        /\ h.live \in SUBSET Scopes /\ h.home \in [Scopes -> Slots \cup {NULL}]
    BY DEF HeapInv, Store
  <1>2. timer.scope \in Scopes /\ timer.tree \in Slots
    BY <1>1 DEF Timer
  <1>3. g = [h EXCEPT !.end = [h.end EXCEPT ![timer.scope] = now],
                      !.write = [h.write EXCEPT ![timer.tree] = SiblingCell(timer.scope)],
                      !.next = [h.next EXCEPT ![timer.tree] = h.parent[timer.scope]]]
    BY DEF Pop
  <1>4. /\ g.link = h.link /\ g.parent = h.parent /\ g.live = h.live /\ g.home = h.home
        /\ g.start = h.start
        /\ g.end = [h.end EXCEPT ![timer.scope] = now]
        /\ g.write = [h.write EXCEPT ![timer.tree] = SiblingCell(timer.scope)]
        /\ g.next = [h.next EXCEPT ![timer.tree] = h.parent[timer.scope]]
    BY <1>1, <1>3 DEF Store
  <1>5. /\ g.end \in [Scopes -> 0 .. MaxCycle] /\ g.write \in [Slots -> Cells]
        /\ g.next \in [Slots -> ScopeOrNull]
    BY <1>1, <1>2, <1>4, CellFacts
  <1>6. g \in Store
    BY <1>1, <1>3, <1>5, <1>4 DEF Store
  <1> QED BY <1>1, <1>2, <1>4, <1>6

\* Closing a scope that has no sibling yet keeps the heap invariant.
LEMMA PopKeepsHeap ==
  ASSUME NEW h, HeapInv(h), NEW timer \in Timer, timer.scope # NULL, TimerValid(h, timer),
         NEW now \in 0 .. MaxCycle, NEW g, g = Pop(h, timer, now)
  PROVE  HeapInv(g)
  <1>1. /\ timer.scope \in h.live /\ h.home[timer.scope] = timer.tree /\ timer.tree \in Slots
        /\ h.link[SiblingCell(timer.scope)] = NULL
    BY DEF TimerValid, Timer
  <1>2. /\ g \in Store
        /\ g.link = h.link /\ g.parent = h.parent /\ g.live = h.live /\ g.home = h.home
        /\ g.write[timer.tree] = SiblingCell(timer.scope)
        /\ g.next[timer.tree] = h.parent[timer.scope]
        /\ \A t \in Slots \ {timer.tree} : g.write[t] = h.write[t] /\ g.next[t] = h.next[t]
    BY <1>1, PopFields
  <1>3. LinksOwned(g) /\ LinksStayHome(g) /\ ParentsAgree(g)
    BY <1>2 DEF HeapInv, LinksOwned, LinksStayHome, ParentsAgree
  <1>4. AllReachable(g)
    BY <1>2 DEF HeapInv, AllReachable, Reach, Closed
  <1>5. CursorsPlaced(g)
    <2>1. CursorAt(g, timer.tree) /\ g.link[g.write[timer.tree]] = NULL
      BY <1>1, <1>2 DEF CursorAt
    <2>2. ASSUME NEW t \in Slots \ {timer.tree}
          PROVE  CursorAt(g, t) /\ g.link[g.write[t]] = NULL
      <3>1. CursorAt(h, t) /\ h.link[h.write[t]] = NULL
        BY DEF HeapInv, CursorsPlaced
      <3> QED BY <1>2, <3>1 DEF CursorAt
    <2> QED BY <2>1, <2>2 DEF CursorsPlaced
  <1> QED BY <1>2, <1>3, <1>4, <1>5 DEF HeapInv

(***************************************************************************)
(* The open timers.                                                        *)
(***************************************************************************)

\* A timer opened on the pushed scope is valid, and the others stay valid.
LEMMA PushKeepsTimers ==
  ASSUME NEW h, HeapInv(h), NEW s \in Slots, NEW x \in Scopes \ h.live,
         NEW now \in 0 .. MaxCycle, NEW g, g = Push(h, s, x, now)
  PROVE  /\ \A timer \in Timer : TimerValid(h, timer) => TimerValid(g, timer)
         /\ TimerValid(g, [scope |-> x, tree |-> s])
  <1>1. h.live \subseteq Scopes /\ h.write \in [Slots -> Cells]
    BY DEF HeapInv, Store
  <1>2. ASSUME NEW timer \in Timer, TimerValid(h, timer), timer.scope # NULL
        PROVE  TimerValid(g, timer)
    <2>1. /\ timer.scope \in h.live /\ timer.scope \in Scopes /\ timer.scope # x
          /\ h.link[SiblingCell(timer.scope)] = NULL
          /\ \A t \in Slots : h.write[t] # SiblingCell(timer.scope)
      BY <1>1, <1>2 DEF TimerValid
    <2>2. g.link[SiblingCell(timer.scope)] = NULL
      BY <2>1, CellFacts, PushFields
    <2>3. \A t \in Slots : g.write[t] # SiblingCell(timer.scope)
      BY <2>1, CellFacts, PushFields
    <2>4. /\ timer.scope \in g.live /\ g.home[timer.scope] = h.home[timer.scope]
          /\ g.end[timer.scope] = h.end[timer.scope]
      BY <2>1, PushFields
    <2> QED BY <1>2, <2>2, <2>3, <2>4 DEF TimerValid
  <1>3. /\ x \in g.live /\ g.home[x] = s /\ g.end[x] = 0
    BY PushFields
  <1>4. g.link[SiblingCell(x)] = NULL
    <2>1. h.link[SiblingCell(x)] = NULL
      BY DEF HeapInv, LinksOwned
    <2> QED BY <2>1, CellFacts, PushFields
  <1>5. ASSUME NEW t \in Slots
        PROVE  g.write[t] # SiblingCell(x)
    <2>1. CASE t = s
      BY <2>1, CellFacts, PushFields
    <2>2. CASE t # s
      <3>1. CursorAt(h, t) /\ g.write[t] = h.write[t]
        BY <2>2, PushFields DEF HeapInv, CursorsPlaced
      <3> QED BY <1>1, <3>1, CellFacts DEF CursorAt
    <2> QED BY <2>1, <2>2
  <1>6. TimerValid(g, [scope |-> x, tree |-> s])
    BY <1>3, <1>4, <1>5 DEF TimerValid
  <1> QED BY <1>2, <1>6 DEF TimerValid

\* Freeing slot s does not touch the scope of a timer opened in another slot.
LEMMA RecycleKeepsTimers ==
  ASSUME NEW h, HeapInv(h), NEW s \in Slots, NEW g, g = Recycle(h, s),
         NEW timer \in Timer, TimerValid(h, timer), timer.tree # s \/ timer.scope = NULL
  PROVE  TimerValid(g, timer)
  <1> SUFFICES ASSUME timer.scope # NULL PROVE TimerValid(g, timer)
    BY DEF TimerValid
  <1>1. /\ timer.scope \in h.live /\ h.home[timer.scope] = timer.tree /\ timer.tree # s
        /\ h.end[timer.scope] = 0 /\ h.link[SiblingCell(timer.scope)] = NULL
        /\ \A t \in Slots : h.write[t] # SiblingCell(timer.scope)
    BY DEF TimerValid
  <1>2. timer.scope \in g.live
    BY <1>1, RecycleFields
  <1>3. /\ g.home[timer.scope] = timer.tree /\ g.end[timer.scope] = 0
        /\ g.link[SiblingCell(timer.scope)] = NULL
    BY <1>1, <1>2, RecycleFields
  <1>4. \A t \in Slots : g.write[t] # SiblingCell(timer.scope)
    BY <1>1, CellFacts, RecycleFields
  <1> QED BY <1>2, <1>3, <1>4 DEF TimerValid

\* Closing one timer's scope leaves the other timers valid.
LEMMA PopKeepsTimers ==
  ASSUME NEW h, HeapInv(h), NEW timer \in Timer, timer.scope # NULL, TimerValid(h, timer),
         NEW now \in 0 .. MaxCycle, NEW g, g = Pop(h, timer, now),
         NEW other \in Timer, TimerValid(h, other), other.scope # timer.scope
  PROVE  TimerValid(g, other)
  <1> SUFFICES ASSUME other.scope # NULL PROVE TimerValid(g, other)
    BY DEF TimerValid
  <1>1. /\ other.scope \in h.live /\ other.scope \in Scopes /\ timer.scope \in h.live
        /\ h.home[other.scope] = other.tree /\ h.end[other.scope] = 0
        /\ h.link[SiblingCell(other.scope)] = NULL
        /\ \A t \in Slots : h.write[t] # SiblingCell(other.scope)
    BY DEF TimerValid, Timer, ScopeOrNull
  <1>2. /\ other.scope \in g.live /\ g.home[other.scope] = other.tree
        /\ g.end[other.scope] = 0 /\ g.link[SiblingCell(other.scope)] = NULL
    BY <1>1, PopFields
  <1>3. ASSUME NEW t \in Slots
        PROVE  g.write[t] # SiblingCell(other.scope)
    <2>1. CASE t = timer.tree
      BY <1>1, <2>1, CellFacts, PopFields
    <2>2. CASE t # timer.tree
      BY <1>1, <2>2, PopFields
    <2> QED BY <2>1, <2>2
  <1> QED BY <1>2, <1>3 DEF TimerValid

\* What the destructor's pop of the timer stack leaves.
LEMMA WithoutInnermostFacts ==
  ASSUME NEW q \in Seq(Timer), q # <<>>
  PROVE  /\ Len(q) \in DOMAIN q /\ q[Len(q)] \in Timer
         /\ SubSeq(q, 1, Len(q) - 1) \in Seq(Timer)
         /\ \A i \in DOMAIN SubSeq(q, 1, Len(q) - 1) :
              i \in DOMAIN q /\ i # Len(q) /\ SubSeq(q, 1, Len(q) - 1)[i] = q[i]
  <1>1. Len(q) \in Nat /\ Len(q) # 0 /\ DOMAIN q = 1 .. Len(q)
        /\ \A i \in 1 .. Len(q) : q[i] \in Timer
    BY EmptySeq
  <1> DEFINE r == SubSeq(q, 1, Len(q) - 1)
  <1>2. /\ r \in Seq(Timer)
        /\ Len(r) = Len(q) - 1
        /\ \A i \in 1 .. Len(q) - 1 : r[i] = q[i]
    BY <1>1, SubSeqProperties
  <1>3. DOMAIN r = 1 .. Len(q) - 1
    BY <1>2
  <1> QED BY <1>1, <1>2, <1>3

\* What Append does to a sequence, index by index.
LEMMA AppendFacts ==
  ASSUME NEW q \in Seq(Timer), NEW e \in Timer
  PROVE  /\ Append(q, e) \in Seq(Timer)
         /\ \A i \in DOMAIN Append(q, e) :
              (i \in DOMAIN q /\ Append(q, e)[i] = q[i]) \/ (i = Len(q) + 1 /\ Append(q, e)[i] = e)
  BY AppendProperties

(***************************************************************************)
(* The inductive invariant.                                                *)
(***************************************************************************)

\* The store InitDebugDataSystem leaves satisfies the heap invariant.
LEMMA EmptyStoreInv == HeapInv(EmptyStore)
  <1> DEFINE h == EmptyStore
  <1>1. h \in Store
    <2>1. 0 \in 0 .. MaxCycle
      BY BoundsAssumption
    <2> QED BY <2>1, CellFacts DEF EmptyStore, Store, ScopeOrNull
  <1>2. /\ h.live = {} /\ \A c \in Cells : h.link[c] = NULL
        /\ \A s \in Slots : h.write[s] = RootCell(s) /\ h.next[s] = NULL
    BY DEF EmptyStore
  <1>3. LinksOwned(h)
    BY <1>2, CellFacts DEF LinksOwned
  <1>4. LinksStayHome(h) /\ ParentsAgree(h)
    BY <1>2, CellFacts, NullAssumption DEF LinksStayHome, ParentsAgree
  <1>5. CursorsPlaced(h)
    BY <1>2, CellFacts DEF CursorsPlaced, CursorAt
  <1>6. AllReachable(h)
    BY <1>2 DEF AllReachable
  <1> QED BY <1>1, <1>3, <1>4, <1>5, <1>6 DEF HeapInv

\* The inductive invariant holds initially.
LEMMA InitIInv == Init => IInv
  <1> SUFFICES ASSUME Init PROVE IInv
    OBVIOUS
  <1>1. 1 \in Slots /\ 1 \in 1 .. MaxCycle
    BY FramesAssumption, BoundsAssumption DEF Slots
  <1>2. store \in Store /\ HeapInv(store)
    BY EmptyStoreInv DEF Init, HeapInv
  <1>3. timers \in Seq(Timer) /\ DOMAIN timers = {}
    BY DEF Init
  <1> QED BY <1>1, <1>2, <1>3 DEF Init, IInv, TypeOK

\* The next slot of the ring is another slot.
LEMMA NextSlotFacts == writeSlot \in Slots => NextSlot \in Slots /\ NextSlot # writeSlot
  BY FramesAssumption DEF Slots, NextSlot

\* Each step of the thread preserves the invariant.
LEMMA StepIInv == IInv /\ [Next]_vars => IInv'
  <1> SUFFICES ASSUME IInv, [Next]_vars PROVE IInv'
    OBVIOUS
  <1>1. /\ store \in Store /\ writeSlot \in Slots /\ timers \in Seq(Timer)
        /\ profiling \in BOOLEAN /\ clock \in 1 .. MaxCycle
        /\ HeapInv(store)
        /\ \A i \in DOMAIN timers : timers[i] \in Timer /\ TimerValid(store, timers[i])
        /\ \A i, j \in DOMAIN timers :
             timers[i].scope = timers[j].scope /\ timers[i].scope # NULL => i = j
    BY DEF IInv, TypeOK
  <1>2. store.live \subseteq Scopes /\ NULL \notin store.live
    BY <1>1, NullAssumption DEF Store
  <1>3. \A now \in Ticks : now \in 0 .. MaxCycle /\ now \in 1 .. MaxCycle
    BY <1>1, BoundsAssumption DEF Ticks
  <1>4. CASE OpenTimer
    <2>1. PICK x \in Scopes \ store.live, now \in Ticks :
            /\ store' = Push(store, writeSlot, x, now)
            /\ timers' = Append(timers, [scope |-> x, tree |-> writeSlot])
            /\ clock' = now
      BY <1>4 DEF OpenTimer
    <2> DEFINE new == [scope |-> x, tree |-> writeSlot]
    <2>2. new \in Timer /\ new.scope = x
      BY <1>1 DEF Timer, ScopeOrNull
    <2>3. HeapInv(store')
      BY <1>1, <1>3, <2>1, PushKeepsHeap
    <2>4. /\ \A timer \in Timer : TimerValid(store, timer) => TimerValid(store', timer)
          /\ TimerValid(store', new)
      BY <1>1, <1>3, <2>1, PushKeepsTimers
    <2>5. /\ timers' \in Seq(Timer)
          /\ \A i \in DOMAIN timers' :
               \/ i \in DOMAIN timers /\ timers'[i] = timers[i]
               \/ i = Len(timers) + 1 /\ timers'[i] = new
      BY <1>1, <2>1, <2>2, AppendFacts
    <2>6. \A i \in DOMAIN timers : timers[i].scope # x
      <3>1. x # NULL /\ x \notin store.live
        BY <2>1, NullAssumption
      <3> QED BY <1>1, <3>1 DEF TimerValid
    <2>7. \A i \in DOMAIN timers' : TimerValid(store', timers'[i])
      BY <1>1, <2>4, <2>5
    <2>8. \A i, j \in DOMAIN timers' :
            timers'[i].scope = timers'[j].scope /\ timers'[i].scope # NULL => i = j
      BY <1>1, <2>2, <2>5, <2>6
    <2>9. TypeOK'
      BY <1>1, <1>3, <1>4, <2>1, <2>3, <2>5 DEF OpenTimer, TypeOK, HeapInv
    <2> QED BY <2>3, <2>7, <2>8, <2>9 DEF IInv
  <1>5. CASE OpenTimerUnprofiled
    <2> DEFINE new == [scope |-> NULL, tree |-> writeSlot]
    <2>1. new \in Timer /\ new.scope = NULL /\ timers' = Append(timers, new) /\ store' = store
      BY <1>1, <1>5 DEF OpenTimerUnprofiled, Timer, ScopeOrNull
    <2>2. /\ timers' \in Seq(Timer)
          /\ \A i \in DOMAIN timers' :
               \/ i \in DOMAIN timers /\ timers'[i] = timers[i]
               \/ i = Len(timers) + 1 /\ timers'[i] = new
      BY <1>1, <2>1, AppendFacts
    <2>3. \A i \in DOMAIN timers' : TimerValid(store', timers'[i])
      BY <1>1, <2>1, <2>2 DEF TimerValid
    <2>4. \A i, j \in DOMAIN timers' :
            timers'[i].scope = timers'[j].scope /\ timers'[i].scope # NULL => i = j
      BY <1>1, <2>1, <2>2
    <2>5. TypeOK'
      BY <1>1, <1>5, <2>2 DEF OpenTimerUnprofiled, TypeOK
    <2> QED BY <1>1, <2>1, <2>3, <2>4, <2>5 DEF IInv
  <1>6. CASE CloseTimer
    <2>1. PICK now \in Ticks : store' = Pop(store, Innermost, now) /\ clock' = now
      BY <1>6 DEF CloseTimer
    <2>2. /\ Len(timers) \in DOMAIN timers /\ Innermost = timers[Len(timers)]
          /\ timers' \in Seq(Timer)
          /\ \A i \in DOMAIN timers' :
               i \in DOMAIN timers /\ i # Len(timers) /\ timers'[i] = timers[i]
      BY <1>1, <1>6, WithoutInnermostFacts DEF CloseTimer, WithoutInnermost, Innermost
    <2>3. Innermost \in Timer /\ Innermost.scope # NULL /\ TimerValid(store, Innermost)
      BY <1>1, <1>6, <2>2 DEF CloseTimer
    <2>4. HeapInv(store')
      BY <1>1, <1>3, <2>1, <2>3, PopKeepsHeap
    <2>5. \A i \in DOMAIN timers' : TimerValid(store', timers'[i])
      <3>1. \A i \in DOMAIN timers' : timers[i].scope # Innermost.scope
        BY <1>1, <2>2, <2>3
      <3> QED BY <1>1, <1>3, <2>1, <2>2, <2>3, <3>1, PopKeepsTimers
    <2>6. TypeOK'
      BY <1>1, <1>3, <1>6, <2>1, <2>2, <2>4 DEF CloseTimer, TypeOK, HeapInv
    <2> QED BY <1>1, <2>2, <2>4, <2>5, <2>6 DEF IInv
  <1>7. CASE CloseTimerUnprofiled
    <2>1. /\ store' = store /\ timers' \in Seq(Timer)
          /\ \A i \in DOMAIN timers' : i \in DOMAIN timers /\ timers'[i] = timers[i]
      BY <1>1, <1>7, WithoutInnermostFacts DEF CloseTimerUnprofiled, WithoutInnermost
    <2>2. TypeOK'
      BY <1>1, <1>7, <2>1 DEF CloseTimerUnprofiled, TypeOK
    <2> QED BY <1>1, <2>1, <2>2 DEF IInv
  <1>8. CASE ToggleProfiling
    <2>1. store' = store /\ timers' = timers /\ TypeOK'
      BY <1>1, <1>8 DEF ToggleProfiling, TypeOK
    <2> QED BY <1>1, <2>1 DEF IInv
  <1>9. CASE MainThreadAdvance
    <2>1. PICK x \in Scopes \ store.live, opened \in Ticks, closed \in Ticks :
            /\ store' = Pop(Recycle(Push(store, writeSlot, x, opened), NextSlot),
                            [scope |-> x, tree |-> writeSlot], closed)
            /\ clock' = closed
      BY <1>9 DEF MainThreadAdvance
    <2> DEFINE own == [scope |-> x, tree |-> writeSlot]
               pushed == Push(store, writeSlot, x, opened)
               recycled == Recycle(pushed, NextSlot)
    <2>2. /\ own \in Timer /\ own.scope = x /\ own.tree = writeSlot /\ own.scope # NULL
          /\ NextSlot \in Slots /\ NextSlot # writeSlot
      BY <1>1, NextSlotFacts, NullAssumption DEF Timer, ScopeOrNull
    <2>3. /\ timers' = timers
          /\ \A i \in DOMAIN timers : timers[i].tree # NextSlot \/ timers[i].scope = NULL
      BY <1>9 DEF MainThreadAdvance, Quiet
    <2>4. \A i \in DOMAIN timers : timers[i].scope # own.scope
      BY <1>1, <1>2, <2>1, <2>2 DEF TimerValid
    <2>5. /\ HeapInv(pushed) /\ TimerValid(pushed, own)
          /\ \A i \in DOMAIN timers : TimerValid(pushed, timers[i])
      <3>1. HeapInv(pushed)
        BY <1>1, <1>3, PushKeepsHeap
      <3>2. /\ \A timer \in Timer : TimerValid(store, timer) => TimerValid(pushed, timer)
            /\ TimerValid(pushed, own)
        BY <1>1, <1>3, PushKeepsTimers
      <3> QED BY <1>1, <3>1, <3>2
    <2>6. /\ HeapInv(recycled) /\ TimerValid(recycled, own)
          /\ \A i \in DOMAIN timers : TimerValid(recycled, timers[i])
      <3>1. HeapInv(recycled)
        BY <2>2, <2>5, RecycleKeepsHeap
      <3>2. TimerValid(recycled, own)
        BY <2>2, <2>5, RecycleKeepsTimers
      <3>3. \A i \in DOMAIN timers : TimerValid(recycled, timers[i])
        BY <1>1, <2>2, <2>3, <2>5, RecycleKeepsTimers
      <3> QED BY <3>1, <3>2, <3>3
    <2>7. HeapInv(store')
      BY <1>3, <2>1, <2>2, <2>6, PopKeepsHeap
    <2>8. \A i \in DOMAIN timers : TimerValid(store', timers[i])
      BY <1>1, <1>3, <2>1, <2>2, <2>4, <2>6, PopKeepsTimers
    <2>9. TypeOK'
      BY <1>1, <1>3, <1>9, <2>1, <2>2, <2>7 DEF MainThreadAdvance, TypeOK, HeapInv
    <2> QED BY <1>1, <2>3, <2>7, <2>8, <2>9 DEF IInv
  <1>10. CASE WorkerThreadAdvance
    <2>1. PICK s \in Slots : Quiet(s) /\ store' = Recycle(store, s) /\ writeSlot' = s
      BY <1>10 DEF WorkerThreadAdvance
    <2>2. HeapInv(store')
      BY <1>1, <2>1, RecycleKeepsHeap
    <2>3. timers' = timers
      BY <1>10 DEF WorkerThreadAdvance
    <2>4. \A i \in DOMAIN timers : TimerValid(store', timers[i])
      BY <1>1, <2>1, RecycleKeepsTimers DEF Quiet
    <2>5. TypeOK'
      BY <1>1, <1>10, <2>1, <2>2 DEF WorkerThreadAdvance, TypeOK, HeapInv
    <2> QED BY <1>1, <2>2, <2>3, <2>4, <2>5 DEF IInv
  <1>11. CASE UNCHANGED vars
    BY <1>1, <1>11 DEF vars, IInv, TypeOK
  <1> QED BY <1>4, <1>5, <1>6, <1>7, <1>8, <1>9, <1>10, <1>11 DEF Next

\* IInv holds in every reachable state.
THEOREM Invariance == Spec => []IInv
  <1>1. Init => IInv
    BY InitIInv
  <1>2. IInv /\ [Next]_vars => IInv'
    BY StepIInv
  <1> QED BY <1>1, <1>2, PTL DEF Spec

(***************************************************************************)
(* The properties.                                                         *)
(***************************************************************************)

\* The variables always have their types, for every number of scopes and frames.
THEOREM TypeCorrect == Spec => []TypeOK
  <1>1. IInv => TypeOK
    BY DEF IInv
  <1> QED BY <1>1, Invariance, PTL

\* No scope is ever linked twice, freed while linked, or lost from its cell.
THEOREM OwnedOnce == Spec => []OneOwner
  <1>1. IInv => OneOwner
    <2> SUFFICES ASSUME IInv PROVE OneOwner
      OBVIOUS
    <2>1. LinksOwned(store)
      BY DEF IInv, HeapInv
    <2>2. \A c \in ScopeCells(Scopes \ store.live) : store.link[c] = NULL
      BY <2>1, ScopeCellsFacts DEF LinksOwned
    <2> QED BY <2>1, <2>2 DEF OneOwner, LinksOwned
  <1> QED BY <1>1, Invariance, PTL

\* The constructor never overwrites a link.
THEOREM CursorEmpty == Spec => []WriteCellEmpty
  <1>1. IInv => WriteCellEmpty
    BY DEF IInv, HeapInv, CursorsPlaced, WriteCellEmpty
  <1> QED BY <1>1, Invariance, PTL

\* Parent pointers and links describe the same tree.
THEOREM ParentsCorrect == Spec => []ParentLinksAgree
  <1>1. IInv => ParentLinksAgree
    <2> SUFFICES ASSUME IInv PROVE ParentLinksAgree
      OBVIOUS
    <2>1. /\ ParentsAgree(store) /\ store.live \subseteq Scopes
          /\ \A c \in Cells : store.link[c] = NULL \/ store.link[c] \in Scopes
      BY DEF IInv, HeapInv, LinksOwned, Store
    <2> QED BY <2>1, CellFacts DEF ParentsAgree, ParentLinksAgree
  <1> QED BY <1>1, Invariance, PTL

\* FreeScopes finds exactly the scopes of the tree it is given.
THEOREM NothingLeaks == Spec => []NoLeak
  <1>1. IInv => NoLeak
    BY ReachIsHome DEF IInv, NoLeak
  <1> QED BY <1>1, Invariance, PTL

\* A timer closes the scope it opened, whatever frames went by in between.
THEOREM TimersCorrect == Spec => []OpenTimersValid
  <1>1. IInv => OpenTimersValid
    BY DEF IInv, OpenTimersValid, TimerValid
  <1> QED BY <1>1, Invariance, PTL

(***************************************************************************)
(* The trees of the other frames.                                          *)
(***************************************************************************)

\* From store h to store g the tree of slot t keeps its scopes and its links, and
\* no scope of it that has ended is given another end.
Frozen(h, g, t) ==
    /\ {x \in g.live : g.home[x] = t} = {x \in h.live : h.home[x] = t}
    /\ g.link[RootCell(t)] = h.link[RootCell(t)]
    /\ \A x \in h.live : h.home[x] = t =>
        /\ g.link[ChildCell(x)] = h.link[ChildCell(x)]
        /\ g.link[SiblingCell(x)] = h.link[SiblingCell(x)]
        /\ h.end[x] # 0 => g.end[x] = h.end[x]

\* Linking a scope in slot s freezes the other slots: the cursor's cell is of s.
LEMMA PushFreezes ==
  ASSUME NEW h, HeapInv(h), NEW s \in Slots, NEW x \in Scopes \ h.live,
         NEW now \in 0 .. MaxCycle, NEW g, g = Push(h, s, x, now), NEW t \in Slots \ {s}
  PROVE  Frozen(h, g, t)
  <1>1. h.live \subseteq Scopes /\ CursorAt(h, s)
    BY DEF HeapInv, Store, CursorsPlaced
  <1>2. /\ \A c \in Cells \ {h.write[s]} : g.link[c] = h.link[c]
        /\ g.live = h.live \cup {x} /\ g.home[x] = s
        /\ \A y \in Scopes \ {x} : g.home[y] = h.home[y] /\ g.end[y] = h.end[y]
    BY PushFields
  <1>3. h.write[s] # RootCell(t)
    BY <1>1, CellFacts DEF CursorAt
  <1>4. ASSUME NEW y \in h.live, h.home[y] = t
        PROVE  h.write[s] # ChildCell(y) /\ h.write[s] # SiblingCell(y)
    BY <1>1, <1>4, CellFacts DEF CursorAt
  <1>5. g.link[RootCell(t)] = h.link[RootCell(t)]
    BY <1>2, <1>3, CellFacts
  <1>6. ASSUME NEW y \in h.live, h.home[y] = t
        PROVE  /\ g.link[ChildCell(y)] = h.link[ChildCell(y)]
               /\ g.link[SiblingCell(y)] = h.link[SiblingCell(y)]
               /\ g.end[y] = h.end[y]
    BY <1>1, <1>2, <1>4, <1>6, CellFacts
  <1>7. {y \in g.live : g.home[y] = t} = {y \in h.live : h.home[y] = t}
    BY <1>1, <1>2
  <1> QED BY <1>5, <1>6, <1>7 DEF Frozen

\* Recycling slot s freezes the other slots.
LEMMA RecycleFreezes ==
  ASSUME NEW h, HeapInv(h), NEW s \in Slots, NEW g, g = Recycle(h, s), NEW t \in Slots \ {s}
  PROVE  Frozen(h, g, t)
  <1>1. /\ g.live = {x \in h.live : h.home[x] # s}
        /\ g.link[RootCell(t)] = h.link[RootCell(t)]
        /\ \A x \in g.live : /\ g.link[ChildCell(x)] = h.link[ChildCell(x)]
                             /\ g.link[SiblingCell(x)] = h.link[SiblingCell(x)]
                             /\ g.home[x] = h.home[x] /\ g.end[x] = h.end[x]
    BY RecycleFields
  <1>2. {x \in g.live : g.home[x] = t} = {x \in h.live : h.home[x] = t}
    BY <1>1
  <1> QED BY <1>1, <1>2 DEF Frozen

\* Closing a scope that has not ended freezes every slot.
LEMMA PopFreezes ==
  ASSUME NEW h, HeapInv(h), NEW timer \in Timer, timer.scope # NULL, TimerValid(h, timer),
         NEW now \in 0 .. MaxCycle, NEW g, g = Pop(h, timer, now), NEW t \in Slots
  PROVE  Frozen(h, g, t)
  <1>1. timer.scope \in h.live /\ h.end[timer.scope] = 0 /\ h.live \subseteq Scopes
    BY DEF TimerValid, HeapInv, Store
  <1>2. /\ g.link = h.link /\ g.live = h.live /\ g.home = h.home
        /\ \A y \in Scopes \ {timer.scope} : g.end[y] = h.end[y]
    BY <1>1, PopFields
  <1> QED BY <1>1, <1>2 DEF Frozen

\* What two stores in a row leave alone, both together do.
LEMMA FrozenThrough ==
  ASSUME NEW h, NEW m, NEW g, NEW t, Frozen(h, m, t), Frozen(m, g, t)
  PROVE  Frozen(h, g, t)
  <1>1. ASSUME NEW x \in h.live, h.home[x] = t
        PROVE  x \in m.live /\ m.home[x] = t
    BY <1>1 DEF Frozen
  <1>2. ASSUME NEW x \in h.live, h.home[x] = t
        PROVE  /\ g.link[ChildCell(x)] = h.link[ChildCell(x)]
               /\ g.link[SiblingCell(x)] = h.link[SiblingCell(x)]
               /\ h.end[x] # 0 => g.end[x] = h.end[x]
    BY <1>1, <1>2 DEF Frozen
  <1> QED BY <1>2 DEF Frozen

\* Every step freezes the slots it neither leaves nor enters.
LEMMA StepFreezes ==
  ASSUME IInv, Next, NEW t \in Slots \ {writeSlot, writeSlot'}
  PROVE  Frozen(store, store', t)
  <1>1. /\ writeSlot \in Slots /\ HeapInv(store) /\ timers \in Seq(Timer)
        /\ \A i \in DOMAIN timers : timers[i] \in Timer /\ TimerValid(store, timers[i])
        /\ \A now \in Ticks : now \in 0 .. MaxCycle
    BY BoundsAssumption DEF IInv, TypeOK, Ticks
  <1>2. store' = store => Frozen(store, store', t)
    BY DEF Frozen
  <1>3. CASE OpenTimer
    BY <1>1, <1>3, PushFreezes DEF OpenTimer
  <1>4. CASE CloseTimer
    <2>1. PICK now \in Ticks : store' = Pop(store, Innermost, now)
      BY <1>4 DEF CloseTimer
    <2>2. Innermost \in Timer /\ Innermost.scope # NULL /\ TimerValid(store, Innermost)
      <3>1. Len(timers) \in DOMAIN timers
        BY <1>1, <1>4, WithoutInnermostFacts DEF CloseTimer
      <3> QED BY <1>1, <1>4, <3>1 DEF CloseTimer, Innermost
    <2> QED BY <1>1, <2>1, <2>2, PopFreezes
  <1>5. CASE MainThreadAdvance
    <2>1. PICK x \in Scopes \ store.live, opened \in Ticks, closed \in Ticks :
            store' = Pop(Recycle(Push(store, writeSlot, x, opened), NextSlot),
                         [scope |-> x, tree |-> writeSlot], closed)
      BY <1>5 DEF MainThreadAdvance
    <2> DEFINE own == [scope |-> x, tree |-> writeSlot]
               pushed == Push(store, writeSlot, x, opened)
               recycled == Recycle(pushed, NextSlot)
    <2>2. /\ own \in Timer /\ own.scope = x /\ own.tree = writeSlot /\ own.scope # NULL
          /\ NextSlot \in Slots /\ NextSlot # writeSlot
      BY <1>1, NextSlotFacts, NullAssumption DEF Timer, ScopeOrNull
    <2>3. t # writeSlot /\ t # NextSlot
      BY <1>5 DEF MainThreadAdvance
    <2>4. HeapInv(pushed) /\ TimerValid(pushed, own)
      BY <1>1, PushKeepsHeap, PushKeepsTimers
    <2>5. HeapInv(recycled) /\ TimerValid(recycled, own)
      BY <2>2, <2>4, RecycleKeepsHeap, RecycleKeepsTimers
    <2>6. Frozen(store, pushed, t)
      BY <1>1, <2>3, PushFreezes
    <2>7. Frozen(pushed, recycled, t)
      BY <2>2, <2>3, <2>4, RecycleFreezes
    <2>8. Frozen(recycled, store', t)
      BY <1>1, <2>1, <2>2, <2>5, PopFreezes
    <2>9. Frozen(store, recycled, t)
      BY <2>6, <2>7, FrozenThrough
    <2> QED BY <2>8, <2>9, FrozenThrough
  <1>6. CASE WorkerThreadAdvance
    BY <1>1, <1>6, RecycleFreezes DEF WorkerThreadAdvance
  <1>7. CASE OpenTimerUnprofiled \/ CloseTimerUnprofiled \/ ToggleProfiling
    BY <1>2, <1>7 DEF OpenTimerUnprofiled, CloseTimerUnprofiled, ToggleProfiling
  <1> QED BY <1>3, <1>4, <1>5, <1>6, <1>7 DEF Next

\* A reader may walk the trees of the frames no step is writing: their scopes and
\* links stay, and so do the ends of the scopes that have ended.
THEOREM OthersFrozen == Spec => HistoryFrozen
  <1> DEFINE Kept(s) ==
               /\ Reach(store', s) = Reach(store, s)
               /\ \A c \in ScopeCells(Reach(store, s)) \cup {RootCell(s)} : store'.link[c] = store.link[c]
               /\ \A x \in Reach(store, s) : store.end[x] # 0 => store'.end[x] = store.end[x]
  <1>1. ASSUME IInv, IInv', Next, NEW s \in Slots \ {writeSlot, writeSlot'}
        PROVE  Kept(s)
    <2>1. Frozen(store, store', s)
      BY <1>1, StepFreezes
    <2>2. HeapInv(store) /\ HeapInv(store')
      BY <1>1 DEF IInv
    <2>3. /\ Reach(store, s) = {x \in store.live : store.home[x] = s}
          /\ Reach(store', s) = {x \in store'.live : store'.home[x] = s}
      BY <2>2, ReachIsHome
    <2>4. \A c \in ScopeCells(Reach(store, s)) : store'.link[c] = store.link[c]
      BY <2>1, <2>3, ScopeCellsFacts DEF Frozen
    <2> QED BY <2>1, <2>3, <2>4 DEF Frozen
  <1>2. IInv /\ IInv' /\ [Next]_vars => [\A s \in Slots \ {writeSlot, writeSlot'} : Kept(s)]_vars
    BY <1>1
  <1>3. IInv /\ IInv' /\ [Next]_vars =>
          [\A s \in Slots \ {writeSlot, writeSlot'} :
             LET tree == Reach(store, s) IN
             /\ Reach(store', s) = tree
             /\ \A c \in ScopeCells(tree) \cup {RootCell(s)} : store'.link[c] = store.link[c]
             /\ \A x \in tree : store.end[x] # 0 => store'.end[x] = store.end[x]]_vars
    BY <1>2
  <1> QED BY <1>3, Invariance, PTL DEF Spec, HistoryFrozen


(***************************************************************************)
(* The intervals.                                                          *)
(***************************************************************************)

\* What the fields hold, and how the three operations treat them.
LEMMA SpanTypes ==
  ASSUME NEW h, HeapInv(h)
  PROVE  /\ h.live \subseteq Scopes /\ NULL \notin Scopes
         /\ \A x \in Scopes : h.start[x] \in Nat /\ h.end[x] \in Nat
         /\ \A c \in Cells : h.link[c] \in h.live \cup {NULL}
         /\ \A x \in h.live : h.home[x] \in Slots
  <1>1. h.start \in [Scopes -> 0 .. MaxCycle] /\ h.end \in [Scopes -> 0 .. MaxCycle] /\ h.live \subseteq Scopes
    BY DEF HeapInv, Store
  <1>2. \A n \in 0 .. MaxCycle : n \in Nat
    BY BoundsAssumption
  <1> QED BY <1>1, <1>2, NullAssumption DEF HeapInv, LinksOwned, LinksStayHome

LEMMA PushStart ==
  ASSUME NEW h, HeapInv(h), NEW s \in Slots, NEW x \in Scopes, NEW now, NEW g, g = Push(h, s, x, now)
  PROVE  g.start[x] = now /\ \A y \in Scopes \ {x} : g.start[y] = h.start[y]
  <1>1. h.start \in [Scopes -> 0 .. MaxCycle] /\ g.start = [h.start EXCEPT ![x] = now]
    BY DEF HeapInv, Store, Push
  <1> QED BY <1>1

LEMMA RecycleStart ==
  ASSUME NEW h, HeapInv(h), NEW s \in Slots, NEW g, g = Recycle(h, s)
  PROVE  \A x \in g.live : g.start[x] = h.start[x]
  <1>1. /\ g.live = h.live \ Reach(h, s) /\ h.live \subseteq Scopes
        /\ g.start = [x \in Scopes |-> IF x \in Reach(h, s) THEN 0 ELSE h.start[x]]
    BY DEF HeapInv, Store, Recycle
  <1> QED BY <1>1

LEMMA PopSpan ==
  ASSUME NEW h, HeapInv(h), NEW timer \in Timer, timer.scope \in h.live, NEW now, NEW g, g = Pop(h, timer, now)
  PROVE  g.start = h.start /\ g.end[timer.scope] = now
  <1>1. h \in Store /\ h.end \in [Scopes -> 0 .. MaxCycle] /\ timer.scope \in Scopes
    BY DEF HeapInv, Store
  <1>2. g.start = h.start /\ g.end = [h.end EXCEPT ![timer.scope] = now]
    BY <1>1 DEF Pop, Store
  <1> QED BY <1>1, <1>2

\* ParentOfNextScope is a live scope of its tree, if there is one.
LEMMA NextIsHome ==
  ASSUME NEW h, HeapInv(h), ParentsAtHome(h), NEW s \in Slots
  PROVE  h.next[s] # NULL => h.next[s] \in h.live /\ h.home[h.next[s]] = s
  <1>1. CursorAt(h, s)
    BY DEF HeapInv, CursorsPlaced
  <1> QED BY <1>1 DEF CursorAt, ParentsAtHome

\* A scope that is linked at the cursor starts after its parent and its elder, and
\* its parent has not ended.
LEMMA PushKeepsSpans ==
  ASSUME NEW h, HeapInv(h), NEW s \in Slots, NEW x \in Scopes \ h.live,
         NEW before \in Nat, NEW now \in 0 .. MaxCycle, before <= now,
         NEW g, g = Push(h, s, x, now),
         NEW stack \in Seq(Timer), \A i \in DOMAIN stack : TimerValid(h, stack[i]),
         SpanInv(h, stack, before)
  PROVE  SpanInv(g, Append(stack, [scope |-> x, tree |-> s]), now)
  <1> DEFINE w == h.write[s]
             new == [scope |-> x, tree |-> s]
             more == Append(stack, new)
  <1>1. /\ h.live \subseteq Scopes /\ NULL \notin Scopes /\ now \in Nat
        /\ \A y \in Scopes : h.start[y] \in Nat /\ h.end[y] \in Nat
        /\ \A c \in Cells : h.link[c] \in h.live \cup {NULL}
    BY SpanTypes, BoundsAssumption
  <1>2. /\ w \in Cells /\ h.link[w] = NULL
        /\ g.link[w] = x
        /\ \A c \in Cells \ {w} : g.link[c] = h.link[c]
        /\ g.parent[x] = h.next[s] /\ g.home[x] = s /\ g.end[x] = 0
        /\ \A y \in Scopes \ {x} :
             g.parent[y] = h.parent[y] /\ g.home[y] = h.home[y] /\ g.end[y] = h.end[y]
        /\ g.write[s] = ChildCell(x) /\ g.next[s] = x
        /\ \A t \in Slots \ {s} : g.write[t] = h.write[t] /\ g.next[t] = h.next[t]
        /\ g.live = h.live \cup {x}
    BY PushFields
  <1>3. g.start[x] = now /\ \A y \in Scopes \ {x} : g.start[y] = h.start[y]
    BY PushStart
  <1>4. /\ ParentsAtHome(h) /\ UpTo(h, before) /\ SpansNest(h) /\ CursorsTimely(h)
        /\ ParentsOutlast(h, stack)
    BY DEF SpanInv
  <1>5. \A t \in Slots : h.next[t] # NULL => h.next[t] \in h.live /\ h.home[h.next[t]] = t
    BY <1>4, NextIsHome
  <1>6. ParentsAtHome(g)
    BY <1>1, <1>2, <1>4, <1>5 DEF ParentsAtHome
  <1>7. UpTo(g, now)
    <2>1. ASSUME NEW y \in h.live
          PROVE  g.start[y] <= now /\ g.end[y] <= now
      <3>1. y \in Scopes /\ y # x /\ h.start[y] <= before /\ h.end[y] <= before
        BY <1>1, <1>4 DEF UpTo
      <3> QED BY <1>1, <1>2, <1>3, <3>1
    <2> QED BY <1>1, <1>2, <1>3, <2>1 DEF UpTo
  <1>8. SpansNest(g)
    <2>1. g.link[ChildCell(x)] = NULL /\ g.link[SiblingCell(x)] = NULL
      <3>1. h.link[ChildCell(x)] = NULL /\ h.link[SiblingCell(x)] = NULL
        BY DEF HeapInv, LinksOwned
      <3>2. w # ChildCell(x) /\ w # SiblingCell(x)
        BY PushFields
      <3> QED BY <1>2, <3>1, <3>2, CellFacts
    <2>2. ASSUME NEW p \in g.live, NEW y \in Scopes, g.link[ChildCell(p)] = y \/ g.link[SiblingCell(p)] = y
          PROVE  p \in h.live /\ p \in Scopes /\ p # x
      BY <1>1, <1>2, <2>1, <2>2
    <2>3. ASSUME NEW p \in g.live, NEW y \in Scopes, g.link[ChildCell(p)] = y
          PROVE  g.start[p] <= g.start[y] /\ (g.end[p] # 0 => g.end[y] <= g.end[p])
      <3>1. p \in h.live /\ p \in Scopes /\ p # x
        BY <2>2, <2>3
      <3>2. CASE ChildCell(p) = w
        <4>1. y = x /\ h.start[p] <= before
          BY <1>2, <1>4, <2>3, <3>1, <3>2 DEF UpTo
        <4> QED BY <1>1, <1>2, <1>3, <3>1, <4>1
      <3>3. CASE ChildCell(p) # w
        <4>1. h.link[ChildCell(p)] = y /\ y \in h.live /\ y # x
          BY <1>1, <1>2, <2>3, <3>1, <3>3, CellFacts
        <4> QED BY <1>2, <1>3, <1>4, <3>1, <4>1 DEF SpansNest
      <3> QED BY <3>2, <3>3
    <2>4. ASSUME NEW p \in g.live, NEW y \in Scopes, g.link[SiblingCell(p)] = y
          PROVE  g.end[p] # 0 /\ g.end[p] <= g.start[y]
      <3>1. p \in h.live /\ p \in Scopes /\ p # x
        BY <2>2, <2>4
      <3>2. CASE SiblingCell(p) = w
        <4>1. y = x /\ h.end[p] <= before /\ h.end[p] # 0
          BY <1>2, <1>4, <2>4, <3>1, <3>2 DEF UpTo, CursorsTimely
        <4> QED BY <1>1, <1>2, <1>3, <3>1, <4>1
      <3>3. CASE SiblingCell(p) # w
        <4>1. h.link[SiblingCell(p)] = y /\ y \in h.live /\ y # x
          BY <1>1, <1>2, <2>4, <3>1, <3>3, CellFacts
        <4> QED BY <1>2, <1>3, <1>4, <3>1, <4>1 DEF SpansNest
      <3> QED BY <3>2, <3>3
    <2> QED BY <2>3, <2>4 DEF SpansNest
  <1>9. CursorsTimely(g)
    <2>1. ASSUME NEW t \in Slots
          PROVE  g.next[t] # NULL => g.end[g.next[t]] = 0
      BY <1>1, <1>2, <1>4, <1>5 DEF CursorsTimely
    <2>2. ASSUME NEW t \in Slots, NEW p \in g.live, g.write[t] = SiblingCell(p)
          PROVE  g.end[p] # 0
      <3>1. t # s
        BY <1>2, <2>2, CellFacts
      <3>2. CursorAt(h, t) /\ h.write[t] = SiblingCell(p)
        BY <1>2, <2>2, <3>1 DEF HeapInv, CursorsPlaced
      <3>3. p \in h.live
        BY <3>2, CellFacts DEF CursorAt
      <3> QED BY <1>1, <1>2, <1>4, <3>2, <3>3 DEF CursorsTimely
    <2> QED BY <2>1, <2>2 DEF CursorsTimely
  <1>10. ParentsOutlast(g, more)
    <2>1. /\ Len(stack) \in Nat /\ \A i \in DOMAIN stack : i \in Nat /\ i <= Len(stack)
          /\ \A i \in DOMAIN more : \/ i \in DOMAIN stack /\ more[i] = stack[i]
                                    \/ i = Len(stack) + 1 /\ more[i] = new
      <3>1. new \in Timer
        BY DEF Timer, ScopeOrNull
      <3> QED BY <3>1, AppendFacts
    <2>2. \A i \in DOMAIN stack : stack[i].scope # NULL => stack[i].scope \in h.live /\ stack[i].scope # x
      BY DEF TimerValid
    <2>3. ASSUME NEW i \in DOMAIN stack, more[i] = stack[i], stack[i].scope # NULL,
                 NEW outer, outer = g.parent[stack[i].scope], outer # NULL
          PROVE  g.end[outer] = 0 /\ \A j \in DOMAIN more : more[j].scope = outer => j < i
      <3>1. stack[i].scope \in h.live /\ stack[i].scope \in Scopes /\ stack[i].scope # x
        BY <1>1, <2>2, <2>3
      <3>2. outer = h.parent[stack[i].scope] /\ outer \in h.live /\ outer \in Scopes /\ outer # x
        BY <1>1, <1>2, <1>4, <2>3, <3>1 DEF ParentsAtHome
      <3>3. h.end[outer] = 0 /\ \A j \in DOMAIN stack : stack[j].scope = outer => j < i
        BY <1>4, <2>3, <3>2 DEF ParentsOutlast
      <3> QED BY <1>2, <2>1, <3>2, <3>3
    <2>4. ASSUME NEW outer, outer = h.next[s], outer # NULL
          PROVE  /\ g.end[outer] = 0
                 /\ \A j \in DOMAIN more : more[j].scope = outer => j < Len(stack) + 1
      <3>1. outer \in h.live /\ outer # x /\ outer \in Scopes /\ h.end[outer] = 0
        BY <1>1, <1>4, <1>5, <2>4 DEF CursorsTimely
      <3> QED BY <1>2, <2>1, <3>1
    <2> QED BY <1>2, <2>1, <2>3, <2>4 DEF ParentsOutlast
  <1> QED BY <1>6, <1>7, <1>8, <1>9, <1>10 DEF SpanInv

\* Freeing a tree leaves the intervals of the others.
LEMMA RecycleKeepsSpans ==
  ASSUME NEW h, HeapInv(h), NEW s \in Slots, NEW g, g = Recycle(h, s), NEW now,
         NEW stack \in Seq(Timer),
         \A i \in DOMAIN stack : TimerValid(h, stack[i]) /\ (stack[i].tree # s \/ stack[i].scope = NULL),
         SpanInv(h, stack, now)
  PROVE  SpanInv(g, stack, now)
  <1>1. h.live \subseteq Scopes /\ NULL \notin Scopes /\ \A c \in Cells : h.link[c] \in h.live \cup {NULL}
    BY SpanTypes
  <1>2. /\ g.live = {x \in h.live : h.home[x] # s}
        /\ \A x \in g.live : /\ g.link[ChildCell(x)] = h.link[ChildCell(x)]
                             /\ g.link[SiblingCell(x)] = h.link[SiblingCell(x)]
                             /\ g.parent[x] = h.parent[x] /\ g.home[x] = h.home[x]
                             /\ g.end[x] = h.end[x] /\ g.start[x] = h.start[x]
        /\ g.write[s] = RootCell(s) /\ g.next[s] = NULL
        /\ \A t \in Slots \ {s} : g.write[t] = h.write[t] /\ g.next[t] = h.next[t]
    BY RecycleFields, RecycleStart
  <1>3. /\ ParentsAtHome(h) /\ UpTo(h, now) /\ SpansNest(h) /\ CursorsTimely(h)
        /\ ParentsOutlast(h, stack)
    BY DEF SpanInv
  <1>4. ParentsAtHome(g) /\ UpTo(g, now)
    BY <1>2, <1>3 DEF ParentsAtHome, UpTo
  <1>5. SpansNest(g)
    <2>1. ASSUME NEW p \in g.live, NEW y \in Scopes, g.link[ChildCell(p)] = y \/ g.link[SiblingCell(p)] = y
          PROVE  y \in g.live
      <3>1. p \in h.live /\ (h.link[ChildCell(p)] = y \/ h.link[SiblingCell(p)] = y) /\ y \in h.live
        BY <1>1, <1>2, <2>1, CellFacts
      <3>2. h.home[y] = h.home[p]
        BY <3>1 DEF HeapInv, LinksStayHome
      <3> QED BY <1>2, <3>1, <3>2
    <2> QED BY <1>2, <1>3, <2>1 DEF SpansNest
  <1>6. CursorsTimely(g)
    <2>1. ASSUME NEW t \in Slots, g.next[t] # NULL
          PROVE  g.end[g.next[t]] = 0
      <3>1. t # s /\ g.next[t] = h.next[t]
        BY <1>2, <2>1
      <3>2. h.next[t] \in g.live
        BY <1>2, <1>3, <2>1, <3>1, NextIsHome
      <3> QED BY <1>2, <1>3, <2>1, <3>1, <3>2 DEF CursorsTimely
    <2>2. ASSUME NEW t \in Slots, NEW p \in g.live, g.write[t] = SiblingCell(p)
          PROVE  g.end[p] # 0
      <3>1. t # s
        BY <1>2, <2>2, CellFacts
      <3> QED BY <1>2, <1>3, <2>2, <3>1 DEF CursorsTimely
    <2> QED BY <2>1, <2>2 DEF CursorsTimely
  <1>7. ParentsOutlast(g, stack)
    <2>1. ASSUME NEW i \in DOMAIN stack, stack[i].scope # NULL,
                 NEW outer, outer = g.parent[stack[i].scope], outer # NULL
          PROVE  g.end[outer] = 0 /\ \A j \in DOMAIN stack : stack[j].scope = outer => j < i
      <3>1. stack[i].scope \in h.live /\ h.home[stack[i].scope] # s
        BY <2>1 DEF TimerValid
      <3>2. outer = h.parent[stack[i].scope] /\ outer \in g.live
        BY <1>2, <1>3, <2>1, <3>1 DEF ParentsAtHome
      <3> QED BY <1>2, <1>3, <2>1, <3>2 DEF ParentsOutlast
    <2> QED BY <2>1 DEF ParentsOutlast
  <1> QED BY <1>4, <1>5, <1>6, <1>7 DEF SpanInv

\* The scope of the innermost timer ends after whatever happened in it, and no scope
\* whose timer is still open is below it.
LEMMA PopKeepsSpans ==
  ASSUME NEW h, HeapInv(h), NEW before \in Nat, NEW now \in 0 .. MaxCycle, before <= now, now # 0,
         NEW stack \in Seq(Timer), \A i \in DOMAIN stack : TimerValid(h, stack[i]),
         SpanInv(h, stack, before),
         NEW last \in DOMAIN stack, \A i \in DOMAIN stack : i <= last,
         stack[last].scope # NULL, NEW g, g = Pop(h, stack[last], now),
         NEW rest, \A i \in DOMAIN rest : i \in DOMAIN stack /\ i # last /\ rest[i] = stack[i]
  PROVE  SpanInv(g, rest, now)
  <1> DEFINE timer == stack[last]
             x == timer.scope
  <1>1. /\ h.live \subseteq Scopes /\ NULL \notin Scopes /\ now \in Nat
        /\ \A y \in Scopes : h.start[y] \in Nat /\ h.end[y] \in Nat
        /\ \A c \in Cells : h.link[c] \in h.live \cup {NULL}
    BY SpanTypes, BoundsAssumption
  <1>2. /\ timer \in Timer /\ x \in h.live /\ x \in Scopes /\ h.home[x] = timer.tree
        /\ h.end[x] = 0 /\ h.link[SiblingCell(x)] = NULL
        /\ timer.tree \in Slots
        /\ \A i \in DOMAIN stack : i \in Nat
    <2>1. timer \in Timer /\ \A i \in DOMAIN stack : i \in Nat
      OBVIOUS
    <2>2. TimerValid(h, timer) /\ timer.scope # NULL
      OBVIOUS
    <2> QED BY <1>1, <2>1, <2>2 DEF TimerValid, Timer
  <1>3. /\ g.link = h.link /\ g.parent = h.parent /\ g.live = h.live /\ g.home = h.home
        /\ g.write[timer.tree] = SiblingCell(x)
        /\ g.next[timer.tree] = h.parent[x]
        /\ \A t \in Slots \ {timer.tree} : g.write[t] = h.write[t] /\ g.next[t] = h.next[t]
        /\ \A y \in Scopes \ {x} : g.end[y] = h.end[y]
        /\ g.start = h.start /\ g.end[x] = now
    BY <1>2, PopFields, PopSpan
  <1>4. /\ ParentsAtHome(h) /\ UpTo(h, before) /\ SpansNest(h) /\ CursorsTimely(h)
        /\ ParentsOutlast(h, stack)
    BY DEF SpanInv
  <1>5. h.parent[x] # NULL => h.parent[x] # x /\ h.end[h.parent[x]] = 0 /\ h.parent[x] \in Scopes
    BY <1>1, <1>2, <1>4 DEF ParentsOutlast, ParentsAtHome
  <1>6. ParentsAtHome(g)
    BY <1>3, <1>4 DEF ParentsAtHome
  <1>7. UpTo(g, now)
    <2>1. ASSUME NEW y \in h.live
          PROVE  h.start[y] <= now /\ h.end[y] <= now
      <3>1. h.start[y] <= before /\ h.end[y] <= before /\ y \in Scopes
        BY <1>1, <1>4 DEF UpTo
      <3> QED BY <1>1, <3>1
    <2> QED BY <1>1, <1>3, <2>1 DEF UpTo
  <1>8. SpansNest(g)
    <2>1. ASSUME NEW p \in h.live, NEW y \in Scopes, h.link[ChildCell(p)] = y
          PROVE  h.start[p] <= h.start[y] /\ (g.end[p] # 0 => g.end[y] <= g.end[p])
      <3>1. h.start[p] <= h.start[y] /\ (h.end[p] # 0 => h.end[y] <= h.end[p]) /\ p \in Scopes
        BY <1>1, <1>4, <2>1 DEF SpansNest
      <3>2. CASE y = x
        <4>1. h.parent[x] = p
          BY <2>1, <3>2 DEF HeapInv, ParentsAgree
        <4>2. g.end[p] = 0
          BY <1>1, <1>3, <1>5, <3>1, <4>1
        <4> QED BY <3>1, <4>2
      <3>3. CASE y # x /\ p = x
        <4>1. y \in h.live /\ h.end[y] <= before
          BY <1>1, <1>4, <2>1, CellFacts DEF UpTo
        <4> QED BY <1>1, <1>3, <3>1, <3>3, <4>1
      <3>4. CASE y # x /\ p # x
        BY <1>3, <3>1, <3>4
      <3> QED BY <3>2, <3>3, <3>4
    <2>2. ASSUME NEW p \in h.live, NEW y \in Scopes, h.link[SiblingCell(p)] = y
          PROVE  g.end[p] # 0 /\ g.end[p] <= h.start[y]
      <3>1. p # x /\ p \in Scopes
        BY <1>1, <1>2, <2>2
      <3> QED BY <1>3, <1>4, <2>2, <3>1 DEF SpansNest
    <2> QED BY <1>3, <2>1, <2>2 DEF SpansNest
  <1>9. CursorsTimely(g)
    <2>1. ASSUME NEW t \in Slots, g.next[t] # NULL
          PROVE  g.end[g.next[t]] = 0
      <3>1. CASE t = timer.tree
        BY <1>3, <1>5, <2>1, <3>1
      <3>2. CASE t # timer.tree
        <4>1. g.next[t] = h.next[t] /\ h.next[t] \in h.live /\ h.home[h.next[t]] = t
          BY <1>3, <1>4, <2>1, <3>2, NextIsHome
        <4> QED BY <1>1, <1>2, <1>3, <1>4, <2>1, <3>2, <4>1 DEF CursorsTimely
      <3> QED BY <3>1, <3>2
    <2>2. ASSUME NEW t \in Slots, NEW p \in g.live, g.write[t] = SiblingCell(p)
          PROVE  g.end[p] # 0
      <3>1. CASE p = x
        BY <1>3, <3>1
      <3>2. CASE p # x
        <4>1. t # timer.tree
          BY <1>3, <2>2, <3>2, CellFacts
        <4> QED BY <1>1, <1>3, <1>4, <2>2, <3>2, <4>1 DEF CursorsTimely
      <3> QED BY <3>1, <3>2
    <2> QED BY <2>1, <2>2 DEF CursorsTimely
  <1>10. ParentsOutlast(g, rest)
    <2>1. ASSUME NEW i \in DOMAIN rest, rest[i].scope # NULL,
                 NEW outer, outer = h.parent[rest[i].scope], outer # NULL
          PROVE  g.end[outer] = 0 /\ \A j \in DOMAIN rest : rest[j].scope = outer => j < i
      <3>1. /\ i \in DOMAIN stack /\ rest[i] = stack[i] /\ i <= last /\ i # last
            /\ i \in Nat /\ last \in Nat
        BY <1>2
      <3>2. h.end[outer] = 0 /\ \A j \in DOMAIN stack : stack[j].scope = outer => j < i
        BY <1>4, <2>1, <3>1 DEF ParentsOutlast
      <3>3. outer # x
        BY <3>1, <3>2
      <3>4. outer \in Scopes
        <4>1. rest[i].scope \in h.live
          BY <2>1, <3>1 DEF TimerValid
        <4> QED BY <1>1, <1>4, <2>1, <4>1 DEF ParentsAtHome
      <3> QED BY <1>3, <3>2, <3>3, <3>4
    <2> QED BY <1>3, <2>1 DEF ParentsOutlast
  <1> QED BY <1>6, <1>7, <1>8, <1>9, <1>10 DEF SpanInv


\* What the code does before the first timer.
LEMMA InitSpans == Init => SpansInv
  <1> SUFFICES ASSUME Init PROVE SpansInv
    OBVIOUS
  <1>1. /\ store.live = {} /\ DOMAIN timers = {}
        /\ \A s \in Slots : store.next[s] = NULL
    BY DEF Init, EmptyStore
  <1> QED BY <1>1 DEF SpansInv, SpanInv, ParentsAtHome, UpTo, SpansNest, CursorsTimely, ParentsOutlast

\* Each step of the thread preserves the invariant of the intervals.
LEMMA StepSpans == IInv /\ SpansInv /\ [Next]_vars => SpansInv'
  <1> SUFFICES ASSUME IInv, SpansInv, [Next]_vars PROVE SpansInv'
    OBVIOUS
  <1>1. /\ writeSlot \in Slots /\ timers \in Seq(Timer) /\ clock \in Nat
        /\ HeapInv(store)
        /\ \A i \in DOMAIN timers : timers[i] \in Timer /\ TimerValid(store, timers[i])
        /\ SpanInv(store, timers, clock)
        /\ \A now \in Ticks : now \in 0 .. MaxCycle /\ now \in Nat /\ clock <= now /\ now # 0
    BY BoundsAssumption DEF IInv, TypeOK, Ticks, SpansInv
  <1>2. CASE OpenTimer
    <2>1. PICK x \in Scopes \ store.live, now \in Ticks :
            /\ store' = Push(store, writeSlot, x, now)
            /\ timers' = Append(timers, [scope |-> x, tree |-> writeSlot])
            /\ clock' = now
      BY <1>2 DEF OpenTimer
    <2> QED BY <1>1, <2>1, PushKeepsSpans DEF SpansInv
  <1>3. CASE CloseTimer
    <2>1. PICK now \in Ticks : store' = Pop(store, Innermost, now) /\ clock' = now
      BY <1>3 DEF CloseTimer
    <2>2. /\ Len(timers) \in DOMAIN timers /\ Innermost = timers[Len(timers)] /\ Innermost.scope # NULL
          /\ \A i \in DOMAIN timers : i <= Len(timers)
          /\ \A i \in DOMAIN timers' :
               i \in DOMAIN timers /\ i # Len(timers) /\ timers'[i] = timers[i]
      BY <1>1, <1>3, WithoutInnermostFacts DEF CloseTimer, WithoutInnermost, Innermost
    <2> QED BY <1>1, <2>1, <2>2, PopKeepsSpans DEF SpansInv
  <1>4. CASE MainThreadAdvance
    <2>1. PICK x \in Scopes \ store.live, opened \in Ticks, closed \in Ticks :
            /\ opened <= closed
            /\ store' = Pop(Recycle(Push(store, writeSlot, x, opened), NextSlot),
                            [scope |-> x, tree |-> writeSlot], closed)
            /\ clock' = closed
      BY <1>4 DEF MainThreadAdvance
    <2> DEFINE own == [scope |-> x, tree |-> writeSlot]
               more == Append(timers, own)
               pushed == Push(store, writeSlot, x, opened)
               recycled == Recycle(pushed, NextSlot)
    <2>2. /\ own \in Timer /\ own.scope = x /\ own.tree = writeSlot /\ own.scope # NULL
          /\ NextSlot \in Slots /\ NextSlot # writeSlot
      BY <1>1, NextSlotFacts, NullAssumption DEF Timer, ScopeOrNull
    <2>3. /\ more \in Seq(Timer)
          /\ Len(timers) + 1 \in DOMAIN more /\ more[Len(timers) + 1] = own
          /\ \A i \in DOMAIN more : i <= Len(timers) + 1
          /\ \A i \in DOMAIN timers : i \in DOMAIN more /\ i # Len(timers) + 1 /\ timers[i] = more[i]
          /\ \A i \in DOMAIN more : (i \in DOMAIN timers /\ more[i] = timers[i]) \/ more[i] = own
      BY <1>1, <2>2, AppendProperties
    <2>4. HeapInv(pushed) /\ \A i \in DOMAIN more : TimerValid(pushed, more[i])
      <3>1. /\ \A timer \in Timer : TimerValid(store, timer) => TimerValid(pushed, timer)
            /\ TimerValid(pushed, own)
        BY <1>1, PushKeepsTimers
      <3>2. HeapInv(pushed)
        BY <1>1, PushKeepsHeap
      <3> QED BY <1>1, <2>3, <3>1, <3>2
    <2>5. \A i \in DOMAIN more : more[i].tree # NextSlot \/ more[i].scope = NULL
      BY <1>4, <2>2, <2>3 DEF MainThreadAdvance, Quiet
    <2>6. HeapInv(recycled) /\ \A i \in DOMAIN more : TimerValid(recycled, more[i])
      <3>1. ASSUME NEW i \in DOMAIN more
            PROVE  TimerValid(recycled, more[i])
        <4>1. more[i] \in Timer /\ TimerValid(pushed, more[i])
          BY <2>3, <2>4
        <4> QED BY <2>2, <2>4, <2>5, <4>1, RecycleKeepsTimers
      <3>2. HeapInv(recycled)
        BY <2>2, <2>4, RecycleKeepsHeap
      <3> QED BY <3>1, <3>2
    <2>7. SpanInv(pushed, more, opened)
      BY <1>1, PushKeepsSpans
    <2>8. SpanInv(recycled, more, opened)
      <3>1. \A i \in DOMAIN more :
              TimerValid(pushed, more[i]) /\ (more[i].tree # NextSlot \/ more[i].scope = NULL)
        BY <2>4, <2>5
      <3>2. recycled = Recycle(pushed, NextSlot)
        OBVIOUS
      <3> HIDE DEF more, pushed, recycled
      <3> QED BY <2>2, <2>3, <2>4, <2>7, <3>1, <3>2, RecycleKeepsSpans
    <2>9. SpanInv(store', timers, closed)
      <3>1. store' = Pop(recycled, more[Len(timers) + 1], closed) /\ more[Len(timers) + 1].scope # NULL
        BY <2>1, <2>2, <2>3
      <3>2. opened \in Nat /\ closed \in 0 .. MaxCycle /\ opened <= closed /\ closed # 0
        BY <1>1, <2>1
      <3> HIDE DEF more, recycled
      <3> QED BY <2>3, <2>6, <2>8, <3>1, <3>2, PopKeepsSpans
    <2>10. timers' = timers
      BY <1>4 DEF MainThreadAdvance
    <2> QED BY <2>1, <2>9, <2>10 DEF SpansInv
  <1>5. CASE WorkerThreadAdvance
    <2>1. PICK s \in Slots : Quiet(s) /\ store' = Recycle(store, s)
      BY <1>5 DEF WorkerThreadAdvance
    <2>2. timers' = timers /\ clock' = clock
      BY <1>5 DEF WorkerThreadAdvance
    <2> QED BY <1>1, <2>1, <2>2, RecycleKeepsSpans DEF SpansInv, Quiet
  <1>6. CASE OpenTimerUnprofiled
    <2> DEFINE new == [scope |-> NULL, tree |-> writeSlot]
    <2>1. new \in Timer /\ new.scope = NULL /\ timers' = Append(timers, new) /\ store' = store /\ clock' = clock
      BY <1>1, <1>6 DEF OpenTimerUnprofiled, Timer, ScopeOrNull
    <2>2. \A i \in DOMAIN timers' :
            \/ i \in DOMAIN timers /\ timers'[i] = timers[i]
            \/ timers'[i] = new
      BY <1>1, <2>1, AppendFacts
    <2>3. ParentsOutlast(store, timers')
      <3>1. ParentsOutlast(store, timers)
        BY <1>1 DEF SpanInv
      <3>2. \A i \in DOMAIN timers' : timers'[i].scope # NULL => i \in DOMAIN timers /\ timers'[i] = timers[i]
        BY <2>1, <2>2
      <3> HIDE DEF new
      <3> QED BY <3>1, <3>2, NullAssumption DEF ParentsOutlast
    <2> QED BY <1>1, <2>1, <2>3 DEF SpansInv, SpanInv
  <1>7. CASE CloseTimerUnprofiled
    <2>1. /\ store' = store /\ clock' = clock
          /\ \A i \in DOMAIN timers' : i \in DOMAIN timers /\ timers'[i] = timers[i]
      BY <1>1, <1>7, WithoutInnermostFacts DEF CloseTimerUnprofiled, WithoutInnermost
    <2>2. ParentsOutlast(store, timers')
      BY <1>1, <2>1 DEF SpanInv, ParentsOutlast
    <2> QED BY <1>1, <2>1, <2>2 DEF SpansInv, SpanInv
  <1>8. CASE ToggleProfiling \/ UNCHANGED vars
    BY <1>8 DEF ToggleProfiling, vars, SpansInv
  <1> QED BY <1>2, <1>3, <1>4, <1>5, <1>6, <1>7, <1>8 DEF Next

\* The intervals of the callgraph nest, whatever timers were abandoned and whatever
\* frames went by.
THEOREM IntervalsAlwaysNest == Spec => []IntervalsNest
  <1>1. Init => SpansInv
    BY InitSpans
  <1>2. IInv /\ SpansInv /\ [Next]_vars => SpansInv'
    BY StepSpans
  <1>3. IInv /\ SpansInv => IntervalsNest
    <2> SUFFICES ASSUME IInv, SpansInv PROVE IntervalsNest
      OBVIOUS
    <2>1. HeapInv(store) /\ SpansNest(store)
      BY DEF IInv, SpansInv, SpanInv
    <2>2. /\ store.live \subseteq Scopes
          /\ \A c \in Cells : store.link[c] \in store.live \cup {NULL}
      BY <2>1, SpanTypes
    <2>3. ASSUME NEW p \in store.live
          PROVE  /\ store.link[ChildCell(p)] # NULL => store.link[ChildCell(p)] \in Scopes
                 /\ store.link[SiblingCell(p)] # NULL => store.link[SiblingCell(p)] \in Scopes
      BY <2>2, CellFacts
    <2> QED BY <2>1, <2>3 DEF SpansNest, IntervalsNest
  <1> QED BY <1>1, <1>2, <1>3, Invariance, PTL DEF Spec

(***************************************************************************)
(* The call log.                                                           *)
(*                                                                         *)
(* What a reader finds is computed by recursion (Descent, Ascent), so the  *)
(* proof goes through sequences instead: IsLogOf says, without recursion,  *)
(* that a tree and its cursor are those of a log w and a nesting nest, each*)
(* operation preserves that for the log it should make, and LogIsFound     *)
(* shows that w and nest are then what the recursion returns.              *)
(***************************************************************************)

Item == [scope : Scopes, depth : Nat]
Walks == [ScopeOrNull -> [Nat -> Seq(Item)]]

\* One round of Descent, and of Ascent.
Deeper(h, g) ==
    [x \in ScopeOrNull |-> [depth \in Nat |->
        IF x = NULL THEN <<>>
        ELSE <<[scope |-> x, depth |-> depth]>>
               \o g[h.link[ChildCell(x)]][depth + 1]
               \o g[h.link[SiblingCell(x)]][depth]]]

\* A scope is read, then its children, then its siblings, one level at a time.
LEMMA DescentSteps ==
  ASSUME NEW h \in Store, NEW N \in Nat, N = Cardinality(h.live)
  PROVE  /\ \A x \in ScopeOrNull, d \in Nat : Descent(h)[0][x][d] = <<>>
         /\ \A n \in 1 .. N : \A x \in ScopeOrNull, d \in Nat :
              Descent(h)[n][x][d] =
                IF x = NULL THEN <<>>
                ELSE <<[scope |-> x, depth |-> d]>>
                       \o Descent(h)[n - 1][h.link[ChildCell(x)]][d + 1]
                       \o Descent(h)[n - 1][h.link[SiblingCell(x)]][d]
  <1> DEFINE none == [x \in ScopeOrNull |-> [depth \in Nat |-> <<>>]]
             step == [p \in Walks \X Nat |-> Deeper(h, p[1])]
             Round(f, n) == [x \in ScopeOrNull |-> [depth \in Nat |->
                              IF n = 0 \/ x = NULL THEN <<>>
                              ELSE <<[scope |-> x, depth |-> depth]>>
                                     \o f[n - 1][h.link[ChildCell(x)]][depth + 1]
                                     \o f[n - 1][h.link[SiblingCell(x)]][depth]]]
             IsWalk(f) == f = [n \in 0 .. N |-> Round(f, n)]
  <1>1. \A n \in 1 .. N : n \in Nat /\ n # 0 /\ n - 1 \in 0 .. N /\ n \in 0 .. N
    OBVIOUS
  <1>2. none \in Walks
    BY DEF Walks
  <1>3. \A g \in Walks : Deeper(h, g) \in Walks
    <2> SUFFICES ASSUME NEW g \in Walks, NEW x \in Scopes, NEW d \in Nat
                 PROVE  <<[scope |-> x, depth |-> d]>> \o g[h.link[ChildCell(x)]][d + 1]
                          \o g[h.link[SiblingCell(x)]][d] \in Seq(Item)
      <3>1. <<>> \in Seq(Item)
        OBVIOUS
      <3> QED BY <3>1 DEF Deeper, Walks, ScopeOrNull
    <2>1. h.link[ChildCell(x)] \in ScopeOrNull /\ h.link[SiblingCell(x)] \in ScopeOrNull
      BY CellFacts DEF Store
    <2>2. g[h.link[ChildCell(x)]] \in [Nat -> Seq(Item)] /\ g[h.link[SiblingCell(x)]] \in [Nat -> Seq(Item)]
      BY <2>1 DEF Walks
    <2>3. g[h.link[ChildCell(x)]][d + 1] \in Seq(Item) /\ g[h.link[SiblingCell(x)]][d] \in Seq(Item)
      <3>1. \A k \in [Nat -> Seq(Item)] : k[d + 1] \in Seq(Item) /\ k[d] \in Seq(Item)
        OBVIOUS
      <3> QED BY <2>2, <3>1
    <2>4. <<[scope |-> x, depth |-> d]>> \in Seq(Item)
      BY DEF Item
    <2> QED BY <2>3, <2>4, ConcatProperties
  <1>4. IsStep(Walks, step)
    BY <1>3 DEF IsStep
  <1>5. PICK f : Reaches(Walks, none, step, N, f)
    <2> HIDE DEF none, step
    <2> QED BY <1>2, <1>4, Iterated
  <1>6. f \in [0 .. N -> Walks] /\ f[0] = none /\ \A n \in 1 .. N : f[n] = step[<<f[n - 1], n>>]
    <2> HIDE DEF none, step
    <2> QED BY <1>5 DEF Reaches
  <1>7. \A n \in 1 .. N : f[n] = Deeper(h, f[n - 1])
    BY <1>1, <1>6
  <1>8. IsWalk(f)
    <2>1. ASSUME NEW n \in 0 .. N
          PROVE  f[n] = Round(f, n)
      <3>1. n = 0 \/ (n \in 1 .. N /\ n # 0)
        BY <1>1
      <3>2. CASE n = 0
        BY <1>6, <3>2
      <3>3. CASE n \in 1 .. N /\ n # 0
        BY <1>7, <3>3 DEF Deeper
      <3> QED BY <3>1, <3>2, <3>3
    <2> HIDE DEF Round
    <2> QED BY <2>1, <1>6
  <1> DEFINE w == Descent(h)
  <1>9. IsWalk(w)
    <2>1. w = CHOOSE g : IsWalk(g)
      BY Zenon DEF Descent
    <2> HIDE DEF IsWalk, w
    <2> QED BY <1>8, <2>1
  <1>10. \A n \in 0 .. N : w[n] = Round(w, n)
    <2> HIDE DEF w, Round
    <2> QED BY <1>9
  <1> HIDE DEF w
  <1>11. \A x \in ScopeOrNull, d \in Nat : w[0][x][d] = <<>>
    <2>1. w[0] = Round(w, 0)
      <3> HIDE DEF Round
      <3> QED BY <1>10
    <2> QED BY <2>1
  <1>12. ASSUME NEW n \in 1 .. N, NEW x \in ScopeOrNull, NEW d \in Nat
         PROVE  w[n][x][d] = IF x = NULL THEN <<>>
                             ELSE <<[scope |-> x, depth |-> d]>>
                                    \o w[n - 1][h.link[ChildCell(x)]][d + 1]
                                    \o w[n - 1][h.link[SiblingCell(x)]][d]
    <2>1. w[n] = Round(w, n) /\ n # 0
      BY <1>1, <1>10
    <2>2. Round(w, n)[x] = [depth \in Nat |->
                              IF n = 0 \/ x = NULL THEN <<>>
                              ELSE <<[scope |-> x, depth |-> depth]>>
                                     \o w[n - 1][h.link[ChildCell(x)]][depth + 1]
                                     \o w[n - 1][h.link[SiblingCell(x)]][depth]]
      BY Zenon
    <2> QED BY <2>1, <2>2
  <1> QED BY <1>11, <1>12 DEF w

Chains == [ScopeOrNull -> Seq(Scopes)]

\* The scopes a scope is nested in come before it, its parent last.
LEMMA AscentSteps ==
  ASSUME NEW h \in Store, NEW N \in Nat, N = Cardinality(h.live)
  PROVE  /\ \A x \in ScopeOrNull : Ascent(h)[0][x] = <<>>
         /\ \A n \in 1 .. N : \A x \in ScopeOrNull :
              Ascent(h)[n][x] = IF x = NULL THEN <<>> ELSE Append(Ascent(h)[n - 1][h.parent[x]], x)
  <1> DEFINE none == [x \in ScopeOrNull |-> <<>>]
             Longer(g) == [x \in ScopeOrNull |-> IF x = NULL THEN <<>> ELSE Append(g[h.parent[x]], x)]
             step == [p \in Chains \X Nat |-> Longer(p[1])]
             Round(f, n) == [x \in ScopeOrNull |->
                              IF n = 0 \/ x = NULL THEN <<>> ELSE Append(f[n - 1][h.parent[x]], x)]
             IsChain(f) == f = [n \in 0 .. N |-> Round(f, n)]
  <1>1. \A n \in 1 .. N : n \in Nat /\ n # 0 /\ n - 1 \in 0 .. N /\ n \in 0 .. N
    OBVIOUS
  <1>2. none \in Chains
    BY DEF Chains
  <1>3. \A g \in Chains : Longer(g) \in Chains
    <2> SUFFICES ASSUME NEW g \in Chains, NEW x \in Scopes
                 PROVE  Append(g[h.parent[x]], x) \in Seq(Scopes)
      BY DEF Chains, ScopeOrNull
    <2>1. h.parent[x] \in ScopeOrNull
      BY DEF Store
    <2> QED BY <2>1, AppendProperties DEF Chains
  <1>4. IsStep(Chains, step)
    <2> HIDE DEF Longer
    <2> QED BY <1>3 DEF IsStep
  <1>5. PICK f : Reaches(Chains, none, step, N, f)
    <2> HIDE DEF none, step
    <2> QED BY <1>2, <1>4, Iterated
  <1>6. f \in [0 .. N -> Chains] /\ f[0] = none /\ \A n \in 1 .. N : f[n] = step[<<f[n - 1], n>>]
    <2> HIDE DEF none, step
    <2> QED BY <1>5 DEF Reaches
  <1>7. \A n \in 1 .. N : f[n] = Longer(f[n - 1])
    <2> HIDE DEF Longer
    <2> QED BY <1>1, <1>6
  <1>8. IsChain(f)
    <2>1. ASSUME NEW n \in 0 .. N
          PROVE  f[n] = Round(f, n)
      <3>1. n = 0 \/ (n \in 1 .. N /\ n # 0)
        BY <1>1
      <3>2. CASE n = 0
        BY <1>6, <3>2
      <3>3. CASE n \in 1 .. N /\ n # 0
        BY <1>7, <3>3
      <3> QED BY <3>1, <3>2, <3>3
    <2> HIDE DEF Round
    <2> QED BY <2>1, <1>6
  <1> DEFINE w == Ascent(h)
  <1>9. IsChain(w)
    <2>1. w = CHOOSE g : IsChain(g)
      BY Zenon DEF Ascent
    <2> HIDE DEF IsChain, w
    <2> QED BY <1>8, <2>1
  <1>10. \A n \in 0 .. N : w[n] = Round(w, n)
    <2> HIDE DEF w, Round
    <2> QED BY <1>9
  <1> HIDE DEF w
  <1>11. \A x \in ScopeOrNull : w[0][x] = <<>>
    <2>1. w[0] = Round(w, 0)
      <3> HIDE DEF Round
      <3> QED BY <1>10
    <2> QED BY <2>1
  <1>12. ASSUME NEW n \in 1 .. N, NEW x \in ScopeOrNull
         PROVE  w[n][x] = IF x = NULL THEN <<>> ELSE Append(w[n - 1][h.parent[x]], x)
    <2>1. w[n] = Round(w, n) /\ n # 0
      BY <1>1, <1>10
    <2> QED BY <2>1
  <1> QED BY <1>11, <1>12 DEF w

(***************************************************************************)
(* A sequence of calls with their depths, in the order they were made,     *)
(* determines a tree: the call after a shallower one is its first child,   *)
(* and what comes after the calls nested in a call is its sibling, if it   *)
(* is as deep.                                                             *)
(***************************************************************************)

InCallOrder(w) ==
    /\ w \in Seq(Item)
    /\ w # <<>> => w[1].depth = 0
    /\ \A i \in 1 .. Len(w) - 1 : w[i + 1].depth <= w[i].depth + 1

\* The calls nested in call i end before place j.
After(w, i, j) ==
    /\ i < j /\ j <= Len(w) + 1
    /\ \A k \in i + 1 .. j - 1 : w[k].depth > w[i].depth
    /\ j <= Len(w) => w[j].depth <= w[i].depth

\* The tree of slot s is the one that w determines.
IsTreeOf(h, s, w) ==
    /\ h.link[RootCell(s)] = IF w = <<>> THEN NULL ELSE w[1].scope
    /\ \A i \in 1 .. Len(w) :
        h.link[ChildCell(w[i].scope)] =
            IF i < Len(w) /\ w[i + 1].depth > w[i].depth THEN w[i + 1].scope ELSE NULL
    /\ \A i \in 1 .. Len(w), j \in 1 .. Len(w) + 1 :
        After(w, i, j) => h.link[SiblingCell(w[i].scope)] =
                            IF j <= Len(w) /\ w[j].depth = w[i].depth THEN w[j].scope ELSE NULL

\* What an entry of a log holds.
LEMMA ItemFacts ==
  ASSUME NEW w \in Seq(Item), NEW i \in 1 .. Len(w)
  PROVE  /\ Len(w) \in Nat /\ i \in Nat
         /\ w[i] \in Item /\ w[i].scope \in Scopes /\ w[i].depth \in Nat
         /\ w[i] = [scope |-> w[i].scope, depth |-> w[i].depth]
  <1>1. w[i] \in Item /\ Len(w) \in Nat
    BY ElementOfSeq
  <1> QED BY <1>1 DEF Item

\* The calls nested in a call end somewhere.
LEMMA AfterExists ==
  ASSUME NEW w \in Seq(Item), NEW i \in 1 .. Len(w)
  PROVE  \E j \in i + 1 .. Len(w) + 1 : After(w, i, j)
  <1> DEFINE S == {j \in i + 1 .. Len(w) + 1 : j <= Len(w) => w[j].depth <= w[i].depth}
  <1>1. Len(w) \in Nat /\ i \in Nat /\ w[i].depth \in Nat
    BY ItemFacts
  <1>2. Len(w) + 1 \in S /\ S \subseteq Nat
    BY <1>1
  <1>3. PICK j \in S : \A k \in S : j <= k
    <2> HIDE DEF S
    <2> QED BY <1>2, LeastNumber
  <1>4. ASSUME NEW k \in i + 1 .. j - 1
        PROVE  w[k].depth > w[i].depth
    <2>1. k \in i + 1 .. Len(w) + 1 /\ k <= Len(w) /\ ~(j <= k) /\ k \in 1 .. Len(w)
      BY <1>1, <1>3
    <2>2. k \notin S
      <3> HIDE DEF S
      <3> QED BY <2>1, <1>3
    <2>3. ~(w[k].depth <= w[i].depth)
      BY <2>1, <2>2
    <2>4. w[k].depth \in Nat
      BY <2>1, ItemFacts
    <2> QED BY <2>3, <2>4, <1>1
  <1> QED BY <1>1, <1>3, <1>4 DEF After

\* A run of calls is its first call and two runs after it.
LEMMA ThreeParts ==
  ASSUME NEW w \in Seq(Item), NEW i \in 1 .. Len(w), NEW k \in i + 1 .. Len(w) + 1,
         NEW j \in k .. Len(w) + 1
  PROVE  <<w[i]>> \o SubSeq(w, i + 1, k - 1) \o SubSeq(w, k, j - 1) = SubSeq(w, i, j - 1)
  <1> DEFINE a == SubSeq(w, i + 1, k - 1)
             b == SubSeq(w, k, j - 1)
             whole == SubSeq(w, i, j - 1)
             parts == <<w[i]>> \o a \o b
  <1>1. Len(w) \in Nat /\ i \in Nat /\ k \in Nat /\ j \in Nat /\ w[i] \in Item
    BY ItemFacts
  <1>2. /\ a \in Seq(Item) /\ Len(a) = k - 1 - i
        /\ \A m \in 1 .. k - 1 - i : a[m] = w[i + m]
    <2>1. i + 1 \in 1 .. Len(w) + 1 /\ k - 1 \in i + 1 - 1 .. Len(w)
      BY <1>1
    <2>2. /\ a \in Seq(Item) /\ Len(a) = k - 1 - (i + 1) + 1
          /\ \A m \in 1 .. k - 1 - (i + 1) + 1 : a[m] = w[i + 1 + m - 1]
      BY <2>1, SubSeqProperties
    <2>3. k - 1 - (i + 1) + 1 = k - 1 - i /\ \A m \in Int : i + 1 + m - 1 = i + m
      BY <1>1
    <2> HIDE DEF a
    <2> QED BY <2>2, <2>3
  <1>3. /\ b \in Seq(Item) /\ Len(b) = j - k
        /\ \A m \in 1 .. j - k : b[m] = w[k + m - 1]
    <2>1. k \in 1 .. Len(w) + 1 /\ j - 1 \in k - 1 .. Len(w)
      BY <1>1
    <2>2. /\ b \in Seq(Item) /\ Len(b) = j - 1 - k + 1
          /\ \A m \in 1 .. j - 1 - k + 1 : b[m] = w[k + m - 1]
      BY <2>1, SubSeqProperties
    <2>3. j - 1 - k + 1 = j - k
      BY <1>1
    <2> HIDE DEF b
    <2> QED BY <2>2, <2>3
  <1>4. /\ whole \in Seq(Item) /\ Len(whole) = j - i
        /\ \A m \in 1 .. j - i : whole[m] = w[i + m - 1]
    <2>1. i \in 1 .. Len(w) + 1 /\ j - 1 \in i - 1 .. Len(w)
      BY <1>1
    <2>2. /\ whole \in Seq(Item) /\ Len(whole) = j - 1 - i + 1
          /\ \A m \in 1 .. j - 1 - i + 1 : whole[m] = w[i + m - 1]
      BY <2>1, SubSeqProperties
    <2>3. j - 1 - i + 1 = j - i
      BY <1>1
    <2> HIDE DEF whole
    <2> QED BY <2>2, <2>3
  <1> HIDE DEF a, b, whole
  <1>5. /\ parts \in Seq(Item) /\ Len(parts) = j - i
        /\ \A m \in 1 .. j - i : parts[m] = IF m = 1 THEN w[i]
                                               ELSE IF m <= k - i THEN a[m - 1] ELSE b[m - (k - i)]
    <2>1. <<w[i]>> \o a \in Seq(Item) /\ Len(<<w[i]>> \o a) = k - i
      BY <1>1, <1>2
    <2>2. \A m \in 1 .. k - i : (<<w[i]>> \o a)[m] = IF m = 1 THEN w[i] ELSE a[m - 1]
      BY <1>1, <1>2
    <2> DEFINE c == <<w[i]>> \o a
    <2>3. c \in Seq(Item) /\ Len(c) = k - i
      BY <2>1
    <2>4. \A m \in 1 .. k - i : c[m] = IF m = 1 THEN w[i] ELSE a[m - 1]
      BY <2>2
    <2> HIDE DEF c
    <2>5. c \o b \in Seq(Item) /\ Len(c \o b) = j - i
      <3>1. c \o b \in Seq(Item) /\ Len(c \o b) = Len(c) + Len(b)
        BY <1>3, <2>3, ConcatProperties
      <3> QED BY <3>1, <1>1, <1>3, <2>3
    <2>6. ASSUME NEW m \in 1 .. j - i
          PROVE  (c \o b)[m] = IF m = 1 THEN w[i] ELSE IF m <= k - i THEN a[m - 1] ELSE b[m - (k - i)]
      <3>1. m \in 1 .. Len(c) + Len(b) /\ m \in Nat
        BY <1>1, <1>3, <2>3
      <3>2. (c \o b)[m] = IF m <= Len(c) THEN c[m] ELSE b[m - Len(c)]
        BY <3>1, <1>3, <2>3, ConcatProperties
      <3>3. m = 1 => m <= k - i
        BY <1>1
      <3>4. m <= k - i => m \in 1 .. k - i
        BY <1>1
      <3> QED BY <2>3, <2>4, <3>2, <3>3, <3>4
    <2> QED BY <2>5, <2>6 DEF c
  <1>6. \A m \in 1 .. j - i : parts[m] = whole[m]
    <2> SUFFICES ASSUME NEW m \in 1 .. j - i PROVE parts[m] = whole[m]
      OBVIOUS
    <2>1. whole[m] = w[i + m - 1]
      BY <1>4
    <2>2. CASE m = 1
      <3>1. i + m - 1 = i
        BY <2>2, <1>1
      <3> QED BY <2>1, <2>2, <3>1, <1>5
    <2>3. CASE m # 1 /\ m <= k - i
      <3>1. m - 1 \in 1 .. k - 1 - i /\ i + (m - 1) = i + m - 1
        BY <2>3, <1>1
      <3>2. a[m - 1] = w[i + m - 1]
        BY <3>1, <1>2
      <3> QED BY <2>1, <2>3, <3>2, <1>5
    <2>4. CASE m # 1 /\ ~(m <= k - i)
      <3>1. m - (k - i) \in 1 .. j - k /\ k + (m - (k - i)) - 1 = i + m - 1
        BY <2>4, <1>1
      <3>2. b[m - (k - i)] = w[i + m - 1]
        BY <3>1, <1>3
      <3> QED BY <2>1, <2>4, <3>2, <1>5
    <2> QED BY <2>2, <2>3, <2>4
  <1> HIDE DEF parts
  <1>7. parts = whole
    BY <1>4, <1>5, <1>6, SeqEqual
  <1> QED BY <1>7 DEF parts, whole, a, b

\* The calls from i up to j are those nested at depth d or deeper.
Segment(w, i, j, d) ==
    /\ i <= j /\ j <= Len(w) + 1
    /\ i < j => w[i].depth = d
    /\ \A k \in i .. j - 1 : w[k].depth >= d
    /\ j <= Len(w) => w[j].depth < d

\* n rounds of the descent find every run of at most n calls.
FindsRuns(h, w, n) ==
    \A i \in 1 .. Len(w) + 1, j \in 1 .. Len(w) + 1, d \in Nat :
        Segment(w, i, j, d) /\ j - i <= n =>
            Descent(h)[n][IF i < j THEN w[i].scope ELSE NULL][d] = SubSeq(w, i, j - 1)

\* What the reader finds is the log.
LEMMA DescentFinds ==
  ASSUME NEW h \in Store, NEW N \in Nat, N = Cardinality(h.live),
         NEW s \in Slots, NEW w, InCallOrder(w), IsTreeOf(h, s, w)
  PROVE  \A n \in 0 .. N : FindsRuns(h, w, n)
  <1> DEFINE At(i, j) == IF i < j THEN w[i].scope ELSE NULL
             Found(n) == \A i \in 1 .. Len(w) + 1, j \in 1 .. Len(w) + 1, d \in Nat :
                           Segment(w, i, j, d) /\ j - i <= n => Descent(h)[n][At(i, j)][d] = SubSeq(w, i, j - 1)
             Bad == {n \in 0 .. N : ~Found(n)}
  <1> SUFFICES ASSUME Bad # {} PROVE FALSE
    BY DEF Bad, FindsRuns
  <1>1. PICK n \in Bad : \A m \in Bad : n <= m
    <2>1. Bad \subseteq Nat
      OBVIOUS
    <2> HIDE DEF Bad
    <2> QED BY <2>1, LeastNumber
  <1>2. n \in 0 .. N /\ ~Found(n)
    OBVIOUS
  <1>3. n \in 1 .. N => Found(n - 1)
    <2> SUFFICES ASSUME n \in 1 .. N, ~Found(n - 1) PROVE FALSE
      OBVIOUS
    <2>1. n - 1 \in 0 .. N /\ ~(n <= n - 1)
      <3> HIDE DEF Found, Bad
      <3> QED OBVIOUS
    <2>2. n - 1 \in Bad
      <3> HIDE DEF Found
      <3> QED BY <2>1
    <2> HIDE DEF Bad, Found
    <2> QED BY <1>1, <2>1, <2>2
  <1> HIDE DEF Bad
  <1>4. w \in Seq(Item) /\ Len(w) \in Nat
    BY DEF InCallOrder
  <1>6. /\ \A x \in ScopeOrNull, d \in Nat : Descent(h)[0][x][d] = <<>>
        /\ \A m \in 1 .. N : \A x \in ScopeOrNull, d \in Nat :
             Descent(h)[m][x][d] =
               IF x = NULL THEN <<>>
               ELSE <<[scope |-> x, depth |-> d]>>
                      \o Descent(h)[m - 1][h.link[ChildCell(x)]][d + 1]
                      \o Descent(h)[m - 1][h.link[SiblingCell(x)]][d]
    BY DescentSteps
  <1>5. ASSUME NEW i \in 1 .. Len(w) + 1, NEW j \in 1 .. Len(w) + 1, NEW d \in Nat,
               Segment(w, i, j, d), j - i <= n
        PROVE  Descent(h)[n][At(i, j)][d] = SubSeq(w, i, j - 1)
    <2> HIDE DEF Found
    <2>1. i \in Nat /\ j \in Nat /\ i <= j /\ n \in Nat /\ NULL \in ScopeOrNull
      BY <1>4, <1>2, <1>5 DEF Segment, ScopeOrNull
    <2>2. CASE i = j
      <3>1. At(i, j) = NULL /\ SubSeq(w, i, j - 1) = <<>>
        BY <2>1, <2>2, <1>4, SubSeqEmpty
      <3>2. Descent(h)[n][NULL][d] = <<>>
        <4>1. CASE n = 0
          BY <4>1, <2>1, <1>6
        <4>2. CASE n \in 1 .. N
          BY <4>2, <2>1, <1>6
        <4> QED BY <1>2, <4>1, <4>2
      <3> QED BY <3>1, <3>2
    <2>3. CASE i < j
      <3> DEFINE x == w[i].scope
      <3>1. i \in 1 .. Len(w) /\ n \in 1 .. N
        BY <2>1, <2>3, <1>2, <1>4, <1>5
      <3>2. x \in Scopes /\ x # NULL /\ x \in ScopeOrNull /\ w[i].depth = d /\ w[i] = [scope |-> x, depth |-> d]
        <4>1. w[i].depth = d
          BY <1>5, <2>3 DEF Segment
        <4> QED BY <4>1, <3>1, <1>4, ItemFacts, NullAssumption DEF ScopeOrNull
      <3>3. PICK k \in i + 1 .. Len(w) + 1 : After(w, i, k)
        BY <3>1, <1>4, AfterExists
      <3>4. k \in Nat /\ k \in 1 .. Len(w) + 1 /\ i < k /\ k <= Len(w) + 1
        BY <3>3, <2>1, <1>4
      <3>5. k <= j
        <4> SUFFICES ASSUME j < k PROVE FALSE
          BY <3>4, <2>1
        <4>1. j \in i + 1 .. k - 1 /\ j <= Len(w) /\ j \in 1 .. Len(w)
          BY <3>4, <2>1, <2>3, <1>4
        <4>2. w[j].depth > d /\ w[j].depth < d
          BY <4>1, <3>2, <3>3, <1>5 DEF After, Segment
        <4>3. w[j].depth \in Nat
          BY <4>1, <1>4, ItemFacts
        <4> QED BY <4>2, <4>3
      <3>6. Segment(w, i + 1, k, d + 1)
        <4>1. ASSUME NEW m \in i + 1 .. k - 1
              PROVE  w[m].depth >= d + 1
          <5>1. w[m].depth > d /\ m \in 1 .. Len(w)
            BY <3>2, <3>3, <3>4, <2>1, <1>4 DEF After
          <5>2. w[m].depth \in Nat
            BY <5>1, <1>4, ItemFacts
          <5> QED BY <5>1, <5>2
        <4>2. i + 1 < k => w[i + 1].depth = d + 1
          <5> SUFFICES ASSUME i + 1 < k PROVE w[i + 1].depth = d + 1
            OBVIOUS
          <5>1. i + 1 \in i + 1 .. k - 1 /\ i \in 1 .. Len(w) - 1 /\ i + 1 \in 1 .. Len(w)
            BY <3>4, <2>1, <1>4
          <5>2. w[i + 1].depth >= d + 1 /\ w[i + 1].depth <= d + 1
            BY <5>1, <4>1, <3>2 DEF InCallOrder
          <5>3. w[i + 1].depth \in Nat
            BY <5>1, <1>4, ItemFacts
          <5> QED BY <5>2, <5>3
        <4>3. k <= Len(w) => w[k].depth < d + 1
          <5> SUFFICES ASSUME k <= Len(w) PROVE w[k].depth < d + 1
            OBVIOUS
          <5>1. w[k].depth <= d
            BY <3>2, <3>3 DEF After
          <5>2. k \in 1 .. Len(w)
            BY <3>4, <1>4
          <5>3. w[k].depth \in Nat
            BY <5>2, <1>4, ItemFacts
          <5> QED BY <5>1, <5>3
        <4> QED BY <4>1, <4>2, <4>3, <3>4, <2>1 DEF Segment
      <3>7. h.link[ChildCell(x)] = At(i + 1, k)
        <4>1. h.link[ChildCell(x)] = IF i < Len(w) /\ w[i + 1].depth > w[i].depth THEN w[i + 1].scope ELSE NULL
          BY <3>1 DEF IsTreeOf
        <4>2. CASE i + 1 < k
          <5>1. i < Len(w) /\ w[i + 1].depth = d + 1
            BY <4>2, <3>4, <2>1, <1>4, <3>6 DEF Segment
          <5> QED BY <4>1, <4>2, <5>1, <3>2
        <4>3. CASE ~(i + 1 < k)
          <5>1. k = i + 1
            BY <4>3, <3>4, <2>1
          <5>2. ~(i < Len(w) /\ w[i + 1].depth > w[i].depth)
            <6> SUFFICES ASSUME i < Len(w), w[i + 1].depth > w[i].depth PROVE FALSE
              OBVIOUS
            <6>1. k <= Len(w) /\ k \in 1 .. Len(w) /\ w[k].depth > d
              BY <5>1, <3>2, <3>4, <2>1, <1>4
            <6>2. w[k].depth <= d /\ w[k].depth \in Nat
              BY <6>1, <3>2, <3>3, <1>4, ItemFacts DEF After
            <6> QED BY <6>1, <6>2
          <5> QED BY <4>1, <4>3, <5>2
        <4> QED BY <4>2, <4>3
      <3>8. Segment(w, k, j, d) /\ h.link[SiblingCell(x)] = At(k, j)
        <4>1. h.link[SiblingCell(x)] = IF k <= Len(w) /\ w[k].depth = w[i].depth THEN w[k].scope ELSE NULL
          BY <3>1, <3>3, <3>4 DEF IsTreeOf
        <4>2. \A m \in k .. j - 1 : w[m].depth >= d
          <5>1. \A m \in k .. j - 1 : m \in i .. j - 1
            BY <3>4, <2>1
          <5> QED BY <5>1, <1>5 DEF Segment
        <4>3. k < j => k <= Len(w) /\ w[k].depth = d
          <5> SUFFICES ASSUME k < j PROVE k <= Len(w) /\ w[k].depth = d
            OBVIOUS
          <5>1. k <= Len(w) /\ k \in k .. j - 1 /\ k \in 1 .. Len(w)
            BY <3>4, <2>1, <1>4
          <5>2. w[k].depth <= d /\ w[k].depth >= d /\ w[k].depth \in Nat
            BY <5>1, <4>2, <3>2, <3>3, <1>4, ItemFacts DEF After
          <5> QED BY <5>1, <5>2
        <4>4. Segment(w, k, j, d)
          BY <4>2, <4>3, <3>4, <3>5, <1>5, <2>1 DEF Segment
        <4>5. CASE k < j
          BY <4>1, <4>3, <4>4, <4>5, <3>2
        <4>6. CASE ~(k < j)
          <5>1. k = j
            BY <4>6, <3>4, <3>5, <2>1
          <5>2. ~(k <= Len(w) /\ w[k].depth = d)
            <6> SUFFICES ASSUME j <= Len(w), w[j].depth = d PROVE FALSE
              BY <5>1
            <6>1. w[j].depth < d
              BY <1>5 DEF Segment
            <6> QED BY <6>1
          <5> QED BY <4>1, <4>4, <4>6, <5>2, <3>2
        <4> QED BY <4>5, <4>6
      <3>9. Descent(h)[n][x][d] = <<[scope |-> x, depth |-> d]>>
                                    \o Descent(h)[n - 1][At(i + 1, k)][d + 1]
                                    \o Descent(h)[n - 1][At(k, j)][d]
        <4>1. Descent(h)[n][x][d] = <<[scope |-> x, depth |-> d]>>
                                      \o Descent(h)[n - 1][h.link[ChildCell(x)]][d + 1]
                                      \o Descent(h)[n - 1][h.link[SiblingCell(x)]][d]
          <5> HIDE DEF x
          <5> QED BY <3>1, <3>2, <1>6
        <4> HIDE DEF x, At
        <4> QED BY <4>1, <3>7, <3>8
      <3>10. Descent(h)[n - 1][At(i + 1, k)][d + 1] = SubSeq(w, i + 1, k - 1)
        <4>1. i + 1 \in 1 .. Len(w) + 1 /\ k - (i + 1) <= n - 1 /\ d + 1 \in Nat
          BY <3>1, <3>4, <3>5, <2>1, <1>4, <1>5
        <4> QED BY <4>1, <3>1, <3>4, <3>6, <1>3 DEF Found
      <3>11. Descent(h)[n - 1][At(k, j)][d] = SubSeq(w, k, j - 1)
        <4>1. j - k <= n - 1
          BY <3>4, <3>5, <2>1, <1>5
        <4> QED BY <4>1, <3>1, <3>4, <3>8, <1>3 DEF Found
      <3>12. <<w[i]>> \o SubSeq(w, i + 1, k - 1) \o SubSeq(w, k, j - 1) = SubSeq(w, i, j - 1)
        BY <3>1, <3>4, <3>5, <1>4, <2>1, ThreeParts
      <3>13. At(i, j) = x
        BY <2>3
      <3> QED BY <3>2, <3>9, <3>10, <3>11, <3>12, <3>13
    <2> QED BY <2>1, <2>2, <2>3
  <1> QED BY <1>2, <1>5

(***************************************************************************)
(* The Parent chain, the cursor, and what makes a tree that of a log.      *)
(***************************************************************************)

\* The Parents of the next call in slot s are nest, outermost first.
IsNestOf(h, s, nest) ==
    /\ nest \in Seq(Scopes)
    /\ \A k \in 1 .. Len(nest) : h.parent[nest[k]] = IF k = 1 THEN NULL ELSE nest[k - 1]
    /\ h.next[s] = IF nest = <<>> THEN NULL ELSE nest[Len(nest)]

\* A sequence of distinct members of a finite set is no longer than the set.
LEMMA NoMoreThan ==
  ASSUME NEW S, IsFiniteSet(S), NEW n \in Nat, NEW f \in [1 .. n -> S],
         \A i, j \in 1 .. n : f[i] = f[j] => i = j
  PROVE  n <= Cardinality(S)
  <1>1. f \in Injection(1 .. n, S)
    BY DEF Injection, IsInjective
  <1>2. Cardinality(1 .. n) <= Cardinality(S)
    BY <1>1, FS_Injection
  <1>3. Cardinality(1 .. n) = n
    BY FS_Interval
  <1> QED BY <1>2, <1>3

\* A longer prefix is the shorter one and one more element.
LEMMA OneMore ==
  ASSUME NEW S, NEW q \in Seq(S), NEW k \in 1 .. Len(q)
  PROVE  Append(SubSeq(q, 1, k - 1), q[k]) = SubSeq(q, 1, k)
  <1>1. Len(q) \in Nat /\ k \in Nat /\ q[k] \in S /\ k - 1 \in Int
    BY ElementOfSeq
  <1> DEFINE a == SubSeq(q, 1, k - 1)
             b == SubSeq(q, 1, k)
  <1>2. a \in Seq(S) /\ Len(a) = k - 1 /\ \A i \in 1 .. k - 1 : a[i] = q[i]
    BY <1>1
  <1>3. b \in Seq(S) /\ Len(b) = k /\ \A i \in 1 .. k : b[i] = q[i]
    BY <1>1
  <1> HIDE DEF a, b
  <1>4. /\ Append(a, q[k]) \in Seq(S) /\ Len(Append(a, q[k])) = k
        /\ \A i \in 1 .. k : Append(a, q[k])[i] = q[i]
    BY <1>1, <1>2, AppendProperties
  <1>5. Append(a, q[k]) = b
    BY <1>3, <1>4, SeqEqual
  <1> QED BY <1>5 DEF a, b

\* What the cursor's Parent chain finds is the nesting of the next call.
LEMMA AscentFinds ==
  ASSUME NEW h \in Store, NEW N \in Nat, N = Cardinality(h.live),
         NEW s \in Slots, NEW nest, IsNestOf(h, s, nest)
  PROVE  \A n \in 0 .. N : \A k \in 0 .. Len(nest) :
            k <= n => Ascent(h)[n][IF k = 0 THEN NULL ELSE nest[k]] = SubSeq(nest, 1, k)
  <1> DEFINE At(k) == IF k = 0 THEN NULL ELSE nest[k]
             Found(n) == \A k \in 0 .. Len(nest) : k <= n => Ascent(h)[n][At(k)] = SubSeq(nest, 1, k)
             Bad == {n \in 0 .. N : ~Found(n)}
  <1> SUFFICES ASSUME Bad # {} PROVE FALSE
    BY DEF Bad
  <1>1. PICK n \in Bad : \A m \in Bad : n <= m
    <2>1. Bad \subseteq Nat
      OBVIOUS
    <2> HIDE DEF Bad
    <2> QED BY <2>1, LeastNumber
  <1>2. n \in 0 .. N /\ ~Found(n)
    OBVIOUS
  <1>3. n \in 1 .. N => Found(n - 1)
    <2> SUFFICES ASSUME n \in 1 .. N, ~Found(n - 1) PROVE FALSE
      OBVIOUS
    <2>1. n - 1 \in 0 .. N /\ ~(n <= n - 1)
      <3> HIDE DEF Found, Bad
      <3> QED OBVIOUS
    <2>2. n - 1 \in Bad
      <3> HIDE DEF Found
      <3> QED BY <2>1
    <2> HIDE DEF Bad, Found
    <2> QED BY <1>1, <2>1, <2>2
  <1> HIDE DEF Bad
  <1>4. nest \in Seq(Scopes) /\ Len(nest) \in Nat
    BY DEF IsNestOf
  <1>5. /\ \A x \in ScopeOrNull : Ascent(h)[0][x] = <<>>
        /\ \A m \in 1 .. N : \A x \in ScopeOrNull :
             Ascent(h)[m][x] = IF x = NULL THEN <<>> ELSE Append(Ascent(h)[m - 1][h.parent[x]], x)
    BY AscentSteps
  <1>6. ASSUME NEW k \in 0 .. Len(nest), k <= n
        PROVE  Ascent(h)[n][At(k)] = SubSeq(nest, 1, k)
    <2> HIDE DEF Found
    <2>1. CASE k = 0
      <3>1. At(k) = NULL /\ SubSeq(nest, 1, k) = <<>>
        BY <2>1, <1>4, SubSeqEmpty
      <3>2. Ascent(h)[n][NULL] = <<>>
        <4>1. (n = 0 \/ n \in 1 .. N) /\ NULL \in ScopeOrNull
          BY <1>2 DEF ScopeOrNull
        <4> QED BY <4>1, <1>5
      <3> QED BY <3>1, <3>2
    <2>2. CASE k # 0
      <3>1. k \in 1 .. Len(nest) /\ n \in 1 .. N /\ k - 1 \in 0 .. Len(nest) /\ k - 1 <= n - 1
        BY <2>2, <1>2, <1>4, <1>6
      <3>2. nest[k] \in Scopes /\ nest[k] # NULL /\ nest[k] \in ScopeOrNull
        BY <3>1, <1>4, ElementOfSeq, NullAssumption DEF ScopeOrNull
      <3>3. h.parent[nest[k]] = At(k - 1)
        <4>1. k - 1 = 0 <=> k = 1
          BY <3>1
        <4> QED BY <3>1, <4>1 DEF IsNestOf
      <3>4. Ascent(h)[n - 1][At(k - 1)] = SubSeq(nest, 1, k - 1)
        BY <3>1, <1>3 DEF Found
      <3>5. Ascent(h)[n][nest[k]] = Append(SubSeq(nest, 1, k - 1), nest[k])
        <4>1. Ascent(h)[n][nest[k]] = Append(Ascent(h)[n - 1][h.parent[nest[k]]], nest[k])
          BY <3>1, <3>2, <1>5
        <4> HIDE DEF At
        <4> QED BY <4>1, <3>3, <3>4
      <3>6. Append(SubSeq(nest, 1, k - 1), nest[k]) = SubSeq(nest, 1, k)
        BY <3>1, <1>4, <3>2, OneMore
      <3>7. At(k) = nest[k]
        BY <2>2
      <3> QED BY <3>5, <3>6, <3>7
    <2> QED BY <2>1, <2>2
  <1> QED BY <1>2, <1>6

\* Where the cursor stands decides how deep the next call is.
CursorFor(h, s, w, d) ==
    \/ w = <<>> /\ d = 0 /\ h.write[s] = RootCell(s)
    \/ w # <<>> /\ d = w[Len(w)].depth + 1 /\ h.write[s] = ChildCell(w[Len(w)].scope)
    \/ \E i \in 1 .. Len(w) :
        /\ w[i].depth = d
        /\ \A j \in i + 1 .. Len(w) : w[j].depth > d
        /\ h.write[s] = SiblingCell(w[i].scope)

\* Call k of the nesting is still the last one of its depth, and no call after it
\* is outside of it.
Encloses(w, x, k) ==
    \E i \in 1 .. Len(w) :
        /\ w[i].scope = x /\ w[i].depth = k - 1
        /\ \A j \in i + 1 .. Len(w) : w[j].depth >= k

OncePerCall(w) == \A i, j \in 1 .. Len(w) : w[i].scope = w[j].scope => i = j
IsLogged(x, w) == \E i \in 1 .. Len(w) : w[i].scope = x

\* The tree of slot s and its cursor are those of log w, in which the next call is
\* nested in nest.
IsLogOf(h, s, w, nest) ==
    /\ InCallOrder(w) /\ OncePerCall(w)
    /\ \A x \in Scopes : x \in h.live /\ h.home[x] = s <=> IsLogged(x, w)
    /\ IsTreeOf(h, s, w)
    /\ IsNestOf(h, s, nest)
    /\ \A k \in 1 .. Len(nest) : Encloses(w, nest[k], k)
    /\ CursorFor(h, s, w, Len(nest))

\* There is one log and one nesting, which the reader finds.
LEMMA LogIsFound ==
  ASSUME NEW h \in Store, IsFiniteSet(h.live), NEW s \in Slots, NEW w, NEW nest, IsLogOf(h, s, w, nest)
  PROVE  Walk(h, s) = w /\ Chain(h, s) = nest
  <1> DEFINE N == Cardinality(h.live)
  <1>1. N \in Nat
    BY FS_CardinalityType
  <1> HIDE DEF N
  <1>2. /\ w \in Seq(Item) /\ Len(w) \in Nat /\ InCallOrder(w) /\ IsTreeOf(h, s, w)
        /\ nest \in Seq(Scopes) /\ Len(nest) \in Nat /\ IsNestOf(h, s, nest)
    BY DEF IsLogOf, InCallOrder, IsNestOf
  <1>3. Len(w) <= N
    <2> DEFINE f == [i \in 1 .. Len(w) |-> w[i].scope]
    <2>1. \A i \in 1 .. Len(w) : w[i].scope \in h.live
      <3> SUFFICES ASSUME NEW i \in 1 .. Len(w) PROVE w[i].scope \in h.live
        OBVIOUS
      <3>1. w[i].scope \in Scopes
        BY <1>2, ItemFacts
      <3> QED BY <3>1 DEF IsLogOf, IsLogged
    <2>2. f \in [1 .. Len(w) -> h.live] /\ \A i, j \in 1 .. Len(w) : f[i] = f[j] => i = j
      BY <2>1 DEF IsLogOf, OncePerCall
    <2> HIDE DEF f
    <2> QED BY <1>2, <2>2, NoMoreThan DEF N
  <1>4. Len(nest) <= N
    <2>1. \A k \in 1 .. Len(nest) : nest[k] \in h.live
      <3> SUFFICES ASSUME NEW k \in 1 .. Len(nest) PROVE nest[k] \in h.live
        OBVIOUS
      <3>1. nest[k] \in Scopes /\ IsLogged(nest[k], w)
        BY <1>2, ElementOfSeq DEF IsLogOf, Encloses, IsLogged
      <3> QED BY <3>1 DEF IsLogOf
    <2>2. ASSUME NEW k \in 1 .. Len(nest), NEW m \in 1 .. Len(nest), nest[k] = nest[m]
          PROVE  k = m
      <3>1. PICK i \in 1 .. Len(w) : w[i].scope = nest[k] /\ w[i].depth = k - 1
        BY DEF IsLogOf, Encloses
      <3>2. PICK j \in 1 .. Len(w) : w[j].scope = nest[m] /\ w[j].depth = m - 1
        BY DEF IsLogOf, Encloses
      <3>3. i = j
        BY <2>2, <3>1, <3>2 DEF IsLogOf, OncePerCall
      <3> QED BY <1>2, <3>1, <3>2, <3>3
    <2>3. nest \in [1 .. Len(nest) -> h.live]
      BY <1>2, <2>1
    <2> QED BY <1>2, <2>2, <2>3, NoMoreThan DEF N
  <1>5. Walk(h, s) = w
    <2> DEFINE e == Len(w) + 1
    <2>1. 1 \in 1 .. Len(w) + 1 /\ e \in 1 .. Len(w) + 1 /\ e - 1 = Len(w) /\ 0 \in Nat
      BY <1>2
    <2>2. Segment(w, 1, e, 0)
      <3>1. \A k \in 1 .. Len(w) : w[k].depth >= 0
        <4> SUFFICES ASSUME NEW k \in 1 .. Len(w) PROVE w[k].depth >= 0
          OBVIOUS
        <4>1. w[k].depth \in Nat
          BY <1>2, ItemFacts
        <4> QED BY <4>1
      <3>2. 1 < e => w # <<>>
        BY <1>2
      <3>3. w # <<>> => w[1].depth = 0
        BY <1>2 DEF InCallOrder
      <3> QED BY <1>2, <2>1, <3>1, <3>2, <3>3 DEF Segment
    <2>3. Descent(h)[N][IF 1 < e THEN w[1].scope ELSE NULL][0] = SubSeq(w, 1, e - 1)
      <3>1. N \in 0 .. N /\ e - 1 <= N
        BY <1>1, <1>3, <2>1
      <3>2. N = Cardinality(h.live)
        BY DEF N
      <3> HIDE DEF e
      <3>3. FindsRuns(h, w, N)
        BY <1>1, <1>2, <3>1, <3>2, DescentFinds
      <3>4. Segment(w, 1, e, 0) => Descent(h)[N][IF 1 < e THEN w[1].scope ELSE NULL][0] = SubSeq(w, 1, e - 1)
        BY <2>1, <3>1, <3>3 DEF FindsRuns
      <3> QED BY <2>2, <3>4
    <2>4. h.link[RootCell(s)] = IF 1 < e THEN w[1].scope ELSE NULL
      <3>1. 1 < e <=> w # <<>>
        BY <1>2
      <3> QED BY <1>2, <3>1 DEF IsTreeOf
    <2>5. SubSeq(w, 1, e - 1) = w
      BY <1>2, <2>1, SubSeqFull
    <2> HIDE DEF e
    <2> QED BY <2>3, <2>4, <2>5 DEF Walk, N
  <1>6. Chain(h, s) = nest
    <2> DEFINE e == Len(nest)
    <2>1. e \in 0 .. Len(nest) /\ N \in 0 .. N /\ e <= N
      BY <1>1, <1>2, <1>4
    <2>2. Ascent(h)[N][IF e = 0 THEN NULL ELSE nest[e]] = SubSeq(nest, 1, e)
      <3> HIDE DEF e
      <3> QED BY <1>1, <1>2, <2>1, AscentFinds DEF N
    <2>3. h.next[s] = IF e = 0 THEN NULL ELSE nest[e]
      BY <1>2 DEF IsNestOf
    <2>4. SubSeq(nest, 1, e) = nest
      BY <1>2, SubSeqFull
    <2> HIDE DEF e
    <2> QED BY <2>2, <2>3, <2>4 DEF Chain, N
  <1> QED BY <1>5, <1>6

(***************************************************************************)
(* A push.                                                                 *)
(***************************************************************************)

\* A step that leaves the tree of slot t and its cursor alone leaves its log alone.
LEMMA LogStays ==
  ASSUME NEW h, NEW g, NEW t \in Slots, Frozen(h, g, t), h.live \subseteq Scopes, g.live \subseteq Scopes,
         \A x \in h.live : h.home[x] = t => g.parent[x] = h.parent[x],
         g.write[t] = h.write[t], g.next[t] = h.next[t],
         NEW w, NEW nest, IsLogOf(h, t, w, nest)
  PROVE  IsLogOf(g, t, w, nest)
  <1>1. /\ w \in Seq(Item) /\ InCallOrder(w) /\ OncePerCall(w) /\ IsTreeOf(h, t, w) /\ IsNestOf(h, t, nest)
        /\ CursorFor(h, t, w, Len(nest)) /\ \A k \in 1 .. Len(nest) : Encloses(w, nest[k], k)
        /\ \A x \in Scopes : x \in h.live /\ h.home[x] = t <=> IsLogged(x, w)
    BY DEF IsLogOf, InCallOrder
  <1>2. \A x \in Scopes : x \in g.live /\ g.home[x] = t <=> x \in h.live /\ h.home[x] = t
    <2>1. {x \in g.live : g.home[x] = t} = {x \in h.live : h.home[x] = t}
      BY DEF Frozen
    <2> QED BY <2>1
  <1>3. ASSUME NEW i \in 1 .. Len(w)
        PROVE  w[i].scope \in Scopes /\ w[i].scope \in h.live /\ h.home[w[i].scope] = t
    <2>1. w[i].scope \in Scopes
      BY <1>1, ItemFacts
    <2> QED BY <2>1, <1>1 DEF IsLogged
  <1>4. IsTreeOf(g, t, w)
    <2>1. g.link[RootCell(t)] = h.link[RootCell(t)]
      BY DEF Frozen
    <2>2. \A i \in 1 .. Len(w) : /\ g.link[ChildCell(w[i].scope)] = h.link[ChildCell(w[i].scope)]
                                 /\ g.link[SiblingCell(w[i].scope)] = h.link[SiblingCell(w[i].scope)]
      BY <1>3 DEF Frozen
    <2> QED BY <1>1, <2>1, <2>2 DEF IsTreeOf
  <1>5. IsNestOf(g, t, nest)
    <2>1. \A k \in 1 .. Len(nest) : nest[k] \in h.live /\ h.home[nest[k]] = t
      <3> SUFFICES ASSUME NEW k \in 1 .. Len(nest) PROVE nest[k] \in h.live /\ h.home[nest[k]] = t
        OBVIOUS
      <3>1. PICK i \in 1 .. Len(w) : w[i].scope = nest[k]
        BY <1>1 DEF Encloses
      <3> QED BY <3>1, <1>3
    <2> QED BY <1>1, <2>1 DEF IsNestOf
  <1>6. CursorFor(g, t, w, Len(nest))
    BY <1>1 DEF CursorFor
  <1> QED BY <1>1, <1>2, <1>4, <1>5, <1>6 DEF IsLogOf

\* When all later calls are deeper, they all are nested in it.
LEMMA AfterAll ==
  ASSUME NEW w \in Seq(Item), NEW i \in 1 .. Len(w), \A k \in i + 1 .. Len(w) : w[k].depth > w[i].depth
  PROVE  After(w, i, Len(w) + 1)
  <1>1. Len(w) \in Nat
    OBVIOUS
  <1>2. ~(Len(w) + 1 <= Len(w)) /\ i < Len(w) + 1 /\ Len(w) + 1 - 1 = Len(w)
    BY <1>1
  <1>3. Len(w) + 1 <= Len(w) + 1
    BY <1>1
  <1> QED BY <1>2, <1>3 DEF After

\* A call that is pushed is logged at the end, as deep as the nesting is long.
LEMMA PushLogs ==
  ASSUME NEW h, HeapInv(h), NEW s \in Slots, NEW x \in Scopes \ h.live,
         NEW now \in 0 .. MaxCycle, NEW g, g = Push(h, s, x, now),
         NEW w, NEW nest, IsLogOf(h, s, w, nest)
  PROVE  IsLogOf(g, s, Append(w, [scope |-> x, depth |-> Len(nest)]), Append(nest, x))
  <1> DEFINE d == Len(nest)
             new == [scope |-> x, depth |-> d]
             v == Append(w, new)
             deep == Append(nest, x)
             c == h.write[s]
             L == Len(w)
  <1>1. /\ w \in Seq(Item) /\ InCallOrder(w) /\ OncePerCall(w) /\ IsTreeOf(h, s, w) /\ IsNestOf(h, s, nest)
        /\ CursorFor(h, s, w, d) /\ \A k \in 1 .. Len(nest) : Encloses(w, nest[k], k)
        /\ \A y \in Scopes : y \in h.live /\ h.home[y] = s <=> IsLogged(y, w)
        /\ nest \in Seq(Scopes) /\ L \in Nat /\ d \in Nat
    BY DEF IsLogOf, InCallOrder, IsNestOf
  <1>2. /\ c \in Cells /\ h.link[c] = NULL /\ c # ChildCell(x) /\ c # SiblingCell(x)
        /\ g.link[c] = x /\ \A e \in Cells \ {c} : g.link[e] = h.link[e]
        /\ g.parent[x] = h.next[s] /\ g.home[x] = s
        /\ \A y \in Scopes \ {x} : g.parent[y] = h.parent[y] /\ g.home[y] = h.home[y]
        /\ g.write[s] = ChildCell(x) /\ g.next[s] = x
        /\ g.live = h.live \cup {x}
    BY PushFields
  <1>3. h.link[ChildCell(x)] = NULL /\ h.link[SiblingCell(x)] = NULL /\ x \notin h.live /\ x \in Scopes
    BY DEF HeapInv, LinksOwned
  <1>4. /\ v \in Seq(Item) /\ Len(v) = L + 1 /\ v # <<>>
        /\ \A i \in 1 .. L : v[i] = w[i]
        /\ v[L + 1] = new
    <2>1. new \in Item
      BY <1>1 DEF Item
    <2> QED BY <2>1, <1>1, AppendProperties
  <1>5. /\ deep \in Seq(Scopes) /\ Len(deep) = d + 1 /\ deep # <<>>
        /\ \A k \in 1 .. d : deep[k] = nest[k]
        /\ deep[d + 1] = x
    BY <1>1, AppendProperties
  <1>6. new.scope = x /\ new.depth = d
    OBVIOUS
  <1> HIDE DEF v, deep, new, c, d, L
  <1>7. ASSUME NEW i \in 1 .. L
        PROVE  /\ w[i].scope \in Scopes /\ w[i].scope \in h.live /\ w[i].scope # x
               /\ w[i].depth \in Nat /\ h.home[w[i].scope] = s
               /\ ChildCell(w[i].scope) \in Cells /\ SiblingCell(w[i].scope) \in Cells
    <2>1. w[i].scope \in Scopes /\ w[i].depth \in Nat
      BY <1>1, ItemFacts DEF L
    <2>2. w[i].scope \in h.live /\ h.home[w[i].scope] = s
      BY <2>1, <1>1, <1>7 DEF IsLogged, L
    <2> QED BY <2>1, <2>2, <1>3, CellFacts
  <1>8. \/ w = <<>> /\ L = 0 /\ d = 0 /\ c = RootCell(s)
        \/ L # 0 /\ L \in 1 .. L /\ d = w[L].depth + 1 /\ c = ChildCell(w[L].scope)
        \/ \E m \in 1 .. L : w[m].depth = d /\ (\A j \in m + 1 .. L : w[j].depth > d) /\ c = SiblingCell(w[m].scope)
    <2>1. w = <<>> <=> L = 0
      BY <1>1 DEF L
    <2>2. L # 0 => L \in 1 .. L
      BY <1>1
    <2> QED BY <1>1, <2>1, <2>2 DEF CursorFor, c, L, d
  <1>9. L # 0 => d <= w[L].depth + 1
    <2> SUFFICES ASSUME L # 0 PROVE d <= w[L].depth + 1
      OBVIOUS
    <2>1. L \in 1 .. L /\ w[L].depth \in Nat
      <3>1. L \in 1 .. L
        BY <1>1
      <3> QED BY <3>1, <1>7
    <2>2. CASE d = w[L].depth + 1
      BY <2>1, <2>2
    <2>3. CASE \E m \in 1 .. L : w[m].depth = d /\ (\A j \in m + 1 .. L : w[j].depth > d)
      <3>1. PICK m \in 1 .. L : w[m].depth = d /\ (\A j \in m + 1 .. L : w[j].depth > d)
        BY <2>3
      <3>2. m = L \/ L \in m + 1 .. L
        BY <1>1
      <3> QED BY <3>1, <3>2, <2>1, <1>1
    <2> QED BY <2>2, <2>3, <1>8
  <1>10. InCallOrder(v)
    <2>1. v[1].depth = 0
      <3>1. CASE L = 0
        BY <3>1, <1>4, <1>6, <1>8
      <3>2. CASE L # 0
        <4>1. 1 \in 1 .. L /\ w # <<>>
          BY <3>2, <1>1 DEF L
        <4> QED BY <4>1, <1>1, <1>4 DEF InCallOrder
      <3> QED BY <3>1, <3>2
    <2>2. ASSUME NEW i \in 1 .. Len(v) - 1
          PROVE  v[i + 1].depth <= v[i].depth + 1
      <3>1. i \in 1 .. L /\ v[i] = w[i]
        BY <1>1, <1>4
      <3>2. CASE i = L
        BY <3>1, <3>2, <1>4, <1>6, <1>9, <1>1
      <3>3. CASE i # L
        <4>1. i \in 1 .. L - 1 /\ i + 1 \in 1 .. L
          BY <3>1, <3>3, <1>1
        <4> QED BY <4>1, <3>1, <1>1, <1>4 DEF InCallOrder, L
      <3> QED BY <3>2, <3>3
    <2> QED BY <2>1, <2>2, <1>4 DEF InCallOrder
  <1>11. \A i \in 1 .. Len(v) : i \in 1 .. L \/ i = L + 1
    BY <1>1, <1>4
  <1>12. L + 1 \in 1 .. Len(v) /\ \A i \in 1 .. L : i \in 1 .. Len(v)
    BY <1>1, <1>4
  <1>13. OncePerCall(v)
    <2> SUFFICES ASSUME NEW i \in 1 .. Len(v), NEW j \in 1 .. Len(v), v[i].scope = v[j].scope
                 PROVE  i = j
      BY DEF OncePerCall
    <2>1. CASE i \in 1 .. L /\ j \in 1 .. L
      BY <2>1, <1>1, <1>4 DEF OncePerCall, L
    <2>2. CASE i \in 1 .. L /\ j = L + 1
      BY <2>2, <1>4, <1>6, <1>7
    <2>3. CASE i = L + 1 /\ j \in 1 .. L
      BY <2>3, <1>4, <1>6, <1>7
    <2> QED BY <2>1, <2>2, <2>3, <1>11
  <1>14. ASSUME NEW y \in Scopes
         PROVE  y \in g.live /\ g.home[y] = s <=> IsLogged(y, v)
    <2>1. IsLogged(y, v) <=> y = x \/ IsLogged(y, w)
      BY <1>4, <1>6, <1>11, <1>12 DEF IsLogged, L
    <2>2. y = x => y \in g.live /\ g.home[y] = s
      BY <1>2
    <2>3. y # x => (y \in g.live /\ g.home[y] = s <=> y \in h.live /\ h.home[y] = s)
      BY <1>2
    <2> QED BY <2>1, <2>2, <2>3, <1>1
  <1>15. IsNestOf(g, s, deep)
    <2>1. ASSUME NEW k \in 1 .. Len(deep)
          PROVE  g.parent[deep[k]] = IF k = 1 THEN NULL ELSE deep[k - 1]
      <3>1. CASE k \in 1 .. d
        <4>1. nest[k] # x /\ nest[k] \in Scopes
          <5>1. PICK i \in 1 .. L : w[i].scope = nest[k]
            BY <3>1, <1>1 DEF Encloses, L, d
          <5> QED BY <5>1, <1>7
        <4>2. g.parent[nest[k]] = IF k = 1 THEN NULL ELSE nest[k - 1]
          BY <4>1, <3>1, <1>1, <1>2 DEF IsNestOf, d
        <4>3. k # 1 => k - 1 \in 1 .. d
          BY <3>1, <1>1
        <4> QED BY <4>2, <4>3, <3>1, <1>5
      <3>2. CASE k = d + 1
        <4>1. g.parent[deep[k]] = IF nest = <<>> THEN NULL ELSE nest[d]
          BY <3>2, <1>1, <1>2, <1>5 DEF IsNestOf, d
        <4>2. nest = <<>> <=> k = 1
          BY <3>2, <1>1 DEF d
        <4>3. k # 1 => k - 1 = d /\ d \in 1 .. d
          BY <3>2, <1>1
        <4> QED BY <4>1, <4>2, <4>3, <1>5
      <3> QED BY <3>1, <3>2, <1>1, <1>5
    <2> QED BY <2>1, <1>2, <1>5 DEF IsNestOf
  <1>16. ASSUME NEW k \in 1 .. Len(deep)
         PROVE  Encloses(v, deep[k], k)
    <2>1. CASE k \in 1 .. d
      <3>1. PICK i \in 1 .. L : /\ w[i].scope = nest[k] /\ w[i].depth = k - 1
                                /\ \A j \in i + 1 .. L : w[j].depth >= k
        BY <2>1, <1>1 DEF Encloses, L, d
      <3>2. ASSUME NEW j \in i + 1 .. Len(v)
            PROVE  v[j].depth >= k
        <4>1. CASE j \in i + 1 .. L
          <5>1. j \in 1 .. L
            BY <4>1, <3>1, <1>1
          <5> QED BY <5>1, <4>1, <3>1, <1>4
        <4>2. CASE j = L + 1
          BY <4>2, <2>1, <1>1, <1>4, <1>6
        <4> QED BY <4>1, <4>2, <1>1, <1>4
      <3> QED BY <2>1, <3>1, <3>2, <1>4, <1>5, <1>12 DEF Encloses
    <2>2. CASE k = d + 1
      <3>1. \A j \in L + 2 .. Len(v) : FALSE
        BY <1>1, <1>4
      <3>2. L + 1 + 1 = L + 2 /\ k - 1 = d
        BY <2>2, <1>1
      <3>3. v[L + 1].scope = deep[k] /\ v[L + 1].depth = k - 1
        BY <2>2, <3>2, <1>4, <1>5, <1>6
      <3> QED BY <3>1, <3>2, <3>3, <1>12 DEF Encloses
    <2> QED BY <2>1, <2>2, <1>1, <1>5
  <1>17. CursorFor(g, s, v, Len(deep))
    BY <1>2, <1>4, <1>5, <1>6 DEF CursorFor
  <1>18. IsTreeOf(g, s, v)
    <2>1. g.link[RootCell(s)] = v[1].scope
      <3>0. RootCell(s) \in Cells
        BY CellFacts
      <3>1. CASE L = 0
        <4>1. c = RootCell(s)
          <5>1. \A m : m \notin 1 .. L
            BY <3>1
          <5> QED BY <3>1, <5>1, <1>8
        <4> QED BY <4>1, <3>1, <1>2, <1>4, <1>6
      <3>2. CASE L # 0
        <4>1. c # RootCell(s)
          BY <3>2, <1>8, CellFacts
        <4>2. 1 \in 1 .. L /\ w # <<>>
          BY <3>2, <1>1 DEF L
        <4>3. g.link[RootCell(s)] = w[1].scope
          BY <4>1, <4>2, <3>0, <1>1, <1>2 DEF IsTreeOf
        <4> QED BY <4>2, <4>3, <1>4
      <3> QED BY <3>1, <3>2
    <2>2. ASSUME NEW i \in 1 .. Len(v)
          PROVE  g.link[ChildCell(v[i].scope)] =
                   IF i < Len(v) /\ v[i + 1].depth > v[i].depth THEN v[i + 1].scope ELSE NULL
      <3>1. CASE i = L + 1
        <4>1. ~(i < Len(v)) /\ v[i].scope = x
          BY <3>1, <1>1, <1>4, <1>6
        <4>2. g.link[ChildCell(x)] = NULL
          BY <1>2, <1>3, CellFacts
        <4> QED BY <4>1, <4>2
      <3>2. CASE i \in 1 .. L /\ i # L
        <4>1. i \in 1 .. L /\ i + 1 \in 1 .. L /\ i < L /\ i < Len(v) /\ v[i] = w[i] /\ v[i + 1] = w[i + 1]
          <5>1. i \in 1 .. L /\ i + 1 \in 1 .. L /\ i < L /\ i < Len(v)
            BY <3>2, <1>1, <1>4
          <5> QED BY <5>1, <1>4
        <4>2. c # ChildCell(w[i].scope)
          <5>1. L \in 1 .. L /\ w[L].scope # w[i].scope
            BY <3>2, <1>1 DEF OncePerCall, L
          <5> QED BY <5>1, <4>1, <1>8, CellFacts
        <4>3. g.link[ChildCell(w[i].scope)] = h.link[ChildCell(w[i].scope)]
          BY <4>1, <4>2, <1>2, <1>7
        <4>4. h.link[ChildCell(w[i].scope)] = IF w[i + 1].depth > w[i].depth THEN w[i + 1].scope ELSE NULL
          BY <4>1, <1>1 DEF IsTreeOf, L
        <4> QED BY <4>1, <4>3, <4>4
      <3>3. CASE i = L /\ L \in 1 .. L
        <4>1. i < Len(v) /\ v[i] = w[L] /\ v[i + 1] = new
          BY <3>3, <1>1, <1>4
        <4>2. h.link[ChildCell(w[L].scope)] = NULL
          <5>1. ~(L < L)
            BY <1>1
          <5> QED BY <5>1, <3>3, <1>1 DEF IsTreeOf, L
        <4>3. CASE d = w[L].depth + 1 /\ c = ChildCell(w[L].scope)
          <5>1. d > w[L].depth
            BY <4>3, <3>3, <1>7
          <5> QED BY <4>1, <4>3, <5>1, <1>2, <1>6
        <4>4. CASE \E m \in 1 .. L : w[m].depth = d /\ (\A j \in m + 1 .. L : w[j].depth > d) /\ c = SiblingCell(w[m].scope)
          <5>1. PICK m \in 1 .. L : w[m].depth = d /\ (\A j \in m + 1 .. L : w[j].depth > d) /\ c = SiblingCell(w[m].scope)
            BY <4>4
          <5>2. ~(d > w[L].depth)
            <6>1. m = L \/ L \in m + 1 .. L
              BY <1>1
            <6>2. w[L].depth \in Nat
              BY <3>3, <1>7
            <6> QED BY <5>1, <6>1, <6>2, <1>1
          <5>3. c # ChildCell(w[L].scope)
            BY <5>1, CellFacts
          <5>4. g.link[ChildCell(w[L].scope)] = NULL
            BY <5>3, <4>2, <3>3, <1>2, <1>7
          <5> QED BY <4>1, <5>2, <5>4, <1>6
        <4> QED BY <4>3, <4>4, <3>3, <1>8
      <3> QED BY <3>1, <3>2, <3>3, <1>11
    <2>3. ASSUME NEW i \in 1 .. Len(v), NEW j \in 1 .. Len(v) + 1, After(v, i, j)
          PROVE  g.link[SiblingCell(v[i].scope)] =
                   IF j <= Len(v) /\ v[j].depth = v[i].depth THEN v[j].scope ELSE NULL
      <3>0. i < j /\ j <= Len(v) + 1 /\ i \in Nat /\ j \in Nat
        BY <2>3, <1>4, <1>1 DEF After
      <3>1. CASE i = L + 1
        <4>1. ~(j <= Len(v)) /\ v[i].scope = x
          BY <3>0, <3>1, <1>1, <1>4, <1>6
        <4>2. g.link[SiblingCell(x)] = NULL
          BY <1>2, <1>3, CellFacts
        <4> QED BY <4>1, <4>2
      <3>2. CASE i \in 1 .. L
        <4>1. v[i] = w[i] /\ \A k \in i + 1 .. L : v[k] = w[k]
          <5>1. \A k \in i + 1 .. L : k \in 1 .. L
            BY <3>2, <1>1
          <5> QED BY <5>1, <3>2, <1>4
        <4>2. \A k \in i + 1 .. j - 1 : v[k].depth > w[i].depth
          BY <2>3, <4>1 DEF After
        <4>3. c # SiblingCell(w[i].scope) => g.link[SiblingCell(w[i].scope)] = h.link[SiblingCell(w[i].scope)]
          BY <3>2, <1>2, <1>7
        <4>4. c = SiblingCell(w[i].scope) => w[i].depth = d /\ \A k \in i + 1 .. L : w[k].depth > d
          <5> SUFFICES ASSUME c = SiblingCell(w[i].scope)
                       PROVE  w[i].depth = d /\ \A k \in i + 1 .. L : w[k].depth > d
            OBVIOUS
          <5>1. PICK m \in 1 .. L : w[m].depth = d /\ (\A k \in m + 1 .. L : w[k].depth > d) /\ c = SiblingCell(w[m].scope)
            BY <1>8, CellFacts
          <5>2. m = i
            BY <5>1, <3>2, <1>1, CellFacts DEF OncePerCall, L
          <5> QED BY <5>1, <5>2
        <4>5. CASE j <= L
          <5>1. j \in i + 1 .. L /\ j \in 1 .. L /\ j \in 1 .. L + 1 /\ j <= Len(v) /\ v[j] = w[j]
            BY <3>0, <3>2, <4>1, <4>5, <1>1, <1>4
          <5>2. w[j].depth <= w[i].depth
            BY <5>1, <4>1, <2>3 DEF After
          <5>3. After(w, i, j)
            <6>1. \A k \in i + 1 .. j - 1 : k \in i + 1 .. L
              BY <3>0, <4>5, <1>1
            <6>2. \A k \in i + 1 .. j - 1 : w[k].depth > w[i].depth
              BY <6>1, <4>1, <4>2
            <6>3. j <= Len(w) + 1
              BY <5>1, <1>1 DEF L
            <6> QED BY <6>2, <6>3, <3>0, <5>2 DEF After
          <5>4. c # SiblingCell(w[i].scope)
            <6> SUFFICES ASSUME c = SiblingCell(w[i].scope) PROVE FALSE
              OBVIOUS
            <6>1. w[j].depth > w[i].depth
              BY <4>4, <5>1
            <6>2. w[j].depth \in Nat /\ w[i].depth \in Nat
              BY <5>1, <3>2, <1>7
            <6> QED BY <6>1, <6>2, <5>2
          <5>5. h.link[SiblingCell(w[i].scope)] = IF j <= L /\ w[j].depth = w[i].depth THEN w[j].scope ELSE NULL
            BY <5>1, <5>3, <3>2, <1>1 DEF IsTreeOf, L
          <5> QED BY <5>1, <5>4, <5>5, <4>1, <4>3, <4>5
        <4>6. CASE j = L + 1
          <5>1. \A k \in i + 1 .. L : w[k].depth > w[i].depth
            <6>1. \A k \in i + 1 .. L : k \in i + 1 .. j - 1
              BY <4>6, <1>1
            <6> QED BY <6>1, <4>1, <4>2
          <5>2. After(w, i, L + 1)
            BY <3>2, <5>1, <1>1, AfterAll DEF L
          <5>3. h.link[SiblingCell(w[i].scope)] = NULL
            <6>1. ~(L + 1 <= L) /\ L + 1 \in 1 .. L + 1
              BY <1>1
            <6> QED BY <5>2, <6>1, <3>2, <1>1 DEF IsTreeOf, L
          <5>4. j <= Len(v) /\ v[j] = new /\ d <= w[i].depth
            <6>1. j <= Len(v) /\ v[j] = new
              BY <4>6, <1>1, <1>4
            <6> QED BY <6>1, <4>1, <2>3, <1>6 DEF After
          <5>5. CASE d = w[i].depth
            <6>1. ~(L # 0 /\ d = w[L].depth + 1)
              <7>1. i = L \/ L \in i + 1 .. L
                BY <3>2, <1>1
              <7>2. w[L].depth \in Nat
                <8>1. L \in 1 .. L
                  BY <3>2, <1>1
                <8> QED BY <8>1, <1>7
              <7>3. w[L].depth >= d
                <8>1. CASE i = L
                  BY <8>1, <7>2, <5>5
                <8>2. CASE L \in i + 1 .. L
                  BY <8>2, <7>2, <5>1, <5>5, <1>1
                <8> QED BY <7>1, <8>1, <8>2
              <7> QED BY <7>2, <7>3, <1>1
            <6>2. L # 0
              BY <3>2
            <6>3. PICK m \in 1 .. L : w[m].depth = d /\ (\A k \in m + 1 .. L : w[k].depth > d) /\ c = SiblingCell(w[m].scope)
              BY <6>1, <6>2, <1>8
            <6>4. ~(m < i)
              <7> SUFFICES ASSUME m < i PROVE FALSE
                OBVIOUS
              <7>1. i \in m + 1 .. L
                BY <3>2, <1>1
              <7> QED BY <7>1, <6>3, <5>5, <1>1
            <6>5. ~(i < m)
              <7> SUFFICES ASSUME i < m PROVE FALSE
                OBVIOUS
              <7>1. m \in i + 1 .. L
                BY <3>2, <1>1
              <7> QED BY <7>1, <6>3, <5>1, <5>5, <1>1
            <6>6. m = i
              BY <6>4, <6>5, <3>0, <3>2, <1>1
            <6> QED BY <6>3, <6>6, <5>4, <5>5, <4>1, <1>2, <1>6
          <5>6. CASE d # w[i].depth
            <6>1. c # SiblingCell(w[i].scope)
              BY <5>6, <4>4
            <6> QED BY <6>1, <5>3, <5>4, <5>6, <4>1, <4>3, <1>6
          <5> QED BY <5>5, <5>6
        <4>7. CASE j = L + 2
          <5>1. ~(j <= Len(v)) /\ L + 1 \in i + 1 .. j - 1 /\ \A k \in i + 1 .. L : k \in i + 1 .. j - 1
            BY <4>7, <3>2, <1>1, <1>4
          <5>2. d > w[i].depth
            BY <5>1, <4>2, <1>4, <1>6
          <5>3. \A k \in i + 1 .. L : w[k].depth > w[i].depth
            BY <5>1, <4>1, <4>2
          <5>4. After(w, i, L + 1)
            BY <3>2, <5>3, <1>1, AfterAll DEF L
          <5>5. h.link[SiblingCell(w[i].scope)] = NULL
            <6>1. ~(L + 1 <= L) /\ L + 1 \in 1 .. L + 1
              BY <1>1
            <6> QED BY <5>4, <6>1, <3>2, <1>1 DEF IsTreeOf, L
          <5>6. c # SiblingCell(w[i].scope)
            <6>1. w[i].depth \in Nat
              BY <3>2, <1>7
            <6> QED BY <6>1, <5>2, <4>4, <1>1
          <5> QED BY <5>1, <5>5, <5>6, <4>1, <4>3
        <4> QED BY <4>5, <4>6, <4>7, <3>0, <1>1, <1>4
      <3> QED BY <3>1, <3>2, <1>11
    <2> QED BY <2>1, <2>2, <2>3, <1>4 DEF IsTreeOf
  <1>19. IsLogOf(g, s, v, deep)
    BY <1>10, <1>13, <1>14, <1>15, <1>16, <1>17, <1>18 DEF IsLogOf
  <1> QED BY <1>19 DEF v, deep, new, d

(***************************************************************************)
(* A pop, a recycled tree, and all slots at once.                          *)
(***************************************************************************)

\* A call that returns takes the calls nested in it out of the nesting: the next call
\* is logged beside it.
LEMMA PopLogs ==
  ASSUME NEW h, HeapInv(h), NEW timer \in Timer, timer.scope # NULL, timer.scope \in h.live,
         NEW now \in 0 .. MaxCycle, NEW g, g = Pop(h, timer, now),
         NEW w, NEW nest, IsLogOf(h, timer.tree, w, nest),
         NEW p \in 1 .. Len(nest), nest[p] = timer.scope
  PROVE  IsLogOf(g, timer.tree, w, SubSeq(nest, 1, p - 1))
  <1> DEFINE s == timer.tree
             short == SubSeq(nest, 1, p - 1)
  <1>1. /\ w \in Seq(Item) /\ InCallOrder(w) /\ OncePerCall(w) /\ IsTreeOf(h, s, w) /\ IsNestOf(h, s, nest)
        /\ \A k \in 1 .. Len(nest) : Encloses(w, nest[k], k)
        /\ \A y \in Scopes : y \in h.live /\ h.home[y] = s <=> IsLogged(y, w)
        /\ nest \in Seq(Scopes) /\ Len(nest) \in Nat /\ Len(w) \in Nat
    BY DEF IsLogOf, InCallOrder, IsNestOf
  <1>2. /\ g.link = h.link /\ g.parent = h.parent /\ g.live = h.live /\ g.home = h.home
        /\ g.write[s] = SiblingCell(nest[p]) /\ g.next[s] = h.parent[nest[p]]
    BY PopFields
  <1>3. p - 1 \in Nat /\ p - 1 \in 0 .. Len(nest) /\ p \in Nat
    BY <1>1
  <1>4. short \in Seq(Scopes) /\ Len(short) = p - 1 /\ \A k \in 1 .. p - 1 : short[k] = nest[k]
    BY <1>1, <1>3
  <1>5. \A k \in 1 .. p - 1 : k \in 1 .. Len(nest) /\ (k # 1 => k - 1 \in 1 .. p - 1)
    BY <1>1, <1>3
  <1> HIDE DEF short, s
  <1>6. IsNestOf(g, s, short)
    <2>1. ASSUME NEW k \in 1 .. Len(short)
          PROVE  g.parent[short[k]] = IF k = 1 THEN NULL ELSE short[k - 1]
      <3>1. k \in 1 .. p - 1
        BY <1>4
      <3>2. h.parent[nest[k]] = IF k = 1 THEN NULL ELSE nest[k - 1]
        BY <3>1, <1>1, <1>5 DEF IsNestOf
      <3> QED BY <3>1, <3>2, <1>2, <1>4, <1>5
    <2>2. g.next[s] = IF short = <<>> THEN NULL ELSE short[Len(short)]
      <3>1. h.parent[nest[p]] = IF p = 1 THEN NULL ELSE nest[p - 1]
        BY <1>1 DEF IsNestOf
      <3>2. short = <<>> <=> p = 1
        BY <1>3, <1>4
      <3>3. p # 1 => p - 1 \in 1 .. p - 1
        BY <1>3
      <3> QED BY <3>1, <3>2, <3>3, <1>2, <1>4
    <2> QED BY <2>1, <2>2, <1>4 DEF IsNestOf
  <1>7. \A k \in 1 .. Len(short) : Encloses(w, short[k], k)
    BY <1>1, <1>4, <1>5
  <1>8. CursorFor(g, s, w, Len(short))
    <2>1. PICK i \in 1 .. Len(w) : /\ w[i].scope = nest[p] /\ w[i].depth = p - 1
                                   /\ \A j \in i + 1 .. Len(w) : w[j].depth >= p
      BY <1>1 DEF Encloses
    <2>2. ASSUME NEW j \in i + 1 .. Len(w)
          PROVE  w[j].depth > p - 1
      <3>1. j \in 1 .. Len(w)
        BY <2>1, <1>1
      <3>2. w[j].depth \in Nat /\ w[j].depth >= p
        BY <3>1, <2>1, <1>1, ItemFacts
      <3> QED BY <3>2, <1>3
    <2> QED BY <2>1, <2>2, <1>2, <1>4 DEF CursorFor
  <1>9. IsTreeOf(g, s, w)
    BY <1>1, <1>2 DEF IsTreeOf
  <1>10. IsLogOf(g, s, w, short)
    BY <1>1, <1>2, <1>6, <1>7, <1>8, <1>9 DEF IsLogOf
  <1> QED BY <1>10 DEF short, s

\* A tree whose root and cursor are reset is that of the empty log.
LEMMA EmptyLog ==
  ASSUME NEW g, NEW s \in Slots, \A x \in Scopes : ~(x \in g.live /\ g.home[x] = s),
         g.link[RootCell(s)] = NULL, g.write[s] = RootCell(s), g.next[s] = NULL
  PROVE  IsLogOf(g, s, <<>>, <<>>)
  <1> DEFINE e == <<>>
  <1>1. e \in Seq(Item) /\ e \in Seq(Scopes) /\ Len(e) = 0 /\ e = <<>>
    BY EmptySeq
  <1>2. \A i \in 1 .. 0 : FALSE
    OBVIOUS
  <1>3. \A i \in 1 .. 0 - 1 : FALSE
    OBVIOUS
  <1> HIDE DEF e
  <1>4. InCallOrder(e) /\ OncePerCall(e)
    BY <1>1, <1>2, <1>3 DEF InCallOrder, OncePerCall
  <1>5. \A x \in Scopes : x \in g.live /\ g.home[x] = s <=> IsLogged(x, e)
    BY <1>1, <1>2 DEF IsLogged
  <1>6. IsTreeOf(g, s, e) /\ IsNestOf(g, s, e) /\ CursorFor(g, s, e, Len(e))
    BY <1>1, <1>2 DEF IsTreeOf, IsNestOf, CursorFor
  <1>7. IsLogOf(g, s, e, e)
    BY <1>1, <1>2, <1>4, <1>5, <1>6 DEF IsLogOf
  <1> QED BY <1>7 DEF e

\* Every tree is that of the log its reader finds.
AllLogged(h) == IsFiniteSet(h.live) /\ \A s \in Slots : IsLogOf(h, s, Walk(h, s), Chain(h, s))

\* What one operation makes of the logs and the nestings of all slots.
LogsBecome(h, g, s, w, nest) ==
    /\ AllLogged(g)
    /\ Walk(g, s) = w /\ Chain(g, s) = nest
    /\ \A t \in Slots \ {s} : Walk(g, t) = Walk(h, t) /\ Chain(g, t) = Chain(h, t)

\* It is enough that every slot has a log: there is only one.
LEMMA LogsFound ==
  ASSUME NEW h, NEW g \in Store, IsFiniteSet(g.live), NEW s \in Slots, NEW w, NEW nest,
         IsLogOf(g, s, w, nest),
         \A t \in Slots \ {s} : IsLogOf(g, t, Walk(h, t), Chain(h, t))
  PROVE  LogsBecome(h, g, s, w, nest)
  <1>1. Walk(g, s) = w /\ Chain(g, s) = nest
    BY LogIsFound
  <1>2. \A t \in Slots \ {s} : Walk(g, t) = Walk(h, t) /\ Chain(g, t) = Chain(h, t)
    BY LogIsFound
  <1>3. \A t \in Slots : IsLogOf(g, t, Walk(g, t), Chain(g, t))
    BY <1>1, <1>2
  <1> QED BY <1>1, <1>2, <1>3 DEF LogsBecome, AllLogged

\* A push appends to the log and the nesting of its slot, and to no other.
LEMMA PushAll ==
  ASSUME NEW h, HeapInv(h), AllLogged(h), NEW s \in Slots, NEW x \in Scopes \ h.live,
         NEW now \in 0 .. MaxCycle, NEW g, g = Push(h, s, x, now)
  PROVE  LogsBecome(h, g, s, Append(Walk(h, s), [scope |-> x, depth |-> Len(Chain(h, s))]),
                    Append(Chain(h, s), x))
  <1>1. g \in Store /\ g.live = h.live \cup {x} /\ h.live \subseteq Scopes /\ x \in Scopes
    <2>1. h.live \subseteq Scopes
      BY DEF HeapInv, Store
    <2> QED BY <2>1, PushFields
  <1>2. IsFiniteSet(g.live)
    BY <1>1, FS_AddElement DEF AllLogged
  <1>3. IsLogOf(g, s, Append(Walk(h, s), [scope |-> x, depth |-> Len(Chain(h, s))]), Append(Chain(h, s), x))
    BY PushLogs DEF AllLogged
  <1>4. ASSUME NEW t \in Slots \ {s}
        PROVE  IsLogOf(g, t, Walk(h, t), Chain(h, t))
    <2>1. Frozen(h, g, t)
      BY PushFreezes
    <2>2. /\ \A y \in Scopes \ {x} : g.parent[y] = h.parent[y]
          /\ g.write[t] = h.write[t] /\ g.next[t] = h.next[t]
      BY PushFields
    <2>3. \A y \in h.live : g.parent[y] = h.parent[y]
      BY <1>1, <2>2
    <2>4. g.live \subseteq Scopes /\ IsLogOf(h, t, Walk(h, t), Chain(h, t))
      BY <1>1 DEF AllLogged
    <2> QED BY <1>1, <2>1, <2>2, <2>3, <2>4, LogStays
  <1> QED BY <1>1, <1>2, <1>3, <1>4, LogsFound

\* A recycled slot has an empty log; the other slots keep theirs.
LEMMA RecycleAll ==
  ASSUME NEW h, HeapInv(h), AllLogged(h), NEW s \in Slots, NEW g, g = Recycle(h, s)
  PROVE  LogsBecome(h, g, s, <<>>, <<>>)
  <1>1. /\ g \in Store /\ g.live = {x \in h.live : h.home[x] # s} /\ h.live \subseteq Scopes
        /\ g.link[RootCell(s)] = NULL /\ g.write[s] = RootCell(s) /\ g.next[s] = NULL
        /\ \A x \in g.live : g.home[x] = h.home[x] /\ g.parent[x] = h.parent[x]
    <2>1. h.live \subseteq Scopes
      BY DEF HeapInv, Store
    <2> QED BY <2>1, RecycleFields
  <1>2. IsFiniteSet(g.live)
    BY <1>1, FS_Subset DEF AllLogged
  <1>3. IsLogOf(g, s, <<>>, <<>>)
    <2>1. \A x \in Scopes : ~(x \in g.live /\ g.home[x] = s)
      BY <1>1
    <2> QED BY <1>1, <2>1, EmptyLog
  <1>4. ASSUME NEW t \in Slots \ {s}
        PROVE  IsLogOf(g, t, Walk(h, t), Chain(h, t))
    <2>1. Frozen(h, g, t)
      BY RecycleFreezes
    <2>2. g.write[t] = h.write[t] /\ g.next[t] = h.next[t]
      BY RecycleFields
    <2>3. \A y \in h.live : h.home[y] = t => g.parent[y] = h.parent[y]
      BY <1>1
    <2>4. g.live \subseteq Scopes /\ IsLogOf(h, t, Walk(h, t), Chain(h, t))
      BY <1>1 DEF AllLogged
    <2> QED BY <1>1, <2>1, <2>2, <2>3, <2>4, LogStays
  <1> QED BY <1>1, <1>2, <1>3, <1>4, LogsFound

\* A pop shortens the nesting of its slot and leaves every log as it was.
LEMMA PopAll ==
  ASSUME NEW h, HeapInv(h), AllLogged(h), NEW timer \in Timer, timer.scope # NULL, TimerValid(h, timer),
         NEW now \in 0 .. MaxCycle, NEW g, g = Pop(h, timer, now),
         NEW p \in 1 .. Len(Chain(h, timer.tree)), Chain(h, timer.tree)[p] = timer.scope
  PROVE  LogsBecome(h, g, timer.tree, Walk(h, timer.tree), SubSeq(Chain(h, timer.tree), 1, p - 1))
  <1>1. timer.scope \in h.live /\ timer.tree \in Slots
    BY DEF TimerValid, Timer
  <1>2. g \in Store /\ g.live = h.live /\ g.parent = h.parent /\ h.live \subseteq Scopes
    <2>1. h.live \subseteq Scopes
      BY DEF HeapInv, Store
    <2> QED BY <1>1, <2>1, PopFields
  <1>3. IsFiniteSet(g.live)
    BY <1>2 DEF AllLogged
  <1>4. IsLogOf(g, timer.tree, Walk(h, timer.tree), SubSeq(Chain(h, timer.tree), 1, p - 1))
    <2>1. IsLogOf(h, timer.tree, Walk(h, timer.tree), Chain(h, timer.tree))
      BY <1>1 DEF AllLogged
    <2> QED BY <1>1, <2>1, PopLogs
  <1>5. ASSUME NEW t \in Slots \ {timer.tree}
        PROVE  IsLogOf(g, t, Walk(h, t), Chain(h, t))
    <2>1. Frozen(h, g, t)
      BY PopFreezes
    <2>2. g.write[t] = h.write[t] /\ g.next[t] = h.next[t]
      BY <1>1, PopFields
    <2>3. IsLogOf(h, t, Walk(h, t), Chain(h, t))
      BY DEF AllLogged
    <2> QED BY <1>2, <2>1, <2>2, <2>3, LogStays
  <1> QED BY <1>1, <1>2, <1>3, <1>4, <1>5, LogsFound

(***************************************************************************)
(* The open timers are nested in each other.                               *)
(***************************************************************************)

\* The calls of all slots, and the nesting of the next call in each.
LogsOf(h) == [s \in Slots |-> Walk(h, s)]
NestsOf(h) == [s \in Slots |-> Chain(h, s)]

\* A timer's scope is call p of the nesting of its tree.
InNest(nests, timer, p) ==
    /\ timer.scope # NULL
    /\ p \in 1 .. Len(nests[timer.tree])
    /\ nests[timer.tree][p] = timer.scope

\* The scopes of the open timers are nested in each other as the timers are.
StackNested(nests, stack) ==
    /\ \A i \in DOMAIN stack : stack[i].scope # NULL => \E p \in Nat : InNest(nests, stack[i], p)
    /\ \A i, j \in DOMAIN stack : \A p, q \in Nat :
        /\ i < j /\ stack[i].tree = stack[j].tree
        /\ InNest(nests, stack[i], p) /\ InNest(nests, stack[j], q)
        => p < q

\* Timers that are destroyed without being recorded leave the others nested.
LEMMA RestNested ==
  ASSUME NEW nests, NEW stack, NEW rest, StackNested(nests, stack),
         \A i \in DOMAIN rest : i \in DOMAIN stack /\ rest[i] = stack[i]
  PROVE  StackNested(nests, rest)
  BY DEF StackNested

\* A timer that opens unrecorded is nested in nothing.
LEMMA UnrecordedNested ==
  ASSUME NEW nests, NEW stack \in Seq(Timer), NEW new \in Timer, new.scope = NULL, StackNested(nests, stack)
  PROVE  StackNested(nests, Append(stack, new))
  <1> DEFINE more == Append(stack, new)
  <1>1. \A i \in DOMAIN more : more[i].scope # NULL => i \in DOMAIN stack /\ more[i] = stack[i]
    BY AppendFacts
  <1> HIDE DEF more
  <1>2. \A i \in DOMAIN more : \A p : InNest(nests, more[i], p) => i \in DOMAIN stack /\ more[i] = stack[i]
    BY <1>1 DEF InNest
  <1>3. StackNested(nests, more)
    BY <1>1, <1>2 DEF StackNested
  <1> QED BY <1>3 DEF more

\* A timer that opens is nested in all the others.
LEMMA PushNested ==
  ASSUME NEW nests, NEW stack \in Seq(Timer), StackNested(nests, stack),
         NEW s \in Slots, NEW x \in Scopes, \A i \in DOMAIN stack : stack[i].scope # x,
         nests[s] \in Seq(Scopes), \A p \in 1 .. Len(nests[s]) : nests[s][p] # x,
         NEW deeper, deeper[s] = Append(nests[s], x), \A t \in Slots \ {s} : deeper[t] = nests[t]
  PROVE  StackNested(deeper, Append(stack, [scope |-> x, tree |-> s]))
  <1> DEFINE new == [scope |-> x, tree |-> s]
             more == Append(stack, new)
             L == Len(nests[s])
  <1>1. new \in Timer /\ new.scope = x /\ new.tree = s /\ x # NULL
    BY NullAssumption DEF Timer, ScopeOrNull
  <1>2. /\ Len(stack) \in Nat /\ DOMAIN stack = 1 .. Len(stack) /\ \A i \in DOMAIN stack : stack[i] \in Timer /\ stack[i].tree \in Slots
        /\ \A i \in DOMAIN more : \/ i \in DOMAIN stack /\ more[i] = stack[i]
                                  \/ i = Len(stack) + 1 /\ more[i] = new
    <2>1. \A i \in DOMAIN more : \/ i \in DOMAIN stack /\ more[i] = stack[i]
                                 \/ i = Len(stack) + 1 /\ more[i] = new
      BY <1>1, AppendFacts
    <2>2. Len(stack) \in Nat /\ DOMAIN stack = 1 .. Len(stack) /\ \A i \in DOMAIN stack : stack[i] \in Timer
      OBVIOUS
    <2> QED BY <2>1, <2>2 DEF Timer
  <1>3. /\ L \in Nat /\ Len(deeper[s]) = L + 1 /\ deeper[s][L + 1] = x
        /\ \A p \in 1 .. L : deeper[s][p] = nests[s][p]
    BY AppendProperties
  <1> HIDE DEF new, more
  <1>4. ASSUME NEW i \in DOMAIN stack, NEW p \in Nat
        PROVE  InNest(deeper, stack[i], p) <=> InNest(nests, stack[i], p)
    <2>1. CASE stack[i].tree = s
      <3>1. InNest(nests, stack[i], p) => p \in 1 .. L /\ p \in 1 .. L + 1
        BY <2>1, <1>3 DEF InNest
      <3>2. InNest(deeper, stack[i], p) => p \in 1 .. L
        <4>1. InNest(deeper, stack[i], p) => p \in 1 .. L + 1 /\ deeper[s][p] # x
          BY <2>1, <1>3 DEF InNest
        <4> QED BY <4>1, <1>3
      <3> QED BY <2>1, <3>1, <3>2, <1>3 DEF InNest
    <2>2. CASE stack[i].tree # s
      BY <2>2, <1>2 DEF InNest
    <2> QED BY <2>1, <2>2
  <1>5. InNest(deeper, new, L + 1) /\ L + 1 \in Nat /\ \A q \in Nat : InNest(deeper, new, q) => q \in 1 .. L + 1
    BY <1>1, <1>3 DEF InNest
  <1>6. ASSUME NEW i \in DOMAIN more, more[i].scope # NULL
        PROVE  \E p \in Nat : InNest(deeper, more[i], p)
    <2>1. CASE i \in DOMAIN stack /\ more[i] = stack[i]
      BY <2>1, <1>4, <1>6 DEF StackNested
    <2> QED BY <2>1, <1>2, <1>5
  <1>7. ASSUME NEW i \in DOMAIN more, NEW j \in DOMAIN more, NEW p \in Nat, NEW q \in Nat,
               i < j, more[i].tree = more[j].tree, InNest(deeper, more[i], p), InNest(deeper, more[j], q)
        PROVE  p < q
    <2>1. i \in DOMAIN stack /\ more[i] = stack[i]
      <3>1. ~(Len(stack) + 1 < j)
        BY <1>2
      <3> QED BY <3>1, <1>2, <1>7
    <2>2. CASE j \in DOMAIN stack /\ more[j] = stack[j]
      BY <2>1, <2>2, <1>4, <1>7 DEF StackNested
    <2>3. CASE more[j] = new
      <3>1. InNest(nests, stack[i], p) /\ stack[i].tree = s
        BY <2>1, <2>3, <1>1, <1>4, <1>7
      <3>2. p \in 1 .. L
        BY <3>1 DEF InNest
      <3>3. q = L + 1
        <4>1. q \in 1 .. L + 1 /\ deeper[s][q] = x
          BY <2>3, <1>1, <1>3, <1>7 DEF InNest
        <4>2. q \notin 1 .. L
          BY <4>1, <1>3
        <4> QED BY <4>1, <4>2, <1>3
      <3> QED BY <3>2, <3>3, <1>3
    <2> QED BY <2>2, <2>3, <1>2
  <1>8. StackNested(deeper, more)
    BY <1>6, <1>7 DEF StackNested
  <1> QED BY <1>8 DEF more, new

\* When the innermost timer is recorded, what is left of the nesting holds the others.
LEMMA PopNested ==
  ASSUME NEW nests, NEW stack, StackNested(nests, stack),
         NEW last \in DOMAIN stack, NEW p \in Nat, InNest(nests, stack[last], p),
         NEW rest, \A i \in DOMAIN rest : i \in DOMAIN stack /\ i < last /\ rest[i] = stack[i],
         \A i \in DOMAIN rest : rest[i].tree \in Slots,
         nests[stack[last].tree] \in Seq(Scopes),
         NEW left, left[stack[last].tree] = SubSeq(nests[stack[last].tree], 1, p - 1),
         \A t \in Slots \ {stack[last].tree} : left[t] = nests[t]
  PROVE  StackNested(left, rest)
  <1> DEFINE s == stack[last].tree
  <1>1. p \in 1 .. Len(nests[s]) /\ Len(nests[s]) \in Nat
    BY DEF InNest
  <1>2. p - 1 \in Nat /\ p - 1 \in 0 .. Len(nests[s])
    BY <1>1
  <1>3. Len(left[s]) = p - 1 /\ \A k \in 1 .. p - 1 : k \in 1 .. Len(nests[s]) /\ left[s][k] = nests[s][k]
    BY <1>1, <1>2
  <1>4. \A t \in Slots \ {s} : left[t] = nests[t]
    OBVIOUS
  <1>5. ASSUME NEW i \in DOMAIN rest, NEW q \in Nat
        PROVE  InNest(left, rest[i], q) <=> InNest(nests, rest[i], q)
    <2>1. CASE rest[i].tree = s
      <3>1. InNest(nests, rest[i], q) => q \in 1 .. p - 1
        <4> SUFFICES ASSUME InNest(nests, rest[i], q) PROVE q \in 1 .. p - 1
          OBVIOUS
        <4>1. q < p
          BY <2>1 DEF StackNested
        <4>2. q \in 1 .. Len(nests[s])
          BY <2>1 DEF InNest
        <4> QED BY <4>1, <4>2, <1>1
      <3>2. InNest(left, rest[i], q) => q \in 1 .. p - 1
        BY <2>1, <1>3 DEF InNest
      <3> QED BY <2>1, <3>1, <3>2, <1>3 DEF InNest
    <2>2. CASE rest[i].tree # s
      BY <2>2, <1>4 DEF InNest
    <2> QED BY <2>1, <2>2
  <1> HIDE DEF s
  <1>6. StackNested(nests, rest)
    BY RestNested
  <1> QED BY <1>5, <1>6 DEF StackNested

\* A slot none of the timers writes to may be emptied.
LEMMA RecycleNested ==
  ASSUME NEW nests, NEW stack, StackNested(nests, stack), NEW s,
         \A i \in DOMAIN stack : stack[i].tree \in Slots /\ (stack[i].tree # s \/ stack[i].scope = NULL),
         NEW left, \A t \in Slots \ {s} : left[t] = nests[t]
  PROVE  StackNested(left, stack)
  <1>1. ASSUME NEW i \in DOMAIN stack, NEW p \in Nat
        PROVE  InNest(left, stack[i], p) <=> InNest(nests, stack[i], p)
    BY DEF InNest
  <1> QED BY <1>1 DEF StackNested

(***************************************************************************)
(* The operations, as the log sees them.                                   *)
(***************************************************************************)

\* What is logged, or nests the next call, is live.
LEMMA LoggedIsLive ==
  ASSUME NEW h, AllLogged(h), NEW s \in Slots
  PROVE  /\ Walk(h, s) \in Seq(Item) /\ \A i \in DOMAIN Walk(h, s) : Walk(h, s)[i].scope \in h.live
         /\ Chain(h, s) \in Seq(Scopes) /\ \A p \in 1 .. Len(Chain(h, s)) : Chain(h, s)[p] \in h.live
  <1> DEFINE w == Walk(h, s)
             nest == Chain(h, s)
  <1>1. IsLogOf(h, s, w, nest)
    BY DEF AllLogged
  <1> HIDE DEF w, nest
  <1>2. w \in Seq(Item) /\ nest \in Seq(Scopes) /\ \A p \in 1 .. Len(nest) : Encloses(w, nest[p], p)
    BY <1>1 DEF IsLogOf, InCallOrder, IsNestOf
  <1>3. ASSUME NEW i \in 1 .. Len(w)
        PROVE  w[i].scope \in h.live
    <2>1. w[i].scope \in Scopes /\ IsLogged(w[i].scope, w)
      BY <1>2, ItemFacts DEF IsLogged
    <2> QED BY <2>1, <1>1 DEF IsLogOf
  <1>4. ASSUME NEW p \in 1 .. Len(nest)
        PROVE  nest[p] \in h.live
    <2>1. PICK i \in 1 .. Len(w) : w[i].scope = nest[p]
      BY <1>2 DEF Encloses
    <2> QED BY <2>1, <1>3
  <1>5. w \in Seq(Item) /\ (\A i \in DOMAIN w : w[i].scope \in h.live)
        /\ nest \in Seq(Scopes) /\ \A p \in 1 .. Len(nest) : nest[p] \in h.live
    BY <1>2, <1>3, <1>4
  <1> QED BY <1>5 DEF w, nest

\* The log and the nesting of one slot are replaced.
Changed(h, g, s, w, nest) ==
    /\ LogsOf(g) = [LogsOf(h) EXCEPT ![s] = w]
    /\ NestsOf(g) = [NestsOf(h) EXCEPT ![s] = nest]

\* One slot changes, as an EXCEPT says.
LEMMA LogsChange ==
  ASSUME NEW h, NEW g, NEW s \in Slots, NEW w, NEW nest, LogsBecome(h, g, s, w, nest)
  PROVE  Changed(h, g, s, w, nest)
  BY DEF LogsBecome, LogsOf, NestsOf, Changed

\* Every tree is that of its log, and the open timers are nested in it.
LogInv ==
    /\ AllLogged(store)
    /\ StackNested(NestsOf(store), timers)

\* InitDebugDataSystem leaves an empty log in every slot.
LEMMA InitLogInv == Init => LogInv /\ LogsOf(store) = [s \in Slots |-> <<>>] /\ NestsOf(store) = [s \in Slots |-> <<>>]
  <1> SUFFICES ASSUME Init
               PROVE  LogInv /\ LogsOf(store) = [s \in Slots |-> <<>>] /\ NestsOf(store) = [s \in Slots |-> <<>>]
    OBVIOUS
  <1>1. store.live = {} /\ store \in Store /\ IsFiniteSet(store.live) /\ DOMAIN timers = {}
    BY EmptyStoreInv, FS_EmptySet DEF Init, HeapInv, EmptyStore
  <1>2. ASSUME NEW s \in Slots
        PROVE  IsLogOf(store, s, <<>>, <<>>)
    <2>1. store.link[RootCell(s)] = NULL /\ store.write[s] = RootCell(s) /\ store.next[s] = NULL
      BY CellFacts DEF Init, EmptyStore
    <2> QED BY <1>1, <2>1, EmptyLog
  <1>3. \A s \in Slots : Walk(store, s) = <<>> /\ Chain(store, s) = <<>>
    BY <1>1, <1>2, LogIsFound
  <1>4. AllLogged(store)
    BY <1>1, <1>2, <1>3 DEF AllLogged
  <1>5. StackNested(NestsOf(store), timers)
    BY <1>1 DEF StackNested
  <1> QED BY <1>3, <1>4, <1>5 DEF LogInv, LogsOf, NestsOf

\* A step of the thread, as the readers of its trees see it.
Called(h, g, s, x) ==
    /\ LogsOf(g) = [LogsOf(h) EXCEPT ![s] = Append(LogsOf(h)[s], [scope |-> x, depth |-> Len(NestsOf(h)[s])])]
    /\ NestsOf(g) = [NestsOf(h) EXCEPT ![s] = Append(NestsOf(h)[s], x)]
Returned(h, g, s, p) ==
    /\ LogsOf(g) = LogsOf(h)
    /\ NestsOf(g) = [NestsOf(h) EXCEPT ![s] = SubSeq(NestsOf(h)[s], 1, p - 1)]
Emptied(h, g, s) ==
    /\ LogsOf(g) = [LogsOf(h) EXCEPT ![s] = <<>>]
    /\ NestsOf(g) = [NestsOf(h) EXCEPT ![s] = <<>>]

\* The constructor of a timer logs a call.
LEMMA PushCalls ==
  ASSUME NEW h, HeapInv(h), AllLogged(h), NEW s \in Slots, NEW x \in Scopes \ h.live,
         NEW now \in 0 .. MaxCycle, NEW g, g = Push(h, s, x, now),
         NEW stack \in Seq(Timer), \A i \in DOMAIN stack : TimerValid(h, stack[i]),
         StackNested(NestsOf(h), stack)
  PROVE  /\ AllLogged(g) /\ Called(h, g, s, x)
         /\ StackNested(NestsOf(g), Append(stack, [scope |-> x, tree |-> s]))
  <1>1. LogsBecome(h, g, s, Append(Walk(h, s), [scope |-> x, depth |-> Len(Chain(h, s))]), Append(Chain(h, s), x))
    BY PushAll
  <1>2. AllLogged(g)
    BY <1>1 DEF LogsBecome
  <1>3. /\ Changed(h, g, s, Append(Walk(h, s), [scope |-> x, depth |-> Len(Chain(h, s))]), Append(Chain(h, s), x))
        /\ NestsOf(g)[s] = Append(Chain(h, s), x)
        /\ \A t \in Slots \ {s} : NestsOf(g)[t] = NestsOf(h)[t]
    <2>1. Changed(h, g, s, Append(Walk(h, s), [scope |-> x, depth |-> Len(Chain(h, s))]), Append(Chain(h, s), x))
      BY <1>1, LogsChange
    <2>2. NestsOf(g)[s] = Append(Chain(h, s), x) /\ \A t \in Slots \ {s} : NestsOf(g)[t] = NestsOf(h)[t]
      <3>1. DOMAIN NestsOf(h) = Slots
        BY DEF NestsOf
      <3> QED BY <2>1, <3>1 DEF Changed
    <2> QED BY <2>1, <2>2
  <1>4. LogsOf(h)[s] = Walk(h, s) /\ NestsOf(h)[s] = Chain(h, s)
    BY DEF LogsOf, NestsOf
  <1>5. Called(h, g, s, x)
    BY <1>3, <1>4 DEF Called, Changed
  <1>6. x \notin h.live /\ x # NULL /\ x \in Scopes
    BY NullAssumption
  <1>7. \A i \in DOMAIN stack : stack[i].scope # x
    BY <1>6 DEF TimerValid
  <1>8. Chain(h, s) \in Seq(Scopes) /\ \A p \in 1 .. Len(Chain(h, s)) : Chain(h, s)[p] # x
    BY <1>6, LoggedIsLive
  <1>9. StackNested(NestsOf(g), Append(stack, [scope |-> x, tree |-> s]))
    <2> DEFINE nests == NestsOf(h)
               deeper == NestsOf(g)
    <2>1. /\ nests[s] \in Seq(Scopes) /\ \A p \in 1 .. Len(nests[s]) : nests[s][p] # x
          /\ deeper[s] = Append(nests[s], x) /\ \A t \in Slots \ {s} : deeper[t] = nests[t]
          /\ StackNested(nests, stack)
      BY <1>3, <1>4, <1>8
    <2> HIDE DEF nests, deeper
    <2>2. StackNested(deeper, Append(stack, [scope |-> x, tree |-> s]))
      BY <1>6, <1>7, <2>1, PushNested
    <2> QED BY <2>2 DEF deeper
  <1> QED BY <1>2, <1>5, <1>9

\* A new frame empties a log.
LEMMA RecycleEmpties ==
  ASSUME NEW h, HeapInv(h), AllLogged(h), NEW s \in Slots, NEW g, g = Recycle(h, s)
  PROVE  /\ AllLogged(g) /\ Emptied(h, g, s)
         /\ NestsOf(g)[s] = <<>> /\ \A t \in Slots \ {s} : NestsOf(g)[t] = NestsOf(h)[t]
  <1>1. LogsBecome(h, g, s, <<>>, <<>>)
    BY RecycleAll
  <1>2. AllLogged(g)
    BY <1>1 DEF LogsBecome
  <1>3. /\ Changed(h, g, s, <<>>, <<>>)
        /\ NestsOf(g)[s] = <<>> /\ \A t \in Slots \ {s} : NestsOf(g)[t] = NestsOf(h)[t]
    <2>1. Changed(h, g, s, <<>>, <<>>)
      BY <1>1, LogsChange
    <2>2. NestsOf(g)[s] = <<>> /\ \A t \in Slots \ {s} : NestsOf(g)[t] = NestsOf(h)[t]
      <3>1. DOMAIN NestsOf(h) = Slots
        BY DEF NestsOf
      <3> QED BY <2>1, <3>1 DEF Changed
    <2> QED BY <2>1, <2>2
  <1> QED BY <1>2, <1>3 DEF Emptied, Changed

\* The destructor of a timer returns from its call.
LEMMA PopReturns ==
  ASSUME NEW h, HeapInv(h), AllLogged(h), NEW timer \in Timer, timer.scope # NULL, TimerValid(h, timer),
         NEW now \in 0 .. MaxCycle, NEW g, g = Pop(h, timer, now),
         NEW p \in 1 .. Len(NestsOf(h)[timer.tree]), NestsOf(h)[timer.tree][p] = timer.scope
  PROVE  AllLogged(g) /\ Returned(h, g, timer.tree, p)
  <1> DEFINE s == timer.tree
  <1>1. s \in Slots
    BY DEF Timer
  <1>2. NestsOf(h)[s] = Chain(h, s) /\ LogsOf(h)[s] = Walk(h, s)
    BY <1>1 DEF NestsOf, LogsOf
  <1>3. LogsBecome(h, g, s, Walk(h, s), SubSeq(Chain(h, s), 1, p - 1))
    BY <1>2, PopAll
  <1>4. AllLogged(g)
    BY <1>3 DEF LogsBecome
  <1> HIDE DEF s
  <1>5. Changed(h, g, s, Walk(h, s), SubSeq(Chain(h, s), 1, p - 1))
    BY <1>1, <1>3, LogsChange
  <1>6. LogsOf(g) = LogsOf(h)
    BY <1>2, <1>5 DEF LogsOf, Changed
  <1>7. Returned(h, g, s, p)
    BY <1>2, <1>5, <1>6 DEF Returned, Changed
  <1> QED BY <1>4, <1>7 DEF s

(***************************************************************************)
(* The refinement.                                                         *)
(***************************************************************************)

\* What the readers see of one step of the thread.
LogStep ==
    \/ \E x \in Scopes \ store.live : Called(store, store', writeSlot, x) /\ writeSlot' = writeSlot
    \/ /\ \E s \in Slots : \E p \in 1 .. Len(NestsOf(store)[s]) : Returned(store, store', s, p)
       /\ writeSlot' = writeSlot
    \/ \E s \in Slots : Emptied(store, store', s) /\ writeSlot' = s
    \/ \E s \in Slots \ {writeSlot}, x \in Scopes \ store.live :
        /\ LogsOf(store') =
             [[LogsOf(store) EXCEPT ![writeSlot] =
                 Append(LogsOf(store)[writeSlot], [scope |-> x, depth |-> Len(NestsOf(store)[writeSlot])])]
              EXCEPT ![s] = <<>>]
        /\ NestsOf(store') = [NestsOf(store) EXCEPT ![s] = <<>>]
        /\ writeSlot' = s
    \/ store' = store /\ writeSlot' = writeSlot

\* The innermost timer is the last: the others were opened before it.
LEMMA RestIsBefore ==
  ASSUME NEW q \in Seq(Timer), q # <<>>
  PROVE  \A i \in DOMAIN SubSeq(q, 1, Len(q) - 1) :
            i \in DOMAIN q /\ i < Len(q) /\ SubSeq(q, 1, Len(q) - 1)[i] = q[i]
  <1>1. \A i \in DOMAIN SubSeq(q, 1, Len(q) - 1) :
          i \in DOMAIN q /\ i # Len(q) /\ SubSeq(q, 1, Len(q) - 1)[i] = q[i]
    BY WithoutInnermostFacts
  <1>2. \A i \in DOMAIN q : i \in 1 .. Len(q)
    OBVIOUS
  <1>3. Len(q) \in Nat
    OBVIOUS
  <1>4. \A i \in 1 .. Len(q) : i # Len(q) => i < Len(q)
    BY <1>3
  <1> QED BY <1>1, <1>2, <1>4

\* Each step of the thread keeps the trees those of their logs, and is a step of the log.
LEMMA StepLogs == IInv /\ LogInv /\ [Next]_vars => LogInv' /\ LogStep
  <1> SUFFICES ASSUME IInv, LogInv, [Next]_vars PROVE LogInv' /\ LogStep
    OBVIOUS
  <1>1. /\ writeSlot \in Slots /\ timers \in Seq(Timer) /\ clock \in 1 .. MaxCycle
        /\ HeapInv(store)
        /\ \A i \in DOMAIN timers : timers[i] \in Timer /\ timers[i].tree \in Slots /\ TimerValid(store, timers[i])
        /\ AllLogged(store) /\ StackNested(NestsOf(store), timers)
    <2>1. writeSlot \in Slots /\ timers \in Seq(Timer) /\ clock \in 1 .. MaxCycle
      BY DEF IInv, TypeOK
    <2>2. \A i \in DOMAIN timers : timers[i] \in Timer
      BY <2>1
    <2>3. \A i \in DOMAIN timers : timers[i].tree \in Slots
      BY <2>2 DEF Timer
    <2>4. HeapInv(store) /\ \A i \in DOMAIN timers : TimerValid(store, timers[i])
      BY DEF IInv
    <2> QED BY <2>1, <2>2, <2>3, <2>4 DEF LogInv
  <1>2. \A now \in Ticks : now \in 0 .. MaxCycle
    BY <1>1, BoundsAssumption DEF Ticks
  <1>3. \A s \in Slots : NestsOf(store)[s] \in Seq(Scopes)
    BY <1>1, LoggedIsLive DEF NestsOf
  <1>4. CASE OpenTimer
    <2>1. PICK x \in Scopes \ store.live, now \in Ticks :
            /\ store' = Push(store, writeSlot, x, now)
            /\ timers' = Append(timers, [scope |-> x, tree |-> writeSlot])
      BY <1>4 DEF OpenTimer
    <2>2. /\ AllLogged(store') /\ Called(store, store', writeSlot, x)
          /\ StackNested(NestsOf(store'), Append(timers, [scope |-> x, tree |-> writeSlot]))
      BY <1>1, <1>2, <2>1, PushCalls
    <2>3. writeSlot' = writeSlot
      BY <1>4 DEF OpenTimer
    <2> QED BY <2>1, <2>2, <2>3 DEF LogInv, LogStep
  <1>5. CASE CloseTimer
    <2> DEFINE last == Len(timers)
    <2>1. PICK now \in Ticks : store' = Pop(store, timers[last], now)
      BY <1>5 DEF CloseTimer, Innermost
    <2>2. /\ last \in DOMAIN timers /\ timers[last].scope # NULL
          /\ timers[last] \in Timer /\ timers[last].tree \in Slots /\ TimerValid(store, timers[last])
      <3>1. timers # <<>> /\ timers[last].scope # NULL
        BY <1>5 DEF CloseTimer, Innermost
      <3>2. last \in DOMAIN timers
        BY <1>1, <3>1, WithoutInnermostFacts
      <3> QED BY <1>1, <3>1, <3>2
    <2>3. \A i \in DOMAIN timers' : i \in DOMAIN timers /\ i < last /\ timers'[i] = timers[i]
      <3>1. timers # <<>> /\ timers' = SubSeq(timers, 1, Len(timers) - 1)
        BY <1>5 DEF CloseTimer, WithoutInnermost
      <3> QED BY <1>1, <3>1, RestIsBefore
    <2> DEFINE s == timers[last].tree
    <2>4. PICK p \in Nat : InNest(NestsOf(store), timers[last], p)
      BY <1>1, <2>2 DEF StackNested
    <2>5. p \in 1 .. Len(NestsOf(store)[s]) /\ NestsOf(store)[s][p] = timers[last].scope
      BY <2>4 DEF InNest
    <2> HIDE DEF last
    <2>6. AllLogged(store') /\ Returned(store, store', s, p)
      BY <1>1, <1>2, <2>1, <2>2, <2>5, PopReturns
    <2>7. /\ NestsOf(store')[s] = SubSeq(NestsOf(store)[s], 1, p - 1)
          /\ \A t \in Slots \ {s} : NestsOf(store')[t] = NestsOf(store)[t]
      <3>1. NestsOf(store') = [NestsOf(store) EXCEPT ![s] = SubSeq(NestsOf(store)[s], 1, p - 1)]
        BY <2>6 DEF Returned
      <3>2. DOMAIN NestsOf(store) = Slots /\ s \in Slots
        BY <2>2 DEF NestsOf
      <3> QED BY <3>1, <3>2
    <2>8. StackNested(NestsOf(store'), timers')
      <3> DEFINE nests == NestsOf(store)
                 left == NestsOf(store')
                 rest == timers'
      <3>1. /\ StackNested(nests, timers) /\ InNest(nests, timers[last], p) /\ last \in DOMAIN timers
            /\ \A i \in DOMAIN rest : i \in DOMAIN timers /\ i < last /\ rest[i] = timers[i]
            /\ \A i \in DOMAIN rest : rest[i].tree \in Slots
            /\ nests[timers[last].tree] \in Seq(Scopes)
            /\ left[timers[last].tree] = SubSeq(nests[timers[last].tree], 1, p - 1)
            /\ \A t \in Slots \ {timers[last].tree} : left[t] = nests[t]
        BY <1>1, <1>3, <2>2, <2>3, <2>4, <2>7
      <3> HIDE DEF nests, left, rest
      <3>2. StackNested(left, rest)
        BY <2>4, <3>1, PopNested
      <3> QED BY <3>2 DEF left, rest
    <2>9. writeSlot' = writeSlot
      BY <1>5 DEF CloseTimer
    <2>10. s \in Slots
      BY <2>2
    <2> HIDE DEF s
    <2> QED BY <2>5, <2>6, <2>8, <2>9, <2>10 DEF LogInv, LogStep
  <1>6. CASE MainThreadAdvance
    <2>1. PICK x \in Scopes \ store.live, opened \in Ticks, closed \in Ticks :
            store' = Pop(Recycle(Push(store, writeSlot, x, opened), NextSlot),
                         [scope |-> x, tree |-> writeSlot], closed)
      BY <1>6 DEF MainThreadAdvance
    <2> DEFINE own == [scope |-> x, tree |-> writeSlot]
               pushed == Push(store, writeSlot, x, opened)
               recycled == Recycle(pushed, NextSlot)
               nest == NestsOf(store)[writeSlot]
               log == LogsOf(store)[writeSlot]
               new == [scope |-> x, depth |-> Len(nest)]
    <2>2. /\ own \in Timer /\ own.scope = x /\ own.tree = writeSlot /\ own.scope # NULL /\ x \in Scopes
          /\ NextSlot \in Slots /\ NextSlot # writeSlot
      BY <1>1, NextSlotFacts, NullAssumption DEF Timer, ScopeOrNull
    <2>3. /\ HeapInv(pushed) /\ TimerValid(pushed, own)
      BY <1>1, <1>2, PushKeepsHeap, PushKeepsTimers
    <2>4. HeapInv(recycled) /\ TimerValid(recycled, own)
      BY <2>2, <2>3, RecycleKeepsHeap, RecycleKeepsTimers
    <2>5. AllLogged(pushed) /\ Called(store, pushed, writeSlot, x)
      BY <1>1, <1>2, PushCalls
    <2>6. AllLogged(recycled) /\ Emptied(pushed, recycled, NextSlot)
      BY <2>2, <2>3, <2>5, RecycleEmpties
    <2>7. nest \in Seq(Scopes) /\ Len(nest) \in Nat
      BY <1>1, <1>3
    <2>8. NestsOf(recycled)[writeSlot] = Append(nest, x)
      <3>1. NestsOf(pushed)[writeSlot] = Append(nest, x)
        <4>1. DOMAIN NestsOf(store) = Slots
          BY DEF NestsOf
        <4> QED BY <1>1, <2>5, <4>1 DEF Called
      <3>2. DOMAIN NestsOf(pushed) = Slots
        BY DEF NestsOf
      <3> HIDE DEF pushed, recycled, nest
      <3> QED BY <1>1, <2>2, <2>6, <3>1, <3>2 DEF Emptied
    <2> DEFINE p == Len(nest) + 1
    <2>9. p \in 1 .. Len(NestsOf(recycled)[own.tree]) /\ NestsOf(recycled)[own.tree][p] = own.scope
      <3>1. Append(nest, x)[p] = x /\ Len(Append(nest, x)) = p
        BY <2>2, <2>7, AppendProperties
      <3>2. p \in 1 .. p
        BY <2>7
      <3> HIDE DEF p, recycled, own
      <3> QED BY <2>2, <2>8, <3>1, <3>2
    <2>10. AllLogged(store') /\ Returned(recycled, store', own.tree, p)
      <3>1. store' = Pop(recycled, own, closed)
        BY <2>1
      <3> HIDE DEF p, recycled, own
      <3> QED BY <1>2, <2>2, <2>4, <2>6, <2>9, <3>1, PopReturns
    <2>11. SubSeq(Append(nest, x), 1, p - 1) = nest
      <3>1. Append(nest, x) \in Seq(Scopes) /\ Len(Append(nest, x)) = p /\ \A k \in 1 .. Len(nest) : Append(nest, x)[k] = nest[k]
        BY <2>2, <2>7, AppendProperties
      <3>2. p - 1 = Len(nest) /\ p - 1 \in 0 .. p
        BY <2>7
      <3> DEFINE more == Append(nest, x)
                 back == SubSeq(more, 1, p - 1)
      <3>3. back \in Seq(Scopes) /\ Len(back) = Len(nest) /\ \A k \in 1 .. Len(nest) : back[k] = nest[k]
        <4> HIDE DEF more, p, nest
        <4> QED BY <3>1, <3>2, <2>7 DEF more
      <3> HIDE DEF back, nest
      <3>4. back = nest
        BY <3>3, <2>7, SeqEqual
      <3> QED BY <3>4 DEF back
    <2>12. NestsOf(store') = [NestsOf(store) EXCEPT ![NextSlot] = <<>>]
      <3> DEFINE f == NestsOf(store)
      <3>1. NestsOf(pushed) = [f EXCEPT ![writeSlot] = Append(nest, x)]
        BY <2>5 DEF Called
      <3>2. NestsOf(recycled) = [NestsOf(pushed) EXCEPT ![NextSlot] = <<>>]
        BY <2>6 DEF Emptied
      <3>3. NestsOf(store') = [NestsOf(recycled) EXCEPT ![writeSlot] = nest]
        BY <2>2, <2>8, <2>10, <2>11 DEF Returned
      <3>4. f = [t \in Slots |-> f[t]] /\ f[writeSlot] = nest
        BY DEF NestsOf
      <3> HIDE DEF f, nest, pushed, recycled
      <3> QED BY <1>1, <2>2, <3>1, <3>2, <3>3, <3>4
    <2>13. LogsOf(store') = [[LogsOf(store) EXCEPT ![writeSlot] = Append(log, new)] EXCEPT ![NextSlot] = <<>>]
      <3>1. LogsOf(pushed) = [LogsOf(store) EXCEPT ![writeSlot] = Append(log, new)]
        BY <2>5 DEF Called
      <3>2. LogsOf(recycled) = [LogsOf(pushed) EXCEPT ![NextSlot] = <<>>]
        BY <2>6 DEF Emptied
      <3>3. LogsOf(store') = LogsOf(recycled)
        BY <2>10 DEF Returned
      <3> QED BY <3>1, <3>2, <3>3
    <2>14. timers' = timers /\ writeSlot' = NextSlot
           /\ \A i \in DOMAIN timers : timers[i].tree # NextSlot \/ timers[i].scope = NULL
      BY <1>6 DEF MainThreadAdvance, Quiet
    <2>15. StackNested(NestsOf(store'), timers')
      <3>1. \A t \in Slots \ {NextSlot} : NestsOf(store')[t] = NestsOf(store)[t]
        <4>1. DOMAIN NestsOf(store) = Slots
          BY DEF NestsOf
        <4> QED BY <2>12, <4>1
      <3> DEFINE left == NestsOf(store')
      <3>2. \A t \in Slots \ {NextSlot} : left[t] = NestsOf(store)[t]
        BY <3>1
      <3> HIDE DEF left
      <3>3. StackNested(left, timers)
        <4>1. \A i \in DOMAIN timers : timers[i].tree \in Slots /\ (timers[i].tree # NextSlot \/ timers[i].scope = NULL)
          BY <1>1, <2>14
        <4> QED BY <1>1, <3>2, <4>1, RecycleNested
      <3> QED BY <2>14, <3>3 DEF left
    <2>16. LogStep
      <3>1. NextSlot \in Slots \ {writeSlot}
        BY <2>2
      <3> QED BY <2>12, <2>13, <2>14, <3>1 DEF LogStep
    <2> QED BY <2>10, <2>15, <2>16 DEF LogInv
  <1>7. CASE WorkerThreadAdvance
    <2>1. PICK s \in Slots : Quiet(s) /\ store' = Recycle(store, s) /\ writeSlot' = s
      BY <1>7 DEF WorkerThreadAdvance
    <2>2. /\ AllLogged(store') /\ Emptied(store, store', s)
          /\ \A t \in Slots \ {s} : NestsOf(store')[t] = NestsOf(store)[t]
      BY <1>1, <2>1, RecycleEmpties
    <2>3. timers' = timers
      BY <1>7 DEF WorkerThreadAdvance
    <2>4. StackNested(NestsOf(store'), timers)
      <3> DEFINE left == NestsOf(store')
      <3>1. \A t \in Slots \ {s} : left[t] = NestsOf(store)[t]
        BY <2>2
      <3>2. \A i \in DOMAIN timers : timers[i].tree \in Slots /\ (timers[i].tree # s \/ timers[i].scope = NULL)
        BY <1>1, <2>1 DEF Quiet
      <3> HIDE DEF left
      <3>3. StackNested(left, timers)
        BY <1>1, <3>1, <3>2, RecycleNested
      <3> QED BY <3>3 DEF left
    <2>5. LogStep
      BY <2>1, <2>2 DEF LogStep
    <2> QED BY <2>2, <2>3, <2>4, <2>5 DEF LogInv
  <1>8. CASE OpenTimerUnprofiled
    <2> DEFINE new == [scope |-> NULL, tree |-> writeSlot]
    <2>1. new \in Timer /\ new.scope = NULL /\ timers' = Append(timers, new) /\ store' = store /\ writeSlot' = writeSlot
      BY <1>1, <1>8 DEF OpenTimerUnprofiled, Timer, ScopeOrNull
    <2> HIDE DEF new
    <2>2. StackNested(NestsOf(store), timers')
      BY <1>1, <2>1, UnrecordedNested
    <2>3. LogStep
      BY <2>1 DEF LogStep
    <2> QED BY <1>1, <2>1, <2>2, <2>3 DEF LogInv
  <1>9. CASE CloseTimerUnprofiled
    <2>1. /\ store' = store /\ writeSlot' = writeSlot
          /\ \A i \in DOMAIN timers' : i \in DOMAIN timers /\ timers'[i] = timers[i]
      BY <1>1, <1>9, WithoutInnermostFacts DEF CloseTimerUnprofiled, WithoutInnermost
    <2>2. StackNested(NestsOf(store), timers')
      BY <1>1, <2>1, RestNested
    <2>3. LogStep
      BY <2>1 DEF LogStep
    <2> QED BY <1>1, <2>1, <2>2, <2>3 DEF LogInv
  <1>10. CASE ToggleProfiling \/ UNCHANGED vars
    <2>1. store' = store /\ writeSlot' = writeSlot /\ timers' = timers
      BY <1>10 DEF ToggleProfiling, vars
    <2> QED BY <1>1, <2>1 DEF LogInv, LogStep
  <1> QED BY <1>4, <1>5, <1>6, <1>7, <1>8, <1>9, <1>10 DEF Next

\* The trees are always those of their logs, and the open timers nested in them.
THEOREM LogsInvariant == Spec => []LogInv
  <1>1. Init => LogInv
    BY InitLogInv
  <1>2. IInv /\ LogInv /\ [Next]_vars => LogInv'
    BY StepLogs
  <1> QED BY <1>1, <1>2, Invariance, PTL DEF Spec

\* The scope trees of a thread implement its call log.
THEOREM TreesImplementLog == Spec => ImplementsCallLog
  <1>1. Init => Log!LogInit
    BY InitLogInv DEF Log!LogInit, LogsOf, NestsOf, Init
  <1>2. IInv /\ LogInv /\ [Next]_vars
          => [Log!LogNext]_<<[s \in Slots |-> Walk(store, s)], [s \in Slots |-> Chain(store, s)], writeSlot>>
    <2> SUFFICES ASSUME IInv, LogInv, [Next]_vars
                 PROVE  [Log!LogNext]_<<[s \in Slots |-> Walk(store, s)], [s \in Slots |-> Chain(store, s)], writeSlot>>
      OBVIOUS
    <2>1. LogStep
      BY StepLogs
    <2>2. Scopes \ store.live \subseteq Log!Unused
      <3>1. ASSUME NEW s \in Slots
            PROVE  Log!Logged(s) \subseteq store.live
        <4>1. \A i \in DOMAIN Walk(store, s) : Walk(store, s)[i].scope \in store.live
          BY LoggedIsLive DEF LogInv
        <4> QED BY <4>1 DEF Log!Logged
      <3> QED BY <3>1 DEF Log!Unused
    <2>3. CASE \E x \in Scopes \ store.live : Called(store, store', writeSlot, x) /\ writeSlot' = writeSlot
      <3>1. Log!Call
        BY <2>2, <2>3 DEF Log!Call, Log!Entry, Called, LogsOf, NestsOf
      <3> QED BY <3>1 DEF Log!LogNext
    <2>4. CASE /\ \E s \in Slots : \E p \in 1 .. Len(NestsOf(store)[s]) : Returned(store, store', s, p)
               /\ writeSlot' = writeSlot
      <3>1. Log!Return
        <4>1. PICK s \in Slots : \E p \in 1 .. Len(NestsOf(store)[s]) : Returned(store, store', s, p)
          BY <2>4
        <4>2. PICK p \in 1 .. Len(NestsOf(store)[s]) : Returned(store, store', s, p)
          BY <4>1
        <4>3. NestsOf(store)[s] \in Seq(Scopes)
          BY LoggedIsLive DEF LogInv, NestsOf
        <4>4. p \in DOMAIN NestsOf(store)[s]
          BY <4>2, <4>3
        <4> QED BY <2>4, <4>2, <4>4 DEF Log!Return, Returned, LogsOf, NestsOf
      <3> QED BY <3>1 DEF Log!LogNext
    <2>5. CASE \E s \in Slots : Emptied(store, store', s) /\ writeSlot' = s
      <3>1. Log!Frame
        BY <2>5 DEF Log!Frame, Log!NewFrame, Emptied, LogsOf, NestsOf
      <3> QED BY <3>1 DEF Log!LogNext
    <2>6. CASE \E s \in Slots \ {writeSlot}, x \in Scopes \ store.live :
                /\ LogsOf(store') =
                     [[LogsOf(store) EXCEPT ![writeSlot] =
                         Append(LogsOf(store)[writeSlot], [scope |-> x, depth |-> Len(NestsOf(store)[writeSlot])])]
                      EXCEPT ![s] = <<>>]
                /\ NestsOf(store') = [NestsOf(store) EXCEPT ![s] = <<>>]
                /\ writeSlot' = s
      <3>1. Log!TimedFrame
        BY <2>2, <2>6 DEF Log!TimedFrame, Log!NewFrame, Log!Entry, LogsOf, NestsOf
      <3> QED BY <3>1 DEF Log!LogNext
    <2>7. CASE store' = store /\ writeSlot' = writeSlot
      BY <2>7
    <2> QED BY <2>1, <2>3, <2>4, <2>5, <2>6, <2>7 DEF LogStep
  <1> QED BY <1>1, <1>2, LogsInvariant, Invariance, PTL DEF Spec, ImplementsCallLog, Log!LogSpec, Log!logVars

=============================================================================
