---------------------------- MODULE ScopeTreeWalk ----------------------------
(***************************************************************************)
(* The scope trees implement the call log: a reader that walks a tree the  *)
(* way the callgraph does, a scope, then its children, then its siblings,  *)
(* sees exactly the calls of that frame in call order, and the Parent      *)
(* chain of the cursor is the nesting of the next call.                    *)
(***************************************************************************)
EXTENDS ScopeTree, FiniteSets, TLC

\* The recursive descent of the readers, with every scope expanded, from any
\* scope at any depth.  A path of calls is no longer than there are live scopes.
Descent(h) ==
    LET walk[n \in 0 .. Cardinality(h.live)] ==
            [x \in ScopeOrNull |-> [depth \in Nat |->
                IF n = 0 \/ x = NULL THEN <<>>
                ELSE <<[scope |-> x, depth |-> depth]>>
                       \o walk[n - 1][h.link[ChildCell(x)]][depth + 1]
                       \o walk[n - 1][h.link[SiblingCell(x)]][depth]]]
    IN walk

Walk(h, s) == Descent(h)[Cardinality(h.live)][h.link[RootCell(s)]][0]

\* A scope and the scopes it is nested in, outermost first.
Ascent(h) ==
    LET chain[n \in 0 .. Cardinality(h.live)] ==
            [x \in ScopeOrNull |->
                IF n = 0 \/ x = NULL THEN <<>> ELSE Append(chain[n - 1][h.parent[x]], x)]
    IN chain

Chain(h, s) == Ascent(h)[Cardinality(h.live)][h.next[s]]

Log == INSTANCE CallLog WITH
    FirstSlot <- 1,
    calls <- [s \in Slots |-> Walk(store, s)],
    nesting <- [s \in Slots |-> Chain(store, s)],
    current <- writeSlot

\* Every behaviour of the trees, with timers abandoned by toggles of profiling
\* and frames recycled, is a behaviour of the call log: a walk of a tree shows
\* the calls of its frame in order and at the right depth.
ImplementsCallLog == Log!LogSpec

ScopeSymmetry == Permutations(Scopes)
=============================================================================
