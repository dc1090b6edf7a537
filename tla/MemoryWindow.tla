----------------------------- MODULE MemoryWindow -----------------------------
(***************************************************************************)
(* The memory window, drawn by the main thread once a frame: it registers  *)
(* the arenas it only knows from allocation records, lists the registered  *)
(* arenas, and for those the user has expanded collates the records of the *)
(* selected blocks, sorts and shows them.                                  *)
(*                                                                         *)
(* All the while threads allocate arenas, register some of them, push on   *)
(* them, which writes records to the MetaTable of the thread that pushes,  *)
(* and free them, which tombstones them and clears their records in all    *)
(* tables.  MetaTable and ArenaRegistry tell how those calls race with each*)
(* other; here each is a step, and the window's loops over the tables and  *)
(* the registry are not.                                                   *)
(*                                                                         *)
(* What the window gathers from the tables of all threads goes to one      *)
(* scratch table, which is no larger than any of them: what finds no room  *)
(* in it is left out.                                                      *)
(*                                                                         *)
(* HashArenaBlock is the address of the arena itself and HashArena that of *)
(* the block it allocates from now, whatever the names say.                *)
(***************************************************************************)
EXTENDS RecordSort, SequencesExt

CONSTANTS
    Arenas,         \* addresses of arenas
    Starts,         \* addresses of their blocks
    Names,          \* of allocations
    Shapes,         \* of allocations: <<StructSize, StructCount>>
    ThreadCount,    \* GetTotalThreadCount()
    NoName, Null,
    FreeingBegins,  \* what freeing an arena may begin with: "unlisted", "cleared"
    Home,           \* name -> Hash(Name) % META_TABLE_SIZE
    TableSize,      \* META_TABLE_SIZE
    RegistrySize,   \* REGISTERED_MEMORY_ARENA_COUNT
    MaxBlocks,      \* bound: the blocks of one arena
    MaxSelected,    \* bound: the blocks the user selects; MAX_SELECTED_ARENAS
    MaxPushes,      \* bound: the pushes of all records together
    MaxUntracked,   \* bound: those of the records without an arena
    MaxMoves        \* bound: the steps of other threads while one frame is drawn

Untracked == "BONSAI_NO_ARENA"
Site == "site"      \* what ArenaMemoryBlock then points to: a string

ASSUME WindowAssumption ==
    /\ NoName \notin Names /\ Null \notin Arenas \cup {Site} /\ Untracked \notin Starts /\ Site \notin Arenas
    /\ FreeingBegins \subseteq {"unlisted", "cleared"}
    /\ Shapes \subseteq Nat \X Nat /\ ThreadCount \in Nat \ {0}
    /\ TableSize \in Nat \ {0} /\ RegistrySize \in Nat /\ MaxSelected \in Nat /\ MaxBlocks \in Nat \ {0}
    /\ Home \in [Names -> 0 .. TableSize - 1]

VARIABLES
    phase,      \* what the owner of each arena has done: "free", "fresh", "used", or of
                \* freeing it "unlisted" or "cleared"
    starts,     \* arena -> its blocks, the current one first, then along Prev
    meta,       \* thread -> its MetaTable
    registry,   \* RegisteredMemoryArenas, as far as claimed
    selection,  \* SelectedArenas: the ArenaAddress of each
    window,     \* the main thread: [at, thread, slot, pick, entry, arena], where arena
                \* is what DebugRegisterArena is called with; history: sought, the arena
                \* whose owner was looked for
    table,      \* CollatedMetaTable, or UnknownRecordTable before that
    steady,     \* history: no MetaTable has changed since the collation began
    moves       \* history: the steps of other threads since the frame began

ownerVars == <<phase, starts, moves>>
tableVars == <<table, steady>>
vars == <<ownerVars, meta, registry, selection, window, tableVars, sortVars>>

Slots == 0 .. TableSize - 1
Threads == 0 .. ThreadCount - 1
NoRecord == [name |-> NoName, arena |-> Null, start |-> Null, shape |-> <<0, 0>>, thread |-> 0, pushes |-> 0]
EmptyTable == [i \in Slots |-> NoRecord]

Named(r) == r.name # NoName

Init ==
    /\ phase = [a \in Arenas |-> "free"]
    /\ starts = [a \in Arenas |-> << >>]
    /\ meta = [t \in Threads |-> EmptyTable]
    /\ registry = << >>
    /\ selection = << >>
    /\ window = [at |-> "scan", thread |-> 0, slot |-> 0, pick |-> 1, entry |-> 0, arena |-> Null, sought |-> Null]
    /\ table = EmptyTable
    /\ steady = FALSE /\ moves = 0
    /\ SortBegins(<< >>)

(***************************************************************************)
(* WriteToMetaTable and its comparators.                                   *)
(***************************************************************************)

PushesMatchExactly(r, q) ==
    <<r.start, r.arena, r.shape, r.thread, r.name>> = <<q.start, q.arena, q.shape, q.thread, q.name>>

\* Mutant of PushesShareHeadArena: the allocations of all threads are taken together.
PushesShareArenaOnly(r, q) ==
    <<r.arena, r.shape, r.name>> = <<q.arena, q.shape, q.name>>

PushesShareHeadArena(r, q) ==
    <<r.arena, r.shape, r.thread, r.name>> = <<q.arena, q.shape, q.thread, q.name>>

SlotsMatching(t, q) == {i \in Slots : PushesMatchExactly(t[i], q)}
SlotsSharing(t, q) == {i \in Slots : PushesShareHeadArena(t[i], q)}

\* Probing from the name's place for a record that matches or an empty one; a
\* table that is full of others stays as it is, and so does it for a query that
\* has been zeroed.  Matching are the slots that the comparator accepts.
WriteToMetaTable(q, t, matching) ==
    LET probe(n) == (Home[q.name] + n) % TableSize
        ends == {n \in Slots : ~Named(t[probe(n)]) \/ probe(n) \in matching}
        slot == probe(CHOOSE n \in ends : \A m \in ends : n <= m)
    IN IF ~Named(q) \/ ends = {} THEN t
       ELSE IF Named(t[slot]) THEN [t EXCEPT ![slot].pushes = @ + q.pushes]
       ELSE [t EXCEPT ![slot] = q]

(***************************************************************************)
(* The threads that allocate.                                              *)
(***************************************************************************)

SetMeta(tables) ==
    /\ meta' = tables
    /\ steady' = FALSE

TablePlaces == Threads \X Slots
RecordAt(p) == meta[p[1]][p[2]]

\* Before the first record of the frame has been looked at.
FrameBegins == window.at = "scan" /\ window.thread = 0 /\ window.slot = 0

OwnerOnly ==
    /\ moves' = IF FrameBegins THEN 0 ELSE moves + 1
    /\ UNCHANGED <<selection, window, table, sortVars>>

FreeStarts == Starts \ UNION {Range(starts[a]) : a \in Arenas}

AllocateArena(a, s) ==
    /\ phase[a] = "free"
    /\ s \in FreeStarts
    /\ phase' = [phase EXCEPT ![a] = "fresh"]
    /\ starts' = [starts EXCEPT ![a] = <<s>>]
    /\ UNCHANGED <<meta, registry, steady>> /\ OwnerOnly

\* Mutant of Claimed: the end of the registry is not noticed.
ClaimedUnchecked(a, found) ==
    Append(registry, [arena |-> a, dead |-> FALSE, found |-> found])

\* DebugRegisterArena; SoftError when the registry is full.  History: found, for
\* an arena that the window did not find.
Claimed(a, found) ==
    IF Len(registry) = RegistrySize THEN registry
    ELSE Append(registry, [arena |-> a, dead |-> FALSE, found |-> found])

\* An arena is registered before anything is pushed on it, or never.
Register(a) ==
    /\ phase[a] = "fresh"
    /\ phase' = [phase EXCEPT ![a] = "used"]
    /\ registry' = Claimed(a, FALSE)
    /\ UNCHANGED <<starts, meta, steady>> /\ OwnerOnly

\* PushSize takes another block: what the arena was until now becomes its Prev.
Grow(a, s) ==
    /\ phase[a] = "used"
    /\ s \in FreeStarts
    /\ Len(starts[a]) < MaxBlocks
    /\ starts' = [starts EXCEPT ![a] = <<s>> \o @]
    /\ UNCHANGED <<phase, meta, registry, steady>> /\ OwnerOnly

PushesIn(places) == SumFunctionOnSet([p \in TablePlaces |-> RecordAt(p).pushes], places)

\* Of thread t, to its own table.
WriteMemoryRecord(t, r) ==
    /\ PushesIn(TablePlaces) < MaxPushes
    /\ SetMeta([meta EXCEPT ![t] = WriteToMetaTable(r, meta[t], SlotsMatching(meta[t], r))])

\* DEBUG_Allocate.
Push(t, a, n, s) ==
    /\ phase[a] \in {"fresh", "used"}
    /\ phase' = [phase EXCEPT ![a] = "used"]
    /\ WriteMemoryRecord(t, [name |-> n, arena |-> a, start |-> starts[a][1], shape |-> s, thread |-> t, pushes |-> 1])
    /\ UNCHANGED <<starts, registry>> /\ OwnerOnly

\* An allocation without an arena, recorded by the program itself.
PushUntracked(t, n, s) ==
    /\ PushesIn({p \in TablePlaces : RecordAt(p).start = Untracked}) < MaxUntracked
    /\ WriteMemoryRecord(t, [name |-> n, arena |-> Site, start |-> Untracked, shape |-> s, thread |-> t, pushes |-> 1])
    /\ UNCHANGED <<phase, starts, registry>> /\ OwnerOnly

\* Whoever frees an arena makes both of the next calls; then its address and its
\* blocks may be used again.
Freeing(a, step, other) ==
    /\ \/ phase[a] = other
       \/ phase[a] \in {"fresh", "used"} /\ step \in FreeingBegins
    /\ phase' = [phase EXCEPT ![a] = IF @ = other THEN "free" ELSE step]
    /\ starts' = IF phase[a] = other THEN [starts EXCEPT ![a] = << >>] ELSE starts

UnregisterArena(a) ==
    /\ Freeing(a, "unlisted", "cleared")
    /\ registry' = [i \in DOMAIN registry |->
                      IF registry[i].arena = a THEN [registry[i] EXCEPT !.dead = TRUE] ELSE registry[i]]
    /\ UNCHANGED <<meta, steady>> /\ OwnerOnly

\* The records of the arena, and those of its current block, in all tables.
ClearMemoryRecordsFor(a) ==
    /\ Freeing(a, "cleared", "unlisted")
    /\ SetMeta([t \in Threads |-> [i \in Slots |->
                    IF meta[t][i].arena = a \/ meta[t][i].start = starts[a][1] THEN NoRecord ELSE meta[t][i]]])
    /\ UNCHANGED registry /\ OwnerOnly

OwnerStep ==
    \/ \E a \in Arenas : Register(a) \/ UnregisterArena(a) \/ ClearMemoryRecordsFor(a)
    \/ \E a \in Arenas, s \in Starts : AllocateArena(a, s) \/ Grow(a, s)
    \/ \E t \in Threads, n \in Names, s \in Shapes : PushUntracked(t, n, s) \/ \E a \in Arenas : Push(t, a, n, s)

(***************************************************************************)
(* DebugDrawMemoryHud: records without an owner.                           *)
(***************************************************************************)

\* Mutant of Owned: a tombstone does not count.
OwnedAlive(a) == \E i \in DOMAIN registry : registry[i].arena = a /\ ~registry[i].dead

\* Some slot of the registry, tombstoned or not, is of this arena.
Owned(a) == \E i \in DOMAIN registry : registry[i].arena = a

\* The next slot of a thread's table, or the first one of the next thread's.
NextPlace(w) ==
    IF w.slot < TableSize - 1 THEN [w EXCEPT !.slot = @ + 1] ELSE [w EXCEPT !.thread = @ + 1, !.slot = 0]

NextSlot ==
    LET then == NextPlace([window EXCEPT !.arena = Null, !.sought = Null]) IN
    window' = IF then.thread < ThreadCount THEN [then EXCEPT !.at = "scan"]
              ELSE [then EXCEPT !.at = "list", !.thread = 0]

\* The record the window is at.
Current == meta[window.thread][window.slot]

LookForOwner ==
    /\ window.at = "scan"
    /\ IF Named(Current) /\ ~Owned(Current.arena)
       THEN window' = [window EXCEPT !.at = "orphan", !.sought = Current.arena] ELSE NextSlot
    /\ UNCHANGED <<ownerVars, meta, registry, selection, tableVars, sortVars>>

\* The record is read anew: it may have been cleared, or be another by now.
HandleOrphan ==
    /\ window.at = "orphan"
    /\ LET r == Current IN
       IF r.start = Untracked
       THEN table' = WriteToMetaTable(r, table, SlotsMatching(table, r)) /\ NextSlot
       ELSE window' = [window EXCEPT !.at = "register", !.arena = r.arena] /\ UNCHANGED table
    /\ UNCHANGED <<ownerVars, meta, registry, selection, steady, sortVars>>

\* DebugRegisterArena takes a slot for the arena that the record named when the
\* call was made, and DebugRegisterArenaName names it.
RegisterOrphan ==
    /\ window.at = "register"
    /\ registry' = Claimed(window.arena, window.arena = window.sought)
    /\ NextSlot
    /\ UNCHANGED <<ownerVars, meta, selection, tableVars, sortVars>>

(***************************************************************************)
(* The list of arenas.  Which of them are expanded is the user's choice, by*)
(* clicks on earlier frames.                                               *)
(***************************************************************************)

Listed(i) == registry[i].arena # Null /\ ~registry[i].dead

List ==
    /\ window.at = "list"
    /\ window' = [window EXCEPT !.at = "details", !.entry = 1]
    /\ table' = EmptyTable
    /\ UNCHANGED <<ownerVars, meta, registry, selection, steady, sortVars>>

\* Densely packed: the rows of the first slots.
Packing(t) ==
    LET upTo[n \in 0 .. TableSize] ==
            IF n = 0 THEN << >>
            ELSE IF Named(t[n - 1]) THEN Append(upTo[n - 1], t[n - 1]) ELSE upTo[n - 1]
    IN upTo

Pack(t) == Packing(t)[TableSize]

Show(t) == rows' = Pack(t) /\ packed' = Pack(t) /\ outer' = 1 /\ inner' = 1

\* The untracked allocations are there and expanded: they are shown first.
ShowUntracked ==
    /\ window.at = "list"
    /\ \E i \in Slots : Named(table[i])
    /\ window' = [window EXCEPT !.at = "sort", !.entry = 0]
    /\ Show(table)
    /\ table' = EmptyTable
    /\ UNCHANGED <<ownerVars, meta, registry, selection, steady>>

(***************************************************************************)
(* The details of an arena: its blocks, and the records of those selected. *)
(***************************************************************************)

\* The first element equal to s is overwritten with the last one.
Without(seq, s) ==
    LET found == CHOOSE i \in DOMAIN seq : seq[i] = s /\ \A j \in 1 .. i - 1 : seq[j] # s
    IN [i \in 1 .. Len(seq) - 1 |-> IF i = found THEN seq[Len(seq)] ELSE seq[i]]

\* Mutant of Toggled: a click always selects.
ToggledOn(seq, s) == Append(seq, s)

\* A click on the bar of a block.
Toggled(seq, s) == IF s \in Range(seq) THEN Without(seq, s) ELSE Append(seq, s)

\* A tombstone, or an arena that is not expanded.
Hidden ==
    /\ window.at = "details" /\ window.entry <= Len(registry)
    /\ window' = [window EXCEPT !.entry = @ + 1]
    /\ UNCHANGED <<ownerVars, meta, registry, selection, tableVars, sortVars>>

\* The bars of the arena and of its Prevs; at most one is clicked per frame.
PushMemoryBargraphTable ==
    /\ window.at = "details" /\ window.entry <= Len(registry)
    /\ Listed(window.entry)
    /\ \/ \E s \in UNION {Range(starts[a]) : a \in {registry[window.entry].arena} \cap Arenas} :
            /\ s \notin Range(selection) => Len(selection) < MaxSelected
            /\ selection' = Toggled(selection, s)
       \/ UNCHANGED selection
    /\ window' = [window EXCEPT !.at = "collate", !.pick = 1]
    /\ steady' = TRUE
    /\ UNCHANGED <<ownerVars, meta, registry, table, sortVars>>

\* The next selected block, or the next record.
Advance ==
    window' = IF window.pick < Len(selection) THEN [window EXCEPT !.at = "collate", !.pick = @ + 1]
              ELSE NextPlace([window EXCEPT !.at = "collate", !.pick = 1])

\* A record of this arena and of this selected block.
Relevant(r) ==
    /\ r.arena = registry[window.entry].arena
    /\ r.start = selection[window.pick]

PickRecord ==
    /\ window.at = "collate" /\ window.thread < ThreadCount /\ selection # << >>
    /\ IF Relevant(Current) THEN window' = [window EXCEPT !.at = "write"] ELSE Advance
    /\ UNCHANGED <<ownerVars, meta, registry, selection, tableVars, sortVars>>

\* CollateMetadata, of what the slot holds by now.
CollateMetadata ==
    /\ window.at = "write"
    /\ LET r == Current IN table' = WriteToMetaTable(r, table, SlotsSharing(table, r))
    /\ Advance
    /\ UNCHANGED <<ownerVars, meta, registry, selection, steady, sortVars>>

ShowCollated ==
    /\ window.at = "collate" /\ (window.thread = ThreadCount \/ selection = << >>)
    /\ window' = [window EXCEPT !.at = "sort", !.thread = 0, !.slot = 0, !.pick = 1]
    /\ Show(table)
    /\ table' = EmptyTable
    /\ UNCHANGED <<ownerVars, meta, registry, selection, steady>>

SortRows ==
    /\ window.at = "sort"
    /\ SortStep
    /\ UNCHANGED <<ownerVars, meta, registry, selection, window, tableVars>>

\* The rows are drawn, and the next arena follows.
BufferRows ==
    /\ window.at = "sort" /\ ~Sorting
    /\ window' = [window EXCEPT !.at = "details", !.entry = @ + 1]
    /\ Show(EmptyTable)
    /\ steady' = FALSE
    /\ UNCHANGED <<ownerVars, meta, registry, selection, table>>

EndOfFrame ==
    /\ window.at = "details" /\ window.entry > Len(registry)
    /\ window' = [window EXCEPT !.at = "scan", !.entry = 0]
    /\ moves' = 0
    /\ UNCHANGED <<phase, starts, meta, registry, selection, tableVars, sortVars>>

WindowStep ==
    \/ LookForOwner \/ HandleOrphan \/ RegisterOrphan \/ List \/ ShowUntracked \/ Hidden \/ PushMemoryBargraphTable
    \/ PickRecord \/ CollateMetadata \/ ShowCollated \/ SortRows \/ BufferRows \/ EndOfFrame

\* At the list the window only turns to the details, and the sort works on rows of
\* the main thread's own: what other threads do meanwhile might as well come before.
OwnersMayMove == window.at \notin {"list", "sort"} /\ (FrameBegins \/ moves < MaxMoves)

Next == (OwnersMayMove /\ OwnerStep) \/ WindowStep

Spec == Init /\ [][Next]_vars

(***************************************************************************)
(* Properties.                                                             *)
(***************************************************************************)

Record == [name : Names \cup {NoName}, arena : Arenas \cup {Null, Site},
           start : Starts \cup {Null, Untracked}, shape : Shapes \cup {<<0, 0>>}, thread : Threads, pushes : Nat]

\* The owners, the tables, the registry, the selection and the indices of the window
\* have the types their declarations give them.
TypeOK ==
    /\ phase \in [Arenas -> {"free", "fresh", "used", "unlisted", "cleared"}]
    /\ starts \in [Arenas -> Seq(Starts)] /\ \A a \in Arenas : Len(starts[a]) <= MaxBlocks
    /\ meta \in [Threads -> [Slots -> Record]] /\ table \in [Slots -> Record]
    /\ registry \in Seq([arena : Arenas \cup {Null, Site}, dead : BOOLEAN, found : BOOLEAN])
    /\ Len(registry) <= RegistrySize
    /\ selection \in Seq(Starts)
    /\ packed \in Seq(Record)
    /\ window.at \in {"scan", "orphan", "register", "list", "details", "collate", "write", "sort"}
    /\ window.thread \in 0 .. ThreadCount /\ window.slot \in Slots /\ window.entry \in 0 .. RegistrySize + 1
    /\ window.pick \in 1 .. MaxSelected + 1

\* Whatever is clicked, no block is selected twice: the records of a block are
\* counted once, and one click deselects it.
SelectedOnce == \A i, j \in DOMAIN selection : selection[i] = selection[j] => i = j

\* The window registers an arena it found without an owner once, not in every
\* frame, nor again when it has been unregistered and records of it are left.
FoundOnce ==
    \A i, j \in DOMAIN registry :
        registry[i].found /\ registry[j].found /\ registry[i].arena = registry[j].arena => i = j

\* The assertion of DebugSanityCheckArenaRegistration, which registering and
\* naming an arena call: it has one slot that is not tombstoned, at most.
RegisteredOnce ==
    \A i, j \in DOMAIN registry :
        Listed(i) /\ Listed(j) /\ registry[i].arena = registry[j].arena => i = j

\* What PushesShareHeadArena compares, but for the arena.
Kinds == Names \X Shapes \X Threads
Kind(r) == <<r.name, r.shape, r.thread>>

\* The pushes of a kind in the rows, and in the records of all threads that the
\* details of the arena are about.
ShownPushes(k) == [i \in DOMAIN packed |-> IF Kind(packed[i]) = k THEN packed[i].pushes ELSE 0]

Selected(r) == r.arena = registry[window.entry].arena /\ r.start \in Range(selection)
SelectedPushes(k) ==
    [p \in TablePlaces |-> IF Selected(RecordAt(p)) /\ Kind(RecordAt(p)) = k THEN RecordAt(p).pushes ELSE 0]

\* The rows about to be sorted show each kind of allocation in the selected blocks
\* once, with the pushes of all its records and nothing else, or not at all; and not
\* at all only if other kinds fill the table.  So a row is never short of some
\* pushes, unless the records changed meanwhile.
CollatedWhole ==
    window.at = "sort" /\ window.entry > 0 /\ steady =>
        /\ \A i, j \in DOMAIN packed : Kind(packed[i]) = Kind(packed[j]) => i = j
        /\ \A k \in Kinds :
            \/ SumFunctionOnSet(ShownPushes(k), DOMAIN packed) = SumFunctionOnSet(SelectedPushes(k), TablePlaces)
            \/ Len(packed) = TableSize /\ \A i \in DOMAIN packed : Kind(packed[i]) # k
=============================================================================
