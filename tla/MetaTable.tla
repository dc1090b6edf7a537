------------------------------ MODULE MetaTable ------------------------------
(***************************************************************************)
(* One thread's MetaTable: the allocations it made, hashed by name with    *)
(* linear probing.                                                         *)
(*                                                                         *)
(* The owner records every allocation with WriteMemoryRecord.  Any other   *)
(* thread that frees an arena goes through the tables of all threads and   *)
(* zeroes the records of that arena, with no lock.  An arena is not        *)
(* allocated from while it is being freed; that is all the two threads     *)
(* agree on.                                                               *)
(*                                                                         *)
(* A key stands for a record that PushesMatchExactly tells from the others:*)
(* its name, arena, block, size, count and thread.                         *)
(***************************************************************************)
EXTENDS Integers, Functions

CONSTANTS
    Keys,
    NoKey,      \* a null Name
    Arenas,
    ArenaOf,    \* key -> the arena it was pushed on
    Home,       \* key -> Hash(Name) % META_TABLE_SIZE
    Size,       \* META_TABLE_SIZE
    MaxPushes   \* bound: the pushes of one key

Slots == 0 .. Size - 1

ASSUME SizeAssumption == Size \in Nat /\ Size >= 1 /\ MaxPushes \in Nat
ASSUME KeyAssumption ==
    NoKey \notin Keys /\ ArenaOf \in [Keys -> Arenas] /\ Home \in [Keys -> Slots]

VARIABLES
    table,  \* slot -> [name, arena, count]: the key its Name belongs to, whether
            \* its other fields are the key's or zero, and PushCount
    write,  \* the owner's WriteToMetaTable: [at, key, index]
    clear,  \* the other thread's ClearMemoryRecordsFor: [at, arena, index]
    pushes, \* key -> pushes recorded since its arena was last cleared
    lost,   \* key -> pushes among them that found the table full
    torn    \* whether zeroing a record ever ran over a record just written

vars == <<table, write, clear, pushes, lost, torn>>

Empty == [name |-> NoKey, arena |-> FALSE, count |-> 0]
Return == [at |-> "idle", key |-> NoKey, index |-> 0]

Init ==
    /\ table = [i \in Slots |-> Empty]
    /\ write = Return
    /\ \E a \in Arenas : clear = [at |-> "idle", arena |-> a, index |-> 0]
    /\ pushes = [k \in Keys |-> 0]
    /\ lost = [k \in Keys |-> 0]
    /\ torn = FALSE

(***************************************************************************)
(* WriteMemoryRecord, by the owner.                                        *)
(***************************************************************************)

\* DEBUG_Allocate on an arena nobody is clearing.
BeginWrite(k) ==
    /\ write.at = "idle"
    /\ clear.at # "idle" => clear.arena # ArenaOf[k]
    /\ pushes[k] < MaxPushes
    /\ write' = [at |-> "probe", key |-> k, index |-> Home[k]]
    /\ UNCHANGED <<table, clear, pushes, lost, torn>>

\* PushesMatchExactly
Matches(r, k) == r.name = k /\ r.arena

\* Mutant of Probe: the index does not wrap.
ProbeUnwrapped ==
    /\ write.at = "probe"
    /\ write' = IF table[write.index].name = NoKey \/ Matches(table[write.index], write.key)
                THEN [write EXCEPT !.at = "commit"]
                ELSE [write EXCEPT !.index = @ + 1]
    /\ UNCHANGED <<table, clear, pushes, lost, torn>>

\* Mutant of Probe: it does not notice that it is back where it started.
ProbeForever ==
    /\ write.at = "probe"
    /\ write' = IF table[write.index].name = NoKey \/ Matches(table[write.index], write.key)
                THEN [write EXCEPT !.at = "commit"]
                ELSE [write EXCEPT !.index = (@ + 1) % Size]
    /\ UNCHANGED <<table, clear, pushes, lost, torn>>

\* One round of the probing loop.  The table is full when the probe is back
\* where it started: the record is discarded.
Probe ==
    /\ write.at = "probe"
    /\ LET k == write.key
           next == (write.index + 1) % Size
       IN IF table[write.index].name = NoKey \/ Matches(table[write.index], k)
          THEN write' = [write EXCEPT !.at = "commit"] /\ UNCHANGED <<pushes, lost>>
          ELSE IF next = Home[k]
          THEN /\ write' = Return
               /\ pushes' = [pushes EXCEPT ![k] = @ + 1]
               /\ lost' = [lost EXCEPT ![k] = @ + 1]
          ELSE write' = [write EXCEPT !.index = next] /\ UNCHANGED <<pushes, lost>>
    /\ UNCHANGED <<table, clear, torn>>

\* Mutant of Commit: a record that is already there is written anew.
CommitOverwriting ==
    /\ write.at = "commit"
    /\ table' = [table EXCEPT ![write.index] = [name |-> write.key, arena |-> TRUE, count |-> 1]]
    /\ pushes' = [pushes EXCEPT ![write.key] = @ + 1]
    /\ write' = Return
    /\ UNCHANGED <<clear, lost, torn>>

\* After the loop the Name is read again: it decides between counting the push
\* and writing the record.
Commit ==
    /\ write.at = "commit"
    /\ LET r == table[write.index] IN
       table' = [table EXCEPT ![write.index] =
                    IF r.name # NoKey THEN [r EXCEPT !.count = @ + 1]
                    ELSE [name |-> write.key, arena |-> TRUE, count |-> 1]]
    /\ pushes' = [pushes EXCEPT ![write.key] = @ + 1]
    /\ write' = Return
    /\ UNCHANGED <<clear, lost, torn>>

(***************************************************************************)
(* ClearMemoryRecordsFor, by another thread.                               *)
(***************************************************************************)

BeginClear(a) ==
    /\ clear.at = "idle"
    /\ write.at # "idle" => ArenaOf[write.key] # a
    /\ clear' = [at |-> "scan", arena |-> a, index |-> 0]
    /\ UNCHANGED <<table, write, pushes, lost, torn>>

\* The comparison with the arena's hashes; a zeroed record never compares equal.
Scan ==
    /\ clear.at = "scan"
    /\ clear.index \in Slots
    /\ LET r == table[clear.index] IN
       clear' = IF r.arena /\ ArenaOf[r.name] = clear.arena THEN [clear EXCEPT !.at = "name"]
                ELSE [clear EXCEPT !.index = @ + 1]
    /\ UNCHANGED <<table, write, pushes, lost, torn>>

\* Clear(Meta) zeroes the struct from its first field on: Name comes first.
ZeroName ==
    /\ clear.at = "name"
    /\ table' = [table EXCEPT ![clear.index].name = NoKey]
    /\ clear' = [clear EXCEPT !.at = "rest"]
    /\ UNCHANGED <<write, pushes, lost, torn>>

\* Mutant of ZeroRest: the scan skips the slot after a zeroed record.
ZeroRestSkipping ==
    /\ clear.at = "rest"
    /\ table' = [table EXCEPT ![clear.index] = [@ EXCEPT !.arena = FALSE, !.count = 0]]
    /\ torn' = (torn \/ table[clear.index].name # NoKey)
    /\ clear' = [clear EXCEPT !.at = "scan", !.index = @ + 2]
    /\ UNCHANGED <<write, pushes, lost>>

\* The other fields, whoever's they are by now.
ZeroRest ==
    /\ clear.at = "rest"
    /\ table' = [table EXCEPT ![clear.index] = [@ EXCEPT !.arena = FALSE, !.count = 0]]
    /\ torn' = (torn \/ table[clear.index].name # NoKey)
    /\ clear' = [clear EXCEPT !.at = "scan", !.index = @ + 1]
    /\ UNCHANGED <<write, pushes, lost>>

EndClear ==
    /\ clear.at = "scan"
    /\ clear.index \notin Slots
    /\ clear' = [clear EXCEPT !.at = "idle", !.index = 0]
    /\ pushes' = [k \in Keys |-> IF ArenaOf[k] = clear.arena THEN 0 ELSE pushes[k]]
    /\ lost' = [k \in Keys |-> IF ArenaOf[k] = clear.arena THEN 0 ELSE lost[k]]
    /\ UNCHANGED <<table, write, torn>>

Writer == Probe \/ Commit
Clearer == Scan \/ ZeroName \/ ZeroRest \/ EndClear

Next ==
    \/ \E k \in Keys : BeginWrite(k)
    \/ Writer
    \/ \E a \in Arenas : BeginClear(a)
    \/ Clearer

Spec == Init /\ [][Next]_vars

\* Neither loop waits for anything: a call runs while its thread does.
FairSpec == Spec /\ WF_vars(Writer) /\ WF_vars(Clearer)

(***************************************************************************)
(* Properties.                                                             *)
(***************************************************************************)

\* Every variable has the type its declaration gives it.
TypeOK ==
    /\ table \in [Slots -> [name : Keys \cup {NoKey}, arena : BOOLEAN, count : 0 .. MaxPushes]]
    /\ write \in [at : {"idle", "probe", "commit"}, key : Keys \cup {NoKey}, index : Slots]
    /\ clear \in [at : {"idle", "scan", "name", "rest"}, arena : Arenas, index : 0 .. Size]
    /\ pushes \in [Keys -> 0 .. MaxPushes]
    /\ lost \in [Keys -> 0 .. MaxPushes]
    /\ torn \in BOOLEAN

\* What the table says was pushed under a key: the sum over its records, of
\* which there may be several.
Counted(k) == [i \in Slots |-> IF Matches(table[i], k) THEN table[i].count ELSE 0]
Recorded(k) == SumFunctionOnSet(Counted(k), Slots)

\* The arena of the key is being cleared.
Clearing(k) == clear.at # "idle" /\ clear.arena = ArenaOf[k]

\* The table never claims more than was pushed, not even while records are being
\* zeroed; in particular nothing is left of an arena once it has been cleared, in
\* however many records its pushes were.
NeverOvercounts == \A k \in Keys : Recorded(k) <= pushes[k] - lost[k]

\* Every push is accounted for, through the holes and the duplicates that
\* clearing other arenas leaves in the probe chains, unless zeroing a record ran
\* over a new one.
ExactUnlessTorn == torn \/ \A k \in Keys : Clearing(k) \/ Recorded(k) = pushes[k] - lost[k]

\* Every call returns, full table or not: a probe passes each slot at most once
\* even when another thread empties slots behind it.
CallsReturn == (write.at # "idle" ~> write.at = "idle") /\ (clear.at # "idle" ~> clear.at = "idle")
=============================================================================
