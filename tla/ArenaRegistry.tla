---------------------------- MODULE ArenaRegistry ----------------------------
(***************************************************************************)
(* RegisteredMemoryArenas: the table in which every thread of the program  *)
(* registers the arenas it allocates and tombstones those it frees.        *)
(*                                                                         *)
(* There is no lock.  A registering thread walks the table, reads a slot's *)
(* SourceLocation, claims the slot with a compare-exchange when it was     *)
(* null, and then fills in the rest with plain stores.  A slot is never    *)
(* given back, and an arena's address may be used again by another arena.  *)
(***************************************************************************)
EXTENDS Integers, FiniteSets

CONSTANTS
    Threads,
    Arenas,     \* the addresses arenas are allocated at
    NoArena,    \* the null address
    Count       \* REGISTERED_MEMORY_ARENA_COUNT

ASSUME ArenaAssumption == NoArena \notin Arenas
ASSUME CountAssumption == Count \in Nat

Slots == 0 .. Count - 1

VARIABLES
    slots,  \* slot -> [claimed, arena, named, tombstone]; claimed: its
            \* SourceLocation is not null
    call,   \* thread -> [at, index, arena]: where it is in DebugRegisterArena
    life    \* arena -> what its owner was last told: "free" (not allocated, or
            \* unregistered), "registering", "listed", "unlisted" (table full)

vars == <<slots, call, life>>

Blank == [claimed |-> FALSE, arena |-> NoArena, named |-> FALSE, tombstone |-> FALSE]
Idle == [at |-> "idle", index |-> 0, arena |-> NoArena]

Init ==
    /\ slots = [i \in Slots |-> Blank]
    /\ call = [t \in Threads |-> Idle]
    /\ life = [a \in Arenas |-> "free"]

(***************************************************************************)
(* DebugRegisterArena, step by step.                                       *)
(***************************************************************************)

\* A thread has allocated an arena, at an address no other arena has.  The
\* sanity check only reads; what it asserts is LiveListedOnce.
BeginRegister(t, a) ==
    /\ call[t].at = "idle"
    /\ life[a] = "free"
    /\ call' = [call EXCEPT ![t] = [at |-> "scan", index |-> 0, arena |-> a]]
    /\ life' = [life EXCEPT ![a] = "registering"]
    /\ UNCHANGED slots

\* The read of SourceLocation.
Scan(t) ==
    /\ call[t].at = "scan"
    /\ call[t].index \in Slots
    /\ call' = IF slots[call[t].index].claimed THEN [call EXCEPT ![t].index = @ + 1]
               ELSE [call EXCEPT ![t].at = "claim"]
    /\ UNCHANGED <<slots, life>>

\* Mutant of Claim: SourceLocation is stored without a compare-exchange.
ClaimPlainly(t) ==
    /\ call[t].at = "claim"
    /\ call' = [call EXCEPT ![t].at = "publish"]
    /\ slots' = [slots EXCEPT ![call[t].index].claimed = TRUE]
    /\ UNCHANGED life

\* Mutant of Claim: the loser skips a slot.
ClaimSkipping(t) ==
    /\ call[t].at = "claim"
    /\ LET i == call[t].index IN
       IF slots[i].claimed
       THEN /\ call' = [call EXCEPT ![t].at = "scan", ![t].index = i + 2]
            /\ UNCHANGED slots
       ELSE /\ call' = [call EXCEPT ![t].at = "publish"]
            /\ slots' = [slots EXCEPT ![i].claimed = TRUE]
    /\ UNCHANGED life

\* AtomicCompareExchange of the null that was read.  The thread that loses goes
\* on to the next slot.
Claim(t) ==
    /\ call[t].at = "claim"
    /\ LET i == call[t].index IN
       IF slots[i].claimed
       THEN /\ call' = [call EXCEPT ![t].at = "scan", ![t].index = i + 1]
            /\ UNCHANGED slots
       ELSE /\ call' = [call EXCEPT ![t].at = "publish"]
            /\ slots' = [slots EXCEPT ![i].claimed = TRUE]
    /\ UNCHANGED life

\* The stores of Arena and ThreadId; the second is read by nobody but the UI.
Publish(t) ==
    /\ call[t].at = "publish"
    /\ slots' = [slots EXCEPT ![call[t].index].arena = call[t].arena]
    /\ life' = [life EXCEPT ![call[t].arena] = "listed"]
    /\ call' = [call EXCEPT ![t] = Idle]

\* The loop ends without a slot: SoftError.
TooMany(t) ==
    /\ call[t].at = "scan"
    /\ call[t].index \notin Slots
    /\ life' = [life EXCEPT ![call[t].arena] = "unlisted"]
    /\ call' = [call EXCEPT ![t] = Idle]
    /\ UNCHANGED slots

(***************************************************************************)
(* The other operations.  Each loops over the table but touches only slots *)
(* that hold its own arena, which no other thread changes meanwhile.       *)
(***************************************************************************)

Holding(a) == {i \in Slots : slots[i].arena = a}
IsFirst(i, a) == i \in Holding(a) /\ \A j \in Holding(a) : i <= j

\* DebugRegisterArenaName, called after the registration: the first slot that
\* holds the address, tombstone or not; nothing when there is none.
RegisterName(t, a) ==
    /\ call[t].at = "idle"
    /\ life[a] \in {"listed", "unlisted"}
    /\ \E i \in Slots :
         /\ IsFirst(i, a)
         /\ slots' = [slots EXCEPT ![i].named = TRUE]
    /\ UNCHANGED <<call, life>>

\* Mutant of Unregister: it stops at the first slot that holds the address.
UnregisterFirst(t, a) ==
    /\ call[t].at = "idle"
    /\ life[a] \in {"listed", "unlisted"}
    /\ slots' = [i \in Slots |-> IF IsFirst(i, a) THEN [slots[i] EXCEPT !.tombstone = TRUE]
                                 ELSE slots[i]]
    /\ life' = [life EXCEPT ![a] = "free"]
    /\ UNCHANGED call

\* UnregisterArena: every slot that holds the address.
Unregister(t, a) ==
    /\ call[t].at = "idle"
    /\ life[a] \in {"listed", "unlisted"}
    /\ slots' = [i \in Slots |-> IF i \in Holding(a) THEN [slots[i] EXCEPT !.tombstone = TRUE]
                                 ELSE slots[i]]
    /\ life' = [life EXCEPT ![a] = "free"]
    /\ UNCHANGED call

Next ==
    \E t \in Threads :
        \/ Scan(t) \/ Claim(t) \/ Publish(t) \/ TooMany(t)
        \/ \E a \in Arenas : BeginRegister(t, a) \/ RegisterName(t, a) \/ Unregister(t, a)

Spec == Init /\ [][Next]_vars

(***************************************************************************)
(* Properties.                                                             *)
(***************************************************************************)

\* Every variable has the type its declaration gives it.
TypeOK ==
    /\ slots \in [Slots -> [claimed : BOOLEAN, arena : Arenas \cup {NoArena},
                            named : BOOLEAN, tombstone : BOOLEAN]]
    /\ call \in [Threads -> [at : {"idle", "scan", "claim", "publish"},
                             index : 0 .. Count, arena : Arenas \cup {NoArena}]]
    /\ life \in [Arenas -> {"free", "registering", "listed", "unlisted"}]

\* A slot that holds an arena that still counts.
Live(i, a) == slots[i].arena = a /\ ~slots[i].tombstone

\* What DebugSanityCheckArenaRegistration asserts, and more: an arena its owner
\* saw registered is in exactly one slot that is not a tombstone, and any other
\* address in none, however registrations race and addresses are used again.
LiveListedOnce ==
    \A a \in Arenas :
        IF life[a] = "listed" THEN \E i \in Slots : \A j \in Slots : Live(j, a) <=> j = i
        ELSE \A i \in Slots : ~Live(i, a)

\* Registration gives up only when every slot is taken, whatever it lost to the
\* compare-exchanges of the others.
FullOnlyWhenFull ==
    (\E a \in Arenas : life[a] = "unlisted") => \A i \in Slots : slots[i].claimed

\* The slots in use are the first ones: the table has no holes.
ClaimedIsPrefix ==
    \A i, j \in Slots : i < j /\ slots[j].claimed => slots[i].claimed

\* Two threads never fill in the same slot, and never one that already holds
\* an arena.
OneWriter ==
    \A t \in Threads : call[t].at = "publish" =>
        /\ slots[call[t].index].claimed
        /\ slots[call[t].index].arena = NoArena
        /\ \A u \in Threads \ {t} : call[u].at = "publish" => call[u].index # call[t].index

\* What GetRegisteredMemoryArena asserts: the first slot that holds a registered
\* arena is not a tombstone.
LookupFindsLive ==
    \A a \in Arenas, i \in Slots :
        life[a] = "listed" /\ IsFirst(i, a) => ~slots[i].tombstone

(***************************************************************************)
(* The inductive invariant.                                                *)
(***************************************************************************)

\* Every slot below a scanning thread's is claimed.
ScannedAreClaimed ==
    \A t \in Threads, i \in Slots :
        call[t].at # "idle" /\ i < call[t].index => slots[i].claimed

\* A call past its scan is at a slot, and its arena is its own.
CallsOwnArenas ==
    \A t \in Threads :
        /\ call[t].at \in {"claim", "publish"} => call[t].index \in Slots
        /\ call[t].at # "idle" =>
            /\ call[t].arena \in Arenas
            /\ life[call[t].arena] = "registering"
            /\ \A u \in Threads \ {t} : call[u].at # "idle" => call[u].arena # call[t].arena

\* Only a claimed slot holds an arena or a tombstone.
UnclaimedAreBlank ==
    \A i \in Slots : slots[i].arena = NoArena => ~slots[i].tombstone

\* A slot holds an arena only once it has been claimed.
HoldersAreClaimed ==
    \A i \in Slots : slots[i].arena # NoArena => slots[i].claimed

\* The state invariant the induction goes through on.
IInv ==
    /\ TypeOK
    /\ LiveListedOnce
    /\ FullOnlyWhenFull
    /\ ClaimedIsPrefix
    /\ OneWriter
    /\ ScannedAreClaimed
    /\ CallsOwnArenas
    /\ UnclaimedAreBlank
    /\ HoldersAreClaimed
=============================================================================
