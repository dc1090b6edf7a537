------------------------------ MODULE DrawCalls ------------------------------
(***************************************************************************)
(* TrackedDrawCalls: how often each place of the program drew how many     *)
(* vertices this frame.  The place is a pointer to its name, which decides *)
(* where the probing begins; a row is recognised by the name itself.       *)
(* Everything here happens on the main thread.                             *)
(***************************************************************************)
EXTENDS Integers, FiniteSetsExt, Functions

CONSTANTS
    Callers,        \* pointers
    NameOf,         \* pointer -> the text it points to
    Home,           \* pointer -> its address % TRACKED_DRAW_CALLS_MAX
    Counts,         \* vertex counts
    NoCaller,
    CallSlots,      \* TRACKED_DRAW_CALLS_MAX
    MaxCalls        \* bound: draw calls in one frame

ASSUME CallerAssumption ==
    /\ NoCaller \notin Callers /\ IsFiniteSet(Callers) /\ IsFiniteSet(Counts)
    /\ CallSlots \in Nat \ {0} /\ MaxCalls \in Nat
    /\ Home \in [Callers -> 0 .. CallSlots - 1]

VARIABLES
    drawCalls,  \* slot -> [caller, n, calls]
    tracked,    \* history: <<name, n>> -> the draw calls of this frame
    overwritten \* history: whether the table was found full this frame

callVars == <<drawCalls, tracked, overwritten>>

Rows == 0 .. CallSlots - 1
Names == {NameOf[c] : c \in Callers}
NullDrawCall == [caller |-> NoCaller, n |-> 0, calls |-> 0]

NoCalls ==
    /\ drawCalls = [i \in Rows |-> NullDrawCall]
    /\ tracked = [k \in Names \X Counts |-> 0]
    /\ overwritten = FALSE

\* Mutant of SameCall: the vertex count is not compared.
SameCaller(row, caller, count) == NameOf[row.caller] = NameOf[caller]

SameCall(row, caller, count) == NameOf[row.caller] = NameOf[caller] /\ row.n = count

\* Mutant of Fill: the row is written anew.
FillAnew(row, caller, count) == [caller |-> caller, n |-> count, calls |-> 1]

\* Calls goes on counting, also in a row that was another's.
Fill(row, caller, count) == [caller |-> caller, n |-> count, calls |-> row.calls + 1]

TotalTracked == SumFunctionOnSet(tracked, Names \X Counts)

\* The first row, from the caller's place on, that is empty or the call's own;
\* the caller's place itself when there is none.
TrackDrawCall(caller, count) ==
    LET probe(i) == (Home[caller] + i) % CallSlots
        ends == {i \in Rows : \/ drawCalls[probe(i)].caller = NoCaller
                              \/ SameCall(drawCalls[probe(i)], caller, count)}
        row == IF ends = {} THEN Home[caller] ELSE probe(Min(ends))
    IN /\ TotalTracked < MaxCalls
       /\ drawCalls' = [drawCalls EXCEPT ![row] = Fill(@, caller, count)]
       /\ tracked' = [tracked EXCEPT ![<<NameOf[caller], count>>] = @ + 1]
       /\ overwritten' = (overwritten \/ ends = {})

\* DebugFrameEnd.
ResetDrawCalls ==
    /\ drawCalls' = [i \in Rows |-> NullDrawCall]
    /\ tracked' = [k \in Names \X Counts |-> 0]
    /\ overwritten' = FALSE

CallsTypeOK ==
    /\ drawCalls \in [Rows -> [caller : Callers \cup {NoCaller}, n : Counts \cup {0}, calls : Nat]]
    /\ tracked \in [Names \X Counts -> Nat]
    /\ overwritten \in BOOLEAN

\* The calls of all rows add up to the draw calls of the frame, even when rows
\* have been overwritten.
CallsOfRow == [i \in Rows |-> drawCalls[i].calls]
CallsAddUp == SumFunctionOnSet(CallsOfRow, Rows) = TotalTracked

\* As long as the table had room, the rows of a name and a count, of which there
\* are several when several pointers spell that name, have its draw calls.
Spells(row, k) == row.caller # NoCaller /\ <<NameOf[row.caller], row.n>> = k
CallsOf(k) == [i \in Rows |-> IF Spells(drawCalls[i], k) THEN drawCalls[i].calls ELSE 0]
RowsExact ==
    ~overwritten => \A k \in Names \X Counts : SumFunctionOnSet(CallsOf(k), Rows) = tracked[k]
=============================================================================
