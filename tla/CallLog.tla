------------------------------- MODULE CallLog -------------------------------
(***************************************************************************)
(* What the scope trees of one thread promise their readers: for every     *)
(* frame the ring still holds, the calls made in it, in the order they     *)
(* were made, each with its nesting depth.  No pointers and no cursor: a   *)
(* call is appended to the log of the current frame, a return forgets the  *)
(* calls nested in it, a new frame starts with an empty log.               *)
(***************************************************************************)
EXTENDS Naturals, Sequences

CONSTANTS Scopes, Slots, FirstSlot

VARIABLES
    calls,      \* slot -> sequence of [scope, depth], in call order
    nesting,    \* slot -> the calls a further call in that slot is nested in
    current     \* the slot being written

logVars == <<calls, nesting, current>>

Logged(s) == {calls[s][i].scope : i \in DOMAIN calls[s]}
Unused == Scopes \ UNION {Logged(s) : s \in Slots}
Entry(x, nest) == [scope |-> x, depth |-> Len(nest)]

LogInit ==
    /\ calls = [s \in Slots |-> <<>>]
    /\ nesting = [s \in Slots |-> <<>>]
    /\ current = FirstSlot

\* A call is logged under the calls it is nested in.
Call ==
    /\ \E x \in Unused :
        /\ calls' = [calls EXCEPT ![current] = Append(@, Entry(x, nesting[current]))]
        /\ nesting' = [nesting EXCEPT ![current] = Append(@, x)]
    /\ UNCHANGED current

\* A call returns, in whatever frame it was made.  Calls nested in it whose
\* return was not recorded are no longer nested in anything.
Return ==
    /\ \E s \in Slots : \E i \in DOMAIN nesting[s] :
        nesting' = [nesting EXCEPT ![s] = SubSeq(@, 1, i - 1)]
    /\ UNCHANGED <<calls, current>>

\* Slot s is given to a new frame.
NewFrame(log, nest, s) ==
    /\ calls' = [log EXCEPT ![s] = <<>>]
    /\ nesting' = [nest EXCEPT ![s] = <<>>]
    /\ current' = s

Frame == \E s \in Slots : NewFrame(calls, nesting, s)

\* The main thread logs the call that starts the frame in the frame it ends.
TimedFrame ==
    \E s \in Slots \ {current}, x \in Unused :
        NewFrame([calls EXCEPT ![current] = Append(@, Entry(x, nesting[current]))],
                 nesting, s)

LogNext == Call \/ Return \/ Frame \/ TimedFrame

LogSpec == LogInit /\ [][LogNext]_logVars
=============================================================================
