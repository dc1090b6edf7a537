------------------------------- MODULE EventLog -------------------------------
(***************************************************************************)
(* What a stream of context switches promises: the multiset of the events  *)
(* recorded for a thread, from which batches are dropped that lie outside  *)
(* the frames that are shown, or reach over them on both sides.            *)
(***************************************************************************)
EXTENDS Integers

CONSTANT Cycles

VARIABLES
    log,    \* cycle -> how many events of that cycle are kept
    range   \* the cycles of the frames shown, [lo, hi]

LogInit == log = [c \in Cycles |-> 0] /\ range = [lo |-> 0, hi |-> 0]

\* One more event is kept.
Record(was, now) == \E c \in Cycles : now = [was EXCEPT ![c] = @ + 1]

\* A batch may only go when none of its events is in the range: they may be older,
\* and so not be shown any more, but newer as well, and not have been shown yet.
\* Or it holds an event from before the range and one from after it: then it goes
\* with all its events that are in the range.
Drop(was, now) ==
    LET dropped == {c \in Cycles : now[c] < was[c]} IN
    /\ \A c \in Cycles : now[c] <= was[c]
    /\ \/ \A c \in dropped : c < range.lo \/ c > range.hi
       \/ \E c, d \in dropped : c < range.lo /\ d > range.hi

\* The shown range only moves forward.
Show == range'.lo >= range.lo /\ range'.hi >= range.hi

\* The process begins anew.
Forget == log' = [c \in Cycles |-> 0] /\ range' = [lo |-> 0, hi |-> 0]

LogNext ==
    \/ /\ UNCHANGED range
       /\ \E was \in {log}, now \in {log'} : Record(was, now) \/ Drop(was, now)
    \/ Show /\ UNCHANGED log
    \/ Forget

LogSpec == LogInit /\ [][LogNext]_<<log, range>>
=============================================================================
