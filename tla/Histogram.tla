------------------------------ MODULE Histogram ------------------------------
(***************************************************************************)
(* The cycle histogram: a ring of samples that any thread pushes to under a*)
(* futex, and that the main thread resets and draws without it.            *)
(***************************************************************************)
EXTENDS Integers, Sequences

CONSTANTS
    Writers,        \* the threads that time functions with HISTOGRAM_FUNCTION
    NoWriter,
    SampleSlots,    \* DEBUG_HISTOGRAM_MAX_SAMPLES
    MaxSample       \* bound: the cycles of a sample

ASSUME HistogramAssumption ==
    NoWriter \notin Writers /\ SampleSlots \in Nat \ {0} /\ MaxSample \in Nat

VARIABLES
    samples,    \* slot -> sample, 0 for none
    at,         \* At - Start
    futex,      \* the thread that holds HistogramFutex
    pushing,    \* thread -> [at, sample]
    draw,       \* DrawHistogram: [at, slot, max]; of the figures it shows only MaxCycles
                \* is kept, which scales the bars
    bar,        \* the bar it drew last: a sample of a slot, and what it is measured by
    recent,     \* history: the samples pushed since the last reset was over
    late        \* history: slots pushed to after the measuring pass had read them

windowVars == <<draw, bar, late>>
histogramVars == <<samples, at, futex, pushing, recent, windowVars>>

SlotsOf == 0 .. SampleSlots - 1
Samples == 0 .. MaxSample

NotPushing == [at |-> "idle", sample |-> 0]
NotDrawing == [at |-> "idle", slot |-> 0, max |-> 0]
NoBar == [slot |-> 0, sample |-> 0, of |-> 0]

HistogramInit ==
    /\ samples = [i \in SlotsOf |-> 0]
    /\ at = 0
    /\ futex = NoWriter
    /\ pushing = [t \in Writers |-> NotPushing]
    /\ draw = NotDrawing /\ bar = NoBar
    /\ recent = << >> /\ late = {}

(***************************************************************************)
(* PushHistogramDataPoint, from the destructor of a timer.  A sample is the*)
(* cycles the function took, none when the clock did not tick.             *)
(***************************************************************************)

\* Mutant of Acquire: the futex is not waited for.
AcquireAnyway(t, sample) ==
    /\ pushing[t].at = "idle"
    /\ futex' = t
    /\ pushing' = [pushing EXCEPT ![t] = [at |-> "wrap", sample |-> sample]]
    /\ UNCHANGED <<samples, at, recent, windowVars>>

Acquire(t, sample) ==
    /\ pushing[t].at = "idle"
    /\ futex = NoWriter
    /\ futex' = t
    /\ pushing' = [pushing EXCEPT ![t] = [at |-> "wrap", sample |-> sample]]
    /\ UNCHANGED <<samples, at, recent, windowVars>>

Wrap(t) ==
    /\ pushing[t].at = "wrap"
    /\ at' = IF at = SampleSlots THEN 0 ELSE at
    /\ pushing' = [pushing EXCEPT ![t].at = "push"]
    /\ UNCHANGED <<samples, futex, recent, windowVars>>

Latest(s) == IF Len(s) > SampleSlots THEN Tail(s) ELSE s

\* The measuring pass has read slot i.
HasMeasured(i) == draw.at = "draw" \/ (draw.at = "measure" /\ i < draw.slot)

\* A sample pushed while the reset runs may be wiped out by it.
Push(t) ==
    /\ pushing[t].at = "push"
    /\ samples' = [samples EXCEPT ![at] = pushing[t].sample]
    /\ at' = at + 1
    /\ recent' = IF draw.at = "reset" THEN << >> ELSE Latest(Append(recent, pushing[t].sample))
    /\ late' = IF HasMeasured(at) THEN late \cup {at} ELSE late
    /\ futex' = NoWriter
    /\ pushing' = [pushing EXCEPT ![t] = NotPushing]
    /\ UNCHANGED <<draw, bar>>

WriterStep ==
    \E t \in Writers : (\E sample \in Samples : Acquire(t, sample)) \/ Wrap(t) \/ Push(t)

(***************************************************************************)
(* DrawHistogram, by the main thread: the reset when its button is clicked,*)
(* a pass that measures, and one that draws.                               *)
(***************************************************************************)

BeginDraw ==
    /\ draw.at = "idle"
    /\ \/ draw' = [draw EXCEPT !.at = "reset"] /\ recent' = << >>
       \/ draw' = [draw EXCEPT !.at = "measure"] /\ UNCHANGED recent
    /\ UNCHANGED <<samples, at, futex, pushing, bar, late>>

\* The next slot of a pass, or what follows the pass.
Onward(d, then) ==
    IF d.slot < SampleSlots - 1 THEN [d EXCEPT !.slot = @ + 1] ELSE [d EXCEPT !.at = then, !.slot = 0]

ResetSample ==
    /\ draw.at = "reset"
    /\ samples' = [samples EXCEPT ![draw.slot] = 0]
    /\ draw' = Onward(draw, "measure")
    /\ UNCHANGED <<at, futex, pushing, recent, bar, late>>

\* Mutant of Measured: the last sample is taken for the greatest.
MeasuredLast(d, sample) == [d EXCEPT !.max = IF sample > 0 THEN sample ELSE @]

Measured(d, sample) == [d EXCEPT !.max = IF sample > @ THEN sample ELSE @]

MeasureSample ==
    /\ draw.at = "measure"
    /\ draw' = Onward(Measured(draw, samples[draw.slot]), "draw")
    /\ UNCHANGED <<samples, at, futex, pushing, recent, bar, late>>

\* The bar of a sample, which is read again, in proportion to MaxCycles; a slot
\* without a sample has none.
DrawSample ==
    /\ draw.at = "draw"
    /\ bar' = IF samples[draw.slot] = 0 THEN bar
              ELSE [slot |-> draw.slot, sample |-> samples[draw.slot], of |-> draw.max]
    /\ draw' = Onward(draw, "drawn")
    /\ UNCHANGED <<samples, at, futex, pushing, recent, late>>

EndDraw ==
    /\ draw.at = "drawn"
    /\ draw' = NotDrawing
    /\ bar' = NoBar /\ late' = {}
    /\ UNCHANGED <<samples, at, futex, pushing, recent>>

DrawHistogramStep == BeginDraw \/ ResetSample \/ MeasureSample \/ DrawSample \/ EndDraw

HistogramTypeOK ==
    /\ samples \in [SlotsOf -> Samples]
    /\ at \in 0 .. SampleSlots
    /\ futex \in Writers \cup {NoWriter}
    /\ pushing \in [Writers -> [at : {"idle", "wrap", "push"}, sample : Samples]]
    /\ draw \in [at : {"idle", "reset", "measure", "draw", "drawn"}, slot : SlotsOf, max : Samples]
    /\ bar \in [slot : SlotsOf, sample : Samples, of : Samples]
    /\ recent \in Seq(Samples) /\ Len(recent) <= SampleSlots
    /\ late \subseteq SlotsOf

\* No sample is written behind the end of the buffer, whichever threads push.
PushedInBounds == \A t \in Writers : pushing[t].at = "push" => at < SampleSlots

\* The samples pushed since the last reset are there, as many as there is room
\* for, in order before the cursor: pushes neither get lost nor in each other's
\* way.
LatestKept ==
    draw.at # "reset" => \A k \in DOMAIN recent :
        samples[(at + SampleSlots - 1 - (Len(recent) - k)) % SampleSlots] = recent[k]

\* A bar fits the graph, and is not divided by a MaxCycles of zero, unless a sample
\* came to its slot between the two passes: the passes do not take the futex, so
\* that can happen, and nothing else can, with or without a reset before them.
BarsFitUnlessLate == bar.sample > bar.of => bar.slot \in late
=============================================================================
