----------------------------- MODULE FrameTables -----------------------------
(***************************************************************************)
(* Two tables the main thread shows: the draw calls of this frame, which   *)
(* the end of the frame forgets, and the histogram, which other threads    *)
(* fill across frames.  Draw calls are made, the windows drawn and the     *)
(* frame ended by the main thread one after the other, so the draw calls   *)
(* of a frame are counted when the histogram is not being drawn.           *)
(***************************************************************************)
EXTENDS DrawCalls, Histogram

vars == <<callVars, histogramVars>>

Init == NoCalls /\ HistogramInit

TrackCall ==
    /\ draw.at = "idle"
    /\ \E caller \in Callers, count \in Counts : TrackDrawCall(caller, count)
    /\ UNCHANGED histogramVars

FrameEnd ==
    /\ draw.at = "idle"
    /\ ResetDrawCalls
    /\ UNCHANGED histogramVars

Next ==
    \/ TrackCall
    \/ FrameEnd
    \/ DrawHistogramStep /\ UNCHANGED callVars
    \/ WriterStep /\ UNCHANGED callVars

Spec == Init /\ [][Next]_vars

TypeOK == CallsTypeOK /\ HistogramTypeOK
=============================================================================
