------------------------------- MODULE Tracing -------------------------------
(***************************************************************************)
(* The tracing thread as a whole: the start-up that leads to ProcessTrace, *)
(* and the callbacks that ProcessTrace makes while it has not returned.    *)
(* What the callbacks collect stays after the trace has ended, and the main*)
(* thread goes on drawing it, until the process dies.                      *)
(***************************************************************************)
EXTENDS DebugStartup, ContextSwitches

vars == <<startupVars, streamVars>>

Init == StartupInit /\ StreamInit

\* The callbacks run on the tracing thread, within ProcessTrace.  The buffers that
\* are delivered when the session has ended count as delivered before its end: a
\* callback cannot tell.
Called == tracing.at = "processing" /\ session = "ours"

Callback == Called /\ TracerStep /\ UNCHANGED startupVars

\* The windows are drawn once there is a renderer.
DrawFrame == init.at = "ready" /\ DrawStep /\ UNCHANGED startupVars

\* The session ends, and ProcessTrace returns, between two callbacks; whatever else
\* happens while it calls back changes nothing.
StartupStep ==
    /\ callback = "idle"
    /\ StartupNext
    /\ UNCHANGED streamVars

Crash == CrashAndRestart /\ StreamRestart

Next == Callback \/ DrawFrame \/ StartupStep \/ Crash

Spec == Init /\ [][Next]_vars

\* The callbacks are ordinary code of a running thread, so is the drawing.
FairSpec ==
    /\ Spec
    /\ StartupFairness
    /\ WF_vars(Called /\ BufferCallback /\ UNCHANGED startupVars)

\* The window takes a thread's stream, unchecked, once the thread has an id:
\* the stream is there by then, whenever the worker came to register.
DrawnThreadsHaveStreams ==
    draw.at # "idle" => \A t \in Threads : "ThreadId" \in fields[t] => "ContextSwitches" \in fields[t]
=============================================================================
