----------------------------- MODULE DebugStartup -----------------------------
(***************************************************************************)
(* How the debug system starts: the main thread in InitDebugState, workers *)
(* that register themselves, and the thread that opens the kernel's trace  *)
(* of context switches.                                                    *)
(*                                                                         *)
(* The per-thread states come into being one field at a time, while other  *)
(* parts of the program only look at a flag or at a null pointer.  The     *)
(* kernel has one trace session for the whole machine; it outlives the     *)
(* process that opened it, so a crash leaves it for the next start to find.*)
(* The kernel's calls are external: they succeed or fail as they like.     *)
(***************************************************************************)
EXTENDS Integers

CONSTANT WorkerCount

ASSUME WorkerAssumption == WorkerCount \in Nat

Main == 0
Threads == 0 .. WorkerCount

VARIABLES
    init,       \* the main thread in InitDebugState: [at, thread]
    fields,     \* thread -> the fields of its debug_thread_state that are set
    profiling,  \* DebugDoScopeProfiling
    tracing,    \* the tracing thread: [at, thread]
    status,     \* Global_EventTracingStatus
    session     \* whose the kernel's one trace session is

startupVars == <<init, fields, profiling, tracing, status, session>>

Fields == {"Memory", "MetaTable", "MutexOps", "ScopeTrees", "ThreadId", "ContextSwitches"}
InitSteps == {"hooks", "states", "memory", "table", "records", "main", "stream", "enable", "done", "ready"}
TraceSteps == {"none", "wait", "announce", "close", "start", "open", "processing", "failed", "exited"}

NoFields == [t \in Threads |-> {}]

StartupInit ==
    /\ init = [at |-> "hooks", thread |-> Main]
    /\ fields = NoFields
    /\ profiling = FALSE
    /\ tracing = [at |-> "none", thread |-> Main]
    /\ status = "Unstarted"
    /\ session \in {"none", "stale", "other"}

(***************************************************************************)
(* InitDebugState, by the main thread.                                     *)
(***************************************************************************)

\* Mutant of InstallHooks: profiling is enabled along with them.
InstallHooksProfiling ==
    /\ init.at = "hooks"
    /\ init' = [init EXCEPT !.at = "states"]
    /\ profiling' = TRUE
    /\ UNCHANGED <<fields, tracing, status, session>>

\* The hooks and Initialized: the other threads can call in from now on.
InstallHooks ==
    /\ init.at = "hooks"
    /\ init' = [init EXCEPT !.at = "states"]
    /\ UNCHANGED <<fields, profiling, tracing, status, session>>

\* The array of zeroed ThreadStates; until then asking for one returns null.
AllocateThreadStates ==
    /\ init.at = "states"
    /\ init' = [init EXCEPT !.at = "memory"]
    /\ UNCHANGED <<fields, profiling, tracing, status, session>>

\* Some fields of the thread's state are set and the main thread goes on.
Assign(step, set, then) ==
    /\ init.at = step
    /\ fields' = [fields EXCEPT ![init.thread] = @ \cup set]
    /\ init' = then
    /\ UNCHANGED <<profiling, tracing, status, session>>

\* The next thread of a loop over all of them, or what follows the loop.
NextThread(step, after) ==
    IF init.thread < WorkerCount THEN [at |-> step, thread |-> init.thread + 1]
    ELSE [at |-> after, thread |-> Main]

AllocateMemory == Assign("memory", {"Memory"}, [init EXCEPT !.at = "table"])

\* Pushed on the main thread's arena, without a record.
AllocateMetaTable == Assign("table", {"MetaTable"}, [init EXCEPT !.at = "records"])

\* Allocate: DEBUG_Allocate records both in the main thread's MetaTable.
AllocateRecords == Assign("records", {"MutexOps", "ScopeTrees"}, NextThread("memory", "main"))

\* Mutant of RegisterMainThread: the streams are left for later.
RegisterMainThreadOnly == Assign("main", {"ThreadId"}, [init EXCEPT !.at = "enable"])

RegisterMainThread == Assign("main", {"ThreadId"}, [init EXCEPT !.at = "stream"])

AllocateStream == Assign("stream", {"ContextSwitches"}, NextThread("stream", "enable"))

EnableProfiling ==
    /\ init.at = "enable"
    /\ profiling' = TRUE
    /\ init' = [init EXCEPT !.at = "done"]
    /\ UNCHANGED <<fields, tracing, status, session>>

\* SetDebugRenderer, once; from here on frames are drawn.
SetDebugRenderer ==
    /\ init.at = "done"
    /\ init' = [init EXCEPT !.at = "ready"]
    /\ UNCHANGED <<fields, profiling, tracing, status, session>>

MainStep ==
    \/ InstallHooks \/ AllocateThreadStates \/ AllocateMemory \/ AllocateMetaTable \/ AllocateRecords
    \/ RegisterMainThread \/ AllocateStream \/ EnableProfiling \/ SetDebugRenderer

(***************************************************************************)
(* RegisterThread, by a worker, each time it loops, from the moment there  *)
(* are ThreadStates, whatever InitDebugState has still to do.  It uses its *)
(* state unchecked: an earlier call writes through the null pointer that   *)
(* GetThreadLocalStateFor warns of, which ends the process as any other    *)
(* crash does.                                                             *)
(***************************************************************************)
RegisterThread(t) ==
    /\ init.at \notin {"hooks", "states"}
    /\ fields' = [fields EXCEPT ![t] = @ \cup {"ThreadId"}]
    /\ UNCHANGED <<init, profiling, tracing, status, session>>

(***************************************************************************)
(* Win32TracingThread and the kernel's trace session.                      *)
(***************************************************************************)

\* Platform_EnableContextSwitchTracing, called once by the running program.
EnableContextSwitchTracing ==
    /\ init.at = "ready"
    /\ tracing.at = "none"
    /\ tracing' = [at |-> "wait", thread |-> Main]
    /\ UNCHANGED <<init, fields, profiling, status, session>>

\* Mutant of WaitForThread: the last thread is not waited for.
WaitForThreadShort ==
    /\ tracing.at = "wait"
    /\ "ThreadId" \in fields[tracing.thread]
    /\ tracing' = IF tracing.thread + 1 < WorkerCount THEN [tracing EXCEPT !.thread = @ + 1]
                  ELSE [at |-> "announce", thread |-> Main]
    /\ UNCHANGED <<init, fields, profiling, status, session>>

\* One round of the loops that sleep until every thread has registered; the
\* second loop asks what the first has seen, for a ThreadId is never taken back.
WaitForThread ==
    /\ tracing.at = "wait"
    /\ "ThreadId" \in fields[tracing.thread]
    /\ tracing' = IF tracing.thread < WorkerCount THEN [tracing EXCEPT !.thread = @ + 1]
                  ELSE [at |-> "announce", thread |-> Main]
    /\ UNCHANGED <<init, fields, profiling, status, session>>

TracingGoes(step) == tracing' = [tracing EXCEPT !.at = step]

Announce ==
    /\ tracing.at = "announce"
    /\ status' = "Starting"
    /\ TracingGoes("close")
    /\ UNCHANGED <<init, fields, profiling, session>>

\* Mutant of CloseAnyExistingTrace: only a session of this process is stopped.
CloseOwnTrace ==
    /\ tracing.at = "close"
    /\ \/ TracingGoes("start") /\ session' = (IF session = "ours" THEN "none" ELSE session)
       \/ TracingGoes("failed") /\ UNCHANGED session
    /\ UNCHANGED <<init, fields, profiling, status>>

\* Stops whatever session there is; that there was none counts as success.
CloseAnyExistingTrace ==
    /\ tracing.at = "close"
    /\ \/ TracingGoes("start") /\ session' = "none"
       \/ TracingGoes("failed") /\ UNCHANGED session
    /\ UNCHANGED <<init, fields, profiling, status>>

\* The kernel refuses a second session, and one without the privilege.
StartTrace ==
    /\ tracing.at = "start"
    /\ \/ session = "none" /\ session' = "ours" /\ TracingGoes("open")
       \/ TracingGoes("failed") /\ UNCHANGED session
    /\ UNCHANGED <<init, fields, profiling, status>>

\* From Running on, ProcessTrace calls back until the session ends.
OpenTrace ==
    /\ tracing.at = "open"
    /\ \/ TracingGoes("processing") /\ status' = "Running"
       \/ TracingGoes("failed") /\ UNCHANGED status
    /\ UNCHANGED <<init, fields, profiling, session>>

ProcessTraceReturns ==
    /\ tracing.at = "processing"
    /\ session # "ours"
    /\ TracingGoes("failed")
    /\ UNCHANGED <<init, fields, profiling, status, session>>

\* Mutant of Fail: the status is left alone before the trace is open.
FailUnlessStarting ==
    /\ tracing.at = "failed"
    /\ status' = (IF status = "Starting" THEN status ELSE "Error")
    /\ TracingGoes("exited")
    /\ UNCHANGED <<init, fields, profiling, session>>

\* Every way out of Win32TracingThread ends in Error.
Fail ==
    /\ tracing.at = "failed"
    /\ status' = "Error"
    /\ TracingGoes("exited")
    /\ UNCHANGED <<init, fields, profiling, session>>

TracingStep ==
    \/ WaitForThread \/ Announce \/ CloseAnyExistingTrace \/ StartTrace \/ OpenTrace
    \/ ProcessTraceReturns \/ Fail

\* Another program stops the session of the machine, or starts its own; that is
\* left out while nothing here would notice.
OtherTool ==
    /\ tracing.at \notin {"failed", "exited"}
    /\ tracing.at = "processing" => session = "ours"
    /\ session' = IF session = "none" THEN "other" ELSE "none"
    /\ UNCHANGED <<init, fields, profiling, tracing, status>>

\* The process dies and is started again; its session stays behind.
CrashAndRestart ==
    /\ init' = [at |-> "hooks", thread |-> Main]
    /\ fields' = NoFields
    /\ profiling' = FALSE
    /\ tracing' = [at |-> "none", thread |-> Main]
    /\ status' = "Unstarted"
    /\ session' = IF session = "ours" THEN "stale" ELSE session

StartupNext ==
    \/ MainStep
    \/ \E t \in Threads \ {Main} : RegisterThread(t)
    \/ EnableContextSwitchTracing
    \/ TracingStep
    \/ OtherTool

StartupSpec == StartupInit /\ [][StartupNext \/ CrashAndRestart]_startupVars

\* The main thread's program and the tracing thread run on, and every worker
\* loops, calling RegisterThread each time around.
StartupFairness ==
    /\ WF_startupVars(MainStep)
    /\ WF_startupVars(TracingStep)
    /\ \A t \in Threads \ {Main} : WF_startupVars(RegisterThread(t))

(***************************************************************************)
(* Properties.                                                             *)
(***************************************************************************)

\* Every variable has the type its declaration gives it.
StartupTypeOK ==
    /\ init \in [at : InitSteps, thread : Threads]
    /\ fields \in [Threads -> SUBSET Fields]
    /\ profiling \in BOOLEAN
    /\ tracing \in [at : TraceSteps, thread : Threads]
    /\ status \in {"Unstarted", "Starting", "Running", "Error"}
    /\ session \in {"none", "ours", "other", "stale"}

\* What the timers' constructor and ReserveMutexOpRecord use unchecked once they
\* have seen DebugDoScopeProfiling is there, in whichever thread they run.
GatedCallsFindState ==
    profiling => \A t \in Threads : {"Memory", "MetaTable", "MutexOps", "ScopeTrees"} \subseteq fields[t]

\* InitDebugMemoryAllocationSystem is already recorded while it sets the system
\* up: whatever it allocates finds the main thread's arena, and what it records
\* finds the main thread's MetaTable.
AllocationsFindState ==
    /\ init.at \in {"table", "records", "stream"} => "Memory" \in fields[Main]
    /\ init.at = "records" => "MetaTable" \in fields[Main]

\* The asserts of both callbacks: while the kernel calls back, every thread has
\* an id to compare the events with, and a stream to push them on.
CallbacksKnowThreads ==
    tracing.at = "processing" => \A t \in Threads : {"ThreadId", "ContextSwitches"} \subseteq fields[t]

\* A session that a crashed run left open is never what StartTrace fails on.
StaleSessionClosed == tracing.at = "start" => session # "stale"

\* A status of Running is not left behind by a trace that has ended: the window
\* says Running only while the trace is open or its end has not been noticed.
RunningIsNotStale == status = "Running" => tracing.at \in {"processing", "failed"}

\* Once asked for, tracing comes to Running or to Error, unless the process dies.
TracingSettles == tracing.at = "wait" ~> (status \in {"Running", "Error"} \/ tracing.at = "none")
=============================================================================
