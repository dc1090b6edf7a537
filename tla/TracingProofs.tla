---------------------------- MODULE TracingProofs ----------------------------
(***************************************************************************)
(* What holds of the start-up and of the tracing thread, for any number of *)
(* threads, any number of crashes and whatever the kernel's calls return,  *)
(* and of the blocks of context switches, for any number of blocks of any  *)
(* size and any events.                                                    *)
(***************************************************************************)
EXTENDS Tracing, DataInduction, SequenceTheorems, FunctionTheorems

(***************************************************************************)
(* The start-up.  What a flag or a callback relies on is never set at the  *)
(* same time as it: the induction follows the loops that set the fields,   *)
(* thread by thread, and the loops that wait for them.                     *)
(***************************************************************************)

Core == {"Memory", "MetaTable", "MutexOps", "ScopeTrees"}

\* The first loop has gone through the threads before init.thread.
CoreLoop ==
    /\ init.at \in {"hooks", "states", "main"} => init.thread = Main
    /\ init.at \in {"memory", "table", "records"} =>
          \A t \in Threads : t < init.thread => Core \subseteq fields[t]
    /\ init.at \in {"table", "records"} => "Memory" \in fields[init.thread]
    /\ init.at = "records" => "MetaTable" \in fields[init.thread]
    /\ init.at \in {"main", "stream", "enable", "done", "ready"} =>
          \A t \in Threads : Core \subseteq fields[t]

\* So has the loop of InitDebugDataSystem's streams.
StreamLoop ==
    /\ init.at \in {"stream", "enable", "done", "ready"} => "ThreadId" \in fields[Main]
    /\ init.at = "stream" => \A t \in Threads : t < init.thread => "ContextSwitches" \in fields[t]
    /\ init.at \in {"enable", "done", "ready"} => \A t \in Threads : "ContextSwitches" \in fields[t]

ProfilingComesLast == profiling => init.at \in {"done", "ready"}

\* The tracing thread begins when all that is done, and has waited for the threads
\* before tracing.thread.
WaitLoop ==
    /\ tracing.at # "none" => init.at = "ready"
    /\ tracing.at = "wait" => \A t \in Threads : t < tracing.thread => "ThreadId" \in fields[t]
    /\ tracing.at \notin {"none", "wait"} => \A t \in Threads : "ThreadId" \in fields[t]

IInv ==
    /\ StartupTypeOK
    /\ CoreLoop /\ StreamLoop /\ ProfilingComesLast /\ WaitLoop
    /\ StaleSessionClosed /\ RunningIsNotStale

\* The loops count threads from the main thread, which is the first, to the last.
LEMMA ThreadsAreNumbers ==
  /\ Main \in Threads /\ WorkerCount \in Threads
  /\ \A t \in Threads : t \in Nat
  /\ \A t, u \in Threads : t < u + 1 => t <= u
  BY WorkerAssumption DEF Threads, Main

\* The process begins, for the first time or after a crash.
LEMMA BeginIInv ==
  ASSUME init = [at |-> "hooks", thread |-> Main], fields = NoFields, profiling = FALSE,
         tracing = [at |-> "none", thread |-> Main], status = "Unstarted",
         session \in {"none", "ours", "other", "stale"}
  PROVE  IInv
  <1>1. StartupTypeOK
    BY ThreadsAreNumbers DEF StartupTypeOK, NoFields, InitSteps, TraceSteps, Fields
  <1>2. CoreLoop /\ StreamLoop /\ ProfilingComesLast /\ WaitLoop /\ StaleSessionClosed /\ RunningIsNotStale
    BY DEF CoreLoop, StreamLoop, ProfilingComesLast, WaitLoop, StaleSessionClosed, RunningIsNotStale
  <1> QED BY <1>1, <1>2 DEF IInv

\* A step of the main thread that sets fields.
LEMMA AssignKeeps ==
  ASSUME IInv, NEW step, NEW set \in SUBSET Fields, NEW then \in [at : InitSteps, thread : Threads],
         Assign(step, set, then)
  PROVE  /\ StartupTypeOK' /\ init.at = step /\ init' = then
         /\ fields'[init.thread] = fields[init.thread] \cup set
         /\ \A t \in Threads : t # init.thread => fields'[t] = fields[t]
         /\ \A t \in Threads : fields[t] \subseteq fields'[t]
         /\ profiling' = profiling /\ tracing' = tracing /\ status' = status /\ session' = session
         /\ init.thread \in Threads
  BY DEF IInv, StartupTypeOK, Assign

\* What follows a round of a loop.
LEMMA NextThreadOutcome ==
  ASSUME StartupTypeOK, NEW step \in InitSteps, NEW after \in InitSteps
  PROVE  /\ NextThread(step, after) \in [at : InitSteps, thread : Threads]
         /\ \/ /\ init.thread < WorkerCount
               /\ NextThread(step, after).at = step /\ NextThread(step, after).thread = init.thread + 1
            \/ /\ init.thread = WorkerCount
               /\ NextThread(step, after).at = after /\ NextThread(step, after).thread = Main
  <1>1. init.thread \in Threads /\ init.thread \in Nat /\ init.thread <= WorkerCount
    BY WorkerAssumption DEF StartupTypeOK, Threads
  <1>2. init.thread < WorkerCount => init.thread + 1 \in Threads
    BY <1>1, WorkerAssumption DEF Threads
  <1> QED BY <1>1, <1>2, ThreadsAreNumbers, WorkerAssumption DEF NextThread

LEMMA MainStepKeeps ==
  ASSUME IInv, MainStep
  PROVE  IInv'
  <1>0. /\ StartupTypeOK /\ CoreLoop /\ StreamLoop /\ ProfilingComesLast /\ WaitLoop
        /\ StaleSessionClosed /\ RunningIsNotStale
        /\ tracing.at # "none" => init.at = "ready"
        /\ init \in [at : InitSteps, thread : Threads]
    BY DEF IInv, WaitLoop, StartupTypeOK
  <1> USE DEF StaleSessionClosed, RunningIsNotStale
  <1>1. CASE InstallHooks
    <2>1. init' = [at |-> "states", thread |-> Main] /\ StartupTypeOK'
      BY <1>0, <1>1 DEF InstallHooks, StartupTypeOK, InitSteps, CoreLoop
    <2> QED BY <1>0, <1>1, <2>1 DEF InstallHooks, IInv, CoreLoop, StreamLoop, ProfilingComesLast, WaitLoop
  <1>2. CASE AllocateThreadStates
    <2>1. init' = [at |-> "memory", thread |-> Main] /\ StartupTypeOK'
      BY <1>0, <1>2 DEF AllocateThreadStates, StartupTypeOK, InitSteps, CoreLoop
    <2>2. CoreLoop'
      BY <2>1, ThreadsAreNumbers DEF CoreLoop, Main
    <2> QED BY <1>0, <1>2, <2>1, <2>2 DEF AllocateThreadStates, IInv, StreamLoop, ProfilingComesLast, WaitLoop
  <1>3. CASE AllocateMemory
    <2>1. [init EXCEPT !.at = "table"] \in [at : InitSteps, thread : Threads] /\ {"Memory"} \in SUBSET Fields
      BY <1>0 DEF InitSteps, Fields
    <2>2. /\ StartupTypeOK' /\ init.at = "memory" /\ init' = [init EXCEPT !.at = "table"]
          /\ fields'[init.thread] = fields[init.thread] \cup {"Memory"}
          /\ \A t \in Threads : fields[t] \subseteq fields'[t]
          /\ profiling' = profiling /\ tracing' = tracing /\ status' = status /\ session' = session
      BY <1>3, <2>1, AssignKeeps DEF AllocateMemory
    <2>3. init'.at = "table" /\ init'.thread = init.thread
      BY <1>0, <2>2
    <2>4. CoreLoop'
      BY <1>0, <2>2, <2>3 DEF CoreLoop
    <2> QED BY <1>0, <2>2, <2>3, <2>4 DEF IInv, StreamLoop, ProfilingComesLast, WaitLoop
  <1>4. CASE AllocateMetaTable
    <2>1. [init EXCEPT !.at = "records"] \in [at : InitSteps, thread : Threads] /\ {"MetaTable"} \in SUBSET Fields
      BY <1>0 DEF InitSteps, Fields
    <2>2. /\ StartupTypeOK' /\ init.at = "table" /\ init' = [init EXCEPT !.at = "records"]
          /\ fields'[init.thread] = fields[init.thread] \cup {"MetaTable"} /\ init.thread \in Threads
          /\ \A t \in Threads : fields[t] \subseteq fields'[t]
          /\ profiling' = profiling /\ tracing' = tracing /\ status' = status /\ session' = session
      BY <1>4, <2>1, AssignKeeps DEF AllocateMetaTable
    <2>3. init'.at = "records" /\ init'.thread = init.thread
      BY <1>0, <2>2
    <2>4. CoreLoop'
      BY <1>0, <2>2, <2>3 DEF CoreLoop
    <2> QED BY <1>0, <2>2, <2>3, <2>4 DEF IInv, StreamLoop, ProfilingComesLast, WaitLoop
  <1>5. CASE AllocateRecords
    <2> DEFINE then == NextThread("memory", "main")
    <2>1. /\ then \in [at : InitSteps, thread : Threads]
          /\ \/ init.thread < WorkerCount /\ then.at = "memory" /\ then.thread = init.thread + 1
             \/ init.thread = WorkerCount /\ then.at = "main" /\ then.thread = Main
      BY <1>0, NextThreadOutcome DEF InitSteps
    <2> HIDE DEF then
    <2>2. /\ StartupTypeOK' /\ init.at = "records" /\ init' = then
          /\ fields'[init.thread] = fields[init.thread] \cup {"MutexOps", "ScopeTrees"}
          /\ init.thread \in Threads
          /\ \A t \in Threads : fields[t] \subseteq fields'[t]
          /\ profiling' = profiling /\ tracing' = tracing /\ status' = status /\ session' = session
      <3>1. {"MutexOps", "ScopeTrees"} \in SUBSET Fields
        BY DEF Fields
      <3>2. Assign("records", {"MutexOps", "ScopeTrees"}, then)
        BY <1>5 DEF AllocateRecords, then
      <3> QED BY <2>1, <3>1, <3>2, AssignKeeps
    <2>3. Core \subseteq fields'[init.thread]
      BY <1>0, <2>2 DEF CoreLoop, Core
    <2>4. \A t \in Threads : t < init.thread => Core \subseteq fields'[t]
      BY <1>0, <2>2 DEF CoreLoop
    <2>5. \A t \in Threads : t <= init.thread => Core \subseteq fields'[t]
      BY <2>2, <2>3, <2>4, ThreadsAreNumbers
    <2>6. CASE init.thread < WorkerCount /\ then.at = "memory" /\ then.thread = init.thread + 1
      <3>1. \A t \in Threads : t < then.thread => Core \subseteq fields'[t]
        BY <2>2, <2>5, <2>6, ThreadsAreNumbers
      <3>2. CoreLoop'
        BY <2>2, <2>6, <3>1 DEF CoreLoop
      <3> QED BY <1>0, <2>2, <2>6, <3>2 DEF IInv, StreamLoop, ProfilingComesLast, WaitLoop
    <2>7. CASE init.thread = WorkerCount /\ then.at = "main" /\ then.thread = Main
      <3>1. \A t \in Threads : Core \subseteq fields'[t]
        BY <2>2, <2>5, <2>7, WorkerAssumption DEF Threads
      <3>2. CoreLoop'
        BY <2>2, <2>7, <3>1 DEF CoreLoop
      <3> QED BY <1>0, <2>2, <2>7, <3>2 DEF IInv, StreamLoop, ProfilingComesLast, WaitLoop
    <2> QED BY <2>1, <2>6, <2>7
  <1>6. CASE RegisterMainThread
    <2>1. [init EXCEPT !.at = "stream"] \in [at : InitSteps, thread : Threads] /\ {"ThreadId"} \in SUBSET Fields
      BY <1>0 DEF InitSteps, Fields
    <2>2. /\ StartupTypeOK' /\ init.at = "main" /\ init' = [init EXCEPT !.at = "stream"]
          /\ fields'[init.thread] = fields[init.thread] \cup {"ThreadId"}
          /\ \A t \in Threads : fields[t] \subseteq fields'[t]
          /\ profiling' = profiling /\ tracing' = tracing /\ status' = status /\ session' = session
      BY <1>6, <2>1, AssignKeeps DEF RegisterMainThread
    <2>3. init'.at = "stream" /\ init'.thread = Main /\ init.thread = Main
      BY <1>0, <2>2 DEF CoreLoop
    <2>4. CoreLoop'
      BY <1>0, <2>2, <2>3 DEF CoreLoop
    <2>5. StreamLoop'
      BY <2>2, <2>3, ThreadsAreNumbers DEF StreamLoop, Main
    <2> QED BY <1>0, <2>2, <2>3, <2>4, <2>5 DEF IInv, ProfilingComesLast, WaitLoop
  <1>7. CASE AllocateStream
    <2> DEFINE then == NextThread("stream", "enable")
    <2>1. /\ then \in [at : InitSteps, thread : Threads]
          /\ \/ init.thread < WorkerCount /\ then.at = "stream" /\ then.thread = init.thread + 1
             \/ init.thread = WorkerCount /\ then.at = "enable" /\ then.thread = Main
      BY <1>0, NextThreadOutcome DEF InitSteps
    <2> HIDE DEF then
    <2>2. /\ StartupTypeOK' /\ init.at = "stream" /\ init' = then
          /\ fields'[init.thread] = fields[init.thread] \cup {"ContextSwitches"}
          /\ init.thread \in Threads
          /\ \A t \in Threads : fields[t] \subseteq fields'[t]
          /\ profiling' = profiling /\ tracing' = tracing /\ status' = status /\ session' = session
      <3>1. {"ContextSwitches"} \in SUBSET Fields
        BY DEF Fields
      <3>2. Assign("stream", {"ContextSwitches"}, then)
        BY <1>7 DEF AllocateStream, then
      <3> QED BY <2>1, <3>1, <3>2, AssignKeeps
    <2>3. \A t \in Threads : t < init.thread => "ContextSwitches" \in fields'[t]
      BY <1>0, <2>2 DEF StreamLoop
    <2>4. \A t \in Threads : t <= init.thread => "ContextSwitches" \in fields'[t]
      BY <2>2, <2>3, ThreadsAreNumbers
    <2>5. "ThreadId" \in fields'[Main] /\ \A t \in Threads : Core \subseteq fields'[t]
      BY <1>0, <2>2, ThreadsAreNumbers DEF StreamLoop, CoreLoop
    <2>6. CASE init.thread < WorkerCount /\ then.at = "stream" /\ then.thread = init.thread + 1
      <3>1. \A t \in Threads : t < then.thread => "ContextSwitches" \in fields'[t]
        BY <2>2, <2>4, <2>6, ThreadsAreNumbers
      <3>2. CoreLoop' /\ StreamLoop'
        BY <2>2, <2>5, <2>6, <3>1 DEF CoreLoop, StreamLoop
      <3> QED BY <1>0, <2>2, <2>6, <3>2 DEF IInv, ProfilingComesLast, WaitLoop
    <2>7. CASE init.thread = WorkerCount /\ then.at = "enable" /\ then.thread = Main
      <3>1. \A t \in Threads : "ContextSwitches" \in fields'[t]
        BY <2>2, <2>4, <2>7, WorkerAssumption DEF Threads
      <3>2. CoreLoop' /\ StreamLoop'
        BY <2>2, <2>5, <2>7, <3>1 DEF CoreLoop, StreamLoop
      <3> QED BY <1>0, <2>2, <2>7, <3>2 DEF IInv, ProfilingComesLast, WaitLoop
    <2> QED BY <2>1, <2>6, <2>7
  <1>8. CASE EnableProfiling
    <2>1. init'.at = "done" /\ init'.thread = init.thread /\ init.at = "enable" /\ StartupTypeOK'
      BY <1>0, <1>8 DEF EnableProfiling, StartupTypeOK, InitSteps
    <2> QED BY <1>0, <1>8, <2>1 DEF EnableProfiling, IInv, CoreLoop, StreamLoop, ProfilingComesLast, WaitLoop
  <1>9. CASE SetDebugRenderer
    <2>1. init'.at = "ready" /\ init'.thread = init.thread /\ init.at = "done" /\ StartupTypeOK'
      BY <1>0, <1>9 DEF SetDebugRenderer, StartupTypeOK, InitSteps
    <2> QED BY <1>0, <1>9, <2>1 DEF SetDebugRenderer, IInv, CoreLoop, StreamLoop, ProfilingComesLast, WaitLoop
  <1> QED BY <1>1, <1>2, <1>3, <1>4, <1>5, <1>6, <1>7, <1>8, <1>9 DEF MainStep

\* A worker registers, which takes nothing from any thread.
LEMMA RegisterKeeps ==
  ASSUME IInv, NEW u \in Threads, RegisterThread(u)
  PROVE  IInv'
  <1>1. /\ init' = init /\ profiling' = profiling /\ tracing' = tracing /\ status' = status /\ session' = session
        /\ fields' = [fields EXCEPT ![u] = @ \cup {"ThreadId"}]
    BY DEF RegisterThread
  <1>2. StartupTypeOK' /\ \A t \in Threads : fields[t] \subseteq fields'[t]
    BY <1>1 DEF IInv, StartupTypeOK, Fields
  <1>3. CoreLoop' /\ StreamLoop'
    BY <1>1, <1>2, ThreadsAreNumbers DEF IInv, CoreLoop, StreamLoop
  <1>4. WaitLoop'
    BY <1>1, <1>2 DEF IInv, WaitLoop
  <1> QED BY <1>1, <1>2, <1>3, <1>4 DEF IInv, ProfilingComesLast, StaleSessionClosed, RunningIsNotStale

\* Steps that leave the main thread and the fields alone.
LEMMA TracingKeeps ==
  ASSUME IInv, TracingStep \/ EnableContextSwitchTracing \/ OtherTool
  PROVE  IInv'
  <1>1. init' = init /\ fields' = fields /\ profiling' = profiling
    BY DEF TracingStep, EnableContextSwitchTracing, OtherTool, WaitForThread, Announce, CloseAnyExistingTrace,
           StartTrace, OpenTrace, ProcessTraceReturns, Fail
  <1>2. CoreLoop' /\ StreamLoop' /\ ProfilingComesLast'
    BY <1>1 DEF IInv, CoreLoop, StreamLoop, ProfilingComesLast
  <1>3. tracing \in [at : TraceSteps, thread : Threads] /\ tracing.thread \in Nat
    BY ThreadsAreNumbers DEF IInv, StartupTypeOK
  <1>4. SUFFICES StartupTypeOK' /\ WaitLoop' /\ StaleSessionClosed' /\ RunningIsNotStale'
    BY <1>2 DEF IInv
  <1> USE DEF TraceSteps, StaleSessionClosed, RunningIsNotStale
  <1>5. CASE EnableContextSwitchTracing
    <2>1. tracing' = [at |-> "wait", thread |-> Main] /\ status' = status /\ session' = session /\ init.at = "ready"
          /\ tracing.at = "none"
      BY <1>5 DEF EnableContextSwitchTracing
    <2>2. StartupTypeOK' /\ WaitLoop'
      BY <1>1, <2>1, ThreadsAreNumbers DEF IInv, StartupTypeOK, WaitLoop, Main
    <2> QED BY <2>1, <2>2 DEF IInv
  <1>6. CASE WaitForThread
    <2>1. /\ tracing.at = "wait" /\ "ThreadId" \in fields[tracing.thread] /\ status' = status /\ session' = session
          /\ tracing.thread \in Threads
      BY <1>3, <1>6 DEF WaitForThread
    <2>2. \A t \in Threads : t <= tracing.thread => "ThreadId" \in fields[t]
      BY <1>3, <2>1, ThreadsAreNumbers DEF IInv, WaitLoop
    <2>3. CASE tracing.thread < WorkerCount
      <3>1. tracing' = [tracing EXCEPT !.thread = @ + 1] /\ tracing.thread + 1 \in Threads
        BY <1>6, <2>1, <2>3, WorkerAssumption DEF WaitForThread, Threads
      <3>2. tracing'.at = "wait" /\ tracing'.thread = tracing.thread + 1 /\ StartupTypeOK'
        BY <1>1, <1>3, <2>1, <3>1 DEF IInv, StartupTypeOK
      <3>3. \A t \in Threads : t < tracing'.thread => "ThreadId" \in fields'[t]
        BY <1>1, <2>1, <2>2, <3>2, ThreadsAreNumbers
      <3> QED BY <1>1, <2>1, <3>2, <3>3 DEF IInv, WaitLoop
    <2>4. CASE ~(tracing.thread < WorkerCount)
      <3>1. tracing' = [at |-> "announce", thread |-> Main] /\ StartupTypeOK'
        BY <1>1, <1>6, <2>1, <2>4, ThreadsAreNumbers DEF WaitForThread, IInv, StartupTypeOK
      <3>2. tracing.thread = WorkerCount
        BY <2>1, <2>4, WorkerAssumption DEF Threads
      <3>3. \A t \in Threads : "ThreadId" \in fields'[t]
        BY <1>1, <2>2, <3>2, WorkerAssumption DEF Threads
      <3> QED BY <1>1, <2>1, <3>1, <3>3 DEF IInv, WaitLoop
    <2> QED BY <2>3, <2>4
  <1>7. CASE OtherTool
    <2>1. tracing' = tracing /\ status' = status /\ session' \in {"none", "other"}
      BY <1>7 DEF OtherTool
    <2> QED BY <1>1, <2>1 DEF IInv, StartupTypeOK, WaitLoop
  <1>8. CASE Announce \/ CloseAnyExistingTrace \/ StartTrace \/ OpenTrace \/ ProcessTraceReturns \/ Fail
    <2>1. /\ tracing.at \notin {"none", "wait"} /\ tracing'.thread = tracing.thread
          /\ tracing' \in [at : TraceSteps, thread : Threads] /\ tracing'.at \notin {"none", "wait"}
      BY <1>3, <1>8 DEF Announce, CloseAnyExistingTrace, StartTrace, OpenTrace, ProcessTraceReturns, Fail, TracingGoes
    <2>2. /\ session' \in {"none", "ours", session}
          /\ status' \in {"Starting", "Running", "Error", status}
      BY <1>8 DEF Announce, CloseAnyExistingTrace, StartTrace, OpenTrace, ProcessTraceReturns, Fail
    <2>3. StartupTypeOK' /\ WaitLoop'
      BY <1>1, <2>1, <2>2 DEF IInv, StartupTypeOK, WaitLoop
    <2>4. StaleSessionClosed'
      BY <1>3, <1>8 DEF Announce, CloseAnyExistingTrace, StartTrace, OpenTrace, ProcessTraceReturns, Fail, TracingGoes
    <2>5. RunningIsNotStale'
      BY <1>3, <1>8 DEF IInv, Announce, CloseAnyExistingTrace, StartTrace, OpenTrace, ProcessTraceReturns, Fail,
                        TracingGoes
    <2> QED BY <2>3, <2>4, <2>5
  <1> QED BY <1>5, <1>6, <1>7, <1>8 DEF TracingStep

\* The inductive invariant of the start-up, which the callbacks and the windows
\* leave alone.
THEOREM StartupInvariant == Spec => []IInv
  <1>1. Init => IInv
    BY BeginIInv DEF Init, StartupInit
  <1>2. IInv /\ [Next]_vars => IInv'
    <2> SUFFICES ASSUME IInv, [Next]_vars PROVE IInv'
      OBVIOUS
    <2>1. CASE UNCHANGED startupVars
      BY <2>1 DEF startupVars, IInv, StartupTypeOK, CoreLoop, StreamLoop, ProfilingComesLast, WaitLoop,
                  StaleSessionClosed, RunningIsNotStale
    <2>2. CASE StartupNext
      BY <2>2, MainStepKeeps, RegisterKeeps, TracingKeeps DEF StartupNext
    <2>3. CASE CrashAndRestart
      <3>1. session' \in {"none", "ours", "other", "stale"}
        BY <2>3 DEF CrashAndRestart, IInv, StartupTypeOK
      <3>2. /\ init' = [at |-> "hooks", thread |-> Main] /\ fields' = NoFields /\ profiling' = FALSE
            /\ tracing' = [at |-> "none", thread |-> Main] /\ status' = "Unstarted"
        BY <2>3 DEF CrashAndRestart
      <3>3. StartupTypeOK'
        BY <3>1, <3>2, ThreadsAreNumbers DEF StartupTypeOK, NoFields, InitSteps, TraceSteps, Fields
      <3>4. CoreLoop' /\ StreamLoop' /\ ProfilingComesLast' /\ WaitLoop' /\ StaleSessionClosed' /\ RunningIsNotStale'
        BY <3>2 DEF CoreLoop, StreamLoop, ProfilingComesLast, WaitLoop, StaleSessionClosed, RunningIsNotStale
      <3> QED BY <3>3, <3>4 DEF IInv
    <2> QED BY <2>1, <2>2, <2>3 DEF Next, vars, Callback, DrawFrame, StartupStep, Crash
  <1> QED BY <1>1, <1>2, PTL DEF Spec

\* Every variable of the start-up keeps its type.
THEOREM StartupTypes == Spec => []StartupTypeOK
  <1>1. IInv => StartupTypeOK
    BY DEF IInv
  <1> QED BY <1>1, StartupInvariant, PTL

\* Whoever sees DebugDoScopeProfiling finds the arena, the tables and the trees of
\* its thread, whichever of any number of threads it is.
THEOREM GatedCallsSafe == Spec => []GatedCallsFindState
  <1>1. IInv => GatedCallsFindState
    BY DEF IInv, ProfilingComesLast, CoreLoop, Core, GatedCallsFindState
  <1> QED BY <1>1, StartupInvariant, PTL

\* The allocations of the start-up itself find the main thread's arena, and the
\* records of them its MetaTable.
THEOREM AllocationsSafe == Spec => []AllocationsFindState
  <1>1. IInv => AllocationsFindState
    <2> SUFFICES ASSUME IInv PROVE AllocationsFindState
      OBVIOUS
    <2>1. init.thread \in Threads /\ (init.thread = Main \/ Main < init.thread) /\ Main \in Threads
      BY WorkerAssumption DEF IInv, StartupTypeOK, Threads, Main
    <2> QED BY <2>1 DEF IInv, CoreLoop, Core, AllocationsFindState
  <1> QED BY <1>1, StartupInvariant, PTL

\* The assertions of both callbacks hold: every thread the kernel's events may be
\* about has its id and its stream.
THEOREM CallbacksSafe == Spec => []CallbacksKnowThreads
  <1>1. IInv => CallbacksKnowThreads
    BY DEF IInv, StreamLoop, WaitLoop, CallbacksKnowThreads
  <1> QED BY <1>1, StartupInvariant, PTL

\* A session left by a crash is closed before StartTrace is called.
THEOREM StaleSessionIsClosed == Spec => []StaleSessionClosed
  <1>1. IInv => StaleSessionClosed
    BY DEF IInv
  <1> QED BY <1>1, StartupInvariant, PTL

\* Running is never the status of a tracing thread that has exited.
THEOREM RunningIsTrue == Spec => []RunningIsNotStale
  <1>1. IInv => RunningIsNotStale
    BY DEF IInv
  <1> QED BY <1>1, StartupInvariant, PTL

\* A frame is only being drawn when the main thread is through with the start-up.
DrawnWhenReady ==
    /\ DOMAIN draw = {"at", "block", "visited"}
    /\ draw.at # "idle" => init.at = "ready"

LEMMA DrawnWhenReadyStays ==
  ASSUME IInv, DrawnWhenReady, Next
  PROVE  DrawnWhenReady'
  <1>1. CASE Callback
    <2>1. init' = init /\ (draw' = draw \/ draw' = [draw EXCEPT !.visited = {}])
      BY <1>1 DEF Callback, TracerStep, PushContextSwitch, Append1, Reuse, Allocate, Extend, BeginBufferCallback,
                  BufferCallback, Sort, FreeFirst, StopFreeing, EmptyLast, startupVars
    <2> QED BY <2>1 DEF DrawnWhenReady
  <1>2. CASE DrawFrame
    <2>1. init' = init /\ init.at = "ready"
      BY <1>2 DEF DrawFrame, startupVars
    <2>2. DOMAIN draw' = {"at", "block", "visited"}
      BY <1>2 DEF DrawFrame, DrawStep, StoreMaxCycles, StoreMinCycles, DrawNextBlock, DrawnWhenReady, NotDrawing
    <2> QED BY <2>1, <2>2 DEF DrawnWhenReady
  <1>3. CASE StartupStep
    <2>1. draw' = draw /\ StartupNext
      BY <1>3 DEF StartupStep, streamVars
    <2>2. init.at = "ready" => init' = init
      BY <2>1 DEF StartupNext, MainStep, InstallHooks, AllocateThreadStates, AllocateMemory, AllocateMetaTable,
                  AllocateRecords, RegisterMainThread, AllocateStream, EnableProfiling, SetDebugRenderer, Assign,
                  RegisterThread, EnableContextSwitchTracing, TracingStep, WaitForThread, Announce,
                  CloseAnyExistingTrace, StartTrace, OpenTrace, ProcessTraceReturns, Fail, OtherTool
    <2> QED BY <2>1, <2>2 DEF DrawnWhenReady
  <1>4. CASE Crash
    BY <1>4 DEF Crash, StreamRestart, NotDrawing, DrawnWhenReady
  <1> QED BY <1>1, <1>2, <1>3, <1>4 DEF Next

\* Whatever thread the window finds registered has a stream to walk.
THEOREM DrawingSafe == Spec => []DrawnThreadsHaveStreams
  <1>1. Init => DrawnWhenReady
    BY DEF Init, StreamInit, NotDrawing, DrawnWhenReady
  <1>2. IInv /\ DrawnWhenReady /\ [Next]_vars => DrawnWhenReady'
    <2>1. ASSUME DrawnWhenReady, UNCHANGED vars PROVE DrawnWhenReady'
      BY <2>1 DEF vars, startupVars, streamVars, DrawnWhenReady
    <2> QED BY <2>1, DrawnWhenReadyStays
  <1>3. IInv /\ DrawnWhenReady => DrawnThreadsHaveStreams
    BY DEF IInv, StreamLoop, DrawnWhenReady, DrawnThreadsHaveStreams
  <1> QED BY <1>1, <1>2, <1>3, StartupInvariant, PTL DEF Spec

(***************************************************************************)
(* The blocks of context switches.  Next links them into two lists, and    *)
(* what Following finds is what the induction says is there: every step    *)
(* that links or unlinks a block is an operation on the two sequences.     *)
(***************************************************************************)

Ends == Blocks \cup {NoBlock}

\* The blocks of l follow one another, from block b to the end.
IsPath(links, l, b) ==
    /\ l \in Seq(Blocks)
    /\ l = << >> => b = NoBlock
    /\ l # << >> => b = l[1]
    /\ \A i \in 1 .. Len(l) : links[l[i]] = IF i = Len(l) THEN NoBlock ELSE l[i + 1]

LEMMA NoBlockIsNone ==
  /\ NoBlock \notin Blocks /\ BlockCount \in Nat /\ 0 \in 0 .. BlockCount + 1
  /\ BlockCount + 1 \in 0 .. BlockCount + 1
  BY StreamAssumption DEF Blocks, NoBlock

\* Following takes one step at a time.
LEMMA FollowingSteps ==
  ASSUME NEW links \in [Blocks -> Ends]
  PROVE  /\ \A n \in 0 .. BlockCount + 1 : Following(links)[n] \in [Ends -> Seq(Blocks)]
         /\ \A x \in Ends : Following(links)[0][x] = << >>
         /\ \A n \in 1 .. BlockCount + 1 : \A x \in Ends :
              Following(links)[n][x] =
                IF x = NoBlock THEN << >> ELSE <<x>> \o Following(links)[n - 1][links[x]]
  <1> DEFINE D == [Ends -> Seq(Blocks)]
             none == [x \in Ends |-> << >>]
             Longer(g) == [x \in Ends |-> IF x = NoBlock THEN << >> ELSE <<x>> \o g[links[x]]]
             step == [p \in D \X Nat |-> Longer(p[1])]
             Walks(f) == f = [n \in 0 .. BlockCount + 1 |->
                                [x \in Blocks \cup {NoBlock} |->
                                    IF n = 0 \/ x = NoBlock THEN << >> ELSE <<x>> \o f[n - 1][links[x]]]]
             N == BlockCount + 1
  <1>1. N \in Nat /\ \A n \in 1 .. N : n \in Nat /\ n # 0 /\ n - 1 \in 0 .. N /\ n \in 0 .. N
    BY NoBlockIsNone
  <1>2. none \in D
    OBVIOUS
  <1>3. \A g \in D : Longer(g) \in D
    <2> SUFFICES ASSUME NEW g \in D, NEW x \in Ends, x # NoBlock
                 PROVE  <<x>> \o g[links[x]] \in Seq(Blocks)
      OBVIOUS
    <2>1. x \in Blocks /\ links[x] \in Ends /\ g[links[x]] \in Seq(Blocks)
      BY DEF Ends
    <2> QED BY <2>1
  <1>4. IsStep(D, step)
    <2> HIDE DEF D, Longer
    <2> QED BY <1>3 DEF IsStep
  <1>5. PICK f : Reaches(D, none, step, N, f)
    <2> HIDE DEF D, none, step, N
    <2> QED BY <1>1, <1>2, <1>4, Iterated
  <1>6. f \in [0 .. N -> D] /\ f[0] = none /\ \A n \in 1 .. N : f[n] = step[<<f[n - 1], n>>]
    <2> HIDE DEF D, none, step, N
    <2> QED BY <1>5 DEF Reaches
  <1>7. \A n \in 1 .. N : f[n] = Longer(f[n - 1])
    <2> SUFFICES ASSUME NEW n \in 1 .. N PROVE f[n] = Longer(f[n - 1])
      OBVIOUS
    <2> HIDE DEF D, none, Longer, N
    <2> QED BY <1>1, <1>6
  <1>8. Walks(f)
    <2>1. \A n \in 0 .. N : f[n] = [x \in Ends |-> IF n = 0 \/ x = NoBlock THEN << >> ELSE <<x>> \o f[n - 1][links[x]]]
      <3> SUFFICES ASSUME NEW n \in 0 .. N
                   PROVE  f[n] = [x \in Ends |-> IF n = 0 \/ x = NoBlock THEN << >> ELSE <<x>> \o f[n - 1][links[x]]]
        OBVIOUS
      <3>1. n = 0 \/ n \in 1 .. N
        BY <1>1
      <3>2. n \in 1 .. N => n # 0
        BY <1>1
      <3>3. f[0] = none
        BY <1>6
      <3>4. CASE n = 0
        BY <3>3, <3>4
      <3>5. CASE n \in 1 .. N
        BY <1>7, <3>2, <3>5
      <3> QED BY <3>1, <3>4, <3>5
    <2>2. f \in [0 .. N -> D]
      BY <1>6
    <2> HIDE DEF D
    <2> QED BY <2>1, <2>2 DEF Ends
  <1> DEFINE w == Following(links)
  <1>9. Walks(w)
    <2>1. w = CHOOSE g : Walks(g)
      BY Zenon DEF Following
    <2> HIDE DEF Walks, w
    <2> QED BY <1>8, <2>1
  <1>10. \A n \in 0 .. N : w[n] = [x \in Ends |-> IF n = 0 \/ x = NoBlock THEN << >> ELSE <<x>> \o w[n - 1][links[x]]]
    <2> HIDE DEF w
    <2> QED BY <1>9 DEF Ends
  <1>11. w[0] = none
    <2> HIDE DEF w
    <2> QED BY <1>10, NoBlockIsNone
  <1>12. \A n \in 1 .. N : w[n] = Longer(w[n - 1])
    <2> SUFFICES ASSUME NEW n \in 1 .. N PROVE w[n] = Longer(w[n - 1])
      OBVIOUS
    <2>1. n # 0 /\ n \in 0 .. N
      BY <1>1
    <2> HIDE DEF w, N
    <2> QED BY <1>10, <2>1
  <1>13. \A n \in 0 .. N : w[n] \in D
    <2> DEFINE Bad == {n \in 0 .. N : w[n] \notin D}
    <2> SUFFICES ASSUME Bad # {} PROVE FALSE
      OBVIOUS
    <2>1. PICK n \in Bad : \A m \in Bad : n <= m
      <3>1. Bad \subseteq Nat
        OBVIOUS
      <3> HIDE DEF Bad
      <3> QED BY <3>1, LeastNumber
    <2>2. n \in 0 .. N /\ w[n] \notin D
      OBVIOUS
    <2> HIDE DEF D, w, none, Longer
    <2>3. n \in 1 .. N
      BY <1>1, <1>2, <1>11, <2>2
    <2>4. n - 1 \notin Bad
      <3>1. ~(n <= n - 1)
        BY <1>1, <2>3
      <3> HIDE DEF Bad
      <3> QED BY <2>1, <3>1
    <2>5. w[n - 1] \in D
      BY <1>1, <2>3, <2>4
    <2> QED BY <1>3, <1>12, <2>2, <2>3, <2>5
  <1> HIDE DEF w, D
  <1>14. \A x \in Ends : w[0][x] = << >>
    BY <1>11
  <1>15. \A n \in 1 .. N : \A x \in Ends : w[n][x] = IF x = NoBlock THEN << >> ELSE <<x>> \o w[n - 1][links[x]]
    BY <1>12
  <1> QED BY <1>13, <1>14, <1>15 DEF w, D

\* The rest of a path is a path.
LEMMA PathTail ==
  ASSUME NEW links \in [Blocks -> Ends], NEW l, NEW b, IsPath(links, l, b), l # << >>
  PROVE  /\ b \in Blocks /\ IsPath(links, Tail(l), links[b]) /\ Len(Tail(l)) = Len(l) - 1
         /\ l = <<b>> \o Tail(l)
  <1>0. l \in Seq(Blocks) /\ b = l[1] /\ Len(l) \in Nat /\ Len(l) > 0
        /\ \A i \in 1 .. Len(l) : links[l[i]] = IF i = Len(l) THEN NoBlock ELSE l[i + 1]
    BY DEF IsPath
  <1>1. b \in Blocks
    BY <1>0
  <1>2. /\ Tail(l) \in Seq(Blocks) /\ Len(Tail(l)) = Len(l) - 1
        /\ \A i \in 1 .. Len(l) - 1 : Tail(l)[i] = l[i + 1]
    BY <1>0
  <1> DEFINE t == Tail(l)
  <1>3. t \in Seq(Blocks) /\ Len(t) = Len(l) - 1 /\ \A i \in 1 .. Len(l) - 1 : t[i] = l[i + 1]
    BY <1>2
  <1> HIDE DEF t
  <1>4. links[b] = IF 1 = Len(l) THEN NoBlock ELSE l[2]
    <2>1. 1 \in 1 .. Len(l) /\ 1 + 1 = 2 /\ b = l[1]
      BY <1>0
    <2>2. links[l[1]] = IF 1 = Len(l) THEN NoBlock ELSE l[1 + 1]
      BY <1>0, <2>1
    <2> QED BY <2>1, <2>2
  <1>5. (t = << >> => links[b] = NoBlock) /\ (t # << >> => links[b] = t[1])
    <2>1. t = << >> => Len(l) = 1
      BY <1>0, <1>3
    <2>2. t # << >> => Len(l) # 1 /\ t[1] = l[2]
      <3> SUFFICES ASSUME t # << >> PROVE Len(l) # 1 /\ t[1] = l[2]
        OBVIOUS
      <3>1. Len(t) # 0 /\ Len(t) \in Nat
        BY <1>3
      <3>2. 1 \in 1 .. Len(l) - 1
        BY <1>0, <1>3, <3>1
      <3> QED BY <1>3, <3>2
    <2> QED BY <1>4, <2>1, <2>2
  <1>7. \A i \in 1 .. Len(t) : links[t[i]] = IF i = Len(t) THEN NoBlock ELSE t[i + 1]
    <2> SUFFICES ASSUME NEW i \in 1 .. Len(t)
                 PROVE  links[t[i]] = IF i = Len(t) THEN NoBlock ELSE t[i + 1]
      OBVIOUS
    <2>1. i \in 1 .. Len(l) - 1 /\ i + 1 \in 1 .. Len(l) /\ i \in Nat
      BY <1>0, <1>3
    <2>2. t[i] = l[i + 1]
      BY <1>3, <2>1
    <2>3. links[l[i + 1]] = IF i + 1 = Len(l) THEN NoBlock ELSE l[(i + 1) + 1]
      BY <1>0, <2>1
    <2>4. i + 1 # Len(l) => t[i + 1] = l[(i + 1) + 1]
      <3>1. i + 1 # Len(l) => i + 1 \in 1 .. Len(l) - 1
        BY <1>0, <2>1
      <3> QED BY <1>3, <3>1
    <2> QED BY <1>0, <1>3, <2>1, <2>2, <2>3, <2>4
  <1>6. l = <<b>> \o Tail(l)
    <2> DEFINE m == <<b>> \o t
    <2>2. m \in Seq(Blocks) /\ Len(m) = 1 + Len(t)
          /\ \A i \in 1 .. 1 + Len(t) : m[i] = IF i = 1 THEN b ELSE t[i - 1]
      BY <1>1, <1>3
    <2>3. \A i \in 1 .. Len(l) : l[i] = m[i]
      <3> HIDE DEF m
      <3> SUFFICES ASSUME NEW i \in 1 .. Len(l) PROVE l[i] = m[i]
        OBVIOUS
      <3>1. i \in Int /\ (i = 1 \/ (i - 1 \in 1 .. Len(l) - 1 /\ (i - 1) + 1 = i))
        BY <1>0
      <3> QED BY <1>0, <1>3, <2>2, <3>1
    <2> HIDE DEF m
    <2>4. Len(l) = Len(m)
      BY <1>0, <1>3, <2>2
    <2> QED BY <1>0, <2>2, <2>3, <2>4, SeqEqual DEF m, t
  <1> QED BY <1>1, <1>3, <1>5, <1>6, <1>7 DEF IsPath, t

\* Following goes along a path to its end.
LEMMA FollowsPath ==
  ASSUME NEW links \in [Blocks -> Ends], NEW l, NEW b, IsPath(links, l, b), Len(l) <= BlockCount + 1
  PROVE  Following(links)[BlockCount + 1][b] = l
  <1> DEFINE w == Following(links)
             Bad == {n \in 0 .. BlockCount + 1 :
                        \E m \in Seq(Blocks), x \in Ends :
                            IsPath(links, m, x) /\ Len(m) <= n /\ w[n][x] # m}
  <1>0. /\ \A x \in Ends : w[0][x] = << >>
        /\ \A n \in 1 .. BlockCount + 1 : \A x \in Ends :
             w[n][x] = IF x = NoBlock THEN << >> ELSE <<x>> \o w[n - 1][links[x]]
    BY FollowingSteps
  <1> HIDE DEF w
  <1>1. Bad = {}
    <2> SUFFICES ASSUME Bad # {} PROVE FALSE
      OBVIOUS
    <2>1. PICK n \in Bad : \A k \in Bad : n <= k
      <3>1. Bad \subseteq Nat
        BY NoBlockIsNone
      <3> HIDE DEF Bad
      <3> QED BY <3>1, LeastNumber
    <2>2. PICK m \in Seq(Blocks), x \in Ends : IsPath(links, m, x) /\ Len(m) <= n /\ w[n][x] # m
      OBVIOUS
    <2>3. n \in 0 .. BlockCount + 1 /\ n \in Nat
      OBVIOUS
    <2>4. m # << >>
      <3> SUFFICES ASSUME m = << >> PROVE FALSE
        OBVIOUS
      <3>1. x = NoBlock
        BY <2>2 DEF IsPath
      <3>2. n = 0 \/ n \in 1 .. BlockCount + 1
        BY <2>3, NoBlockIsNone
      <3> QED BY <1>0, <2>2, <3>1, <3>2
    <2>5. /\ x \in Blocks /\ IsPath(links, Tail(m), links[x]) /\ Len(Tail(m)) = Len(m) - 1
          /\ m = <<x>> \o Tail(m)
      BY <2>2, <2>4, PathTail
    <2>6. n \in 1 .. BlockCount + 1 /\ n - 1 \in 0 .. BlockCount + 1 /\ Len(Tail(m)) <= n - 1
      <3>1. Len(m) \in Nat /\ Len(m) > 0
        BY <2>2, <2>4
      <3> QED BY <2>2, <2>3, <2>5, <3>1, NoBlockIsNone
    <2>7. Tail(m) \in Seq(Blocks) /\ links[x] \in Ends
      BY <2>5 DEF IsPath
    <2>8. n - 1 \notin Bad
      <3>1. ~(n <= n - 1)
        BY <2>3
      <3> HIDE DEF Bad
      <3> QED BY <2>1, <3>1
    <2>9. w[n - 1][links[x]] = Tail(m)
      BY <2>5, <2>6, <2>7, <2>8
    <2>10. x # NoBlock
      BY <2>5, NoBlockIsNone
    <2>11. w[n][x] = <<x>> \o w[n - 1][links[x]]
      BY <1>0, <2>5, <2>6, <2>10 DEF Ends
    <2> QED BY <2>2, <2>5, <2>9, <2>11
  <1>2. l \in Seq(Blocks) /\ b \in Ends
    BY DEF IsPath, Ends
  <1>3. BlockCount + 1 \notin Bad
    <2> HIDE DEF Bad
    <2> QED BY <1>1
  <1> QED BY <1>2, <1>3, NoBlockIsNone DEF w

\* A path that none of the changed links is on stays a path.
LEMMA PathStays ==
  ASSUME NEW links, NEW now, NEW l, NEW b, IsPath(links, l, b),
         \A i \in 1 .. Len(l) : now[l[i]] = links[l[i]]
  PROVE  IsPath(now, l, b)
  BY DEF IsPath

\* A block linked to the end of a path lengthens it.
LEMMA PathAppend ==
  ASSUME NEW links, NEW now, NEW l, NEW b, IsPath(links, l, b), l # << >>, NEW e \in Blocks,
         now[l[Len(l)]] = e, now[e] = NoBlock, \A i \in 1 .. Len(l) - 1 : now[l[i]] = links[l[i]]
  PROVE  IsPath(now, Append(l, e), b)
  <1> DEFINE m == Append(l, e)
  <1>0. l \in Seq(Blocks) /\ b = l[1] /\ Len(l) \in Nat /\ Len(l) > 0
        /\ \A i \in 1 .. Len(l) : links[l[i]] = IF i = Len(l) THEN NoBlock ELSE l[i + 1]
    BY DEF IsPath
  <1>1. m \in Seq(Blocks) /\ Len(m) = Len(l) + 1
        /\ \A i \in 1 .. Len(l) + 1 : m[i] = IF i = Len(l) + 1 THEN e ELSE l[i]
    BY <1>0
  <1> HIDE DEF m
  <1>2. m # << >> /\ b = m[1]
    BY <1>0, <1>1
  <1>3. \A i \in 1 .. Len(m) : now[m[i]] = IF i = Len(m) THEN NoBlock ELSE m[i + 1]
    <2> SUFFICES ASSUME NEW i \in 1 .. Len(m)
                 PROVE  now[m[i]] = IF i = Len(m) THEN NoBlock ELSE m[i + 1]
      OBVIOUS
    <2>1. CASE i = Len(m)
      BY <1>0, <1>1, <2>1
    <2>2. CASE i = Len(l)
      BY <1>0, <1>1, <2>2
    <2>3. CASE i \in 1 .. Len(l) - 1
      <3>1. m[i] = l[i] /\ m[i + 1] = l[i + 1] /\ i # Len(m) /\ i # Len(l) /\ i \in 1 .. Len(l)
        BY <1>0, <1>1, <2>3
      <3> QED BY <1>0, <2>3, <3>1
    <2> QED BY <1>0, <1>1, <2>1, <2>2, <2>3
  <1> QED BY <1>1, <1>2, <1>3 DEF IsPath, m

\* A block put before a path.
LEMMA PathPush ==
  ASSUME NEW links, NEW now, NEW l, NEW b, IsPath(links, l, b), NEW e \in Blocks,
         now[e] = b, \A i \in 1 .. Len(l) : now[l[i]] = links[l[i]]
  PROVE  IsPath(now, <<e>> \o l, e)
  <1> DEFINE m == <<e>> \o l
  <1>0. /\ l \in Seq(Blocks) /\ Len(l) \in Nat
        /\ (Len(l) = 0 => b = NoBlock) /\ (Len(l) # 0 => b = l[1])
        /\ \A i \in 1 .. Len(l) : links[l[i]] = IF i = Len(l) THEN NoBlock ELSE l[i + 1]
    BY DEF IsPath
  <1>1. m \in Seq(Blocks) /\ Len(m) = Len(l) + 1
        /\ \A i \in 1 .. Len(l) + 1 : m[i] = IF i = 1 THEN e ELSE l[i - 1]
    BY <1>0
  <1> HIDE DEF m
  <1>2. m # << >> /\ e = m[1]
    BY <1>0, <1>1
  <1>3. \A i \in 1 .. Len(m) : now[m[i]] = IF i = Len(m) THEN NoBlock ELSE m[i + 1]
    <2> SUFFICES ASSUME NEW i \in 1 .. Len(m)
                 PROVE  now[m[i]] = IF i = Len(m) THEN NoBlock ELSE m[i + 1]
      OBVIOUS
    <2>1. CASE i = 1
      BY <1>0, <1>1, <2>1
    <2>2. CASE i # 1
      <3>1. i - 1 \in 1 .. Len(l) /\ m[i] = l[i - 1] /\ (i - 1) + 1 = i
        BY <1>0, <1>1, <2>2
      <3>2. i # Len(m) => m[i + 1] = l[i]
        BY <1>0, <1>1, <2>2
      <3>3. i - 1 = Len(l) <=> i = Len(m)
        BY <1>0, <1>1
      <3> QED BY <1>0, <3>1, <3>2, <3>3
    <2> QED BY <2>1, <2>2
  <1> QED BY <1>1, <1>2, <1>3 DEF IsPath, m

\* No block comes twice.
Once(l) == \A i, j \in 1 .. Len(l) : l[i] = l[j] => i = j
Apart(l, m) == \A i \in 1 .. Len(l) : \A j \in 1 .. Len(m) : l[i] # m[j]
In(b, l) == \E i \in 1 .. Len(l) : l[i] = b

\* The two lists of blocks: the list proper from f to cur, the free blocks from ff,
\* and between them the n blocks that the arena has provided.
Linked(links, f, ff, cur, n, list, free) ==
    /\ links \in [Blocks -> Ends]
    /\ n \in Nat /\ n <= BlockCount
    /\ IsPath(links, list, f) /\ IsPath(links, free, ff)
    /\ list # << >> /\ cur = list[Len(list)]
    /\ Once(list) /\ Once(free) /\ Apart(list, free)
    /\ Len(list) + Len(free) = n
    /\ \A b \in Blocks : b <= n <=> In(b, list) \/ In(b, free)

\* The lists are what the walks find.
LEMMA LinkedFollows ==
  ASSUME NEW links, NEW f, NEW ff, NEW cur, NEW n, NEW list, NEW free, Linked(links, f, ff, cur, n, list, free)
  PROVE  Following(links)[BlockCount + 1][f] = list /\ Following(links)[BlockCount + 1][ff] = free
  <1>1. Len(list) <= BlockCount + 1 /\ Len(free) <= BlockCount + 1
    <2>1. list \in Seq(Blocks) /\ free \in Seq(Blocks) /\ n \in Nat /\ n <= BlockCount /\ Len(list) + Len(free) = n
      BY DEF Linked, IsPath
    <2>2. Len(list) \in Nat /\ Len(free) \in Nat
      BY <2>1
    <2> QED BY <2>1, <2>2, NoBlockIsNone
  <1> QED BY <1>1, FollowsPath DEF Linked

\* Where it begins: with one block, which has no next one.
LEMMA OneBlockLinked == Linked(NoLinks, 1, NoBlock, 1, 1, <<1>>, << >>)
  <1>1. 1 \in Blocks /\ 1 <= BlockCount /\ NoLinks \in [Blocks -> Ends] /\ NoLinks[1] = NoBlock
    BY StreamAssumption DEF Blocks, NoLinks, Ends
  <1>2. IsPath(NoLinks, <<1>>, 1) /\ IsPath(NoLinks, << >>, NoBlock)
    BY <1>1 DEF IsPath
  <1>3. \A b \in Blocks : b <= 1 <=> b = 1
    BY DEF Blocks
  <1> QED BY <1>1, <1>2, <1>3 DEF Linked, Once, Apart, In

\* What there is to know about the lists, one by one.
LEMMA LinkedParts ==
  ASSUME NEW links, NEW f, NEW ff, NEW cur, NEW n, NEW list, NEW free, Linked(links, f, ff, cur, n, list, free)
  PROVE  /\ links \in [Blocks -> Ends] /\ n \in Nat /\ n <= BlockCount
         /\ list \in Seq(Blocks) /\ Len(list) \in Nat \ {0} /\ free \in Seq(Blocks) /\ Len(free) \in Nat
         /\ Len(list) + Len(free) = n
         /\ f = list[1] /\ f \in Blocks /\ cur = list[Len(list)] /\ cur \in Blocks
         /\ IF ff = NoBlock THEN free = << >> ELSE free # << >> /\ ff = free[1] /\ ff \in Blocks
         /\ \A i \in 1 .. Len(list) : links[list[i]] = IF i = Len(list) THEN NoBlock ELSE list[i + 1]
         /\ \A i \in 1 .. Len(list) : list[i] \in Blocks /\ list[i] # NoBlock
         /\ f # cur => Len(list) > 1
         /\ links[cur] = NoBlock
  <1>1. /\ links \in [Blocks -> Ends] /\ n \in Nat /\ n <= BlockCount
        /\ list \in Seq(Blocks) /\ list # << >> /\ free \in Seq(Blocks)
        /\ Len(list) + Len(free) = n
        /\ f = list[1] /\ cur = list[Len(list)]
        /\ (free = << >> => ff = NoBlock) /\ (free # << >> => ff = free[1])
        /\ \A i \in 1 .. Len(list) : links[list[i]] = IF i = Len(list) THEN NoBlock ELSE list[i + 1]
    BY DEF Linked, IsPath
  <1>2. Len(list) \in Nat /\ Len(free) \in Nat /\ Len(list) # 0
    BY <1>1
  <1>3. \A i \in 1 .. Len(list) : list[i] \in Blocks /\ list[i] # NoBlock
    BY <1>1, NoBlockIsNone
  <1>4. free # << >> => ff \in Blocks /\ ff # NoBlock
    BY <1>1, <1>2, NoBlockIsNone
  <1>5. 1 \in 1 .. Len(list) /\ Len(list) \in 1 .. Len(list)
    BY <1>2
  <1>6. f \in Blocks /\ cur \in Blocks /\ links[cur] = NoBlock
    BY <1>1, <1>3, <1>5
  <1> QED BY <1>1, <1>2, <1>3, <1>4, <1>6

\* A free block becomes the last one of the list.
LEMMA LinkedReuse ==
  ASSUME NEW links, NEW f, NEW ff, NEW cur, NEW n, NEW list, NEW free, Linked(links, f, ff, cur, n, list, free),
         ff # NoBlock
  PROVE  Linked([links EXCEPT ![cur] = ff, ![ff] = NoBlock], f, links[ff], ff, n, Append(list, ff), Tail(free))
  <1> DEFINE now == [links EXCEPT ![cur] = ff, ![ff] = NoBlock]
             m == Append(list, ff)
             t == Tail(free)
  <1>1. /\ links \in [Blocks -> Ends] /\ n \in Nat /\ n <= BlockCount
        /\ list \in Seq(Blocks) /\ Len(list) \in Nat \ {0} /\ free \in Seq(Blocks) /\ Len(free) \in Nat
        /\ Len(list) + Len(free) = n
        /\ f = list[1] /\ f \in Blocks /\ cur = list[Len(list)] /\ cur \in Blocks
        /\ free # << >> /\ ff = free[1] /\ ff \in Blocks
    BY LinkedParts
  <1>2. /\ IsPath(links, list, f) /\ IsPath(links, free, ff) /\ list # << >>
        /\ Once(list) /\ Once(free) /\ Apart(list, free)
        /\ \A b \in Blocks : b <= n <=> In(b, list) \/ In(b, free)
    BY DEF Linked
  <1>3. Len(free) > 0 /\ 1 \in 1 .. Len(free) /\ Len(list) \in 1 .. Len(list)
    BY <1>1
  <1>4. cur # ff /\ \A i \in 1 .. Len(list) : list[i] # ff
    BY <1>1, <1>2, <1>3 DEF Apart
  <1>5. now \in [Blocks -> Ends] /\ now[ff] = NoBlock /\ now[cur] = ff
        /\ \A b \in Blocks : b # ff /\ b # cur => now[b] = links[b]
    BY <1>1, <1>4, NoBlockIsNone DEF Ends
  <1>6. m \in Seq(Blocks) /\ Len(m) = Len(list) + 1 /\ m # << >>
        /\ \A i \in 1 .. Len(list) + 1 : m[i] = IF i = Len(list) + 1 THEN ff ELSE list[i]
    <2>1. list \in Seq(Blocks) /\ Len(list) \in Nat /\ ff \in Blocks
      BY <1>1
    <2> QED BY <2>1
  <1>7. t \in Seq(Blocks) /\ Len(t) = Len(free) - 1 /\ \A i \in 1 .. Len(free) - 1 : t[i] = free[i + 1]
    BY <1>1, <1>3
  <1>8. IsPath(links, t, links[ff])
    BY <1>1, <1>2, PathTail
  <1> HIDE DEF now, m, t
  <1>9. \A i \in 1 .. Len(t) : t[i] \in Blocks /\ t[i] # ff /\ t[i] # cur
    <2> SUFFICES ASSUME NEW i \in 1 .. Len(t) PROVE t[i] \in Blocks /\ t[i] # ff /\ t[i] # cur
      OBVIOUS
    <2>1. i + 1 \in 1 .. Len(free) /\ i + 1 # 1 /\ t[i] = free[i + 1]
      BY <1>1, <1>7
    <2> QED BY <1>1, <1>2, <1>3, <2>1 DEF Once, Apart
  <1>10. IsPath(now, t, links[ff])
    <2>1. \A i \in 1 .. Len(t) : now[t[i]] = links[t[i]]
      BY <1>5, <1>9
    <2> QED BY <1>8, <2>1, PathStays
  <1>11. IsPath(now, m, f)
    <2>1. \A i \in 1 .. Len(list) - 1 : now[list[i]] = links[list[i]]
      <3> SUFFICES ASSUME NEW i \in 1 .. Len(list) - 1 PROVE now[list[i]] = links[list[i]]
        OBVIOUS
      <3>1. i \in 1 .. Len(list) /\ i # Len(list)
        BY <1>1
      <3>2. list[i] \in Blocks /\ list[i] # cur
        BY <1>1, <1>2, <1>3, <3>1 DEF Once
      <3> QED BY <1>4, <1>5, <3>1, <3>2
    <2> QED BY <1>1, <1>2, <1>5, <2>1, PathAppend DEF m
  <1>12. Once(m)
    <2> SUFFICES ASSUME NEW i \in 1 .. Len(m), NEW j \in 1 .. Len(m), m[i] = m[j] PROVE i = j
      BY DEF Once
    <2>1. /\ (i = Len(m) /\ m[i] = ff) \/ (i \in 1 .. Len(list) /\ m[i] = list[i])
          /\ (j = Len(m) /\ m[j] = ff) \/ (j \in 1 .. Len(list) /\ m[j] = list[j])
      BY <1>1, <1>6
    <2>2. \A k \in 1 .. Len(list) : list[k] # ff
      BY <1>2, <1>4
    <2> QED BY <1>2, <2>1, <2>2 DEF Once
  <1>13. Once(t)
    <2> SUFFICES ASSUME NEW i \in 1 .. Len(t), NEW j \in 1 .. Len(t), t[i] = t[j] PROVE i = j
      BY DEF Once
    <2>1. i + 1 \in 1 .. Len(free) /\ j + 1 \in 1 .. Len(free) /\ free[i + 1] = free[j + 1]
      BY <1>1, <1>7
    <2>2. i + 1 = j + 1
      BY <1>2, <2>1 DEF Once
    <2> QED BY <2>2
  <1>14. Apart(m, t)
    <2> SUFFICES ASSUME NEW i \in 1 .. Len(m), NEW j \in 1 .. Len(t) PROVE m[i] # t[j]
      BY DEF Apart
    <2>0. j + 1 \in 1 .. Len(free) /\ t[j] = free[j + 1]
      BY <1>1, <1>7
    <2>1. j + 1 \in 1 .. Len(free) /\ t[j] = free[j + 1] /\ t[j] # ff
      BY <1>9, <2>0
    <2>2. i \in 1 .. Len(list) \/ m[i] = ff
      BY <1>1, <1>6
    <2> QED BY <1>1, <1>2, <1>6, <2>1, <2>2 DEF Apart
  <1>15. \A b \in Blocks : b <= n <=> In(b, m) \/ In(b, t)
    <2>1. ASSUME NEW b \in Blocks, In(b, list) \/ In(b, free) PROVE In(b, m) \/ In(b, t)
      <3>1. CASE In(b, list)
        BY <1>1, <1>6, <3>1 DEF In
      <3>2. CASE In(b, free)
        <4>1. PICK i \in 1 .. Len(free) : free[i] = b
          BY <3>2 DEF In
        <4>2. CASE i = 1
          <5>1. Len(m) \in 1 .. Len(m) /\ m[Len(m)] = b
            BY <1>1, <1>6, <4>1, <4>2
          <5> QED BY <5>1 DEF In
        <4>3. CASE i # 1
          <5>1. i - 1 \in 1 .. Len(t) /\ t[i - 1] = b
            <6>1. i - 1 \in 1 .. Len(free) - 1 /\ (i - 1) + 1 = i
              BY <1>1, <4>3
            <6> QED BY <1>7, <4>1, <6>1
          <5> QED BY <5>1 DEF In
        <4> QED BY <4>2, <4>3
      <3> QED BY <2>1, <3>1, <3>2
    <2>2. ASSUME NEW b \in Blocks, In(b, m) \/ In(b, t) PROVE In(b, list) \/ In(b, free)
      <3>1. CASE In(b, m)
        <4>1. PICK i \in 1 .. Len(m) : m[i] = b
          BY <3>1 DEF In
        <4>2. i \in 1 .. Len(list) \/ b = free[1]
          BY <1>1, <1>6, <4>1
        <4> QED BY <1>1, <1>3, <1>6, <4>1, <4>2 DEF In
      <3>2. CASE In(b, t)
        <4>1. PICK i \in 1 .. Len(t) : t[i] = b
          BY <3>2 DEF In
        <4>2. i + 1 \in 1 .. Len(free) /\ free[i + 1] = b
          BY <1>1, <1>7, <4>1
        <4> QED BY <4>2 DEF In
      <3> QED BY <2>2, <3>1, <3>2
    <2> QED BY <1>2, <2>1, <2>2
  <1>16. Len(m) + Len(t) = n /\ ff = m[Len(m)]
    <2>1. Len(m) + Len(t) = n
      <3>1. Len(m) = Len(list) + 1 /\ Len(t) = Len(free) - 1 /\ Len(list) + Len(free) = n
        BY <1>1, <1>6, <1>7
      <3>2. Len(list) \in Nat /\ Len(free) \in Nat /\ n \in Nat
        BY <1>1
      <3> QED BY <3>1, <3>2
    <2>2. Len(list) + 1 \in 1 .. Len(list) + 1
      BY <1>1
    <2> QED BY <1>6, <2>1, <2>2
  <1>17. Linked(now, f, links[ff], ff, n, m, t)
    BY <1>1, <1>5, <1>6, <1>10, <1>11, <1>12, <1>13, <1>14, <1>15, <1>16 DEF Linked
  <1> QED BY <1>17 DEF now, m, t

\* A new block becomes the last one of the list.
LEMMA LinkedAllocate ==
  ASSUME NEW links, NEW f, NEW ff, NEW cur, NEW n, NEW list, NEW free, Linked(links, f, ff, cur, n, list, free),
         ff = NoBlock, n < BlockCount, links[n + 1] = NoBlock
  PROVE  Linked([links EXCEPT ![cur] = n + 1], f, ff, n + 1, n + 1, Append(list, n + 1), free)
  <1> DEFINE now == [links EXCEPT ![cur] = n + 1]
             m == Append(list, n + 1)
  <1>1. /\ links \in [Blocks -> Ends] /\ n \in Nat /\ n <= BlockCount
        /\ list \in Seq(Blocks) /\ Len(list) \in Nat \ {0}
        /\ Len(list) + Len(free) = n
        /\ f = list[1] /\ f \in Blocks /\ cur = list[Len(list)] /\ cur \in Blocks
        /\ free = << >>
    BY LinkedParts
  <1>2. /\ IsPath(links, list, f) /\ IsPath(links, free, ff) /\ list # << >> /\ Once(list)
        /\ \A b \in Blocks : b <= n <=> In(b, list) \/ In(b, free)
    BY DEF Linked
  <1>3. n + 1 \in Blocks /\ ~(n + 1 <= n) /\ Len(list) \in 1 .. Len(list)
    BY <1>1, NoBlockIsNone DEF Blocks
  <1>4. \A i \in 1 .. Len(list) : list[i] # n + 1
    BY <1>2, <1>3 DEF In
  <1>5. now \in [Blocks -> Ends] /\ now[n + 1] = NoBlock /\ now[cur] = n + 1
        /\ \A b \in Blocks : b # cur => now[b] = links[b]
    BY <1>1, <1>3, <1>4 DEF Ends
  <1>6. m \in Seq(Blocks) /\ Len(m) = Len(list) + 1 /\ m # << >>
        /\ \A i \in 1 .. Len(list) + 1 : m[i] = IF i = Len(list) + 1 THEN n + 1 ELSE list[i]
    BY <1>1, <1>3
  <1> HIDE DEF now, m
  <1>7. IsPath(now, m, f)
    <2>1. \A i \in 1 .. Len(list) - 1 : now[list[i]] = links[list[i]]
      <3> SUFFICES ASSUME NEW i \in 1 .. Len(list) - 1 PROVE now[list[i]] = links[list[i]]
        OBVIOUS
      <3>1. i \in 1 .. Len(list) /\ i # Len(list)
        BY <1>1
      <3>2. list[i] \in Blocks /\ list[i] # cur
        BY <1>1, <1>2, <1>3, <3>1 DEF Once
      <3> QED BY <1>5, <3>2
    <2> QED BY <1>1, <1>2, <1>3, <1>5, <2>1, PathAppend DEF m
  <1>8. Len(free) = 0
    BY <1>1
  <1>9. IsPath(now, free, ff)
    BY <1>2, <1>8, PathStays
  <1>10. Once(m)
    BY <1>1, <1>2, <1>4, <1>6 DEF Once
  <1>11. Once(free) /\ Apart(m, free) /\ Len(m) + Len(free) = n + 1 /\ n + 1 = m[Len(m)]
    BY <1>1, <1>6, <1>8 DEF Once, Apart
  <1>12. \A b \in Blocks : b <= n + 1 <=> In(b, m) \/ In(b, free)
    <2>1. ASSUME NEW b \in Blocks PROVE ~In(b, free)
      BY <1>8 DEF In
    <2>2. ASSUME NEW b \in Blocks PROVE In(b, m) <=> In(b, list) \/ b = n + 1
      <3>1. In(b, list) => In(b, m)
        BY <1>1, <1>6 DEF In
      <3>2. b = n + 1 => In(b, m)
        <4>1. Len(m) \in 1 .. Len(m) /\ m[Len(m)] = n + 1
          BY <1>1, <1>6
        <4> QED BY <4>1 DEF In
      <3>3. ASSUME NEW i \in 1 .. Len(m), m[i] = b PROVE In(b, list) \/ b = n + 1
        <4>1. i \in 1 .. Len(list) \/ i = Len(list) + 1
          BY <1>1, <1>6
        <4> QED BY <1>1, <1>6, <3>3, <4>1 DEF In
      <3> QED BY <3>1, <3>2, <3>3 DEF In
    <2>3. \A b \in Blocks : b <= n + 1 <=> b <= n \/ b = n + 1
      BY <1>1 DEF Blocks
    <2> QED BY <1>2, <2>1, <2>2, <2>3
  <1>13. n + 1 \in Nat /\ n + 1 <= BlockCount
    BY <1>1, NoBlockIsNone
  <1>14. Linked(now, f, ff, n + 1, n + 1, m, free)
    BY <1>5, <1>6, <1>7, <1>9, <1>10, <1>11, <1>12, <1>13 DEF Linked
  <1> QED BY <1>14 DEF now, m

\* The first block of the list becomes the first free one.
LEMMA LinkedFree ==
  ASSUME NEW links, NEW f, NEW ff, NEW cur, NEW n, NEW list, NEW free, Linked(links, f, ff, cur, n, list, free),
         f # cur
  PROVE  Linked([links EXCEPT ![f] = ff], links[f], f, cur, n, Tail(list), <<f>> \o free)
  <1> DEFINE now == [links EXCEPT ![f] = ff]
             t == Tail(list)
             m == <<f>> \o free
  <1>1. /\ links \in [Blocks -> Ends] /\ n \in Nat /\ n <= BlockCount
        /\ list \in Seq(Blocks) /\ Len(list) \in Nat /\ Len(list) > 1 /\ free \in Seq(Blocks) /\ Len(free) \in Nat
        /\ Len(list) + Len(free) = n
        /\ f = list[1] /\ f \in Blocks /\ cur = list[Len(list)] /\ cur \in Blocks
        /\ ff \in Ends
    BY LinkedParts DEF Ends
  <1>2. /\ IsPath(links, list, f) /\ IsPath(links, free, ff) /\ list # << >>
        /\ Once(list) /\ Once(free) /\ Apart(list, free)
        /\ \A b \in Blocks : b <= n <=> In(b, list) \/ In(b, free)
    BY DEF Linked
  <1>3. 1 \in 1 .. Len(list)
    BY <1>1
  <1>4. now \in [Blocks -> Ends] /\ now[f] = ff /\ \A b \in Blocks : b # f => now[b] = links[b]
    BY <1>1
  <1>5. m \in Seq(Blocks) /\ Len(m) = Len(free) + 1
        /\ \A i \in 1 .. Len(free) + 1 : m[i] = IF i = 1 THEN f ELSE free[i - 1]
    BY <1>1
  <1>6. t \in Seq(Blocks) /\ Len(t) = Len(list) - 1 /\ \A i \in 1 .. Len(list) - 1 : t[i] = list[i + 1]
    BY <1>1
  <1>7. IsPath(links, t, links[f])
    BY <1>1, <1>2, PathTail
  <1> HIDE DEF now, m, t
  <1>8. \A i \in 1 .. Len(t) : t[i] \in Blocks /\ t[i] # f /\ i + 1 \in 1 .. Len(list) /\ t[i] = list[i + 1]
    <2> SUFFICES ASSUME NEW i \in 1 .. Len(t)
                 PROVE  t[i] \in Blocks /\ t[i] # f /\ i + 1 \in 1 .. Len(list) /\ t[i] = list[i + 1]
      OBVIOUS
    <2>1. i + 1 \in 1 .. Len(list) /\ i + 1 # 1 /\ t[i] = list[i + 1]
      BY <1>1, <1>6
    <2> QED BY <1>1, <1>2, <1>3, <2>1 DEF Once
  <1>9. IsPath(now, t, links[f])
    <2>1. \A i \in 1 .. Len(t) : now[t[i]] = links[t[i]]
      BY <1>4, <1>8
    <2> QED BY <1>7, <2>1, PathStays
  <1>10. IsPath(now, m, f)
    <2>1. \A i \in 1 .. Len(free) : now[free[i]] = links[free[i]]
      BY <1>1, <1>2, <1>3, <1>4 DEF Apart
    <2> QED BY <1>1, <1>2, <1>4, <2>1, PathPush DEF m
  <1>11. Once(t)
    <2> SUFFICES ASSUME NEW i \in 1 .. Len(t), NEW j \in 1 .. Len(t), t[i] = t[j] PROVE i = j
      BY DEF Once
    <2>1. i + 1 = j + 1
      BY <1>2, <1>8 DEF Once
    <2> QED BY <2>1
  <1>12. \A i \in 1 .. Len(m) : m[i] = f \/ (i - 1 \in 1 .. Len(free) /\ m[i] = free[i - 1] /\ i # 1)
    BY <1>1, <1>5
  <1>13. Once(m)
    <2> SUFFICES ASSUME NEW i \in 1 .. Len(m), NEW j \in 1 .. Len(m), m[i] = m[j] PROVE i = j
      BY DEF Once
    <2>1. \A k \in 1 .. Len(free) : free[k] # f
      BY <1>1, <1>2, <1>3 DEF Apart
    <2>2. CASE i = 1 \/ j = 1
      <3>1. m[i] = f
        BY <1>1, <1>5, <2>2
      <3>2. ASSUME NEW k \in 1 .. Len(m), k # 1 PROVE m[k] # f
        <4>1. k - 1 \in 1 .. Len(free) /\ m[k] = free[k - 1]
          BY <1>1, <1>5, <3>2
        <4> QED BY <2>1, <4>1
      <3> QED BY <3>1, <3>2
    <2>3. CASE i # 1 /\ j # 1
      <3>1. i - 1 \in 1 .. Len(free) /\ j - 1 \in 1 .. Len(free) /\ free[i - 1] = free[j - 1]
        BY <1>1, <1>5, <2>3
      <3>2. i - 1 = j - 1
        BY <1>2, <3>1 DEF Once
      <3> QED BY <3>2
    <2> QED BY <2>2, <2>3
  <1>14. Apart(t, m)
    <2> SUFFICES ASSUME NEW i \in 1 .. Len(t), NEW j \in 1 .. Len(m) PROVE t[i] # m[j]
      BY DEF Apart
    <2> QED BY <1>2, <1>8, <1>12 DEF Apart
  <1>15. \A b \in Blocks : b <= n <=> In(b, t) \/ In(b, m)
    <2>1. ASSUME NEW b \in Blocks, In(b, list) \/ In(b, free) PROVE In(b, t) \/ In(b, m)
      <3>1. CASE In(b, free)
        <4>1. PICK i \in 1 .. Len(free) : free[i] = b
          BY <3>1 DEF In
        <4>2. i + 1 \in 1 .. Len(m) /\ m[i + 1] = b
          BY <1>1, <1>5, <4>1
        <4> QED BY <4>2 DEF In
      <3>2. CASE In(b, list)
        <4>1. PICK i \in 1 .. Len(list) : list[i] = b
          BY <3>2 DEF In
        <4>2. CASE i = 1
          <5>1. 1 \in 1 .. Len(m) /\ m[1] = b
            BY <1>1, <1>5, <4>1, <4>2
          <5> QED BY <5>1 DEF In
        <4>3. CASE i # 1
          <5>1. i - 1 \in 1 .. Len(t) /\ t[i - 1] = b
            <6>1. i - 1 \in 1 .. Len(list) - 1 /\ (i - 1) + 1 = i
              BY <1>1, <4>3
            <6> QED BY <1>6, <4>1, <6>1
          <5> QED BY <5>1 DEF In
        <4> QED BY <4>2, <4>3
      <3> QED BY <2>1, <3>1, <3>2
    <2>2. ASSUME NEW b \in Blocks, In(b, t) \/ In(b, m) PROVE In(b, list) \/ In(b, free)
      <3>1. CASE In(b, m)
        BY <1>1, <1>3, <1>12, <3>1 DEF In
      <3>2. CASE In(b, t)
        BY <1>8, <3>2 DEF In
      <3> QED BY <2>2, <3>1, <3>2
    <2> QED BY <1>2, <2>1, <2>2
  <1>16. Len(t) + Len(m) = n /\ t # << >> /\ cur = t[Len(t)]
    <2>1. Len(t) \in 1 .. Len(list) - 1 /\ Len(t) + 1 = Len(list) /\ Len(t) # 0
      BY <1>1, <1>6
    <2>2. t # << >>
      BY <2>1
    <2>3. Len(t) + Len(m) = n
      BY <1>1, <1>5, <1>6
    <2> QED BY <1>1, <1>6, <2>1, <2>2, <2>3
  <1>17. Linked(now, links[f], f, cur, n, t, m)
    BY <1>1, <1>4, <1>9, <1>10, <1>11, <1>13, <1>14, <1>15, <1>16 DEF Linked
  <1> QED BY <1>17 DEF now, t, m

\* The lists as they are, and the blocks that the arena has not provided yet.
ListsInv ==
    /\ Linked(next, first, firstFree, current, allocated, BlocksFrom(first), BlocksFrom(firstFree))
    /\ \A b \in Blocks : b > allocated => next[b] = NoBlock

\* A listed block but the last is full.
EventsInv ==
    /\ events \in [Blocks -> Seq(Cycles)]
    /\ \A b \in Blocks : Len(events[b]) <= BlockSize
    /\ \A b \in Listed : b # current => Len(events[b]) = BlockSize

\* What the trim sees has been sorted.
CallbackInv ==
    /\ callback \in {"idle", "sort", "trim", "last"}
    /\ callback \in {"trim", "last"} => unsorted = {}

DrawInv ==
    /\ draw \in [at : {"idle", "ticker", "walk"}, block : Ends, visited : SUBSET Blocks]
    /\ draw.at = "walk" => draw.block \in Blocks
    /\ range \in [lo : Nat, hi : Nat]

StreamInv == ListsInv /\ EventsInv /\ CallbackInv /\ SettledBlocksInOrder /\ DrawInv /\ WalkFollowsList

LEMMA RangeIn ==
  ASSUME NEW S, NEW l \in Seq(S), NEW b
  PROVE  b \in Range(l) <=> In(b, l)
  <1>1. DOMAIN l = 1 .. Len(l)
    OBVIOUS
  <1> QED BY <1>1 DEF Range, In

\* The steps that link and unlink no block.
StillStep ==
    \/ \E c \in Cycles : Append1(c)
    \/ BeginBufferCallback \/ Sort \/ StopFreeing \/ EmptyLast
    \/ DrawStep
    \/ UNCHANGED streamVars

\* What a step does to the list of blocks, as a sequence and as a set.
ListGoes ==
    \/ StillStep /\ UNCHANGED listVars /\ BlocksFrom(first)' = BlocksFrom(first) /\ Listed' = Listed
    \/ /\ \E c \in Cycles : Reuse(c) \/ Allocate(c)
       /\ current' \in Blocks \ Listed
       /\ BlocksFrom(first)' = Append(BlocksFrom(first), current')
       /\ Listed' = Listed \cup {current'}
    \/ /\ FreeFirst
       /\ BlocksFrom(first)' = Tail(BlocksFrom(first))
       /\ Listed' = Listed \ {first}
    \/ /\ StreamRestart
       /\ BlocksFrom(first)' = <<1>>
       /\ Listed' = {1}

LEMMA RangeGoes ==
  ASSUME NEW l \in Seq(Blocks)
  PROVE  /\ \A b \in Blocks : Range(Append(l, b)) = Range(l) \cup {b}
         /\ l # << >> /\ Once(l) => Range(Tail(l)) = Range(l) \ {l[1]}
  <1>1. ASSUME NEW b \in Blocks
        PROVE  Range(Append(l, b)) = Range(l) \cup {b}
    <2> DEFINE m == Append(l, b)
    <2>1. m \in Seq(Blocks) /\ Len(m) = Len(l) + 1 /\ Len(l) \in Nat
          /\ \A i \in 1 .. Len(l) + 1 : m[i] = IF i = Len(l) + 1 THEN b ELSE l[i]
      OBVIOUS
    <2> HIDE DEF m
    <2>2. ASSUME NEW x, In(x, l) \/ x = b PROVE In(x, m)
      <3>1. Len(l) + 1 \in 1 .. Len(m) /\ \A i \in 1 .. Len(l) : i \in 1 .. Len(m) /\ i # Len(l) + 1
        BY <2>1
      <3> QED BY <2>1, <2>2, <3>1 DEF In
    <2>3. ASSUME NEW x, In(x, m) PROVE In(x, l) \/ x = b
      <3>1. PICK i \in 1 .. Len(m) : m[i] = x
        BY <2>3 DEF In
      <3>2. i = Len(l) + 1 \/ i \in 1 .. Len(l)
        BY <2>1
      <3> QED BY <2>1, <3>1, <3>2 DEF In
    <2>4. \A x : x \in Range(m) <=> x \in Range(l) \cup {b}
      BY <2>1, <2>2, <2>3, RangeIn
    <2> QED BY <2>4 DEF m
  <1>2. ASSUME l # << >>, Once(l)
        PROVE  Range(Tail(l)) = Range(l) \ {l[1]}
    <2> DEFINE t == Tail(l)
    <2>1. t \in Seq(Blocks) /\ Len(t) = Len(l) - 1 /\ \A i \in 1 .. Len(l) - 1 : t[i] = l[i + 1]
      BY <1>2
    <2>0. Len(l) \in Nat /\ 1 \in 1 .. Len(l)
      BY <1>2
    <2> HIDE DEF t
    <2>2. ASSUME NEW i \in 1 .. Len(t) PROVE In(t[i], l) /\ t[i] # l[1]
      <3>1. i + 1 \in 1 .. Len(l) /\ i + 1 # 1 /\ t[i] = l[i + 1]
        BY <2>0, <2>1
      <3> QED BY <1>2, <2>0, <3>1 DEF In, Once
    <2>3. ASSUME NEW i \in 1 .. Len(l), l[i] # l[1] PROVE In(l[i], t)
      <3>1. i - 1 \in 1 .. Len(l) - 1 /\ (i - 1) + 1 = i
        BY <2>0, <2>3
      <3> QED BY <2>1, <3>1 DEF In
    <2>4. \A x : In(x, t) <=> In(x, l) /\ x # l[1]
      BY <2>2, <2>3 DEF In
    <2>5. \A x : x \in Range(t) <=> x \in Range(l) \ {l[1]}
      BY <2>1, <2>4, RangeIn
    <2> QED BY <2>5 DEF t
  <1> QED BY <1>1, <1>2

\* Every step keeps the two lists sound.
LEMMA ListsGo ==
  ASSUME ListsInv, [StreamNext]_streamVars
  PROVE  ListsInv' /\ ListGoes
  <1> DEFINE list == BlocksFrom(first)
             free == BlocksFrom(firstFree)
  <1>1. /\ Linked(next, first, firstFree, current, allocated, list, free)
        /\ \A b \in Blocks : b > allocated => next[b] = NoBlock
    BY DEF ListsInv
  <1>2. /\ next \in [Blocks -> Ends] /\ allocated \in Nat /\ allocated <= BlockCount
        /\ list \in Seq(Blocks) /\ list # << >> /\ first = list[1] /\ first \in Blocks /\ current \in Blocks
        /\ \A i \in 1 .. Len(list) : list[i] \in Blocks
        /\ IF firstFree = NoBlock THEN free = << >> ELSE free # << >> /\ firstFree = free[1] /\ firstFree \in Blocks
    BY <1>1, LinkedParts
  <1>3. ASSUME NEW l, NEW m, Linked(next', first', firstFree', current', allocated', l, m)
        PROVE  /\ Linked(next', first', firstFree', current', allocated', BlocksFrom(first)', BlocksFrom(firstFree)')
               /\ BlocksFrom(first)' = l
    BY <1>3, LinkedFollows DEF BlocksFrom
  <1>4. Listed = Range(list) /\ Listed' = Range(BlocksFrom(first)')
    BY DEF Listed
  <1> HIDE DEF list, free
  <1>5. CASE StillStep
    <2>0. UNCHANGED listVars
      BY <1>5 DEF StillStep, Append1, BeginBufferCallback, Sort, StopFreeing, EmptyLast, DrawStep, StoreMaxCycles,
                  StoreMinCycles, DrawNextBlock, streamVars, listVars
    <2>1. next' = next /\ first' = first /\ firstFree' = firstFree /\ current' = current /\ allocated' = allocated
      BY <2>0 DEF listVars
    <2>2. BlocksFrom(first)' = BlocksFrom(first) /\ BlocksFrom(firstFree)' = BlocksFrom(firstFree)
      BY <2>1 DEF BlocksFrom
    <2> QED BY <1>1, <1>4, <1>5, <2>0, <2>1, <2>2 DEF ListsInv, ListGoes, list, free
  <1>6. ASSUME NEW c \in Cycles, Reuse(c)
        PROVE  ListsInv' /\ ListGoes
    <2>1. /\ firstFree # NoBlock /\ firstFree' = next[firstFree] /\ first' = first /\ current' = firstFree
          /\ next' = [next EXCEPT ![current] = firstFree, ![firstFree] = NoBlock] /\ allocated' = allocated
      BY <1>6 DEF Reuse, Extend
    <2>2. Linked(next', first', firstFree', current', allocated', Append(list, firstFree), Tail(free))
      BY <1>1, <2>1, LinkedReuse
    <2>3. \A b \in Blocks : b > allocated => b # current /\ b # firstFree
      <3>1. Len(list) \in 1 .. Len(list) /\ list[Len(list)] = current
        BY <1>1, <1>2 DEF Linked
      <3>2. 1 \in 1 .. Len(free) /\ free[1] = firstFree
        BY <1>1, <1>2, <2>1 DEF Linked, IsPath
      <3>3. current <= allocated /\ firstFree <= allocated
        BY <1>1, <1>2, <2>1, <3>1, <3>2 DEF Linked, In
      <3> QED BY <1>2, <3>3, NoBlockIsNone DEF Blocks
    <2>4. \A b \in Blocks : b > allocated' => next'[b] = NoBlock
      BY <1>1, <1>2, <2>1, <2>3
    <2>5. firstFree \notin Listed
      <3>1. \A i \in 1 .. Len(list) : list[i] # firstFree
        <4>1. 1 \in 1 .. Len(free) /\ free[1] = firstFree
          BY <1>1, <1>2, <2>1 DEF Linked, IsPath
        <4> QED BY <1>1, <4>1 DEF Linked, Apart
      <3> QED BY <1>2, <1>4, <3>1, RangeIn DEF In
    <2>6. BlocksFrom(first)' = Append(list, firstFree)
      BY <1>3, <2>2
    <2>7. Listed' = Listed \cup {firstFree}
      BY <1>2, <1>4, <2>1, <2>6, RangeGoes
    <2> QED BY <1>2, <1>3, <1>6, <2>1, <2>2, <2>4, <2>5, <2>6, <2>7 DEF ListsInv, ListGoes, list
  <1>7. ASSUME NEW c \in Cycles, Allocate(c)
        PROVE  ListsInv' /\ ListGoes
    <2>1. /\ firstFree = NoBlock /\ allocated < BlockCount /\ firstFree' = firstFree /\ first' = first
          /\ current' = allocated + 1 /\ allocated' = allocated + 1
          /\ next' = [next EXCEPT ![current] = allocated + 1]
      BY <1>7 DEF Allocate, Extend
    <2>0. allocated + 1 \in Blocks /\ allocated + 1 > allocated /\ ~(allocated + 1 <= allocated)
      BY <1>2, <2>1, NoBlockIsNone DEF Blocks
    <2>2. Linked(next', first', firstFree', current', allocated', Append(list, allocated + 1), free)
      BY <1>1, <2>0, <2>1, LinkedAllocate
    <2>3. current <= allocated
      <3>1. Len(list) \in 1 .. Len(list) /\ list[Len(list)] = current
        BY <1>1, <1>2 DEF Linked
      <3> QED BY <1>1, <1>2, <3>1 DEF Linked, In
    <2>4. \A b \in Blocks : b > allocated' => next'[b] = NoBlock
      <3> SUFFICES ASSUME NEW b \in Blocks, b > allocated' PROVE next'[b] = NoBlock
        OBVIOUS
      <3>1. b > allocated /\ b # current
        BY <1>2, <2>1, <2>3 DEF Blocks
      <3> QED BY <1>1, <1>2, <2>1, <3>1
    <2>5. allocated + 1 \notin Listed
      <3>1. ~In(allocated + 1, list)
        BY <1>1, <2>0 DEF Linked
      <3> QED BY <1>2, <1>4, <3>1, RangeIn
    <2>6. BlocksFrom(first)' = Append(list, allocated + 1)
      BY <1>3, <2>2
    <2>7. Listed' = Listed \cup {allocated + 1}
      BY <1>2, <1>4, <2>0, <2>6, RangeGoes
    <2> QED BY <1>2, <1>3, <1>7, <2>0, <2>1, <2>2, <2>4, <2>5, <2>6, <2>7 DEF ListsInv, ListGoes, list
  <1>8. CASE FreeFirst
    <2>1. /\ first # current /\ first' = next[first] /\ next' = [next EXCEPT ![first] = firstFree]
          /\ firstFree' = first /\ current' = current /\ allocated' = allocated
      BY <1>8 DEF FreeFirst
    <2>2. Linked(next', first', firstFree', current', allocated', Tail(list), <<first>> \o free)
      BY <1>1, <2>1, LinkedFree
    <2>3. first <= allocated
      <3>1. 1 \in 1 .. Len(list)
        BY <1>2
      <3> QED BY <1>1, <1>2, <3>1 DEF Linked, In
    <2>4. \A b \in Blocks : b > allocated' => next'[b] = NoBlock
      <3> SUFFICES ASSUME NEW b \in Blocks, b > allocated' PROVE next'[b] = NoBlock
        OBVIOUS
      <3>1. b > allocated /\ b # first
        BY <1>2, <2>1, <2>3 DEF Blocks
      <3> QED BY <1>1, <1>2, <2>1, <3>1
    <2>5. BlocksFrom(first)' = Tail(list)
      BY <1>3, <2>2
    <2>6. Listed' = Listed \ {first}
      BY <1>1, <1>2, <1>4, <2>5, RangeGoes DEF Linked
    <2> QED BY <1>3, <1>8, <2>2, <2>4, <2>5, <2>6 DEF ListsInv, ListGoes, list
  <1>9. CASE StreamRestart
    <2>1. /\ first' = 1 /\ current' = 1 /\ firstFree' = NoBlock /\ next' = NoLinks /\ allocated' = 1
      BY <1>9 DEF StreamRestart
    <2>2. Linked(next', first', firstFree', current', allocated', <<1>>, << >>)
      BY <2>1, OneBlockLinked
    <2>3. \A b \in Blocks : b > allocated' => next'[b] = NoBlock
      BY <2>1 DEF NoLinks
    <2>4. BlocksFrom(first)' = <<1>>
      BY <1>3, <2>2
    <2>5. Listed' = {1}
      BY <1>4, <2>4 DEF Range
    <2> QED BY <1>3, <1>9, <2>2, <2>3, <2>4, <2>5 DEF ListsInv, ListGoes
  <1> QED BY <1>5, <1>6, <1>7, <1>8, <1>9
      DEF StreamNext, TracerStep, PushContextSwitch, BufferCallback, StillStep

(***************************************************************************)
(* A pass of the sort over one block.                                      *)
(***************************************************************************)

\* There is a largest one of the first n events.
LEMMA PrefixMaxIs ==
  ASSUME NEW s \in Seq(Nat), NEW n \in 1 .. Len(s)
  PROVE  /\ PrefixMax(s, n) \in Nat
         /\ \A i \in 1 .. n : s[i] <= PrefixMax(s, n)
         /\ \E j \in 1 .. n : s[j] = PrefixMax(s, n)
  <1> DEFINE Bad == {m \in 1 .. Len(s) : ~ \E j \in 1 .. m : \A i \in 1 .. m : s[i] <= s[j]}
             T == {s[i] : i \in 1 .. n}
  <1>0. Len(s) \in Nat /\ \A i \in 1 .. Len(s) : s[i] \in Nat
    OBVIOUS
  <1>1. Bad = {}
    <2> SUFFICES ASSUME Bad # {} PROVE FALSE
      OBVIOUS
    <2>1. PICK m \in Bad : \A k \in Bad : m <= k
      <3>1. Bad \subseteq Nat
        BY <1>0
      <3> HIDE DEF Bad
      <3> QED BY <3>1, LeastNumber
    <2>2. m \in 1 .. Len(s) /\ ~ \E j \in 1 .. m : \A i \in 1 .. m : s[i] <= s[j]
      OBVIOUS
    <2> HIDE DEF Bad
    <2>3. m # 1
      <3> SUFFICES ASSUME m = 1 PROVE FALSE
        OBVIOUS
      <3>1. 1 \in 1 .. m /\ \A i \in 1 .. m : s[i] <= s[1]
        BY <1>0, <2>2
      <3> QED BY <2>2, <3>1
    <2>4. m - 1 \notin Bad /\ m - 1 \in 1 .. Len(s)
      <3>1. ~(m <= m - 1)
        BY <1>0, <2>2
      <3>2. m - 1 \in 1 .. Len(s)
        BY <1>0, <2>2, <2>3
      <3> QED BY <2>1, <3>1, <3>2
    <2>5. PICK j \in 1 .. m - 1 : \A i \in 1 .. m - 1 : s[i] <= s[j]
      BY <2>4 DEF Bad
    <2>9. m \in Nat /\ m <= Len(s) /\ 1 <= m
      BY <1>0, <2>2
    <2>6. j \in 1 .. m /\ m \in 1 .. m /\ j \in 1 .. Len(s) /\ \A i \in 1 .. m : i \in 1 .. Len(s) /\ (i = m \/ i \in 1 .. m - 1)
      BY <1>0, <2>9
    <2>7. CASE s[m] <= s[j]
      BY <2>2, <2>5, <2>6, <2>7
    <2>8. CASE ~(s[m] <= s[j])
      <3>1. \A i \in 1 .. m : s[i] <= s[m]
        <4> SUFFICES ASSUME NEW i \in 1 .. m PROVE s[i] <= s[m]
          OBVIOUS
        <4>1. s[i] \in Nat /\ s[m] \in Nat /\ s[j] \in Nat /\ (i = m \/ s[i] <= s[j])
          BY <1>0, <2>2, <2>5, <2>6
        <4> QED BY <2>8, <4>1
      <3> QED BY <2>2, <2>6, <3>1
    <2> QED BY <2>7, <2>8
  <1>2. PICK j \in 1 .. n : \A i \in 1 .. n : s[i] <= s[j]
    BY <1>1
  <1>3. s[j] \in T /\ \A x \in T : x \in Nat /\ s[j] >= x
    BY <1>0, <1>2
  <1>4. Max(T) \in T /\ \A x \in T : Max(T) >= x
    <2> HIDE DEF T
    <2> QED BY <1>3 DEF Max
  <1>5. PrefixMax(s, n) = Max(T)
    BY DEF PrefixMax
  <1> HIDE DEF Bad
  <1>6. \A i \in 1 .. n : s[i] \in T
    OBVIOUS
  <1>7. \A x \in T : \E i \in 1 .. n : s[i] = x
    OBVIOUS
  <1> HIDE DEF T
  <1> QED BY <1>3, <1>4, <1>5, <1>6, <1>7

\* In order next to each other is in order altogether.
LEMMA InOrder ==
  ASSUME NEW s \in Seq(Nat), ~OutOfOrder(s)
  PROVE  \A i, j \in 1 .. Len(s) : i <= j => s[i] <= s[j]
  <1> DEFINE Bad == {n \in 1 .. Len(s) : \E i \in 1 .. n : ~(s[i] <= s[n])}
  <1>0. Len(s) \in Nat /\ \A i \in 1 .. Len(s) : s[i] \in Nat
    OBVIOUS
  <1>1. Bad = {}
    <2> SUFFICES ASSUME Bad # {} PROVE FALSE
      OBVIOUS
    <2>1. PICK n \in Bad : \A m \in Bad : n <= m
      <3>1. Bad \subseteq Nat
        BY <1>0
      <3> HIDE DEF Bad
      <3> QED BY <3>1, LeastNumber
    <2>0. n \in 1 .. Len(s)
      OBVIOUS
    <2>2. PICK i \in 1 .. n : ~(s[i] <= s[n])
      OBVIOUS
    <2> HIDE DEF Bad
    <2>3. n \in 1 .. Len(s) /\ i # n /\ i \in 1 .. n - 1 /\ n - 1 \in 1 .. Len(s) - 1 /\ n - 1 \in 1 .. Len(s)
          /\ ~(n <= n - 1) /\ (n - 1) + 1 = n
      BY <1>0, <2>0, <2>2
    <2>4. n - 1 \notin Bad
      BY <2>1, <2>3
    <2>5. s[i] <= s[n - 1]
      BY <2>3, <2>4 DEF Bad
    <2>6. ~(s[n - 1] > s[n])
      BY <2>3 DEF OutOfOrder
    <2>7. s[i] \in Nat /\ s[n] \in Nat /\ s[n - 1] \in Nat
      <3>1. i \in 1 .. Len(s)
        BY <1>0, <2>3
      <3> QED BY <1>0, <2>3, <3>1
    <2>8. \A x, y, z \in Nat : x <= y /\ ~(y > z) => x <= z
      OBVIOUS
    <2> QED BY <2>2, <2>5, <2>6, <2>7, <2>8
  <1> SUFFICES ASSUME NEW i \in 1 .. Len(s), NEW j \in 1 .. Len(s), i <= j PROVE s[i] <= s[j]
    OBVIOUS
  <1>2. i \in 1 .. j
    BY <1>0
  <1> QED BY <1>1, <1>2

\* A pass makes of events as many events ...
LEMMA PassKeepsType ==
  ASSUME NEW s \in Seq(Cycles)
  PROVE  SortPass(s) \in Seq(Cycles) /\ Len(SortPass(s)) = Len(s)
  <1>0. s \in Seq(Nat)
    BY StreamAssumption, SeqMonotonic
  <1>1. s \in Seq(Nat) /\ Len(s) \in Nat /\ \A i \in 1 .. Len(s) : s[i] \in Cycles
    BY <1>0
  <1>2. \A i \in 1 .. Len(s) : PrefixMax(s, i) \in Cycles
    <2> SUFFICES ASSUME NEW i \in 1 .. Len(s) PROVE PrefixMax(s, i) \in Cycles
      OBVIOUS
    <2>1. PICK j \in 1 .. i : s[j] = PrefixMax(s, i)
      BY <1>1, PrefixMaxIs
    <2>2. j \in 1 .. Len(s)
      BY <1>1
    <2> QED BY <1>1, <2>1, <2>2
  <1>3. \A i \in 1 .. Len(s) : (IF i = Len(s) \/ PrefixMax(s, i) <= s[i + 1] THEN PrefixMax(s, i) ELSE s[i + 1]) \in Cycles
    <2> SUFFICES ASSUME NEW i \in 1 .. Len(s)
                 PROVE  (IF i = Len(s) \/ PrefixMax(s, i) <= s[i + 1] THEN PrefixMax(s, i) ELSE s[i + 1]) \in Cycles
      OBVIOUS
    <2>1. i = Len(s) \/ i + 1 \in 1 .. Len(s)
      BY <1>1
    <2> QED BY <1>1, <1>2, <2>1
  <1> QED BY <1>1, <1>3 DEF SortPass

\* ... and leaves those alone that are in order.
LEMMA PassKeepsOrder ==
  ASSUME NEW s \in Seq(Cycles), ~OutOfOrder(s)
  PROVE  SortPass(s) = s
  <1>0. s \in Seq(Nat)
    BY StreamAssumption, SeqMonotonic
  <1>1. s \in Seq(Nat) /\ Len(s) \in Nat /\ \A i \in 1 .. Len(s) : s[i] \in Nat
    BY <1>0
  <1>2. \A i \in 1 .. Len(s) : PrefixMax(s, i) = s[i]
    <2> SUFFICES ASSUME NEW i \in 1 .. Len(s) PROVE PrefixMax(s, i) = s[i]
      OBVIOUS
    <2>1. PICK j \in 1 .. i : s[j] = PrefixMax(s, i)
      BY <1>1, PrefixMaxIs
    <2>2. j \in 1 .. Len(s) /\ j <= i /\ i \in 1 .. i
      BY <1>1
    <2>3. s[j] <= s[i] /\ s[i] <= PrefixMax(s, i)
      BY <1>1, <2>2, InOrder, PrefixMaxIs
    <2> QED BY <1>1, <2>1, <2>2, <2>3
  <1>3. \A i \in 1 .. Len(s) : (IF i = Len(s) \/ PrefixMax(s, i) <= s[i + 1] THEN PrefixMax(s, i) ELSE s[i + 1]) = s[i]
    <2> SUFFICES ASSUME NEW i \in 1 .. Len(s), i # Len(s) PROVE s[i] <= s[i + 1]
      BY <1>2
    <2>1. i \in 1 .. Len(s) - 1 /\ i + 1 \in 1 .. Len(s)
      BY <1>1
    <2> QED BY <1>1, <2>1 DEF OutOfOrder
  <1>4. SortPass(s) = [i \in 1 .. Len(s) |-> s[i]]
    BY <1>3 DEF SortPass
  <1> QED BY <1>4

(***************************************************************************)
(* The steps.                                                              *)
(***************************************************************************)

\* The blocks at the ends are listed.
LEMMA ListedEnds ==
  ASSUME ListsInv
  PROVE  /\ Listed \subseteq Blocks /\ first \in Listed /\ current \in Listed
         /\ \A b : b \in Listed <=> In(b, BlocksFrom(first))
  <1> DEFINE list == BlocksFrom(first)
  <1>1. /\ list \in Seq(Blocks) /\ Len(list) \in Nat \ {0} /\ first = list[1] /\ current = list[Len(list)]
        /\ \A i \in 1 .. Len(list) : list[i] \in Blocks
    BY LinkedParts DEF ListsInv
  <1>2. Listed = Range(list)
    BY DEF Listed
  <1> HIDE DEF list
  <1>3. \A b : b \in Listed <=> In(b, list)
    BY <1>1, <1>2, RangeIn
  <1>4. 1 \in 1 .. Len(list) /\ Len(list) \in 1 .. Len(list)
    BY <1>1
  <1> QED BY <1>1, <1>3, <1>4 DEF In, list

\* The event goes into a block that is listed, or becomes so.
LEMMA ExtendIs ==
  ASSUME NEW c \in Cycles, Reuse(c) \/ Allocate(c)
  PROVE  /\ callback = "idle" /\ ~HasRoom(current) /\ events' = [events EXCEPT ![current'] = <<c>>]
         /\ unsorted' = unsorted \cup {current'} /\ first' = first
         /\ UNCHANGED <<callback, range, draw>>
  BY DEF Reuse, Allocate, Extend

LEMMA EventsKeep ==
  ASSUME ListsInv, EventsInv, [StreamNext]_streamVars
  PROVE  EventsInv'
  <1>1. ListGoes /\ Listed \subseteq Blocks /\ first \in Listed /\ current \in Listed
    BY ListsGo, ListedEnds
  <1>2. /\ events \in [Blocks -> Seq(Cycles)]
        /\ \A b \in Blocks : Len(events[b]) \in Nat /\ Len(events[b]) <= BlockSize
        /\ \A b \in Listed : b # current => Len(events[b]) = BlockSize
        /\ BlockSize \in Nat \ {0}
    BY StreamAssumption DEF EventsInv
  <1>3. ASSUME StillStep, UNCHANGED listVars, Listed' = Listed
        PROVE  EventsInv'
    <2>0. current' = current
      BY <1>3 DEF listVars
    <2>1. ASSUME NEW c \in Cycles, Append1(c) PROVE EventsInv'
      <3>1. events' = [events EXCEPT ![current] = Append(events[current], c)] /\ Len(events[current]) < BlockSize
        BY <2>1 DEF Append1, HasRoom
      <3>2. Append(events[current], c) \in Seq(Cycles) /\ Len(Append(events[current], c)) = Len(events[current]) + 1
        BY <1>1, <1>2
      <3>3. Len(events[current]) + 1 <= BlockSize
        BY <1>1, <1>2, <3>1
      <3>4. events' \in [Blocks -> Seq(Cycles)]
        BY <1>1, <1>2, <3>1, <3>2
      <3>5. \A b \in Blocks : Len(events'[b]) <= BlockSize
        BY <1>1, <1>2, <3>1, <3>2, <3>3
      <3>6. \A b \in Listed : b # current => Len(events'[b]) = BlockSize
        BY <1>1, <1>2, <3>1
      <3> QED BY <1>3, <2>0, <3>4, <3>5, <3>6 DEF EventsInv
    <2>2. CASE Sort
      <3>1. \A b \in Blocks : events'[b] = IF b \in Listed THEN SortPass(events[b]) ELSE events[b]
        BY <2>2 DEF Sort, SortedOnce
      <3>2. \A b \in Blocks : SortPass(events[b]) \in Seq(Cycles) /\ Len(SortPass(events[b])) = Len(events[b])
        BY <1>2, PassKeepsType
      <3>3. events' \in [Blocks -> Seq(Cycles)]
        <4>1. events' = [b \in Blocks |-> IF b \in Listed THEN SortPass(events[b]) ELSE events[b]]
          BY <2>2 DEF Sort, SortedOnce
        <4> QED BY <1>2, <3>2, <4>1
      <3>4. \A b \in Blocks : Len(events'[b]) = Len(events[b])
        BY <3>1, <3>2
      <3> QED BY <1>1, <1>2, <1>3, <2>0, <3>3, <3>4 DEF EventsInv
    <2>3. CASE EmptyLast
      <3>1. events' = events \/ events' = [events EXCEPT ![current] = << >>]
        BY <2>3 DEF EmptyLast
      <3>2. << >> \in Seq(Cycles) /\ Len(<< >>) <= BlockSize
        BY <1>2
      <3>3. events' \in [Blocks -> Seq(Cycles)]
        BY <1>2, <3>1, <3>2
      <3>4. \A b \in Blocks : Len(events'[b]) <= BlockSize
        BY <1>1, <1>2, <3>1, <3>2
      <3>5. \A b \in Listed : b # current => Len(events'[b]) = BlockSize
        BY <1>1, <1>2, <3>1
      <3> QED BY <1>3, <2>0, <3>3, <3>4, <3>5 DEF EventsInv
    <2>4. CASE UNCHANGED events
      BY <1>2, <1>3, <2>0, <2>4 DEF EventsInv
    <2> QED BY <1>3, <2>1, <2>2, <2>3, <2>4
            DEF StillStep, BeginBufferCallback, StopFreeing, DrawStep, StoreMaxCycles, StoreMinCycles, DrawNextBlock,
                streamVars
  <1>4. ASSUME NEW c \in Cycles, Reuse(c) \/ Allocate(c), current' \in Blocks \ Listed, Listed' = Listed \cup {current'}
        PROVE  EventsInv'
    <2>1. events' = [events EXCEPT ![current'] = <<c>>] /\ ~(Len(events[current]) < BlockSize)
      BY <1>4, ExtendIs DEF HasRoom
    <2>2. Len(events[current]) = BlockSize
      BY <1>1, <1>2, <2>1
    <2>3. <<c>> \in Seq(Cycles) /\ Len(<<c>>) <= BlockSize
      BY <1>2
    <2>4. events' \in [Blocks -> Seq(Cycles)]
      BY <1>2, <2>1, <2>3
    <2>5. \A b \in Blocks : Len(events'[b]) <= BlockSize
      BY <1>2, <1>4, <2>1, <2>3
    <2>6. \A b \in Listed' : b # current' => Len(events'[b]) = BlockSize
      BY <1>1, <1>2, <1>4, <2>1, <2>2
    <2> QED BY <2>4, <2>5, <2>6 DEF EventsInv
  <1>5. ASSUME FreeFirst, Listed' = Listed \ {first}
        PROVE  EventsInv'
    BY <1>2, <1>5 DEF FreeFirst, EventsInv
  <1>6. ASSUME StreamRestart, Listed' = {1}
        PROVE  EventsInv'
    <2>1. current' = 1 /\ events' = NoEvents
      BY <1>6 DEF StreamRestart
    <2>2. NoEvents \in [Blocks -> Seq(Cycles)] /\ \A b \in Blocks : Len(NoEvents[b]) <= BlockSize
      BY <1>2 DEF NoEvents
    <2> QED BY <1>6, <2>1, <2>2 DEF EventsInv
  <1> QED BY <1>1, <1>3, <1>4, <1>5, <1>6 DEF ListGoes

LEMMA CallbackKeeps ==
  ASSUME CallbackInv, [StreamNext]_streamVars
  PROVE  CallbackInv'
  BY DEF CallbackInv, StreamNext, TracerStep, PushContextSwitch, Append1, Reuse, Allocate, Extend,
         BeginBufferCallback, BufferCallback, Sort, FreeFirst, StopFreeing, EmptyLast, DrawStep, StoreMaxCycles,
         StoreMinCycles, DrawNextBlock, StreamRestart, streamVars

\* What the sort has put in order stays in order until something is appended to it.
LEMMA SettledKeeps ==
  ASSUME ListsInv, EventsInv, SettledBlocksInOrder, [StreamNext]_streamVars
  PROVE  SettledBlocksInOrder'
  <1>1. ListGoes /\ Listed \subseteq Blocks /\ first \in Listed /\ current \in Listed
    BY ListsGo, ListedEnds
  <1>2. /\ events \in [Blocks -> Seq(Cycles)]
        /\ \A b \in Listed \ unsorted : ~OutOfOrder(events[b])
    BY DEF EventsInv, SettledBlocksInOrder
  <1>3. ~OutOfOrder(<< >>)
    BY DEF OutOfOrder
  <1>4. SUFFICES ASSUME NEW b \in Listed', b \notin unsorted'
                 PROVE  ~OutOfOrder(events'[b])
    BY DEF SettledBlocksInOrder
  <1>5. ASSUME StillStep, Listed' = Listed
        PROVE  ~OutOfOrder(events'[b])
    <2>1. ASSUME NEW c \in Cycles, Append1(c) PROVE ~OutOfOrder(events'[b])
      <3>1. b # current /\ b \notin unsorted /\ events' = [events EXCEPT ![current] = Append(events[current], c)]
        BY <1>4, <2>1 DEF Append1
      <3>2. events'[b] = events[b]
        BY <1>1, <1>2, <1>4, <1>5, <3>1
      <3> QED BY <1>2, <1>4, <1>5, <3>1, <3>2
    <2>2. CASE Sort
      <3>1. b \in Listed /\ b \in Blocks /\ events'[b] = SortPass(events[b])
        BY <1>1, <1>4, <1>5, <2>2 DEF Sort, SortedOnce
      <3>2. ~OutOfOrder(events[b])
        BY <1>2, <1>4, <2>2, <3>1 DEF Sort
      <3> QED BY <1>2, <3>1, <3>2, PassKeepsOrder
    <2>3. CASE EmptyLast
      <3>1. unsorted' = unsorted /\ (events' = events \/ events' = [events EXCEPT ![current] = << >>])
        BY <2>3 DEF EmptyLast
      <3>2. events'[b] = events[b] \/ events'[b] = << >>
        BY <1>1, <1>2, <1>4, <1>5, <3>1
      <3> QED BY <1>2, <1>3, <1>4, <1>5, <3>1, <3>2
    <2>4. CASE UNCHANGED <<events, unsorted>>
      BY <1>2, <1>4, <1>5, <2>4
    <2> QED BY <1>5, <2>1, <2>2, <2>3, <2>4
            DEF StillStep, BeginBufferCallback, StopFreeing, DrawStep, StoreMaxCycles, StoreMinCycles, DrawNextBlock,
                streamVars
  <1>6. ASSUME NEW c \in Cycles, Reuse(c) \/ Allocate(c), Listed' = Listed \cup {current'}
        PROVE  ~OutOfOrder(events'[b])
    <2>1. events' = [events EXCEPT ![current'] = <<c>>] /\ unsorted' = unsorted \cup {current'}
      BY <1>6, ExtendIs
    <2>2. b \in Listed \ unsorted /\ b # current'
      BY <1>4, <1>6, <2>1
    <2> QED BY <1>1, <1>2, <2>1, <2>2
  <1>7. ASSUME FreeFirst, Listed' = Listed \ {first}
        PROVE  ~OutOfOrder(events'[b])
    BY <1>2, <1>4, <1>7 DEF FreeFirst
  <1>8. ASSUME StreamRestart, Listed' = {1}
        PROVE  ~OutOfOrder(events'[b])
    <2>1. events' = NoEvents /\ b \in Blocks
      BY <1>4, <1>8, StreamAssumption DEF StreamRestart, Blocks
    <2> QED BY <1>3, <2>1 DEF NoEvents
  <1> QED BY <1>1, <1>5, <1>6, <1>7, <1>8 DEF ListGoes

LEMMA DrawKeeps ==
  ASSUME ListsInv, DrawInv, [StreamNext]_streamVars
  PROVE  DrawInv'
  <1>1. first \in Blocks /\ next \in [Blocks -> Ends] /\ NoBlock \in Ends /\ \A b \in Blocks : b \in Ends
    BY ListedEnds DEF ListsInv, Linked, Ends
  <1>2. /\ draw \in [at : {"idle", "ticker", "walk"}, block : Ends, visited : SUBSET Blocks]
        /\ draw.at = "walk" => draw.block \in Blocks
        /\ range \in [lo : Nat, hi : Nat]
    BY DEF DrawInv
  <1>3. NotDrawing \in [at : {"idle", "ticker", "walk"}, block : Ends, visited : SUBSET Blocks] /\ NotDrawing.at # "walk"
    BY <1>1 DEF NotDrawing
  <1>4. CASE UNCHANGED <<draw, range>>
    BY <1>2, <1>4 DEF DrawInv
  <1>5. CASE FreeFirst
    BY <1>2, <1>5 DEF FreeFirst, DrawInv
  <1>6. CASE StreamRestart
    BY <1>3, <1>6 DEF StreamRestart, DrawInv
  <1>7. ASSUME NEW hi \in FrameCycles \cup {0}, StoreMaxCycles(hi) PROVE DrawInv'
    <2>1. hi \in Nat
      BY StreamAssumption
    <2> QED BY <1>2, <1>7, <2>1 DEF StoreMaxCycles, DrawInv
  <1>8. ASSUME NEW lo \in FrameCycles, StoreMinCycles(lo) PROVE DrawInv'
    <2>1. lo \in Nat
      BY StreamAssumption
    <2> QED BY <1>1, <1>2, <1>8, <2>1 DEF StoreMinCycles, DrawInv
  <1>9. CASE DrawNextBlock
    <2>1. draw.block \in Blocks /\ next[draw.block] \in Ends /\ range' = range
      BY <1>1, <1>2, <1>9 DEF DrawNextBlock
    <2>2. CASE next[draw.block] = NoBlock
      BY <1>2, <1>3, <1>9, <2>1, <2>2 DEF DrawNextBlock, DrawInv
    <2>3. CASE next[draw.block] # NoBlock
      <3>1. next[draw.block] \in Blocks
        BY <2>1, <2>3 DEF Ends
      <3>2. /\ draw' = [draw EXCEPT !.block = next[draw.block],
                                    !.visited = IF draw.visited = {} THEN {} ELSE draw.visited \cup {next[draw.block]}]
        BY <1>9, <2>3 DEF DrawNextBlock
      <3> QED BY <1>1, <1>2, <2>1, <3>1, <3>2 DEF DrawInv
    <2> QED BY <2>2, <2>3
  <1> QED BY <1>4, <1>5, <1>6, <1>7, <1>8, <1>9
          DEF StreamNext, TracerStep, PushContextSwitch, Append1, Reuse, Allocate, Extend,
              BeginBufferCallback, BufferCallback, Sort, StopFreeing, EmptyLast, DrawStep, streamVars

\* Visiting goes with the list: the n-th block of it, and those before.
Visits(d, l) == \E n \in 1 .. Len(l) : l[n] = d.block /\ d.visited = {l[i] : i \in 1 .. n}

LEMMA WalkVisits ==
  ListsInv => (WalkFollowsList <=> (draw.at = "walk" /\ draw.visited # {} => Visits(draw, BlocksFrom(first))))
  <1> SUFFICES ASSUME ListsInv
               PROVE  WalkFollowsList <=> (draw.at = "walk" /\ draw.visited # {} => Visits(draw, BlocksFrom(first)))
    OBVIOUS
  <1>1. BlocksFrom(first) \in Seq(Blocks)
    BY LinkedParts DEF ListsInv
  <1>2. DOMAIN BlocksFrom(first) = 1 .. Len(BlocksFrom(first))
    BY <1>1
  <1> QED BY <1>2 DEF WalkFollowsList, Visits

\* A walk may be anywhere on the list when another block comes after the last.
LEMMA VisitsLonger ==
  ASSUME NEW l \in Seq(Blocks), NEW b \in Blocks, NEW d, Visits(d, l)
  PROVE  Visits(d, Append(l, b))
  <1>1. PICK n \in 1 .. Len(l) : l[n] = d.block /\ d.visited = {l[i] : i \in 1 .. n}
    BY DEF Visits
  <1> DEFINE m == Append(l, b)
  <1>2. Len(m) = Len(l) + 1 /\ Len(l) \in Nat /\ \A i \in 1 .. Len(l) : m[i] = l[i]
    OBVIOUS
  <1> HIDE DEF m
  <1>3. n \in 1 .. Len(m) /\ m[n] = d.block /\ \A i \in 1 .. n : m[i] = l[i]
    BY <1>1, <1>2
  <1>4. d.visited = {m[i] : i \in 1 .. n}
    BY <1>1, <1>3
  <1>5. Visits(d, m)
    BY <1>3, <1>4 DEF Visits
  <1> QED BY <1>5 DEF m

LEMMA WalkKeeps ==
  ASSUME ListsInv, DrawInv, WalkFollowsList, [StreamNext]_streamVars
  PROVE  draw'.at = "walk" /\ draw'.visited # {} => Visits(draw', BlocksFrom(first)')
  <1> DEFINE list == BlocksFrom(first)
  <1>1. ListGoes
    BY ListsGo
  <1>2. draw.at = "walk" /\ draw.visited # {} => Visits(draw, list)
    BY WalkVisits
  <1>3. /\ list \in Seq(Blocks) /\ Len(list) \in Nat \ {0} /\ first = list[1]
        /\ \A i \in 1 .. Len(list) : next[list[i]] = IF i = Len(list) THEN NoBlock ELSE list[i + 1]
        /\ \A i \in 1 .. Len(list) : list[i] # NoBlock
    BY LinkedParts DEF ListsInv
  <1>4. draw \in [at : {"idle", "ticker", "walk"}, block : Ends, visited : SUBSET Blocks]
    BY DEF DrawInv
  <1> HIDE DEF list
  <1>5. SUFFICES ASSUME draw'.at = "walk", draw'.visited # {} PROVE Visits(draw', BlocksFrom(first)')
    OBVIOUS
  <1>6. CASE StillStep /\ BlocksFrom(first)' = BlocksFrom(first)
    <2>1. CASE UNCHANGED draw
      BY <1>2, <1>5, <1>6, <2>1 DEF list
    <2>2. ASSUME NEW hi, StoreMaxCycles(hi) PROVE FALSE
      BY <1>4, <1>5, <2>2 DEF StoreMaxCycles
    <2>3. ASSUME NEW lo, StoreMinCycles(lo) PROVE Visits(draw', list)
      <3>1. draw' = [at |-> "walk", block |-> first, visited |-> {first}]
        BY <2>3 DEF StoreMinCycles
      <3>2. 1 \in 1 .. Len(list) /\ list[1] = draw'.block /\ draw'.visited = {list[i] : i \in 1 .. 1}
        BY <1>3, <3>1
      <3> QED BY <3>2 DEF Visits
    <2>4. CASE DrawNextBlock
      <3>1. draw.at = "walk" /\ next[draw.block] # NoBlock
        BY <1>5, <2>4 DEF DrawNextBlock, NotDrawing
      <3>2. draw' = [draw EXCEPT !.block = next[draw.block],
                                 !.visited = IF draw.visited = {} THEN {} ELSE draw.visited \cup {next[draw.block]}]
        BY <2>4, <3>1 DEF DrawNextBlock
      <3>3. draw'.block = next[draw.block]
            /\ draw'.visited = IF draw.visited = {} THEN {} ELSE draw.visited \cup {next[draw.block]}
        BY <1>4, <3>2
      <3>4. draw.visited # {}
        BY <1>5, <3>3
      <3>5. PICK n \in 1 .. Len(list) : list[n] = draw.block /\ draw.visited = {list[i] : i \in 1 .. n}
        BY <1>2, <3>1, <3>4 DEF Visits
      <3>6. n # Len(list) /\ next[draw.block] = list[n + 1] /\ n + 1 \in 1 .. Len(list)
        BY <1>3, <3>1, <3>5
      <3>7. {list[i] : i \in 1 .. n + 1} = {list[i] : i \in 1 .. n} \cup {list[n + 1]}
        <4>1. \A i : i \in 1 .. n + 1 <=> i \in 1 .. n \/ i = n + 1
          BY <1>3, <3>5
        <4> QED BY <4>1
      <3>8. draw'.block = list[n + 1] /\ draw'.visited = {list[i] : i \in 1 .. n + 1}
        BY <3>3, <3>4, <3>5, <3>6, <3>7
      <3>9. Visits(draw', list)
        BY <3>6, <3>8 DEF Visits
      <3> QED BY <1>6, <3>9 DEF list
    <2> QED BY <1>6, <2>1, <2>2, <2>3, <2>4
            DEF StillStep, Append1, BeginBufferCallback, Sort, StopFreeing, EmptyLast, DrawStep, streamVars, list
  <1>7. ASSUME NEW c \in Cycles, Reuse(c) \/ Allocate(c), current' \in Blocks, BlocksFrom(first)' = Append(list, current')
        PROVE  Visits(draw', BlocksFrom(first)')
    <2>1. draw' = draw
      BY <1>7, ExtendIs
    <2>2. Visits(draw, list)
      BY <1>2, <1>5, <2>1
    <2> QED BY <1>3, <1>7, <2>1, <2>2, VisitsLonger
  <1>8. CASE FreeFirst
    BY <1>4, <1>5, <1>8 DEF FreeFirst
  <1>9. CASE StreamRestart
    BY <1>5, <1>9 DEF StreamRestart, NotDrawing
  <1> QED BY <1>1, <1>6, <1>7, <1>8, <1>9 DEF ListGoes, list

\* What starts or restarts the stream.
LEMMA StreamBegins == StreamInit => StreamInv
  <1> SUFFICES ASSUME StreamInit PROVE StreamInv
    OBVIOUS
  <1>1. /\ first = 1 /\ current = 1 /\ firstFree = NoBlock /\ next = NoLinks /\ allocated = 1
        /\ events = NoEvents /\ callback = "idle" /\ range = [lo |-> 0, hi |-> 0] /\ draw = NotDrawing /\ unsorted = {}
    BY DEF StreamInit
  <1>2. Linked(next, first, firstFree, current, allocated, <<1>>, << >>)
    BY <1>1, OneBlockLinked
  <1>3. BlocksFrom(first) = <<1>> /\ BlocksFrom(firstFree) = << >>
    BY <1>2, LinkedFollows DEF BlocksFrom
  <1>4. ListsInv
    BY <1>1, <1>2, <1>3 DEF ListsInv, NoLinks
  <1>5. Listed = {1}
    BY <1>3 DEF Listed, Range
  <1>6. EventsInv
    BY <1>1, <1>5, StreamAssumption DEF EventsInv, NoEvents
  <1>7. SettledBlocksInOrder
    BY <1>1, <1>5, StreamAssumption DEF SettledBlocksInOrder, OutOfOrder, NoEvents, Blocks
  <1>8. CallbackInv /\ DrawInv /\ WalkFollowsList
    BY <1>1 DEF CallbackInv, DrawInv, WalkFollowsList, NotDrawing, Ends
  <1> QED BY <1>4, <1>6, <1>7, <1>8 DEF StreamInv

\* The stream's part of a step of the whole.
LEMMA NextIsStream == [Next]_vars => [StreamNext]_streamVars
  BY DEF Next, vars, Callback, DrawFrame, StartupStep, Crash, StreamNext

\* The inductive invariant of the stream.
THEOREM StreamInvariant == Spec => []StreamInv
  <1>1. Init => StreamInv
    BY StreamBegins DEF Init
  <1>2. StreamInv /\ [Next]_vars => ListsInv' /\ EventsInv' /\ CallbackInv' /\ SettledBlocksInOrder' /\ DrawInv'
    BY NextIsStream, ListsGo, EventsKeep, CallbackKeeps, SettledKeeps, DrawKeeps DEF StreamInv
  <1>3. StreamInv /\ [Next]_vars =>
          (draw'.at = "walk" /\ draw'.visited # {} => Visits(draw', BlocksFrom(first)'))
    BY NextIsStream, WalkKeeps DEF StreamInv
  <1>4. ListsInv' /\ (draw'.at = "walk" /\ draw'.visited # {} => Visits(draw', BlocksFrom(first)')) => WalkFollowsList'
    <2>1. (ListsInv => (WalkFollowsList <=> (draw.at = "walk" /\ draw.visited # {} => Visits(draw, BlocksFrom(first)))))'
      BY WalkVisits, PTL
    <2> QED BY <2>1
  <1>5. StreamInv /\ [Next]_vars => StreamInv'
    BY <1>2, <1>3, <1>4 DEF StreamInv
  <1> QED BY <1>1, <1>5, PTL DEF Spec

\* Whatever is pushed, trimmed and reused, in any order: the list ends in the
\* current block, the free list ends, and each block the arena has provided is on
\* one of them, once.
THEOREM ListsAlwaysSound == Spec => []ListsSound
  <1>1. StreamInv => ListsSound
    <2> SUFFICES ASSUME StreamInv PROVE ListsSound
      OBVIOUS
    <2> DEFINE list == BlocksFrom(first)
               free == BlocksFrom(firstFree)
               both == list \o free
    <2>1. /\ list \in Seq(Blocks) /\ Len(list) \in Nat \ {0} /\ free \in Seq(Blocks) /\ Len(free) \in Nat
          /\ Len(list) + Len(free) = allocated /\ current = list[Len(list)] /\ next[current] = NoBlock
          /\ allocated \in Nat /\ allocated <= BlockCount
      BY LinkedParts DEF StreamInv, ListsInv
    <2>2. \A b \in Blocks : b <= allocated <=> In(b, list) \/ In(b, free)
      BY DEF StreamInv, ListsInv, Linked
    <2>3. Listed = Range(list)
      BY DEF Listed
    <2> HIDE DEF list, free
    <2>4. /\ both \in Seq(Blocks) /\ Len(both) = Len(list) + Len(free)
          /\ \A i \in 1 .. Len(list) + Len(free) : both[i] = IF i <= Len(list) THEN list[i] ELSE free[i - Len(list)]
      BY <2>1
    <2> HIDE DEF both
    <2>5. \A b : In(b, both) <=> In(b, list) \/ In(b, free)
      <3>1. ASSUME NEW b, In(b, both) PROVE In(b, list) \/ In(b, free)
        <4>1. PICK i \in 1 .. Len(both) : both[i] = b
          BY <3>1 DEF In
        <4>2. i \in 1 .. Len(list) \/ (i - Len(list) \in 1 .. Len(free) /\ ~(i <= Len(list)))
          BY <2>1, <2>4
        <4>3. CASE i \in 1 .. Len(list)
          <5>1. list[i] = b
            BY <2>1, <2>4, <4>1, <4>3
          <5> QED BY <4>3, <5>1 DEF In
        <4>4. CASE i - Len(list) \in 1 .. Len(free) /\ ~(i <= Len(list))
          <5>1. free[i - Len(list)] = b
            BY <2>4, <4>1, <4>4
          <5> QED BY <4>4, <5>1 DEF In
        <4> QED BY <4>2, <4>3, <4>4
      <3>2. ASSUME NEW b, In(b, list) PROVE In(b, both)
        <4>1. PICK i \in 1 .. Len(list) : list[i] = b
          BY <3>2 DEF In
        <4>2. i \in 1 .. Len(both) /\ both[i] = b
          BY <2>1, <2>4, <4>1
        <4> QED BY <4>2 DEF In
      <3>3. ASSUME NEW b, In(b, free) PROVE In(b, both)
        <4>1. PICK i \in 1 .. Len(free) : free[i] = b
          BY <3>3 DEF In
        <4>2. i + Len(list) \in 1 .. Len(both) /\ both[i + Len(list)] = b
          <5>1. i + Len(list) \in 1 .. Len(list) + Len(free) /\ ~(i + Len(list) <= Len(list))
                /\ (i + Len(list)) - Len(list) = i
            BY <2>1
          <5> QED BY <2>4, <4>1, <5>1
        <4> QED BY <4>2 DEF In
      <3> QED BY <3>1, <3>2, <3>3
    <2>6. \A b : b \in Range(both) <=> b \in 1 .. allocated
      <3>1. \A b : In(b, both) => b \in Blocks
        BY <2>4 DEF In
      <3>2. \A b : b \in 1 .. allocated <=> b \in Blocks /\ b <= allocated
        BY <2>1, NoBlockIsNone DEF Blocks
      <3> QED BY <2>2, <2>4, <2>5, <3>1, <3>2, RangeIn
    <2>7. \A b \in Blocks : Len(events[b]) <= BlockSize
      BY DEF StreamInv, EventsInv
    <2>8. \A b \in Range(list) \ {current} : Len(events[b]) = BlockSize
      BY <2>3 DEF StreamInv, EventsInv
    <2> QED BY <2>1, <2>4, <2>6, <2>7, <2>8 DEF ListsSound, list, free, both
  <1> QED BY <1>1, StreamInvariant, PTL

\* The bars that are drawn from a block nothing was appended to since the last sort
\* do not run backwards, whichever pass of the next sort is under way.
THEOREM SettledStaysInOrder == Spec => []SettledBlocksInOrder
  <1>1. StreamInv => SettledBlocksInOrder
    BY DEF StreamInv
  <1> QED BY <1>1, StreamInvariant, PTL

\* A walk that no trim has overtaken has seen the list from its first block on.
THEOREM WalkAlwaysFollows == Spec => []WalkFollowsList
  <1>1. StreamInv => WalkFollowsList
    BY DEF StreamInv
  <1> QED BY <1>1, StreamInvariant, PTL

(***************************************************************************)
(* The stream implements the log of events: a pass of the sort permutes    *)
(* the events of a block, a push adds one, and the trim drops the events   *)
(* of a block that is in order.                                            *)
(***************************************************************************)

\* The event a pass carries along when it has come to event i: the last of the
\* largest ones.
Carried(s, i) ==
    CHOOSE j \in 1 .. i : s[j] = PrefixMax(s, i) /\ \A k \in 1 .. i : s[k] = PrefixMax(s, i) => k <= j

\* Where event i of the block after the pass was before.
Origin(s, i) == IF i = Len(s) \/ PrefixMax(s, i) <= s[i + 1] THEN Carried(s, i) ELSE i + 1

LEMMA CarriedIs ==
  ASSUME NEW s \in Seq(Nat), NEW i \in 1 .. Len(s)
  PROVE  /\ Carried(s, i) \in 1 .. i /\ s[Carried(s, i)] = PrefixMax(s, i)
         /\ \A k \in 1 .. i : s[k] = PrefixMax(s, i) => k <= Carried(s, i)
  <1> DEFINE Back == {n \in 0 .. i - 1 : s[i - n] = PrefixMax(s, i)}
  <1>1. PICK j \in 1 .. i : s[j] = PrefixMax(s, i)
    BY PrefixMaxIs
  <1>2. i \in Nat /\ j \in Nat
    OBVIOUS
  <1>3. i - j \in Back
    <2>1. i - j \in 0 .. i - 1 /\ i - (i - j) = j
      BY <1>2
    <2> QED BY <1>1, <2>1
  <1>4. PICK n \in Back : \A m \in Back : n <= m
    <2>1. Back \subseteq Nat
      OBVIOUS
    <2> HIDE DEF Back
    <2> QED BY <1>3, <2>1, LeastNumber
  <1>5. n \in 0 .. i - 1 /\ s[i - n] = PrefixMax(s, i)
    OBVIOUS
  <1>6. ASSUME NEW k \in 1 .. i, s[k] = PrefixMax(s, i) PROVE k <= i - n
    <2>1. i - k \in 0 .. i - 1 /\ i - (i - k) = k
      BY <1>2
    <2>2. i - k \in Back
      BY <1>6, <2>1
    <2>3. n <= i - k
      <3> HIDE DEF Back
      <3> QED BY <1>4, <2>2
    <2> QED BY <1>2, <1>5, <2>3
  <1> HIDE DEF Back
  <1>7. i - n \in 1 .. i
    BY <1>2, <1>5
  <1>8. \E l \in 1 .. i : s[l] = PrefixMax(s, i) /\ \A k \in 1 .. i : s[k] = PrefixMax(s, i) => k <= l
    BY <1>5, <1>6, <1>7
  <1> QED BY <1>8 DEF Carried

\* A pass permutes the events of a block.
LEMMA PassPermutes ==
  ASSUME NEW s \in Seq(Nat)
  PROVE  /\ \A i \in 1 .. Len(s) : Origin(s, i) \in 1 .. Len(s) /\ SortPass(s)[i] = s[Origin(s, i)]
         /\ \A i, j \in 1 .. Len(s) : Origin(s, i) = Origin(s, j) => i = j
         /\ \A j \in 1 .. Len(s) : \E i \in 1 .. Len(s) : Origin(s, i) = j
  <1>0. Len(s) \in Nat /\ \A i \in 1 .. Len(s) : s[i] \in Nat
    OBVIOUS
  <1> DEFINE swaps(i) == i # Len(s) /\ ~(PrefixMax(s, i) <= s[i + 1])
  <1>1. ASSUME NEW i \in 1 .. Len(s)
        PROVE  /\ i \in Nat /\ i <= Len(s) /\ 1 <= i
               /\ IF swaps(i) THEN Origin(s, i) = i + 1 /\ i + 1 \in 1 .. Len(s)
                  ELSE Origin(s, i) = Carried(s, i)
               /\ Carried(s, i) \in 1 .. Len(s) /\ Carried(s, i) <= i
               /\ s[Carried(s, i)] = PrefixMax(s, i)
               /\ \A k \in 1 .. i : s[k] = PrefixMax(s, i) => k <= Carried(s, i)
               /\ PrefixMax(s, i) \in Nat /\ \A k \in 1 .. i : s[k] <= PrefixMax(s, i)
    <2>1. /\ Carried(s, i) \in 1 .. i /\ s[Carried(s, i)] = PrefixMax(s, i)
          /\ \A k \in 1 .. i : s[k] = PrefixMax(s, i) => k <= Carried(s, i)
      BY CarriedIs
    <2>2. PrefixMax(s, i) \in Nat /\ \A k \in 1 .. i : s[k] <= PrefixMax(s, i)
      BY PrefixMaxIs
    <2>3. i \in Nat /\ i <= Len(s) /\ 1 <= i
      BY <1>0
    <2>4. Carried(s, i) \in 1 .. Len(s) /\ Carried(s, i) <= i
      BY <1>0, <2>1, <2>3
    <2>5. i # Len(s) => i + 1 \in 1 .. Len(s)
      BY <1>0, <2>3
    <2> QED BY <2>1, <2>2, <2>3, <2>4, <2>5 DEF Origin
  <1>2. ASSUME NEW i \in 1 .. Len(s)
        PROVE  Origin(s, i) \in 1 .. Len(s) /\ SortPass(s)[i] = s[Origin(s, i)]
    <2>1. SortPass(s)[i] = IF i = Len(s) \/ PrefixMax(s, i) <= s[i + 1] THEN PrefixMax(s, i) ELSE s[i + 1]
      BY DEF SortPass
    <2> QED BY <1>1, <2>1
  <1>3. ASSUME NEW i \in 1 .. Len(s), NEW j \in 1 .. Len(s), i < j
        PROVE  Origin(s, i) # Origin(s, j)
    <2>1. i + 1 \in 1 .. j /\ i + 1 \in 1 .. Len(s) /\ i # Len(s) /\ ~(i + 1 <= i)
      BY <1>1, <1>3
    <2>2. s[i + 1] \in Nat /\ s[i + 1] <= PrefixMax(s, j)
      BY <1>0, <1>1, <2>1
    <2>3. PrefixMax(s, i) \in Nat /\ PrefixMax(s, j) \in Nat /\ Carried(s, i) \in Nat /\ Carried(s, j) \in Nat
          /\ i \in Nat /\ j \in Nat
      BY <1>1
    <2>4. PrefixMax(s, i) <= PrefixMax(s, j)
      <3>1. Carried(s, i) \in 1 .. j
        BY <1>1, <1>3, <2>3
      <3> QED BY <1>1, <3>1
    <2>5. CASE swaps(i) /\ swaps(j)
      <3>1. Origin(s, i) = i + 1 /\ Origin(s, j) = j + 1
        BY <1>1, <2>5
      <3> QED BY <1>3, <2>3, <3>1
    <2>6. CASE ~swaps(i) /\ swaps(j)
      <3>1. Origin(s, i) <= i /\ Origin(s, j) = j + 1
        BY <1>1, <2>6
      <3> QED BY <1>3, <2>3, <3>1
    <2>7. CASE swaps(i) /\ ~swaps(j)
      <3>1. Origin(s, i) = i + 1 /\ ~(PrefixMax(s, i) <= s[i + 1])
        BY <1>1, <2>7
      <3>2. s[Origin(s, j)] = PrefixMax(s, j)
        BY <1>1, <2>7
      <3> QED BY <2>2, <2>3, <2>4, <3>1, <3>2
    <2>8. CASE ~swaps(i) /\ ~swaps(j)
      <3>1. PrefixMax(s, i) <= s[i + 1] /\ Origin(s, i) = Carried(s, i) /\ Origin(s, j) = Carried(s, j)
        BY <1>1, <2>1, <2>8
      <3>2. SUFFICES ASSUME Carried(s, i) = Carried(s, j) PROVE FALSE
        BY <3>1
      <3>3. PrefixMax(s, i) = PrefixMax(s, j)
        BY <1>1, <3>2
      <3>4. s[i + 1] = PrefixMax(s, j)
        BY <2>2, <2>3, <3>1, <3>3
      <3>5. i + 1 <= Carried(s, j)
        BY <1>1, <2>1, <3>4
      <3>6. Carried(s, i) <= i
        BY <1>1
      <3> QED BY <2>3, <3>2, <3>5, <3>6
    <2> QED BY <2>5, <2>6, <2>7, <2>8
  <1>4. \A i, j \in 1 .. Len(s) : Origin(s, i) = Origin(s, j) => i = j
    <2>1. \A i, j \in 1 .. Len(s) : i = j \/ i < j \/ j < i
      BY <1>0
    <2> QED BY <1>3, <2>1
  <1>5. \A j \in 1 .. Len(s) : \E i \in 1 .. Len(s) : Origin(s, i) = j
    <2> DEFINE D == 1 .. Len(s)
               f == [i \in D |-> Origin(s, i)]
    <2>1. f \in [D -> D] /\ \A i, j \in D : f[i] = f[j] => i = j
      BY <1>2, <1>4
    <2>2. IsFiniteSet(D)
      BY <1>0, FS_Interval
    <2>3. \A i \in D : f[i] = Origin(s, i)
      OBVIOUS
    <2> HIDE DEF f, D
    <2>4. f \in Injection(D, D)
      BY <2>1, Fun_IsInj
    <2>5. f \in Surjection(D, D)
      BY <2>2, <2>4, FS_Injection
    <2>6. \A j \in D : \E i \in D : f[i] = j
      BY <2>5 DEF Surjection
    <2> QED BY <2>3, <2>6 DEF D
  <1> QED BY <1>2, <1>4, <1>5

\* Where the blocks of a set hold events of cycle c.
Spots(ev, set, c) == {p \in set \X (1 .. BlockSize) : p[2] <= Len(ev[p[1]]) /\ ev[p[1]][p[2]] = c}

\* The log that a stream with these events and these blocks listed stands for.
Kept(ev, set) == [c \in Cycles |-> Cardinality(Spots(ev, set, c))]

LEMMA LogIsKept ==
  [c \in Cycles |-> Cardinality({p \in Places : events[p[1]][p[2]] = c})] = Kept(events, Listed)
  <1>1. \A c : {p \in Places : events[p[1]][p[2]] = c} = Spots(events, Listed, c)
    BY DEF Places, Spots
  <1> QED BY <1>1 DEF Kept

\* Nothing is kept where nothing is listed but the first block, empty.
LEMMA NothingKept == Kept(NoEvents, {1}) = [c \in Cycles |-> 0]
  <1>1. \A c : Spots(NoEvents, {1}, c) = {}
    <2>1. 1 \in Blocks /\ NoEvents[1] = << >> /\ \A k \in 1 .. BlockSize : ~(k <= Len(<< >>))
      BY StreamAssumption DEF Blocks, NoEvents
    <2> QED BY <2>1 DEF Spots
  <1> QED BY <1>1, FS_EmptySet DEF Kept

LEMMA SpotsFinite ==
  ASSUME NEW ev, NEW set \in SUBSET Blocks, NEW c
  PROVE  IsFiniteSet(Spots(ev, set, c)) /\ Cardinality(Spots(ev, set, c)) \in Nat
  <1>1. IsFiniteSet(Blocks) /\ IsFiniteSet(1 .. BlockSize)
    BY StreamAssumption, FS_Interval DEF Blocks
  <1>2. IsFiniteSet(set)
    BY <1>1, FS_Subset
  <1>3. IsFiniteSet(set \X (1 .. BlockSize))
    BY <1>1, <1>2, FS_Product
  <1>4. Spots(ev, set, c) \in SUBSET (set \X (1 .. BlockSize))
    BY DEF Spots
  <1>5. IsFiniteSet(Spots(ev, set, c))
    BY <1>3, <1>4, FS_Subset
  <1> QED BY <1>5, FS_CardinalityType

\* An event at place k of block b, where there was none, is one more of its cycle.
LEMMA KeptMore ==
  ASSUME NEW ev, NEW now, NEW set \in SUBSET Blocks, NEW b \in Blocks, NEW c \in Cycles, NEW k \in 1 .. BlockSize,
         Len(now[b]) = k, now[b][k] = c,
         IF b \in set THEN Len(ev[b]) = k - 1 ELSE k = 1,
         \A i \in 1 .. k - 1 : now[b][i] = ev[b][i],
         \A x \in set : x # b => now[x] = ev[x]
  PROVE  Log!Record(Kept(ev, set), Kept(now, set \cup {b}))
  <1> DEFINE Old(d) == Spots(ev, set, d)
             New(d) == Spots(now, set \cup {b}, d)
             spot == <<b, k>>
  <1>0. k \in Nat /\ BlockSize \in Nat /\ k <= BlockSize
    BY StreamAssumption
  <1>1. ASSUME NEW d, NEW x \in set \cup {b}, NEW i \in 1 .. BlockSize
        PROVE  <<x, i>> \in New(d) <=> (i <= Len(now[x]) /\ now[x][i] = d)
    BY DEF Spots
  <1>2. ASSUME NEW d, NEW x, NEW i \in 1 .. BlockSize
        PROVE  <<x, i>> \in Old(d) <=> (x \in set /\ i <= Len(ev[x]) /\ ev[x][i] = d)
    BY DEF Spots
  <1>3. ASSUME NEW d
        PROVE  Old(d) \subseteq (set \cup {b}) \X (1 .. BlockSize) /\ New(d) \subseteq (set \cup {b}) \X (1 .. BlockSize)
    BY DEF Spots
  <1>11. spot = <<b, k>>
    OBVIOUS
  <1> HIDE DEF New, Old, spot
  <1>4. ASSUME NEW x \in set \cup {b}, NEW i \in 1 .. BlockSize, NEW d, <<x, i>> # spot
        PROVE  <<x, i>> \in New(d) <=> <<x, i>> \in Old(d)
    <2>1. CASE x # b
      <3>1. x \in set /\ now[x] = ev[x]
        BY <2>1
      <3> QED BY <1>1, <1>2, <3>1
    <2>2. CASE x = b
      <3>1. i # k
        BY <1>4, <1>11, <2>2
      <3>2. i <= Len(now[b]) <=> i \in 1 .. k - 1
        BY <1>0, <3>1
      <3>3. b \in set => (i <= Len(ev[b]) <=> i \in 1 .. k - 1)
        BY <1>0, <3>1
      <3>4. b \notin set => ~(i \in 1 .. k - 1)
        BY <1>0
      <3>5. <<b, i>> \in New(d) <=> (i \in 1 .. k - 1 /\ now[b][i] = d)
        BY <1>1, <3>2
      <3>6. <<b, i>> \in Old(d) <=> (b \in set /\ i \in 1 .. k - 1 /\ ev[b][i] = d)
        BY <1>2, <3>3
      <3>7. i \in 1 .. k - 1 => b \in set /\ now[b][i] = ev[b][i]
        BY <3>4
      <3> QED BY <2>2, <3>5, <3>6, <3>7
    <2> QED BY <2>1, <2>2
  <1>5. \A d : spot \notin Old(d)
    <2>1. b \in set => ~(k <= Len(ev[b]))
      BY <1>0
    <2> QED BY <1>2, <1>11, <2>1
  <1>6. \A d : spot \in New(d) <=> d = c
    <2> SUFFICES ASSUME NEW d PROVE spot \in New(d) <=> d = c
      OBVIOUS
    <2>1. b \in set \cup {b} /\ k <= Len(now[b])
      BY <1>0
    <2>2. <<b, k>> \in New(d) <=> (k <= Len(now[b]) /\ now[b][k] = d)
      BY <1>1, <2>1
    <2> QED BY <1>11, <2>1, <2>2
  <1>7. \A d : New(d) = IF d = c THEN Old(d) \cup {spot} ELSE Old(d)
    <2> SUFFICES ASSUME NEW d PROVE New(d) = IF d = c THEN Old(d) \cup {spot} ELSE Old(d)
      OBVIOUS
    <2>1. \A p \in (set \cup {b}) \X (1 .. BlockSize) : p # spot => (p \in New(d) <=> p \in Old(d))
      BY <1>4
    <2>2. \A p : p \in New(d) => p \in (set \cup {b}) \X (1 .. BlockSize)
      BY <1>3
    <2>3. \A p : p \in Old(d) => p \in (set \cup {b}) \X (1 .. BlockSize)
      BY <1>3
    <2>4. \A p : p \in New(d) <=> (p \in Old(d) \/ (d = c /\ p = spot))
      BY <2>1, <2>2, <2>3, <1>5, <1>6
    <2> QED BY <2>4
  <1>8. \A d : IsFiniteSet(Old(d)) /\ Cardinality(Old(d)) \in Nat
    BY SpotsFinite DEF Old
  <1>9. \A d : Cardinality(New(d)) = IF d = c THEN Cardinality(Old(d)) + 1 ELSE Cardinality(Old(d))
    <2> SUFFICES ASSUME NEW d PROVE Cardinality(New(d)) = IF d = c THEN Cardinality(Old(d)) + 1 ELSE Cardinality(Old(d))
      OBVIOUS
    <2>1. Cardinality(Old(d) \cup {spot}) = Cardinality(Old(d)) + 1
      BY <1>5, <1>8, FS_AddElement
    <2> QED BY <1>7, <2>1
  <1>10. Kept(now, set \cup {b}) = [d \in Cycles |-> Cardinality(New(d))]
         /\ Kept(ev, set) = [d \in Cycles |-> Cardinality(Old(d))]
    BY DEF Kept, New, Old
  <1>12. Kept(now, set \cup {b}) = [Kept(ev, set) EXCEPT ![c] = Kept(ev, set)[c] + 1]
    BY <1>9, <1>10
  <1> QED BY <1>12 DEF Log!Record

\* Moving events within their blocks keeps as many of each cycle.
LEMMA KeptMoved ==
  ASSUME NEW ev, NEW now, NEW set \in SUBSET Blocks,
         \A x \in set : /\ ev[x] \in Seq(Nat) /\ Len(ev[x]) <= BlockSize
                        /\ now[x] = SortPass(ev[x])
  PROVE  Kept(now, set) = Kept(ev, set)
  <1>1. ASSUME NEW x \in set
        PROVE  /\ Len(now[x]) = Len(ev[x]) /\ Len(ev[x]) \in Nat /\ Len(ev[x]) <= BlockSize
               /\ \A i \in 1 .. Len(ev[x]) : Origin(ev[x], i) \in 1 .. Len(ev[x])
                                             /\ now[x][i] = ev[x][Origin(ev[x], i)]
               /\ \A i, j \in 1 .. Len(ev[x]) : Origin(ev[x], i) = Origin(ev[x], j) => i = j
               /\ \A j \in 1 .. Len(ev[x]) : \E i \in 1 .. Len(ev[x]) : Origin(ev[x], i) = j
    <2>1. ev[x] \in Seq(Nat) /\ now[x] = SortPass(ev[x]) /\ Len(ev[x]) <= BlockSize
      OBVIOUS
    <2>2. Len(ev[x]) \in Nat
      BY <2>1
    <2>3. Len(SortPass(ev[x])) = Len(ev[x])
      BY <2>2 DEF SortPass
    <2>4. /\ \A i \in 1 .. Len(ev[x]) : Origin(ev[x], i) \in 1 .. Len(ev[x])
                                          /\ SortPass(ev[x])[i] = ev[x][Origin(ev[x], i)]
          /\ \A i, j \in 1 .. Len(ev[x]) : Origin(ev[x], i) = Origin(ev[x], j) => i = j
          /\ \A j \in 1 .. Len(ev[x]) : \E i \in 1 .. Len(ev[x]) : Origin(ev[x], i) = j
      BY <2>1, PassPermutes
    <2> QED BY <2>1, <2>2, <2>3, <2>4
  <1>2. ASSUME NEW c
        PROVE  Cardinality(Spots(now, set, c)) = Cardinality(Spots(ev, set, c))
    <2> DEFINE S == Spots(now, set, c)
               T == Spots(ev, set, c)
               f == [p \in S |-> <<p[1], Origin(ev[p[1]], p[2])>>]
    <2>1. \A x \in set : \A i : i \in 1 .. BlockSize /\ i <= Len(ev[x]) <=> i \in 1 .. Len(ev[x])
      BY <1>1, StreamAssumption
    <2>2. \A p : p \in S <=> \E x \in set : \E i \in 1 .. Len(ev[x]) : p = <<x, i>> /\ now[x][i] = c
      <3>1. ASSUME NEW p \in S PROVE \E x \in set : \E i \in 1 .. Len(ev[x]) : p = <<x, i>> /\ now[x][i] = c
        <4>1. PICK x \in set, i \in 1 .. BlockSize : p = <<x, i>>
          BY <3>1 DEF Spots
        <4>2. i <= Len(now[x]) /\ now[x][i] = c
          BY <3>1, <4>1 DEF Spots
        <4> QED BY <1>1, <2>1, <4>1, <4>2
      <3>2. ASSUME NEW x \in set, NEW i \in 1 .. Len(ev[x]), now[x][i] = c PROVE <<x, i>> \in S
        <4>1. i \in 1 .. BlockSize /\ i <= Len(now[x])
          BY <1>1, <2>1
        <4> QED BY <3>2, <4>1 DEF Spots
      <3> HIDE DEF S
      <3> QED BY <3>1, <3>2
    <2>3. \A p : p \in T <=> \E x \in set : \E i \in 1 .. Len(ev[x]) : p = <<x, i>> /\ ev[x][i] = c
      <3>1. ASSUME NEW p \in T PROVE \E x \in set : \E i \in 1 .. Len(ev[x]) : p = <<x, i>> /\ ev[x][i] = c
        <4>1. PICK x \in set, i \in 1 .. BlockSize : p = <<x, i>>
          BY <3>1 DEF Spots
        <4>2. i <= Len(ev[x]) /\ ev[x][i] = c
          BY <3>1, <4>1 DEF Spots
        <4> QED BY <2>1, <4>1, <4>2
      <3>2. ASSUME NEW x \in set, NEW i \in 1 .. Len(ev[x]), ev[x][i] = c PROVE <<x, i>> \in T
        <4>1. i \in 1 .. BlockSize /\ i <= Len(ev[x])
          BY <1>1, <2>1
        <4> QED BY <3>2, <4>1 DEF Spots
      <3> HIDE DEF T
      <3> QED BY <3>1, <3>2
    <2> HIDE DEF S, T
    <2>4. ASSUME NEW x \in set, NEW i \in 1 .. Len(ev[x]), <<x, i>> \in S
          PROVE  f[<<x, i>>] = <<x, Origin(ev[x], i)>>
      BY <2>4
    <2> HIDE DEF f
    <2>5. f \in [S -> T]
      <3>1. ASSUME NEW p \in S PROVE f[p] \in T
        <4>1. PICK x \in set : \E i \in 1 .. Len(ev[x]) : p = <<x, i>> /\ now[x][i] = c
          BY <2>2, <3>1
        <4>2. PICK i \in 1 .. Len(ev[x]) : p = <<x, i>> /\ now[x][i] = c
          BY <4>1
        <4>3. Origin(ev[x], i) \in 1 .. Len(ev[x]) /\ ev[x][Origin(ev[x], i)] = c
          BY <1>1, <4>2
        <4>4. f[p] = <<x, Origin(ev[x], i)>>
          BY <2>4, <3>1, <4>2
        <4> QED BY <2>3, <4>3, <4>4
      <3> QED BY <3>1 DEF f
    <2>6. \A p, q \in S : f[p] = f[q] => p = q
      <3> SUFFICES ASSUME NEW p \in S, NEW q \in S, f[p] = f[q] PROVE p = q
        OBVIOUS
      <3>1. PICK x \in set : \E i \in 1 .. Len(ev[x]) : p = <<x, i>>
        BY <2>2
      <3>2. PICK i \in 1 .. Len(ev[x]) : p = <<x, i>>
        BY <3>1
      <3>3. PICK y \in set : \E j \in 1 .. Len(ev[y]) : q = <<y, j>>
        BY <2>2
      <3>4. PICK j \in 1 .. Len(ev[y]) : q = <<y, j>>
        BY <3>3
      <3>5. f[p] = <<x, Origin(ev[x], i)>> /\ f[q] = <<y, Origin(ev[y], j)>>
        BY <2>4, <3>2, <3>4
      <3>6. x = y /\ Origin(ev[x], i) = Origin(ev[y], j)
        <4>1. \A a, b, d, e : <<a, b>> = <<d, e>> => a = d /\ b = e
          OBVIOUS
        <4>2. <<x, Origin(ev[x], i)>> = <<y, Origin(ev[y], j)>>
          BY <3>5
        <4> QED BY <4>1, <4>2
      <3>7. i = j
        BY <1>1, <3>6
      <3> QED BY <3>2, <3>4, <3>6, <3>7
    <2>7. \A q \in T : \E p \in S : f[p] = q
      <3> SUFFICES ASSUME NEW q \in T PROVE \E p \in S : f[p] = q
        OBVIOUS
      <3>1. PICK x \in set : \E j \in 1 .. Len(ev[x]) : q = <<x, j>> /\ ev[x][j] = c
        BY <2>3
      <3>2. PICK j \in 1 .. Len(ev[x]) : q = <<x, j>> /\ ev[x][j] = c
        BY <3>1
      <3>3. PICK i \in 1 .. Len(ev[x]) : Origin(ev[x], i) = j
        BY <1>1
      <3>4. now[x][i] = c
        BY <1>1, <3>2, <3>3
      <3>5. <<x, i>> \in S
        BY <2>2, <3>4
      <3>6. f[<<x, i>>] = q
        BY <2>4, <3>2, <3>3, <3>5
      <3> QED BY <3>5, <3>6
    <2>8. f \in Bijection(S, T)
      BY <2>5, <2>6, <2>7, Fun_IsBij
    <2>9. IsFiniteSet(S) /\ ExistsBijection(S, T)
      BY <2>8, SpotsFinite DEF S, ExistsBijection
    <2>10. Cardinality(S) = Cardinality(T)
      BY <2>9, FS_Bijection
    <2> QED BY <2>10 DEF S, T
  <1> QED BY <1>2 DEF Kept

\* Without the events of block b, which are in order and do not show, the log is the
\* same but for what may be dropped.
LEMMA KeptLess ==
  ASSUME DrawInv, NEW ev, NEW now, NEW set \in SUBSET Blocks, NEW rest, NEW b \in set, rest \cup {b} = set,
         b \in rest => now[b] = << >>, \A x \in rest : x # b => now[x] = ev[x],
         ev[b] \in Seq(Cycles), ev[b] # << >>, Len(ev[b]) <= BlockSize, ~OutOfOrder(ev[b]),
         ~RangeContains(ev[b][1]), ~RangeContains(PrefixMax(ev[b], Len(ev[b])))
  PROVE  Log!Drop(Kept(ev, set), Kept(now, rest))
  <1> DEFINE Old(d) == Spots(ev, set, d)
             New(d) == Spots(now, rest, d)
             s == ev[b]
             least == s[1]
             most == PrefixMax(s, Len(s))
  <1>1. /\ s \in Seq(Nat) /\ Len(s) \in Nat /\ Len(s) # 0 /\ Len(s) <= BlockSize /\ BlockSize \in Nat
        /\ \A i \in 1 .. Len(s) : s[i] \in Cycles /\ s[i] \in Nat
    <2>1. s \in Seq(Nat)
      BY StreamAssumption, SeqMonotonic
    <2> QED BY <2>1, StreamAssumption
  <1>2. range.lo \in Nat /\ range.hi \in Nat
    BY DEF DrawInv
  <1>3. 1 \in 1 .. Len(s) /\ Len(s) \in 1 .. Len(s) /\ \A i \in 1 .. Len(s) : 1 <= i /\ i \in 1 .. BlockSize
    BY <1>1
  <1>4. /\ least \in Nat /\ most \in Nat
        /\ \A i \in 1 .. Len(s) : least <= s[i] /\ s[i] <= most
        /\ \E i \in 1 .. Len(s) : s[i] = most
    <2>1. /\ most \in Nat /\ \A i \in 1 .. Len(s) : s[i] <= most
          /\ \E i \in 1 .. Len(s) : s[i] = most
      BY <1>1, <1>3, PrefixMaxIs
    <2>2. \A i \in 1 .. Len(s) : least <= s[i]
      BY <1>1, <1>3, InOrder
    <2> QED BY <1>1, <1>3, <2>1, <2>2
  <1>5. ~(range.lo <= least /\ least <= range.hi) /\ ~(range.lo <= most /\ most <= range.hi)
    BY DEF RangeContains
  <1> HIDE DEF least, most
  <1>6. ASSUME NEW d, NEW p \in New(d)
        PROVE  p \in Old(d)
    <2>1. PICK x \in rest, i \in 1 .. BlockSize : p = <<x, i>>
      BY <1>6 DEF Spots
    <2>2. i <= Len(now[x]) /\ now[x][i] = d
      BY <1>6, <2>1 DEF Spots
    <2>3. x # b
      <3> SUFFICES ASSUME x = b PROVE FALSE
        OBVIOUS
      <3>1. Len(now[x]) = 0
        OBVIOUS
      <3> QED BY <1>1, <2>2, <3>1
    <2>4. x \in set /\ now[x] = ev[x]
      BY <2>3
    <2> QED BY <2>1, <2>2, <2>4 DEF Spots
  <1>7. ASSUME NEW d, NEW p \in Old(d), p \notin New(d)
        PROVE  \E i \in 1 .. Len(s) : s[i] = d
    <2>1. PICK x \in set, i \in 1 .. BlockSize : p = <<x, i>>
      BY <1>7 DEF Spots
    <2>2. i <= Len(ev[x]) /\ ev[x][i] = d
      BY <1>7, <2>1 DEF Spots
    <2>3. x = b
      <3> SUFFICES ASSUME x # b PROVE FALSE
        OBVIOUS
      <3>1. x \in rest /\ now[x] = ev[x]
        OBVIOUS
      <3> QED BY <1>7, <2>1, <2>2, <3>1 DEF Spots
    <2>4. i \in 1 .. Len(s)
      BY <1>1, <2>2, <2>3
    <2> QED BY <2>2, <2>3, <2>4
  <1>8. ASSUME NEW i \in 1 .. Len(s)
        PROVE  <<b, i>> \in Old(s[i]) /\ <<b, i>> \notin New(s[i])
    <2>1. i \in 1 .. BlockSize /\ i <= Len(s) /\ 1 <= i
      BY <1>1, <1>3
    <2>2. <<b, i>> \in Old(s[i])
      BY <2>1 DEF Spots
    <2>3. ASSUME <<b, i>> \in New(s[i]) PROVE FALSE
      <3>1. b \in rest /\ i <= Len(now[b])
        BY <2>3 DEF Spots
      <3>2. now[b] = << >>
        BY <3>1
      <3>3. Len(now[b]) = 0
        BY <3>2
      <3> QED BY <1>1, <2>1, <3>1, <3>3
    <2> QED BY <2>2, <2>3
  <1>9. \A d : IsFiniteSet(Old(d)) /\ Cardinality(Old(d)) \in Nat
    BY SpotsFinite
  <1>10. Kept(ev, set) = [d \in Cycles |-> Cardinality(Old(d))]
         /\ Kept(now, rest) = [d \in Cycles |-> Cardinality(New(d))]
    BY DEF Kept
  <1> HIDE DEF Old, New
  <1>11. \A d : /\ Cardinality(New(d)) \in Nat /\ Cardinality(New(d)) <= Cardinality(Old(d))
                /\ Cardinality(New(d)) < Cardinality(Old(d)) <=> \E i \in 1 .. Len(s) : s[i] = d
    <2> SUFFICES ASSUME NEW d
                 PROVE  /\ Cardinality(New(d)) \in Nat /\ Cardinality(New(d)) <= Cardinality(Old(d))
                        /\ Cardinality(New(d)) < Cardinality(Old(d)) <=> \E i \in 1 .. Len(s) : s[i] = d
      OBVIOUS
    <2>1. New(d) \in SUBSET Old(d)
      BY <1>6
    <2>2. /\ IsFiniteSet(New(d)) /\ Cardinality(New(d)) <= Cardinality(Old(d))
          /\ Cardinality(Old(d)) = Cardinality(New(d)) => Old(d) = New(d)
      BY <1>9, <2>1, FS_Subset
    <2>3. Cardinality(New(d)) \in Nat
      BY <2>2, FS_CardinalityType
    <2>4. Cardinality(New(d)) < Cardinality(Old(d)) => \E i \in 1 .. Len(s) : s[i] = d
      <3> SUFFICES ASSUME Cardinality(New(d)) < Cardinality(Old(d)) PROVE \E i \in 1 .. Len(s) : s[i] = d
        OBVIOUS
      <3>1. New(d) # Old(d)
        BY <1>9, <2>3
      <3>2. PICK p \in Old(d) : p \notin New(d)
        BY <2>1, <3>1
      <3> QED BY <1>7, <3>2
    <2>5. ASSUME NEW i \in 1 .. Len(s), s[i] = d PROVE Cardinality(New(d)) < Cardinality(Old(d))
      <3>1. New(d) # Old(d)
        BY <1>8, <2>5
      <3> QED BY <1>9, <2>2, <2>3, <3>1
    <2> QED BY <2>2, <2>3, <2>4, <2>5
  <1> DEFINE dropped == {d \in Cycles : Kept(now, rest)[d] < Kept(ev, set)[d]}
  <1>12. \A d \in Cycles : Kept(now, rest)[d] <= Kept(ev, set)[d]
    BY <1>10, <1>11
  <1>13. \A d : d \in dropped <=> \E i \in 1 .. Len(s) : s[i] = d
    BY <1>1, <1>10, <1>11
  <1> HIDE DEF dropped
  <1>14. least \in dropped /\ most \in dropped /\ \A d \in dropped : d \in Nat /\ least <= d /\ d <= most
    <2>1. least \in dropped
      BY <1>3, <1>13 DEF least
    <2>2. most \in dropped
      BY <1>4, <1>13
    <2>3. ASSUME NEW d \in dropped PROVE d \in Nat /\ least <= d /\ d <= most
      <3>1. PICK i \in 1 .. Len(s) : s[i] = d
        BY <1>13
      <3> QED BY <1>1, <1>4, <3>1
    <2> QED BY <2>1, <2>2, <2>3
  <1>15. \/ \A d \in dropped : d < range.lo \/ d > range.hi
         \/ least < range.lo /\ most > range.hi
    BY <1>2, <1>4, <1>5, <1>14
  <1> QED BY <1>12, <1>14, <1>15 DEF Log!Drop, dropped

\* Every step of the stream is one of the log, or none that shows.
LEMMA StreamLogs ==
  ASSUME StreamInv, [StreamNext]_streamVars
  PROVE  \/ UNCHANGED range /\ (Kept(events', Listed') = Kept(events, Listed)
                                \/ Log!Record(Kept(events, Listed), Kept(events', Listed'))
                                \/ Log!Drop(Kept(events, Listed), Kept(events', Listed')))
         \/ /\ Kept(events', Listed') = Kept(events, Listed)
            /\ range'.lo >= range.lo /\ range'.hi >= range.hi
         \/ /\ Kept(events', Listed') = [c \in Cycles |-> 0]
            /\ range' = [lo |-> 0, hi |-> 0]
  <1>1. /\ ListGoes /\ Listed \in SUBSET Blocks /\ first \in Listed /\ current \in Listed
        /\ first \in Blocks /\ current \in Blocks
    BY ListsGo, ListedEnds DEF StreamInv
  <1>2. /\ events \in [Blocks -> Seq(Cycles)]
        /\ \A b \in Blocks : Len(events[b]) \in Nat /\ Len(events[b]) <= BlockSize
        /\ \A b \in Listed : b # current => Len(events[b]) = BlockSize
        /\ BlockSize \in Nat \ {0}
        /\ \A b \in Listed \ unsorted : ~OutOfOrder(events[b])
        /\ callback \in {"trim", "last"} => unsorted = {}
        /\ range \in [lo : Nat, hi : Nat] /\ DrawInv
        /\ DOMAIN events = Blocks
    BY StreamAssumption DEF StreamInv, EventsInv, SettledBlocksInOrder, CallbackInv, DrawInv
  <1>3. ASSUME NEW b \in Listed, callback \in {"trim", "last"}, events[b] # << >>, ~Shown(b)
        PROVE  /\ events[b] \in Seq(Cycles) /\ Len(events[b]) <= BlockSize /\ ~OutOfOrder(events[b])
               /\ ~RangeContains(events[b][1]) /\ ~RangeContains(PrefixMax(events[b], Len(events[b])))
    BY <1>1, <1>2, <1>3 DEF Shown, MinCycles, MaxCycles
  <1>4. ASSUME StillStep, Listed' = Listed
        PROVE  \/ UNCHANGED range /\ (Kept(events', Listed') = Kept(events, Listed)
                                      \/ Log!Record(Kept(events, Listed), Kept(events', Listed'))
                                      \/ Log!Drop(Kept(events, Listed), Kept(events', Listed')))
               \/ /\ Kept(events', Listed') = Kept(events, Listed)
                  /\ range'.lo >= range.lo /\ range'.hi >= range.hi
    <2>1. ASSUME NEW c \in Cycles, Append1(c)
          PROVE  UNCHANGED range /\ Log!Record(Kept(events, Listed), Kept(events', Listed'))
      <3> DEFINE k == Len(events[current]) + 1
                 longer == Append(events[current], c)
      <3>1. events' = [events EXCEPT ![current] = longer] /\ Len(events[current]) < BlockSize /\ UNCHANGED range
        BY <2>1 DEF Append1, HasRoom
      <3>2. k \in 1 .. BlockSize /\ Len(events[current]) = k - 1
        BY <1>1, <1>2, <3>1
      <3>3. Len(longer) = k /\ longer[k] = c /\ \A i \in 1 .. k - 1 : longer[i] = events[current][i]
        BY <1>1, <1>2
      <3> HIDE DEF k, longer
      <3>4. events'[current] = longer /\ \A x \in Listed : x # current => events'[x] = events[x]
        BY <1>1, <1>2, <3>1
      <3>5. Log!Record(Kept(events, Listed), Kept(events', Listed \cup {current}))
        <4>1. /\ Len(events'[current]) = k /\ events'[current][k] = c
              /\ IF current \in Listed THEN Len(events[current]) = k - 1 ELSE k = 1
              /\ \A i \in 1 .. k - 1 : events'[current][i] = events[current][i]
          BY <1>1, <3>2, <3>3, <3>4
        <4> QED BY <1>1, <3>2, <3>4, <4>1, KeptMore
      <3>6. Listed \cup {current} = Listed
        BY <1>1
      <3> QED BY <1>4, <3>1, <3>5, <3>6
    <2>2. CASE Sort
      <3>1. \A b \in Listed : events'[b] = SortPass(events[b])
        BY <1>1, <2>2 DEF Sort, SortedOnce
      <3>2. \A b \in Listed : events[b] \in Seq(Nat) /\ Len(events[b]) <= BlockSize
        BY <1>1, <1>2, StreamAssumption, SeqMonotonic
      <3>3. Kept(events', Listed) = Kept(events, Listed)
        BY <1>1, <3>1, <3>2, KeptMoved
      <3> QED BY <1>4, <2>2, <3>3 DEF Sort
    <2>3. CASE EmptyLast
      <3>1. callback = "last" /\ range' = range
        BY <2>3 DEF EmptyLast
      <3>2. CASE events[current] = << >> \/ Shown(current)
        BY <1>4, <2>3, <3>2 DEF EmptyLast
      <3>3. CASE ~(events[current] = << >> \/ Shown(current))
        <4>1. events' = [events EXCEPT ![current] = << >>]
          BY <2>3, <3>3 DEF EmptyLast
        <4>2. events'[current] = << >> /\ \A x \in Listed : x # current => events'[x] = events[x]
          BY <1>1, <1>2, <4>1
        <4>3. Listed \cup {current} = Listed
          BY <1>1
        <4>4. Log!Drop(Kept(events, Listed), Kept(events', Listed))
          BY <1>1, <1>2, <1>3, <3>1, <3>3, <4>2, <4>3, KeptLess
        <4> QED BY <1>4, <3>1, <4>4
      <3> QED BY <3>2, <3>3
    <2>4. ASSUME NEW hi \in FrameCycles \cup {0}, StoreMaxCycles(hi)
          PROVE  /\ Kept(events', Listed') = Kept(events, Listed)
                 /\ range'.lo >= range.lo /\ range'.hi >= range.hi
      <3>1. events' = events /\ hi >= range.hi /\ range' = [range EXCEPT !.hi = hi]
        BY <2>4 DEF StoreMaxCycles
      <3>2. range'.hi = hi /\ range'.lo = range.lo /\ range.lo \in Nat
        BY <1>2, <3>1
      <3> QED BY <1>4, <3>1, <3>2
    <2>5. ASSUME NEW lo \in FrameCycles, StoreMinCycles(lo)
          PROVE  /\ Kept(events', Listed') = Kept(events, Listed)
                 /\ range'.lo >= range.lo /\ range'.hi >= range.hi
      <3>1. events' = events /\ lo >= range.lo /\ range' = [range EXCEPT !.lo = lo]
        BY <2>5 DEF StoreMinCycles
      <3>2. range'.lo = lo /\ range'.hi = range.hi /\ range.hi \in Nat
        BY <1>2, <3>1
      <3> QED BY <1>4, <3>1, <3>2
    <2>6. CASE UNCHANGED <<events, range>>
      BY <1>4, <2>6
    <2> QED BY <1>4, <2>1, <2>2, <2>3, <2>4, <2>5, <2>6
            DEF StillStep, BeginBufferCallback, StopFreeing, DrawStep, DrawNextBlock, streamVars
  <1>5. ASSUME NEW c \in Cycles, Reuse(c) \/ Allocate(c), current' \in Blocks \ Listed, Listed' = Listed \cup {current'}
        PROVE  UNCHANGED range /\ Log!Record(Kept(events, Listed), Kept(events', Listed'))
    <2>1. events' = [events EXCEPT ![current'] = <<c>>] /\ UNCHANGED range
      BY <1>5, ExtendIs
    <2>2. events'[current'] = <<c>> /\ \A x \in Listed : x # current' => events'[x] = events[x]
      BY <1>1, <1>2, <1>5, <2>1
    <2>3. 1 \in 1 .. BlockSize /\ Len(<<c>>) = 1 /\ <<c>>[1] = c
      BY <1>2
    <2>4. \A i \in 1 .. 1 - 1 : events'[current'][i] = events[current'][i]
      OBVIOUS
    <2>5. Log!Record(Kept(events, Listed), Kept(events', Listed \cup {current'}))
      <3> DEFINE k == 1
                 b == current'
      <3>1. /\ b \in Blocks /\ k \in 1 .. BlockSize /\ Len(events'[b]) = k /\ events'[b][k] = c
            /\ IF b \in Listed THEN Len(events[b]) = k - 1 ELSE k = 1
            /\ \A i \in 1 .. k - 1 : events'[b][i] = events[b][i]
            /\ \A x \in Listed : x # b => events'[x] = events[x]
        BY <1>5, <2>2, <2>3, <2>4
      <3> HIDE DEF k, b
      <3>2. Log!Record(Kept(events, Listed), Kept(events', Listed \cup {b}))
        BY <1>1, <3>1, KeptMore
      <3> QED BY <3>2 DEF b
    <2> QED BY <1>5, <2>1, <2>5
  <1>6. ASSUME FreeFirst, Listed' = Listed \ {first}
        PROVE  UNCHANGED range /\ Log!Drop(Kept(events, Listed), Kept(events', Listed'))
    <2>1. callback = "trim" /\ first # current /\ ~Shown(first) /\ events' = events /\ range' = range
      BY <1>6 DEF FreeFirst
    <2>2. events[first] # << >>
      BY <1>1, <1>2, <2>1
    <2>3. (Listed \ {first}) \cup {first} = Listed
      BY <1>1
    <2>4. Log!Drop(Kept(events, Listed), Kept(events', Listed \ {first}))
      BY <1>1, <1>2, <1>3, <2>1, <2>2, <2>3, KeptLess
    <2> QED BY <1>6, <2>1, <2>4
  <1>7. ASSUME StreamRestart, Listed' = {1}
        PROVE  /\ Kept(events', Listed') = [c \in Cycles |-> 0]
               /\ range' = [lo |-> 0, hi |-> 0]
    <2>1. events' = NoEvents /\ range' = [lo |-> 0, hi |-> 0]
      BY <1>7 DEF StreamRestart
    <2> QED BY <1>7, <2>1, NothingKept
  <1> QED BY <1>1, <1>4, <1>5, <1>6, <1>7 DEF ListGoes

\* The stream implements the log of events: whatever the order of pushes, sorts,
\* trims and frames, no event is repeated, and what is dropped is a batch with no
\* event in the range shown, be it older or newer, or one that has events on both
\* sides of it, and so may take events in the range along.
THEOREM StreamImplementsLog == Spec => ImplementsEventLog
  <1>1. Init => Log!LogInit
    <2> SUFFICES ASSUME Init PROVE Log!LogInit
      OBVIOUS
    <2>1. events = NoEvents /\ range = [lo |-> 0, hi |-> 0] /\ first = 1
      BY DEF Init, StreamInit
    <2>2. Listed = {1}
      <3>1. Linked(next, first, firstFree, current, allocated, <<1>>, << >>)
        BY OneBlockLinked DEF Init, StreamInit
      <3>2. BlocksFrom(first) = <<1>>
        BY <3>1, LinkedFollows DEF BlocksFrom
      <3> QED BY <3>2 DEF Listed, Range
    <2>3. Kept(events, Listed) = [c \in Cycles |-> 0]
      BY <2>1, <2>2, NothingKept
    <2> QED BY <2>1, <2>3, LogIsKept DEF Log!LogInit
  <1>2. StreamInv /\ [Next]_vars => [Log!LogNext]_<<[c \in Cycles |-> Cardinality({p \in Places : events[p[1]][p[2]] = c})], range>>
    <2> SUFFICES ASSUME StreamInv, [Next]_vars
                 PROVE  [Log!LogNext]_<<[c \in Cycles |-> Cardinality({p \in Places : events[p[1]][p[2]] = c})], range>>
      OBVIOUS
    <2> DEFINE was == [c \in Cycles |-> Cardinality({p \in Places : events[p[1]][p[2]] = c})]
    <2>1. was = Kept(events, Listed) /\ was' = Kept(events', Listed')
      <3>1. was = Kept(events, Listed)
        BY LogIsKept
      <3>2. (was = Kept(events, Listed))'
        BY LogIsKept, PTL
      <3> QED BY <3>1, <3>2
    <2>2. \/ UNCHANGED range /\ (was' = was \/ Log!Record(was, was') \/ Log!Drop(was, was'))
          \/ was' = was /\ range'.lo >= range.lo /\ range'.hi >= range.hi
          \/ was' = [c \in Cycles |-> 0] /\ range' = [lo |-> 0, hi |-> 0]
      BY <2>1, NextIsStream, StreamLogs
    <2> QED BY <2>2 DEF Log!LogNext, Log!Show, Log!Forget
  <1> QED BY <1>1, <1>2, StreamInvariant, PTL DEF Spec, ImplementsEventLog, Log!LogSpec
=============================================================================
