------------------------------ MODULE FrameRing ------------------------------
(***************************************************************************)
(* The ring of frames shared by the main thread, the workers and the       *)
(* callgraph.                                                              *)
(*                                                                         *)
(* The main thread (thread 0) counts frames in its WriteIndex; each worker *)
(* copies that counter, late and with frames skipped, and then recycles    *)
(* the slot of the frame it adopted while the main thread may be reading.  *)
(* No lock protects any of this: the callgraph only compares the           *)
(* FrameRecorded stamps of a worker's tree and the main thread's.          *)
(*                                                                         *)
(* A tree is abstracted to the frames whose scopes hang in it (ScopeTree   *)
(* models its links); a mutex operation to the frame it was recorded in.   *)
(***************************************************************************)
EXTENDS Integers, Sequences

CONSTANTS
    WorkerCount,    \* GetTotalThreadCount() - 1
    FramesTracked,  \* DEBUG_FRAMES_TRACKED
    MutexOpsPerFrame,
    MaxFrame        \* bound: the last frame; far below the u32 wrap of WriteIndex

ASSUME WorkersAssumption == WorkerCount \in Nat
ASSUME FramesAssumption == FramesTracked \in Nat /\ FramesTracked >= 2
ASSUME BoundsAssumption == MutexOpsPerFrame \in Nat /\ MaxFrame \in Nat /\ MaxFrame >= 1

Main == 0
Workers == 1 .. WorkerCount
Threads == {Main} \cup Workers
Slots == 0 .. FramesTracked - 1
FrameIds == 1 .. MaxFrame
SlotOf(f) == f % FramesTracked

VARIABLES
    writeIndex, \* thread -> the frame it records
    stamp,      \* thread -> slot -> FrameRecorded; 0 in a tree never restamped
    held,       \* thread -> slot -> the frames whose scopes are in the tree
    ops,        \* thread -> slot -> the frame of each of its MutexOps records
    worker,     \* worker -> [at, next]: where it is in its advance, and the
                \* NextFrameId it has read
    stats,      \* slot -> [frame, done]: the frame whose StartingCycle is in
                \* Frames, and whether its TotalCycles is known
    readIndex,  \* ReadScopeIndex
    profiling,  \* DebugDoScopeProfiling
    view        \* [at, thread]: where the main thread is in the callgraph

threadVars == <<writeIndex, stamp, held, ops>>
vars == <<writeIndex, stamp, held, ops, worker, stats, readIndex, profiling, view>>

CurrentSlot(t) == SlotOf(writeIndex[t])

\* InitDebugDataSystem, InitDebugState: every thread starts in frame 1, no tree
\* has a stamp, and Frames[1] has its StartingCycle.
Init ==
    /\ writeIndex = [t \in Threads |-> 1]
    /\ stamp = [t \in Threads |-> [s \in Slots |-> 0]]
    /\ held = [t \in Threads |-> [s \in Slots |-> {}]]
    /\ ops = [t \in Threads |-> [s \in Slots |-> <<>>]]
    /\ worker = [w \in Workers |-> [at |-> "work", next |-> 1]]
    /\ stats = [s \in Slots |-> [frame |-> IF s = 1 THEN 1 ELSE 0, done |-> FALSE]]
    /\ readIndex = 0
    /\ profiling = TRUE
    /\ view = [at |-> "closed", thread |-> Main]

(***************************************************************************)
(* Recording.                                                              *)
(***************************************************************************)

\* A thread is in its program, not in its advance.
Working(t) == t \in Workers => worker[t].at = "work"

\* A timer opens a scope in the thread's current tree.
RecordScope(t) ==
    /\ profiling
    /\ Working(t)
    /\ held' = [held EXCEPT ![t][CurrentSlot(t)] = @ \cup {writeIndex[t]}]
    /\ UNCHANGED <<writeIndex, stamp, ops, worker, stats, readIndex, profiling, view>>

\* ReserveMutexOpRecord: the record is dropped when the frame's array is full.
RecordMutexOp(t) ==
    /\ profiling
    /\ Working(t)
    /\ Len(ops[t][CurrentSlot(t)]) < MutexOpsPerFrame
    /\ ops' = [ops EXCEPT ![t][CurrentSlot(t)] = Append(@, writeIndex[t])]
    /\ UNCHANGED <<writeIndex, stamp, held, worker, stats, readIndex, profiling, view>>

(***************************************************************************)
(* The main thread's frame.                                                *)
(***************************************************************************)

\* Mutant of NextSlot: no wrap.
NextSlotUnwrapped(s) == s + 1

\* GetNextDebugFrameIndex
NextSlot(s) == (s + 1) % FramesTracked

\* MainThreadAdvanceDebugSystem, with the AdvanceThreadState of the main
\* thread's own trees and the scope the function itself records.  Only the main
\* thread reads what it writes, WriteIndex apart.
MainThreadAdvance ==
    /\ profiling
    /\ view.at = "closed"
    /\ writeIndex[Main] < MaxFrame
    /\ LET this == CurrentSlot(Main)
           next == writeIndex[Main] + 1
       IN /\ writeIndex' = [writeIndex EXCEPT ![Main] = next]
          /\ held' = [held EXCEPT ![Main][this] = @ \cup {writeIndex[Main]},
                                  ![Main][SlotOf(next)] = {}]
          /\ ops' = [ops EXCEPT ![Main][SlotOf(next)] = <<>>]
          /\ stamp' = [stamp EXCEPT ![Main][SlotOf(next)] = next]
          /\ readIndex' = this
          /\ stats' = [stats EXCEPT ![this].done = TRUE,
                                    ![NextSlot(this)] = [frame |-> next, done |-> FALSE]]
    /\ UNCHANGED <<worker, profiling, view>>

\* DebugFrameBegin, when the user asks for it.
ToggleProfiling ==
    /\ view.at = "closed"
    /\ profiling' = ~profiling
    /\ UNCHANGED <<threadVars, worker, stats, readIndex, view>>

(***************************************************************************)
(* The callgraph window, drawn by the main thread.                         *)
(***************************************************************************)

\* DrawFrameTicker: a click on a bar selects its slot, any slot.
OpenCallgraph ==
    /\ view.at = "closed"
    /\ readIndex' \in Slots
    /\ view' = [at |-> "check", thread |-> Main]
    /\ UNCHANGED <<threadVars, worker, stats, profiling>>

\* The window draws the threads in the order of their indices.
NextView(t) ==
    IF t = WorkerCount THEN [at |-> "closed", thread |-> Main]
    ELSE [at |-> "check", thread |-> t + 1]

\* Mutant of Shown: the stamps are not compared.
ShownAnyFrame(t) == stats[readIndex].done

\* The guard of DebugCallgraphWindow, for one thread.
Shown(t) == stats[readIndex].done /\ stamp[Main][readIndex] = stamp[t][readIndex]

CheckTree ==
    /\ view.at = "check"
    /\ view' = IF Shown(view.thread) THEN [view EXCEPT !.at = "walk"] ELSE NextView(view.thread)
    /\ UNCHANGED <<threadVars, worker, stats, readIndex, profiling>>

\* BufferFirstCallToEach returns; it follows pointers for as long as it likes.
WalkDone ==
    /\ view.at = "walk"
    /\ view' = NextView(view.thread)
    /\ UNCHANGED <<threadVars, worker, stats, readIndex, profiling>>

(***************************************************************************)
(* WorkerThreadAdvanceDebugSystem, with the AdvanceThreadState it calls.   *)
(***************************************************************************)

\* Mutant of WorkerLoad: the worker goes to the frame after the main thread's.
WorkerLoadAhead(w) ==
    /\ worker[w].at = "work"
    /\ writeIndex[Main] # writeIndex[w]
    /\ worker' = [worker EXCEPT ![w] = [at |-> "adopt", next |-> writeIndex[Main] + 1]]
    /\ UNCHANGED <<threadVars, stats, readIndex, profiling, view>>

\* Mutant of WorkerLoad: slots are compared instead of frames.
WorkerLoadBySlot(w) ==
    /\ worker[w].at = "work"
    /\ CurrentSlot(Main) # CurrentSlot(w)
    /\ worker' = [worker EXCEPT ![w] = [at |-> "adopt", next |-> writeIndex[Main]]]
    /\ UNCHANGED <<threadVars, stats, readIndex, profiling, view>>

\* NextFrameId is read once; what follows uses it even when the main thread has
\* moved on.
WorkerLoad(w) ==
    /\ worker[w].at = "work"
    /\ writeIndex[Main] # writeIndex[w]
    /\ worker' = [worker EXCEPT ![w] = [at |-> "adopt", next |-> writeIndex[Main]]]
    /\ UNCHANGED <<threadVars, stats, readIndex, profiling, view>>

\* Mutant of WorkerAdopt: the tree is stamped before its scopes are freed.
WorkerAdoptStamping(w) ==
    /\ worker[w].at = "adopt"
    /\ writeIndex' = [writeIndex EXCEPT ![w] = worker[w].next]
    /\ stamp' = [stamp EXCEPT ![w][SlotOf(worker[w].next)] = worker[w].next]
    /\ worker' = [worker EXCEPT ![w].at = "free"]
    /\ UNCHANGED <<held, ops, stats, readIndex, profiling, view>>

WorkerAdopt(w) ==
    /\ worker[w].at = "adopt"
    /\ writeIndex' = [writeIndex EXCEPT ![w] = worker[w].next]
    /\ worker' = [worker EXCEPT ![w].at = "free"]
    /\ UNCHANGED <<stamp, held, ops, stats, readIndex, profiling, view>>

\* FreeScopes takes the tree apart until InitScopeTree clears it, its stamp
\* included.
WorkerInitTree(w) ==
    /\ worker[w].at = "free"
    /\ held' = [held EXCEPT ![w][CurrentSlot(w)] = {}]
    /\ stamp' = [stamp EXCEPT ![w][CurrentSlot(w)] = 0]
    /\ worker' = [worker EXCEPT ![w].at = "stamp"]
    /\ UNCHANGED <<writeIndex, ops, stats, readIndex, profiling, view>>

\* Mutant of WorkerStamp: NextRecord is not reset.
WorkerStampKeepingOps(w) ==
    /\ worker[w].at = "stamp"
    /\ stamp' = [stamp EXCEPT ![w][CurrentSlot(w)] = worker[w].next]
    /\ worker' = [worker EXCEPT ![w].at = "work"]
    /\ UNCHANGED <<writeIndex, held, ops, stats, readIndex, profiling, view>>

WorkerStamp(w) ==
    /\ worker[w].at = "stamp"
    /\ ops' = [ops EXCEPT ![w][CurrentSlot(w)] = <<>>]
    /\ stamp' = [stamp EXCEPT ![w][CurrentSlot(w)] = worker[w].next]
    /\ worker' = [worker EXCEPT ![w].at = "work"]
    /\ UNCHANGED <<writeIndex, held, stats, readIndex, profiling, view>>

WorkerAdvance(w) == WorkerLoad(w) \/ WorkerAdopt(w) \/ WorkerInitTree(w) \/ WorkerStamp(w)

Next ==
    \/ \E t \in Threads : RecordScope(t) \/ RecordMutexOp(t)
    \/ MainThreadAdvance
    \/ ToggleProfiling
    \/ OpenCallgraph
    \/ CheckTree
    \/ WalkDone
    \/ \E w \in Workers : WorkerAdvance(w)

Spec == Init /\ [][Next]_vars

\* Every worker's loop calls WorkerThreadAdvanceDebugSystem, and runs.
FairSpec == Spec /\ \A w \in Workers : WF_vars(WorkerAdvance(w))

(***************************************************************************)
(* Properties.                                                             *)
(***************************************************************************)

\* Every variable has the type its declaration gives it.
TypeOK ==
    /\ writeIndex \in [Threads -> FrameIds]
    /\ stamp \in [Threads -> [Slots -> 0 .. MaxFrame]]
    /\ held \in [Threads -> [Slots -> SUBSET FrameIds]]
    /\ ops \in [Threads -> [Slots -> Seq(FrameIds)]]
    /\ worker \in [Workers -> [at : {"work", "adopt", "free", "stamp"}, next : FrameIds]]
    /\ stats \in [Slots -> [frame : 0 .. MaxFrame, done : BOOLEAN]]
    /\ readIndex \in Slots
    /\ profiling \in BOOLEAN
    /\ view \in [at : {"closed", "check", "walk"}, thread : Threads]

\* FreeScopes is taking thread t's tree in slot s apart.
Torn(t, s) == t \in Workers /\ worker[t].at = "free" /\ CurrentSlot(t) = s

\* Thread t has cleared its tree in slot s and not stamped it yet.
Unstamped(t, s) == t \in Workers /\ worker[t].at = "stamp" /\ CurrentSlot(t) = s

\* The frame a tree is for: those of frame 1 are initialised without a stamp.
Stamped(t, s) == IF stamp[t][s] = 0 THEN 1 ELSE stamp[t][s]

\* While the callgraph walks a tree whose stamp matched, the owner does not take
\* the tree apart, and every scope in it belongs to the frame whose cycle count
\* the window shows: the comparison of stamps is as good as a lock.
CallgraphConsistent ==
    view.at = "walk" =>
        /\ ~Torn(view.thread, readIndex)
        /\ held[view.thread][readIndex] \subseteq {stats[readIndex].frame}

\* A slot never mixes frames: the scopes in a tree and the mutex records beside
\* it are of the one frame the tree is stamped with, however many frames the
\* worker skipped (between the two halves of an advance only the mutex records
\* of the old frame remain).
SlotHoldsOneFrame ==
    \A t \in Threads, s \in Slots :
        /\ \A f \in held[t][s] : SlotOf(f) = s /\ f = Stamped(t, s)
        /\ \A i, j \in DOMAIN ops[t][s] : ops[t][s][i] = ops[t][s][j]
        /\ ~Unstamped(t, s) => \A i \in DOMAIN ops[t][s] : ops[t][s][i] = Stamped(t, s)

\* The bar of a slot in the frame ticker and the main thread's tree in that
\* slot are of the same frame, the one most recently begun there.
StatsMatchMainTree ==
    \A s \in Slots :
        /\ held[Main][s] \subseteq {stats[s].frame}
        /\ stats[s].frame # 0 =>
            /\ SlotOf(stats[s].frame) = s
            /\ stats[s].frame + FramesTracked > writeIndex[Main]
            /\ stats[s].done <=> stats[s].frame < writeIndex[Main]

\* A worker never runs ahead of the main thread, nor back to a frame it left.
WorkersFollow ==
    [][\A w \in Workers : /\ writeIndex'[w] <= writeIndex'[Main]
                          /\ writeIndex'[w] >= writeIndex[w]]_vars

\* A worker eventually records in every frame the main thread starts, or in a
\* later one.
WorkersCatchUp ==
    \A f \in FrameIds : writeIndex[Main] = f ~> \A w \in Workers : writeIndex[w] >= f

(***************************************************************************)
(* The inductive invariant behind CallgraphConsistent.                     *)
(***************************************************************************)

\* A worker's next frame is ahead of its own and not ahead of the main thread.
WorkersBehind ==
    \A w \in Workers :
        /\ writeIndex[w] <= writeIndex[Main]
        /\ worker[w].at = "adopt"
             => writeIndex[w] < worker[w].next /\ worker[w].next <= writeIndex[Main]
        /\ worker[w].at \in {"free", "stamp"}
             => worker[w].next = writeIndex[w] /\ writeIndex[w] >= 2

\* A stamp is of a frame of its slot that the thread has reached.
TreesStamped ==
    \A t \in Threads, s \in Slots :
        /\ stamp[t][s] # 0 => SlotOf(stamp[t][s]) = s /\ stamp[t][s] <= writeIndex[t]
        /\ \A f \in held[t][s] : SlotOf(f) = s /\ f = Stamped(t, s)

\* The tree being written is stamped with the thread's frame, except during an
\* advance: then its stamp is older, or cleared.
CurrentStamped ==
    \A t \in Threads :
        LET s == CurrentSlot(t) IN
        /\ ~Torn(t, s) /\ ~Unstamped(t, s) => Stamped(t, s) = writeIndex[t]
        /\ Torn(t, s) => stamp[t][s] < writeIndex[t]
        /\ Unstamped(t, s) => stamp[t][s] = 0 /\ held[t][s] = {}

\* The mutex records of a slot are all of one frame.
OpsStamped ==
    \A t \in Threads, s \in Slots :
        /\ \A i, j \in DOMAIN ops[t][s] : ops[t][s][i] = ops[t][s][j]
        /\ ~Unstamped(t, s) => \A i \in DOMAIN ops[t][s] : ops[t][s][i] = Stamped(t, s)

\* Frames describes the latest frame of the main thread in every slot.
StatsTrack ==
    \A s \in Slots :
        LET f == stats[s].frame IN
        /\ held[Main][s] \subseteq {f}
        /\ stamp[Main][s] = IF f <= 1 THEN 0 ELSE f
        /\ f = 0 => ~stats[s].done /\ s # CurrentSlot(Main)
        /\ f # 0 => /\ SlotOf(f) = s
                    /\ f <= writeIndex[Main]
                    /\ f + FramesTracked > writeIndex[Main]
                    /\ stats[s].done <=> f < writeIndex[Main]

\* The guard of the callgraph stays true while it walks, and the owner of the
\* tree is not about to recycle it.
WalkGuarded ==
    view.at = "walk" =>
        /\ Shown(view.thread)
        /\ ~Torn(view.thread, readIndex) /\ ~Unstamped(view.thread, readIndex)

\* The state invariant the induction goes through on.
IInv ==
    /\ TypeOK
    /\ WorkersBehind
    /\ TreesStamped
    /\ CurrentStamped
    /\ OpsStamped
    /\ StatsTrack
    /\ WalkGuarded
=============================================================================
