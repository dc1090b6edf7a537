--------------------------- MODULE FrameRingProofs ---------------------------
(***************************************************************************)
(* Proofs about FrameRing, for every number of workers, of slots, of mutex *)
(* records and of frames.  The heart is arithmetic: two frames that share  *)
(* a slot are at least FramesTracked apart, so a worker that adopts a      *)
(* later frame of the slot being shown would be ahead of the main thread.  *)
(***************************************************************************)
EXTENDS FrameRing, SequenceTheorems, TLAPS

(***************************************************************************)
(* Slot arithmetic.                                                        *)
(***************************************************************************)

\* Remainders are unique.
LEMMA RemainderUnique ==
  ASSUME NEW n \in Nat, n >= 2, NEW f \in Nat, NEW r \in 0 .. n - 1, NEW q \in Int, f = n * q + r
  PROVE  f % n = r
  BY SMT

\* Division by FramesTracked is exact up to the slot.
LEMMA SlotDivision ==
  ASSUME NEW f \in Nat
  PROVE  /\ SlotOf(f) \in Slots /\ SlotOf(f) \in Nat
         /\ f \div FramesTracked \in Int
         /\ f = FramesTracked * (f \div FramesTracked) + SlotOf(f)
  <1> DEFINE n == FramesTracked
  <1>1. n \in Nat /\ n >= 2
    BY FramesAssumption
  <1> HIDE DEF n
  <1>2. f % n \in 0 .. n - 1
    BY <1>1, SMT
  <1>3. f \div n \in Int /\ f = n * (f \div n) + (f % n)
    BY <1>1, SMT
  <1> QED BY <1>1, <1>2, <1>3 DEF SlotOf, Slots, n

\* A number is determined by its quotient and its slot.
LEMMA SlotUnique ==
  ASSUME NEW f \in Nat, NEW q \in Int, NEW r \in Slots, f = FramesTracked * q + r
  PROVE  SlotOf(f) = r
  BY FramesAssumption, RemainderUnique DEF Slots, SlotOf

\* Going once around the ring returns to the same slot.
LEMMA SlotPeriod ==
  ASSUME NEW f \in Nat
  PROVE  SlotOf(f + FramesTracked) = SlotOf(f)
  <1> DEFINE n == FramesTracked
             q == f \div n
             r == SlotOf(f)
  <1>1. n \in Nat /\ q \in Int /\ r \in Slots /\ r \in Nat /\ f = n * q + r
    BY FramesAssumption, SlotDivision
  <1> HIDE DEF n, q, r
  <1>2. f + n = n * (q + 1) + r
    BY <1>1, SMT
  <1>3. f + n \in Nat /\ q + 1 \in Int
    BY <1>1
  <1>4. SlotOf(f + n) = r
    BY <1>1, <1>2, <1>3, SlotUnique DEF n
  <1> QED BY <1>4 DEF n, r

\* Two frames of one slot are at least FramesTracked apart.
LEMMA SlotDistance ==
  ASSUME NEW f \in Nat, NEW g \in Nat, SlotOf(f) = SlotOf(g), f < g
  PROVE  g >= f + FramesTracked
  <1> DEFINE n == FramesTracked
             p == f \div n
             q == g \div n
             r == SlotOf(f)
  <1>1. /\ n \in Nat /\ n >= 2 /\ p \in Int /\ q \in Int /\ r \in Nat
        /\ f = n * p + r /\ g = n * q + r
    BY FramesAssumption, SlotDivision
  <1> HIDE DEF n, p, q, r
  <1>2. n * (q - p) > 0
    BY <1>1, SMT
  <1>3. q - p >= 1
    BY <1>1, <1>2, SMT
  <1>4. n * (q - p) >= n
    BY <1>1, <1>3, SMT
  <1>5. g - f >= n
    BY <1>1, <1>4, SMT
  <1> QED BY <1>1, <1>5 DEF n

\* GetNextDebugFrameIndex names the slot of the next frame, another slot.
LEMMA SlotSuccessor ==
  ASSUME NEW f \in Nat
  PROVE  SlotOf(f + 1) = NextSlot(SlotOf(f)) /\ SlotOf(f + 1) # SlotOf(f)
  <1> DEFINE n == FramesTracked
             q == f \div n
             r == SlotOf(f)
  <1>0. /\ n \in Nat /\ n >= 2 /\ q \in Int /\ r \in Slots /\ r \in Nat /\ f = n * q + r
    BY FramesAssumption, SlotDivision
  <1>1. /\ n \in Nat /\ n >= 2 /\ q \in Int /\ r \in Slots /\ r \in Nat /\ r <= n - 1
        /\ f = n * q + r
    BY <1>0 DEF Slots
  <1>2. NextSlot(r) = SlotOf(r + 1)
    BY DEF NextSlot, SlotOf
  <1> HIDE DEF n, q, r
  <1>3. CASE r < n - 1
    <2>1. r + 1 \in Slots /\ f + 1 = n * q + (r + 1) /\ r + 1 = n * 0 + (r + 1)
      BY <1>1, <1>3, SMT DEF Slots, n
    <2>2. SlotOf(f + 1) = r + 1 /\ SlotOf(r + 1) = r + 1
      BY <1>1, <2>1, SlotUnique DEF n
    <2> QED BY <1>1, <1>2, <2>2 DEF r
  <1>4. CASE r = n - 1
    <2>1. 0 \in Slots /\ f + 1 = n * (q + 1) + 0 /\ r + 1 = n * 1 + 0
      BY <1>1, <1>4, SMT DEF Slots, n
    <2>2. f + 1 \in Nat /\ r + 1 \in Nat /\ q + 1 \in Int
      BY <1>1
    <2>3. SlotOf(f + 1) = 0
      BY <2>1, <2>2, SlotUnique DEF n
    <2>4. SlotOf(r + 1) = 0
      BY <2>1, <2>2, SlotUnique DEF n
    <2> QED BY <1>1, <1>2, <1>4, <2>3, <2>4 DEF r
  <1> QED BY <1>1, <1>3, <1>4

(***************************************************************************)
(* Facts about a state of the invariant.                                   *)
(***************************************************************************)

\* Updating one slot of one thread.
LEMMA UpdateSlot ==
  ASSUME NEW S, NEW F \in [Threads -> [Slots -> S]], NEW t \in Threads, NEW s \in Slots, NEW v \in S,
         NEW G, G = [F EXCEPT ![t][s] = v]
  PROVE  /\ G \in [Threads -> [Slots -> S]]
         /\ G[t][s] = v
         /\ \A u \in Threads, r \in Slots : u # t \/ r # s => G[u][r] = F[u][r]
  OBVIOUS

\* The slot a thread writes is a slot, and frames are numbers.
LEMMA SlotFacts ==
  ASSUME TypeOK
  PROVE  /\ \A f \in FrameIds : f \in Nat /\ f >= 1 /\ SlotOf(f) \in Slots
         /\ \A t \in Threads : writeIndex[t] \in FrameIds /\ CurrentSlot(t) \in Slots
         /\ Main \in Threads /\ Main \notin Workers /\ Workers \subseteq Threads
  <1>1. \A f \in FrameIds : f \in Nat /\ f >= 1
    BY BoundsAssumption DEF FrameIds
  <1>2. \A f \in FrameIds : SlotOf(f) \in Slots
    BY <1>1, SlotDivision
  <1>3. Main \in Threads /\ Main \notin Workers /\ Workers \subseteq Threads
    BY WorkersAssumption DEF Workers, Threads, Main
  <1> QED BY <1>1, <1>2, <1>3 DEF TypeOK, CurrentSlot

\* Frames describes the frame the main thread is in, in its current slot.
LEMMA CurrentStats ==
  ASSUME TypeOK, StatsTrack
  PROVE  stats[CurrentSlot(Main)].frame = writeIndex[Main]
  <1> DEFINE s == CurrentSlot(Main)
             f == stats[s].frame
  <1>1. /\ s \in Slots /\ writeIndex[Main] \in Nat /\ f \in Nat
        /\ stats[s] \in [frame : 0 .. MaxFrame, done : BOOLEAN]
    BY SlotFacts, BoundsAssumption DEF TypeOK
  <1>2. /\ f # 0 /\ SlotOf(f) = s /\ f <= writeIndex[Main]
        /\ f + FramesTracked > writeIndex[Main]
    BY <1>1 DEF StatsTrack
  <1>3. ~(f < writeIndex[Main])
    <2> SUFFICES ASSUME f < writeIndex[Main] PROVE FALSE
      OBVIOUS
    <2>1. writeIndex[Main] >= f + FramesTracked
      BY <1>1, <1>2, SlotDistance DEF CurrentSlot
    <2> QED BY <1>1, <1>2, <2>1, FramesAssumption
  <1> QED BY <1>1, <1>2, <1>3

\* The tree of the callgraph's slot is not being recycled when its guard holds.
LEMMA ShownIsSafe ==
  ASSUME IInv, NEW t \in Threads, Shown(t)
  PROVE  ~Torn(t, readIndex) /\ ~Unstamped(t, readIndex)
  <1> SUFFICES ASSUME Torn(t, readIndex) \/ Unstamped(t, readIndex) PROVE FALSE
    OBVIOUS
  <1> DEFINE r == readIndex
             f == stats[r].frame
             k == writeIndex[t]
  <1>1. /\ t \in Workers /\ r \in Slots /\ k \in Nat /\ k >= 2 /\ SlotOf(k) = r
        /\ writeIndex[Main] \in Nat /\ k <= writeIndex[Main] /\ f \in Nat
        /\ stats[r] \in [frame : 0 .. MaxFrame, done : BOOLEAN]
    BY SlotFacts, BoundsAssumption
    DEF IInv, TypeOK, Torn, Unstamped, WorkersBehind, CurrentSlot
  <1>2. stats[r].done /\ stamp[Main][r] = stamp[t][r]
    BY DEF Shown
  <1>3. /\ f # 0 /\ SlotOf(f) = r /\ f + FramesTracked > writeIndex[Main]
        /\ stamp[Main][r] = IF f <= 1 THEN 0 ELSE f
    BY <1>1, <1>2 DEF IInv, StatsTrack
  <1>4. k <= f
    <2> SUFFICES ASSUME f < k PROVE FALSE
      BY <1>1
    <2>1. k >= f + FramesTracked
      BY <1>1, <1>3, SlotDistance
    <2> QED BY <1>1, <1>3, <2>1, FramesAssumption
  <1>5. stamp[t][r] = f
    BY <1>1, <1>2, <1>3, <1>4
  <1>6. stamp[t][r] < k
    <2>1. CASE Torn(t, r)
      BY <2>1 DEF IInv, CurrentStamped, Torn
    <2>2. CASE Unstamped(t, r)
      BY <1>1, <2>2 DEF IInv, CurrentStamped, Unstamped
    <2> QED BY <2>1, <2>2
  <1> QED BY <1>1, <1>4, <1>5, <1>6

(***************************************************************************)
(* The inductive invariant.                                                *)
(***************************************************************************)

\* The inductive invariant holds when the debug system has been initialised.
LEMMA InitIInv == Init => IInv
  <1> SUFFICES ASSUME Init PROVE IInv
    OBVIOUS
  <1>1. 1 \in FrameIds /\ 0 \in 0 .. MaxFrame /\ 1 \in 0 .. MaxFrame /\ 0 \in Slots /\ 1 \in Slots
    BY BoundsAssumption, FramesAssumption DEF FrameIds, Slots
  <1>2. SlotOf(1) = 1
    <2>1. 1 = FramesTracked * 0 + 1
      BY FramesAssumption
    <2> QED BY <1>1, <2>1, SlotUnique
  <1>3. TypeOK
    <2>1. writeIndex \in [Threads -> FrameIds] /\ stamp \in [Threads -> [Slots -> 0 .. MaxFrame]]
      BY <1>1 DEF Init
    <2>2. held \in [Threads -> [Slots -> SUBSET FrameIds]]
      BY DEF Init
    <2>3. ops \in [Threads -> [Slots -> Seq(FrameIds)]]
      <3>1. <<>> \in Seq(FrameIds)
        BY EmptySeq
      <3> QED BY <3>1 DEF Init
    <2>4. worker \in [Workers -> [at : {"work", "adopt", "free", "stamp"}, next : FrameIds]]
      BY <1>1 DEF Init
    <2>5. stats \in [Slots -> [frame : 0 .. MaxFrame, done : BOOLEAN]]
      <3>1. \A s \in Slots : [frame |-> IF s = 1 THEN 1 ELSE 0, done |-> FALSE]
                               \in [frame : 0 .. MaxFrame, done : BOOLEAN]
        BY <1>1
      <3> QED BY <3>1 DEF Init
    <2>6. /\ readIndex \in Slots /\ profiling \in BOOLEAN
          /\ view \in [at : {"closed", "check", "walk"}, thread : Threads]
      BY <1>1 DEF Init, Threads
    <2> QED BY <2>1, <2>2, <2>3, <2>4, <2>5, <2>6 DEF TypeOK
  <1>4. /\ Main \in Threads /\ \A t \in Threads : writeIndex[t] = 1
        /\ \A t \in Threads, s \in Slots : stamp[t][s] = 0 /\ held[t][s] = {} /\ ops[t][s] = <<>>
        /\ \A w \in Workers : worker[w].at = "work" /\ w \in Threads
        /\ \A s \in Slots : stats[s].frame = (IF s = 1 THEN 1 ELSE 0) /\ ~stats[s].done
        /\ view.at = "closed"
    BY DEF Init, Threads
  <1>5. WorkersBehind
    <2>1. \A w \in Workers : writeIndex[w] = 1 /\ writeIndex[Main] = 1 /\ worker[w].at = "work"
      BY <1>4
    <2>2. \A w \in Workers : writeIndex[w] <= writeIndex[Main]
      <3> SUFFICES ASSUME NEW w \in Workers PROVE writeIndex[w] <= writeIndex[Main]
        OBVIOUS
      <3>1. writeIndex[w] = 1 /\ writeIndex[Main] = 1
        BY <2>1
      <3> QED BY <3>1
    <2> QED BY <2>1, <2>2 DEF WorkersBehind
  <1>6. TreesStamped /\ OpsStamped
    BY <1>4 DEF TreesStamped, OpsStamped
  <1>7. CurrentStamped
    <2>1. \A t \in Threads : CurrentSlot(t) = 1
      BY <1>2, <1>4 DEF CurrentSlot
    <2> QED BY <1>1, <1>4, <2>1 DEF CurrentStamped, Torn, Unstamped, Stamped
  <1>8. StatsTrack
    <2>1. CurrentSlot(Main) = 1
      BY <1>2, <1>4 DEF CurrentSlot
    <2> QED BY <1>2, <1>4, <2>1, FramesAssumption DEF StatsTrack
  <1>9. WalkGuarded
    BY <1>4 DEF WalkGuarded
  <1> QED BY <1>3, <1>5, <1>6, <1>7, <1>8, <1>9 DEF IInv

\* A scope or a mutex operation recorded by thread t.
LEMMA RecordKeeps ==
  ASSUME IInv, NEW t \in Threads, RecordScope(t) \/ RecordMutexOp(t)
  PROVE  IInv'
  <1> DEFINE s == CurrentSlot(t)
             f == writeIndex[t]
  <1>1. /\ TypeOK /\ WorkersBehind /\ TreesStamped /\ CurrentStamped /\ OpsStamped
        /\ StatsTrack /\ WalkGuarded
    BY DEF IInv
  <1>2. /\ s \in Slots /\ f \in FrameIds /\ SlotOf(f) = s /\ ~Torn(t, s) /\ ~Unstamped(t, s)
        /\ Stamped(t, s) = f
    <2>1. s \in Slots /\ f \in FrameIds /\ SlotOf(f) = s
      BY <1>1, SlotFacts DEF CurrentSlot
    <2>2. Working(t)
      BY DEF RecordScope, RecordMutexOp
    <2>3. ~Torn(t, s) /\ ~Unstamped(t, s)
      BY <2>2 DEF Working, Torn, Unstamped
    <2> QED BY <1>1, <2>1, <2>3 DEF CurrentStamped
  <1>3. UNCHANGED <<writeIndex, stamp, worker, stats, readIndex, profiling, view>>
    BY DEF RecordScope, RecordMutexOp
  <1>4. /\ held' \in [Threads -> [Slots -> SUBSET FrameIds]]
        /\ \A u \in Threads, r \in Slots : \A g \in held'[u][r] :
             g \in held[u][r] \/ (u = t /\ r = s /\ g = f)
    <2>1. CASE RecordScope(t)
      <3>1. /\ held \in [Threads -> [Slots -> SUBSET FrameIds]]
            /\ held' = [held EXCEPT ![t][s] = held[t][s] \cup {f}]
            /\ held[t][s] \cup {f} \in SUBSET FrameIds
        BY <1>1, <1>2, <2>1 DEF RecordScope, TypeOK
      <3>2. /\ held' \in [Threads -> [Slots -> SUBSET FrameIds]]
            /\ held'[t][s] = held[t][s] \cup {f}
            /\ \A u \in Threads, r \in Slots : u # t \/ r # s => held'[u][r] = held[u][r]
        BY <1>2, <3>1, UpdateSlot
      <3> QED BY <3>2
    <2>2. CASE RecordMutexOp(t)
      BY <1>1, <2>2 DEF RecordMutexOp, TypeOK
    <2> QED BY <2>1, <2>2
  <1>5. /\ ops' \in [Threads -> [Slots -> Seq(FrameIds)]]
        /\ \A u \in Threads, r \in Slots : \A i \in DOMAIN ops'[u][r] :
             \/ i \in DOMAIN ops[u][r] /\ ops'[u][r][i] = ops[u][r][i]
             \/ u = t /\ r = s /\ ops'[u][r][i] = f
    <2>1. CASE RecordMutexOp(t)
      <3> DEFINE q == Append(ops[t][s], f)
      <3>1. /\ ops \in [Threads -> [Slots -> Seq(FrameIds)]]
            /\ ops' = [ops EXCEPT ![t][s] = q]
            /\ ops[t][s] \in Seq(FrameIds)
        BY <1>1, <1>2, <2>1 DEF RecordMutexOp, TypeOK
      <3>2. /\ q \in Seq(FrameIds)
            /\ \A i \in DOMAIN q : (i \in DOMAIN ops[t][s] /\ q[i] = ops[t][s][i]) \/ q[i] = f
        BY <1>2, <3>1, AppendProperties
      <3> HIDE DEF q
      <3>3. /\ ops' \in [Threads -> [Slots -> Seq(FrameIds)]]
            /\ ops'[t][s] = q
            /\ \A u \in Threads, r \in Slots : u # t \/ r # s => ops'[u][r] = ops[u][r]
        BY <1>2, <3>1, <3>2, UpdateSlot
      <3> QED BY <3>2, <3>3
    <2>2. CASE RecordScope(t)
      BY <1>1, <2>2 DEF RecordScope, TypeOK
    <2> QED BY <2>1, <2>2
  <1>6. TypeOK'
    BY <1>1, <1>3, <1>4, <1>5 DEF TypeOK
  <1>7. WorkersBehind'
    BY <1>1, <1>3 DEF WorkersBehind
  <1>8. /\ \A u \in Threads, r \in Slots : Stamped(u, r)' = Stamped(u, r)
        /\ \A u \in Threads : CurrentSlot(u)' = CurrentSlot(u)
        /\ \A u \in Threads, r \in Slots : /\ Torn(u, r)' = Torn(u, r)
                                           /\ Unstamped(u, r)' = Unstamped(u, r)
    BY <1>3 DEF Stamped, CurrentSlot, Torn, Unstamped
  <1>9. TreesStamped'
    BY <1>1, <1>2, <1>3, <1>4, <1>8 DEF TreesStamped
  <1>10. CurrentStamped'
    <2>1. \A u \in Threads : Unstamped(u, CurrentSlot(u)) => held'[u][CurrentSlot(u)] = {}
      <3> SUFFICES ASSUME NEW u \in Threads, Unstamped(u, CurrentSlot(u)),
                          NEW g \in held'[u][CurrentSlot(u)]
                   PROVE  FALSE
        OBVIOUS
      <3>1. CurrentSlot(u) \in Slots /\ held[u][CurrentSlot(u)] = {}
        BY <1>1, SlotFacts DEF CurrentStamped
      <3> QED BY <1>2, <1>4, <3>1
    <2> SUFFICES ASSUME NEW u \in Threads
                 PROVE  LET r == CurrentSlot(u) IN
                        /\ ~Torn(u, r) /\ ~Unstamped(u, r) => Stamped(u, r) = writeIndex[u]
                        /\ Torn(u, r) => stamp[u][r] < writeIndex[u]
                        /\ Unstamped(u, r) => stamp[u][r] = 0 /\ held'[u][r] = {}
      <3>1. \A u \in Threads : CurrentSlot(u) \in Slots
        BY <1>1, SlotFacts
      <3> QED BY <1>3, <1>8, <3>1 DEF CurrentStamped
    <2> QED BY <1>1, <2>1 DEF CurrentStamped
  <1>11. OpsStamped'
    <2>1. \A u \in Threads, r \in Slots : ~Unstamped(u, r) =>
            \A i \in DOMAIN ops'[u][r] : ops'[u][r][i] = Stamped(u, r)
      <3> SUFFICES ASSUME NEW u \in Threads, NEW r \in Slots, ~Unstamped(u, r), NEW i \in DOMAIN ops'[u][r]
                   PROVE  ops'[u][r][i] = Stamped(u, r)
        OBVIOUS
      <3>1. CASE i \in DOMAIN ops[u][r] /\ ops'[u][r][i] = ops[u][r][i]
        <4>1. ops[u][r][i] = Stamped(u, r)
          BY <1>1, <3>1 DEF OpsStamped
        <4> QED BY <3>1, <4>1
      <3>2. CASE u = t /\ r = s /\ ops'[u][r][i] = f
        BY <1>2, <3>2
      <3> QED BY <1>5, <3>1, <3>2
    <2>2. \A u \in Threads, r \in Slots : Unstamped(u, r) =>
            \A i \in DOMAIN ops'[u][r] : i \in DOMAIN ops[u][r] /\ ops'[u][r][i] = ops[u][r][i]
      BY <1>2, <1>5
    <2>3. \A u \in Threads, r \in Slots : \A i, j \in DOMAIN ops'[u][r] : ops'[u][r][i] = ops'[u][r][j]
      BY <1>1, <2>1, <2>2 DEF OpsStamped
    <2> QED BY <1>8, <2>1, <2>3 DEF OpsStamped
  <1>12. StatsTrack'
    <2>1. ASSUME NEW r \in Slots
          PROVE  held'[Main][r] \subseteq {stats[r].frame}
      <3>1. Main \in Threads /\ held[Main][r] \subseteq {stats[r].frame}
        BY <1>1, SlotFacts DEF StatsTrack
      <3>2. t = Main /\ r = s => f = stats[r].frame
        BY <1>1, CurrentStats
      <3> QED BY <1>4, <3>1, <3>2
    <2> QED BY <1>1, <1>3, <1>8, <2>1, SlotFacts DEF StatsTrack
  <1>13. WalkGuarded'
    <2>1. view.at = "walk" => view.thread \in Threads /\ readIndex \in Slots
      BY <1>1 DEF TypeOK
    <2> QED BY <1>1, <1>3, <1>8, <2>1 DEF WalkGuarded, Shown
  <1> QED BY <1>6, <1>7, <1>9, <1>10, <1>11, <1>12, <1>13 DEF IInv

\* Steps that touch neither a tree nor a counter: they only move the view.
LEMMA ViewKeeps ==
  ASSUME IInv, ToggleProfiling \/ OpenCallgraph \/ CheckTree \/ WalkDone
  PROVE  IInv'
  <1>1. /\ TypeOK /\ WorkersBehind /\ TreesStamped /\ CurrentStamped /\ OpsStamped
        /\ StatsTrack /\ WalkGuarded
    BY DEF IInv
  <1>2. UNCHANGED <<writeIndex, stamp, held, ops, worker, stats>>
    BY DEF ToggleProfiling, OpenCallgraph, CheckTree, WalkDone, threadVars
  <1>3. \A t \in Threads : NextView(t) \in [at : {"closed", "check", "walk"}, thread : Threads]
                           /\ NextView(t).at # "walk"
    <2> SUFFICES ASSUME NEW t \in Threads
                 PROVE  NextView(t) \in [at : {"closed", "check", "walk"}, thread : Threads]
                        /\ NextView(t).at # "walk"
      OBVIOUS
    <2>1. Main \in Threads /\ (t # WorkerCount => t + 1 \in Threads)
      BY WorkersAssumption DEF Threads, Workers, Main
    <2> QED BY <2>1 DEF NextView
  <1>4. /\ readIndex' \in Slots /\ profiling' \in BOOLEAN
        /\ view' \in [at : {"closed", "check", "walk"}, thread : Threads]
    <2>1. CASE ToggleProfiling
      BY <1>1, <2>1 DEF ToggleProfiling, TypeOK
    <2>2. CASE OpenCallgraph
      BY <1>1, <2>2, SlotFacts DEF OpenCallgraph, TypeOK
    <2>3. CASE CheckTree
      BY <1>1, <1>3, <2>3 DEF CheckTree, TypeOK
    <2>4. CASE WalkDone
      BY <1>1, <1>3, <2>4 DEF WalkDone, TypeOK
    <2> QED BY <2>1, <2>2, <2>3, <2>4
  <1>5. TypeOK'
    BY <1>1, <1>2, <1>4 DEF TypeOK
  <1>6. /\ \A u \in Threads, r \in Slots : Stamped(u, r)' = Stamped(u, r)
        /\ \A u \in Threads : CurrentSlot(u)' = CurrentSlot(u)
        /\ \A u \in Threads, r \in Slots : /\ Torn(u, r)' = Torn(u, r)
                                           /\ Unstamped(u, r)' = Unstamped(u, r)
    BY <1>2 DEF Stamped, CurrentSlot, Torn, Unstamped
  <1>7. WorkersBehind' /\ TreesStamped' /\ OpsStamped'
    BY <1>1, <1>2, <1>6 DEF WorkersBehind, TreesStamped, OpsStamped
  <1>8. CurrentStamped'
    BY <1>1, <1>2, <1>6, SlotFacts DEF CurrentStamped
  <1>9. StatsTrack'
    BY <1>1, <1>2, <1>6, SlotFacts DEF StatsTrack
  <1>10. WalkGuarded'
    <2> SUFFICES ASSUME view'.at = "walk" PROVE WalkGuarded'
      BY DEF WalkGuarded
    <2>1. CheckTree /\ Shown(view.thread) /\ view' = [view EXCEPT !.at = "walk"] /\ readIndex' = readIndex
      BY <1>1, <1>3 DEF ToggleProfiling, OpenCallgraph, CheckTree, WalkDone, TypeOK
    <2>2. view.thread \in Threads /\ view'.thread = view.thread /\ readIndex \in Slots
      BY <1>1, <2>1 DEF TypeOK
    <2>3. ~Torn(view.thread, readIndex) /\ ~Unstamped(view.thread, readIndex)
      BY <2>1, <2>2, ShownIsSafe
    <2> QED BY <1>2, <1>6, <2>1, <2>2, <2>3 DEF WalkGuarded, Shown
  <1> QED BY <1>5, <1>7, <1>8, <1>9, <1>10 DEF IInv

\* The main thread closes a frame and opens the next.
LEMMA MainAdvanceKeeps ==
  ASSUME IInv, MainThreadAdvance,
         NEW m, m = writeIndex[Main], NEW n, n = m + 1, NEW a, a = SlotOf(m), NEW b, b = SlotOf(n)
  PROVE  IInv'
  <1>1. /\ TypeOK /\ WorkersBehind /\ TreesStamped /\ CurrentStamped /\ OpsStamped
        /\ StatsTrack /\ WalkGuarded
    BY DEF IInv
  <1>2. /\ Main \in Threads /\ Main \notin Workers /\ Workers \subseteq Threads
        /\ m \in FrameIds /\ m \in Nat /\ m >= 1 /\ n \in FrameIds /\ n \in 0 .. MaxFrame /\ n \in Nat /\ n # 0
        /\ a \in Slots /\ b \in Slots /\ a # b /\ b = NextSlot(a) /\ a = CurrentSlot(Main)
    <2>1. /\ Main \in Threads /\ Main \notin Workers /\ Workers \subseteq Threads
          /\ m \in FrameIds /\ m \in Nat /\ m >= 1
      BY <1>1, SlotFacts
    <2>2. n \in FrameIds /\ n \in 0 .. MaxFrame /\ n \in Nat /\ n # 0
      BY <2>1, BoundsAssumption DEF MainThreadAdvance, FrameIds
    <2> QED BY <1>1, <2>1, <2>2, SlotFacts, SlotSuccessor DEF CurrentSlot
  <1>3. /\ writeIndex' \in [Threads -> FrameIds]
        /\ writeIndex'[Main] = n
        /\ \A w \in Workers : writeIndex'[w] = writeIndex[w]
    BY <1>1, <1>2 DEF MainThreadAdvance, TypeOK
  <1>4. /\ stamp' \in [Threads -> [Slots -> 0 .. MaxFrame]]
        /\ stamp'[Main][b] = n
        /\ \A u \in Threads, r \in Slots : u # Main \/ r # b => stamp'[u][r] = stamp[u][r]
    <2>1. stamp \in [Threads -> [Slots -> 0 .. MaxFrame]] /\ stamp' = [stamp EXCEPT ![Main][b] = n]
      BY <1>1 DEF MainThreadAdvance, TypeOK
    <2>2. Main \in Threads /\ b \in Slots /\ n \in 0 .. MaxFrame
      BY <1>2
    <2> QED BY <2>1, <2>2, UpdateSlot
  <1>5. /\ ops' \in [Threads -> [Slots -> Seq(FrameIds)]]
        /\ ops'[Main][b] = <<>>
        /\ \A u \in Threads, r \in Slots : u # Main \/ r # b => ops'[u][r] = ops[u][r]
    <2>1. ops \in [Threads -> [Slots -> Seq(FrameIds)]] /\ ops' = [ops EXCEPT ![Main][b] = <<>>]
      BY <1>1 DEF MainThreadAdvance, TypeOK
    <2>2. <<>> \in Seq(FrameIds) /\ Main \in Threads /\ b \in Slots
      BY <1>2, EmptySeq
    <2> QED BY <2>1, <2>2, UpdateSlot
  <1>6. /\ held' \in [Threads -> [Slots -> SUBSET FrameIds]]
        /\ held'[Main][b] = {}
        /\ held'[Main][a] = held[Main][a] \cup {m}
        /\ \A u \in Threads, r \in Slots : u # Main \/ (r # a /\ r # b) => held'[u][r] = held[u][r]
    <2> DEFINE v == held[Main][a] \cup {m}
               H == [held EXCEPT ![Main][a] = v]
    <2>1. held \in [Threads -> [Slots -> SUBSET FrameIds]] /\ v \in SUBSET FrameIds
      <3>1. held \in [Threads -> [Slots -> SUBSET FrameIds]]
        BY <1>1 DEF TypeOK
      <3>2. held[Main][a] \in SUBSET FrameIds
        BY <1>2, <3>1
      <3> QED BY <1>2, <3>1, <3>2
    <2>2. held' = [H EXCEPT ![Main][b] = {}]
      <3>1. /\ held' = [held EXCEPT ![Main][CurrentSlot(Main)] = @ \cup {writeIndex[Main]},
                                    ![Main][SlotOf(writeIndex[Main] + 1)] = {}]
        BY DEF MainThreadAdvance
      <3>2. CurrentSlot(Main) = a /\ writeIndex[Main] = m /\ SlotOf(writeIndex[Main] + 1) = b
        BY <1>2
      <3> QED BY <3>1, <3>2
    <2> HIDE DEF v
    <2>3. /\ H \in [Threads -> [Slots -> SUBSET FrameIds]] /\ H[Main][a] = v
          /\ \A u \in Threads, r \in Slots : u # Main \/ r # a => H[u][r] = held[u][r]
      BY <1>2, <2>1, UpdateSlot
    <2> HIDE DEF H
    <2>4. /\ held' \in [Threads -> [Slots -> SUBSET FrameIds]] /\ held'[Main][b] = {}
          /\ \A u \in Threads, r \in Slots : u # Main \/ r # b => held'[u][r] = H[u][r]
      <3>1. {} \in SUBSET FrameIds
        OBVIOUS
      <3>2. Main \in Threads /\ b \in Slots /\ H \in [Threads -> [Slots -> SUBSET FrameIds]]
        BY <1>2, <2>3
      <3> QED BY <2>2, <3>1, <3>2, UpdateSlot
    <2> QED BY <1>2, <2>3, <2>4 DEF v
  <1>7. /\ stats' \in [Slots -> [frame : 0 .. MaxFrame, done : BOOLEAN]]
        /\ stats'[b].frame = n /\ stats'[b].done = FALSE
        /\ stats'[a].frame = stats[a].frame /\ stats'[a].done = TRUE
        /\ \A r \in Slots : r # a /\ r # b => stats'[r] = stats[r]
    <2>1. /\ stats \in [Slots -> [frame : 0 .. MaxFrame, done : BOOLEAN]]
          /\ stats' = [stats EXCEPT ![a].done = TRUE, ![b] = [frame |-> n, done |-> FALSE]]
      BY <1>1, <1>2 DEF MainThreadAdvance, TypeOK
    <2> QED BY <1>2, <2>1
  <1>8. /\ readIndex' = a /\ UNCHANGED <<worker, profiling, view>> /\ view.at = "closed"
    BY <1>2 DEF MainThreadAdvance
  <1>9. TypeOK'
    BY <1>1, <1>2, <1>3, <1>4, <1>5, <1>6, <1>7, <1>8 DEF TypeOK
  <1>10. n = m + 1 /\ m = writeIndex[Main] /\ SlotOf(n) = b /\ SlotOf(m) = a
    OBVIOUS
  <1>11. /\ \A w \in Workers : CurrentSlot(w)' = CurrentSlot(w) /\ w # Main /\ w \in Threads
         /\ \A u \in Threads, r \in Slots : /\ Torn(u, r)' = Torn(u, r)
                                            /\ Unstamped(u, r)' = Unstamped(u, r)
         /\ \A u \in Threads, r \in Slots : u # Main \/ r # b => Stamped(u, r)' = Stamped(u, r)
         /\ CurrentSlot(Main)' = b /\ Stamped(Main, b)' = n
         /\ \A r : ~Torn(Main, r) /\ ~Unstamped(Main, r)
    <2>1. \A w \in Workers : CurrentSlot(w)' = CurrentSlot(w) /\ w # Main /\ w \in Threads
      BY <1>2, <1>3 DEF CurrentSlot
    <2>2. CurrentSlot(Main)' = b /\ Stamped(Main, b)' = n
      BY <1>2, <1>3, <1>4, <1>10 DEF CurrentSlot, Stamped
    <2>3. \A u \in Threads, r \in Slots : u # Main \/ r # b => Stamped(u, r)' = Stamped(u, r)
      BY <1>4 DEF Stamped
    <2>4. /\ \A u \in Threads, r \in Slots : /\ Torn(u, r)' = Torn(u, r)
                                            /\ Unstamped(u, r)' = Unstamped(u, r)
          /\ \A r : ~Torn(Main, r) /\ ~Unstamped(Main, r)
      BY <1>2, <1>8, <2>1 DEF Torn, Unstamped
    <2> QED BY <2>1, <2>2, <2>3, <2>4
  <1>12. WorkersBehind'
    <2> SUFFICES ASSUME NEW w \in Workers
                 PROVE  /\ writeIndex'[w] <= writeIndex'[Main]
                        /\ worker'[w].at = "adopt"
                             => writeIndex'[w] < worker'[w].next /\ worker'[w].next <= writeIndex'[Main]
                        /\ worker'[w].at \in {"free", "stamp"}
                             => worker'[w].next = writeIndex'[w] /\ writeIndex'[w] >= 2
      BY DEF WorkersBehind
    <2>1. writeIndex'[w] = writeIndex[w] /\ worker' = worker /\ writeIndex'[Main] = m + 1
      BY <1>3, <1>8, <1>10
    <2>2. writeIndex[w] \in Nat /\ worker[w].next \in Nat
      BY <1>1, <1>2, SlotFacts DEF TypeOK
    <2> QED BY <1>1, <1>2, <1>10, <2>1, <2>2 DEF WorkersBehind
  <1>13. TreesStamped'
    <2> SUFFICES ASSUME NEW u \in Threads, NEW r \in Slots
                 PROVE  /\ stamp'[u][r] # 0 => SlotOf(stamp'[u][r]) = r /\ stamp'[u][r] <= writeIndex'[u]
                        /\ \A f \in held'[u][r] : SlotOf(f) = r /\ f = Stamped(u, r)'
      BY DEF TreesStamped, SlotOf
    <2>1. CASE u = Main /\ r = b
      <3>1. stamp'[u][r] = n
        BY <1>4, <2>1
      <3>2. writeIndex'[u] = n
        BY <1>3, <2>1
      <3>3. held'[u][r] = {}
        BY <1>6, <2>1
      <3>4. n <= n
        BY <1>2
      <3> QED BY <3>2, <3>3, <3>4, <1>10, <2>1, <3>1
    <2>2. CASE u = Main /\ r = a
      <3>1. Stamped(Main, a) = m
        BY <1>1, <1>2, <1>10, <1>11 DEF CurrentStamped
      <3>2. stamp'[u][r] = stamp[u][r] /\ writeIndex'[u] = m + 1 /\ Stamped(u, r)' = m /\ stamp[u][r] \in Nat
        BY <1>1, <1>2, <1>3, <1>4, <1>10, <1>11, <2>2, <3>1, BoundsAssumption DEF TypeOK
      <3>3. \A f \in held'[u][r] : SlotOf(f) = r /\ f = m
        BY <1>1, <1>2, <1>6, <1>10, <2>2, <3>1 DEF TreesStamped
      <3> QED BY <1>1, <1>2, <1>10, <2>2, <3>2, <3>3 DEF TreesStamped
    <2>3. CASE u = Main /\ r # a /\ r # b
      <3>1. /\ stamp'[u][r] = stamp[u][r] /\ held'[u][r] = held[u][r] /\ writeIndex'[u] = m + 1
            /\ Stamped(u, r)' = Stamped(u, r) /\ stamp[u][r] \in Nat
        BY <1>1, <1>3, <1>4, <1>6, <1>10, <1>11, <2>3, BoundsAssumption DEF TypeOK
      <3> QED BY <1>1, <1>2, <1>10, <2>3, <3>1 DEF TreesStamped
    <2>4. CASE u # Main
      <3>1. /\ stamp'[u][r] = stamp[u][r] /\ held'[u][r] = held[u][r] /\ writeIndex'[u] = writeIndex[u]
            /\ Stamped(u, r)' = Stamped(u, r)
        BY <1>3, <1>4, <1>6, <1>11, <2>4 DEF Threads
      <3> QED BY <1>1, <3>1 DEF TreesStamped
    <2> QED BY <2>1, <2>2, <2>3, <2>4
  <1>14. CurrentStamped'
    <2> SUFFICES ASSUME NEW u \in Threads, NEW r, r = CurrentSlot(u)'
                 PROVE  /\ ~Torn(u, r)' /\ ~Unstamped(u, r)' => Stamped(u, r)' = writeIndex'[u]
                        /\ Torn(u, r)' => stamp'[u][r] < writeIndex'[u]
                        /\ Unstamped(u, r)' => stamp'[u][r] = 0 /\ held'[u][r] = {}
      BY DEF CurrentStamped, CurrentSlot
    <2>1. CASE u = Main
      BY <1>2, <1>3, <1>11, <2>1
    <2>2. CASE u # Main
      <3>1. u \in Workers /\ CurrentSlot(u) \in Slots
        BY <1>1, <2>2, SlotFacts DEF Threads
      <3>2. /\ \A q \in Slots : stamp'[u][q] = stamp[u][q]
            /\ \A q \in Slots : held'[u][q] = held[u][q]
            /\ writeIndex'[u] = writeIndex[u]
        BY <1>3, <1>4, <1>6, <2>2, <3>1
      <3> QED BY <1>1, <1>11, <2>2, <3>1, <3>2 DEF CurrentStamped
    <2> QED BY <2>1, <2>2
  <1>15. OpsStamped'
    <2> SUFFICES ASSUME NEW u \in Threads, NEW r \in Slots
                 PROVE  /\ \A i, j \in DOMAIN ops'[u][r] : ops'[u][r][i] = ops'[u][r][j]
                        /\ ~Unstamped(u, r)' => \A i \in DOMAIN ops'[u][r] : ops'[u][r][i] = Stamped(u, r)'
      BY DEF OpsStamped
    <2>1. CASE u = Main /\ r = b
      BY <1>5, <2>1, EmptySeq
    <2>2. CASE u # Main \/ r # b
      <3>1. /\ ops'[u][r] = ops[u][r] /\ Stamped(u, r)' = Stamped(u, r)
            /\ Unstamped(u, r)' = Unstamped(u, r)
        BY <1>5, <1>11, <2>2
      <3>2. /\ \A i, j \in DOMAIN ops[u][r] : ops[u][r][i] = ops[u][r][j]
            /\ ~Unstamped(u, r) => \A i \in DOMAIN ops[u][r] : ops[u][r][i] = Stamped(u, r)
        BY <1>1 DEF OpsStamped
      <3> QED BY <3>1, <3>2
    <2> QED BY <2>1, <2>2
  <1>16. StatsTrack'
    <2> SUFFICES ASSUME NEW r \in Slots, NEW f, f = stats'[r].frame
                 PROVE  /\ held'[Main][r] \subseteq {f}
                        /\ stamp'[Main][r] = IF f <= 1 THEN 0 ELSE f
                        /\ f = 0 => ~stats'[r].done /\ r # CurrentSlot(Main)'
                        /\ f # 0 => /\ SlotOf(f) = r
                                    /\ f <= writeIndex'[Main]
                                    /\ f + FramesTracked > writeIndex'[Main]
                                    /\ stats'[r].done <=> f < writeIndex'[Main]
      BY DEF StatsTrack, SlotOf
    <2>1. CASE r = b
      <3>1. f = n /\ held'[Main][r] = {} /\ stamp'[Main][r] = n /\ ~stats'[r].done
        BY <1>6, <1>4, <1>7, <2>1
      <3>2. writeIndex'[Main] = n /\ n \in Nat /\ n > 1
        BY <1>2, <1>3, <1>10
      <3> QED BY <1>10, <2>1, <3>1, <3>2, FramesAssumption
    <2>2. CASE r = a
      <3>1. stats[a].frame = m
        BY <1>1, <1>2, <1>10, CurrentStats
      <3>2. held[Main][a] \subseteq {m} /\ stamp[Main][a] = IF m <= 1 THEN 0 ELSE m
        BY <1>1, <1>2, <3>1 DEF StatsTrack
      <3>3. /\ f = m /\ held'[Main][r] = held[Main][a] \cup {m} /\ stamp'[Main][r] = stamp[Main][a]
            /\ stats'[r].done
        BY <1>2, <1>4, <1>6, <1>7, <2>2, <3>1
      <3>4. writeIndex'[Main] = m + 1 /\ m \in Nat /\ m >= 1 /\ SlotOf(m) = r
        BY <1>2, <1>3, <1>10, <2>2
      <3>5. held'[Main][r] \subseteq {f}
        BY <3>2, <3>3
      <3>6. f = m /\ stamp'[Main][r] = (IF m <= 1 THEN 0 ELSE m) /\ stats'[r].done
        BY <3>2, <3>3
      <3> QED BY <3>4, <3>5, <3>6, FramesAssumption
    <2>3. CASE r # a /\ r # b
      <3>1. /\ held'[Main][r] = held[Main][r] /\ stamp'[Main][r] = stamp[Main][r] /\ stats'[r] = stats[r]
            /\ writeIndex'[Main] = m + 1 /\ writeIndex[Main] = m /\ CurrentSlot(Main)' = b
        BY <1>2, <1>3, <1>4, <1>6, <1>7, <1>10, <1>11, <2>3
      <3>2. stats[r].frame \in Nat /\ stats[r].done \in BOOLEAN
        BY <1>1, BoundsAssumption DEF TypeOK
      <3>3. stats[r].frame # 0 =>
              stats[r].frame + FramesTracked > m + 1 /\ stats[r].frame < m
        <4> SUFFICES ASSUME stats[r].frame # 0
                     PROVE  stats[r].frame + FramesTracked > m + 1 /\ stats[r].frame < m
          OBVIOUS
        <4>1. SlotOf(stats[r].frame) = r /\ stats[r].frame <= m /\ stats[r].frame + FramesTracked > m
          BY <1>1, <1>10 DEF StatsTrack
        <4>2. stats[r].frame # m
          BY <1>10, <2>3, <4>1
        <4>3. SlotOf(stats[r].frame + FramesTracked) = r
          BY <3>2, <4>1, SlotPeriod
        <4>4. stats[r].frame + FramesTracked # m + 1
          BY <1>10, <2>3, <4>3
        <4> QED BY <1>2, <3>2, <4>1, <4>2, <4>4, FramesAssumption
      <3>4. stats[r].frame # 0 => (stats[r].done <=> stats[r].frame < m)
        BY <1>1, <1>10 DEF StatsTrack
      <3>5. /\ held[Main][r] \subseteq {stats[r].frame}
            /\ stamp[Main][r] = IF stats[r].frame <= 1 THEN 0 ELSE stats[r].frame
            /\ stats[r].frame = 0 => ~stats[r].done
            /\ stats[r].frame # 0 => SlotOf(stats[r].frame) = r /\ stats[r].frame <= m
        BY <1>1, <1>10 DEF StatsTrack
      <3>6. f = stats[r].frame /\ held'[Main][r] \subseteq {f} /\ stats'[r].done = stats[r].done
        BY <3>1, <3>5
      <3>7. stamp'[Main][r] = IF f <= 1 THEN 0 ELSE f
        BY <3>1, <3>5, <3>6
      <3>8. f = 0 => ~stats'[r].done /\ r # CurrentSlot(Main)'
        BY <2>3, <3>1, <3>5, <3>6
      <3>9. f # 0 => /\ SlotOf(f) = r
                     /\ f <= writeIndex'[Main]
                     /\ f + FramesTracked > writeIndex'[Main]
                     /\ stats'[r].done <=> f < writeIndex'[Main]
        BY <1>2, <3>1, <3>2, <3>3, <3>4, <3>5, <3>6
      <3> QED BY <3>6, <3>7, <3>8, <3>9
    <2> QED BY <2>1, <2>2, <2>3
  <1>17. WalkGuarded'
    BY <1>8 DEF WalkGuarded
  <1> QED BY <1>9, <1>12, <1>13, <1>14, <1>15, <1>16, <1>17 DEF IInv

\* Steps of thread w alone: what it leaves of the other threads and of Frames.
WorkerOnly(w) ==
  /\ UNCHANGED <<stats, readIndex, profiling, view>>
  /\ \A u \in Threads : u # w => /\ writeIndex'[u] = writeIndex[u]
                                 /\ stamp'[u] = stamp[u] /\ held'[u] = held[u] /\ ops'[u] = ops[u]
  /\ \A u \in Workers : u # w => worker'[u] = worker[u]

\* The parts of the invariant about one thread or one worker.
OneBehind(w) ==
  /\ writeIndex[w] <= writeIndex[Main]
  /\ worker[w].at = "adopt" => writeIndex[w] < worker[w].next /\ worker[w].next <= writeIndex[Main]
  /\ worker[w].at \in {"free", "stamp"} => worker[w].next = writeIndex[w] /\ writeIndex[w] >= 2

OneStamped(t) ==
  \A s \in Slots :
    /\ stamp[t][s] # 0 => SlotOf(stamp[t][s]) = s /\ stamp[t][s] <= writeIndex[t]
    /\ \A f \in held[t][s] : SlotOf(f) = s /\ f = Stamped(t, s)

OneCurrent(t) ==
  /\ ~Torn(t, CurrentSlot(t)) /\ ~Unstamped(t, CurrentSlot(t)) => Stamped(t, CurrentSlot(t)) = writeIndex[t]
  /\ Torn(t, CurrentSlot(t)) => stamp[t][CurrentSlot(t)] < writeIndex[t]
  /\ Unstamped(t, CurrentSlot(t)) => stamp[t][CurrentSlot(t)] = 0 /\ held[t][CurrentSlot(t)] = {}

OneOps(t) ==
  \A s \in Slots :
    /\ \A i, j \in DOMAIN ops[t][s] : ops[t][s][i] = ops[t][s][j]
    /\ ~Unstamped(t, s) => \A i \in DOMAIN ops[t][s] : ops[t][s][i] = Stamped(t, s)

\* A worker's step keeps the invariant when it keeps the worker's own parts.
LEMMA WorkerFrame ==
  ASSUME IInv, NEW w \in Workers, WorkerOnly(w), TypeOK',
         OneBehind(w)', OneStamped(w)', OneCurrent(w)', OneOps(w)',
         view.at = "walk" /\ view.thread = w =>
           /\ stamp'[w][readIndex] = stamp[w][readIndex]
           /\ ~Torn(w, readIndex)' /\ ~Unstamped(w, readIndex)'
  PROVE  IInv'
  <1>1. /\ TypeOK /\ WorkersBehind /\ TreesStamped /\ CurrentStamped /\ OpsStamped
        /\ StatsTrack /\ WalkGuarded
    BY DEF IInv
  <1>2. Main \in Threads /\ Main \notin Workers /\ Workers \subseteq Threads /\ w # Main
    BY <1>1, SlotFacts
  <1>3. UNCHANGED <<stats, readIndex, profiling, view>>
    BY DEF WorkerOnly
  <1>4. \A u \in Threads : u # w =>
          /\ writeIndex'[u] = writeIndex[u] /\ stamp'[u] = stamp[u] /\ held'[u] = held[u] /\ ops'[u] = ops[u]
          /\ u \in Workers => worker'[u] = worker[u]
    BY DEF WorkerOnly
  <1>5. \A u \in Threads : u # w =>
          /\ CurrentSlot(u)' = CurrentSlot(u)
          /\ \A r \in Slots : Stamped(u, r)' = Stamped(u, r)
          /\ \A r \in Slots : Torn(u, r)' = Torn(u, r) /\ Unstamped(u, r)' = Unstamped(u, r)
    BY <1>4 DEF CurrentSlot, Stamped, Torn, Unstamped
  <1>6. WorkersBehind'
    <2>1. \A u \in Workers : u # w => OneBehind(u)'
      BY <1>1, <1>2, <1>4 DEF WorkersBehind, OneBehind
    <2> QED BY <2>1 DEF WorkersBehind, OneBehind
  <1>7. TreesStamped'
    <2>1. \A u \in Threads : u # w => OneStamped(u)'
      BY <1>1, <1>4, <1>5 DEF TreesStamped, OneStamped
    <2> QED BY <2>1 DEF TreesStamped, OneStamped
  <1>8. CurrentStamped'
    <2>1. \A u \in Threads : u # w => OneCurrent(u)'
      BY <1>1, <1>4, <1>5, SlotFacts DEF CurrentStamped, OneCurrent
    <2> QED BY <2>1 DEF CurrentStamped, OneCurrent
  <1>9. OpsStamped'
    <2>1. \A u \in Threads : u # w => OneOps(u)'
      BY <1>1, <1>4, <1>5 DEF OpsStamped, OneOps
    <2> QED BY <2>1 DEF OpsStamped, OneOps
  <1>10. StatsTrack'
    BY <1>1, <1>2, <1>3, <1>4, <1>5 DEF StatsTrack
  <1>11. WalkGuarded'
    <2> SUFFICES ASSUME view.at = "walk"
                 PROVE  /\ Shown(view.thread)' /\ ~Torn(view.thread, readIndex)'
                        /\ ~Unstamped(view.thread, readIndex)'
      BY <1>3 DEF WalkGuarded
    <2>1. /\ view.thread \in Threads /\ readIndex \in Slots
          /\ Shown(view.thread) /\ ~Torn(view.thread, readIndex) /\ ~Unstamped(view.thread, readIndex)
      BY <1>1 DEF WalkGuarded, TypeOK
    <2>2. CASE view.thread = w
      BY <1>2, <1>3, <1>4, <2>1, <2>2 DEF Shown
    <2>3. CASE view.thread # w
      BY <1>2, <1>3, <1>4, <1>5, <2>1, <2>3 DEF Shown
    <2> QED BY <2>2, <2>3
  <1> QED BY <1>6, <1>7, <1>8, <1>9, <1>10, <1>11 DEF IInv

\* What the invariant says of one worker, in one place.
LEMMA WorkerState ==
  ASSUME IInv, NEW w \in Workers
  PROVE  /\ OneBehind(w) /\ OneStamped(w) /\ OneCurrent(w) /\ OneOps(w)
         /\ w \in Threads /\ w # Main /\ Main \in Threads /\ Workers \subseteq Threads
         /\ writeIndex[w] \in FrameIds /\ writeIndex[w] \in Nat
         /\ writeIndex[Main] \in FrameIds /\ writeIndex[Main] \in Nat
         /\ worker[w].at \in {"work", "adopt", "free", "stamp"}
         /\ worker[w].next \in FrameIds /\ worker[w].next \in Nat
         /\ CurrentSlot(w) \in Slots
  <1>1. /\ TypeOK /\ WorkersBehind /\ TreesStamped /\ CurrentStamped /\ OpsStamped
    BY DEF IInv
  <1>2. /\ w \in Threads /\ w # Main /\ Main \in Threads /\ Workers \subseteq Threads
        /\ writeIndex[w] \in FrameIds /\ writeIndex[w] \in Nat
        /\ writeIndex[Main] \in FrameIds /\ writeIndex[Main] \in Nat /\ CurrentSlot(w) \in Slots
    BY <1>1, SlotFacts
  <1>3. /\ worker[w].at \in {"work", "adopt", "free", "stamp"}
        /\ worker[w].next \in FrameIds /\ worker[w].next \in Nat
    BY <1>1, SlotFacts DEF TypeOK
  <1>4. OneBehind(w) /\ OneStamped(w) /\ OneCurrent(w) /\ OneOps(w)
    BY <1>1, <1>2 DEF WorkersBehind, TreesStamped, CurrentStamped, OpsStamped,
                      OneBehind, OneStamped, OneCurrent, OneOps
  <1> QED BY <1>2, <1>3, <1>4

\* A worker reads the main thread's frame counter.
LEMMA LoadKeeps ==
  ASSUME IInv, NEW w \in Workers, WorkerLoad(w)
  PROVE  IInv'
  <1>1. /\ OneBehind(w) /\ OneStamped(w) /\ OneCurrent(w) /\ OneOps(w)
        /\ w \in Threads /\ w # Main /\ writeIndex[w] \in Nat
        /\ writeIndex[Main] \in FrameIds /\ writeIndex[Main] \in Nat
    BY WorkerState
  <1>2. /\ UNCHANGED <<writeIndex, stamp, held, ops, stats, readIndex, profiling, view>>
        /\ worker[w].at = "work" /\ writeIndex[Main] # writeIndex[w]
        /\ worker' = [worker EXCEPT ![w] = [at |-> "adopt", next |-> writeIndex[Main]]]
    BY DEF WorkerLoad, threadVars
  <1>3. TypeOK
    BY DEF IInv
  <1>4. /\ worker' \in [Workers -> [at : {"work", "adopt", "free", "stamp"}, next : FrameIds]]
        /\ worker'[w].at = "adopt" /\ worker'[w].next = writeIndex[Main]
        /\ \A u \in Workers : u # w => worker'[u] = worker[u]
    BY <1>1, <1>2, <1>3 DEF TypeOK
  <1>5. TypeOK'
    BY <1>2, <1>3, <1>4 DEF TypeOK
  <1>6. WorkerOnly(w)
    BY <1>2, <1>4 DEF WorkerOnly
  <1>7. OneBehind(w)'
    BY <1>1, <1>2, <1>4 DEF OneBehind
  <1>8. CurrentSlot(w)' = CurrentSlot(w) /\ \A r : Stamped(w, r)' = Stamped(w, r)
    BY <1>2 DEF CurrentSlot, Stamped
  <1>9. \A r : ~Torn(w, r) /\ ~Unstamped(w, r) /\ ~Torn(w, r)' /\ ~Unstamped(w, r)'
    BY <1>2, <1>4 DEF Torn, Unstamped
  <1>10. OneStamped(w)' /\ OneCurrent(w)' /\ OneOps(w)'
    BY <1>1, <1>2, <1>8, <1>9 DEF OneStamped, OneCurrent, OneOps
  <1> QED BY <1>2, <1>5, <1>6, <1>7, <1>9, <1>10, WorkerFrame

\* A worker takes the frame it read as its own.  When its new slot is the one
\* being walked, the tree there is of an older frame of the slot than the main
\* thread's, so the stamps could not have matched.
LEMMA AdoptKeeps ==
  ASSUME IInv, NEW w \in Workers, WorkerAdopt(w), NEW k, k = worker[w].next
  PROVE  IInv'
  <1>1. /\ OneBehind(w) /\ OneStamped(w) /\ OneCurrent(w) /\ OneOps(w)
        /\ w \in Threads /\ w # Main /\ Main \in Threads /\ writeIndex[w] \in Nat
        /\ writeIndex[Main] \in Nat /\ k \in FrameIds /\ k \in Nat
    BY WorkerState
  <1>2. /\ UNCHANGED <<stamp, held, ops, stats, readIndex, profiling, view>>
        /\ worker[w].at = "adopt"
        /\ writeIndex' = [writeIndex EXCEPT ![w] = k]
        /\ worker' = [worker EXCEPT ![w].at = "free"]
    BY DEF WorkerAdopt
  <1>3. TypeOK /\ StatsTrack /\ WalkGuarded
    BY DEF IInv
  <1>4. /\ worker' \in [Workers -> [at : {"work", "adopt", "free", "stamp"}, next : FrameIds]]
        /\ worker'[w].at = "free" /\ worker'[w].next = k
        /\ \A u \in Workers : u # w => worker'[u] = worker[u]
    BY <1>1, <1>2, <1>3 DEF TypeOK
  <1>5. /\ writeIndex' \in [Threads -> FrameIds] /\ writeIndex'[w] = k
        /\ \A u \in Threads : u # w => writeIndex'[u] = writeIndex[u]
    BY <1>1, <1>2, <1>3 DEF TypeOK
  <1>6. TypeOK'
    BY <1>2, <1>3, <1>4, <1>5 DEF TypeOK
  <1>7. WorkerOnly(w)
    BY <1>2, <1>4, <1>5 DEF WorkerOnly
  <1>8. writeIndex[w] >= 1 /\ writeIndex[w] < k /\ k <= writeIndex[Main]
    BY <1>1, <1>2, <1>3, SlotFacts DEF OneBehind
  <1>9. OneBehind(w)'
    BY <1>1, <1>4, <1>5, <1>8 DEF OneBehind
  <1>10. \A r : Stamped(w, r)' = Stamped(w, r)
    BY <1>2 DEF Stamped
  <1>11. /\ CurrentSlot(w)' = SlotOf(k) /\ SlotOf(k) \in Slots
         /\ \A r : ~Torn(w, r) /\ ~Unstamped(w, r) /\ ~Unstamped(w, r)'
         /\ \A r : Torn(w, r)' <=> SlotOf(k) = r
    BY <1>1, <1>2, <1>3, <1>4, <1>5, SlotFacts DEF CurrentSlot, Torn, Unstamped
  <1>12. \A r \in Slots : stamp[w][r] \in Nat /\ stamp[w][r] <= writeIndex[w] /\ stamp[w][r] < k
    <2> SUFFICES ASSUME NEW r \in Slots
                 PROVE  stamp[w][r] \in Nat /\ stamp[w][r] <= writeIndex[w] /\ stamp[w][r] < k
      OBVIOUS
    <2>1. stamp[w][r] \in Nat
      BY <1>1, <1>3, BoundsAssumption DEF TypeOK
    <2>2. stamp[w][r] # 0 => stamp[w][r] <= writeIndex[w]
      BY <1>1 DEF OneStamped
    <2> QED BY <1>1, <1>8, <2>1, <2>2
  <1>13. OneStamped(w)'
    BY <1>1, <1>2, <1>5, <1>8, <1>10, <1>12 DEF OneStamped
  <1>14. OneCurrent(w)'
    BY <1>2, <1>5, <1>11, <1>12 DEF OneCurrent
  <1>15. OneOps(w)'
    BY <1>1, <1>2, <1>10, <1>11 DEF OneOps
  <1>16. ASSUME view.at = "walk", view.thread = w
         PROVE  ~Torn(w, readIndex)'
    <2> SUFFICES ASSUME SlotOf(k) = readIndex PROVE FALSE
      BY <1>2, <1>11
    <2> DEFINE f == stats[readIndex].frame
    <2>1. readIndex \in Slots /\ f \in Nat
      BY <1>3, BoundsAssumption DEF TypeOK
    <2>2. stats[readIndex].done /\ stamp[Main][readIndex] = stamp[w][readIndex]
      BY <1>3, <1>16 DEF WalkGuarded, Shown
    <2>3. /\ f # 0 /\ SlotOf(f) = readIndex /\ f + FramesTracked > writeIndex[Main]
          /\ stamp[Main][readIndex] = IF f <= 1 THEN 0 ELSE f
      BY <1>3, <2>1, <2>2 DEF StatsTrack
    <2>4. f < k
      <3>1. CASE f <= 1
        BY <1>1, <1>8, <2>1, <3>1
      <3>2. CASE ~(f <= 1)
        BY <1>12, <2>1, <2>2, <2>3, <3>2
      <3> QED BY <3>1, <3>2
    <2>5. k >= f + FramesTracked
      BY <1>1, <2>1, <2>3, <2>4, SlotDistance
    <2> QED BY <1>1, <1>8, <2>1, <2>3, <2>5, FramesAssumption
  <1> QED BY <1>2, <1>6, <1>7, <1>9, <1>11, <1>13, <1>14, <1>15, <1>16, WorkerFrame

\* InitScopeTree clears the worker's tree.
LEMMA InitTreeKeeps ==
  ASSUME IInv, NEW w \in Workers, WorkerInitTree(w), NEW s, s = CurrentSlot(w)
  PROVE  IInv'
  <1>1. /\ OneBehind(w) /\ OneStamped(w) /\ OneCurrent(w) /\ OneOps(w)
        /\ w \in Threads /\ w # Main /\ writeIndex[w] \in Nat /\ s \in Slots
    BY WorkerState
  <1>2. /\ UNCHANGED <<writeIndex, ops, stats, readIndex, profiling, view>>
        /\ worker[w].at = "free"
        /\ held' = [held EXCEPT ![w][s] = {}]
        /\ stamp' = [stamp EXCEPT ![w][s] = 0]
        /\ worker' = [worker EXCEPT ![w].at = "stamp"]
    BY DEF WorkerInitTree
  <1>3. TypeOK /\ WalkGuarded
    BY DEF IInv
  <1>4. /\ worker' \in [Workers -> [at : {"work", "adopt", "free", "stamp"}, next : FrameIds]]
        /\ worker'[w].at = "stamp" /\ worker'[w].next = worker[w].next
        /\ \A u \in Workers : u # w => worker'[u] = worker[u]
    BY <1>1, <1>2, <1>3 DEF TypeOK
  <1>5. /\ held' \in [Threads -> [Slots -> SUBSET FrameIds]] /\ held'[w][s] = {}
        /\ \A u \in Threads, r \in Slots : u # w \/ r # s => held'[u][r] = held[u][r]
    <2>1. held \in [Threads -> [Slots -> SUBSET FrameIds]] /\ {} \in SUBSET FrameIds
      BY <1>3 DEF TypeOK
    <2> QED BY <1>1, <1>2, <2>1, UpdateSlot
  <1>6. /\ stamp' \in [Threads -> [Slots -> 0 .. MaxFrame]] /\ stamp'[w][s] = 0
        /\ \A u \in Threads, r \in Slots : u # w \/ r # s => stamp'[u][r] = stamp[u][r]
    <2>1. stamp \in [Threads -> [Slots -> 0 .. MaxFrame]] /\ 0 \in 0 .. MaxFrame
      BY <1>3, BoundsAssumption DEF TypeOK
    <2> QED BY <1>1, <1>2, <2>1, UpdateSlot
  <1>7. TypeOK'
    BY <1>2, <1>3, <1>4, <1>5, <1>6 DEF TypeOK
  <1>8. WorkerOnly(w)
    BY <1>2, <1>3, <1>4 DEF WorkerOnly, TypeOK
  <1>9. OneBehind(w)'
    BY <1>1, <1>2, <1>4 DEF OneBehind
  <1>10. /\ CurrentSlot(w)' = s
         /\ \A r \in Slots : r # s => Stamped(w, r)' = Stamped(w, r)
         /\ \A r : ~Unstamped(w, r) /\ ~Torn(w, r)'
         /\ \A r : Torn(w, r) <=> r = s
         /\ \A r : Unstamped(w, r)' <=> r = s
    BY <1>1, <1>2, <1>4, <1>6 DEF CurrentSlot, Stamped, Torn, Unstamped
  <1>11. OneStamped(w)'
    BY <1>1, <1>2, <1>5, <1>6, <1>10 DEF OneStamped
  <1>12. OneCurrent(w)'
    BY <1>5, <1>6, <1>10 DEF OneCurrent
  <1>13. OneOps(w)'
    BY <1>1, <1>2, <1>10 DEF OneOps
  <1>14. ASSUME view.at = "walk", view.thread = w
         PROVE  readIndex # s /\ readIndex \in Slots
    BY <1>3, <1>10, <1>14 DEF WalkGuarded, TypeOK
  <1>15. view.at = "walk" /\ view.thread = w =>
           /\ stamp'[w][readIndex] = stamp[w][readIndex]
           /\ ~Torn(w, readIndex)' /\ ~Unstamped(w, readIndex)'
    <2> SUFFICES ASSUME view.at = "walk", view.thread = w
                 PROVE  /\ stamp'[w][readIndex] = stamp[w][readIndex]
                        /\ ~Torn(w, readIndex)' /\ ~Unstamped(w, readIndex)'
      OBVIOUS
    <2>1. readIndex' = readIndex /\ readIndex # s /\ readIndex \in Slots
      BY <1>2, <1>14
    <2>2. ~Torn(w, readIndex)' /\ ~Unstamped(w, readIndex)'
      BY <1>10, <2>1
    <2> QED BY <1>1, <1>6, <2>1, <2>2
  <1> QED BY <1>7, <1>8, <1>9, <1>11, <1>12, <1>13, <1>15, WorkerFrame

\* The worker resets the mutex records of its slot and stamps the tree.
LEMMA StampKeeps ==
  ASSUME IInv, NEW w \in Workers, WorkerStamp(w), NEW s, s = CurrentSlot(w),
         NEW k, k = worker[w].next
  PROVE  IInv'
  <1>1. /\ OneBehind(w) /\ OneStamped(w) /\ OneCurrent(w) /\ OneOps(w)
        /\ w \in Threads /\ w # Main /\ writeIndex[w] \in Nat /\ s \in Slots
        /\ k \in FrameIds
    BY WorkerState
  <1>2. /\ UNCHANGED <<writeIndex, held, stats, readIndex, profiling, view>>
        /\ worker[w].at = "stamp"
        /\ ops' = [ops EXCEPT ![w][s] = <<>>]
        /\ stamp' = [stamp EXCEPT ![w][s] = k]
        /\ worker' = [worker EXCEPT ![w].at = "work"]
    BY DEF WorkerStamp
  <1>3. TypeOK /\ WalkGuarded
    BY DEF IInv
  <1>4. /\ worker' \in [Workers -> [at : {"work", "adopt", "free", "stamp"}, next : FrameIds]]
        /\ worker'[w].at = "work" /\ worker'[w].next = k
        /\ \A u \in Workers : u # w => worker'[u] = worker[u]
    BY <1>1, <1>2, <1>3 DEF TypeOK
  <1>5. /\ ops' \in [Threads -> [Slots -> Seq(FrameIds)]] /\ ops'[w][s] = <<>>
        /\ \A u \in Threads, r \in Slots : u # w \/ r # s => ops'[u][r] = ops[u][r]
    <2>1. ops \in [Threads -> [Slots -> Seq(FrameIds)]] /\ <<>> \in Seq(FrameIds)
      BY <1>3, EmptySeq DEF TypeOK
    <2> QED BY <1>1, <1>2, <2>1, UpdateSlot
  <1>6. /\ stamp' \in [Threads -> [Slots -> 0 .. MaxFrame]] /\ stamp'[w][s] = k
        /\ \A u \in Threads, r \in Slots : u # w \/ r # s => stamp'[u][r] = stamp[u][r]
    <2>1. stamp \in [Threads -> [Slots -> 0 .. MaxFrame]]
      BY <1>3 DEF TypeOK
    <2>2. k \in FrameIds
      BY <1>1
    <2>3. k \in 0 .. MaxFrame
      BY <2>2, BoundsAssumption DEF FrameIds
    <2> QED BY <1>1, <1>2, <2>1, <2>3, UpdateSlot
  <1>7. TypeOK'
    BY <1>2, <1>3, <1>4, <1>5, <1>6 DEF TypeOK
  <1>8. WorkerOnly(w)
    BY <1>2, <1>3, <1>4 DEF WorkerOnly, TypeOK
  <1>9. OneBehind(w)'
    BY <1>1, <1>2, <1>4 DEF OneBehind
  <1>10. k = writeIndex[w] /\ k >= 2 /\ SlotOf(k) = s /\ k # 0
    BY <1>1, <1>2 DEF OneBehind, CurrentSlot
  <1>11. /\ CurrentSlot(w)' = s
         /\ \A r \in Slots : r # s => Stamped(w, r)' = Stamped(w, r)
         /\ Stamped(w, s)' = k
         /\ \A r : ~Torn(w, r)' /\ ~Unstamped(w, r)'
         /\ \A r : Unstamped(w, r) <=> r = s
    BY <1>1, <1>2, <1>4, <1>6, <1>10 DEF CurrentSlot, Stamped, Torn, Unstamped
  <1>12. held'[w][s] = {}
    BY <1>1, <1>2, <1>11 DEF OneCurrent
  <1>13. OneStamped(w)'
    BY <1>1, <1>2, <1>6, <1>10, <1>11, <1>12 DEF OneStamped
  <1>14. OneCurrent(w)'
    BY <1>2, <1>10, <1>11 DEF OneCurrent
  <1>15. OneOps(w)'
    <2> SUFFICES ASSUME NEW r \in Slots
                 PROVE  /\ \A i, j \in DOMAIN ops'[w][r] : ops'[w][r][i] = ops'[w][r][j]
                        /\ \A i \in DOMAIN ops'[w][r] : ops'[w][r][i] = Stamped(w, r)'
      BY DEF OneOps
    <2>1. CASE r = s
      BY <1>5, <2>1
    <2>2. CASE r # s
      <3>1. ops'[w][r] = ops[w][r] /\ ~Unstamped(w, r) /\ Stamped(w, r)' = Stamped(w, r)
        BY <1>1, <1>5, <1>11, <2>2
      <3>2. /\ \A i, j \in DOMAIN ops[w][r] : ops[w][r][i] = ops[w][r][j]
            /\ \A i \in DOMAIN ops[w][r] : ops[w][r][i] = Stamped(w, r)
        BY <1>1, <3>1 DEF OneOps
      <3> QED BY <3>1, <3>2
    <2> QED BY <2>1, <2>2
  <1>16. view.at = "walk" /\ view.thread = w =>
           /\ stamp'[w][readIndex] = stamp[w][readIndex]
           /\ ~Torn(w, readIndex)' /\ ~Unstamped(w, readIndex)'
    <2> SUFFICES ASSUME view.at = "walk", view.thread = w
                 PROVE  /\ stamp'[w][readIndex] = stamp[w][readIndex]
                        /\ ~Torn(w, readIndex)' /\ ~Unstamped(w, readIndex)'
      OBVIOUS
    <2>1. readIndex' = readIndex /\ readIndex # s /\ readIndex \in Slots
      BY <1>2, <1>3, <1>11 DEF WalkGuarded, TypeOK
    <2> QED BY <1>1, <1>6, <1>11, <2>1
  <1> QED BY <1>7, <1>8, <1>9, <1>13, <1>14, <1>15, <1>16, WorkerFrame

(***************************************************************************)
(* The theorems.                                                           *)
(***************************************************************************)

\* Every reachable state satisfies the inductive invariant: the protocol of
\* stamps works for every number of workers, slots, mutex records and frames.
THEOREM Invariance == Spec => []IInv
  <1>1. Init => IInv
    BY InitIInv
  <1>2. IInv /\ [Next]_vars => IInv'
    <2> SUFFICES ASSUME IInv, [Next]_vars PROVE IInv'
      OBVIOUS
    <2>1. ASSUME NEW t \in Threads, RecordScope(t) \/ RecordMutexOp(t) PROVE IInv'
      BY <2>1, RecordKeeps
    <2>2. CASE MainThreadAdvance
      BY <2>2, MainAdvanceKeeps
    <2>3. CASE ToggleProfiling \/ OpenCallgraph \/ CheckTree \/ WalkDone
      BY <2>3, ViewKeeps
    <2>4. ASSUME NEW w \in Workers, WorkerLoad(w) PROVE IInv'
      BY <2>4, LoadKeeps
    <2>5. ASSUME NEW w \in Workers, WorkerAdopt(w) PROVE IInv'
      BY <2>5, AdoptKeeps
    <2>6. ASSUME NEW w \in Workers, WorkerInitTree(w) PROVE IInv'
      BY <2>6, InitTreeKeeps
    <2>7. ASSUME NEW w \in Workers, WorkerStamp(w) PROVE IInv'
      BY <2>7, StampKeeps
    <2>8. CASE UNCHANGED vars
      BY <2>8 DEF vars, IInv, TypeOK, WorkersBehind, TreesStamped, CurrentStamped, OpsStamped,
                  StatsTrack, WalkGuarded, Torn, Unstamped, Stamped, Shown, CurrentSlot
    <2> QED BY <2>1, <2>2, <2>3, <2>4, <2>5, <2>6, <2>7, <2>8 DEF Next, WorkerAdvance
  <1> QED BY <1>1, <1>2, PTL DEF Spec

\* Frame counters, stamps, trees and the callgraph's state keep their types.
THEOREM TypeCorrect == Spec => []TypeOK
  <1>1. IInv => TypeOK
    BY DEF IInv
  <1> QED BY <1>1, Invariance, PTL

\* The callgraph never walks a tree its worker is taking apart, and every scope
\* it shows is of the frame whose cycle count it shows, with no lock.
THEOREM CallgraphCorrect == Spec => []CallgraphConsistent
  <1>1. IInv => CallgraphConsistent
    <2> SUFFICES ASSUME IInv, view.at = "walk"
                 PROVE  /\ ~Torn(view.thread, readIndex)
                        /\ held[view.thread][readIndex] \subseteq {stats[readIndex].frame}
      BY DEF CallgraphConsistent
    <2> DEFINE f == stats[readIndex].frame
               t == view.thread
    <2>1. TypeOK /\ WalkGuarded /\ StatsTrack /\ TreesStamped
      BY DEF IInv
    <2>2. ~Torn(t, readIndex) /\ stats[readIndex].done /\ stamp[Main][readIndex] = stamp[t][readIndex]
      BY <2>1 DEF WalkGuarded, Shown
    <2>3. t \in Threads /\ readIndex \in Slots /\ f \in Nat
      BY <2>1, BoundsAssumption DEF TypeOK
    <2>4. f # 0 /\ stamp[Main][readIndex] = IF f <= 1 THEN 0 ELSE f
      BY <2>1, <2>2, <2>3 DEF StatsTrack
    <2>5. Stamped(t, readIndex) = f
      BY <2>2, <2>3, <2>4 DEF Stamped
    <2>6. \A g \in held[t][readIndex] : g = f
      BY <2>1, <2>3, <2>5 DEF TreesStamped
    <2> QED BY <2>2, <2>6
  <1> QED BY <1>1, Invariance, PTL

\* No slot of any thread ever mixes the scopes or the mutex records of two
\* frames, however many frames the worker skipped.
THEOREM SlotsUnmixed == Spec => []SlotHoldsOneFrame
  <1>1. IInv => SlotHoldsOneFrame
    BY DEF IInv, TreesStamped, OpsStamped, SlotHoldsOneFrame
  <1> QED BY <1>1, Invariance, PTL

\* The frame ticker's bar of a slot and the main thread's tree in it are of one
\* frame, the latest begun there.
THEOREM StatsCorrect == Spec => []StatsMatchMainTree
  <1>1. IInv => StatsMatchMainTree
    BY DEF IInv, StatsTrack, StatsMatchMainTree
  <1> QED BY <1>1, Invariance, PTL

\* No step takes a worker ahead of the main thread or back to an older frame.
THEOREM Following == Spec => WorkersFollow
  <1>1. IInv /\ IInv' /\ [Next]_vars =>
          [\A w \in Workers : /\ writeIndex'[w] <= writeIndex'[Main]
                              /\ writeIndex'[w] >= writeIndex[w]]_vars
    <2> SUFFICES ASSUME IInv, IInv', [Next]_vars, NEW w \in Workers
                 PROVE  writeIndex'[w] <= writeIndex'[Main] /\ writeIndex'[w] >= writeIndex[w]
      OBVIOUS
    <2>1. writeIndex'[w] <= writeIndex'[Main]
      BY DEF IInv, WorkersBehind
    <2>2. /\ OneBehind(w) /\ writeIndex[w] \in Nat /\ worker[w].next \in Nat
          /\ w \in Threads /\ w # Main /\ writeIndex \in [Threads -> FrameIds]
      BY WorkerState DEF IInv, TypeOK
    <2>3. CASE writeIndex'[w] = writeIndex[w]
      BY <2>1, <2>2, <2>3
    <2>4. CASE writeIndex'[w] # writeIndex[w]
      <3>1. WorkerAdopt(w)
        BY <2>2, <2>4 DEF Next, vars, threadVars, RecordScope, RecordMutexOp, MainThreadAdvance, ToggleProfiling,
             OpenCallgraph, CheckTree, WalkDone, WorkerAdvance, WorkerLoad, WorkerAdopt, WorkerInitTree, WorkerStamp
      <3>2. writeIndex'[w] = worker[w].next /\ writeIndex[w] < worker[w].next
        BY <2>2, <3>1 DEF WorkerAdopt, OneBehind
      <3> QED BY <2>1, <2>2, <3>2
    <2> QED BY <2>3, <2>4
  <1> QED BY <1>1, Invariance, PTL DEF Spec, WorkersFollow

=============================================================================
