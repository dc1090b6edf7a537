------------------------- MODULE ArenaRegistryProofs -------------------------
(***************************************************************************)
(* Proofs about ArenaRegistry, for any threads, any addresses and a table  *)
(* of any size.  What carries the induction is that claiming is the only   *)
(* way into a slot and that it is never undone: a thread past slot i has   *)
(* seen it claimed, and whoever claimed a slot is the only one to fill it. *)
(***************************************************************************)
EXTENDS ArenaRegistry, TLAPS

\* The fields of a slot and of a call, one slot and one thread at a time.
LEMMA Fields ==
  ASSUME TypeOK
  PROVE  /\ \A i \in Slots : /\ slots[i].claimed \in BOOLEAN /\ slots[i].tombstone \in BOOLEAN
                             /\ slots[i].arena \in Arenas \cup {NoArena}
                             /\ slots[i] \in [claimed : BOOLEAN, arena : Arenas \cup {NoArena},
                                              named : BOOLEAN, tombstone : BOOLEAN]
         /\ \A t \in Threads : /\ call[t].at \in {"idle", "scan", "claim", "publish"}
                               /\ call[t].index \in 0 .. Count /\ call[t].index \in Nat
                               /\ call[t].arena \in Arenas \cup {NoArena}
         /\ \A i \in Slots : i \in Nat /\ i + 1 \in 0 .. Count
  BY CountAssumption DEF TypeOK, Slots

\* The inductive invariant holds of the empty table.
LEMMA InitIInv == Init => IInv
  <1> SUFFICES ASSUME Init PROVE IInv
    OBVIOUS
  <1>1. TypeOK
    <2>1. 0 \in 0 .. Count
      BY CountAssumption
    <2> QED BY <2>1 DEF Init, TypeOK, Blank, Idle
  <1>2. /\ \A i \in Slots : ~slots[i].claimed /\ slots[i].arena = NoArena /\ ~slots[i].tombstone
        /\ \A t \in Threads : call[t].at = "idle"
        /\ \A a \in Arenas : life[a] = "free" /\ a # NoArena
    BY ArenaAssumption DEF Init, Blank, Idle
  <1>3. LiveListedOnce /\ FullOnlyWhenFull
    BY <1>2 DEF LiveListedOnce, FullOnlyWhenFull, Live
  <1>4. ClaimedIsPrefix /\ OneWriter /\ ScannedAreClaimed /\ CallsOwnArenas /\ UnclaimedAreBlank /\ HoldersAreClaimed
    BY <1>2 DEF ClaimedIsPrefix, OneWriter, ScannedAreClaimed, CallsOwnArenas, UnclaimedAreBlank, HoldersAreClaimed
  <1> QED BY <1>1, <1>3, <1>4 DEF IInv

\* A thread begins to register an arena: no slot changes.
LEMMA BeginKeeps ==
  ASSUME IInv, NEW t \in Threads, NEW a \in Arenas, BeginRegister(t, a)
  PROVE  IInv'
  <1>1. /\ call[t].at = "idle" /\ life[a] = "free" /\ slots' = slots
        /\ call' = [call EXCEPT ![t] = [at |-> "scan", index |-> 0, arena |-> a]]
        /\ life' = [life EXCEPT ![a] = "registering"]
    BY DEF BeginRegister
  <1>2. TypeOK'
    <2>1. 0 \in 0 .. Count
      BY CountAssumption
    <2> QED BY <1>1, <2>1 DEF IInv, TypeOK
  <1>3. /\ call'[t].at = "scan" /\ call'[t].index = 0 /\ call'[t].arena = a
        /\ \A u \in Threads : u # t => call'[u] = call[u]
        /\ life'[a] = "registering" /\ \A b \in Arenas : b # a => life'[b] = life[b]
    BY <1>1 DEF IInv, TypeOK
  <1>4. LiveListedOnce'
    BY <1>1, <1>3 DEF IInv, LiveListedOnce, Live
  <1>5. FullOnlyWhenFull'
    BY <1>1, <1>3 DEF IInv, FullOnlyWhenFull
  <1>6. ClaimedIsPrefix' /\ UnclaimedAreBlank' /\ HoldersAreClaimed'
    BY <1>1 DEF IInv, ClaimedIsPrefix, UnclaimedAreBlank, HoldersAreClaimed
  <1>7. OneWriter'
    BY <1>1, <1>3 DEF IInv, OneWriter
  <1>8. ScannedAreClaimed'
    <2>1. \A i \in Slots : ~(i < 0)
      BY Fields DEF IInv
    <2> QED BY <1>1, <1>3, <2>1 DEF IInv, ScannedAreClaimed
  <1>9. CallsOwnArenas'
    <2>1. \A u \in Threads : u # t /\ call[u].at # "idle" => call[u].arena # a
      BY <1>1 DEF IInv, CallsOwnArenas
    <2> QED BY <1>1, <1>3, <2>1 DEF IInv, CallsOwnArenas
  <1> QED BY <1>2, <1>4, <1>5, <1>6, <1>7, <1>8, <1>9 DEF IInv

\* A scanning thread reads one SourceLocation.
LEMMA ScanKeeps ==
  ASSUME IInv, NEW t \in Threads, Scan(t), NEW k, k = call[t].index
  PROVE  IInv'
  <1>1. /\ call[t].at = "scan" /\ k \in Slots /\ slots' = slots /\ life' = life
        /\ call' = IF slots[k].claimed THEN [call EXCEPT ![t].index = k + 1]
                   ELSE [call EXCEPT ![t].at = "claim"]
    BY DEF Scan
  <1>2. TypeOK /\ k + 1 \in 0 .. Count /\ k \in Nat
    BY <1>1, Fields DEF IInv
  <1>3. TypeOK'
    BY <1>1, <1>2 DEF TypeOK
  <1>4. /\ \A u \in Threads : u # t => call'[u] = call[u]
        /\ call'[t].arena = call[t].arena
        /\ \/ slots[k].claimed /\ call'[t].at = "scan" /\ call'[t].index = k + 1
           \/ call'[t].at = "claim" /\ call'[t].index = k
    BY <1>1, <1>2 DEF TypeOK
  <1>5. LiveListedOnce' /\ FullOnlyWhenFull' /\ ClaimedIsPrefix' /\ UnclaimedAreBlank' /\ HoldersAreClaimed'
    BY <1>1 DEF IInv, LiveListedOnce, Live, FullOnlyWhenFull, ClaimedIsPrefix, UnclaimedAreBlank, HoldersAreClaimed
  <1>6. OneWriter'
    BY <1>1, <1>4 DEF IInv, OneWriter
  <1>7. ScannedAreClaimed'
    <2> SUFFICES ASSUME NEW u \in Threads, NEW i \in Slots, call'[u].at # "idle", i < call'[u].index
                 PROVE  slots[i].claimed
      BY <1>1 DEF ScannedAreClaimed
    <2>1. CASE u # t
      BY <1>4, <2>1 DEF IInv, ScannedAreClaimed
    <2>2. CASE u = t
      <3>1. i \in Nat /\ (i < k => slots[i].claimed)
        BY <1>1, <1>2, Fields DEF IInv, ScannedAreClaimed
      <3> QED BY <1>2, <1>4, <2>2, <3>1
    <2> QED BY <2>1, <2>2
  <1>8. CallsOwnArenas'
    BY <1>1, <1>4 DEF IInv, CallsOwnArenas
  <1> QED BY <1>3, <1>5, <1>6, <1>7, <1>8 DEF IInv

\* The compare-exchange, won or lost.
LEMMA ClaimKeeps ==
  ASSUME IInv, NEW t \in Threads, Claim(t), NEW k, k = call[t].index
  PROVE  IInv'
  <1>1. TypeOK /\ call[t].at = "claim" /\ k \in Slots /\ life' = life
    BY DEF IInv, CallsOwnArenas, Claim
  <1>2. k \in Nat /\ k + 1 \in 0 .. Count /\ \A i \in Slots : i \in Nat
    BY <1>1, Fields
  <1>3. \A i \in Slots : i < k => slots[i].claimed
    BY <1>1 DEF IInv, ScannedAreClaimed
  <1>4. CASE slots[k].claimed
    <2>1. /\ slots' = slots
          /\ call' = [call EXCEPT ![t].at = "scan", ![t].index = k + 1]
      BY <1>4 DEF Claim
    <2>2. TypeOK'
      BY <1>1, <1>2, <2>1 DEF TypeOK
    <2>3. /\ \A u \in Threads : u # t => call'[u] = call[u]
          /\ call'[t].at = "scan" /\ call'[t].index = k + 1 /\ call'[t].arena = call[t].arena
      BY <1>1, <2>1 DEF TypeOK
    <2>4. LiveListedOnce' /\ FullOnlyWhenFull' /\ ClaimedIsPrefix' /\ UnclaimedAreBlank' /\ HoldersAreClaimed'
      BY <1>1, <2>1 DEF IInv, LiveListedOnce, Live, FullOnlyWhenFull, ClaimedIsPrefix, UnclaimedAreBlank, HoldersAreClaimed
    <2>5. OneWriter'
      <3>1. \A u \in Threads : call'[u].at = "publish" => u # t /\ call'[u] = call[u]
        BY <2>3
      <3>2. OneWriter
        BY DEF IInv
      <3>3. ASSUME NEW u \in Threads, call'[u].at = "publish"
            PROVE  slots'[call'[u].index].claimed /\ slots'[call'[u].index].arena = NoArena
        <4>1. call'[u] = call[u] /\ call[u].at = "publish"
          BY <3>1, <3>3
        <4> QED BY <2>1, <3>2, <4>1 DEF OneWriter
      <3>4. ASSUME NEW u \in Threads, call'[u].at = "publish", NEW v \in Threads \ {u}, call'[v].at = "publish"
            PROVE  call'[v].index # call'[u].index
        <4>1. call'[u] = call[u] /\ call[u].at = "publish" /\ call'[v] = call[v] /\ call[v].at = "publish"
          BY <3>1, <3>4
        <4> QED BY <3>2, <4>1 DEF OneWriter
      <3> QED BY <3>3, <3>4 DEF OneWriter
    <2>6. ScannedAreClaimed'
      <3> SUFFICES ASSUME NEW u \in Threads, NEW i \in Slots, call'[u].at # "idle", i < call'[u].index
                   PROVE  slots[i].claimed
        BY <2>1 DEF ScannedAreClaimed
      <3>1. CASE u # t
        BY <2>3, <3>1 DEF IInv, ScannedAreClaimed
      <3>2. CASE u = t
        BY <1>2, <1>3, <1>4, <2>3, <3>2
      <3> QED BY <3>1, <3>2
    <2>7. CallsOwnArenas'
      BY <1>1, <2>3 DEF IInv, CallsOwnArenas
    <2> QED BY <2>2, <2>4, <2>5, <2>6, <2>7 DEF IInv
  <1>5. CASE ~slots[k].claimed
    <2>1. /\ slots' = [slots EXCEPT ![k].claimed = TRUE]
          /\ call' = [call EXCEPT ![t].at = "publish"]
      BY <1>5 DEF Claim
    <2>2. TypeOK'
      <3>1. slots' \in [Slots -> [claimed : BOOLEAN, arena : Arenas \cup {NoArena},
                                  named : BOOLEAN, tombstone : BOOLEAN]]
        <4>1. [slots[k] EXCEPT !.claimed = TRUE] \in [claimed : BOOLEAN, arena : Arenas \cup {NoArena},
                                                     named : BOOLEAN, tombstone : BOOLEAN]
          BY <1>1, Fields
        <4> QED BY <1>1, <2>1, <4>1 DEF TypeOK
      <3>2. call' \in [Threads -> [at : {"idle", "scan", "claim", "publish"},
                                   index : 0 .. Count, arena : Arenas \cup {NoArena}]]
        BY <1>1, <2>1 DEF TypeOK
      <3> QED BY <1>1, <3>1, <3>2 DEF TypeOK
    <2>3. /\ \A u \in Threads : u # t => call'[u] = call[u]
          /\ call'[t].at = "publish" /\ call'[t].index = k /\ call'[t].arena = call[t].arena
          /\ \A i \in Slots : i # k => slots'[i] = slots[i]
          /\ slots'[k].claimed /\ slots'[k].arena = slots[k].arena /\ slots'[k].tombstone = slots[k].tombstone
      BY <1>1, <2>1 DEF TypeOK
    <2>4. /\ \A i \in Slots : /\ slots'[i].arena = slots[i].arena
                              /\ slots'[i].tombstone = slots[i].tombstone
                              /\ slots[i].claimed => slots'[i].claimed
      BY <2>3
    <2>5. LiveListedOnce'
      BY <1>1, <2>4 DEF IInv, LiveListedOnce, Live
    <2>6. FullOnlyWhenFull' /\ UnclaimedAreBlank' /\ HoldersAreClaimed'
      BY <1>1, <2>4 DEF IInv, FullOnlyWhenFull, UnclaimedAreBlank, HoldersAreClaimed
    <2>7. ClaimedIsPrefix'
      <3> SUFFICES ASSUME NEW i \in Slots, NEW j \in Slots, i < j, slots'[j].claimed PROVE slots'[i].claimed
        BY DEF ClaimedIsPrefix
      <3>1. CASE j = k
        BY <1>3, <2>4, <3>1
      <3>2. CASE j # k
        BY <2>3, <2>4, <3>2 DEF IInv, ClaimedIsPrefix
      <3> QED BY <3>1, <3>2
    <2>8. OneWriter'
      <3>1. slots[k].arena = NoArena
        BY <1>1, <1>5 DEF IInv, HoldersAreClaimed
      <3>2. \A u \in Threads : call[u].at = "publish" => call[u].index # k /\ call[u].index \in Slots
        BY <1>5 DEF IInv, OneWriter, CallsOwnArenas
      <3>3. ASSUME NEW u \in Threads, call'[u].at = "publish"
            PROVE  /\ slots'[call'[u].index].claimed /\ slots'[call'[u].index].arena = NoArena
                   /\ \A v \in Threads \ {u} : call'[v].at = "publish" => call'[v].index # call'[u].index
        <4>1. CASE u = t
          BY <2>3, <3>1, <3>2, <3>3, <4>1
        <4>2. CASE u # t
          BY <2>3, <3>1, <3>2, <3>3, <4>2 DEF IInv, OneWriter
        <4> QED BY <4>1, <4>2
      <3> QED BY <3>3 DEF OneWriter
    <2>9. ScannedAreClaimed'
      BY <1>1, <2>3, <2>4 DEF IInv, ScannedAreClaimed
    <2>10. CallsOwnArenas'
      BY <1>1, <2>3 DEF IInv, CallsOwnArenas
    <2> QED BY <2>2, <2>5, <2>6, <2>7, <2>8, <2>9, <2>10 DEF IInv
  <1> QED BY <1>4, <1>5

\* The winner fills its slot in, and its call returns.
LEMMA PublishKeeps ==
  ASSUME IInv, NEW t \in Threads, Publish(t), NEW k, k = call[t].index, NEW a, a = call[t].arena
  PROVE  IInv'
  <1>1. /\ TypeOK /\ call[t].at = "publish" /\ k \in Slots /\ a \in Arenas /\ a # NoArena
        /\ life[a] = "registering" /\ slots[k].claimed /\ slots[k].arena = NoArena
        /\ \A u \in Threads : u # t /\ call[u].at # "idle" => call[u].arena # a
        /\ \A u \in Threads : u # t /\ call[u].at = "publish" => call[u].index # k
    BY ArenaAssumption DEF IInv, CallsOwnArenas, OneWriter, Publish
  <1>2. /\ slots' = [slots EXCEPT ![k].arena = a]
        /\ life' = [life EXCEPT ![a] = "listed"]
        /\ call' = [call EXCEPT ![t] = Idle]
    BY DEF Publish
  <1>3. /\ \A u \in Threads : u # t => call'[u] = call[u]
        /\ call'[t].at = "idle"
        /\ \A i \in Slots : i # k => slots'[i] = slots[i]
        /\ slots'[k].claimed /\ slots'[k].arena = a /\ slots'[k].tombstone = slots[k].tombstone
        /\ life'[a] = "listed" /\ \A b \in Arenas : b # a => life'[b] = life[b]
    BY <1>1, <1>2 DEF TypeOK, Idle
  <1>4. TypeOK'
    <2>1. Idle \in [at : {"idle", "scan", "claim", "publish"}, index : 0 .. Count, arena : Arenas \cup {NoArena}]
      BY CountAssumption DEF Idle
    <2>2. [slots[k] EXCEPT !.arena = a] \in [claimed : BOOLEAN, arena : Arenas \cup {NoArena},
                                            named : BOOLEAN, tombstone : BOOLEAN]
      BY <1>1, Fields
    <2>3. slots' \in [Slots -> [claimed : BOOLEAN, arena : Arenas \cup {NoArena},
                                named : BOOLEAN, tombstone : BOOLEAN]]
      BY <1>1, <1>2, <2>2 DEF TypeOK
    <2> QED BY <1>1, <1>2, <2>1, <2>3 DEF TypeOK
  <1>5. ~slots[k].tombstone
    BY <1>1 DEF IInv, UnclaimedAreBlank
  <1>6. LiveListedOnce'
    <2> SUFFICES ASSUME NEW b \in Arenas
                 PROVE  IF life'[b] = "listed" THEN \E i \in Slots : \A j \in Slots : Live(j, b)' <=> j = i
                        ELSE \A i \in Slots : ~Live(i, b)'
      BY DEF LiveListedOnce
    <2>1. CASE b = a
      <3>1. \A j \in Slots : ~Live(j, a)
        BY <1>1 DEF IInv, LiveListedOnce
      <3>2. \A j \in Slots : Live(j, a)' <=> j = k
        BY <1>1, <1>3, <1>5, <3>1 DEF Live
      <3> QED BY <1>1, <1>3, <2>1, <3>2
    <2>2. CASE b # a
      <3>1. \A j \in Slots : Live(j, b)' <=> Live(j, b)
        BY <1>1, <1>3, <2>2, ArenaAssumption DEF Live
      <3> QED BY <1>3, <2>2, <3>1 DEF IInv, LiveListedOnce
    <2> QED BY <2>1, <2>2
  <1>7. /\ \A i \in Slots : slots[i].claimed = slots'[i].claimed
    BY <1>1, <1>2 DEF TypeOK
  <1>8. FullOnlyWhenFull' /\ ClaimedIsPrefix' /\ ScannedAreClaimed'
    BY <1>3, <1>7 DEF IInv, FullOnlyWhenFull, ClaimedIsPrefix, ScannedAreClaimed
  <1>9. UnclaimedAreBlank' /\ HoldersAreClaimed'
    BY <1>1, <1>3, <1>5 DEF IInv, UnclaimedAreBlank, HoldersAreClaimed
  <1>10. OneWriter'
    <2>1. \A u \in Threads : call'[u].at = "publish" => u # t /\ call'[u] = call[u] /\ call[u].index # k
                                                      /\ call[u].index \in Slots
      BY <1>1, <1>3 DEF IInv, CallsOwnArenas
    <2> QED BY <1>3, <2>1 DEF IInv, OneWriter
  <1>11. CallsOwnArenas'
    BY <1>1, <1>3 DEF IInv, CallsOwnArenas
  <1> QED BY <1>4, <1>6, <1>8, <1>9, <1>10, <1>11 DEF IInv

\* The scan ran off the end: every slot it passed is claimed.
LEMMA TooManyKeeps ==
  ASSUME IInv, NEW t \in Threads, TooMany(t), NEW a, a = call[t].arena
  PROVE  IInv'
  <1>1. /\ TypeOK /\ call[t].at = "scan" /\ call[t].index \notin Slots /\ slots' = slots
        /\ a \in Arenas /\ life[a] = "registering"
        /\ \A u \in Threads : u # t /\ call[u].at # "idle" => call[u].arena # a
        /\ life' = [life EXCEPT ![a] = "unlisted"] /\ call' = [call EXCEPT ![t] = Idle]
    BY DEF IInv, CallsOwnArenas, TooMany
  <1>2. TypeOK'
    <2>1. Idle \in [at : {"idle", "scan", "claim", "publish"}, index : 0 .. Count, arena : Arenas \cup {NoArena}]
      BY CountAssumption DEF Idle
    <2> QED BY <1>1, <2>1 DEF TypeOK
  <1>3. /\ \A u \in Threads : u # t => call'[u] = call[u]
        /\ call'[t].at = "idle"
        /\ life'[a] = "unlisted" /\ \A b \in Arenas : b # a => life'[b] = life[b]
    BY <1>1 DEF TypeOK, Idle
  <1>4. \A i \in Slots : slots[i].claimed
    <2>1. call[t].index = Count
      BY <1>1, Fields, CountAssumption DEF Slots
    <2>2. \A i \in Slots : i < call[t].index
      BY <2>1, CountAssumption DEF Slots
    <2> QED BY <1>1, <2>2 DEF IInv, ScannedAreClaimed
  <1>5. LiveListedOnce'
    BY <1>1, <1>3 DEF IInv, LiveListedOnce, Live
  <1>6. FullOnlyWhenFull' /\ ClaimedIsPrefix' /\ ScannedAreClaimed'
    BY <1>1, <1>3, <1>4 DEF IInv, FullOnlyWhenFull, ClaimedIsPrefix, ScannedAreClaimed
  <1>7. UnclaimedAreBlank' /\ HoldersAreClaimed'
    BY <1>1 DEF IInv, UnclaimedAreBlank, HoldersAreClaimed
  <1>8. OneWriter'
    <2>1. \A u \in Threads : call'[u].at = "publish" => u # t /\ call'[u] = call[u]
      BY <1>3
    <2> QED BY <1>1, <2>1 DEF IInv, OneWriter
  <1>9. CallsOwnArenas'
    BY <1>1, <1>3 DEF IInv, CallsOwnArenas
  <1> QED BY <1>2, <1>5, <1>6, <1>7, <1>8, <1>9 DEF IInv

\* A name changes nothing the invariant speaks of.
LEMMA NameKeeps ==
  ASSUME IInv, NEW t \in Threads, NEW a \in Arenas, RegisterName(t, a)
  PROVE  IInv'
  <1>1. PICK k \in Slots : slots' = [slots EXCEPT ![k].named = TRUE]
    BY DEF RegisterName
  <1>2. call' = call /\ life' = life /\ TypeOK
    BY DEF IInv, RegisterName
  <1>3. TypeOK'
    <2>1. [slots[k] EXCEPT !.named = TRUE] \in [claimed : BOOLEAN, arena : Arenas \cup {NoArena},
                                               named : BOOLEAN, tombstone : BOOLEAN]
      BY <1>2, Fields
    <2> QED BY <1>1, <1>2, <2>1 DEF TypeOK
  <1>4. \A i \in Slots : /\ slots'[i].claimed = slots[i].claimed /\ slots'[i].arena = slots[i].arena
                         /\ slots'[i].tombstone = slots[i].tombstone
    BY <1>1, <1>2 DEF TypeOK
  <1>5. LiveListedOnce'
    BY <1>2, <1>4 DEF IInv, LiveListedOnce, Live
  <1>6. /\ FullOnlyWhenFull' /\ ClaimedIsPrefix' /\ ScannedAreClaimed' /\ UnclaimedAreBlank'
        /\ HoldersAreClaimed' /\ CallsOwnArenas'
    BY <1>2, <1>4 DEF IInv, FullOnlyWhenFull, ClaimedIsPrefix, ScannedAreClaimed, UnclaimedAreBlank,
                      HoldersAreClaimed, CallsOwnArenas
  <1>7. OneWriter'
    BY <1>2, <1>4 DEF IInv, OneWriter, CallsOwnArenas
  <1> QED BY <1>3, <1>5, <1>6, <1>7 DEF IInv

\* Every slot of a freed arena becomes a tombstone.
LEMMA UnregisterKeeps ==
  ASSUME IInv, NEW t \in Threads, NEW a \in Arenas, Unregister(t, a)
  PROVE  IInv'
  <1>1. /\ TypeOK /\ life[a] \in {"listed", "unlisted"} /\ call' = call
        /\ life' = [life EXCEPT ![a] = "free"]
        /\ slots' = [i \in Slots |-> IF i \in Holding(a) THEN [slots[i] EXCEPT !.tombstone = TRUE] ELSE slots[i]]
        /\ a # NoArena
    BY ArenaAssumption DEF IInv, Unregister
  <1>2. TypeOK'
    <2>1. \A i \in Slots : [slots[i] EXCEPT !.tombstone = TRUE]
                             \in [claimed : BOOLEAN, arena : Arenas \cup {NoArena},
                                  named : BOOLEAN, tombstone : BOOLEAN]
      BY <1>1, Fields
    <2> QED BY <1>1, <2>1, Fields DEF TypeOK
  <1>3. /\ \A i \in Slots : slots'[i].claimed = slots[i].claimed /\ slots'[i].arena = slots[i].arena
        /\ life'[a] = "free" /\ \A b \in Arenas : b # a => life'[b] = life[b]
    BY <1>1 DEF TypeOK
  <1>8. \A i \in Slots : slots[i].arena # a => slots'[i] = slots[i]
    BY <1>1 DEF TypeOK, Holding
  <1>9. \A i \in Slots : slots[i].arena = a => slots'[i].tombstone
    BY <1>1 DEF TypeOK, Holding
  <1>4. LiveListedOnce'
    <2>1. \A j \in Slots : ~Live(j, a)'
      BY <1>3, <1>9 DEF Live
    <2>2. ASSUME NEW b \in Arenas, NEW j \in Slots, b # a
          PROVE  Live(j, b)' <=> Live(j, b)
      BY <1>3, <1>8, <2>2 DEF Live
    <2> QED BY <1>3, <2>1, <2>2 DEF IInv, LiveListedOnce
  <1>5. FullOnlyWhenFull' /\ ClaimedIsPrefix' /\ ScannedAreClaimed' /\ HoldersAreClaimed'
    <2>1. \A i \in Slots : slots'[i].claimed = slots[i].claimed /\ slots'[i].arena = slots[i].arena
      BY <1>3
    <2>2. \A b \in Arenas : life'[b] = "unlisted" => life[b] = "unlisted"
      BY <1>3
    <2> QED BY <1>1, <2>1, <2>2 DEF IInv, FullOnlyWhenFull, ClaimedIsPrefix, ScannedAreClaimed, HoldersAreClaimed
  <1>7. UnclaimedAreBlank'
    <2> SUFFICES ASSUME NEW i \in Slots, slots'[i].arena = NoArena PROVE ~slots'[i].tombstone
      BY DEF UnclaimedAreBlank
    <2>1. slots[i].arena = NoArena
      BY <1>3
    <2>2. ~slots[i].tombstone
      BY <2>1 DEF IInv, UnclaimedAreBlank
    <2> QED BY <1>1, <1>8, <2>1, <2>2
  <1>6. CallsOwnArenas' /\ OneWriter'
    BY <1>1, <1>3 DEF IInv, OneWriter, CallsOwnArenas
  <1> QED BY <1>2, <1>4, <1>5, <1>6, <1>7 DEF IInv

(***************************************************************************)
(* The theorems.                                                           *)
(***************************************************************************)

\* Every reachable state of the registry satisfies the inductive invariant,
\* with any number of threads racing for a table of any size.
THEOREM Invariance == Spec => []IInv
  <1>1. Init => IInv
    BY InitIInv
  <1>2. IInv /\ [Next]_vars => IInv'
    <2> SUFFICES ASSUME IInv, [Next]_vars PROVE IInv'
      OBVIOUS
    <2>1. ASSUME NEW t \in Threads, Scan(t) PROVE IInv'
      BY <2>1, ScanKeeps
    <2>2. ASSUME NEW t \in Threads, Claim(t) PROVE IInv'
      BY <2>2, ClaimKeeps
    <2>3. ASSUME NEW t \in Threads, Publish(t) PROVE IInv'
      BY <2>3, PublishKeeps
    <2>4. ASSUME NEW t \in Threads, TooMany(t) PROVE IInv'
      BY <2>4, TooManyKeeps
    <2>5. ASSUME NEW t \in Threads, NEW a \in Arenas,
                 BeginRegister(t, a) \/ RegisterName(t, a) \/ Unregister(t, a)
          PROVE  IInv'
      BY <2>5, BeginKeeps, NameKeeps, UnregisterKeeps
    <2>6. CASE UNCHANGED vars
      BY <2>6 DEF vars, IInv, TypeOK, LiveListedOnce, Live, FullOnlyWhenFull, ClaimedIsPrefix, OneWriter,
                  ScannedAreClaimed, CallsOwnArenas, UnclaimedAreBlank, HoldersAreClaimed
    <2> QED BY <2>1, <2>2, <2>3, <2>4, <2>5, <2>6 DEF Next
  <1> QED BY <1>1, <1>2, PTL DEF Spec

\* The table's slots, the calls and the arenas keep their types.
THEOREM TypeCorrect == Spec => []TypeOK
  <1>1. IInv => TypeOK
    BY DEF IInv
  <1> QED BY <1>1, Invariance, PTL

\* DebugSanityCheckArenaRegistration never fails: a registered arena is in
\* exactly one slot that is not a tombstone, and a freed address in none.
THEOREM ListedOnce == Spec => []LiveListedOnce
  <1>1. IInv => LiveListedOnce
    BY DEF IInv
  <1> QED BY <1>1, Invariance, PTL

\* "Too many arenas registered" is said only of a table with no free slot.
THEOREM FullMeansFull == Spec => []FullOnlyWhenFull
  <1>1. IInv => FullOnlyWhenFull
    BY DEF IInv
  <1> QED BY <1>1, Invariance, PTL

\* The compare-exchange gives every slot to one thread.
THEOREM WritersDisjoint == Spec => []OneWriter
  <1>1. IInv => OneWriter
    BY DEF IInv
  <1> QED BY <1>1, Invariance, PTL

\* The table never has a hole.
THEOREM NoHoles == Spec => []ClaimedIsPrefix
  <1>1. IInv => ClaimedIsPrefix
    BY DEF IInv
  <1> QED BY <1>1, Invariance, PTL

=============================================================================
