--------------------------- MODULE MetaTableProofs ---------------------------
(***************************************************************************)
(* Proofs about MetaTable: however the owner's writes and another thread's *)
(* clears interleave, the table never claims more pushes than were made,   *)
(* and it accounts for every one of them until a record is torn.           *)
(*                                                                         *)
(* A write and a clear go on at the same time only for different arenas.   *)
(* The inductive invariant says what that is good for: what the probe found*)
(* is still there when the write goes by it, unless a record was torn; the *)
(* record about to be zeroed is of the arena being cleared; and the slots  *)
(* the scan has passed hold none of it.                                    *)
(***************************************************************************)
EXTENDS MetaTable, DataInduction

\* A record of an arena that is being cleared.
OfArena(r, a) == r.arena /\ r.name \in Keys /\ ArenaOf[r.name] = a

\* The calls under way: a key is written only while its arena is not cleared.
WriteInv ==
    write.at # "idle" =>
        /\ write.key \in Keys
        /\ pushes[write.key] < MaxPushes
        /\ ~Clearing(write.key)

\* What the probe found is still there when it is used.
CommitInv ==
    write.at = "commit" =>
        LET r == table[write.index] IN
        /\ r.name \in {NoKey, write.key}
        /\ r.name = write.key /\ ~r.arena => torn /\ r.count = 0

\* The slots the scan has passed have no record of the arena any more.
ClearInv ==
    /\ clear.at = "idle" \/ \A i \in Slots : i < clear.index => ~OfArena(table[i], clear.arena)
    /\ clear.at = "name" => clear.index \in Slots /\ OfArena(table[clear.index], clear.arena)
    /\ clear.at = "rest" => clear.index \in Slots /\ ~OfArena(table[clear.index], clear.arena)

\* A record is whole, but for the one that is being zeroed and what a torn one
\* leaves: no more than the push that was about to be counted.
RecordInv ==
    \A i \in Slots :
        /\ table[i].name = NoKey /\ table[i].arena => clear.at = "rest" /\ clear.index = i
        /\ ~table[i].arena => table[i].count <= 1

\* The sums.
CountInv ==
    \A k \in Keys :
        /\ Recorded(k) <= pushes[k] - lost[k]
        /\ torn \/ Clearing(k) \/ Recorded(k) = pushes[k] - lost[k]

IInv == TypeOK /\ WriteInv /\ CommitInv /\ ClearInv /\ RecordInv /\ CountInv

(***************************************************************************)
(* The sum over the table.                                                 *)
(***************************************************************************)

\* There are finitely many slots, and the next one of the probe is one.
LEMMA SlotsAreFinite == IsFiniteSet(Slots)
  BY SizeAssumption, FS_Interval DEF Slots

LEMMA SlotsWrap ==
  ASSUME NEW i \in Slots
  PROVE  (i + 1) % Size \in Slots
  BY SizeAssumption DEF Slots

\* What a record counts for is a natural, and so is the sum; no record counts
\* for more than the sum.
LEMMA RecordedIsNatural ==
  ASSUME TypeOK, NEW k
  PROVE  /\ \A i \in Slots : Counted(k)[i] \in Nat
         /\ Recorded(k) \in Nat
         /\ \A i \in Slots : Counted(k)[i] <= Recorded(k)
  <1>1. \A i \in Slots : Counted(k)[i] \in Nat
    BY SizeAssumption DEF TypeOK, Counted
  <1> QED BY <1>1, SlotsAreFinite, SumNat, SumAtLeast DEF Recorded

\* What a record adds to the sum of a key.
Worth(r, k) == IF Matches(r, k) THEN r.count ELSE 0

\* A step that changes one record changes the sum by the difference; a step that
\* changes none leaves it.
LEMMA RecordedUpdate ==
  ASSUME TypeOK, NEW e \in Slots, NEW r, table' = [table EXCEPT ![e] = r], r.count \in Nat, NEW k
  PROVE  Recorded(k)' = Recorded(k) + (Worth(r, k) - Worth(table[e], k))
  <1>1. \A i \in Slots \ {e} : Counted(k)'[i] = Counted(k)[i]
    BY DEF TypeOK, Counted
  <1>2. Counted(k)[e] = Worth(table[e], k) /\ Counted(k)'[e] = Worth(r, k)
    BY DEF TypeOK, Counted, Worth
  <1>3. \A i \in Slots : Counted(k)[i] \in Int /\ Counted(k)'[i] \in Int
    <2>1. Counted(k)'[e] \in Int
      BY <1>2 DEF Worth
    <2> QED BY <1>1, <2>1, RecordedIsNatural
  <1> HIDE DEF Counted
  <1>4. SumFunctionOnSet(Counted(k)', Slots) = SumFunctionOnSet(Counted(k), Slots) + (Counted(k)'[e] - Counted(k)[e])
    BY <1>1, <1>3, SlotsAreFinite, SumUpdate
  <1> QED BY <1>2, <1>4 DEF Recorded

LEMMA RecordedStays ==
  ASSUME UNCHANGED table, NEW k
  PROVE  Recorded(k)' = Recorded(k)
  BY DEF Recorded, Counted

(***************************************************************************)
(* The inductive invariant.                                                *)
(***************************************************************************)

Calls == [at : {"idle", "probe", "commit"}, key : Keys \cup {NoKey}, index : Slots]

\* A call that has returned is of its type.
LEMMA ReturnTyped == Return \in Calls
  BY SizeAssumption DEF Return, Calls, Slots

LEMMA InitIInv == Init => IInv
  <1> SUFFICES ASSUME Init PROVE IInv
    OBVIOUS
  <1>1. TypeOK
    <2>1. clear \in [at : {"idle", "scan", "name", "rest"}, arena : Arenas, index : 0 .. Size]
      BY SizeAssumption DEF Init
    <2>2. write \in [at : {"idle", "probe", "commit"}, key : Keys \cup {NoKey}, index : Slots]
      BY SizeAssumption DEF Init, Return, Slots
    <2>3. table \in [Slots -> [name : Keys \cup {NoKey}, arena : BOOLEAN, count : 0 .. MaxPushes]]
      BY SizeAssumption DEF Init, Empty
    <2>4. pushes \in [Keys -> 0 .. MaxPushes] /\ lost \in [Keys -> 0 .. MaxPushes]
      BY SizeAssumption DEF Init
    <2> QED BY <2>1, <2>2, <2>3, <2>4 DEF Init, TypeOK
  <1>2. WriteInv /\ CommitInv /\ ClearInv /\ RecordInv
    BY DEF Init, WriteInv, CommitInv, ClearInv, RecordInv, Empty, Return
  <1>3. ASSUME NEW k \in Keys
        PROVE  Recorded(k) = 0
    <2>1. \A i \in Slots : Counted(k)[i] = 0
      BY DEF Init, Counted, Empty
    <2> QED BY <2>1, SlotsAreFinite, SumZero DEF Recorded
  <1>4. CountInv
    BY <1>3 DEF Init, CountInv
  <1> QED BY <1>1, <1>2, <1>4 DEF IInv

LEMMA BeginWriteKeeps ==
  ASSUME IInv, NEW k \in Keys, BeginWrite(k)
  PROVE  IInv'
  <1> USE DEF IInv
  <1>1. TypeOK'
    BY KeyAssumption DEF BeginWrite, TypeOK
  <1>2. WriteInv' /\ CommitInv'
    BY DEF BeginWrite, WriteInv, CommitInv, Clearing, TypeOK
  <1>3. ClearInv' /\ RecordInv'
    BY DEF BeginWrite, ClearInv, RecordInv, OfArena
  <1>4. CountInv'
    BY RecordedStays DEF BeginWrite, CountInv, Clearing
  <1> QED BY <1>1, <1>2, <1>3, <1>4

LEMMA ProbeKeeps ==
  ASSUME IInv, Probe
  PROVE  IInv'
  <1> USE DEF IInv
  <1> DEFINE k == write.key
             found == table[write.index].name = NoKey \/ Matches(table[write.index], k)
             next == (write.index + 1) % Size
  <1>1. k \in Keys /\ pushes[k] < MaxPushes /\ ~Clearing(k) /\ write.index \in Slots /\ next \in Slots
    BY SlotsWrap DEF Probe, WriteInv, TypeOK
  <1>2. lost[k] <= pushes[k]
    BY <1>1, RecordedIsNatural DEF CountInv, TypeOK
  <1>3. \/ found /\ write' = [write EXCEPT !.at = "commit"] /\ UNCHANGED <<pushes, lost>>
        \/ write' = [write EXCEPT !.index = next] /\ UNCHANGED <<pushes, lost>>
        \/ /\ write' = Return
           /\ pushes' = [pushes EXCEPT ![k] = @ + 1]
           /\ lost' = [lost EXCEPT ![k] = @ + 1]
    BY DEF Probe
  <1>4. UNCHANGED <<table, clear, torn>> /\ write.at = "probe"
    BY DEF Probe
  <1> HIDE DEF k, found, next
  <1>5. TypeOK'
    <2>1. write' \in Calls
      <3>1. write \in Calls
        BY DEF TypeOK, Calls
      <3> HIDE DEF IInv
      <3> QED BY <3>1, <1>1, <1>3, ReturnTyped DEF Calls
    <2>2. pushes' \in [Keys -> 0 .. MaxPushes] /\ lost' \in [Keys -> 0 .. MaxPushes]
      BY <1>1, <1>2, <1>3, SizeAssumption DEF TypeOK
    <2> QED BY <2>1, <2>2, <1>4 DEF TypeOK, Calls
  <1>6. WriteInv'
    BY <1>1, <1>3, <1>4 DEF WriteInv, Clearing, TypeOK, Return, k
  <1>7. CommitInv'
    BY <1>3, <1>4, KeyAssumption, <1>1 DEF CommitInv, TypeOK, Return, found, Matches, k
  <1>8. ClearInv' /\ RecordInv'
    BY <1>4 DEF ClearInv, RecordInv, OfArena
  <1>9. CountInv'
    BY <1>1, <1>3, <1>4, RecordedStays DEF CountInv, TypeOK, Clearing
  <1> QED BY <1>5, <1>6, <1>7, <1>8, <1>9

LEMMA CommitKeeps ==
  ASSUME IInv, Commit
  PROVE  IInv'
  <1> USE DEF IInv
  <1> DEFINE k == write.key
             e == write.index
             more == [table[e] EXCEPT !.count = @ + 1]
             new == [name |-> k, arena |-> TRUE, count |-> 1]
             r == IF table[e].name # NoKey THEN more ELSE new
             Rec == [name : Keys \cup {NoKey}, arena : BOOLEAN, count : 0 .. MaxPushes]
  <1>1. k \in Keys /\ k # NoKey /\ pushes[k] < MaxPushes /\ ~Clearing(k) /\ e \in Slots
    BY KeyAssumption DEF Commit, WriteInv, TypeOK
  <1>2. table' = [table EXCEPT ![e] = r]
    BY <1>1 DEF Commit, TypeOK
  <1>3. pushes' = [pushes EXCEPT ![k] = @ + 1] /\ write' = Return /\ UNCHANGED <<clear, lost, torn>>
    BY DEF Commit
  <1>4. table[e] \in Rec /\ (table[e].name = k \/ table[e].name = NoKey)
    BY <1>1 DEF Commit, CommitInv, TypeOK
  <1>5. table[e].name = k /\ ~table[e].arena => torn /\ table[e].count = 0
    BY DEF Commit, CommitInv
  <1>6. table[e].name = k /\ table[e].arena => table[e].count <= pushes[k]
    <2> SUFFICES ASSUME table[e].name = k, table[e].arena PROVE table[e].count <= pushes[k]
      OBVIOUS
    <2>1. Counted(k)[e] <= Recorded(k) /\ Recorded(k) <= pushes[k] - lost[k] /\ Recorded(k) \in Nat
      BY <1>1, RecordedIsNatural DEF CountInv
    <2>2. Counted(k)[e] = table[e].count
      BY <1>1 DEF Counted, Matches
    <2> QED BY <2>1, <2>2, <1>1 DEF TypeOK
  <1>7. \/ table[e].name = NoKey /\ r = new
        \/ table[e].name = k /\ r = more
    BY <1>1, <1>4
  <1>8. new \in Rec /\ new.name = k /\ new.arena /\ new.count = 1
    BY <1>1, SizeAssumption DEF TypeOK
  <1>9. table[e].name = k => /\ more \in Rec
                             /\ more.name = k
                             /\ more.arena = table[e].arena
                             /\ more.count = table[e].count + 1
    <2> SUFFICES ASSUME table[e].name = k
                 PROVE  /\ more \in Rec
                        /\ more.name = k
                        /\ more.arena = table[e].arena
                        /\ more.count = table[e].count + 1
      OBVIOUS
    <2>1. table[e].count \in Nat /\ table[e].count < MaxPushes
      BY <1>1, <1>4, <1>5, <1>6, SizeAssumption DEF TypeOK
    <2> QED BY <2>1, <1>4, SizeAssumption
  <1>10. /\ r \in Rec
         /\ r.name = k
         /\ r.arena \/ (r.count = 1 /\ torn)
    <2> HIDE DEF r, new, more
    <2>1. CASE table[e].name = NoKey /\ r = new
      BY <2>1, <1>8
    <2>2. CASE table[e].name = k /\ r = more
      <3> HIDE DEF Rec
      <3>1. r \in Rec /\ r.name = k
        BY <2>2, <1>9
      <3>2. ~more.arena => more.count = 1 /\ torn
        BY <2>2, <1>5, <1>9
      <3> QED BY <3>1, <3>2, <2>2
    <2> QED BY <1>7, <2>1, <2>2
  <1>11. \A q \in Keys : Worth(r, q) - Worth(table[e], q) = IF q = k /\ r.arena THEN 1 ELSE 0
    <2> SUFFICES ASSUME NEW q \in Keys
                 PROVE  Worth(r, q) - Worth(table[e], q) = IF q = k /\ r.arena THEN 1 ELSE 0
      OBVIOUS
    <2>1. q # NoKey /\ table[e].count \in Nat
      BY <1>4, KeyAssumption
    <2> HIDE DEF r, new, more, k
    <2>2. CASE table[e].name = NoKey /\ r = new
      BY <2>1, <2>2, <1>8 DEF Worth, Matches
    <2>3. CASE table[e].name = k /\ r = more
      BY <2>1, <2>3, <1>9 DEF Worth, Matches
    <2> QED BY <1>7, <2>2, <2>3
  <1>12. table'[e] = r /\ \A i \in Slots : i # e => table'[i] = table[i]
    BY <1>1, <1>2 DEF TypeOK
  <1> HIDE DEF r, k, e, new, more
  <1>13. TypeOK'
    <2> HIDE DEF IInv
    <2>1. /\ table \in [Slots -> Rec]
          /\ pushes \in [Keys -> 0 .. MaxPushes]
      BY DEF IInv, TypeOK
    <2>2. table' \in [Slots -> Rec]
      <3> HIDE DEF Rec
      <3> QED BY <2>1, <1>1, <1>2, <1>10
    <2>3. write' \in Calls
      BY <1>3, ReturnTyped
    <2>4. pushes' \in [Keys -> 0 .. MaxPushes]
      <3>1. pushes[k] + 1 \in 0 .. MaxPushes
        BY <2>1, <1>1, SizeAssumption
      <3> QED BY <2>1, <3>1, <1>1, <1>3
    <2> QED BY <2>2, <2>3, <2>4, <1>3 DEF TypeOK, IInv, Calls
  <1>14. WriteInv' /\ CommitInv'
    BY <1>3 DEF WriteInv, CommitInv, Return
  <1>15. ClearInv'
    <2>1. clear.at # "idle" => ~OfArena(r, clear.arena) /\ ~OfArena(table[e], clear.arena)
      BY <1>1, <1>4, <1>10, KeyAssumption DEF OfArena, Clearing
    <2> QED BY <1>1, <1>3, <1>12, <2>1 DEF ClearInv, OfArena
  <1>16. RecordInv'
    BY <1>1, <1>3, <1>10, <1>12 DEF RecordInv
  <1>17. CountInv'
    <2> SUFFICES ASSUME NEW q \in Keys
                 PROVE  /\ Recorded(q)' <= pushes'[q] - lost'[q]
                        /\ torn' \/ Clearing(q)' \/ Recorded(q)' = pushes'[q] - lost'[q]
      BY DEF CountInv
    <2>1. Recorded(q)' = Recorded(q) + (Worth(r, q) - Worth(table[e], q))
      <3>1. r.count \in Nat
        BY <1>10, SizeAssumption
      <3> HIDE DEF Rec
      <3> QED BY <3>1, <1>1, <1>2, RecordedUpdate
    <2>2. Recorded(q)' = Recorded(q) + (IF q = k /\ r.arena THEN 1 ELSE 0)
      BY <1>11, <2>1
    <2>3. Recorded(q) \in Nat /\ pushes[q] \in Nat /\ lost[q] \in Nat
      BY RecordedIsNatural DEF TypeOK
    <2>4. pushes'[q] = (IF q = k THEN pushes[q] + 1 ELSE pushes[q]) /\ lost'[q] = lost[q]
      BY <1>3 DEF TypeOK
    <2>5. torn' = torn /\ (Clearing(q)' <=> Clearing(q))
      BY <1>3 DEF Clearing
    <2> QED BY <1>10, <2>2, <2>3, <2>4, <2>5 DEF CountInv
  <1> QED BY <1>13, <1>14, <1>15, <1>16, <1>17

LEMMA BeginClearKeeps ==
  ASSUME IInv, NEW a \in Arenas, BeginClear(a)
  PROVE  IInv'
  <1> USE DEF IInv
  <1>1. clear' = [at |-> "scan", arena |-> a, index |-> 0] /\ UNCHANGED <<table, write, pushes, lost, torn>>
    BY DEF BeginClear
  <1>2. TypeOK'
    BY <1>1, SizeAssumption DEF TypeOK
  <1>3. WriteInv' /\ CommitInv'
    BY <1>1 DEF BeginClear, WriteInv, CommitInv, Clearing
  <1>4. ClearInv' /\ RecordInv'
    <2>1. \A i \in Slots : ~(i < 0)
      BY DEF Slots
    <2> QED BY <1>1, <2>1 DEF BeginClear, ClearInv, RecordInv, OfArena
  <1>5. CountInv'
    BY <1>1, RecordedStays DEF BeginClear, CountInv, Clearing
  <1> QED BY <1>2, <1>3, <1>4, <1>5

LEMMA ScanKeeps ==
  ASSUME IInv, Scan
  PROVE  IInv'
  <1> USE DEF IInv
  <1> DEFINE e == clear.index
  <1>1. e \in Slots /\ e \in Nat /\ e + 1 \in 0 .. Size /\ clear.at = "scan"
    BY SizeAssumption DEF Scan, Slots
  <1>2. UNCHANGED <<table, write, pushes, lost, torn>>
    BY DEF Scan
  <1>3. \/ OfArena(table[e], clear.arena) /\ clear' = [clear EXCEPT !.at = "name"]
        \/ ~OfArena(table[e], clear.arena) /\ clear' = [clear EXCEPT !.index = e + 1]
    <2>1. table[e].name = NoKey => ~table[e].arena
      BY <1>1 DEF RecordInv
    <2>2. table[e].name \in Keys \cup {NoKey}
      BY <1>1 DEF TypeOK
    <2> QED BY <2>1, <2>2 DEF Scan, OfArena
  <1>4. clear'.arena = clear.arena /\ clear'.at \in {"scan", "name"}
    BY <1>1, <1>3 DEF TypeOK
  <1>5. TypeOK'
    BY <1>1, <1>2, <1>3 DEF TypeOK
  <1>6. WriteInv' /\ CommitInv'
    BY <1>1, <1>2, <1>4 DEF WriteInv, CommitInv, Clearing
  <1>7. ClearInv'
    <2>1. CASE OfArena(table[e], clear.arena) /\ clear' = [clear EXCEPT !.at = "name"]
      BY <1>1, <1>2, <2>1 DEF ClearInv, TypeOK, OfArena
    <2>2. CASE ~OfArena(table[e], clear.arena) /\ clear' = [clear EXCEPT !.index = e + 1]
      <3>1. clear'.at = "scan" /\ clear'.index = e + 1
        BY <1>1, <2>2 DEF TypeOK
      <3>2. \A i \in Slots : i < e + 1 => i < e \/ i = e
        BY <1>1 DEF Slots
      <3> QED BY <1>1, <1>2, <1>4, <2>2, <3>1, <3>2 DEF ClearInv, OfArena
    <2> QED BY <1>3, <2>1, <2>2
  <1>8. RecordInv'
    BY <1>1, <1>2 DEF RecordInv
  <1>9. CountInv'
    BY <1>1, <1>2, <1>4, RecordedStays DEF CountInv, Clearing
  <1> QED BY <1>5, <1>6, <1>7, <1>8, <1>9

\* Both halves of the zeroing: one record comes to count for less, and only for
\* a key that is being cleared, or a record is torn.
LEMMA LessRecorded ==
  ASSUME IInv, NEW e \in Slots, NEW r, table' = [table EXCEPT ![e] = r], r.count \in Nat, ~Matches(r, r.name) \/ r.name = NoKey,
         UNCHANGED <<pushes, lost>>, \A k \in Keys : Clearing(k)' <=> Clearing(k), torn => torn',
         \A k \in Keys : Matches(table[e], k) => torn' \/ Clearing(k)
  PROVE  CountInv'
  <1> USE DEF IInv
  <1> SUFFICES ASSUME NEW k \in Keys
               PROVE  /\ Recorded(k)' <= pushes[k] - lost[k]
                      /\ torn' \/ Clearing(k)' \/ Recorded(k)' = pushes[k] - lost[k]
    BY DEF CountInv
  <1>1. Worth(r, k) = 0
    BY KeyAssumption DEF Worth, Matches
  <1>2. Worth(table[e], k) \in Nat /\ (~Matches(table[e], k) => Worth(table[e], k) = 0)
    BY SizeAssumption DEF Worth, TypeOK
  <1>3. Recorded(k)' = Recorded(k) - Worth(table[e], k)
    <2>1. Recorded(k)' = Recorded(k) + (Worth(r, k) - Worth(table[e], k))
      BY RecordedUpdate
    <2> QED BY <1>1, <1>2, <2>1, RecordedIsNatural
  <1>4. Recorded(k) \in Nat /\ pushes[k] - lost[k] \in Int
    BY RecordedIsNatural DEF TypeOK
  <1>5. Recorded(k) <= pushes[k] - lost[k] /\ (torn \/ Clearing(k) \/ Recorded(k) = pushes[k] - lost[k])
    BY DEF CountInv
  <1> QED BY <1>2, <1>3, <1>4, <1>5

LEMMA ZeroNameKeeps ==
  ASSUME IInv, ZeroName
  PROVE  IInv'
  <1> USE DEF IInv
  <1> DEFINE e == clear.index
             r == [table[e] EXCEPT !.name = NoKey]
             Rec == [name : Keys \cup {NoKey}, arena : BOOLEAN, count : 0 .. MaxPushes]
  <1>1. e \in Slots /\ clear.at = "name" /\ OfArena(table[e], clear.arena)
    BY DEF ZeroName, ClearInv
  <1>2. table' = [table EXCEPT ![e] = r] /\ UNCHANGED <<write, pushes, lost, torn>>
    BY <1>1 DEF ZeroName, TypeOK
  <1>3. table[e] \in Rec
    BY <1>1 DEF TypeOK
  <1>4. r \in Rec /\ r.name = NoKey /\ r.arena /\ r.count = table[e].count
    BY <1>1, <1>3 DEF OfArena
  <1>5. table'[e] = r /\ \A i \in Slots : i # e => table'[i] = table[i]
    BY <1>1, <1>2 DEF TypeOK
  <1>6. clear' = [clear EXCEPT !.at = "rest"] /\ clear'.at = "rest" /\ clear'.arena = clear.arena /\ clear'.index = e
    BY DEF ZeroName, TypeOK
  <1> HIDE DEF r, e
  <1>7. TypeOK'
    BY <1>1, <1>2, <1>4, <1>6 DEF TypeOK
  <1>8. WriteInv'
    BY <1>1, <1>2, <1>6 DEF WriteInv, Clearing
  <1>9. CommitInv'
    <2> SUFFICES ASSUME write.at = "commit" PROVE CommitInv'
      BY <1>2 DEF CommitInv
    <2>1. CASE write.index = e
      BY <1>2, <1>4, <1>5, <2>1, KeyAssumption DEF CommitInv, WriteInv
    <2>2. CASE write.index # e
      BY <1>2, <1>5, <2>2 DEF CommitInv, TypeOK
    <2> QED BY <2>1, <2>2
  <1>10. ClearInv'
    BY <1>1, <1>4, <1>5, <1>6, KeyAssumption DEF ClearInv, OfArena, e
  <1>11. RecordInv'
    BY <1>1, <1>4, <1>5, <1>6 DEF RecordInv
  <1>12. CountInv'
    <2>1. r.count \in Nat
      BY <1>4, SizeAssumption
    <2>2. \A k \in Keys : (Clearing(k)' <=> Clearing(k)) /\ (Matches(table[e], k) => Clearing(k))
      BY <1>1, <1>6 DEF Clearing, Matches, OfArena
    <2> QED BY <1>1, <1>2, <1>4, <2>1, <2>2, LessRecorded
  <1> QED BY <1>7, <1>8, <1>9, <1>10, <1>11, <1>12

LEMMA ZeroRestKeeps ==
  ASSUME IInv, ZeroRest
  PROVE  IInv'
  <1> USE DEF IInv
  <1> DEFINE e == clear.index
             r == [table[e] EXCEPT !.arena = FALSE, !.count = 0]
             Rec == [name : Keys \cup {NoKey}, arena : BOOLEAN, count : 0 .. MaxPushes]
  <1>1. e \in Slots /\ e \in Nat /\ e + 1 \in 0 .. Size /\ clear.at = "rest" /\ ~OfArena(table[e], clear.arena)
    BY SizeAssumption DEF ZeroRest, ClearInv, Slots
  <1>2. table' = [table EXCEPT ![e] = r] /\ UNCHANGED <<write, pushes, lost>>
    BY <1>1 DEF ZeroRest, TypeOK
  <1>3. table[e] \in Rec
    BY <1>1 DEF TypeOK
  <1>4. r \in Rec /\ r.name = table[e].name /\ r.arena = FALSE /\ r.count = 0
    <2>1. r.name = table[e].name /\ r.arena = FALSE /\ r.count = 0
      BY <1>3
    <2>2. 0 \in 0 .. MaxPushes
      BY SizeAssumption
    <2>3. r \in Rec
      BY <1>3, <2>2
    <2> QED BY <2>1, <2>3
  <1>5. table'[e] = r /\ \A i \in Slots : i # e => table'[i] = table[i]
    BY <1>1, <1>2 DEF TypeOK
  <1>6. /\ clear' = [clear EXCEPT !.at = "scan", !.index = e + 1]
        /\ clear'.at = "scan" /\ clear'.arena = clear.arena /\ clear'.index = e + 1
    BY DEF ZeroRest, TypeOK
  <1>7. torn' = (torn \/ table[e].name # NoKey)
    BY DEF ZeroRest
  <1>8. torn' \in BOOLEAN
    BY <1>7
  <1> HIDE DEF r, e
  <1>9. TypeOK'
    BY <1>1, <1>2, <1>4, <1>6, <1>8 DEF TypeOK
  <1>10. WriteInv'
    BY <1>1, <1>2, <1>6 DEF WriteInv, Clearing
  <1>11. CommitInv'
    <2> SUFFICES ASSUME write.at = "commit" PROVE CommitInv'
      BY <1>2 DEF CommitInv
    <2>1. CASE write.index = e
      <3>1. table[e].name \in {NoKey, write.key} /\ write.key # NoKey
        BY <2>1, KeyAssumption DEF CommitInv, WriteInv
      <3>2. table[e].name = write.key => torn'
        BY <3>1, <1>7
      <3> QED BY <1>2, <1>4, <1>5, <2>1, <3>1, <3>2 DEF CommitInv
    <2>2. CASE write.index # e
      BY <1>2, <1>5, <1>7, <2>2 DEF CommitInv, TypeOK
    <2> QED BY <2>1, <2>2
  <1>12. ClearInv'
    <2>1. \A i \in Slots : i < e + 1 => i < e \/ i = e
      BY <1>1 DEF Slots
    <2> QED BY <1>1, <1>4, <1>5, <1>6, <2>1 DEF ClearInv, OfArena, e
  <1>13. RecordInv'
    BY <1>1, <1>4, <1>5, <1>6 DEF RecordInv, e
  <1>14. CountInv'
    <2>1. r.count \in Nat /\ ~Matches(r, r.name)
      BY <1>4 DEF Matches
    <2>2. \A k \in Keys : (Clearing(k)' <=> Clearing(k)) /\ (Matches(table[e], k) => torn')
      BY <1>1, <1>6, <1>7, KeyAssumption DEF Clearing, Matches
    <2> QED BY <1>1, <1>2, <1>7, <2>1, <2>2, LessRecorded
  <1> QED BY <1>9, <1>10, <1>11, <1>12, <1>13, <1>14

LEMMA EndClearKeeps ==
  ASSUME IInv, EndClear
  PROVE  IInv'
  <1> USE DEF IInv
  <1>1. /\ clear.at = "scan" /\ clear.index = Size /\ clear' = [clear EXCEPT !.at = "idle", !.index = 0]
        /\ clear'.at = "idle" /\ UNCHANGED <<table, write, torn>>
    BY SizeAssumption DEF EndClear, TypeOK, Slots
  <1>2. \A k \in Keys : /\ pushes'[k] = IF ArenaOf[k] = clear.arena THEN 0 ELSE pushes[k]
                        /\ lost'[k] = IF ArenaOf[k] = clear.arena THEN 0 ELSE lost[k]
    BY DEF EndClear
  <1>3. TypeOK'
    <2>1. pushes' \in [Keys -> 0 .. MaxPushes] /\ lost' \in [Keys -> 0 .. MaxPushes]
      BY SizeAssumption DEF EndClear, TypeOK
    <2>2. clear' \in [at : {"idle", "scan", "name", "rest"}, arena : Arenas, index : 0 .. Size]
      <3>1. clear' = [at |-> "idle", arena |-> clear.arena, index |-> 0]
        BY <1>1 DEF TypeOK
      <3>2. clear.arena \in Arenas /\ 0 \in 0 .. Size
        BY SizeAssumption DEF TypeOK
      <3> QED BY <3>1, <3>2
    <2> QED BY <1>1, <2>1, <2>2 DEF TypeOK
  <1>4. WriteInv'
    BY <1>1, <1>2 DEF WriteInv, Clearing
  <1>5. CommitInv' /\ ClearInv' /\ RecordInv'
    BY <1>1 DEF CommitInv, ClearInv, RecordInv
  <1>6. ASSUME NEW k \in Keys, ArenaOf[k] = clear.arena
        PROVE  Recorded(k) = 0
    <2>1. \A i \in Slots : ~OfArena(table[i], clear.arena)
      BY <1>1, SizeAssumption DEF ClearInv, Slots
    <2>2. \A i \in Slots : Counted(k)[i] = 0
      BY <1>6, <2>1 DEF Counted, Matches, OfArena
    <2> QED BY <2>2, SlotsAreFinite, SumZero DEF Recorded
  <1>7. CountInv'
    <2> SUFFICES ASSUME NEW k \in Keys
                 PROVE  Recorded(k)' <= pushes'[k] - lost'[k] /\ (torn' \/ Clearing(k)' \/ Recorded(k)' = pushes'[k] - lost'[k])
      BY DEF CountInv
    <2>1. Recorded(k)' = Recorded(k) /\ torn' = torn /\ ~Clearing(k)'
      BY <1>1, RecordedStays DEF Clearing
    <2>2. CASE ArenaOf[k] = clear.arena
      BY <1>2, <1>6, <2>1, <2>2
    <2>3. CASE ArenaOf[k] # clear.arena
      BY <1>2, <2>1, <2>3 DEF CountInv, Clearing
    <2> QED BY <2>2, <2>3
  <1> QED BY <1>3, <1>4, <1>5, <1>7

\* Every state of the table, with the two calls under way at any point of their
\* loops, satisfies the invariant.
THEOREM TableInvariant == Spec => []IInv
  <1>1. IInv /\ [Next]_vars => IInv'
    <2> SUFFICES ASSUME IInv, [Next]_vars PROVE IInv'
      OBVIOUS
    <2>1. ASSUME NEW k \in Keys, BeginWrite(k) PROVE IInv'
      BY <2>1, BeginWriteKeeps
    <2>2. CASE Writer
      BY <2>2, ProbeKeeps, CommitKeeps DEF Writer
    <2>3. ASSUME NEW a \in Arenas, BeginClear(a) PROVE IInv'
      BY <2>3, BeginClearKeeps
    <2>4. CASE Clearer
      BY <2>4, ScanKeeps, ZeroNameKeeps, ZeroRestKeeps, EndClearKeeps DEF Clearer
    <2>5. CASE UNCHANGED vars
      <3>1. UNCHANGED <<table, write, clear, pushes, lost, torn>>
        BY <2>5 DEF vars
      <3>2. TypeOK' /\ WriteInv' /\ CommitInv' /\ ClearInv' /\ RecordInv'
        BY <3>1 DEF IInv, TypeOK, WriteInv, CommitInv, ClearInv, RecordInv, OfArena, Clearing
      <3>3. CountInv'
        BY <3>1, RecordedStays DEF IInv, CountInv, Clearing
      <3> QED BY <3>2, <3>3 DEF IInv
    <2> QED BY <2>1, <2>2, <2>3, <2>4, <2>5 DEF Next
  <1> QED BY InitIInv, <1>1, PTL DEF Spec

(***************************************************************************)
(* What follows from it.                                                   *)
(***************************************************************************)

\* The probe and the scan stay within the table, and no counter outgrows the
\* pushes that were made.
THEOREM TableTypeOK == Spec => []TypeOK
  <1>1. IInv => TypeOK
    BY DEF IInv
  <1> QED BY TableInvariant, <1>1, PTL

\* A table never claims more than was pushed, whatever the clears of other
\* threads leave half done, and nothing is left of an arena that was cleared.
THEOREM NeverOvercountsAlways == Spec => []NeverOvercounts
  <1>1. IInv => NeverOvercounts
    BY DEF IInv, CountInv, NeverOvercounts
  <1> QED BY TableInvariant, <1>1, PTL

\* Until a record is torn every push is in the table exactly once, or was
\* discarded because the table was full.
THEOREM ExactAlways == Spec => []ExactUnlessTorn
  <1>1. IInv => ExactUnlessTorn
    BY DEF IInv, CountInv, ExactUnlessTorn
  <1> QED BY TableInvariant, <1>1, PTL
==============================================================================
