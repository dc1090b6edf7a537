--------------------------- MODULE FrameTablesProofs ---------------------------
(***************************************************************************)
(* What the threads that push samples and the window that shows them can   *)
(* rely on, for any number of threads, samples and slots: the bounds of the*)
(* buffer, the latest samples, and bars that fit the scale.                *)
(***************************************************************************)
EXTENDS FrameTables, DataInduction

(***************************************************************************)
(* The places of the ring.                                                 *)
(***************************************************************************)

\* The slot of the sample pushed d samples before the latest, below cursor a.
Spot(a, d) == (a + SampleSlots - 1 - d) % SampleSlots

LEMMA Division ==
  ASSUME NEW n \in Nat \ {0}, NEW x \in Nat
  PROVE  x % n \in 0 .. n - 1 /\ x \div n \in Int /\ x = n * (x \div n) + (x % n)
  <1>1. n \in Nat /\ n > 0
    OBVIOUS
  <1>2. x % n \in 0 .. n - 1
    BY <1>1, SMT
  <1>3. x \div n \in Int /\ x = n * (x \div n) + (x % n)
    BY <1>1, SMT
  <1> QED BY <1>2, <1>3

LEMMA RemaindersEqual ==
  ASSUME NEW n \in Nat \ {0}, NEW i \in Int, NEW j \in Int,
         NEW s \in 0 .. n - 1, NEW t \in 0 .. n - 1, n * i + s = n * j + t
  PROVE  s = t
  <1>1. n * (i - j) = t - s
    BY SMT
  <1>2. \A k \in Int : k >= 1 => n * k >= n
    BY SMT
  <1>3. \A k \in Int : k <= -1 => n * k <= -n
    BY SMT
  <1>4. i - j \in Int /\ (i - j >= 1 \/ i - j <= -1 \/ i - j = 0)
    BY SMT
  <1>5. CASE i - j >= 1
    BY <1>1, <1>2, <1>4, <1>5, SMT
  <1>6. CASE i - j <= -1
    BY <1>1, <1>3, <1>4, <1>6, SMT
  <1>7. CASE i - j = 0
    BY <1>1, <1>7, SMT
  <1> QED BY <1>4, <1>5, <1>6, <1>7

LEMMA RemainderOf ==
  ASSUME NEW n \in Nat \ {0}, NEW x \in Nat, NEW q \in Int, NEW r \in 0 .. n - 1, x = n * q + r
  PROVE  x % n = r
  <1>1. x % n \in 0 .. n - 1 /\ x \div n \in Int /\ x = n * (x \div n) + (x % n)
    BY Division
  <1>2. n * q + r = n * (x \div n) + (x % n)
    BY <1>1
  <1> QED BY <1>1, <1>2, RemaindersEqual

LEMMA Remainder ==
  ASSUME NEW n \in Nat \ {0}, NEW q \in {0, 1}, NEW r \in 0 .. n - 1
  PROVE  (n * q + r) % n = r
  <1>1. n * q + r \in Nat /\ q \in Int
    BY SMT
  <1> QED BY <1>1, RemainderOf

LEMMA SpotIs ==
  ASSUME NEW a \in 0 .. SampleSlots, NEW d \in 0 .. SampleSlots - 1
  PROVE  /\ d < a => Spot(a, d) = a - 1 - d
         /\ d >= a => Spot(a, d) = a + SampleSlots - 1 - d
  <1> USE HistogramAssumption
  <1>1. CASE d < a
    <2>1. a - 1 - d \in 0 .. SampleSlots - 1 /\ a + SampleSlots - 1 - d = SampleSlots * 1 + (a - 1 - d)
      BY <1>1, SMT
    <2>2. (SampleSlots * 1 + (a - 1 - d)) % SampleSlots = a - 1 - d
      BY <2>1, Remainder
    <2> QED BY <1>1, <2>1, <2>2 DEF Spot
  <1>2. CASE d >= a
    <2>1. a + SampleSlots - 1 - d \in 0 .. SampleSlots - 1
          /\ a + SampleSlots - 1 - d = SampleSlots * 0 + (a + SampleSlots - 1 - d)
      BY <1>2, SMT
    <2>2. (SampleSlots * 0 + (a + SampleSlots - 1 - d)) % SampleSlots = a + SampleSlots - 1 - d
      BY <2>1, Remainder
    <2> QED BY <1>2, <2>1, <2>2 DEF Spot
  <1> QED BY <1>1, <1>2, SMT

\* Wrapping the cursor leaves every sample at its place before it.
LEMMA WrapSpot ==
  ASSUME NEW d \in 0 .. SampleSlots - 1
  PROVE  Spot(0, d) = Spot(SampleSlots, d)
  <1>1. 0 \in 0 .. SampleSlots /\ SampleSlots \in 0 .. SampleSlots /\ d >= 0 /\ d < SampleSlots
    BY HistogramAssumption, SMT
  <1>2. Spot(0, d) = 0 + SampleSlots - 1 - d /\ Spot(SampleSlots, d) = SampleSlots - 1 - d
    BY <1>1, SpotIs
  <1> QED BY <1>1, <1>2, HistogramAssumption, SMT

\* A push moves every older sample one further from the cursor.
LEMMA PushSpot ==
  ASSUME NEW a \in 0 .. SampleSlots - 1
  PROVE  /\ Spot(a + 1, 0) = a
         /\ \A d \in 0 .. SampleSlots - 2 : Spot(a + 1, d + 1) = Spot(a, d) /\ Spot(a, d) # a
                                            /\ Spot(a, d) \in SlotsOf
  <1> USE HistogramAssumption
  <1>1. a \in 0 .. SampleSlots /\ a + 1 \in 0 .. SampleSlots /\ 0 \in 0 .. SampleSlots - 1 /\ 0 < a + 1
    BY SMT
  <1>2. Spot(a + 1, 0) = a + 1 - 1 - 0
    BY <1>1, SpotIs
  <1>3. ASSUME NEW d \in 0 .. SampleSlots - 2
        PROVE  Spot(a + 1, d + 1) = Spot(a, d) /\ Spot(a, d) # a /\ Spot(a, d) \in SlotsOf
    <2>1. d \in 0 .. SampleSlots - 1 /\ d + 1 \in 0 .. SampleSlots - 1
      BY SMT
    <2>2. CASE d < a
      <3>1. d + 1 < a + 1
        BY <2>2, SMT
      <3>2. Spot(a, d) = a - 1 - d /\ Spot(a + 1, d + 1) = a + 1 - 1 - (d + 1)
        BY <1>1, <2>1, <2>2, <3>1, SpotIs
      <3> QED BY <2>2, <3>2, SMT DEF SlotsOf
    <2>3. CASE d >= a
      <3>1. d + 1 >= a + 1
        BY <2>3, SMT
      <3>2. Spot(a, d) = a + SampleSlots - 1 - d /\ Spot(a + 1, d + 1) = a + 1 + SampleSlots - 1 - (d + 1)
        BY <1>1, <2>1, <2>3, <3>1, SpotIs
      <3> QED BY <2>3, <3>2, SMT DEF SlotsOf
    <2> QED BY <2>2, <2>3, SMT
  <1> QED BY <1>1, <1>2, <1>3, SMT

(***************************************************************************)
(* The inductive invariant.                                                *)
(***************************************************************************)

\* What DrawHistogram can have reached.
Passes == {"idle", "reset", "measure", "draw", "drawn"}
Draws == [at : Passes, slot : SlotsOf, max : Samples]

Types ==
    /\ samples \in [SlotsOf -> Samples]
    /\ at \in 0 .. SampleSlots
    /\ pushing \in [Writers -> [at : {"idle", "wrap", "push"}, sample : Samples]]
    /\ recent \in Seq(Samples) /\ Len(recent) <= SampleSlots
    /\ draw \in Draws

\* Whoever is inside a push holds the futex: there is one at most.
OnePusher == \A t \in Writers : pushing[t].at # "idle" => futex = t

\* While a reset runs nothing counts as pushed.
ResetForgets == draw.at = "reset" => recent = << >>

\* The samples pushed are before the cursor, the latest first.
Kept == \A k \in 1 .. Len(recent) : samples[Spot(at, Len(recent) - k)] = recent[k]

IInv == Types /\ OnePusher /\ PushedInBounds /\ ResetForgets /\ Kept

LEMMA InitIInv == Init => IInv
  <1>1. 0 \in 0 .. SampleSlots /\ 0 \in Samples /\ << >> \in Seq(Samples) /\ Len(<< >>) = 0 /\ 0 <= SampleSlots
    BY HistogramAssumption DEF Samples
  <1>2. 1 .. 0 = {}
    OBVIOUS
  <1>3. ASSUME Init PROVE IInv
    <2>1. Types
      <3>1. NotDrawing \in Draws
        BY HistogramAssumption DEF NotDrawing, SlotsOf, Samples, Passes, Draws
      <3> QED BY <1>1, <1>3, <3>1 DEF Init, HistogramInit, Types, NotPushing
    <2>2. OnePusher /\ PushedInBounds /\ ResetForgets
      BY <1>3 DEF Init, HistogramInit, OnePusher, PushedInBounds, ResetForgets, NotPushing, NotDrawing
    <2>3. Kept
      BY <1>1, <1>2, <1>3 DEF Init, HistogramInit, Kept
    <2> QED BY <2>1, <2>2, <2>3 DEF IInv
  <1> QED BY <1>3

LEMMA AcquireKeeps ==
  ASSUME IInv, NEW t \in Writers, NEW s \in Samples, Acquire(t, s)
  PROVE  IInv'
  <1>1. /\ pushing' = [pushing EXCEPT ![t] = [at |-> "wrap", sample |-> s]]
        /\ futex = NoWriter /\ futex' = t
        /\ UNCHANGED <<samples, at, draw, recent>>
    BY DEF Acquire, windowVars
  <1>2. Types'
    BY <1>1 DEF IInv, Types
  <1>3. \A u \in Writers : pushing[u].at = "idle"
    BY <1>1, HistogramAssumption DEF IInv, OnePusher
  <1>4. OnePusher' /\ PushedInBounds'
    BY <1>1, <1>3 DEF IInv, Types, OnePusher, PushedInBounds
  <1>5. ResetForgets' /\ Kept'
    BY <1>1 DEF IInv, ResetForgets, Kept
  <1> QED BY <1>2, <1>4, <1>5 DEF IInv

LEMMA WrapKeeps ==
  ASSUME IInv, NEW t \in Writers, Wrap(t)
  PROVE  IInv'
  <1>1. /\ pushing[t].at = "wrap"
        /\ pushing' = [pushing EXCEPT ![t].at = "push"]
        /\ UNCHANGED <<samples, futex, draw, recent>>
    BY DEF Wrap, windowVars
  <1>2. (at = SampleSlots /\ at' = 0) \/ (at # SampleSlots /\ at' = at)
    <2>1. at' = IF at = SampleSlots THEN 0 ELSE at
      BY DEF Wrap
    <2>2. CASE at = SampleSlots
      BY <2>1, <2>2
    <2>3. CASE at # SampleSlots
      BY <2>1, <2>3
    <2> QED BY <2>2, <2>3
  <1>3. at' \in 0 .. SampleSlots /\ at' < SampleSlots
    BY <1>2, HistogramAssumption DEF IInv, Types
  <1>4. Types'
    BY <1>1, <1>3 DEF IInv, Types
  <1>5. OnePusher'
    BY <1>1 DEF IInv, Types, OnePusher
  <1>6. PushedInBounds'
    BY <1>3 DEF PushedInBounds
  <1>7. ResetForgets'
    BY <1>1 DEF IInv, ResetForgets
  <1>8. Kept'
    <2>1. CASE at' = at
      BY <1>1, <2>1 DEF IInv, Kept
    <2>2. CASE at = SampleSlots /\ at' = 0
      <3>1. ASSUME NEW k \in 1 .. Len(recent) PROVE Len(recent) - k \in 0 .. SampleSlots - 1
        BY HistogramAssumption DEF IInv, Types
      <3>2. \A k \in 1 .. Len(recent) : Spot(0, Len(recent) - k) = Spot(SampleSlots, Len(recent) - k)
        BY <3>1, WrapSpot
      <3> QED BY <1>1, <2>2, <3>2 DEF IInv, Kept
    <2> QED BY <1>2, <2>1, <2>2
  <1> QED BY <1>4, <1>5, <1>6, <1>7, <1>8 DEF IInv

\* The samples before the cursor after a push that is counted.
LEMMA PushedKept ==
  ASSUME Types, Kept, NEW v \in Samples, at \in 0 .. SampleSlots - 1,
         samples' = [samples EXCEPT ![at] = v], at' = at + 1,
         recent' = Latest(Append(recent, v))
  PROVE  recent' \in Seq(Samples) /\ Len(recent') <= SampleSlots /\ Kept'
  <1> USE HistogramAssumption
  <1> DEFINE longer == Append(recent, v)
  <1>1. PICK n \in Nat : n = Len(recent) /\ n <= SampleSlots
    BY DEF Types
  <1>2. /\ longer \in Seq(Samples) /\ Len(longer) = n + 1 /\ longer[n + 1] = v
        /\ \A k \in 1 .. n : longer[k] = recent[k]
    BY <1>1 DEF Types
  <1>3. samples'[at] = v /\ \A i \in SlotsOf : i # at => samples'[i] = samples[i]
    BY DEF Types, SlotsOf
  <1>4. /\ Spot(at', 0) = at
        /\ \A d \in 0 .. SampleSlots - 2 : samples'[Spot(at', d + 1)] = samples[Spot(at, d)]
    BY <1>3, PushSpot
  <1>5. \A k \in 1 .. n : samples[Spot(at, n - k)] = recent[k]
    BY <1>1 DEF Kept
  <1> HIDE DEF longer
  <1>6. CASE n < SampleSlots
    <2>1. recent' = longer
      BY <1>2, <1>6 DEF Latest, longer
    <2>2. \A k \in 1 .. n : n - k \in 0 .. SampleSlots - 2 /\ n + 1 - k = (n - k) + 1
      BY <1>6, SMT
    <2>3. \A k \in 1 .. n : samples'[Spot(at', n + 1 - k)] = recent[k]
      BY <1>4, <1>5, <2>2
    <2>4. samples'[Spot(at', n + 1 - (n + 1))] = v
      BY <1>3, <1>4
    <2>5. \A k \in 1 .. n + 1 : k \in 1 .. n \/ k = n + 1
      BY SMT
    <2>6. \A k \in 1 .. n + 1 : samples'[Spot(at', n + 1 - k)] = longer[k]
      BY <1>2, <2>3, <2>4, <2>5
    <2>7. n + 1 <= SampleSlots
      <3>1. \A i, j \in Nat : i < j => i + 1 <= j
        OBVIOUS
      <3>2. n \in Nat /\ SampleSlots \in Nat
        BY DEF HistogramAssumption
      <3> QED BY <1>6, <3>1, <3>2
    <2>8. recent' \in Seq(Samples) /\ Len(recent') = n + 1
      BY <1>2, <2>1
    <2>9. Kept'
      BY <2>1, <2>6, <2>8 DEF Kept
    <2> QED BY <2>7, <2>8, <2>9
  <1>7. CASE n = SampleSlots
    <2>1. recent' = Tail(longer)
      BY <1>2, <1>7 DEF Latest, longer
    <2>2. /\ recent' \in Seq(Samples) /\ Len(recent') = n
          /\ \A k \in 1 .. n : recent'[k] = longer[k + 1]
      BY <1>2, <1>7, <2>1
    <2>3. \A k \in 1 .. n - 1 : /\ k + 1 \in 1 .. n /\ n - (k + 1) \in 0 .. SampleSlots - 2
                                /\ n - k = n - (k + 1) + 1
      BY <1>7, SMT
    <2>4. \A k \in 1 .. n - 1 : samples'[Spot(at', n - k)] = recent[k + 1]
      BY <1>4, <1>5, <2>3
    <2>5. samples'[Spot(at', n - n)] = v
      BY <1>3, <1>4
    <2>6. \A k \in 1 .. n : k \in 1 .. n - 1 \/ k = n
      BY SMT
    <2>7. \A k \in 1 .. n - 1 : recent'[k] = recent[k + 1]
      BY <1>2, <2>2, <2>3
    <2>8. recent'[n] = v
      BY <1>1, <1>2, <1>7, <2>2
    <2>9. \A k \in 1 .. n : samples'[Spot(at', n - k)] = recent'[k]
      BY <2>4, <2>5, <2>6, <2>7, <2>8
    <2> QED BY <1>1, <2>2, <2>9 DEF Kept
  <1> QED BY <1>1, <1>6, <1>7, SMT

LEMMA PushKeeps ==
  ASSUME IInv, NEW t \in Writers, Push(t)
  PROVE  IInv'
  <1> USE HistogramAssumption
  <1>1. /\ pushing[t].at = "push"
        /\ samples' = [samples EXCEPT ![at] = pushing[t].sample]
        /\ at' = at + 1
        /\ pushing' = [pushing EXCEPT ![t] = NotPushing]
        /\ draw' = draw
    BY DEF Push
  <1>2. at \in 0 .. SampleSlots - 1 /\ pushing[t].sample \in Samples /\ futex = t
    BY <1>1 DEF IInv, Types, PushedInBounds, OnePusher
  <1>3. /\ samples' \in [SlotsOf -> Samples] /\ at' \in 0 .. SampleSlots
        /\ pushing' \in [Writers -> [at : {"idle", "wrap", "push"}, sample : Samples]]
    <2>1. samples' \in [SlotsOf -> Samples]
      BY <1>1, <1>2 DEF IInv, Types
    <2>2. 0 \in Samples
      BY DEF Samples
    <2>3. pushing' \in [Writers -> [at : {"idle", "wrap", "push"}, sample : Samples]]
      BY <1>1, <2>2 DEF IInv, Types, NotPushing
    <2> QED BY <1>1, <1>2, <2>1, <2>3
  <1>4. \A u \in Writers : pushing'[u].at = "idle"
    <2>1. \A u \in Writers : u # t => pushing[u].at = "idle"
      BY <1>2 DEF IInv, OnePusher
    <2> QED BY <1>1, <2>1 DEF IInv, Types, NotPushing
  <1>5. OnePusher' /\ PushedInBounds'
    BY <1>4 DEF OnePusher, PushedInBounds
  <1>6. CASE draw.at = "reset"
    <2>1. recent' = << >>
      BY <1>6 DEF Push
    <2>2. << >> \in Seq(Samples) /\ Len(<< >>) = 0 /\ 1 .. 0 = {} /\ 0 <= SampleSlots
      OBVIOUS
    <2>3. Types' /\ Kept' /\ ResetForgets'
      BY <1>1, <1>3, <2>1, <2>2 DEF IInv, Types, Kept, ResetForgets
    <2> QED BY <1>5, <2>3 DEF IInv
  <1>7. CASE draw.at # "reset"
    <2>1. recent' = Latest(Append(recent, pushing[t].sample))
      BY <1>7 DEF Push
    <2>2. recent' \in Seq(Samples) /\ Len(recent') <= SampleSlots /\ Kept'
      BY <1>1, <1>2, <2>1, PushedKept DEF IInv
    <2>3. Types' /\ ResetForgets'
      BY <1>1, <1>3, <1>7, <2>2 DEF IInv, Types, ResetForgets
    <2> QED BY <1>5, <2>2, <2>3 DEF IInv
  <1> QED BY <1>6, <1>7

\* A pass stays what it is, or goes on to the next one.
LEMMA OnwardAt ==
  ASSUME NEW d \in Draws, NEW a \in Passes
  PROVE  /\ Onward(d, a) \in Draws
         /\ Onward(d, a).max = d.max
         /\ \/ Onward(d, a).at = d.at /\ Onward(d, a).slot = d.slot + 1
            \/ Onward(d, a).at = a /\ Onward(d, a).slot = 0 /\ d.slot = SampleSlots - 1
  <1>1. CASE d.slot < SampleSlots - 1
    <2>1. Onward(d, a) = [d EXCEPT !.slot = @ + 1]
      BY <1>1 DEF Onward
    <2>2. d.slot + 1 \in SlotsOf
      BY <1>1, HistogramAssumption DEF SlotsOf, Draws
    <2> QED BY <2>1, <2>2 DEF Draws
  <1>2. CASE ~(d.slot < SampleSlots - 1)
    <2>1. Onward(d, a) = [d EXCEPT !.at = a, !.slot = 0]
      BY <1>2 DEF Onward
    <2>2. 0 \in SlotsOf /\ d.slot = SampleSlots - 1
      BY <1>2, HistogramAssumption DEF SlotsOf, Draws
    <2> QED BY <2>1, <2>2 DEF Draws
  <1> QED BY <1>1, <1>2

LEMMA MeasuredIs ==
  ASSUME NEW d \in Draws, NEW v \in Samples
  PROVE  /\ Measured(d, v) \in Draws
         /\ Measured(d, v).at = d.at /\ Measured(d, v).slot = d.slot
         /\ v <= Measured(d, v).max /\ d.max <= Measured(d, v).max
  <1>1. PICK hi \in Samples : hi = (IF v > d.max THEN v ELSE d.max) /\ v <= hi /\ d.max <= hi
    BY HistogramAssumption DEF Samples, Draws
  <1>2. Measured(d, v) = [d EXCEPT !.max = hi]
    BY <1>1 DEF Measured
  <1> QED BY <1>1, <1>2 DEF Draws

\* The window's steps store nothing but zeros, and those while nothing counts.
LEMMA DrawKeeps ==
  ASSUME IInv, DrawHistogramStep
  PROVE  IInv'
  <1>1. at' = at /\ futex' = futex /\ pushing' = pushing
    BY DEF DrawHistogramStep, BeginDraw, ResetSample, MeasureSample, DrawSample, EndDraw
  <1>2. OnePusher' /\ PushedInBounds'
    BY <1>1 DEF IInv, OnePusher, PushedInBounds
  <1>0. draw \in Draws /\ samples \in [SlotsOf -> Samples]
    BY DEF IInv, Types
  <1>3. ASSUME recent' = << >>, samples' \in [SlotsOf -> Samples], draw' \in Draws
        PROVE  IInv'
    <2>1. << >> \in Seq(Samples) /\ Len(<< >>) = 0 /\ 1 .. 0 = {} /\ 0 <= SampleSlots
      BY HistogramAssumption
    <2>2. Types' /\ Kept' /\ ResetForgets'
      BY <1>1, <1>3, <2>1 DEF IInv, Types, Kept, ResetForgets
    <2> QED BY <1>2, <2>2 DEF IInv
  <1>4. ASSUME recent' = recent, samples' = samples, draw' \in Draws, draw'.at # "reset"
        PROVE  IInv'
    <2>1. Types' /\ Kept' /\ ResetForgets'
      BY <1>1, <1>4 DEF IInv, Types, Kept, ResetForgets
    <2> QED BY <1>2, <2>1 DEF IInv
  <1>5. CASE BeginDraw
    <2>1. CASE draw' = [draw EXCEPT !.at = "reset"] /\ recent' = << >>
      <3>1. draw' \in Draws /\ samples' = samples
        BY <1>0, <1>5, <2>1 DEF BeginDraw, Passes, Draws
      <3> QED BY <1>0, <1>3, <2>1, <3>1
    <2>2. CASE draw' = [draw EXCEPT !.at = "measure"] /\ UNCHANGED recent
      <3>1. draw' \in Draws /\ draw'.at = "measure" /\ samples' = samples
        BY <1>0, <1>5, <2>2 DEF BeginDraw, Passes, Draws
      <3> QED BY <1>4, <2>2, <3>1
    <2> QED BY <1>5, <2>1, <2>2 DEF BeginDraw
  <1>6. CASE ResetSample
    <2>1. /\ draw.at = "reset" /\ recent' = recent
          /\ draw' = Onward(draw, "measure")
          /\ samples' = [samples EXCEPT ![draw.slot] = 0]
      BY <1>6 DEF ResetSample
    <2>2. recent' = << >>
      BY <2>1 DEF IInv, ResetForgets
    <2>3. 0 \in Samples
      BY HistogramAssumption DEF Samples
    <2>4. samples' \in [SlotsOf -> Samples]
      BY <1>0, <2>1, <2>3
    <2>5. draw' \in Draws
      BY <1>0, <2>1, OnwardAt DEF Passes
    <2> QED BY <1>3, <2>2, <2>4, <2>5
  <1>7. CASE MeasureSample
    <2>1. /\ draw.at = "measure" /\ recent' = recent /\ samples' = samples
          /\ draw' = Onward(Measured(draw, samples[draw.slot]), "draw")
      BY <1>7 DEF MeasureSample
    <2>2. PICK v \in Samples : v = samples[draw.slot]
      BY <1>0 DEF Draws
    <2>3. PICK d \in Draws : d = Measured(draw, v) /\ d.at = "measure"
      BY <1>0, <2>1, MeasuredIs
    <2>4. Onward(d, "draw") \in Draws /\ Onward(d, "draw").at \in {"measure", "draw"}
      BY <2>3, OnwardAt DEF Passes
    <2>5. draw' \in Draws /\ draw'.at # "reset"
      BY <2>1, <2>2, <2>3, <2>4
    <2> QED BY <1>4, <2>1, <2>5
  <1>8. CASE DrawSample
    <2>1. /\ draw.at = "draw" /\ recent' = recent /\ samples' = samples
          /\ draw' = Onward(draw, "drawn")
      BY <1>8 DEF DrawSample
    <2>2. draw' \in Draws /\ draw'.at \in {"draw", "drawn"}
      BY <1>0, <2>1, OnwardAt DEF Passes
    <2> QED BY <1>4, <2>1, <2>2
  <1>9. CASE EndDraw
    <2>1. recent' = recent /\ samples' = samples /\ draw' = NotDrawing
      BY <1>9 DEF EndDraw
    <2>2. draw' \in Draws /\ draw'.at # "reset"
      BY <2>1, HistogramAssumption DEF NotDrawing, SlotsOf, Samples, Passes, Draws
    <2> QED BY <1>4, <2>1, <2>2
  <1> QED BY <1>5, <1>6, <1>7, <1>8, <1>9 DEF DrawHistogramStep

LEMMA NextKeeps == IInv /\ [Next]_vars => IInv'
  <1> SUFFICES ASSUME IInv, [Next]_vars PROVE IInv'
    OBVIOUS
  <1>1. CASE UNCHANGED histogramVars
    BY <1>1 DEF histogramVars, windowVars, IInv, Types, OnePusher, PushedInBounds, ResetForgets, Kept
  <1>2. CASE DrawHistogramStep
    BY <1>2, DrawKeeps
  <1>3. CASE WriterStep
    BY <1>3, AcquireKeeps, WrapKeeps, PushKeeps DEF WriterStep
  <1> QED BY <1>1, <1>2, <1>3 DEF Next, TrackCall, FrameEnd, vars

\* Whoever pushes writes inside the buffer, the latest samples are before the
\* cursor: the invariant the two theorems below rest on.
THEOREM HistogramInvariant == Spec => []IInv
  <1>1. Init => IInv
    BY InitIInv
  <1>2. IInv /\ [Next]_vars => IInv'
    BY NextKeeps
  <1> QED BY <1>1, <1>2, PTL DEF Spec

\* No sample is written behind the end of the buffer, for any number of threads
\* and of slots.
THEOREM PushesInBounds == Spec => []PushedInBounds
  <1>1. IInv => PushedInBounds
    BY DEF IInv
  <1> QED BY <1>1, HistogramInvariant, PTL

\* The latest samples are kept in order, whichever threads push them and
\* however often the ring has gone around.
THEOREM LatestAlwaysKept == Spec => []LatestKept
  <1>1. IInv => LatestKept
    <2> SUFFICES ASSUME IInv, NEW k \in DOMAIN recent
                 PROVE  samples[(at + SampleSlots - 1 - (Len(recent) - k)) % SampleSlots] = recent[k]
      BY DEF LatestKept
    <2>1. k \in 1 .. Len(recent)
      BY DEF IInv, Types
    <2>2. samples[Spot(at, Len(recent) - k)] = recent[k]
      BY <2>1 DEF IInv, Kept
    <2> QED BY <2>2 DEF Spot
  <1> QED BY <1>1, HistogramInvariant, PTL

(***************************************************************************)
(* The bars.                                                               *)
(***************************************************************************)

\* MaxCycles covers every slot the measuring pass has read, and the bar drawn last,
\* but for the slots that samples have come to since.
ScaleInv ==
    /\ bar \in [slot : SlotsOf, sample : Samples, of : Samples] /\ late \subseteq SlotsOf
    /\ draw.at = "idle" => draw.slot = 0
    /\ \A i \in SlotsOf : HasMeasured(i) => samples[i] <= draw.max \/ i \in late
    /\ BarsFitUnlessLate

\* A push leaves the window alone but for what is late.
LEMMA PushKeepsScale ==
  ASSUME IInv, ScaleInv, NEW t \in Writers, Push(t)
  PROVE  ScaleInv'
  <1> USE HistogramAssumption
  <1>1. /\ samples' = [samples EXCEPT ![at] = pushing[t].sample] /\ draw' = draw /\ bar' = bar
        /\ late' = IF HasMeasured(at) THEN late \cup {at} ELSE late
    BY DEF Push
  <1>2. at \in SlotsOf
    BY DEF Push, IInv, Types, PushedInBounds, SlotsOf
  <1>3. late \subseteq late' /\ late' \subseteq SlotsOf /\ (HasMeasured(at) => at \in late')
    BY <1>1, <1>2 DEF ScaleInv
  <1>4. \A i : HasMeasured(i)' <=> HasMeasured(i)
    BY <1>1 DEF HasMeasured
  <1>5. \A i \in SlotsOf : i # at => samples'[i] = samples[i]
    BY <1>1 DEF IInv, Types
  <1>6. ASSUME NEW i \in SlotsOf, HasMeasured(i)' PROVE samples'[i] <= draw'.max \/ i \in late'
    <2>1. CASE i = at
      BY <1>3, <1>4, <1>6, <2>1
    <2>2. CASE i # at
      BY <1>1, <1>3, <1>4, <1>5, <1>6, <2>2 DEF ScaleInv
    <2> QED BY <2>1, <2>2
  <1> QED BY <1>1, <1>3, <1>6 DEF ScaleInv, BarsFitUnlessLate

\* A pass begins with nothing measured, measures one slot more, and draws what it
\* has measured.
LEMMA DrawKeepsScale ==
  ASSUME IInv, ScaleInv, DrawHistogramStep
  PROVE  ScaleInv'
  <1> USE HistogramAssumption
  <1>0. /\ draw \in Draws /\ samples \in [SlotsOf -> Samples]
        /\ \A i \in SlotsOf : i \in Nat /\ i <= SampleSlots - 1 /\ samples[i] \in Nat
    BY DEF IInv, Types, SlotsOf, Samples
  <1>1. ASSUME bar' = bar, late' = late, draw'.at \in {"reset", "measure"}, draw'.slot = 0 \/ draw'.at = "reset"
        PROVE  ScaleInv'
    <2>1. \A i \in SlotsOf : ~HasMeasured(i)'
      BY <1>0, <1>1 DEF HasMeasured
    <2> QED BY <1>1, <2>1 DEF ScaleInv, BarsFitUnlessLate
  <1>2. CASE BeginDraw
    <2>1. PICK a \in {"reset", "measure"} : draw' = [draw EXCEPT !.at = a]
      BY <1>2 DEF BeginDraw
    <2>2. bar' = bar /\ late' = late /\ draw.slot = 0
      BY <1>2 DEF BeginDraw, ScaleInv
    <2>3. draw'.at = a /\ draw'.slot = 0
      BY <1>0, <2>1, <2>2 DEF Draws
    <2> QED BY <1>1, <2>2, <2>3
  <1>3. CASE ResetSample
    <2>1. draw.at = "reset" /\ draw' = Onward(draw, "measure") /\ bar' = bar /\ late' = late
      BY <1>3 DEF ResetSample
    <2>2. draw'.at = "reset" \/ (draw'.at = "measure" /\ draw'.slot = 0)
      BY <1>0, <2>1, OnwardAt DEF Passes
    <2> QED BY <1>1, <2>1, <2>2
  <1>4. CASE MeasureSample
    <2>1. PICK v \in Samples : v = samples[draw.slot]
      BY <1>0 DEF Draws
    <2>2. /\ draw.at = "measure" /\ draw' = Onward(Measured(draw, v), "draw")
          /\ bar' = bar /\ late' = late /\ samples' = samples
      BY <1>4, <2>1 DEF MeasureSample
    <2>3. PICK d \in Draws : /\ d = Measured(draw, v) /\ d.at = "measure" /\ d.slot = draw.slot
                             /\ v <= d.max /\ draw.max <= d.max
      BY <1>0, <2>2, MeasuredIs
    <2>4. /\ draw'.max = d.max
          /\ \/ draw'.at = "measure" /\ draw'.slot = draw.slot + 1
             \/ draw'.at = "draw" /\ draw.slot = SampleSlots - 1
      BY <2>2, <2>3, OnwardAt DEF Passes
    <2>5. draw.slot \in Nat /\ draw.max \in Nat /\ d.max \in Nat /\ v \in Nat
      BY <1>0, <2>3 DEF Draws, SlotsOf, Samples
    <2>6. ASSUME NEW i \in SlotsOf, HasMeasured(i)' PROVE samples'[i] <= draw'.max \/ i \in late'
      <3>1. i < draw.slot \/ i = draw.slot
        BY <1>0, <2>4, <2>5, <2>6 DEF HasMeasured
      <3>2. CASE i = draw.slot
        BY <2>1, <2>2, <2>3, <2>4, <3>2
      <3>3. CASE i < draw.slot
        <4>1. samples[i] <= draw.max \/ i \in late
          BY <2>2, <3>3 DEF ScaleInv, HasMeasured
        <4>2. samples[i] <= draw.max => samples[i] <= d.max
          BY <1>0, <2>3, <2>5
        <4> QED BY <2>2, <2>4, <4>1, <4>2
      <3> QED BY <3>1, <3>2, <3>3
    <2>7. draw'.at # "idle"
      BY <2>4
    <2> QED BY <2>2, <2>6, <2>7 DEF ScaleInv, BarsFitUnlessLate
  <1>5. CASE DrawSample
    <2>1. PICK v \in Samples, k \in SlotsOf : v = samples[k] /\ k = draw.slot
      BY <1>0 DEF Draws
    <2>2. /\ draw.at = "draw" /\ draw' = Onward(draw, "drawn") /\ late' = late /\ samples' = samples
          /\ bar' = IF v = 0 THEN bar ELSE [slot |-> k, sample |-> v, of |-> draw.max]
      BY <1>5, <2>1 DEF DrawSample
    <2>3. draw'.max = draw.max /\ (draw'.at = "draw" \/ draw'.at = "drawn")
      BY <1>0, <2>2, OnwardAt DEF Passes
    <2>4. \A i \in SlotsOf : samples[i] <= draw.max \/ i \in late
      BY <2>2 DEF ScaleInv, HasMeasured
    <2>5. draw.max \in Samples /\ draw.max \in Nat /\ v \in Nat
      BY <1>0 DEF Draws, Samples
    <2>6. /\ bar' \in [slot : SlotsOf, sample : Samples, of : Samples]
          /\ bar'.sample > bar'.of => bar'.slot \in late
      <3>1. CASE v = 0
        BY <2>2, <3>1 DEF ScaleInv, BarsFitUnlessLate
      <3>2. CASE v # 0
        <4>1. bar' = [slot |-> k, sample |-> v, of |-> draw.max]
          BY <2>2, <3>2
        <4>2. v > draw.max => k \in late
          BY <2>1, <2>4, <2>5
        <4> QED BY <2>5, <4>1, <4>2
      <3> QED BY <3>1, <3>2
    <2> QED BY <2>2, <2>3, <2>4, <2>6 DEF ScaleInv, BarsFitUnlessLate
  <1>6. CASE EndDraw
    <2>1. draw' = NotDrawing /\ bar' = NoBar /\ late' = {}
      BY <1>6 DEF EndDraw
    <2>2. \A i : ~HasMeasured(i)'
      BY <2>1 DEF NotDrawing, HasMeasured
    <2>3. NoBar \in [slot : SlotsOf, sample : Samples, of : Samples] /\ ~(NoBar.sample > NoBar.of)
      BY DEF NoBar, SlotsOf, Samples
    <2>4. draw'.slot = 0
      BY <2>1 DEF NotDrawing
    <2> QED BY <2>1, <2>2, <2>3, <2>4 DEF ScaleInv, BarsFitUnlessLate
  <1> QED BY <1>2, <1>3, <1>4, <1>5, <1>6 DEF DrawHistogramStep

LEMMA ScaleKept == IInv /\ ScaleInv /\ [Next]_vars => ScaleInv'
  <1> SUFFICES ASSUME IInv, ScaleInv, [Next]_vars PROVE ScaleInv'
    OBVIOUS
  <1>1. CASE UNCHANGED <<samples, windowVars>>
    BY <1>1 DEF windowVars, ScaleInv, HasMeasured, BarsFitUnlessLate
  <1>2. CASE \E t \in Writers : Wrap(t) \/ \E v \in Samples : Acquire(t, v)
    <2>1. UNCHANGED <<samples, windowVars>>
      BY <1>2 DEF Acquire, Wrap
    <2> QED BY <1>1, <2>1
  <1>3. CASE WriterStep
    BY <1>2, <1>3, PushKeepsScale DEF WriterStep
  <1>4. CASE DrawHistogramStep
    BY <1>4, DrawKeepsScale
  <1>5. UNCHANGED histogramVars => UNCHANGED <<samples, windowVars>>
    BY DEF histogramVars
  <1> QED BY <1>1, <1>3, <1>4, <1>5 DEF Next, TrackCall, FrameEnd, vars

\* What scales the bars, whoever pushes while they are measured and drawn.
THEOREM ScaleInvariant == Spec => []ScaleInv
  <1>1. Init => ScaleInv
    BY HistogramAssumption DEF Init, HistogramInit, ScaleInv, NotDrawing, NoBar, HasMeasured, BarsFitUnlessLate,
                               SlotsOf, Samples
  <1>2. IInv /\ ScaleInv /\ [Next]_vars => ScaleInv'
    BY ScaleKept
  <1> QED BY <1>1, <1>2, HistogramInvariant, PTL DEF Spec

\* A bar exceeds the graph, or is divided by zero, only when a sample came between
\* the pass that measures its slot and the pass that draws it, for any number of
\* threads, samples and slots.
THEOREM BarsAlwaysFit == Spec => []BarsFitUnlessLate
  <1>1. ScaleInv => BarsFitUnlessLate
    BY DEF ScaleInv
  <1> QED BY <1>1, ScaleInvariant, PTL

(***************************************************************************)
(* Types.                                                                  *)
(***************************************************************************)

\* Whatever the probe ends at, what it writes is a row.
LEMMA TrackKeepsTypes ==
  ASSUME CallsTypeOK, NEW caller \in Callers, NEW count \in Counts, TrackDrawCall(caller, count)
  PROVE  CallsTypeOK'
  <1> DEFINE Row == [caller : Callers \cup {NoCaller}, n : Counts \cup {0}, calls : Nat]
  <1>1. PICK row : drawCalls' = [drawCalls EXCEPT ![row] = Fill(@, caller, count)]
    BY DEF TrackDrawCall
  <1>2. \A r \in Row : Fill(r, caller, count) \in Row
    BY DEF Fill
  <1>3. drawCalls' \in [Rows -> Row]
    BY <1>1, <1>2 DEF CallsTypeOK
  <1>4. tracked' = [tracked EXCEPT ![<<NameOf[caller], count>>] = @ + 1]
    BY DEF TrackDrawCall
  <1>5. tracked' \in [Names \X Counts -> Nat]
    <2>1. \A k \in Names \X Counts : tracked[k] \in Nat
      BY DEF CallsTypeOK
    <2>2. \A k \in Names \X Counts : tracked'[k] \in Nat
      BY <1>4, <2>1 DEF CallsTypeOK
    <2> QED BY <1>4, <2>2 DEF CallsTypeOK
  <1>6. overwritten' \in BOOLEAN
    BY DEF TrackDrawCall
  <1> QED BY <1>3, <1>5, <1>6 DEF CallsTypeOK

LEMMA ResetTyped ==
  ASSUME drawCalls' = [i \in Rows |-> NullDrawCall],
         tracked' = [k \in Names \X Counts |-> 0], overwritten' = FALSE
  PROVE  CallsTypeOK'
  BY DEF CallsTypeOK, NullDrawCall

\* Both tables have the types their declarations give them, for any number of
\* callers, threads, rows and slots.
THEOREM TablesTyped == Spec => []TypeOK
  <1> DEFINE Futex == futex \in Writers \cup {NoWriter}
  <1>1. Init => CallsTypeOK /\ Futex
    <2>1. \A k \in Rows : NullDrawCall \in [caller : Callers \cup {NoCaller}, n : Counts \cup {0}, calls : Nat]
      BY DEF NullDrawCall
    <2>2. Init => drawCalls = [i \in Rows |-> NullDrawCall]
      BY DEF Init, NoCalls
    <2>3. Init => drawCalls \in [Rows -> [caller : Callers \cup {NoCaller}, n : Counts \cup {0}, calls : Nat]]
      BY <2>1, <2>2
    <2>4. Init => tracked \in [Names \X Counts -> Nat]
      BY DEF Init, NoCalls
    <2>5. Init => overwritten \in BOOLEAN
      BY DEF Init, NoCalls
    <2>6. Init => Futex
      BY DEF Init, HistogramInit
    <2> QED BY <2>3, <2>4, <2>5, <2>6 DEF CallsTypeOK
  <1>2. CallsTypeOK /\ [Next]_vars => CallsTypeOK'
    <2> SUFFICES ASSUME CallsTypeOK, [Next]_vars PROVE CallsTypeOK'
      OBVIOUS
    <2>1. CASE TrackCall
      BY <2>1, TrackKeepsTypes DEF TrackCall
    <2>2. CASE FrameEnd
      BY <2>2, ResetTyped DEF FrameEnd, ResetDrawCalls
    <2>3. CASE UNCHANGED callVars
      BY <2>3 DEF callVars, CallsTypeOK
    <2> QED BY <2>1, <2>2, <2>3 DEF Next, vars
  <1>3. Futex /\ [Next]_vars => Futex'
    BY DEF Next, vars, histogramVars, TrackCall, FrameEnd, DrawHistogramStep, BeginDraw, ResetSample,
           MeasureSample, DrawSample, EndDraw, WriterStep, Acquire, Wrap, Push
  <1>4. IInv /\ ScaleInv /\ CallsTypeOK /\ Futex => TypeOK
    BY DEF IInv, Types, ScaleInv, Passes, Draws, TypeOK, HistogramTypeOK
  <1> QED BY <1>1, <1>2, <1>3, <1>4, HistogramInvariant, ScaleInvariant, PTL DEF Spec

(***************************************************************************)
(* The draw calls.                                                         *)
(***************************************************************************)

\* There are finitely many rows, names and counts.
LEMMA CallsAreFinite == IsFiniteSet(Rows) /\ IsFiniteSet(Names \X Counts)
  <1>1. IsFiniteSet(Rows)
    BY CallerAssumption, FS_Interval DEF Rows
  <1>2. IsFiniteSet(Names)
    <2> DEFINE f == [c \in Callers |-> NameOf[c]]
    <2>1. f \in Surjection(Callers, Names)
      BY DEF Names, Surjection
    <2> HIDE DEF f
    <2> QED BY <2>1, CallerAssumption, FS_Surjection
  <1>3. IsFiniteSet(Names \X Counts)
    BY <1>2, CallerAssumption, FS_Product
  <1> QED BY <1>1, <1>3

\* The row a call is counted in, and the key it is counted under.
Counting(caller, count, row) ==
    /\ drawCalls' = [drawCalls EXCEPT ![row] = Fill(drawCalls[row], caller, count)]
    /\ tracked' = [tracked EXCEPT ![<<NameOf[caller], count>>] = @ + 1]
    /\ \/ overwritten'
       \/ /\ overwritten' = overwritten
          /\ drawCalls[row].caller = NoCaller \/ SameCall(drawCalls[row], caller, count)

\* Where the probing ends is a row; it is empty or the call's own unless the
\* table is full.
LEMMA TrackCounts ==
  ASSUME CallsTypeOK, NEW caller \in Callers, NEW count \in Counts, TrackDrawCall(caller, count)
  PROVE  \E row \in Rows : Counting(caller, count, row)
  <1> DEFINE probe(i) == (Home[caller] + i) % CallSlots
             ends == {i \in Rows : \/ drawCalls[probe(i)].caller = NoCaller
                                   \/ SameCall(drawCalls[probe(i)], caller, count)}
             row == IF ends = {} THEN Home[caller] ELSE probe(Min(ends))
  <1>1. \A i \in Rows : probe(i) \in Rows
    <2> SUFFICES ASSUME NEW i \in Rows PROVE probe(i) \in Rows
      OBVIOUS
    <2>1. Home[caller] + i \in Nat
      BY CallerAssumption DEF Rows
    <2> QED BY <2>1, CallerAssumption, Division DEF Rows
  <1>2. ends # {} => Min(ends) \in ends
    <2> SUFFICES ASSUME ends # {} PROVE Min(ends) \in ends
      OBVIOUS
    <2>1. ends \subseteq Nat
      BY DEF Rows
    <2> HIDE DEF ends
    <2>2. \E n \in ends : \A m \in ends : n <= m
      BY <2>1, LeastNumber
    <2> QED BY <2>2 DEF Min
  <1>3. row \in Rows
    <2>1. Home[caller] \in Rows
      BY CallerAssumption DEF Rows
    <2> QED BY <1>1, <1>2, <2>1
  <1>4. ends # {} => drawCalls[row].caller = NoCaller \/ SameCall(drawCalls[row], caller, count)
    BY <1>2
  <1>5. /\ drawCalls' = [drawCalls EXCEPT ![row] = Fill(drawCalls[row], caller, count)]
        /\ tracked' = [tracked EXCEPT ![<<NameOf[caller], count>>] = @ + 1]
        /\ overwritten' = (overwritten \/ ends = {})
    BY DEF TrackDrawCall
  <1> HIDE DEF row
  <1>6. overwritten' \/ (overwritten' = overwritten /\ ends # {})
    BY <1>5 DEF CallsTypeOK
  <1> QED BY <1>3, <1>4, <1>5, <1>6 DEF Counting

\* The tracked calls add up to naturals, and one call adds one.
LEMMA TrackedSum ==
  ASSUME CallsTypeOK, NEW caller \in Callers, NEW count \in Counts, NEW row \in Rows, Counting(caller, count, row)
  PROVE  TotalTracked' = TotalTracked + 1
  <1> DEFINE K == Names \X Counts
             k == <<NameOf[caller], count>>
  <1>1. k \in K
    BY DEF Names
  <1>2. tracked' = [tracked EXCEPT ![k] = @ + 1]
    BY DEF Counting
  <1>3. /\ \A x \in K : tracked[x] \in Int
        /\ \A x \in K \ {k} : tracked'[x] = tracked[x]
        /\ tracked'[k] = tracked[k] + 1
    BY <1>1, <1>2 DEF CallsTypeOK
  <1>4. \A x \in K : tracked'[x] \in Int
    BY <1>1, <1>3
  <1> HIDE DEF K, k
  <1>5. IsFiniteSet(K)
    BY CallsAreFinite DEF K
  <1>6. SumFunctionOnSet(tracked', K) = SumFunctionOnSet(tracked, K) + (tracked'[k] - tracked[k])
    BY <1>1, <1>3, <1>4, <1>5, SumUpdate
  <1>7. SumFunctionOnSet(tracked, K) \in Int
    BY <1>3, <1>5, SumInt
  <1>8. tracked[k] \in Int
    BY <1>1, <1>3
  <1> QED BY <1>3, <1>6, <1>7, <1>8 DEF TotalTracked, K

\* The row of the call counts one more, and no other row changes.
LEMMA RowCounts ==
  ASSUME CallsTypeOK, NEW caller \in Callers, NEW count \in Counts, NEW row \in Rows, Counting(caller, count, row)
  PROVE  /\ drawCalls'[row].caller = caller /\ drawCalls'[row].n = count
         /\ drawCalls'[row].calls = drawCalls[row].calls + 1
         /\ \A i \in Rows : i # row => drawCalls'[i] = drawCalls[i]
         /\ \A i \in Rows : drawCalls[i].calls \in Nat
  <1>1. drawCalls'[row] = [caller |-> caller, n |-> count, calls |-> drawCalls[row].calls + 1]
    BY DEF Counting, CallsTypeOK, Fill
  <1>2. \A i \in Rows : i # row => drawCalls'[i] = drawCalls[i]
    BY DEF Counting, CallsTypeOK
  <1>3. \A i \in Rows : drawCalls[i].calls \in Nat
    BY DEF CallsTypeOK
  <1> QED BY <1>1, <1>2, <1>3

LEMMA RowsSum ==
  ASSUME CallsTypeOK, NEW caller \in Callers, NEW count \in Counts, NEW row \in Rows, Counting(caller, count, row)
  PROVE  SumFunctionOnSet(CallsOfRow', Rows) = SumFunctionOnSet(CallsOfRow, Rows) + 1
  <1>1. /\ \A x \in Rows : CallsOfRow[x] \in Int
        /\ \A x \in Rows \ {row} : CallsOfRow'[x] = CallsOfRow[x]
        /\ CallsOfRow'[row] = CallsOfRow[row] + 1
    <2>1. /\ drawCalls'[row].calls = drawCalls[row].calls + 1
          /\ \A i \in Rows : i # row => drawCalls'[i] = drawCalls[i]
          /\ \A i \in Rows : drawCalls[i].calls \in Nat
      BY RowCounts
    <2> QED BY <2>1 DEF CallsOfRow
  <1>2. \A x \in Rows : CallsOfRow'[x] \in Int
    BY <1>1
  <1>3. SumFunctionOnSet(CallsOfRow', Rows) = SumFunctionOnSet(CallsOfRow, Rows) + (CallsOfRow'[row] - CallsOfRow[row])
    BY <1>1, <1>2, CallsAreFinite, SumUpdate
  <1>4. SumFunctionOnSet(CallsOfRow, Rows) \in Int /\ CallsOfRow[row] \in Int
    BY <1>1, CallsAreFinite, SumInt
  <1> QED BY <1>1, <1>3, <1>4

\* Nothing is counted in an empty row.
EmptyRows == \A i \in Rows : drawCalls[i].caller = NoCaller => drawCalls[i].calls = 0

\* A call adds one to the rows of its name and count, and nothing to others, if it
\* found a row that was empty or its own.
LEMMA RowsOfKey ==
  ASSUME CallsTypeOK, EmptyRows, NEW caller \in Callers, NEW count \in Counts, NEW row \in Rows,
         Counting(caller, count, row), ~overwritten', NEW k \in Names \X Counts
  PROVE  SumFunctionOnSet(CallsOf(k)', Rows)
           = SumFunctionOnSet(CallsOf(k), Rows) + (IF k = <<NameOf[caller], count>> THEN 1 ELSE 0)
  <1> DEFINE own == k = <<NameOf[caller], count>>
             old == drawCalls[row]
             new == drawCalls'[row]
  <1>1. new.caller = caller /\ new.n = count /\ new.calls = old.calls + 1 /\ old.calls \in Nat
    BY RowCounts
  <1>2. old.caller = NoCaller \/ SameCall(old, caller, count)
    BY DEF Counting
  <1>3. Spells(new, k) <=> own
    BY <1>1, CallerAssumption DEF Spells
  <1>4. old.caller = NoCaller => old.calls = 0 /\ ~Spells(old, k)
    BY DEF EmptyRows, Spells
  <1>5. old.caller # NoCaller => (Spells(old, k) <=> own)
    BY <1>2 DEF Spells, SameCall
  <1>6. CallsOf(k)[row] = (IF Spells(old, k) THEN old.calls ELSE 0)
    BY DEF CallsOf
  <1>7. CallsOf(k)'[row] = (IF Spells(new, k) THEN new.calls ELSE 0)
    BY DEF CallsOf, Spells
  <1>8. CallsOf(k)'[row] = CallsOf(k)[row] + (IF own THEN 1 ELSE 0) /\ CallsOf(k)[row] \in Int
    <2>1. new.calls = old.calls + 1
      BY <1>1
    <2> HIDE DEF own, new, old
    <2> QED BY <2>1, <1>1, <1>3, <1>4, <1>5, <1>6, <1>7
  <1>9. /\ \A x \in Rows : CallsOf(k)[x] \in Int
        /\ \A x \in Rows \ {row} : CallsOf(k)'[x] = CallsOf(k)[x]
    <2>1. /\ \A i \in Rows : i # row => drawCalls'[i] = drawCalls[i]
          /\ \A i \in Rows : drawCalls[i].calls \in Nat
      BY RowCounts
    <2> QED BY <2>1 DEF CallsOf, Spells
  <1>10. \A x \in Rows : CallsOf(k)'[x] \in Int
    BY <1>8, <1>9
  <1> HIDE DEF own
  <1>11. SumFunctionOnSet(CallsOf(k)', Rows) = SumFunctionOnSet(CallsOf(k), Rows) + (CallsOf(k)'[row] - CallsOf(k)[row])
    <2> HIDE DEF CallsOf
    <2> QED BY <1>9, <1>10, CallsAreFinite, SumUpdate
  <1> QED BY <1>8, <1>11 DEF own

\* The invariant of the draw calls.
CallsInv == CallsTypeOK /\ EmptyRows /\ CallsAddUp /\ RowsExact

\* An empty table has nothing to add up.
LEMMA NoCallsInv == NoCalls => CallsInv
  <1> SUFFICES ASSUME NoCalls PROVE CallsInv
    OBVIOUS
  <1>1. CallsTypeOK
    BY DEF CallsTypeOK, NoCalls, NullDrawCall
  <1>2. EmptyRows /\ (\A i \in Rows : CallsOfRow[i] = 0) /\ (\A k \in Names \X Counts : tracked[k] = 0)
    BY DEF NoCalls, NullDrawCall, EmptyRows, CallsOfRow
  <1>3. \A k \in Names \X Counts : \A i \in Rows : CallsOf(k)[i] = 0
    BY DEF NoCalls, NullDrawCall, CallsOf
  <1>4. CallsAddUp
    <2>1. SumFunctionOnSet(CallsOfRow, Rows) = 0 /\ SumFunctionOnSet(tracked, Names \X Counts) = 0
      BY <1>2, CallsAreFinite, SumZero
    <2> QED BY <2>1 DEF CallsAddUp, TotalTracked
  <1>5. RowsExact
    <2>1. ASSUME NEW k \in Names \X Counts PROVE SumFunctionOnSet(CallsOf(k), Rows) = 0
      BY <1>3, CallsAreFinite, SumZero
    <2> QED BY <1>2, <2>1 DEF RowsExact
  <1> QED BY <1>1, <1>2, <1>4, <1>5 DEF CallsInv

LEMMA TrackKeepsCalls ==
  ASSUME CallsInv, NEW caller \in Callers, NEW count \in Counts, TrackDrawCall(caller, count)
  PROVE  CallsInv'
  <1> USE DEF CallsInv
  <1>1. PICK row \in Rows : Counting(caller, count, row)
    BY TrackCounts
  <1>2. CallsTypeOK'
    BY TrackKeepsTypes
  <1>3. EmptyRows'
    <2>1. drawCalls'[row].caller = caller /\ \A i \in Rows : i # row => drawCalls'[i] = drawCalls[i]
      BY <1>1, RowCounts
    <2> QED BY <2>1, CallerAssumption DEF EmptyRows
  <1>4. CallsAddUp'
    <2>1. TotalTracked' = TotalTracked + 1
      BY <1>1, TrackedSum
    <2>2. SumFunctionOnSet(CallsOfRow', Rows) = SumFunctionOnSet(CallsOfRow, Rows) + 1
      BY <1>1, RowsSum
    <2> QED BY <2>1, <2>2 DEF CallsAddUp
  <1>5. RowsExact'
    <2> SUFFICES ASSUME ~overwritten', NEW k \in Names \X Counts
                 PROVE  SumFunctionOnSet(CallsOf(k)', Rows) = tracked'[k]
      BY DEF RowsExact
    <2>1. ~overwritten
      BY <1>1 DEF Counting
    <2>2. SumFunctionOnSet(CallsOf(k), Rows) = tracked[k]
      BY <2>1 DEF RowsExact
    <2>3. SumFunctionOnSet(CallsOf(k)', Rows)
            = SumFunctionOnSet(CallsOf(k), Rows) + (IF k = <<NameOf[caller], count>> THEN 1 ELSE 0)
      BY <1>1, RowsOfKey
    <2>4. tracked'[k] = tracked[k] + (IF k = <<NameOf[caller], count>> THEN 1 ELSE 0)
      <3>1. tracked' = [tracked EXCEPT ![<<NameOf[caller], count>>] = @ + 1]
        BY <1>1 DEF Counting
      <3>2. tracked \in [Names \X Counts -> Nat] /\ tracked[k] \in Nat
        BY DEF CallsTypeOK
      <3> QED BY <3>1, <3>2
    <2> QED BY <2>2, <2>3, <2>4
  <1> QED BY <1>2, <1>3, <1>4, <1>5

\* For any number of callers and rows, in every frame.
THEOREM CallsInvariant == Spec => []CallsInv
  <1>1. Init => CallsInv
    BY NoCallsInv DEF Init
  <1>2. CallsInv /\ [Next]_vars => CallsInv'
    <2> SUFFICES ASSUME CallsInv, [Next]_vars PROVE CallsInv'
      OBVIOUS
    <2>1. CASE TrackCall
      BY <2>1, TrackKeepsCalls DEF TrackCall
    <2>2. CASE FrameEnd
      <3>1. NoCalls'
        BY <2>2 DEF FrameEnd, ResetDrawCalls, NoCalls
      <3> QED BY <3>1, NoCallsInv, PTL
    <2>3. CASE UNCHANGED callVars
      BY <2>3 DEF callVars, CallsInv, CallsTypeOK, EmptyRows, CallsAddUp, RowsExact, CallsOf, CallsOfRow, Spells,
                  TotalTracked
    <2> QED BY <2>1, <2>2, <2>3 DEF Next, vars
  <1> QED BY <1>1, <1>2, PTL DEF Spec

\* No draw call of the frame is missing from the sum over the rows, nor counted
\* twice, even when rows are overwritten.
THEOREM CallsAlwaysAddUp == Spec => []CallsAddUp
  <1>1. CallsInv => CallsAddUp
    BY DEF CallsInv
  <1> QED BY CallsInvariant, <1>1, PTL

\* Until the table is full, the rows of a name and a count have exactly its calls,
\* whichever pointers spell the name and wherever their probing began.
THEOREM RowsAlwaysExact == Spec => []RowsExact
  <1>1. CallsInv => RowsExact
    BY DEF CallsInv
  <1> QED BY CallsInvariant, <1>1, PTL
=============================================================================
