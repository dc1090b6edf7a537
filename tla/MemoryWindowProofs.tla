--------------------------- MODULE MemoryWindowProofs --------------------------
(***************************************************************************)
(* Proofs about the memory window, for any number of arenas, blocks and    *)
(* records: that its sort sorts, what clicks, and other threads that free  *)
(* and allocate arenas, cannot do to its selection and its list, and what  *)
(* it collates from the tables of all threads.                             *)
(***************************************************************************)
EXTENDS MemoryWindow, DataInduction

(***************************************************************************)
(* The sort.  The comparison looks the wrong way round for half of the     *)
(* rounds.  What holds is this: the first round leaves the smallest record *)
(* on top; each later round finds the rows above the outer one in order    *)
(* with a smallest record last, inserts the outer row among them, which    *)
(* pushes a smallest record down to the outer row, and then has nothing    *)
(* left to swap.                                                           *)
(***************************************************************************)

SortTypeOK ==
    /\ rows \in Seq(Record) /\ packed \in Seq(Record)
    /\ outer \in Nat \ {0} /\ inner \in Nat \ {0}
    /\ outer <= Len(rows) + 1
    /\ outer <= Len(rows) => inner <= Len(rows)

Size(k) == GetAllocationSize(rows[k])

\* The rows the outer loop has left behind are in order.
PrefixInOrder ==
    \A k, l \in 1 .. Len(rows) : k <= l /\ l < outer => Size(k) >= Size(l)

\* Row m is a smallest one.
Least(m) == \A k \in 1 .. Len(rows) : Size(m) <= Size(k)

\* Where a smallest record is: above the outer row until the inner loop has come
\* there, in the outer row from then on.
LeastAbove == 1 < outer /\ (inner < outer \/ Len(rows) < outer) => Least(outer - 1)
LeastReached == 1 < outer /\ outer <= Len(rows) /\ outer <= inner => Least(outer)

\* What the inner loop has passed of the rows above, or in the first round of all
\* rows, is not smaller than the outer row.
PassedAreLarger ==
    \A k \in 1 .. Len(rows) :
        outer <= Len(rows) /\ k < inner /\ (k < outer \/ outer = 1) => Size(outer) <= Size(k)

SortInv ==
    /\ SortTypeOK
    /\ PrefixInOrder /\ LeastAbove /\ LeastReached /\ PassedAreLarger
    /\ RowsPermuted

\* Sizes can be compared.
LEMMA SizesAreNumbers ==
  ASSUME SortTypeOK
  PROVE  \A k \in 1 .. Len(rows) : rows[k] \in Record /\ Size(k) \in Nat
  <1>1. \A k \in 1 .. Len(rows) : rows[k] \in Record
    BY DEF SortTypeOK
  <1>2. \A r \in Record : GetAllocationSize(r) \in Nat
    <2>1. \A r \in Record : r.shape[1] \in Nat /\ r.shape[2] \in Nat /\ r.pushes \in Nat
      <3>1. Shapes \cup {<<0, 0>>} \subseteq Nat \X Nat
        BY WindowAssumption
      <3>2. \A r \in Record : r.shape \in Shapes \cup {<<0, 0>>} /\ r.pushes \in Nat
        BY DEF Record
      <3>3. \A x \in Nat \X Nat : x[1] \in Nat /\ x[2] \in Nat
        OBVIOUS
      <3> HIDE DEF Record
      <3> QED BY <3>1, <3>2, <3>3
    <2>2. \A m, n \in Nat : m * n \in Nat
      OBVIOUS
    <2>3. \A r \in Record : r.shape[1] * r.shape[2] \in Nat
      BY <2>1, <2>2
    <2> QED BY <2>1, <2>2, <2>3 DEF GetAllocationSize
  <1> QED BY <1>1, <1>2 DEF Size

\* What swapping two elements of a sequence, or of a function, does.
LEMMA SwapPointwise ==
  ASSUME NEW S, NEW s \in Seq(S), NEW i \in 1 .. Len(s), NEW j \in 1 .. Len(s)
  PROVE  /\ Swapped(s, i, j) \in Seq(S)
         /\ Len(Swapped(s, i, j)) = Len(s)
         /\ Swapped(s, i, j)[i] = s[j] /\ Swapped(s, i, j)[j] = s[i]
         /\ \A k \in 1 .. Len(s) : k # i /\ k # j => Swapped(s, i, j)[k] = s[k]
  BY DEF Swapped

LEMMA SwapPlaces ==
  ASSUME NEW n \in Nat, NEW f \in Places(n), NEW i \in 1 .. n, NEW j \in 1 .. n
  PROVE  /\ Swapped(f, i, j) \in Places(n)
         /\ Swapped(f, i, j)[i] = f[j] /\ Swapped(f, i, j)[j] = f[i]
         /\ \A k \in 1 .. n : k # i /\ k # j => Swapped(f, i, j)[k] = f[k]
  BY DEF Swapped, Places

\* The rows after the outer and the inner one have changed places.
LEMMA SwappedRows ==
  ASSUME SortTypeOK, outer \in 1 .. Len(rows), inner \in 1 .. Len(rows),
         rows' = Swapped(rows, outer, inner)
  PROVE  /\ rows'[outer] = rows[inner] /\ rows'[inner] = rows[outer]
         /\ \A k \in 1 .. Len(rows) : k # outer /\ k # inner => rows'[k] = rows[k]
  <1>1. rows \in Seq(Record)
    BY DEF SortTypeOK
  <1>2. /\ Swapped(rows, outer, inner)[outer] = rows[inner] /\ Swapped(rows, outer, inner)[inner] = rows[outer]
        /\ \A k \in 1 .. Len(rows) : k # outer /\ k # inner => Swapped(rows, outer, inner)[k] = rows[k]
    BY <1>1 DEF Swapped
  <1> QED BY <1>2

\* The loops begin.
LEMMA SortBegun == packed \in Seq(Record) /\ SortBegins(packed) => SortInv
  <1> SUFFICES ASSUME packed \in Seq(Record), SortBegins(packed) PROVE SortInv
    OBVIOUS
  <1>1. rows \in Seq(Record) /\ packed = rows /\ outer = 1 /\ inner = 1
    BY DEF SortBegins
  <1>2. Len(rows) \in Nat
    BY <1>1
  <1>3. SortTypeOK
    BY <1>1, <1>2 DEF SortTypeOK
  <1>4. PrefixInOrder /\ LeastAbove /\ LeastReached /\ PassedAreLarger
    BY <1>1, <1>2 DEF PrefixInOrder, LeastAbove, LeastReached, PassedAreLarger
  <1>5. RowsPermuted
    <2> DEFINE f == [i \in 1 .. Len(packed) |-> i]
    <2>1. f \in Places(Len(packed))
      BY DEF Places
    <2>2. \A i \in 1 .. Len(packed) : f[i] = i
      OBVIOUS
    <2> HIDE DEF f
    <2> QED BY <1>1, <2>1, <2>2 DEF RowsPermuted
  <1> QED BY <1>3, <1>4, <1>5 DEF SortInv

\* One comparison, on the sizes: the rows are as they were, or the outer row was
\* larger and has changed places with the inner one.
LEMMA CompareOutcome ==
  ASSUME SortTypeOK, SortStep
  PROVE  /\ SortTypeOK'
         /\ Len(rows') = Len(rows) /\ packed' = packed
         /\ outer \in 1 .. Len(rows) /\ inner \in 1 .. Len(rows)
         /\ \/ rows' = rows /\ Size(outer) <= Size(inner)
            \/ rows' = Swapped(rows, outer, inner) /\ Size(outer) > Size(inner)
  <1>1. outer \in 1 .. Len(rows) /\ inner \in 1 .. Len(rows) /\ Len(rows) \in Nat
    BY DEF SortTypeOK, SortStep, Sorting
  <1>2. Size(outer) \in Nat /\ Size(inner) \in Nat
    BY <1>1, SizesAreNumbers
  <1>3. \/ rows' = rows /\ Size(outer) <= Size(inner)
        \/ rows' = Swapped(rows, outer, inner) /\ Size(outer) > Size(inner)
    BY <1>2 DEF SortStep, Compare, Size
  <1>4. rows' \in Seq(Record) /\ Len(rows') = Len(rows)
    BY <1>1, <1>3, SwapPointwise DEF SortTypeOK
  <1>5. SortTypeOK'
    BY <1>1, <1>4 DEF SortTypeOK, SortStep
  <1> QED BY <1>1, <1>3, <1>4, <1>5 DEF SortStep

\* The rows stay the packed records in another order.
LEMMA PermutedStays ==
  ASSUME SortTypeOK, RowsPermuted, SortStep
  PROVE  RowsPermuted'
  <1>1. PICK f \in Places(Len(packed)) :
          /\ Len(rows) = Len(packed)
          /\ \A i, j \in 1 .. Len(packed) : f[i] = f[j] => i = j
          /\ \A i \in 1 .. Len(packed) : rows[i] = packed[f[i]]
    BY DEF RowsPermuted
  <1>2. CASE rows' = rows
    BY <1>1, <1>2, CompareOutcome DEF RowsPermuted
  <1>3. CASE rows' = Swapped(rows, outer, inner)
    <2> DEFINE n == Len(packed)
               g == Swapped(f, outer, inner)
    <2>1. n \in Nat /\ outer \in 1 .. n /\ inner \in 1 .. n /\ packed' = packed /\ Len(rows') = n
      BY <1>1, CompareOutcome DEF SortTypeOK
    <2>2. /\ g \in Places(n) /\ g[outer] = f[inner] /\ g[inner] = f[outer]
          /\ \A k \in 1 .. n : k # outer /\ k # inner => g[k] = f[k]
      BY <1>1, <2>1, SwapPlaces
    <2>3. /\ rows'[outer] = rows[inner] /\ rows'[inner] = rows[outer]
          /\ \A k \in 1 .. n : k # outer /\ k # inner => rows'[k] = rows[k]
      BY <1>1, <1>3, <2>1, SwappedRows
    <2> HIDE DEF n, g
    <2>4. \A i, j \in 1 .. n : g[i] = g[j] => i = j
      BY <1>1, <2>1, <2>2 DEF n
    <2>5. \A i \in 1 .. n : rows'[i] = packed[g[i]]
      BY <1>1, <2>1, <2>2, <2>3 DEF n
    <2> QED BY <2>1, <2>2, <2>4, <2>5 DEF RowsPermuted, n
  <1> QED BY <1>2, <1>3, CompareOutcome

\* The order of the sizes s of n records when the loops are at i and j ...
Ordered(n, i, j, s) ==
    /\ \A k, l \in 1 .. n : k <= l /\ l < i => s[k] >= s[l]
    /\ 1 < i /\ j < i => \A k \in 1 .. n : s[i - 1] <= s[k]
    /\ 1 < i /\ i <= j => \A k \in 1 .. n : s[i] <= s[k]
    /\ \A k \in 1 .. n : k < j /\ (k < i \/ i = 1) => s[i] <= s[k]

\* ... and what a comparison makes of them.
Compared(n, i, j, s, t) ==
    /\ \A k \in 1 .. n : s[k] \in Nat /\ t[k] \in Nat
    /\ \/ /\ \A k \in 1 .. n : t[k] = s[k]
          /\ s[i] <= s[j]
       \/ /\ t[i] = s[j] /\ t[j] = s[i]
          /\ \A k \in 1 .. n : k # i /\ k # j => t[k] = s[k]
          /\ s[i] > s[j]

\* The heart of it: comparing with one more record keeps the order.
LEMMA Insertion ==
  ASSUME NEW n \in Nat, NEW i \in 1 .. n, NEW j \in 1 .. n, NEW s, NEW t,
         Ordered(n, i, j, s), Compared(n, i, j, s, t)
  PROVE  Ordered(n, i, j + 1, t)
  <1> USE DEF Ordered, Compared
  <1>1. CASE i = 1
    BY <1>1
  <1>2. CASE 1 < i /\ i <= j
    <2>1. \A k \in 1 .. n : t[k] = s[k]
      BY <1>2
    <2> QED BY <1>2, <2>1
  <1>3. CASE j < i
    <2>0. 1 < i /\ i - 1 \in 1 .. n
      BY <1>3
    <2>1. CASE s[i] <= s[j]
      <3>1. \A k \in 1 .. n : t[k] = s[k]
        BY <2>1, <1>3
      <3>2. j = i - 1 => s[i] <= s[i - 1]
        BY <2>1
      <3>3. j = i - 1 => \A k \in 1 .. n : s[i] <= s[k]
        BY <1>3, <2>0, <3>2
      <3> QED BY <1>3, <2>0, <2>1, <3>1, <3>3
    <2>2. CASE s[i] > s[j]
      <3>1. /\ t[i] = s[j] /\ t[j] = s[i]
            /\ \A k \in 1 .. n : k # i /\ k # j => t[k] = s[k]
        BY <2>2, <1>3
      <3>2. \A k, l \in 1 .. n : k <= l /\ l < i => t[k] >= t[l]
        BY <1>3, <2>2, <3>1
      <3>3. \A k \in 1 .. n : s[i - 1] <= s[k]
        BY <1>3, <2>0
      <3>4. j + 1 < i => \A k \in 1 .. n : t[i - 1] <= t[k]
        BY <1>3, <2>0, <2>2, <3>1, <3>3
      <3>5. i <= j + 1 => \A k \in 1 .. n : t[i] <= t[k]
        BY <1>3, <2>0, <2>2, <3>1, <3>3
      <3>6. \A k \in 1 .. n : k <= j => t[i] <= t[k]
        BY <1>3, <2>2, <3>1
      <3> QED BY <1>3, <2>0, <3>2, <3>4, <3>5, <3>6
    <2> QED BY <2>1, <2>2, <1>3
  <1> QED BY <1>1, <1>2, <1>3

\* A round of the inner loop keeps the rows above in order, the outer row below
\* what it has passed, and a smallest record where it is to be.
LEMMA OrderStays ==
  ASSUME SortInv, SortStep
  PROVE  PrefixInOrder' /\ LeastAbove' /\ LeastReached' /\ PassedAreLarger'
  <1>1. /\ SortTypeOK /\ PrefixInOrder /\ LeastAbove /\ LeastReached /\ PassedAreLarger
        /\ Len(rows') = Len(rows) /\ Len(rows) \in Nat
        /\ outer \in 1 .. Len(rows) /\ inner \in 1 .. Len(rows)
    BY CompareOutcome DEF SortInv, SortTypeOK
  <1>2. PICK n \in Nat, i \in Nat, j \in Nat :
          n = Len(rows) /\ i = outer /\ j = inner /\ i \in 1 .. n /\ j \in 1 .. n
    BY <1>1
  <1>3. PICK s : s = [k \in 1 .. n |-> Size(k)]
    OBVIOUS
  <1>4. PICK t : t = [k \in 1 .. n |-> GetAllocationSize(rows'[k])]
    OBVIOUS
  <1>5. \A k \in 1 .. n : s[k] = Size(k) /\ s[k] \in Nat
    BY <1>1, <1>2, <1>3, SizesAreNumbers
  <1>6. /\ \A k, l \in 1 .. n : k <= l /\ l < i => s[k] >= s[l]
        /\ 1 < i /\ j < i => \A k \in 1 .. n : s[i - 1] <= s[k]
        /\ 1 < i /\ i <= j => \A k \in 1 .. n : s[i] <= s[k]
        /\ \A k \in 1 .. n : k < j /\ (k < i \/ i = 1) => s[i] <= s[k]
    <2>1. i - 1 \in 1 .. n \/ i = 1
      BY <1>2
    <2> QED BY <1>1, <1>2, <1>5, <2>1 DEF PrefixInOrder, LeastAbove, LeastReached, PassedAreLarger, Least
  <1>7. /\ \A k \in 1 .. n : t[k] \in Nat
        /\ \/ /\ \A k \in 1 .. n : t[k] = s[k]
              /\ s[i] <= s[j]
           \/ /\ t[i] = s[j] /\ t[j] = s[i]
              /\ \A k \in 1 .. n : k # i /\ k # j => t[k] = s[k]
              /\ s[i] > s[j]
    <2>1. CASE rows' = rows /\ Size(outer) <= Size(inner)
      BY <1>2, <1>4, <1>5, <2>1 DEF Size
    <2>2. CASE rows' = Swapped(rows, outer, inner) /\ Size(outer) > Size(inner)
      <3>1. /\ rows'[i] = rows[j] /\ rows'[j] = rows[i]
            /\ \A k \in 1 .. n : k # i /\ k # j => rows'[k] = rows[k]
        BY <1>1, <1>2, <2>2, SwappedRows
      <3>2. /\ t[i] = s[j] /\ t[j] = s[i]
            /\ \A k \in 1 .. n : k # i /\ k # j => t[k] = s[k]
        BY <1>2, <1>4, <1>5, <3>1 DEF Size
      <3> QED BY <1>2, <1>5, <2>2, <3>2
    <2> QED BY <2>1, <2>2, CompareOutcome DEF SortInv
  <1>8. /\ \A k, l \in 1 .. n : k <= l /\ l < i => t[k] >= t[l]
        /\ 1 < i /\ j + 1 < i => \A k \in 1 .. n : t[i - 1] <= t[k]
        /\ 1 < i /\ i <= j + 1 => \A k \in 1 .. n : t[i] <= t[k]
        /\ \A k \in 1 .. n : k < j + 1 /\ (k < i \/ i = 1) => t[i] <= t[k]
    <2>1. Ordered(n, i, j, s)
      BY <1>6 DEF Ordered
    <2>2. Compared(n, i, j, s, t)
      BY <1>5, <1>7 DEF Compared
    <2>3. Ordered(n, i, j + 1, t)
      BY <1>2, <2>1, <2>2, Insertion
    <2> QED BY <2>3 DEF Ordered
  <1>9. \A k \in 1 .. n : t[k] = Size(k)' /\ t[k] \in Nat
    BY <1>4, <1>7 DEF Size
  <1>10. \/ j < n /\ inner' = j + 1 /\ outer' = i
         \/ j = n /\ inner' = 1 /\ outer' = i + 1
    BY <1>1, <1>2 DEF SortStep
  <1>11. CASE j < n /\ inner' = j + 1 /\ outer' = i
    <2>1. PrefixInOrder'
      BY <1>1, <1>2, <1>8, <1>9, <1>11 DEF PrefixInOrder
    <2>2. LeastAbove'
      BY <1>1, <1>2, <1>8, <1>9, <1>11 DEF LeastAbove, Least
    <2>3. LeastReached'
      BY <1>1, <1>2, <1>8, <1>9, <1>11 DEF LeastReached, Least
    <2>4. PassedAreLarger'
      BY <1>1, <1>2, <1>8, <1>9, <1>11 DEF PassedAreLarger
    <2> QED BY <2>1, <2>2, <2>3, <2>4
  <1>12. CASE j = n /\ inner' = 1 /\ outer' = i + 1
    <2>1. \A k \in 1 .. n : t[i] <= t[k]
      BY <1>2, <1>8, <1>9, <1>12
    <2>2. PrefixInOrder'
      BY <1>1, <1>2, <1>8, <1>9, <1>12, <2>1 DEF PrefixInOrder
    <2>3. LeastAbove'
      BY <1>1, <1>2, <1>9, <1>12, <2>1 DEF LeastAbove, Least
    <2>4. LeastReached' /\ PassedAreLarger'
      BY <1>1, <1>2, <1>12 DEF LeastReached, PassedAreLarger
    <2> QED BY <2>2, <2>3, <2>4
  <1> QED BY <1>10, <1>11, <1>12

\* One round of the loops, or none, keeps the invariant.
LEMMA SortStays == SortInv /\ [SortStep]_sortVars => SortInv'
  <1> SUFFICES ASSUME SortInv, [SortStep]_sortVars PROVE SortInv'
    OBVIOUS
  <1>1. CASE SortStep
    BY <1>1, CompareOutcome, OrderStays, PermutedStays DEF SortInv
  <1>2. CASE UNCHANGED sortVars
    <2>1. rows' = rows /\ packed' = packed /\ outer' = outer /\ inner' = inner
      BY <1>2 DEF sortVars
    <2> QED BY <2>1 DEF SortInv, SortTypeOK, PrefixInOrder, LeastAbove, LeastReached, PassedAreLarger,
               RowsPermuted, Least, Size
  <1> QED BY <1>1, <1>2

(***************************************************************************)
(* The selection.                                                          *)
(***************************************************************************)

\* A click on a block that is not selected.
LEMMA SelectKeeps ==
  ASSUME selection \in Seq(Starts), SelectedOnce,
         NEW s \in Starts, s \notin Range(selection), selection' = Append(selection, s)
  PROVE  selection' \in Seq(Starts) /\ SelectedOnce'
  <1>1. /\ selection' \in Seq(Starts) /\ Len(selection') = Len(selection) + 1 /\ Len(selection) \in Nat
        /\ \A i \in 1 .. Len(selection) : selection'[i] = selection[i]
        /\ selection'[Len(selection) + 1] = s
        /\ DOMAIN selection = 1 .. Len(selection) /\ DOMAIN selection' = 1 .. Len(selection) + 1
    OBVIOUS
  <1>2. \A i \in 1 .. Len(selection) : selection[i] # s
    BY <1>1 DEF Range
  <1>3. \A i, j \in 1 .. Len(selection) : selection[i] = selection[j] => i = j
    BY <1>1 DEF SelectedOnce
  <1>4. \A i \in 1 .. Len(selection) + 1 : i \in 1 .. Len(selection) \/ i = Len(selection) + 1
    BY <1>1
  <1>5. \A i, j \in 1 .. Len(selection) + 1 : selection'[i] = selection'[j] => i = j
    BY <1>1, <1>2, <1>3, <1>4
  <1> QED BY <1>1, <1>5 DEF SelectedOnce

\* A click on a block that is selected: the last one takes its place.
LEMMA DeselectKeeps ==
  ASSUME selection \in Seq(Starts), SelectedOnce,
         NEW s \in Range(selection), selection' = Without(selection, s)
  PROVE  selection' \in Seq(Starts) /\ SelectedOnce' /\ Len(selection') <= Len(selection)
  <1>1. DOMAIN selection = 1 .. Len(selection) /\ Len(selection) \in Nat
    OBVIOUS
  <1>2. \E i \in DOMAIN selection : selection[i] = s /\ \A j \in 1 .. i - 1 : selection[j] # s
    <2>1. PICK i \in 1 .. Len(selection) : selection[i] = s
      BY <1>1 DEF Range
    <2>2. \A j \in 1 .. i - 1 : j \in 1 .. Len(selection) /\ j # i
      BY <1>1
    <2>3. \A j \in 1 .. i - 1 : selection[j] # s
      BY <1>1, <2>1, <2>2 DEF SelectedOnce
    <2> QED BY <1>1, <2>1, <2>3
  <1>3. PICK found \in 1 .. Len(selection) :
          selection' = [i \in 1 .. Len(selection) - 1 |->
                          IF i = found THEN selection[Len(selection)] ELSE selection[i]]
    BY <1>1, <1>2 DEF Without
  <1>4. PICK n \in Nat : n = Len(selection) - 1
    <2>1. \A m \in Nat : \A k \in 1 .. m : m - 1 \in Nat
      OBVIOUS
    <2>2. Len(selection) - 1 \in Nat
      BY <1>1, <1>3, <2>1
    <2> QED BY <2>2
  <1>5. /\ \A i \in 1 .. n : i \in 1 .. Len(selection) /\ i # Len(selection)
        /\ Len(selection) \in 1 .. Len(selection)
    <2>1. \A m \in Nat : m - 1 \in Nat =>
            m \in 1 .. m /\ \A i \in 1 .. m - 1 : i \in 1 .. m /\ i # m
      OBVIOUS
    <2> QED BY <1>1, <1>4, <2>1
  <1>6. \A i \in 1 .. n : \/ i = found /\ selection'[i] = selection[Len(selection)]
                          \/ i # found /\ selection'[i] = selection[i]
    BY <1>3, <1>4
  <1>7. selection' \in Seq(Starts) /\ DOMAIN selection' = 1 .. n
    <2>1. \A i \in 1 .. Len(selection) : selection[i] \in Starts
      OBVIOUS
    <2>2. \A i \in 1 .. n : (IF i = found THEN selection[Len(selection)] ELSE selection[i]) \in Starts
      BY <1>5, <2>1
    <2> QED BY <1>3, <1>4, <2>2
  <1>8. \A i, j \in 1 .. Len(selection) : selection[i] = selection[j] => i = j
    BY <1>1 DEF SelectedOnce
  <1>9. \A i, j \in 1 .. n : selection'[i] = selection'[j] => i = j
    BY <1>5, <1>6, <1>8
  <1>10. Len(selection') <= Len(selection)
    BY <1>1, <1>4, <1>7
  <1> QED BY <1>7, <1>9, <1>10 DEF SelectedOnce

\* Only the bars of an arena's blocks change the selection.
LEMMA SelectionOtherwise ==
  ASSUME [Next]_vars
  PROVE  selection' = selection \/ PushMemoryBargraphTable
  BY DEF Next, vars, OwnerStep, OwnerOnly, Register, UnregisterArena, ClearMemoryRecordsFor, AllocateArena, Grow,
         Push, PushUntracked, WindowStep, LookForOwner, HandleOrphan, RegisterOrphan, List, ShowUntracked, Hidden,
         PickRecord, CollateMetadata, ShowCollated, SortRows, BufferRows, EndOfFrame

(***************************************************************************)
(* Types.                                                                  *)
(***************************************************************************)

\* The places of a probe are slots, and so is the one it ends at.
LEMMA ProbeSlot ==
  ASSUME NEW h \in Slots, NEW i \in Nat
  PROVE  (h + i) % TableSize \in Slots
  <1>1. TableSize \in Nat /\ TableSize > 0
    BY WindowAssumption
  <1>2. h + i \in Nat
    BY <1>1 DEF Slots
  <1>3. \A x \in Nat : x % TableSize \in 0 .. TableSize - 1
    BY <1>1, SMT
  <1> QED BY <1>2, <1>3 DEF Slots

Place(q, n) == (Home[q.name] + n) % TableSize
Room(q, t, matching) == {n \in Slots : ~Named(t[Place(q, n)]) \/ Place(q, n) \in matching}

\* Table u is table t with record q written to it: added to a slot that the
\* comparator accepts, or put in an empty one, with nothing of that kind before.
Written(q, t, matching, u) ==
    \E i \in Slots :
        /\ \E m \in Slots : Place(q, m) = i /\ \A k \in Slots : k < m => Named(t[Place(q, k)]) /\ Place(q, k) \notin matching
        /\ \/ Named(t[i]) /\ i \in matching /\ u = [t EXCEPT ![i].pushes = @ + q.pushes]
           \/ ~Named(t[i]) /\ u = [t EXCEPT ![i] = q]

\* Writing a record does that, unless the record has been zeroed or there is no
\* room: then the table stays as it is.
LEMMA WriteOutcome ==
  ASSUME NEW q \in Record, NEW t, NEW matching
  PROVE  IF ~Named(q) \/ Room(q, t, matching) = {} THEN WriteToMetaTable(q, t, matching) = t
         ELSE Written(q, t, matching, WriteToMetaTable(q, t, matching))
  <1> DEFINE probe(n) == Place(q, n)
             ends == {n \in Slots : ~Named(t[probe(n)]) \/ probe(n) \in matching}
             first == CHOOSE n \in ends : \A m \in ends : n <= m
             slot == probe(first)
             written == WriteToMetaTable(q, t, matching)
  <1>1. written = IF ~Named(q) \/ ends = {} THEN t
                  ELSE IF Named(t[slot]) THEN [t EXCEPT ![slot].pushes = @ + q.pushes]
                  ELSE [t EXCEPT ![slot] = q]
    BY DEF WriteToMetaTable, Place
  <1>2. ends = Room(q, t, matching)
    BY DEF Room
  <1>3. CASE ~Named(q) \/ ends = {}
    BY <1>1, <1>2, <1>3
  <1>4. CASE Named(q) /\ ends # {}
    <2>1. first \in ends /\ \A m \in ends : first <= m
      <3>1. ends \subseteq Nat
        BY DEF Slots
      <3> HIDE DEF ends
      <3>2. \E n \in ends : \A m \in ends : n <= m
        BY <1>4, <3>1, LeastNumber
      <3> QED BY <3>2
    <2>2. slot \in Slots
      <3>1. Home[q.name] \in Slots
        BY <1>4, WindowAssumption DEF Record, Named, Slots
      <3>2. first \in Slots
        BY <2>1
      <3> HIDE DEF first
      <3>3. first \in Nat
        BY <3>2 DEF Slots
      <3> QED BY <3>1, <3>3, ProbeSlot DEF Place
    <2>3. ~Named(t[slot]) \/ slot \in matching
      BY <2>1
    <2>4. first \in Slots /\ \A k \in Slots : k < first => Named(t[probe(k)]) /\ probe(k) \notin matching
      <3>1. first \in Slots
        BY <2>1
      <3>2. ASSUME NEW k \in Slots, k < first PROVE Named(t[probe(k)]) /\ probe(k) \notin matching
        <4>1. k \notin ends
          <5> HIDE DEF ends, first
          <5>1. k \in Nat /\ first \in Nat
            BY <3>1 DEF Slots
          <5> QED BY <2>1, <3>2, <5>1
        <4> QED BY <4>1
      <3> QED BY <3>1, <3>2
    <2>5. \E m \in Slots : probe(m) = slot /\ \A k \in Slots : k < m => Named(t[probe(k)]) /\ probe(k) \notin matching
      <3> HIDE DEF first
      <3> QED BY <2>4
    <2> HIDE DEF slot, written
    <2>6. Written(q, t, matching, written)
      BY <1>1, <1>4, <2>2, <2>3, <2>5 DEF Written
    <2> QED BY <1>2, <1>4, <2>6 DEF written
  <1> QED BY <1>3, <1>4

LEMMA WriteTyped ==
  ASSUME NEW q \in Record, NEW t \in [Slots -> Record], NEW matching
  PROVE  WriteToMetaTable(q, t, matching) \in [Slots -> Record]
  <1> DEFINE written == WriteToMetaTable(q, t, matching)
  <1>1. ASSUME NEW i \in Slots, written = [t EXCEPT ![i].pushes = @ + q.pushes]
        PROVE  written \in [Slots -> Record]
    <2>1. [t[i] EXCEPT !.pushes = @ + q.pushes] \in Record
      <3>1. t[i] \in Record
        OBVIOUS
      <3> QED BY <3>1 DEF Record
    <2> QED BY <1>1, <2>1
  <1>2. ASSUME NEW i \in Slots, written = [t EXCEPT ![i] = q]
        PROVE  written \in [Slots -> Record]
    BY <1>2
  <1> HIDE DEF written
  <1>3. written = t \/ Written(q, t, matching, written)
    BY WriteOutcome DEF written
  <1>4. ASSUME Written(q, t, matching, written) PROVE written \in [Slots -> Record]
    <2>1. PICK i \in Slots : written = [t EXCEPT ![i].pushes = @ + q.pushes] \/ written = [t EXCEPT ![i] = q]
      BY <1>4 DEF Written
    <2> QED BY <1>1, <1>2, <2>1
  <1>5. written \in [Slots -> Record]
    BY <1>3, <1>4
  <1> QED BY <1>5 DEF written

LEMMA EmptyTyped == NoRecord \in Record /\ EmptyTable \in [Slots -> Record]
  <1>1. 0 \in Threads
    BY WindowAssumption DEF Threads
  <1> QED BY <1>1 DEF NoRecord, EmptyTable, Record

\* Packing goes through the slots one by one.
LEMMA PackingSteps ==
  ASSUME NEW t \in [Slots -> Record]
  PROVE  /\ Packing(t) \in [0 .. TableSize -> Seq(Record)]
         /\ Packing(t)[0] = << >>
         /\ \A n \in 1 .. TableSize :
              Packing(t)[n] = IF Named(t[n - 1]) THEN Append(Packing(t)[n - 1], t[n - 1]) ELSE Packing(t)[n - 1]
  <1> DEFINE step == [x \in Seq(Record) \X Nat |->
                        IF x[2] \in 1 .. TableSize /\ Named(t[x[2] - 1]) THEN Append(x[1], t[x[2] - 1]) ELSE x[1]]
             Packs(f) == f = [n \in 0 .. TableSize |->
                                IF n = 0 THEN << >>
                                ELSE IF Named(t[n - 1]) THEN Append(f[n - 1], t[n - 1]) ELSE f[n - 1]]
  <1>0. TableSize \in Nat
    BY WindowAssumption
  <1>1. \A n \in 1 .. TableSize : n \in Nat /\ n # 0 /\ n - 1 \in 0 .. TableSize /\ n \in 0 .. TableSize /\ t[n - 1] \in Record
    BY <1>0 DEF Slots
  <1>2. step \in [Seq(Record) \X Nat -> Seq(Record)]
    <2> SUFFICES ASSUME NEW s \in Seq(Record), NEW n \in Nat
                 PROVE  (IF n \in 1 .. TableSize /\ Named(t[n - 1]) THEN Append(s, t[n - 1]) ELSE s) \in Seq(Record)
      OBVIOUS
    <2> QED BY <1>1
  <1>3. PICK f \in [0 .. TableSize -> Seq(Record)] :
          f[0] = << >> /\ \A n \in 1 .. TableSize : f[n] = step[<<f[n - 1], n>>]
    <2>1. << >> \in Seq(Record)
      OBVIOUS
    <2>2. IsStep(Seq(Record), step)
      BY <1>2 DEF IsStep
    <2> HIDE DEF step
    <2>3. \E f : Reaches(Seq(Record), << >>, step, TableSize, f)
      BY <1>0, <2>1, <2>2, Iterated
    <2> QED BY <2>3 DEF Reaches
  <1>4. \A n \in 1 .. TableSize : f[n] = IF Named(t[n - 1]) THEN Append(f[n - 1], t[n - 1]) ELSE f[n - 1]
    <2> SUFFICES ASSUME NEW n \in 1 .. TableSize
                 PROVE  f[n] = IF Named(t[n - 1]) THEN Append(f[n - 1], t[n - 1]) ELSE f[n - 1]
      OBVIOUS
    <2>1. f[n] = step[<<f[n - 1], n>>] /\ f[n - 1] \in Seq(Record) /\ n \in Nat
      BY <1>1, <1>3
    <2> QED BY <2>1
  <1>5. Packs(f)
    <2> HIDE DEF step
    <2>1. \A n \in 0 .. TableSize : n = 0 \/ n \in 1 .. TableSize
      BY <1>0
    <2> QED BY <1>3, <1>4, <2>1
  <1> DEFINE p == Packing(t)
  <1>6. Packs(p)
    <2>1. p = CHOOSE g : Packs(g)
      BY Zenon DEF Packing
    <2> HIDE DEF Packs, p
    <2> QED BY <1>5, <2>1
  <1>7. /\ p[0] = << >>
        /\ \A n \in 1 .. TableSize : p[n] = IF Named(t[n - 1]) THEN Append(p[n - 1], t[n - 1]) ELSE p[n - 1]
    <2> HIDE DEF p
    <2>1. 0 \in 0 .. TableSize
      BY <1>0
    <2>2. p[0] = << >>
      BY <1>6, <2>1
    <2>3. ASSUME NEW n \in 1 .. TableSize
          PROVE  p[n] = IF Named(t[n - 1]) THEN Append(p[n - 1], t[n - 1]) ELSE p[n - 1]
      <3>1. n \in 0 .. TableSize /\ n # 0
        BY <1>1
      <3> QED BY <1>6, <3>1
    <2> QED BY <2>2, <2>3
  <1>8. p = [n \in 0 .. TableSize |-> p[n]]
    BY <1>6
  <1>9. p \in [0 .. TableSize -> Seq(Record)]
    <2> DEFINE Bad == {n \in 0 .. TableSize : p[n] \notin Seq(Record)}
    <2>1. Bad = {}
      <3> SUFFICES ASSUME Bad # {} PROVE FALSE
        OBVIOUS
      <3>1. PICK n \in Bad : \A m \in Bad : n <= m
        <4>1. Bad \subseteq Nat
          OBVIOUS
        <4> HIDE DEF Bad
        <4> QED BY <4>1, LeastNumber
      <3>2. n \in 0 .. TableSize /\ p[n] \notin Seq(Record)
        OBVIOUS
      <3> HIDE DEF p
      <3>3. n \in 1 .. TableSize /\ n - 1 \in 0 .. TableSize /\ ~(n <= n - 1)
        <4>1. p[0] \in Seq(Record)
          BY <1>7
        <4>2. n # 0
          BY <3>2, <4>1
        <4> QED BY <1>0, <3>2, <4>2
      <3>4. n - 1 \notin Bad
        <4> HIDE DEF Bad
        <4> QED BY <3>1, <3>3
      <3>5. p[n - 1] \in Seq(Record)
        BY <3>3, <3>4
      <3>6. p[n] = IF Named(t[n - 1]) THEN Append(p[n - 1], t[n - 1]) ELSE p[n - 1]
        BY <1>7, <3>3
      <3>7. \A x \in Seq(Record) : Append(x, t[n - 1]) \in Seq(Record)
        BY <1>1, <3>3
      <3> QED BY <3>2, <3>5, <3>6, <3>7
    <2> HIDE DEF p
    <2> QED BY <1>8, <2>1
  <1> QED BY <1>7, <1>9

LEMMA PackTyped ==
  ASSUME NEW t \in [Slots -> Record]
  PROVE  Pack(t) \in Seq(Record)
  <1>1. TableSize \in 0 .. TableSize
    BY WindowAssumption
  <1> QED BY <1>1, PackingSteps DEF Pack

Phases == {"free", "fresh", "used", "unlisted", "cleared"}
AnyArena == Arenas \cup {Null, Site}
RegistryEntry == [arena : AnyArena, dead : BOOLEAN, found : BOOLEAN]
Window == [at : {"scan", "orphan", "register", "list", "details", "collate", "write", "sort"},
           thread : 0 .. ThreadCount, slot : Slots, pick : 1 .. MaxSelected + 1, entry : 0 .. RegistrySize + 1,
           arena : AnyArena, sought : AnyArena]

\* An arena has a block until it has been freed.
OwnersInv ==
    /\ phase \in [Arenas -> Phases]
    /\ starts \in [Arenas -> Seq(Starts)]
    /\ \A a \in Arenas : Len(starts[a]) <= MaxBlocks /\ (phase[a] # "free" => starts[a] # << >>)

TablesInv == meta \in [Threads -> [Slots -> Record]] /\ table \in [Slots -> Record]
RegistryInv == registry \in Seq(RegistryEntry) /\ Len(registry) <= RegistrySize
SelectionInv == selection \in Seq(Starts) /\ SelectedOnce /\ Len(selection) <= MaxSelected

\* Where the indices of the window point while it uses them.
WindowInv ==
    /\ window \in Window
    /\ window.at \in {"scan", "orphan", "register", "write"} => window.thread \in Threads
    /\ window.at \in {"list", "details", "sort"} => window.thread = 0 /\ window.slot = 0
    /\ window.at \in {"collate", "write", "sort"} => window.entry <= Len(registry)

TypesInv == OwnersInv /\ TablesInv /\ RegistryInv /\ SelectionInv /\ WindowInv /\ SortInv

\* Who changes what.
LEMMA OwnersOtherwise ==
  ASSUME [Next]_vars
  PROVE  \/ UNCHANGED <<phase, starts>>
         \/ \E a \in Arenas : Register(a) \/ UnregisterArena(a) \/ ClearMemoryRecordsFor(a)
         \/ \E a \in Arenas, s \in Starts : AllocateArena(a, s) \/ Grow(a, s)
         \/ \E t \in Threads, a \in Arenas, n \in Names, s \in Shapes : Push(t, a, n, s)
  BY DEF Next, vars, ownerVars, OwnerStep, PushUntracked, WindowStep, LookForOwner, HandleOrphan, RegisterOrphan, List,
         ShowUntracked, Hidden, PushMemoryBargraphTable, PickRecord, CollateMetadata, ShowCollated, SortRows,
         BufferRows, EndOfFrame

\* A block that is handed out is one more at the front.
LEMMA OwnersKeep ==
  ASSUME OwnersInv, [Next]_vars
  PROVE  OwnersInv'
  <1> USE DEF OwnersInv
  <1>1. CASE UNCHANGED <<phase, starts>>
    BY <1>1
  <1>2. ASSUME NEW a \in Arenas, phase[a] # "free", NEW ph \in Phases, phase' = [phase EXCEPT ![a] = ph], starts' = starts
        PROVE  OwnersInv'
    BY <1>2
  <1>3. ASSUME NEW a \in Arenas, Register(a) PROVE OwnersInv'
    <2>1. phase[a] # "free" /\ phase' = [phase EXCEPT ![a] = "used"] /\ starts' = starts
      BY <1>3 DEF Register
    <2> QED BY <2>1, <1>2 DEF Phases
  <1>4. ASSUME NEW t \in Threads, NEW a \in Arenas, NEW n \in Names, NEW s \in Shapes, Push(t, a, n, s)
        PROVE  OwnersInv'
    <2>1. phase[a] # "free" /\ phase' = [phase EXCEPT ![a] = "used"] /\ starts' = starts
      BY <1>4 DEF Push
    <2> QED BY <2>1, <1>2 DEF Phases
  <1>5. ASSUME NEW a \in Arenas, NEW step \in {"unlisted", "cleared"}, NEW other \in {"unlisted", "cleared"},
               Freeing(a, step, other)
        PROVE  OwnersInv'
    <2>1. CASE phase[a] = other
      <3>1. phase' = [phase EXCEPT ![a] = "free"] /\ starts' = [starts EXCEPT ![a] = << >>]
        BY <1>5, <2>1 DEF Freeing
      <3>2. << >> \in Seq(Starts) /\ Len(<< >>) <= MaxBlocks
        BY WindowAssumption
      <3> QED BY <3>1, <3>2 DEF Phases
    <2>2. CASE phase[a] # other
      <3>1. phase[a] # "free" /\ phase' = [phase EXCEPT ![a] = step] /\ starts' = starts
        BY <1>5, <2>2 DEF Freeing
      <3> QED BY <3>1, <1>2 DEF Phases
    <2> QED BY <2>1, <2>2
  <1>6. ASSUME NEW a \in Arenas, NEW s \in Starts, AllocateArena(a, s) PROVE OwnersInv'
    <2>1. phase' = [phase EXCEPT ![a] = "fresh"] /\ starts' = [starts EXCEPT ![a] = <<s>>]
      BY <1>6 DEF AllocateArena
    <2>2. <<s>> \in Seq(Starts) /\ Len(<<s>>) <= MaxBlocks /\ <<s>> # << >>
      BY WindowAssumption
    <2> QED BY <2>1, <2>2 DEF Phases
  <1>7. ASSUME NEW a \in Arenas, NEW s \in Starts, Grow(a, s) PROVE OwnersInv'
    <2>1. phase' = phase /\ starts' = [starts EXCEPT ![a] = <<s>> \o starts[a]] /\ Len(starts[a]) < MaxBlocks
      BY <1>7 DEF Grow
    <2>2. starts[a] \in Seq(Starts)
      OBVIOUS
    <2>3. <<s>> \o starts[a] \in Seq(Starts) /\ Len(<<s>> \o starts[a]) = Len(starts[a]) + 1 /\ <<s>> \o starts[a] # << >>
      BY <2>2
    <2>4. Len(<<s>> \o starts[a]) <= MaxBlocks
      BY <2>1, <2>2, <2>3, WindowAssumption
    <2> QED BY <2>1, <2>3, <2>4
  <1> QED BY <1>1, <1>3, <1>4, <1>5, <1>6, <1>7, OwnersOtherwise DEF UnregisterArena, ClearMemoryRecordsFor

\* The record the window is at.
LEMMA CurrentTyped ==
  ASSUME TablesInv, window \in Window, window.thread \in Threads
  PROVE  Current \in Record
  <1>1. window.slot \in Slots
    BY DEF Window
  <1> QED BY <1>1 DEF Current, TablesInv

\* The tables hold records.
LEMMA TablesKeep ==
  ASSUME TypesInv, [Next]_vars
  PROVE  TablesInv'
  <1> USE DEF TypesInv, TablesInv
  <1>1. CASE UNCHANGED <<meta, table>>
    BY <1>1
  <1>2. ASSUME NEW a \in Arenas, ClearMemoryRecordsFor(a) PROVE TablesInv'
    <2>1. /\ meta' = [t \in Threads |-> [i \in Slots |->
                        IF meta[t][i].arena = a \/ meta[t][i].start = starts[a][1] THEN NoRecord ELSE meta[t][i]]]
          /\ table' = table
      BY <1>2 DEF ClearMemoryRecordsFor, SetMeta, OwnerOnly
    <2> QED BY <2>1, EmptyTyped
  <1>3. ASSUME NEW t \in Threads, NEW r \in Record, WriteMemoryRecord(t, r), table' = table PROVE TablesInv'
    <2>1. meta' = [meta EXCEPT ![t] = WriteToMetaTable(r, meta[t], SlotsMatching(meta[t], r))]
      BY <1>3 DEF WriteMemoryRecord, SetMeta
    <2>2. WriteToMetaTable(r, meta[t], SlotsMatching(meta[t], r)) \in [Slots -> Record]
      BY WriteTyped
    <2> QED BY <1>3, <2>1, <2>2
  <1>4. ASSUME NEW t \in Threads, NEW a \in Arenas, NEW n \in Names, NEW s \in Shapes, Push(t, a, n, s)
        PROVE  TablesInv'
    <2> DEFINE r == [name |-> n, arena |-> a, start |-> starts[a][1], shape |-> s, thread |-> t, pushes |-> 1]
    <2>1. WriteMemoryRecord(t, r) /\ table' = table
      BY <1>4 DEF Push, OwnerOnly
    <2>2. starts[a][1] \in Starts
      <3>1. starts[a] \in Seq(Starts) /\ starts[a] # << >>
        BY <1>4 DEF OwnersInv, Push
      <3> QED BY <3>1
    <2>3. r \in Record
      BY <2>2 DEF Record
    <2> QED BY <1>3, <2>1, <2>3
  <1>5. ASSUME NEW t \in Threads, NEW n \in Names, NEW s \in Shapes, PushUntracked(t, n, s) PROVE TablesInv'
    <2> DEFINE r == [name |-> n, arena |-> Site, start |-> Untracked, shape |-> s, thread |-> t, pushes |-> 1]
    <2>1. WriteMemoryRecord(t, r) /\ table' = table
      BY <1>5 DEF PushUntracked, OwnerOnly
    <2>2. r \in Record
      BY DEF Record
    <2> QED BY <1>3, <2>1, <2>2
  <1>6. CASE HandleOrphan
    <2>1. meta' = meta /\ (table' = table \/ table' = WriteToMetaTable(Current, table, SlotsMatching(table, Current)))
      BY <1>6 DEF HandleOrphan
    <2>2. Current \in Record
      BY <1>6, CurrentTyped DEF HandleOrphan, WindowInv
    <2> QED BY <2>1, <2>2, WriteTyped
  <1>7. CASE CollateMetadata
    <2>1. meta' = meta /\ table' = WriteToMetaTable(Current, table, SlotsSharing(table, Current))
      BY <1>7 DEF CollateMetadata
    <2>2. Current \in Record
      BY <1>7, CurrentTyped DEF CollateMetadata, WindowInv
    <2> QED BY <2>1, <2>2, WriteTyped
  <1>8. ASSUME meta' = meta, table' = EmptyTable PROVE TablesInv'
    BY <1>8, EmptyTyped
  <1>9. ASSUME OwnerStep PROVE TablesInv'
    BY <1>1, <1>2, <1>4, <1>5, <1>9 DEF OwnerStep, Register, UnregisterArena, AllocateArena, Grow, OwnerOnly
  <1>10. ASSUME LookForOwner \/ RegisterOrphan \/ Hidden \/ PushMemoryBargraphTable \/ PickRecord \/ SortRows
                \/ BufferRows \/ EndOfFrame \/ UNCHANGED vars
         PROVE  UNCHANGED <<meta, table>>
    BY <1>10 DEF LookForOwner, RegisterOrphan, Hidden, PushMemoryBargraphTable, PickRecord, SortRows, BufferRows,
                 EndOfFrame, vars, tableVars
  <1>11. ASSUME List \/ ShowUntracked \/ ShowCollated PROVE TablesInv'
    BY <1>8, <1>11 DEF List, ShowUntracked, ShowCollated
  <1> QED BY <1>1, <1>6, <1>7, <1>9, <1>10, <1>11 DEF Next, WindowStep

\* The registry never shrinks, and takes no more than it has room for.
LEMMA RegistryKeeps ==
  ASSUME TypesInv, [Next]_vars
  PROVE  RegistryInv' /\ Len(registry) <= Len(registry')
  <1> USE DEF TypesInv, RegistryInv
  <1>1. Len(registry) \in Nat /\ RegistrySize \in Nat
    BY WindowAssumption
  <1>2. CASE registry' = registry
    BY <1>1, <1>2
  <1>3. ASSUME NEW a \in AnyArena, NEW found \in BOOLEAN, registry' = Claimed(a, found)
        PROVE  RegistryInv' /\ Len(registry) <= Len(registry')
    <2>1. CASE Len(registry) = RegistrySize
      BY <1>2, <1>3, <2>1 DEF Claimed
    <2>2. CASE Len(registry) # RegistrySize
      <3> DEFINE e == [arena |-> a, dead |-> FALSE, found |-> found]
      <3>1. registry' = Append(registry, e)
        BY <1>3, <2>2 DEF Claimed
      <3>2. e \in RegistryEntry
        BY DEF RegistryEntry
      <3> HIDE DEF e
      <3>3. registry' \in Seq(RegistryEntry) /\ Len(registry') = Len(registry) + 1
        BY <3>1, <3>2
      <3> QED BY <1>1, <2>2, <3>3
    <2> QED BY <2>1, <2>2
  <1>4. ASSUME NEW a \in Arenas, Register(a) PROVE RegistryInv' /\ Len(registry) <= Len(registry')
    BY <1>3, <1>4 DEF Register, AnyArena
  <1>5. ASSUME NEW a \in Arenas, UnregisterArena(a) PROVE RegistryInv' /\ Len(registry) <= Len(registry')
    <2>1. registry' = [i \in DOMAIN registry |->
                         IF registry[i].arena = a THEN [registry[i] EXCEPT !.dead = TRUE] ELSE registry[i]]
      BY <1>5 DEF UnregisterArena
    <2>2. DOMAIN registry = 1 .. Len(registry) /\ \A i \in DOMAIN registry : registry[i] \in RegistryEntry
      OBVIOUS
    <2>3. \A i \in DOMAIN registry : [registry[i] EXCEPT !.dead = TRUE] \in RegistryEntry
      BY <2>2 DEF RegistryEntry
    <2>4. registry' \in [1 .. Len(registry) -> RegistryEntry]
      BY <2>1, <2>2, <2>3
    <2>5. registry' \in Seq(RegistryEntry) /\ Len(registry') = Len(registry)
      BY <1>1, <2>4
    <2> QED BY <1>1, <2>5
  <1>6. CASE RegisterOrphan
    <2>1. registry' = Claimed(window.arena, window.arena = window.sought) /\ window.arena \in AnyArena
      BY <1>6 DEF RegisterOrphan, WindowInv, Window
    <2> QED BY <1>3, <2>1
  <1>7. ASSUME OwnerStep PROVE RegistryInv' /\ Len(registry) <= Len(registry')
    BY <1>2, <1>4, <1>5, <1>7 DEF OwnerStep, ClearMemoryRecordsFor, AllocateArena, Grow, Push, PushUntracked
  <1>8. ASSUME (WindowStep /\ ~RegisterOrphan) \/ UNCHANGED vars PROVE registry' = registry
    BY <1>8 DEF WindowStep, LookForOwner, HandleOrphan, List, ShowUntracked, Hidden, PushMemoryBargraphTable,
                PickRecord, CollateMetadata, ShowCollated, SortRows, BufferRows, EndOfFrame, vars
  <1> QED BY <1>2, <1>6, <1>7, <1>8 DEF Next

\* Clicks select blocks, each once, and no more than there is room for.
LEMMA SelectionKeeps ==
  ASSUME TypesInv, [Next]_vars
  PROVE  SelectionInv'
  <1> USE DEF TypesInv, SelectionInv
  <1>1. CASE selection' = selection
    BY <1>1 DEF SelectedOnce
  <1>2. CASE PushMemoryBargraphTable /\ selection' # selection
    <2>1. PICK s \in UNION {Range(starts[a]) : a \in {registry[window.entry].arena} \cap Arenas} :
            selection' = Toggled(selection, s) /\ (s \notin Range(selection) => Len(selection) < MaxSelected)
      BY <1>2 DEF PushMemoryBargraphTable
    <2>2. s \in Starts
      BY <2>1 DEF OwnersInv, Range
    <2>3. Len(selection) \in Nat /\ MaxSelected \in Nat
      BY WindowAssumption
    <2>4. CASE s \notin Range(selection)
      <3>1. selection' = Append(selection, s)
        BY <2>1, <2>4 DEF Toggled
      <3>2. Len(selection') = Len(selection) + 1
        BY <2>2, <3>1
      <3> QED BY <2>1, <2>2, <2>3, <2>4, <3>1, <3>2, SelectKeeps
    <2>5. CASE s \in Range(selection)
      <3>1. selection' = Without(selection, s)
        BY <2>1, <2>5 DEF Toggled
      <3>2. selection' \in Seq(Starts) /\ SelectedOnce' /\ Len(selection') <= Len(selection)
        BY <2>5, <3>1, DeselectKeeps
      <3>3. Len(selection') \in Nat
        BY <3>2
      <3> QED BY <2>3, <3>2, <3>3
    <2> QED BY <2>4, <2>5
  <1> QED BY <1>1, <1>2, SelectionOtherwise

\* From a place of a thread's table the window goes to another one, or past the
\* last of them.
LEMMA NextPlaceTyped ==
  ASSUME NEW w \in Window, w.thread \in Threads
  PROVE  /\ NextPlace(w) \in Window
         /\ NextPlace(w).at = w.at /\ NextPlace(w).entry = w.entry /\ NextPlace(w).pick = w.pick
         /\ \/ NextPlace(w).thread \in Threads /\ NextPlace(w).thread < ThreadCount
            \/ NextPlace(w).thread = ThreadCount /\ NextPlace(w).slot = 0
  <1>1. TableSize \in Nat /\ TableSize > 0 /\ ThreadCount \in Nat /\ ThreadCount > 0
    BY WindowAssumption
  <1>2. w.slot \in Slots /\ w.slot \in Nat /\ w.thread \in Nat /\ w.thread < ThreadCount
    BY <1>1 DEF Window, Slots, Threads
  <1>3. CASE w.slot < TableSize - 1
    <2>1. NextPlace(w) = [w EXCEPT !.slot = w.slot + 1]
      BY <1>3 DEF NextPlace
    <2>2. w.slot + 1 \in Slots
      BY <1>1, <1>2, <1>3 DEF Slots
    <2>3. NextPlace(w) \in Window
      BY <2>1, <2>2 DEF Window
    <2>4. /\ NextPlace(w).at = w.at /\ NextPlace(w).entry = w.entry /\ NextPlace(w).pick = w.pick
          /\ NextPlace(w).thread = w.thread
      BY <2>1 DEF Window
    <2> QED BY <1>2, <2>3, <2>4
  <1>4. CASE ~(w.slot < TableSize - 1)
    <2>1. NextPlace(w) = [w EXCEPT !.thread = w.thread + 1, !.slot = 0]
      BY <1>4 DEF NextPlace
    <2>2. w.thread + 1 \in 0 .. ThreadCount /\ 0 \in Slots
      BY <1>1, <1>2 DEF Slots
    <2>3. NextPlace(w) \in Window
      BY <2>1, <2>2 DEF Window
    <2>4. /\ NextPlace(w).at = w.at /\ NextPlace(w).entry = w.entry /\ NextPlace(w).pick = w.pick
          /\ NextPlace(w).thread = w.thread + 1 /\ NextPlace(w).slot = 0
      BY <2>1 DEF Window
    <2>5. w.thread + 1 = ThreadCount \/ (w.thread + 1 \in Threads /\ w.thread + 1 < ThreadCount)
      BY <1>1, <1>2 DEF Threads
    <2> QED BY <2>3, <2>4, <2>5
  <1> QED BY <1>3, <1>4

\* The indices of the window stay where they may be used.
LEMMA WindowKeepsIndices ==
  ASSUME TypesInv, [Next]_vars
  PROVE  WindowInv'
  <1> USE DEF TypesInv, WindowInv
  <1>1. /\ Len(registry) \in Nat /\ Len(registry') \in Nat /\ Len(registry) <= Len(registry')
        /\ Len(registry) <= RegistrySize /\ RegistrySize \in Nat
    BY RegistryKeeps, WindowAssumption DEF RegistryInv
  <1>2. TableSize \in Nat /\ TableSize > 0 /\ ThreadCount \in Nat /\ ThreadCount > 0 /\ Len(selection) \in Nat /\ Len(selection) <= MaxSelected /\ MaxSelected \in Nat
    BY WindowAssumption DEF SelectionInv
  <1>3. window \in Window /\ window.entry \in Nat
    BY DEF Window
  <1>4. CASE window' = window
    BY <1>1, <1>3, <1>4
  <1>5. ASSUME NextSlot, window.thread \in Threads PROVE WindowInv'
    <2> DEFINE w == [window EXCEPT !.arena = Null, !.sought = Null]
               then == NextPlace(w)
    <2>1. w \in Window /\ w.thread \in Threads
      BY <1>3, <1>5 DEF Window, AnyArena
    <2>2. window' = IF then.thread < ThreadCount THEN [then EXCEPT !.at = "scan"]
                    ELSE [then EXCEPT !.at = "list", !.thread = 0]
      BY <1>5 DEF NextSlot
    <2>3. /\ then \in Window
          /\ \/ then.thread \in Threads /\ then.thread < ThreadCount
             \/ then.thread = ThreadCount /\ then.slot = 0
      <3> HIDE DEF w
      <3> QED BY <2>1, NextPlaceTyped
    <2> HIDE DEF w, then
    <2>4. CASE then.thread < ThreadCount
      <3>1. window' = [then EXCEPT !.at = "scan"] /\ then.thread \in Threads
        BY <1>2, <2>2, <2>3, <2>4
      <3>2. window' \in Window /\ window'.at = "scan" /\ window'.thread \in Threads
        BY <2>3, <3>1 DEF Window
      <3> QED BY <3>2
    <2>5. CASE ~(then.thread < ThreadCount)
      <3>1. window' = [then EXCEPT !.at = "list", !.thread = 0] /\ then.slot = 0
        BY <2>2, <2>3, <2>5
      <3>2. 0 \in 0 .. ThreadCount
        BY <1>2
      <3>3. window' \in Window /\ window'.at = "list" /\ window'.thread = 0 /\ window'.slot = 0
        BY <2>3, <3>1, <3>2 DEF Window
      <3> QED BY <3>3
    <2> QED BY <2>4, <2>5
  <1>6. CASE LookForOwner
    <2>1. CASE NextSlot
      BY <1>5, <1>6, <2>1 DEF LookForOwner
    <2>2. CASE window' = [window EXCEPT !.at = "orphan", !.sought = Current.arena]
      <3>1. Current.arena \in AnyArena
        <4>1. Current \in Record
          BY <1>6, CurrentTyped DEF LookForOwner
        <4> QED BY <4>1 DEF Record, AnyArena
      <3>2. window' \in Window /\ window'.at = "orphan" /\ window'.thread = window.thread
        BY <1>3, <2>2, <3>1 DEF Window
      <3> QED BY <1>6, <3>2 DEF LookForOwner
    <2> QED BY <1>6, <2>1, <2>2 DEF LookForOwner
  <1>7. CASE HandleOrphan
    <2>1. CASE NextSlot
      BY <1>5, <1>7, <2>1 DEF HandleOrphan
    <2>2. CASE window' = [window EXCEPT !.at = "register", !.arena = Current.arena]
      <3>1. Current.arena \in AnyArena
        <4>1. Current \in Record
          BY <1>7, CurrentTyped DEF HandleOrphan
        <4> QED BY <4>1 DEF Record, AnyArena
      <3>2. window' \in Window /\ window'.at = "register" /\ window'.thread = window.thread
        BY <1>3, <2>2, <3>1 DEF Window
      <3> QED BY <1>7, <3>2 DEF HandleOrphan
    <2> QED BY <1>7, <2>1, <2>2 DEF HandleOrphan
  <1>8. CASE RegisterOrphan
    BY <1>5, <1>8 DEF RegisterOrphan
  <1>9. CASE List
    <2>1. window' = [window EXCEPT !.at = "details", !.entry = 1] /\ window.thread = 0 /\ window.slot = 0
      BY <1>9 DEF List
    <2>2. 1 \in 0 .. RegistrySize + 1
      BY <1>1
    <2>3. window' \in Window /\ window'.at = "details" /\ window'.thread = 0 /\ window'.slot = 0
      BY <1>3, <2>1, <2>2 DEF Window
    <2> QED BY <2>3
  <1>10. CASE ShowUntracked
    <2>1. window' = [window EXCEPT !.at = "sort", !.entry = 0] /\ window.thread = 0 /\ window.slot = 0
      BY <1>10 DEF ShowUntracked
    <2>2. 0 \in 0 .. RegistrySize + 1
      BY <1>1
    <2>3. window' \in Window /\ window'.at = "sort" /\ window'.thread = 0 /\ window'.slot = 0 /\ window'.entry = 0
      BY <1>3, <2>1, <2>2 DEF Window
    <2>4. window'.entry <= Len(registry')
      BY <1>1, <2>3
    <2> QED BY <2>3, <2>4
  <1>11. CASE Hidden
    <2>1. window' = [window EXCEPT !.entry = window.entry + 1] /\ window.at = "details" /\ window.entry <= Len(registry)
      BY <1>3, <1>11 DEF Hidden, Window
    <2> QED BY <1>1, <1>3, <2>1 DEF Window
  <1>12. CASE PushMemoryBargraphTable
    <2>1. window' = [window EXCEPT !.at = "collate", !.pick = 1] /\ window.entry <= Len(registry)
      BY <1>12 DEF PushMemoryBargraphTable
    <2>2. 1 \in 1 .. MaxSelected + 1
      BY <1>2
    <2>3. window' \in Window /\ window'.at = "collate" /\ window'.entry = window.entry
      BY <1>3, <2>1, <2>2 DEF Window
    <2> QED BY <1>1, <1>3, <2>1, <2>3
  <1>13. ASSUME Advance, window.thread \in Threads, window.entry <= Len(registry) PROVE WindowInv'
    <2>1. CASE window.pick < Len(selection)
      <3>1. window' = [window EXCEPT !.at = "collate", !.pick = window.pick + 1]
        BY <1>13, <2>1 DEF Advance
      <3>2. window.pick + 1 \in 1 .. MaxSelected + 1
        BY <1>2, <1>3, <2>1 DEF Window
      <3>3. window' \in Window /\ window'.at = "collate" /\ window'.entry = window.entry
        BY <1>3, <3>1, <3>2 DEF Window
      <3> QED BY <1>1, <1>3, <1>13, <3>3
    <2>2. CASE ~(window.pick < Len(selection))
      <3> DEFINE w == [window EXCEPT !.at = "collate", !.pick = 1]
      <3>1. window' = NextPlace(w)
        BY <1>13, <2>2 DEF Advance
      <3>2. 1 \in 1 .. MaxSelected + 1
        BY <1>2
      <3>3. w \in Window /\ w.at = "collate" /\ w.entry = window.entry /\ w.thread \in Threads
        BY <1>3, <1>13, <3>2 DEF Window
      <3> HIDE DEF w
      <3>4. window' \in Window /\ window'.at = "collate" /\ window'.entry = window.entry
        BY <3>1, <3>3, NextPlaceTyped
      <3> QED BY <1>1, <1>3, <1>13, <3>4
    <2> QED BY <2>1, <2>2
  <1>14. CASE PickRecord
    <2>1. window.thread \in Threads /\ window.entry <= Len(registry)
      BY <1>2, <1>3, <1>14 DEF PickRecord, Threads, Window
    <2>2. CASE window' = [window EXCEPT !.at = "write"]
      <3>1. window' \in Window /\ window'.at = "write" /\ window'.thread = window.thread /\ window'.entry = window.entry
        BY <1>3, <2>2 DEF Window
      <3> QED BY <1>1, <1>3, <2>1, <3>1
    <2> QED BY <1>13, <1>14, <2>1, <2>2 DEF PickRecord
  <1>15. CASE CollateMetadata
    BY <1>13, <1>15 DEF CollateMetadata
  <1>16. CASE ShowCollated
    <2>1. window' = [window EXCEPT !.at = "sort", !.thread = 0, !.slot = 0, !.pick = 1] /\ window.entry <= Len(registry)
      BY <1>16 DEF ShowCollated
    <2>2. 0 \in Slots /\ 0 \in 0 .. ThreadCount /\ 1 \in 1 .. MaxSelected + 1
      BY <1>2 DEF Slots
    <2>3. window' \in Window /\ window'.at = "sort" /\ window'.entry = window.entry /\ window'.thread = 0 /\ window'.slot = 0
      BY <1>3, <2>1, <2>2 DEF Window
    <2> QED BY <1>1, <1>3, <2>1, <2>3
  <1>17. CASE BufferRows
    <2>1. window' = [window EXCEPT !.at = "details", !.entry = window.entry + 1] /\ window.at = "sort"
      BY <1>3, <1>17 DEF BufferRows, Window
    <2>2. window.entry + 1 \in 0 .. RegistrySize + 1
      BY <1>1, <1>3, <2>1
    <2>3. window' \in Window /\ window'.at = "details" /\ window'.thread = 0 /\ window'.slot = 0
      BY <1>3, <2>1, <2>2 DEF Window
    <2> QED BY <2>3
  <1>18. CASE EndOfFrame
    <2>1. window' = [window EXCEPT !.at = "scan", !.entry = 0] /\ window.thread = 0 /\ window.slot = 0
      BY <1>18 DEF EndOfFrame
    <2>2. 0 \in 0 .. RegistrySize + 1 /\ 0 \in Threads
      BY <1>1, <1>2 DEF Threads
    <2>3. window' \in Window /\ window'.at = "scan" /\ window'.thread = 0
      BY <1>3, <2>1, <2>2 DEF Window
    <2> QED BY <2>2, <2>3
  <1>19. ASSUME OwnerStep \/ SortRows \/ UNCHANGED vars PROVE window' = window
    BY <1>19 DEF OwnerStep, Register, UnregisterArena, ClearMemoryRecordsFor, AllocateArena, Grow, Push,
                 PushUntracked, OwnerOnly, SortRows, vars
  <1> QED BY <1>4, <1>6, <1>7, <1>8, <1>9, <1>10, <1>11, <1>12, <1>14, <1>15, <1>16, <1>17, <1>18, <1>19
          DEF Next, WindowStep

\* The rows are those of a table, or the sort is at work on them.
LEMMA SortKeeps ==
  ASSUME TypesInv, [Next]_vars
  PROVE  SortInv'
  <1> USE DEF TypesInv
  <1>1. CASE UNCHANGED sortVars \/ SortStep
    BY <1>1, SortStays
  <1>0. (packed \in Seq(Record) /\ SortBegins(packed))' => SortInv'
    BY SortBegun, PTL
  <1>2. ASSUME NEW t \in [Slots -> Record], Show(t) PROVE SortInv'
    <2>1. packed' = Pack(t) /\ packed' \in Seq(Record)
      BY <1>2, PackTyped DEF Show
    <2>2. SortBegins(packed)'
      BY <1>2 DEF Show, SortBegins
    <2>3. (packed \in Seq(Record) /\ SortBegins(packed))'
      BY <2>1, <2>2
    <2> QED BY <2>3, <1>0
  <1>3. ASSUME ShowUntracked \/ ShowCollated PROVE SortInv'
    BY <1>2, <1>3 DEF ShowUntracked, ShowCollated, TablesInv
  <1>4. CASE BufferRows
    BY <1>2, <1>4, EmptyTyped DEF BufferRows
  <1>5. ASSUME [Next]_vars, ~ShowUntracked, ~ShowCollated, ~BufferRows PROVE UNCHANGED sortVars \/ SortStep
    BY <1>5 DEF Next, vars, OwnerStep, OwnerOnly, Register, UnregisterArena, ClearMemoryRecordsFor, AllocateArena,
                Grow, Push, PushUntracked, WindowStep, LookForOwner, HandleOrphan, RegisterOrphan, List, Hidden,
                PushMemoryBargraphTable, PickRecord, CollateMetadata, SortRows, EndOfFrame
  <1> QED BY <1>1, <1>3, <1>4, <1>5

\* The indices stay in range, the registry and the selection within their sizes,
\* and the tables hold records, whatever other threads do meanwhile.
THEOREM WindowInvariant == Spec => []TypesInv
  <1>1. Init => TypesInv
    <2> SUFFICES ASSUME Init PROVE TypesInv
      OBVIOUS
    <2>1. OwnersInv
      BY WindowAssumption DEF Init, OwnersInv, Phases
    <2>2. TablesInv
      BY EmptyTyped DEF Init, TablesInv
    <2>3. RegistryInv /\ SelectionInv
      BY WindowAssumption DEF Init, RegistryInv, SelectionInv, SelectedOnce
    <2>4. WindowInv
      <3>1. 0 \in Threads /\ 0 \in 0 .. ThreadCount /\ 0 \in Slots /\ 0 \in 0 .. RegistrySize + 1 /\ 1 \in 1 .. MaxSelected + 1
        BY WindowAssumption DEF Threads, Slots
      <3> QED BY <3>1 DEF Init, WindowInv, Window, AnyArena
    <2>5. packed = << >> /\ packed \in Seq(Record) /\ SortBegins(packed)
      BY DEF Init, SortBegins
    <2> QED BY <2>1, <2>2, <2>3, <2>4, <2>5, SortBegun DEF TypesInv
  <1>2. TypesInv /\ [Next]_vars => TypesInv'
    <2> SUFFICES ASSUME TypesInv, [Next]_vars PROVE TypesInv'
      OBVIOUS
    <2> QED BY OwnersKeep, TablesKeep, RegistryKeeps, SelectionKeeps, WindowKeepsIndices, SortKeeps DEF TypesInv
  <1> QED BY <1>1, <1>2, PTL DEF Spec

\* Every variable has its type, for any number of arenas, blocks and records.
THEOREM WindowTypeOK == Spec => []TypeOK
  <1>1. TypesInv => TypeOK
    <2> SUFFICES ASSUME TypesInv PROVE TypeOK
      OBVIOUS
    <2>1. packed \in Seq(Record)
      BY DEF TypesInv, SortInv, SortTypeOK
    <2> QED BY <2>1 DEF TypesInv, TypeOK, OwnersInv, TablesInv, RegistryInv, SelectionInv, WindowInv, Window, RegistryEntry,
                        AnyArena, Phases
  <1> QED BY WindowInvariant, <1>1, PTL

\* PackSortAndBufferMemoryRecords sorts what the window shows: when both loops are
\* through, no record is below a smaller one, however many there are and however
\* many are equal.
THEOREM RowsAlwaysInOrder == Spec => []RowsInOrder
  <1>1. TypesInv => RowsInOrder
    <2> SUFFICES ASSUME TypesInv, ~Sorting PROVE RowsInOrder
      BY DEF RowsInOrder
    <2> USE DEF TypesInv
    <2>1. rows \in Seq(Record) /\ Len(rows) \in Nat /\ outer = Len(rows) + 1
      BY DEF SortInv, SortTypeOK, Sorting
    <2>2. \A i, j \in 1 .. Len(rows) : i <= j => Size(i) >= Size(j)
      BY <2>1 DEF SortInv, PrefixInOrder
    <2> QED BY <2>1, <2>2 DEF RowsInOrder, Size
  <1> QED BY <1>1, WindowInvariant, PTL

\* It loses no record and shows none twice: at every moment the rows are the packed
\* records in another order.
THEOREM RowsAlwaysPermuted == Spec => []RowsPermuted
  <1>1. TypesInv => RowsPermuted
    BY DEF TypesInv, SortInv
  <1> QED BY <1>1, WindowInvariant, PTL

\* Whatever is clicked, in whichever frame, no block is selected twice.
THEOREM SelectedOnceAlways == Spec => []SelectedOnce
  <1>1. TypesInv => SelectedOnce
    BY DEF TypesInv, SelectionInv
  <1> QED BY <1>1, WindowInvariant, PTL

(***************************************************************************)
(* FoundOnce needs to know that the arena whose owner was looked for has   *)
(* not been found before, until the registry has taken it.                 *)
(***************************************************************************)

RegistryIsSequence == \E Entry : registry \in Seq(Entry)
WindowIsRecord == {"at", "sought"} \subseteq DOMAIN window

\* What the window is about to register it has not registered before.
SoughtIsNew ==
    window.at \in {"orphan", "register"} =>
        \A i \in DOMAIN registry : registry[i].found => registry[i].arena # window.sought

FoundInv == RegistryIsSequence /\ WindowIsRecord /\ SoughtIsNew /\ FoundOnce

\* What a claim leaves of the registry.
Extended(a, found) ==
    \/ registry' = registry
    \/ \E n \in Nat :
         /\ DOMAIN registry = 1 .. n /\ DOMAIN registry' = 1 .. n + 1
         /\ \A i \in 1 .. n : registry'[i] = registry[i]
         /\ registry'[n + 1] = [arena |-> a, dead |-> FALSE, found |-> found]

LEMMA ClaimExtends ==
  ASSUME RegistryIsSequence, NEW a, NEW found \in BOOLEAN, registry' = Claimed(a, found)
  PROVE  RegistryIsSequence' /\ Extended(a, found)
  <1>1. PICK Entry : registry \in Seq(Entry)
    BY DEF RegistryIsSequence
  <1>2. CASE registry' = registry
    BY <1>1, <1>2 DEF RegistryIsSequence, Extended
  <1>3. CASE registry' = Append(registry, [arena |-> a, dead |-> FALSE, found |-> found])
    <2> DEFINE e == [arena |-> a, dead |-> FALSE, found |-> found]
    <2>1. registry \in Seq(Entry \cup {e}) /\ e \in Entry \cup {e}
      BY <1>1
    <2> HIDE DEF e
    <2>2. registry' \in Seq(Entry \cup {e})
      BY <1>3, <2>1 DEF e
    <2>3. /\ Len(registry) \in Nat /\ DOMAIN registry = 1 .. Len(registry)
          /\ DOMAIN registry' = 1 .. Len(registry) + 1
          /\ \A i \in 1 .. Len(registry) : registry'[i] = registry[i]
          /\ registry'[Len(registry) + 1] = e
      BY <1>3, <2>1 DEF e
    <2> QED BY <2>2, <2>3 DEF RegistryIsSequence, Extended, e
  <1> QED BY <1>2, <1>3 DEF Claimed

\* A claim for an arena the window did not find, or for one it had not found yet.
LEMMA ClaimKeepsFoundOnce ==
  ASSUME FoundOnce, NEW a, NEW found \in BOOLEAN, Extended(a, found),
         found => \A i \in DOMAIN registry : registry[i].found => registry[i].arena # a
  PROVE  FoundOnce'
  <1>1. CASE registry' = registry
    BY <1>1 DEF FoundOnce
  <1>2. ASSUME NEW n \in Nat, DOMAIN registry = 1 .. n, DOMAIN registry' = 1 .. n + 1,
               \A i \in 1 .. n : registry'[i] = registry[i],
               registry'[n + 1] = [arena |-> a, dead |-> FALSE, found |-> found]
        PROVE  FoundOnce'
    <2>1. \A i \in 1 .. n + 1 : i \in 1 .. n \/ i = n + 1
      OBVIOUS
    <2>2. registry'[n + 1].arena = a /\ registry'[n + 1].found = found
      BY <1>2
    <2>3. \A i, j \in 1 .. n + 1 :
            registry'[i].found /\ registry'[j].found /\ registry'[i].arena = registry'[j].arena => i = j
      BY <1>2, <2>1, <2>2 DEF FoundOnce
    <2> QED BY <1>2, <2>3 DEF FoundOnce
  <1> QED BY <1>1, <1>2 DEF Extended

\* A claim by the owner of an arena, while the window goes on as it was.
LEMMA OwnerClaimKeeps ==
  ASSUME FoundInv, NEW a, registry' = Claimed(a, FALSE), window' = window
  PROVE  FoundInv'
  <1>1. RegistryIsSequence' /\ Extended(a, FALSE)
    BY ClaimExtends DEF FoundInv
  <1>2. FoundOnce'
    BY <1>1, ClaimKeepsFoundOnce DEF FoundInv
  <1>3. \A i \in DOMAIN registry' : registry'[i].found => i \in DOMAIN registry /\ registry'[i] = registry[i]
    <2>1. ASSUME NEW n \in Nat, DOMAIN registry = 1 .. n, DOMAIN registry' = 1 .. n + 1,
                 \A i \in 1 .. n : registry'[i] = registry[i],
                 registry'[n + 1] = [arena |-> a, dead |-> FALSE, found |-> FALSE]
          PROVE  \A i \in DOMAIN registry' : registry'[i].found => i \in DOMAIN registry /\ registry'[i] = registry[i]
      <3>1. \A i \in 1 .. n + 1 : i \in 1 .. n \/ i = n + 1
        OBVIOUS
      <3>2. ~registry'[n + 1].found
        <4>1. ASSUME NEW slot, slot = [arena |-> a, dead |-> FALSE, found |-> FALSE]
              PROVE  ~slot.found
          BY <4>1
        <4> QED BY <2>1, <4>1
      <3> QED BY <2>1, <3>1, <3>2
    <2> QED BY <1>1, <2>1 DEF Extended
  <1>4. SoughtIsNew'
    BY <1>3 DEF FoundInv, SoughtIsNew
  <1> QED BY <1>1, <1>2, <1>4 DEF FoundInv, WindowIsRecord

\* An owner that leaves the registry may tombstone slots, no more.
LEMMA UnregisterKeeps ==
  ASSUME FoundInv, NEW a, UnregisterArena(a)
  PROVE  FoundInv'
  <1>1. PICK Entry : registry \in Seq(Entry)
    BY DEF FoundInv, RegistryIsSequence
  <1>2. PICK n \in Nat : DOMAIN registry = 1 .. n
    BY <1>1
  <1>3. registry' = [i \in 1 .. n |-> IF registry[i].arena = a THEN [registry[i] EXCEPT !.dead = TRUE] ELSE registry[i]]
    BY <1>2 DEF UnregisterArena
  <1>4. window' = window
    BY DEF UnregisterArena, OwnerOnly
  <1>5. \A i \in 1 .. n : registry'[i].found = registry[i].found /\ registry'[i].arena = registry[i].arena
    BY <1>3
  <1>6. RegistryIsSequence'
    <2>1. registry' \in Seq({registry'[i] : i \in 1 .. n})
      BY <1>3
    <2> QED BY <2>1 DEF RegistryIsSequence
  <1>7. DOMAIN registry' = 1 .. n
    BY <1>3
  <1>8. FoundOnce'
    BY <1>2, <1>5, <1>7 DEF FoundInv, FoundOnce
  <1>9. SoughtIsNew'
    BY <1>2, <1>4, <1>5, <1>7 DEF FoundInv, SoughtIsNew
  <1> QED BY <1>4, <1>6, <1>8, <1>9 DEF FoundInv, WindowIsRecord

\* The window goes on to the next record, or to the list.
LEMMA NextSlotLeaves ==
  ASSUME WindowIsRecord, NextSlot
  PROVE  WindowIsRecord' /\ window'.at \in {"scan", "list"}
  <1> DEFINE w == [window EXCEPT !.arena = Null, !.sought = Null]
             then == NextPlace(w)
  <1>1. DOMAIN then = DOMAIN window
    <2>1. DOMAIN w = DOMAIN window
      OBVIOUS
    <2> HIDE DEF w
    <2> QED BY <2>1 DEF NextPlace
  <1>2. \/ window' = [then EXCEPT !.at = "scan"]
        \/ window' = [then EXCEPT !.at = "list", !.thread = 0]
    BY DEF NextSlot
  <1> HIDE DEF then
  <1>3. DOMAIN window' = DOMAIN window /\ (window'.at = "scan" \/ window'.at = "list")
    BY <1>1, <1>2 DEF WindowIsRecord
  <1> QED BY <1>3 DEF WindowIsRecord

LEMMA AdvanceLeaves ==
  ASSUME WindowIsRecord, Advance
  PROVE  WindowIsRecord' /\ window'.at = "collate"
  <1> DEFINE w == [window EXCEPT !.at = "collate", !.pick = 1]
  <1>1. CASE window.pick < Len(selection)
    BY <1>1 DEF Advance, WindowIsRecord
  <1>2. CASE ~(window.pick < Len(selection))
    <2>1. window' = NextPlace(w) /\ DOMAIN w = DOMAIN window /\ w.at = "collate"
      BY <1>2 DEF Advance, WindowIsRecord
    <2> HIDE DEF w
    <2> QED BY <2>1 DEF NextPlace, WindowIsRecord
  <1> QED BY <1>1, <1>2

\* The steps of the window that leave the registry alone.
LEMMA WindowKeeps ==
  ASSUME FoundInv, registry' = registry, WindowIsRecord', SoughtIsNew'
  PROVE  FoundInv'
  BY DEF FoundInv, RegistryIsSequence, FoundOnce

\* The window registers an arena it found in each of its frames at most once, so
\* an arena freed while records of it are left does not fill the registry.
THEOREM FoundOnceAlways == Spec => []FoundOnce
  <1>1. Init => FoundInv
    BY DEF Init, FoundInv, RegistryIsSequence, WindowIsRecord, SoughtIsNew, FoundOnce
  <1>2. FoundInv /\ [Next]_vars => FoundInv'
    <2> SUFFICES ASSUME FoundInv, [Next]_vars PROVE FoundInv'
      OBVIOUS
    <2> USE DEF FoundInv
    <2>1. ASSUME NEW a \in Arenas, Register(a) PROVE FoundInv'
      BY <2>1, OwnerClaimKeeps DEF Register, OwnerOnly
    <2>2. ASSUME NEW a \in Arenas, UnregisterArena(a) PROVE FoundInv'
      BY <2>2, UnregisterKeeps
    <2>3. CASE registry' = registry /\ window' = window
      BY <2>3, WindowKeeps DEF WindowIsRecord, SoughtIsNew
    <2>4. CASE LookForOwner
      <3>1. CASE window' = [window EXCEPT !.at = "orphan", !.sought = Current.arena]
                 /\ ~Owned(Current.arena)
        <4>1. WindowIsRecord' /\ SoughtIsNew'
          BY <2>4, <3>1 DEF LookForOwner, WindowIsRecord, SoughtIsNew, Owned
        <4> QED BY <2>4, <4>1, WindowKeeps DEF LookForOwner
      <3>2. CASE NextSlot
        <4>1. WindowIsRecord' /\ SoughtIsNew'
          BY <3>2, NextSlotLeaves DEF SoughtIsNew
        <4> QED BY <2>4, <4>1, WindowKeeps DEF LookForOwner
      <3> QED BY <2>4, <3>1, <3>2 DEF LookForOwner
    <2>5. CASE HandleOrphan
      <3>1. CASE NextSlot
        <4>1. WindowIsRecord' /\ SoughtIsNew'
          BY <3>1, NextSlotLeaves DEF SoughtIsNew
        <4> QED BY <2>5, <4>1, WindowKeeps DEF HandleOrphan
      <3>2. CASE window' = [window EXCEPT !.at = "register", !.arena = Current.arena]
        <4>1. WindowIsRecord' /\ window'.sought = window.sought
          BY <3>2 DEF WindowIsRecord
        <4>2. SoughtIsNew'
          BY <2>5, <4>1 DEF HandleOrphan, SoughtIsNew
        <4> QED BY <2>5, <4>1, <4>2, WindowKeeps DEF HandleOrphan
      <3> QED BY <2>5, <3>1, <3>2 DEF HandleOrphan
    <2>6. CASE RegisterOrphan
      <3>1. registry' = Claimed(window.arena, window.arena = window.sought) /\ NextSlot /\ window.at = "register"
        BY <2>6 DEF RegisterOrphan
      <3>2. RegistryIsSequence' /\ Extended(window.arena, window.arena = window.sought)
        BY <3>1, ClaimExtends
      <3>3. FoundOnce'
        BY <3>1, <3>2, ClaimKeepsFoundOnce DEF SoughtIsNew
      <3>4. WindowIsRecord' /\ SoughtIsNew'
        BY <3>1, NextSlotLeaves DEF SoughtIsNew
      <3> QED BY <3>2, <3>3, <3>4
    <2>7. ASSUME registry' = registry, window' = window \/ window'.at \notin {"orphan", "register"}, WindowIsRecord'
          PROVE  FoundInv'
      BY <2>7, WindowKeeps DEF SoughtIsNew
    <2>8. ASSUME List \/ ShowUntracked \/ PushMemoryBargraphTable \/ CollateMetadata \/ ShowCollated \/ BufferRows
                 \/ EndOfFrame
          PROVE  FoundInv'
      BY <2>7, <2>8, AdvanceLeaves DEF List, ShowUntracked, PushMemoryBargraphTable, CollateMetadata, ShowCollated, BufferRows,
                        EndOfFrame, WindowIsRecord
    <2>9. ASSUME Hidden \/ PickRecord PROVE FoundInv'
      BY <2>7, <2>9, AdvanceLeaves DEF Hidden, PickRecord, WindowIsRecord
    <2>10. ASSUME SortRows \/ UNCHANGED vars
           PROVE  registry' = registry /\ window' = window
      BY <2>10 DEF SortRows, vars
    <2>11. ASSUME \/ \E a \in Arenas : ClearMemoryRecordsFor(a)
                  \/ \E a \in Arenas, s \in Starts : AllocateArena(a, s) \/ Grow(a, s)
                  \/ \E t \in Threads, a \in Arenas, n \in Names, s \in Shapes : Push(t, a, n, s)
                  \/ \E t \in Threads, n \in Names, s \in Shapes : PushUntracked(t, n, s)
           PROVE  registry' = registry /\ window' = window
      BY <2>11 DEF AllocateArena, Grow, Push, PushUntracked, ClearMemoryRecordsFor, OwnerOnly
    <2>12. CASE OwnerStep
      BY <2>1, <2>2, <2>3, <2>11, <2>12 DEF OwnerStep
    <2>13. CASE WindowStep
      BY <2>3, <2>4, <2>5, <2>6, <2>8, <2>9, <2>10, <2>13 DEF WindowStep
    <2> QED BY <2>3, <2>10, <2>12, <2>13 DEF Next
  <1> QED BY <1>1, <1>2, PTL DEF Spec, FoundInv
(***************************************************************************)
(* The collation.  What CollateMetadata has been through so far is written *)
(* down as a table of its own, of the records it has taken from the tables *)
(* of all threads; the collated table then shows that table's kinds, each  *)
(* once and with all its pushes, or has no slot left and not one of the    *)
(* kind.  That it does needs the probing to find a record that is there,   *)
(* which is so as long as nothing is ever taken out of the table, and that *)
(* a kind once left out is left out to the end, which is so because a full *)
(* table takes no new kind.                                                *)
(***************************************************************************)

\* PushesShareHeadArena, but for the arena.
Alike(r, q) == Kind(r) = Kind(q)

\* From a record's home to its place every slot is taken.
Chained(t) ==
    \A i \in Slots : Named(t[i]) =>
        \E m \in Slots : Place(t[i], m) = i /\ \A k \in Slots : k < m => Named(t[Place(t[i], k)])

ApartIn(t) == \A i, j \in Slots : Named(t[i]) /\ Named(t[j]) /\ Alike(t[i], t[j]) => i = j

OfArena(t, a) == \A i \in Slots : Named(t[i]) => t[i].arena = a

\* The pushes of a kind in the records that a function has on a set.
Pushed(f, D, k) == [x \in D |-> IF Kind(f[x]) = k THEN f[x].pushes ELSE 0]
Total(f, D, k) == SumFunctionOnSet(Pushed(f, D, k), D)

\* There is no slot for a kind, nor one of that kind.
LeftOut(t, k) == \A i \in Slots : Named(t[i]) /\ Kind(t[i]) # k

\* Of each kind the table shows the total of what has been taken, or nothing.
Accounts(t, s) == \A k \in Kinds : Total(t, Slots, k) = Total(s, TablePlaces, k) \/ LeftOut(t, k)

\* Table t shows what the taken records s hold of arena a.
Collates(t, s, a) == Chained(t) /\ ApartIn(t) /\ OfArena(t, a) /\ Accounts(t, s)

\* The records that the loops have been through and found relevant.
Here == <<window.thread, window.slot>>
Passed(p, n) ==
    \/ p[1] < window.thread
    \/ p[1] = window.thread /\ p[2] < window.slot
    \/ p[1] = window.thread /\ p[2] = window.slot /\ n < window.pick
Taken(p) ==
    /\ RecordAt(p).arena = registry[window.entry].arena
    /\ \E n \in DOMAIN selection : Passed(p, n) /\ RecordAt(p).start = selection[n]
TakenTable == [p \in TablePlaces |-> IF Taken(p) THEN RecordAt(p) ELSE NoRecord]

Collating == window.at \in {"collate", "write"}

\* The table is empty between two collations, and a record about to be written is
\* relevant.
CollateSteps ==
    /\ window.at \in {"details", "sort"} => table = EmptyTable
    /\ window.at \in {"details", "collate", "write"} => window.entry >= 1
    /\ Collating => window.pick <= Len(selection) \/ selection = << >>
    /\ window.at = "write" => window.pick <= Len(selection)
    /\ window.at = "write" /\ steady => Relevant(Current)

CollateInv ==
    /\ CollateSteps
    /\ Collating /\ steady => Collates(table, TakenTable, registry[window.entry].arena)
    /\ CollatedWhole

LEMMA SmallRemainders ==
  ASSUME NEW n \in Nat, n > 0, NEW r \in 0 .. n - 1
  PROVE  r % n = r /\ (r + n) % n = r
  BY SMT

\* A probe passes every slot.
LEMMA ProbeOnto ==
  ASSUME NEW h \in Slots, NEW i \in Slots
  PROVE  \E n \in Slots : (h + n) % TableSize = i
  <1>1. TableSize \in Nat /\ TableSize > 0 /\ h \in 0 .. TableSize - 1 /\ i \in 0 .. TableSize - 1
    BY WindowAssumption DEF Slots
  <1>2. i % TableSize = i /\ (i + TableSize) % TableSize = i
    BY <1>1, SmallRemainders
  <1>3. CASE h <= i
    <2>1. i - h \in Slots /\ h + (i - h) = i
      BY <1>1, <1>3 DEF Slots
    <2> QED BY <1>2, <2>1
  <1>4. CASE ~(h <= i)
    <2>1. i - h + TableSize \in Slots /\ h + (i - h + TableSize) = i + TableSize
      BY <1>1, <1>4 DEF Slots
    <2> QED BY <1>2, <2>1
  <1> QED BY <1>3, <1>4

LEMMA SlotsFinite == IsFiniteSet(Slots) /\ Cardinality(Slots) = TableSize
  <1>1. TableSize - 1 \in Int /\ TableSize \in Nat /\ TableSize > 0
    BY WindowAssumption
  <1> QED BY <1>1, FS_Interval DEF Slots

LEMMA PlacesFinite == IsFiniteSet(TablePlaces) /\ \A p \in TablePlaces : p = <<p[1], p[2]>> /\ p[1] \in Threads /\ p[2] \in Slots
  <1>1. ThreadCount - 1 \in Int
    BY WindowAssumption
  <1>2. IsFiniteSet(Threads)
    BY <1>1, FS_Interval DEF Threads
  <1>3. IsFiniteSet(Threads \X Slots)
    BY <1>2, SlotsFinite, FS_Product
  <1> QED BY <1>3 DEF TablePlaces

\* A slot without a name is of no kind.
LEMMA UnnamedOfNoKind ==
  ASSUME NEW r, ~Named(r)
  PROVE  \A k \in Kinds : Kind(r) # k
  <1>1. \A k \in Kinds : k[1] \in Names
    BY DEF Kinds
  <1>2. Kind(r)[1] = NoName
    BY DEF Kind, Named
  <1> QED BY <1>1, <1>2, WindowAssumption

LEMMA HomeInSlots ==
  ASSUME NEW q \in Record, Named(q)
  PROVE  Home[q.name] \in Slots
  BY WindowAssumption DEF Record, Named, Slots

LEMMA PlaceInSlots ==
  ASSUME NEW q \in Record, Named(q), NEW n \in Slots
  PROVE  Place(q, n) \in Slots
  <1>1. n \in Nat
    BY DEF Slots
  <1> QED BY <1>1, HomeInSlots, ProbeSlot DEF Place

LEMMA SharingSlots ==
  ASSUME NEW t \in [Slots -> Record], NEW q \in Record, NEW a, OfArena(t, a), q.arena = a, NEW i \in Slots, Named(t[i])
  PROVE  i \in SlotsSharing(t, q) <=> Alike(t[i], q)
  <1>1. t[i].arena = q.arena
    BY DEF OfArena
  <1> QED BY <1>1 DEF SlotsSharing, PushesShareHeadArena, Alike, Kind

\* Without room for a record there is none for its kind.
LEMMA NoRoom ==
  ASSUME NEW t \in [Slots -> Record], NEW q \in Record, Named(q), NEW a, OfArena(t, a), q.arena = a,
         Room(q, t, SlotsSharing(t, q)) = {}
  PROVE  LeftOut(t, Kind(q))
  <1> SUFFICES ASSUME NEW i \in Slots PROVE Named(t[i]) /\ Kind(t[i]) # Kind(q)
    BY DEF LeftOut
  <1>1. PICK n \in Slots : Place(q, n) = i
    BY HomeInSlots, ProbeOnto DEF Place
  <1>2. n \notin Room(q, t, SlotsSharing(t, q))
    OBVIOUS
  <1>3. Named(t[i]) /\ i \notin SlotsSharing(t, q)
    BY <1>1, <1>2 DEF Room
  <1> QED BY <1>3, SharingSlots DEF Alike

LEMMA PushedNumbers ==
  ASSUME NEW D, NEW f \in [D -> Record], NEW k
  PROVE  \A x \in D : Pushed(f, D, k)[x] \in Nat
  <1>1. \A x \in D : f[x].pushes \in Nat
    BY DEF Record
  <1> QED BY <1>1 DEF Pushed

LEMMA TotalNumber ==
  ASSUME NEW D, IsFiniteSet(D), NEW f \in [D -> Record], NEW k
  PROVE  Total(f, D, k) \in Nat
  BY PushedNumbers, SumNat DEF Total

RecordPut(t, i, q, u) == u = [t EXCEPT ![i] = q]
PushesPut(t, i, m, u) == u = [t EXCEPT ![i].pushes = @ + m]

\* A record in an empty place adds its pushes to those of its kind.
LEMMA TotalWithRecord ==
  ASSUME NEW D, IsFiniteSet(D), NEW t \in [D -> Record], NEW i \in D, ~Named(t[i]), NEW q \in Record,
         NEW k \in Kinds, NEW u, RecordPut(t, i, q, u)
  PROVE  Total(u, D, k) = Total(t, D, k) + (IF Kind(q) = k THEN q.pushes ELSE 0)
  <1>1. u \in [D -> Record] /\ u[i] = q /\ \A x \in D \ {i} : u[x] = t[x]
    BY DEF RecordPut
  <1>2. Pushed(t, D, k)[i] = 0
    BY UnnamedOfNoKind DEF Pushed
  <1>3. Pushed(u, D, k)[i] = IF Kind(q) = k THEN q.pushes ELSE 0
    BY <1>1 DEF Pushed
  <1>4. \A x \in D \ {i} : Pushed(u, D, k)[x] = Pushed(t, D, k)[x]
    BY <1>1 DEF Pushed
  <1>5. \A x \in D : Pushed(t, D, k)[x] \in Int /\ Pushed(u, D, k)[x] \in Int
    <2>1. \A x \in D : Pushed(t, D, k)[x] \in Nat /\ Pushed(u, D, k)[x] \in Nat
      BY <1>1, PushedNumbers
    <2> QED BY <2>1
  <1>6. Total(u, D, k) = Total(t, D, k) + (Pushed(u, D, k)[i] - Pushed(t, D, k)[i])
    BY <1>4, <1>5, SumUpdate DEF Total
  <1>7. Pushed(u, D, k)[i] - Pushed(t, D, k)[i] = Pushed(u, D, k)[i]
    BY <1>2, <1>5
  <1> QED BY <1>3, <1>6, <1>7

\* More pushes in a slot add to those of its kind.
LEMMA TotalWithPushes ==
  ASSUME NEW t \in [Slots -> Record], NEW i \in Slots, NEW m \in Nat, NEW k, NEW u, PushesPut(t, i, m, u)
  PROVE  Total(u, Slots, k) = Total(t, Slots, k) + (IF Kind(t[i]) = k THEN m ELSE 0)
  <1>1. t[i] \in Record /\ t[i].pushes \in Nat
    BY DEF Record
  <1>2. /\ u[i] = [t[i] EXCEPT !.pushes = t[i].pushes + m]
        /\ u = [x \in Slots |-> u[x]]
        /\ \A x \in Slots \ {i} : u[x] = t[x]
    BY DEF PushesPut
  <1>3. /\ u[i] \in Record /\ u[i].name = t[i].name /\ u[i].shape = t[i].shape /\ u[i].thread = t[i].thread
        /\ u[i].pushes = t[i].pushes + m
    BY <1>1, <1>2 DEF Record
  <1>4. u \in [Slots -> Record]
    BY <1>2, <1>3
  <1>5. \A x \in Slots \ {i} : Pushed(u, Slots, k)[x] = Pushed(t, Slots, k)[x]
    BY <1>2 DEF Pushed
  <1>6. \A x \in Slots : Pushed(t, Slots, k)[x] \in Int /\ Pushed(u, Slots, k)[x] \in Int
    <2>1. \A x \in Slots : Pushed(t, Slots, k)[x] \in Nat /\ Pushed(u, Slots, k)[x] \in Nat
      BY <1>4, PushedNumbers
    <2> QED BY <2>1
  <1>7. Total(u, Slots, k) = Total(t, Slots, k) + (Pushed(u, Slots, k)[i] - Pushed(t, Slots, k)[i])
    BY <1>5, <1>6, SlotsFinite, SumUpdate DEF Total
  <1>8. Kind(u[i]) = Kind(t[i])
    BY <1>3 DEF Kind
  <1>9. Pushed(u, Slots, k)[i] - Pushed(t, Slots, k)[i] = IF Kind(t[i]) = k THEN m ELSE 0
    BY <1>1, <1>3, <1>8 DEF Pushed
  <1> QED BY <1>7, <1>9

\* One more record is taken from the tables that are gone through, and put into
\* the collated one or left out.
LEMMA CollateOne ==
  ASSUME NEW t \in [Slots -> Record], NEW s \in [TablePlaces -> Record], NEW a, Collates(t, s, a),
         NEW j \in TablePlaces, ~Named(s[j]), NEW q \in Record, q.arena = a
  PROVE  Collates(WriteToMetaTable(q, t, SlotsSharing(t, q)), [s EXCEPT ![j] = q], a)
  <1> DEFINE matching == SlotsSharing(t, q)
             u == WriteToMetaTable(q, t, matching)
             v == [s EXCEPT ![j] = q]
  <1>1. Chained(t) /\ ApartIn(t) /\ OfArena(t, a) /\ Accounts(t, s)
    BY DEF Collates
  <1>2. \A k \in Kinds :
          Total(v, TablePlaces, k) = Total(s, TablePlaces, k) + (IF Kind(q) = k THEN q.pushes ELSE 0)
    <2> SUFFICES ASSUME NEW k \in Kinds
                 PROVE  Total(v, TablePlaces, k) = Total(s, TablePlaces, k) + (IF Kind(q) = k THEN q.pushes ELSE 0)
      OBVIOUS
    <2>1. RecordPut(s, j, q, v)
      BY DEF RecordPut
    <2> HIDE DEF v
    <2> QED BY <2>1, PlacesFinite, TotalWithRecord
  <1> HIDE DEF matching, u, v
  <1>3. \A k \in Kinds : Kind(q) # k => Total(v, TablePlaces, k) = Total(s, TablePlaces, k)
    <2> SUFFICES ASSUME NEW k \in Kinds, Kind(q) # k PROVE Total(v, TablePlaces, k) = Total(s, TablePlaces, k)
      OBVIOUS
    <2>1. Total(v, TablePlaces, k) = Total(s, TablePlaces, k) + 0
      BY <1>2
    <2>2. Total(s, TablePlaces, k) \in Nat
      BY PlacesFinite, TotalNumber
    <2> QED BY <2>1, <2>2
  <1>4. CASE ~Named(q) \/ Room(q, t, matching) = {}
    <2>1. u = t
      BY <1>4, WriteOutcome DEF u
    <2>2. ~Named(q) => \A k \in Kinds : Kind(q) # k
      BY UnnamedOfNoKind
    <2>3. Named(q) => LeftOut(t, Kind(q))
      BY <1>1, <1>4, NoRoom DEF matching
    <2>4. Accounts(t, v)
      BY <1>1, <1>3, <2>2, <2>3 DEF Accounts
    <2>5. Collates(t, v, a)
      BY <1>1, <2>4 DEF Collates
    <2> QED BY <2>1, <2>5 DEF u, v, matching
  <1>5. CASE Named(q) /\ Room(q, t, matching) # {}
    <2>1. PICK i \in Slots :
            /\ \E m \in Slots : Place(q, m) = i /\ \A k \in Slots : k < m => Named(t[Place(q, k)]) /\ Place(q, k) \notin matching
            /\ \/ Named(t[i]) /\ i \in matching /\ u = [t EXCEPT ![i].pushes = @ + q.pushes]
               \/ ~Named(t[i]) /\ u = [t EXCEPT ![i] = q]
      <3>1. Written(q, t, matching, u)
        BY <1>5, WriteOutcome DEF u
      <3> QED BY <3>1 DEF Written
    <2>2. CASE Named(t[i]) /\ i \in matching /\ u = [t EXCEPT ![i].pushes = @ + q.pushes]
      <3>1. Alike(t[i], q)
        BY <1>1, <2>2, SharingSlots DEF matching
      <3>2. q.pushes \in Nat /\ t[i] \in Record
        BY DEF Record
      <3>3. \A k \in Slots : u[k].name = t[k].name /\ Kind(u[k]) = Kind(t[k]) /\ u[k].arena = t[k].arena
        <4>1. u[i] = [t[i] EXCEPT !.pushes = t[i].pushes + q.pushes] /\ \A k \in Slots \ {i} : u[k] = t[k]
          BY <2>2
        <4>2. u[i].name = t[i].name /\ Kind(u[i]) = Kind(t[i]) /\ u[i].arena = t[i].arena
          BY <3>2, <4>1 DEF Record, Kind
        <4> QED BY <4>1, <4>2
      <3>4. /\ \A k \in Slots : Named(u[k]) <=> Named(t[k])
            /\ \A k \in Slots : \A m : Place(u[k], m) = Place(t[k], m)
            /\ \A k \in Slots : \A r : Alike(u[k], r) <=> Alike(t[k], r)
            /\ \A k, l \in Slots : Alike(u[k], u[l]) <=> Alike(t[k], t[l])
        BY <3>3 DEF Named, Place, Alike
      <3>5. Chained(u)
        <4> SUFFICES ASSUME NEW k \in Slots, Named(u[k])
                     PROVE  \E m \in Slots : Place(u[k], m) = k /\ \A l \in Slots : l < m => Named(u[Place(u[k], l)])
          BY DEF Chained
        <4>1. PICK m \in Slots : Place(t[k], m) = k /\ \A l \in Slots : l < m => Named(t[Place(t[k], l)])
          BY <1>1, <3>4 DEF Chained
        <4>2. \A l \in Slots : Place(t[k], l) \in Slots
          BY <3>4, PlaceInSlots
        <4> QED BY <3>4, <4>1, <4>2
      <3>6. ApartIn(u) /\ OfArena(u, a)
        BY <1>1, <3>3, <3>4 DEF ApartIn, OfArena
      <3>7. Accounts(u, v)
        <4> SUFFICES ASSUME NEW k \in Kinds PROVE Total(u, Slots, k) = Total(v, TablePlaces, k) \/ LeftOut(u, k)
          BY DEF Accounts
        <4>1. Kind(t[i]) = Kind(q)
          BY <3>1 DEF Alike
        <4>2. Total(u, Slots, k) = Total(t, Slots, k) + (IF Kind(t[i]) = k THEN q.pushes ELSE 0)
          <5>1. PushesPut(t, i, q.pushes, u)
            BY <2>2 DEF PushesPut
          <5> QED BY <3>2, <5>1, TotalWithPushes
        <4>3. LeftOut(t, k) => LeftOut(u, k)
          BY <3>3, <3>4 DEF LeftOut
        <4>4. Total(t, Slots, k) = Total(s, TablePlaces, k) \/ LeftOut(t, k)
          BY <1>1 DEF Accounts
        <4> QED BY <1>2, <4>1, <4>2, <4>3, <4>4
      <3>8. Collates(u, v, a)
        BY <3>5, <3>6, <3>7 DEF Collates
      <3> QED BY <3>8 DEF u, v, matching
    <2>3. CASE ~Named(t[i]) /\ u = [t EXCEPT ![i] = q]
      <3>1. u[i] = q /\ \A k \in Slots \ {i} : u[k] = t[k]
        BY <2>3
      <3>2. PICK m \in Slots : Place(q, m) = i /\ \A k \in Slots : k < m => Named(t[Place(q, k)]) /\ Place(q, k) \notin matching
        BY <2>1
      <3>3. \A k \in Slots : Named(t[k]) => k # i /\ Named(u[k]) /\ u[k] = t[k]
        BY <2>3, <3>1
      <3>4. ASSUME NEW k \in Slots, Named(t[k]), Alike(t[k], q) PROVE FALSE
        <4>1. k \in matching
          BY <1>1, <3>4, SharingSlots DEF matching
        <4>2. PICK n \in Slots : Place(t[k], n) = k /\ \A l \in Slots : l < n => Named(t[Place(t[k], l)])
          BY <1>1, <3>4 DEF Chained
        <4>3. \A l : Place(t[k], l) = Place(q, l)
          BY <3>4 DEF Place, Alike, Kind
        <4>4. n < m \/ n = m \/ m < n
          BY DEF Slots
        <4> QED BY <2>3, <3>2, <3>4, <4>1, <4>2, <4>3, <4>4
      <3>5. Chained(u)
        <4> SUFFICES ASSUME NEW k \in Slots, Named(u[k])
                     PROVE  \E n \in Slots : Place(u[k], n) = k /\ \A l \in Slots : l < n => Named(u[Place(u[k], l)])
          BY DEF Chained
        <4>1. u[k] \in Record
          BY <3>1
        <4>2. \A l \in Slots : Place(u[k], l) \in Slots
          BY <4>1, PlaceInSlots
        <4>3. CASE k = i
          BY <3>1, <3>2, <3>3, <4>2, <4>3
        <4>4. CASE k # i
          <5>1. u[k] = t[k]
            BY <3>1, <4>4
          <5>2. PICK n \in Slots : Place(t[k], n) = k /\ \A l \in Slots : l < n => Named(t[Place(t[k], l)])
            BY <1>1, <5>1 DEF Chained
          <5> QED BY <3>3, <4>2, <5>1, <5>2
        <4> QED BY <4>3, <4>4
      <3>6. ApartIn(u)
        <4> SUFFICES ASSUME NEW k \in Slots, NEW l \in Slots, Named(u[k]), Named(u[l]), Alike(u[k], u[l]), k # l
                     PROVE  FALSE
          BY DEF ApartIn
        <4>1. CASE k # i /\ l # i
          BY <1>1, <3>1, <4>1 DEF ApartIn
        <4>2. CASE k = i
          <5>1. u[k] = q /\ u[l] = t[l]
            BY <3>1, <4>2
          <5>2. Named(t[l]) /\ Alike(t[l], q)
            BY <5>1 DEF Alike
          <5> QED BY <3>4, <5>2
        <4>3. CASE l = i
          <5>1. u[l] = q /\ u[k] = t[k]
            BY <3>1, <4>3
          <5>2. Named(t[k]) /\ Alike(t[k], q)
            BY <5>1
          <5> QED BY <3>4, <5>2
        <4> QED BY <4>1, <4>2, <4>3
      <3>7. OfArena(u, a)
        BY <1>1, <3>1 DEF OfArena
      <3>8. Accounts(u, v)
        <4> SUFFICES ASSUME NEW k \in Kinds PROVE Total(u, Slots, k) = Total(v, TablePlaces, k)
          BY DEF Accounts
        <4>1. Total(u, Slots, k) = Total(t, Slots, k) + (IF Kind(q) = k THEN q.pushes ELSE 0)
          <5>1. RecordPut(t, i, q, u)
            BY <2>3 DEF RecordPut
          <5> QED BY <2>3, <5>1, SlotsFinite, TotalWithRecord
        <4>2. Total(t, Slots, k) = Total(s, TablePlaces, k)
          BY <1>1, <2>3 DEF Accounts, LeftOut
        <4> QED BY <1>2, <4>1, <4>2
      <3>9. Collates(u, v, a)
        BY <3>5, <3>6, <3>7, <3>8 DEF Collates
      <3> QED BY <3>9 DEF u, v, matching
    <2> QED BY <2>1, <2>2, <2>3
  <1> QED BY <1>4, <1>5

(***************************************************************************)
(* The rows of a table that shows no kind twice show none twice, with the  *)
(* same pushes, and those of a full table are as many as its slots.        *)
(***************************************************************************)

RowPushes(p, k) == [x \in DOMAIN p |-> IF Kind(p[x]) = k THEN p[x].pushes ELSE 0]

\* The rows of the first m slots.
RowsOf(t, m, p) ==
    /\ \A x \in 1 .. Len(p) : \E i \in Slots : i < m /\ Named(t[i]) /\ p[x] = t[i]
    /\ \A x, y \in 1 .. Len(p) : Alike(p[x], p[y]) => x = y
    /\ \A k \in Kinds :
         SumFunctionOnSet(RowPushes(p, k), 1 .. Len(p)) = SumFunctionOnSet(Pushed(t, Slots, k), {i \in Slots : i < m})
    /\ (\A i \in Slots : i < m => Named(t[i])) => Len(p) = m

LEMMA FirstSlots ==
  ASSUME NEW m \in Slots
  PROVE  /\ {i \in Slots : i < m + 1} = {i \in Slots : i < m} \cup {m}
         /\ m \notin {i \in Slots : i < m} /\ IsFiniteSet({i \in Slots : i < m})
  <1>1. \A i \in Slots : i \in Nat
    BY DEF Slots
  <1>2. \A i \in Slots : i < m + 1 <=> i < m \/ i = m
    BY <1>1
  <1>3. {i \in Slots : i < m} \in SUBSET Slots
    OBVIOUS
  <1>4. IsFiniteSet({i \in Slots : i < m})
    <2> DEFINE low == {i \in Slots : i < m}
    <2>1. low \in SUBSET Slots
      OBVIOUS
    <2> HIDE DEF low
    <2>2. IsFiniteSet(low)
      BY <2>1, SlotsFinite, FS_Subset
    <2> QED BY <2>2 DEF low
  <1>5. ~(m < m)
    BY <1>1
  <1> QED BY <1>2, <1>4, <1>5

LEMMA NoRows ==
  ASSUME NEW t \in [Slots -> Record]
  PROVE  RowsOf(t, 0, << >>)
  <1>1. {i \in Slots : i < 0} = {}
    BY DEF Slots
  <1>2. Len(<< >>) = 0 /\ 1 .. Len(<< >>) = {}
    OBVIOUS
  <1> QED BY <1>1, <1>2, SumEmpty DEF RowsOf

LEMMA RowAdded ==
  ASSUME NEW t \in [Slots -> Record], ApartIn(t), NEW m \in Slots, NEW p \in Seq(Record), RowsOf(t, m, p), Named(t[m])
  PROVE  RowsOf(t, m + 1, Append(p, t[m]))
  <1> DEFINE L == Len(p)
             r == Append(p, t[m])
  <1>1. L \in Nat /\ t[m] \in Record /\ m \in Nat
    BY DEF Slots
  <1>2. /\ r \in Seq(Record) /\ Len(r) = L + 1 /\ r[L + 1] = t[m]
        /\ \A k \in 1 .. L : r[k] = p[k]
        /\ DOMAIN r = 1 .. L + 1 /\ DOMAIN p = 1 .. L
    BY <1>1
  <1>3. /\ 1 .. L + 1 = (1 .. L) \cup {L + 1} /\ L + 1 \notin 1 .. L
        /\ \A k \in 1 .. L + 1 : k \in 1 .. L \/ k = L + 1
    BY <1>1
  <1>4. /\ \A k \in 1 .. L : \E i \in Slots : i < m /\ Named(t[i]) /\ p[k] = t[i]
        /\ \A k, l \in 1 .. L : Alike(p[k], p[l]) => k = l
        /\ (\A i \in Slots : i < m => Named(t[i])) => L = m
    BY DEF RowsOf
  <1>5. \A k \in Kinds :
          SumFunctionOnSet(RowPushes(p, k), 1 .. L) = SumFunctionOnSet(Pushed(t, Slots, k), {i \in Slots : i < m})
    BY DEF RowsOf
  <1> HIDE DEF L, r
  <1>6. \A i \in Slots : i < m => i < m + 1 /\ i # m
    BY <1>1 DEF Slots
  <1>7. m < m + 1
    BY <1>1
  <1>8. \A k \in 1 .. L + 1 : \E i \in Slots : i < m + 1 /\ Named(t[i]) /\ r[k] = t[i]
    BY <1>2, <1>3, <1>4, <1>6, <1>7
  <1>9. \A k, l \in 1 .. L + 1 : Alike(r[k], r[l]) => k = l
    <2> SUFFICES ASSUME NEW k \in 1 .. L + 1, NEW l \in 1 .. L + 1, Alike(r[k], r[l]), k # l PROVE FALSE
      OBVIOUS
    <2>1. CASE k \in 1 .. L /\ l \in 1 .. L
      BY <1>2, <1>4, <2>1
    <2>2. CASE k \in 1 .. L /\ l = L + 1
      <3>1. PICK i \in Slots : i < m /\ Named(t[i]) /\ r[k] = t[i]
        BY <1>2, <1>4, <2>2
      <3>2. Alike(t[i], t[m])
        BY <1>2, <2>2, <3>1
      <3> QED BY <1>6, <3>1, <3>2 DEF ApartIn
    <2>3. CASE k = L + 1 /\ l \in 1 .. L
      <3>1. PICK i \in Slots : i < m /\ Named(t[i]) /\ r[l] = t[i]
        BY <1>2, <1>4, <2>3
      <3>2. Alike(t[i], t[m])
        BY <1>2, <2>3, <3>1 DEF Alike
      <3> QED BY <1>6, <3>1, <3>2 DEF ApartIn
    <2> QED BY <1>3, <2>1, <2>2, <2>3
  <1>10. ASSUME NEW k \in Kinds
         PROVE  SumFunctionOnSet(RowPushes(r, k), 1 .. L + 1)
                  = SumFunctionOnSet(Pushed(t, Slots, k), {i \in Slots : i < m + 1})
    <2> DEFINE f == RowPushes(r, k)
               g == RowPushes(p, k)
               h == Pushed(t, Slots, k)
               low == {i \in Slots : i < m}
    <2>1. \A x \in 1 .. L + 1 : r[x] \in Record /\ r[x].pushes \in Nat
      <3>1. \A x \in 1 .. L + 1 : r[x] \in Record
        BY <1>1, <1>2
      <3> QED BY <3>1 DEF Record
    <2>2. \A x \in 1 .. L + 1 : f[x] = IF Kind(r[x]) = k THEN r[x].pushes ELSE 0
      BY <1>2 DEF RowPushes
    <2>3. \A x \in 1 .. L : g[x] = IF Kind(p[x]) = k THEN p[x].pushes ELSE 0
      BY <1>2 DEF RowPushes
    <2>4. \A i \in Slots : h[i] \in Nat
      BY PushedNumbers
    <2>5. f[L + 1] = h[m]
      BY <1>2, <1>3, <2>2 DEF Pushed
    <2> HIDE DEF f, g, h
    <2>6. \A x \in 1 .. L + 1 : f[x] \in Int
      BY <2>1, <2>2
    <2>7. \A x \in 1 .. L : g[x] \in Int /\ f[x] = g[x]
      BY <1>2, <1>3, <2>2, <2>3, <2>6
    <2>8. IsFiniteSet(1 .. L)
      BY <1>1, FS_Interval
    <2>9. SumFunctionOnSet(f, 1 .. L + 1) = f[L + 1] + SumFunctionOnSet(f, 1 .. L)
      <3> DEFINE S == 1 .. L
                 T == 1 .. L + 1
      <3>1. IsFiniteSet(S) /\ L + 1 \notin S /\ T = S \cup {L + 1} /\ \A x \in S \cup {L + 1} : f[x] \in Int
        BY <1>3, <2>6, <2>8
      <3> HIDE DEF S, T
      <3>2. SumFunctionOnSet(f, T) = f[L + 1] + SumFunctionOnSet(f, S)
        BY <3>1, SumAdd
      <3> QED BY <3>2 DEF S, T
    <2>10. SumFunctionOnSet(f, 1 .. L) = SumFunctionOnSet(g, 1 .. L)
      BY <2>7, <2>8, SumAgree
    <2>11. SumFunctionOnSet(h, {i \in Slots : i < m + 1}) = h[m] + SumFunctionOnSet(h, low)
      <3> DEFINE T == {i \in Slots : i < m + 1}
      <3>1. IsFiniteSet(low) /\ m \notin low /\ T = low \cup {m}
        BY FirstSlots
      <3>2. \A x \in low \cup {m} : h[x] \in Int
        BY <2>4
      <3> HIDE DEF low, T
      <3>3. SumFunctionOnSet(h, T) = h[m] + SumFunctionOnSet(h, low)
        BY <3>1, <3>2, SumAdd
      <3> QED BY <3>3 DEF T
    <2>12. SumFunctionOnSet(g, 1 .. L) = SumFunctionOnSet(h, low)
      BY <1>5 DEF g, h
    <2>13. SumFunctionOnSet(f, 1 .. L + 1) = SumFunctionOnSet(h, {i \in Slots : i < m + 1})
      BY <2>5, <2>9, <2>10, <2>11, <2>12
    <2> QED BY <2>13 DEF f, h
  <1>11. (\A i \in Slots : i < m + 1 => Named(t[i])) => Len(r) = m + 1
    BY <1>2, <1>4, <1>6
  <1>12. RowsOf(t, m + 1, r)
    BY <1>2, <1>8, <1>9, <1>10, <1>11 DEF RowsOf
  <1> QED BY <1>12 DEF r

LEMMA RowPassedOver ==
  ASSUME NEW t \in [Slots -> Record], NEW m \in Slots, NEW p, RowsOf(t, m, p), ~Named(t[m])
  PROVE  RowsOf(t, m + 1, p)
  <1>1. \A i \in Slots : i < m => i < m + 1
    BY DEF Slots
  <1>2. ASSUME NEW k \in Kinds
        PROVE  SumFunctionOnSet(Pushed(t, Slots, k), {i \in Slots : i < m + 1})
                 = SumFunctionOnSet(Pushed(t, Slots, k), {i \in Slots : i < m})
    <2> DEFINE h == Pushed(t, Slots, k)
               low == {i \in Slots : i < m}
               T == {i \in Slots : i < m + 1}
    <2>1. IsFiniteSet(low) /\ m \notin low /\ T = low \cup {m} /\ low \subseteq Slots
      BY FirstSlots
    <2>2. \A i \in Slots : h[i] \in Nat
      BY PushedNumbers
    <2>3. h[m] = 0
      BY UnnamedOfNoKind DEF Pushed
    <2> HIDE DEF h, low, T
    <2>4. SumFunctionOnSet(h, T) = h[m] + SumFunctionOnSet(h, low)
      BY <2>1, <2>2, SumAdd
    <2>5. SumFunctionOnSet(h, low) \in Nat
      BY <2>1, <2>2, SumNat
    <2>6. SumFunctionOnSet(h, T) = SumFunctionOnSet(h, low)
      BY <2>3, <2>4, <2>5
    <2> QED BY <2>6 DEF h, low, T
  <1>3. m < m + 1
    BY DEF Slots
  <1> QED BY <1>1, <1>2, <1>3 DEF RowsOf

LEMMA PackShows ==
  ASSUME NEW t \in [Slots -> Record], ApartIn(t)
  PROVE  RowsOf(t, TableSize, Pack(t))
  <1> DEFINE p == Packing(t)
             Bad == {n \in 0 .. TableSize : ~RowsOf(t, n, p[n])}
  <1>0. TableSize \in Nat /\ TableSize \in 0 .. TableSize
    BY WindowAssumption
  <1>1. /\ p \in [0 .. TableSize -> Seq(Record)]
        /\ p[0] = << >>
        /\ \A n \in 1 .. TableSize : p[n] = IF Named(t[n - 1]) THEN Append(p[n - 1], t[n - 1]) ELSE p[n - 1]
    BY PackingSteps
  <1> HIDE DEF p
  <1>2. Bad = {}
    <2> SUFFICES ASSUME Bad # {} PROVE FALSE
      OBVIOUS
    <2>1. PICK n \in Bad : \A m \in Bad : n <= m
      <3>1. Bad \subseteq Nat
        OBVIOUS
      <3> HIDE DEF Bad
      <3> QED BY <3>1, LeastNumber
    <2>2. n \in 0 .. TableSize /\ ~RowsOf(t, n, p[n])
      OBVIOUS
    <2>3. n # 0
      BY <1>1, <2>2, NoRows
    <2>4. n \in 1 .. TableSize /\ n - 1 \in Slots /\ n - 1 \in 0 .. TableSize /\ ~(n <= n - 1) /\ (n - 1) + 1 = n
      BY <1>0, <2>2, <2>3 DEF Slots
    <2>5. n - 1 \notin Bad
      <3> HIDE DEF Bad
      <3> QED BY <2>1, <2>4
    <2>6. RowsOf(t, n - 1, p[n - 1]) /\ p[n - 1] \in Seq(Record)
      BY <1>1, <2>4, <2>5
    <2>7. p[n] = IF Named(t[n - 1]) THEN Append(p[n - 1], t[n - 1]) ELSE p[n - 1]
      BY <1>1, <2>4
    <2>8. RowsOf(t, (n - 1) + 1, p[n])
      BY <2>4, <2>6, <2>7, RowAdded, RowPassedOver
    <2> QED BY <2>2, <2>4, <2>8
  <1>3. RowsOf(t, TableSize, p[TableSize])
    BY <1>0, <1>2
  <1> QED BY <1>3 DEF Pack, p

(***************************************************************************)
(* The steps of the window and of the other threads.                       *)
(***************************************************************************)

\* A slot of the registry keeps its arena.
LEMMA RegistryKeepsArenas ==
  ASSUME TypesInv, [Next]_vars
  PROVE  \A i \in 1 .. Len(registry) : i \in 1 .. Len(registry') /\ registry'[i].arena = registry[i].arena
  <1>1. registry \in Seq(RegistryEntry) /\ Len(registry) \in Nat
    BY DEF TypesInv, RegistryInv
  <1>2. ASSUME NEW a, NEW found, registry' = Claimed(a, found)
        PROVE  \A i \in 1 .. Len(registry) : i \in 1 .. Len(registry') /\ registry'[i].arena = registry[i].arena
    <2> DEFINE e == [arena |-> a, dead |-> FALSE, found |-> found]
    <2>1. registry' = registry \/ registry' = Append(registry, e)
      BY <1>2 DEF Claimed
    <2> HIDE DEF e
    <2>2. registry \in Seq(RegistryEntry \cup {e}) /\ e \in RegistryEntry \cup {e}
      BY <1>1
    <2> QED BY <1>1, <2>1, <2>2
  <1>3. ASSUME NEW a \in Arenas, UnregisterArena(a)
        PROVE  \A i \in 1 .. Len(registry) : i \in 1 .. Len(registry') /\ registry'[i].arena = registry[i].arena
    <2>1. registry' = [i \in 1 .. Len(registry) |->
                         IF registry[i].arena = a THEN [registry[i] EXCEPT !.dead = TRUE] ELSE registry[i]]
      BY <1>1, <1>3 DEF UnregisterArena
    <2>2. Len(registry') = Len(registry)
      BY <1>1, <2>1
    <2>3. \A i \in 1 .. Len(registry) : registry[i] \in RegistryEntry
      BY <1>1
    <2>4. \A i \in 1 .. Len(registry) : [registry[i] EXCEPT !.dead = TRUE].arena = registry[i].arena
      BY <2>3 DEF RegistryEntry
    <2> QED BY <2>1, <2>2, <2>4
  <1>4. ASSUME NEW a \in Arenas, Register(a)
        PROVE  \A i \in 1 .. Len(registry) : i \in 1 .. Len(registry') /\ registry'[i].arena = registry[i].arena
    BY <1>2, <1>4 DEF Register
  <1>5. CASE RegisterOrphan
    BY <1>2, <1>5 DEF RegisterOrphan
  <1>6. CASE OwnerStep
    BY <1>1, <1>3, <1>4, <1>6 DEF OwnerStep, ClearMemoryRecordsFor, AllocateArena, Grow, Push, PushUntracked
  <1>7. CASE (WindowStep /\ ~RegisterOrphan) \/ UNCHANGED vars
    <2>1. registry' = registry
      BY <1>7 DEF WindowStep, LookForOwner, HandleOrphan, List, ShowUntracked, Hidden, PushMemoryBargraphTable,
                  PickRecord, CollateMetadata, ShowCollated, SortRows, BufferRows, EndOfFrame, vars
    <2> QED BY <1>1, <2>1
  <1> QED BY <1>5, <1>6, <1>7 DEF Next

\* While it collates, the window is at one of the registered arenas.
LEMMA AtAnArena ==
  ASSUME TypesInv, CollateSteps, Collating
  PROVE  window.entry \in 1 .. Len(registry)
  BY DEF TypesInv, WindowInv, RegistryInv, Window, CollateSteps, Collating

\* The next selected block, or the next record: one more pair has been passed.
LEMMA AdvancePasses ==
  ASSUME TypesInv, Advance, window.thread \in Threads, window.pick <= Len(selection), selection' = selection
  PROVE  /\ \A p \in TablePlaces, n \in DOMAIN selection :
              Passed(p, n)' <=> Passed(p, n) \/ (p = Here /\ n = window.pick)
         /\ window'.pick <= Len(selection) /\ window'.at = "collate" /\ window'.entry = window.entry
  <1>1. /\ window \in Window /\ window.pick \in Nat /\ window.pick >= 1 /\ Len(selection) \in Nat
        /\ window.slot \in Slots /\ window.slot \in Nat /\ window.thread \in Nat
        /\ TableSize \in Nat /\ DOMAIN selection = 1 .. Len(selection)
    BY WindowAssumption DEF TypesInv, WindowInv, Window, SelectionInv, Slots, Threads
  <1>2. \A p \in TablePlaces :
          /\ p[1] \in Nat /\ p[2] \in Nat /\ p[2] < TableSize
          /\ p = Here <=> p[1] = window.thread /\ p[2] = window.slot
    <2>1. \A x \in Slots : x \in Nat /\ x < TableSize
      BY <1>1 DEF Slots
    <2>2. \A x \in Threads : x \in Nat
      BY DEF Threads
    <2> QED BY <2>1, <2>2, PlacesFinite DEF Here
  <1>3. \A n \in DOMAIN selection : n \in Nat /\ n >= 1 /\ n <= Len(selection)
    BY <1>1
  <1>4. CASE window.pick < Len(selection)
    <2>1. /\ window'.at = "collate" /\ window'.pick = window.pick + 1 /\ window'.slot = window.slot
          /\ window'.thread = window.thread /\ window'.entry = window.entry
      <3>1. window' = [window EXCEPT !.at = "collate", !.pick = window.pick + 1]
        BY <1>4 DEF Advance
      <3> QED BY <1>1, <3>1 DEF Window
    <2>2. \A n \in DOMAIN selection : n < window.pick + 1 <=> n < window.pick \/ n = window.pick
      BY <1>1, <1>3
    <2>3. window.pick + 1 <= Len(selection)
      BY <1>1, <1>4
    <2> QED BY <1>2, <2>1, <2>2, <2>3 DEF Passed
  <1>5. CASE ~(window.pick < Len(selection))
    <2>0. \A n \in DOMAIN selection : ~(n < 1) /\ (n < window.pick \/ n = window.pick)
      BY <1>1, <1>3, <1>5
    <2>1. 1 <= Len(selection)
      BY <1>1
    <2>2. CASE window.slot < TableSize - 1
      <3>1. /\ window'.at = "collate" /\ window'.pick = 1 /\ window'.slot = window.slot + 1
            /\ window'.thread = window.thread /\ window'.entry = window.entry
        <4>1. window' = [window EXCEPT !.at = "collate", !.pick = 1, !.slot = window.slot + 1]
          BY <1>1, <1>5, <2>2 DEF Advance, NextPlace, Window
        <4> QED BY <1>1, <4>1 DEF Window
      <3>2. \A p \in TablePlaces : p[2] < window.slot + 1 <=> p[2] < window.slot \/ p[2] = window.slot
        BY <1>1, <1>2
      <3>3. \A p \in TablePlaces, n \in DOMAIN selection :
              Passed(p, n)' <=> Passed(p, n) \/ (p = Here /\ n = window.pick)
        BY <1>2, <2>0, <3>1, <3>2 DEF Passed
      <3> QED BY <2>1, <3>1, <3>3
    <2>3. CASE ~(window.slot < TableSize - 1)
      <3>1. /\ window'.at = "collate" /\ window'.pick = 1 /\ window'.slot = 0
            /\ window'.thread = window.thread + 1 /\ window'.entry = window.entry
        <4>1. window' = [window EXCEPT !.at = "collate", !.pick = 1, !.thread = window.thread + 1, !.slot = 0]
          BY <1>1, <1>5, <2>3 DEF Advance, NextPlace, Window
        <4> QED BY <1>1, <4>1 DEF Window
      <3>2. \A p \in TablePlaces : p[1] < window.thread + 1 <=> p[1] < window.thread \/ p[1] = window.thread
        BY <1>1, <1>2
      <3>3. \A p \in TablePlaces : ~(p[2] < 0) /\ (p[2] < window.slot \/ p[2] = window.slot)
        BY <1>1, <1>2, <2>3
      <3>4. \A p \in TablePlaces, n \in DOMAIN selection :
              Passed(p, n)' <=> Passed(p, n) \/ (p = Here /\ n = window.pick)
        BY <1>2, <2>0, <3>1, <3>2, <3>3 DEF Passed
      <3> QED BY <2>1, <3>1, <3>4
    <2> QED BY <2>2, <2>3
  <1> QED BY <1>4, <1>5

\* Other threads leave the window alone, and do not go unnoticed.
LEMMA OwnersLeave ==
  ASSUME OwnerStep
  PROVE  window' = window /\ selection' = selection /\ table' = table /\ (steady' => steady /\ meta' = meta)
  <1>0. \A a \in Arenas : Register(a) => OwnerOnly /\ (steady' => steady /\ meta' = meta)
    BY DEF Register
  <1>1. \A a \in Arenas : UnregisterArena(a) => OwnerOnly /\ (steady' => steady /\ meta' = meta)
    BY DEF UnregisterArena
  <1>2. \A a \in Arenas : ClearMemoryRecordsFor(a) => OwnerOnly /\ (steady' => steady /\ meta' = meta)
    BY DEF ClearMemoryRecordsFor, SetMeta
  <1>3. \A a \in Arenas, s \in Starts : AllocateArena(a, s) \/ Grow(a, s)
                                      => OwnerOnly /\ (steady' => steady /\ meta' = meta)
    BY DEF AllocateArena, Grow
  <1>4. \A t, r : WriteMemoryRecord(t, r) => ~steady'
    BY DEF WriteMemoryRecord, SetMeta
  <1>5. \A t \in Threads, n \in Names, s \in Shapes : PushUntracked(t, n, s) => OwnerOnly /\ ~steady'
    BY <1>4 DEF PushUntracked
  <1>6. \A t \in Threads, a \in Arenas, n \in Names, s \in Shapes : Push(t, a, n, s) => OwnerOnly /\ ~steady'
    BY <1>4 DEF Push
  <1>7. OwnerOnly /\ (steady' => steady /\ meta' = meta)
    BY <1>0, <1>1, <1>2, <1>3, <1>5, <1>6 DEF OwnerStep
  <1> QED BY <1>7 DEF OwnerOnly

LEMMA CollateStepsKeep ==
  ASSUME TypesInv, CollateSteps, [Next]_vars
  PROVE  CollateSteps'
  <1> USE DEF CollateSteps
  <1>0. /\ window \in Window /\ window.entry \in Nat /\ Len(selection) \in Nat /\ Len(selection') \in Nat
        /\ (selection' = << >> \/ 1 <= Len(selection'))
    <2>1. selection \in Seq(Starts) /\ selection' \in Seq(Starts)
      BY SelectionKeeps DEF TypesInv, SelectionInv
    <2> QED BY <2>1 DEF TypesInv, WindowInv, Window
  <1>1. CASE window' = window /\ selection' = selection /\ table' = table /\ (steady' => steady /\ meta' = meta)
             /\ (Collating => registry'[window.entry].arena = registry[window.entry].arena)
    BY <1>1 DEF Relevant, Collating, Current
  <1>2. CASE OwnerStep \/ SortRows \/ UNCHANGED vars
    <2>1. window' = window /\ selection' = selection /\ table' = table /\ (steady' => steady /\ meta' = meta)
      <3>1. CASE OwnerStep
        BY <3>1, OwnersLeave
      <3>2. CASE SortRows \/ UNCHANGED vars
        BY <3>2 DEF SortRows, vars, tableVars
      <3> QED BY <1>2, <3>1, <3>2
    <2>2. Collating => registry'[window.entry].arena = registry[window.entry].arena
      BY AtAnArena, RegistryKeepsArenas
    <2> QED BY <1>1, <2>1, <2>2
  <1>3. CASE List
    <2>1. window'.at = "details" /\ window'.entry = 1 /\ table' = EmptyTable
      BY <1>0, <1>3 DEF List, Window
    <2> QED BY <2>1 DEF Collating
  <1>4. CASE ShowUntracked \/ ShowCollated
    <2>1. window'.at = "sort" /\ table' = EmptyTable
      BY <1>0, <1>4 DEF ShowUntracked, ShowCollated, Window
    <2> QED BY <2>1 DEF Collating
  <1>5. CASE Hidden \/ BufferRows
    <2>1. window'.at = "details" /\ window'.entry = window.entry + 1 /\ table' = table /\ window.at \in {"details", "sort"}
      <3>1. CASE Hidden
        <4>1. window' = [window EXCEPT !.entry = window.entry + 1] /\ table' = table /\ window.at = "details"
          BY <1>0, <3>1 DEF Hidden, tableVars
        <4> QED BY <1>0, <4>1 DEF Window
      <3>2. CASE BufferRows
        <4>1. window' = [window EXCEPT !.at = "details", !.entry = window.entry + 1] /\ table' = table /\ window.at = "sort"
          BY <1>0, <3>2 DEF BufferRows
        <4> QED BY <1>0, <4>1 DEF Window
      <3> QED BY <1>5, <3>1, <3>2
    <2> QED BY <1>0, <2>1 DEF Collating
  <1>6. CASE PushMemoryBargraphTable
    <2>1. window'.at = "collate" /\ window'.entry = window.entry /\ window'.pick = 1 /\ window.at = "details"
      BY <1>0, <1>6 DEF PushMemoryBargraphTable, Window
    <2> QED BY <1>0, <2>1 DEF Collating
  <1>7. CASE PickRecord
    <2>1. /\ window.at = "collate" /\ window.pick <= Len(selection) /\ selection' = selection /\ meta' = meta
          /\ registry' = registry /\ window.thread \in Threads
      <3>1. window.thread \in Threads
        BY <1>0, <1>7, WindowAssumption DEF PickRecord, Window, Threads
      <3> QED BY <1>7, <3>1 DEF PickRecord, Collating
    <2>2. CASE Relevant(Current) /\ window' = [window EXCEPT !.at = "write"]
      <3>1. /\ window'.at = "write" /\ window'.thread = window.thread /\ window'.slot = window.slot
            /\ window'.pick = window.pick /\ window'.entry = window.entry
        BY <1>0, <2>2 DEF Window
      <3>2. Relevant(Current)'
        BY <2>1, <2>2, <3>1 DEF Relevant, Current
      <3> QED BY <2>1, <3>1, <3>2
    <2>3. CASE Advance
      <3>1. window'.pick <= Len(selection) /\ window'.at = "collate" /\ window'.entry = window.entry
        BY <2>1, <2>3, AdvancePasses
      <3> QED BY <2>1, <3>1 DEF Collating
    <2> QED BY <1>7, <2>2, <2>3 DEF PickRecord
  <1>8. CASE CollateMetadata
    <2>1. window'.pick <= Len(selection) /\ window'.at = "collate" /\ window'.entry = window.entry
      BY <1>8, AdvancePasses DEF CollateMetadata, TypesInv, WindowInv
    <2> QED BY <1>8, <2>1 DEF CollateMetadata, Collating
  <1>9. CASE LookForOwner \/ HandleOrphan \/ RegisterOrphan \/ EndOfFrame
    <2>1. window'.at \in {"scan", "list", "orphan", "register"}
      <3>1. WindowIsRecord
        BY <1>0 DEF Window, WindowIsRecord
      <3>2. NextSlot => window'.at \in {"scan", "list"}
        BY <3>1, NextSlotLeaves
      <3> QED BY <1>0, <1>9, <3>2 DEF LookForOwner, HandleOrphan, RegisterOrphan, EndOfFrame, Window
    <2> QED BY <2>1 DEF Collating
  <1> QED BY <1>2, <1>3, <1>4, <1>5, <1>6, <1>7, <1>8, <1>9 DEF Next, WindowStep

\* Nothing has been taken when the collation begins.
NothingTaken == [p \in TablePlaces |-> NoRecord]

LEMMA NothingCollated ==
  ASSUME NEW a
  PROVE  Collates(EmptyTable, NothingTaken, a)
  <1>1. \A i \in Slots : ~Named(EmptyTable[i])
    BY DEF EmptyTable, NoRecord, Named
  <1>2. ~Named(NoRecord)
    BY DEF NoRecord, Named
  <1>3. ASSUME NEW k \in Kinds
        PROVE  Total(EmptyTable, Slots, k) = 0 /\ Total(NothingTaken, TablePlaces, k) = 0
    <2>1. \A i \in Slots : Pushed(EmptyTable, Slots, k)[i] = 0
      BY <1>1, UnnamedOfNoKind DEF Pushed
    <2>2. \A p \in TablePlaces : Pushed(NothingTaken, TablePlaces, k)[p] = 0
      BY <1>2, UnnamedOfNoKind DEF Pushed, NothingTaken
    <2> QED BY <2>1, <2>2, SlotsFinite, PlacesFinite, SumZero DEF Total
  <1> QED BY <1>1, <1>3 DEF Collates, Chained, ApartIn, OfArena, Accounts

LEMMA TakenTyped ==
  ASSUME TypesInv
  PROVE  TakenTable \in [TablePlaces -> Record]
  <1>1. \A p \in TablePlaces : RecordAt(p) \in Record
    BY PlacesFinite DEF TypesInv, TablesInv, RecordAt
  <1> QED BY <1>1, EmptyTyped DEF TakenTable

\* What has been taken stays as it is while nothing is passed and the records stay.
LEMMA TakenStays ==
  ASSUME meta' = meta, selection' = selection,
         registry'[window'.entry].arena = registry[window.entry].arena,
         \A p \in TablePlaces, n \in DOMAIN selection :
            Passed(p, n)' => Passed(p, n) \/ ~(/\ RecordAt(p).arena = registry[window.entry].arena
                                             /\ RecordAt(p).start = selection[n]),
         \A p \in TablePlaces, n \in DOMAIN selection : Passed(p, n) => Passed(p, n)'
  PROVE  TakenTable' = TakenTable
  <1>1. \A p : RecordAt(p)' = RecordAt(p)
    BY DEF RecordAt
  <1>2. \A p \in TablePlaces : Taken(p)' <=> Taken(p)
    BY <1>1 DEF Taken
  <1> QED BY <1>1, <1>2 DEF TakenTable

\* The collated table shows what has been taken.
LEMMA CollatesKeeps ==
  ASSUME TypesInv, CollateInv, [Next]_vars, Collating', steady'
  PROVE  Collates(table', TakenTable', registry'[window'.entry].arena)
  <1> USE DEF CollateInv
  <1>0. window \in Window /\ window' \in Window
    BY WindowKeepsIndices DEF TypesInv, WindowInv
  <1>1. CASE OwnerStep \/ UNCHANGED vars
    <2>1. window' = window /\ selection' = selection /\ table' = table /\ steady /\ meta' = meta
      <3>1. CASE OwnerStep
        BY <3>1, OwnersLeave
      <3>2. CASE UNCHANGED vars
        BY <3>2 DEF vars, tableVars
      <3> QED BY <1>1, <3>1, <3>2
    <2>2. Collating
      BY <2>1 DEF Collating
    <2>3. registry'[window'.entry].arena = registry[window.entry].arena
      BY <2>1, <2>2, AtAnArena, RegistryKeepsArenas
    <2>4. TakenTable' = TakenTable
      <3>1. \A p, n : Passed(p, n)' <=> Passed(p, n)
        BY <2>1 DEF Passed
      <3> QED BY <2>1, <2>3, <3>1, TakenStays
    <2> QED BY <2>1, <2>2, <2>3, <2>4
  <1>2. CASE PushMemoryBargraphTable
    <2>1. /\ window'.at = "collate" /\ window'.thread = 0 /\ window'.slot = 0 /\ window'.pick = 1
          /\ table' = table /\ table = EmptyTable
      <3>1. window.thread = 0 /\ window.slot = 0
        BY <1>2 DEF PushMemoryBargraphTable, TypesInv, WindowInv
      <3> QED BY <1>0, <1>2, <3>1 DEF PushMemoryBargraphTable, Window, CollateSteps
    <2>2. \A p \in TablePlaces, n \in DOMAIN selection' : ~Passed(p, n)'
      <3>1. \A n \in DOMAIN selection' : n \in Nat /\ n >= 1
        <4>1. selection' \in Seq(Starts)
          BY SelectionKeeps DEF SelectionInv
        <4> QED BY <4>1
      <3>2. \A p \in TablePlaces : ~(p[1] < 0) /\ ~(p[2] < 0)
        BY PlacesFinite DEF Threads, Slots
      <3> QED BY <2>1, <3>1, <3>2 DEF Passed
    <2>3. TakenTable' = NothingTaken
      <3>1. \A p \in TablePlaces : ~Taken(p)'
        BY <2>2 DEF Taken
      <3> QED BY <3>1 DEF TakenTable, NothingTaken
    <2> QED BY <2>1, <2>3, NothingCollated
  <1>3. CASE PickRecord
    <2>1. /\ Collating /\ steady /\ meta' = meta /\ selection' = selection /\ table' = table /\ registry' = registry
          /\ window.pick <= Len(selection)
      BY <1>3 DEF PickRecord, tableVars, Collating, CollateSteps
    <2>2. window.thread \in Threads
      BY <1>0, <1>3, WindowAssumption DEF PickRecord, Window, Threads
    <2>3. CASE window' = [window EXCEPT !.at = "write"]
      <3>1. /\ window'.thread = window.thread /\ window'.slot = window.slot
            /\ window'.pick = window.pick /\ window'.entry = window.entry
        BY <1>0, <2>3 DEF Window
      <3>2. \A p, n : Passed(p, n)' <=> Passed(p, n)
        BY <3>1 DEF Passed
      <3>3. TakenTable' = TakenTable
        BY <2>1, <3>1, <3>2, TakenStays
      <3> QED BY <2>1, <3>1, <3>3
    <2>4. CASE Advance /\ ~Relevant(Current)
      <3>1. /\ \A p \in TablePlaces, n \in DOMAIN selection :
                 Passed(p, n)' <=> Passed(p, n) \/ (p = Here /\ n = window.pick)
            /\ window'.entry = window.entry
        BY <2>1, <2>2, <2>4, AdvancePasses
      <3>2. RecordAt(Here) = Current
        BY DEF RecordAt, Here, Current
      <3>3. TakenTable' = TakenTable
        BY <2>1, <2>4, <3>1, <3>2, TakenStays DEF Relevant
      <3> QED BY <2>1, <3>1, <3>3
    <2> QED BY <1>3, <2>3, <2>4 DEF PickRecord
  <1>4. CASE CollateMetadata
    <2> DEFINE r == Current
               a == registry[window.entry].arena
    <2>1. /\ Collating /\ steady /\ meta' = meta /\ selection' = selection /\ registry' = registry
          /\ window.pick <= Len(selection) /\ Relevant(r)
          /\ table' = WriteToMetaTable(r, table, SlotsSharing(table, r)) /\ Advance
      BY <1>4 DEF CollateMetadata, Collating, CollateSteps
    <2>2. /\ window.thread \in Threads /\ Here \in TablePlaces /\ r = RecordAt(Here)
          /\ r \in Record /\ table \in [Slots -> Record] /\ window.pick \in DOMAIN selection
      <3>1. window.thread \in Threads /\ window.slot \in Slots /\ window.pick \in Nat /\ window.pick >= 1
        BY <1>0, <1>4 DEF CollateMetadata, TypesInv, WindowInv, Window
      <3>2. selection \in Seq(Starts)
        BY DEF TypesInv, SelectionInv
      <3>3. r \in Record
        BY <1>0, <3>1, CurrentTyped DEF TypesInv
      <3>4. Here \in TablePlaces /\ r = RecordAt(Here)
        BY <3>1 DEF Here, TablePlaces, RecordAt, Current
      <3> QED BY <2>1, <3>1, <3>2, <3>3, <3>4 DEF TypesInv, TablesInv
    <2>3. /\ \A p \in TablePlaces, n \in DOMAIN selection :
               Passed(p, n)' <=> Passed(p, n) \/ (p = Here /\ n = window.pick)
          /\ window'.entry = window.entry
      BY <2>1, <2>2, AdvancePasses
    <2>4. ~Taken(Here)
      <3> SUFFICES ASSUME NEW n \in DOMAIN selection, Passed(Here, n), r.start = selection[n] PROVE FALSE
        BY <2>2 DEF Taken
      <3>1. n = window.pick
        BY <2>1, <2>2 DEF Relevant, TypesInv, SelectionInv, SelectedOnce
      <3>2. window.thread \in Nat /\ window.slot \in Nat /\ window.pick \in Nat
        BY <1>0 DEF Window, Slots
      <3> QED BY <3>1, <3>2 DEF Passed, Here
    <2>5. TakenTable' = [TakenTable EXCEPT ![Here] = r]
      <3>0. \A p : RecordAt(p)' = RecordAt(p)
        BY <2>1 DEF RecordAt
      <3> DEFINE h == Here
      <3>1. \A p \in TablePlaces : p # h => (Taken(p)' <=> Taken(p))
        BY <2>1, <2>3, <3>0 DEF Taken
      <3>2. \A p \in TablePlaces : p = h => Taken(p)'
        <4>1. PICK n \in DOMAIN selection : n = window.pick
          BY <2>2
        <4>2. r.start = selection[n] /\ r.arena = a
          BY <2>1, <4>1 DEF Relevant
        <4>3. \A p \in TablePlaces : p = h => Passed(p, n)' /\ RecordAt(p) = r
          BY <2>2, <2>3, <4>1
        <4> QED BY <2>1, <2>2, <2>3, <3>0, <4>2, <4>3 DEF Taken
      <3>3. TakenTable' = [p \in TablePlaces |-> IF Taken(p)' THEN RecordAt(p) ELSE NoRecord]
        BY <3>0 DEF TakenTable
      <3>4. \A p \in TablePlaces : (IF Taken(p)' THEN RecordAt(p) ELSE NoRecord) = (IF p = h THEN r ELSE TakenTable[p])
        BY <2>2, <3>1, <3>2 DEF TakenTable
      <3>5. [TakenTable EXCEPT ![h] = r] = [p \in TablePlaces |-> IF p = h THEN r ELSE TakenTable[p]]
        BY DEF TakenTable
      <3> QED BY <3>3, <3>4, <3>5
    <2>6. ~Named(TakenTable[Here]) /\ TakenTable \in [TablePlaces -> Record]
      BY <2>2, <2>4, TakenTyped DEF TakenTable, NoRecord, Named
    <2>7. r.arena = a
      BY <2>1 DEF Relevant
    <2>8. Collates(table, TakenTable, a)
      BY <2>1
    <2> HIDE DEF r, a
    <2>9. Collates(table', TakenTable', a)
      BY <2>1, <2>2, <2>5, <2>6, <2>7, <2>8, CollateOne
    <2> QED BY <2>1, <2>3, <2>9 DEF a
  <1>5. ASSUME WindowStep, ~PushMemoryBargraphTable, ~PickRecord, ~CollateMetadata PROVE FALSE
    <2>1. window'.at \notin {"collate", "write"}
      <3>1. WindowIsRecord
        BY <1>0 DEF Window, WindowIsRecord
      <3>2. NextSlot => window'.at \in {"scan", "list"}
        BY <3>1, NextSlotLeaves
      <3> QED BY <1>0, <1>5, <3>2 DEF WindowStep, LookForOwner, HandleOrphan, RegisterOrphan, List, ShowUntracked, Hidden,
                        ShowCollated, SortRows, BufferRows, EndOfFrame, Window
    <2> QED BY <2>1 DEF Collating
  <1> QED BY <1>1, <1>2, <1>3, <1>4, <1>5 DEF Next

\* What has been taken in the end is what is selected.
LEMMA AllTaken ==
  ASSUME TypesInv, window.thread = ThreadCount \/ selection = << >>
  PROVE  \A k \in Kinds : Total(TakenTable, TablePlaces, k) = SumFunctionOnSet(SelectedPushes(k), TablePlaces)
  <1>1. \A p \in TablePlaces : Taken(p) <=> Selected(RecordAt(p))
    <2>1. CASE selection = << >>
      BY <2>1 DEF Taken, Selected, Range
    <2>2. CASE window.thread = ThreadCount
      <3>1. \A p \in TablePlaces : p[1] < ThreadCount
        BY PlacesFinite, WindowAssumption DEF Threads
      <3>2. \A p \in TablePlaces : \A n : Passed(p, n)
        BY <2>2, <3>1 DEF Passed
      <3> QED BY <3>2 DEF Taken, Selected, Range
    <2> QED BY <2>1, <2>2
  <1>2. SUFFICES ASSUME NEW k \in Kinds
                 PROVE  Total(TakenTable, TablePlaces, k) = SumFunctionOnSet(SelectedPushes(k), TablePlaces)
    OBVIOUS
  <1>3. \A p \in TablePlaces : Pushed(TakenTable, TablePlaces, k)[p] = SelectedPushes(k)[p]
    <2>1. Kind(NoRecord) # k
      BY UnnamedOfNoKind DEF Named, NoRecord
    <2>2. \A p \in TablePlaces : TakenTable[p] = IF Selected(RecordAt(p)) THEN RecordAt(p) ELSE NoRecord
      BY <1>1 DEF TakenTable
    <2> QED BY <2>1, <2>2 DEF Pushed, SelectedPushes
  <1>4. \A p \in TablePlaces : Pushed(TakenTable, TablePlaces, k)[p] \in Nat
    BY TakenTyped, PushedNumbers
  <1>5. \A p \in TablePlaces : Pushed(TakenTable, TablePlaces, k)[p] \in Int
    BY <1>4
  <1>6. SumFunctionOnSet(SelectedPushes(k), TablePlaces) = SumFunctionOnSet(Pushed(TakenTable, TablePlaces, k), TablePlaces)
    BY <1>3, <1>5, PlacesFinite, SumAgree
  <1> QED BY <1>6 DEF Total

\* The rows of one arena are those of the collated table.
LEMMA ShowsCollated ==
  ASSUME TypesInv, CollateInv, [Next]_vars, ShowCollated, steady
  PROVE  CollatedWhole'
  <1>1. /\ Collating /\ (window.thread = ThreadCount \/ selection = << >>)
        /\ meta' = meta /\ registry' = registry /\ selection' = selection /\ window'.entry = window.entry
        /\ packed' = Pack(table)
    BY DEF ShowCollated, Show, Collating, TypesInv, WindowInv, Window
  <1>2. table \in [Slots -> Record] /\ ApartIn(table) /\ Accounts(table, TakenTable)
    BY <1>1 DEF CollateInv, Collates, TypesInv, TablesInv
  <1>3. RowsOf(table, TableSize, packed')
    BY <1>1, <1>2, PackShows
  <1>4. packed' \in Seq(Record) /\ DOMAIN packed' = 1 .. Len(packed')
    BY <1>1, <1>2, PackTyped
  <1>5. \A i, j \in DOMAIN packed' : Kind(packed'[i]) = Kind(packed'[j]) => i = j
    BY <1>3, <1>4 DEF RowsOf, Alike
  <1>6. {i \in Slots : i < TableSize} = Slots
    BY WindowAssumption DEF Slots
  <1>7. ASSUME NEW k \in Kinds
        PROVE  \/ SumFunctionOnSet(ShownPushes(k)', DOMAIN packed') = SumFunctionOnSet(SelectedPushes(k)', TablePlaces)
               \/ Len(packed') = TableSize /\ \A i \in DOMAIN packed' : Kind(packed'[i]) # k
    <2>1. ShownPushes(k)' = RowPushes(packed', k)
      BY DEF ShownPushes, RowPushes
    <2>2. SelectedPushes(k)' = SelectedPushes(k)
      BY <1>1 DEF SelectedPushes, Selected, RecordAt
    <2>3. SumFunctionOnSet(RowPushes(packed', k), DOMAIN packed') = Total(table, Slots, k)
      BY <1>3, <1>4, <1>6 DEF RowsOf, Total
    <2>4. CASE Total(table, Slots, k) = Total(TakenTable, TablePlaces, k)
      <3>1. Total(table, Slots, k) = SumFunctionOnSet(SelectedPushes(k), TablePlaces)
        BY <1>1, <2>4, AllTaken
      <3> QED BY <2>1, <2>2, <2>3, <3>1
    <2>5. CASE LeftOut(table, k)
      <3>1. Len(packed') = TableSize
        BY <1>3, <2>5 DEF LeftOut, RowsOf
      <3>2. \A i \in DOMAIN packed' : Kind(packed'[i]) # k
        BY <1>3, <1>4, <2>5 DEF LeftOut, RowsOf
      <3> QED BY <3>1, <3>2
    <2> QED BY <1>2, <2>4, <2>5 DEF Accounts
  <1> QED BY <1>5, <1>7 DEF CollatedWhole

\* While the rows are sorted, what they are to show stays.
LEMMA WholeKeeps ==
  ASSUME TypesInv, CollateInv, [Next]_vars
  PROVE  CollatedWhole'
  <1>0. window \in Window
    BY DEF TypesInv, WindowInv
  <1>1. CASE ShowCollated
    <2>1. CASE steady
      BY <1>1, <2>1, ShowsCollated
    <2>2. CASE ~steady
      BY <1>1, <2>2 DEF ShowCollated, CollatedWhole
    <2> QED BY <2>1, <2>2
  <1>2. CASE ShowUntracked
    <2>1. window'.entry = 0
      BY <1>0, <1>2 DEF ShowUntracked, Window
    <2> QED BY <2>1 DEF CollatedWhole
  <1>3. CASE SortRows \/ UNCHANGED vars
    <2>1. window' = window /\ packed' = packed /\ meta' = meta /\ registry' = registry /\ selection' = selection
          /\ steady' = steady
      BY <1>3 DEF SortRows, SortStep, vars, sortVars, tableVars
    <2>2. \A k : ShownPushes(k)' = ShownPushes(k) /\ SelectedPushes(k)' = SelectedPushes(k)
      BY <2>1 DEF ShownPushes, SelectedPushes, Selected, RecordAt
    <2>3. CollatedWhole
      BY DEF CollateInv
    <2> QED BY <2>1, <2>2, <2>3 DEF CollatedWhole
  <1>4. CASE window.at # "sort" /\ OwnerStep
    <2>1. window' = window
      BY <1>4, OwnersLeave
    <2> QED BY <1>4, <2>1 DEF CollatedWhole
  <1>5. ASSUME WindowStep, ~ShowCollated, ~ShowUntracked, ~SortRows PROVE window'.at # "sort"
    <2>1. WindowIsRecord
      BY <1>0 DEF Window, WindowIsRecord
    <2>2. (NextSlot => window'.at \in {"scan", "list"}) /\ (Advance => window'.at = "collate")
      BY <2>1, NextSlotLeaves, AdvanceLeaves
    <2> QED BY <1>0, <1>5, <2>2 DEF WindowStep, LookForOwner, HandleOrphan, RegisterOrphan, List, Hidden,
                      PushMemoryBargraphTable, PickRecord, CollateMetadata, BufferRows, EndOfFrame, Window
  <1> QED BY <1>1, <1>2, <1>3, <1>4, <1>5 DEF Next, OwnersMayMove, CollatedWhole

\* The rows about to be sorted show each kind of allocation in the selected blocks
\* once, with the pushes of all its records in the tables of all threads, unless
\* the records changed meanwhile: CollateMetadata's probing neither shows a kind
\* twice nor a part of it, whatever the hashes are, and leaves one out only if
\* other kinds have taken all slots of the one scratch table.
THEOREM CollatedWholeAlways == Spec => []CollatedWhole
  <1>1. Init => CollateInv
    <2> SUFFICES ASSUME Init PROVE CollateInv
      OBVIOUS
    <2>1. window.at = "scan" /\ selection = << >>
      BY DEF Init
    <2> QED BY <2>1 DEF CollateInv, CollateSteps, Collating, CollatedWhole
  <1>2. TypesInv /\ CollateInv /\ [Next]_vars => CollateInv'
    BY CollateStepsKeep, CollatesKeeps, WholeKeeps DEF CollateInv
  <1>3. CollateInv => CollatedWhole
    BY DEF CollateInv
  <1> QED BY <1>1, <1>2, <1>3, WindowInvariant, PTL DEF Spec

=============================================================================
