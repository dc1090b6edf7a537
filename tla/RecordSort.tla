------------------------------ MODULE RecordSort ------------------------------
(***************************************************************************)
(* The sort of PackSortAndBufferMemoryRecords: two loops over all records, *)
(* and a swap whenever the record of the outer loop is larger than the one *)
(* of the inner loop, whichever comes first in the table.  That this leaves*)
(* the largest allocation on top is not plain to see.                      *)
(***************************************************************************)
EXTENDS Integers, Sequences

VARIABLES
    rows,       \* the packed records
    packed,     \* history: the rows as they were when the sort began
    outer,      \* MetaIndex, from 1
    inner       \* TestMetaIndex, from 1

sortVars == <<rows, packed, outer, inner>>

\* umm multiplication; the products stay far below 2^64.
GetAllocationSize(r) == r.shape[1] * r.shape[2] * r.pushes

SortBegins(seq) ==
    /\ rows = seq /\ packed = seq
    /\ outer = 1 /\ inner = 1

Sorting == outer <= Len(rows)

Swapped(s, i, j) == [s EXCEPT ![i] = s[j], ![j] = s[i]]

\* Mutant of Compare: the rows that are already in place are swapped, too.
CompareUnordered ==
    rows' = IF outer # inner THEN Swapped(rows, outer, inner) ELSE rows

Compare ==
    rows' = IF GetAllocationSize(rows[outer]) > GetAllocationSize(rows[inner])
            THEN Swapped(rows, outer, inner) ELSE rows

\* One round of the inner loop.
SortStep ==
    /\ Sorting
    /\ Compare
    /\ inner' = IF inner < Len(rows) THEN inner + 1 ELSE 1
    /\ outer' = IF inner < Len(rows) THEN outer ELSE outer + 1
    /\ UNCHANGED packed

(***************************************************************************)
(* Properties.                                                             *)
(***************************************************************************)

\* When the loops are through, no row is below a smaller one.
RowsInOrder ==
    ~Sorting => \A i, j \in DOMAIN rows :
        i <= j => GetAllocationSize(rows[i]) >= GetAllocationSize(rows[j])

Places(n) == [1 .. n -> 1 .. n]

\* All along, the rows are the packed records in another order.
RowsPermuted ==
    \E f \in Places(Len(packed)) :
        /\ Len(rows) = Len(packed)
        /\ \A i, j \in 1 .. Len(packed) : f[i] = f[j] => i = j
        /\ \A i \in 1 .. Len(packed) : rows[i] = packed[f[i]]
=============================================================================
