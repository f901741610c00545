------------------------------ MODULE Vectors ------------------------------
(***************************************************************************)
(* The programs of the vector practice: hybrid_sort, which sorts an array by     *)
(* blocks of eight in a register and merges the blocks, beside the merge sort      *)
(* and the quicksort it is measured against; find_max_simd and find_simd beside     *)
(* their plain loops.  Arrays count from 1 here and from 0 in C.                     *)
(***************************************************************************)
EXTENDS Bitonic, Sequences, SequencesExt

CONSTANT Arrays  \* the arrays that are sorted and searched

\* SIZE is 8 or 4096; a shorter block at the end would be left as it is.
ASSUME WholeBlocks == \A a \in Arrays : Len(a) > 0 /\ Len(a) % 8 = 0

VARIABLES
  vInput,  \* the array that was filled
  vData,   \* data while it is sorted
  vAt      \* where hybrid_sort is: the phase, the position and block_size_step

vectorVars == <<vInput, vData, vAt>>

-----------------------------------------------------------------------------
(* Sorting without vectors *)
\* The loop of merge and of merge_blocks: what is left of L from i and of R from j.
TakesLeft(l, r) == l <= r
merge_blocks(L, R) ==
  LET rest[i \in 1..Len(L) + 1, j \in 1..Len(R) + 1] ==
        IF i > Len(L) THEN SubSeq(R, j, Len(R))
        ELSE IF j > Len(R) THEN SubSeq(L, i, Len(L))
        ELSE IF TakesLeft(L[i], R[j]) THEN <<L[i]>> \o rest[i + 1, j]
        ELSE <<R[j]>> \o rest[i, j + 1]
  IN rest[1, 1]
\* merge leaves two parts that are in order as they are.
merge(L, R) == IF Last(L) <= Head(R) THEN L \o R ELSE merge_blocks(L, R)
merge_sort(data) ==
  LET sorted[left \in 1..Len(data), right \in 0..Len(data)] ==
        IF left < right
        THEN LET mid == left + (right - left) \div 2
             IN merge(sorted[left, mid], sorted[mid + 1, right])
        ELSE SubSeq(data, left, right)
  IN sorted[1, Len(data)]

Swapped(data, i, j) == [data EXCEPT ![i] = data[j], ![j] = data[i]]
\* The array, and where the pivot went.
partition(data, low, high) ==
  LET Step(at, j) == IF at[1][j] < data[high] THEN <<Swapped(at[1], at[2] + 1, j), at[2] + 1>> ELSE at
      last == FoldLeft(Step, <<data, low - 1>>, [k \in 1..high - low |-> low + k - 1])
  IN <<Swapped(last[1], last[2] + 1, high), last[2] + 1>>
quick_sort(data) ==
  LET sort[d \in Seq(Int), low \in Nat, high \in Nat] ==
        IF low < high
        THEN LET p == partition(d, low, high)
             IN sort[sort[p[1], low, p[2] - 1], p[2] + 1, high]
        ELSE d
  IN sort[data, 1, Len(data)]

-----------------------------------------------------------------------------
(* hybrid_sort *)
Load(data, i) == [l \in Lanes |-> data[i + l]]
StoredAt(data, i, v) == [k \in DOMAIN data |-> IF k - i \in Lanes THEN v[k - i] ELSE data[k]]

Blank == [phase |-> "new", i |-> 1, step |-> 8]

\* Only the order of the numbers matters.
initialize_array ==
  /\ vAt.phase = "new" /\ vInput' \in Arrays
  /\ vData' = vInput' /\ vAt' = [vAt EXCEPT !.phase = "blocks"]
SortBlock ==
  /\ vAt.phase = "blocks" /\ vAt.i <= Len(vData)
  /\ vData' = StoredAt(vData, vAt.i, bitonic_sort_8(Load(vData, vAt.i)))
  /\ vAt' = [vAt EXCEPT !.i = @ + 8] /\ UNCHANGED vInput
BlocksSorted ==
  /\ vAt.phase = "blocks" /\ vAt.i > Len(vData)
  /\ vAt' = [vAt EXCEPT !.phase = "merging", !.i = 1] /\ UNCHANGED <<vInput, vData>>

\* merge_sort_blocks: one merge, the end of a pass, the end.
RightEnd(n) == IF n < Len(vData) THEN n ELSE Len(vData)
MergeBlocks ==
  /\ vAt.phase = "merging" /\ vAt.step < Len(vData) /\ vAt.i <= Len(vData)
  /\ LET left  == vAt.i
         mid   == left + vAt.step - 1
         right == RightEnd(left + 2 * vAt.step - 1)
     IN vData' = IF mid < right
                 THEN SubSeq(vData, 1, left - 1)
                      \o merge_blocks(SubSeq(vData, left, mid), SubSeq(vData, mid + 1, right))
                      \o SubSeq(vData, right + 1, Len(vData))
                 ELSE vData
  /\ vAt' = [vAt EXCEPT !.i = @ + 2 * vAt.step] /\ UNCHANGED vInput
NextPass ==
  /\ vAt.phase = "merging" /\ vAt.step < Len(vData) /\ vAt.i > Len(vData)
  /\ vAt' = [vAt EXCEPT !.step = 2 * @, !.i = 1] /\ UNCHANGED <<vInput, vData>>
Sorted ==
  /\ vAt.phase = "merging" /\ vAt.step >= Len(vData)
  /\ vAt' = [vAt EXCEPT !.phase = "done"] /\ UNCHANGED <<vInput, vData>>

-----------------------------------------------------------------------------
(* Searching *)
find_max_sisd(a) == FoldLeft(Larger, a[1], Tail(a))
\* Eight maxima at a time, then the maximum of them, then the rest of the array.
find_max_simd(a) ==
  LET whole == Len(a) \div 8
      Lanewise(m, b) == [l \in Lanes |-> Larger(m[l], Load(a, 8 * b - 7)[l])]
      max_vec == FoldLeft(Lanewise, [l \in Lanes |-> a[1]], [b \in 1..whole |-> b])
  IN FoldLeft(Larger, max_vec[0], [l \in 1..7 |-> max_vec[l]] \o SubSeq(a, 8 * whole + 1, Len(a)))

NotFound == -1
FirstAt(a, key, from) ==
  IF \E i \in from..Len(a) : a[i] = key
  THEN CHOOSE i \in from..Len(a) : a[i] = key /\ \A k \in from..i - 1 : a[k] # key
  ELSE NotFound
find_sisd(a, key) == FirstAt(a, key, 1)
\* The first lane that is equal; the loop ends before the last eight numbers.
first_equal_yvalue(v, key) ==
  IF \E l \in Lanes : v[l] = key
  THEN CHOOSE l \in Lanes : v[l] = key /\ \A k \in 0..l - 1 : v[k] # key
  ELSE NotFound
InVectors(j, a) == j < Len(a) - 8
find_simd(a, key) ==
  LET from[j \in Nat] ==
        IF ~InVectors(j, a) THEN FirstAt(a, key, j + 1)
        ELSE LET pos == first_equal_yvalue(Load(a, j + 1), key)
             IN IF pos # NotFound THEN j + pos + 1 ELSE from[j + 8]
  IN from[0]

-----------------------------------------------------------------------------
VectorsInit == vInput = <<>> /\ vData = <<>> /\ vAt = Blank
VectorsNext == initialize_array \/ SortBlock \/ BlocksSorted \/ MergeBlocks \/ NextPass \/ Sorted
VectorsSpec == VectorsInit /\ [][VectorsNext]_vectorVars

VectorsTypeOK ==
  /\ vInput \in Arrays \cup {<<>>} /\ Len(vData) = Len(vInput)
  /\ vAt.phase \in {"new", "blocks", "merging", "done"} /\ vAt.i \in Nat /\ vAt.step \in Nat

\* The vector programs answer what the plain ones answer: the same array as the
\* merge sort and the quicksort, in order and with the numbers that were there;
\* the same maximum; the same first place of every number, and none for others.
VectorsAgree ==
  vAt.phase = "done" =>
    /\ \A i \in 1..Len(vData) - 1 : vData[i] <= vData[i + 1]
    /\ \A x \in ToSet(vInput) \cup ToSet(vData) :
         Len(SelectSeq(vData, LAMBDA y : y = x)) = Len(SelectSeq(vInput, LAMBDA y : y = x))
    /\ vData = merge_sort(vInput) /\ vData = quick_sort(vInput)
    /\ find_max_simd(vInput) = find_max_sisd(vInput)
    /\ \A key \in ToSet(vInput) \cup {NotFound} : find_simd(vInput, key) = find_sisd(vInput, key)
=============================================================================
