------------------------------ MODULE Bitonic ------------------------------
(***************************************************************************)
(* bitonic_sort_8 of the vector practice: eight numbers in one register, sorted *)
(* by six exchanges that treat all lanes at once.                                *)
(***************************************************************************)
EXTENDS Integers

Lanes == 0..7

\* Which lane each lane is compared with.
permute_step_1_1 == <<1, 0, 3, 2, 5, 4, 7, 6>>
permute_step_2_1 == <<3, 2, 1, 0, 7, 6, 5, 4>>
permute_step_2_2 == <<1, 0, 3, 2, 5, 4, 7, 6>>
permute_step_3_1 == <<7, 6, 5, 4, 3, 2, 1, 0>>
permute_step_3_2_mirrored == <<3, 2, 1, 0, 7, 6, 5, 4>>
permute_step_3_2 == <<2, 3, 0, 1, 6, 7, 4, 5>>
permute_step_3_3 == <<1, 0, 3, 2, 5, 4, 7, 6>>

\* The lanes a blend takes from vmax: the bits of its mask.
Odd == {1, 3, 5, 7}
UpperPairs == {2, 3, 6, 7}
UpperHalf == {4, 5, 6, 7}

\* Permute, _mm256_min_epi32 and _mm256_max_epi32, blend.
Smaller(x, y) == IF x < y THEN x ELSE y
Larger(x, y) == IF x < y THEN y ELSE x
Exchanged(v, perm, high) ==
  [l \in Lanes |-> LET exch == v[perm[l + 1]]
                   IN IF l \in high THEN Larger(v[l], exch) ELSE Smaller(v[l], exch)]

Step1(v) == Exchanged(v, permute_step_1_1, Odd)
Step2(v) == Exchanged(Exchanged(v, permute_step_2_1, UpperPairs), permute_step_2_2, Odd)
Step3(v) ==
  Exchanged(Exchanged(Exchanged(v, permute_step_3_1, UpperHalf), permute_step_3_2, UpperPairs),
            permute_step_3_3, Odd)
bitonic_sort_8(v) == Step3(Step2(Step1(v)))
=============================================================================
