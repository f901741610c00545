--------------------------- MODULE BitonicProofs ---------------------------
(***************************************************************************)
(* bitonic_sort_8 sorts every eight integers.                               *)
(***************************************************************************)
EXTENDS Bitonic, TLAPS

Register == [Lanes -> Int]

LEMMA LanesAre == Lanes = {0, 1, 2, 3, 4, 5, 6, 7}
  BY DEF Lanes

LEMMA PermutationsAre ==
    /\ permute_step_1_1 \in [1..8 -> Lanes]
    /\ permute_step_2_1 \in [1..8 -> Lanes]
    /\ permute_step_2_2 \in [1..8 -> Lanes]
    /\ permute_step_3_1 \in [1..8 -> Lanes]
    /\ permute_step_3_2 \in [1..8 -> Lanes]
    /\ permute_step_3_3 \in [1..8 -> Lanes]
  BY DEF Lanes, permute_step_1_1, permute_step_2_1, permute_step_2_2, permute_step_3_1, permute_step_3_2, permute_step_3_3

LEMMA ExchangeTypes ==
    ASSUME NEW v \in Register, NEW perm \in [1..8 -> Lanes], NEW high
    PROVE  Exchanged(v, perm, high) \in Register
  BY DEF Register, Exchanged, Lanes, Smaller, Larger

\* Lanes that take each other's values, once each.
Arrangements ==
    {q \in [Lanes -> Lanes] : \A l, m \in Lanes : q[l] = q[m] => l = m}

\* t holds the numbers of s, each as often.
Rearranges(t, s) == \E q \in Arrangements : t = [l \in Lanes |-> s[q[l]]]

LEMMA ExchangeKeeps ==
    ASSUME NEW v \in Register, NEW perm \in [1..8 -> Lanes], NEW high,
           \A l \in Lanes : perm[perm[l + 1] + 1] = l,
           \A l \in Lanes : l \in high <=> ~(perm[l + 1] \in high)
    PROVE  Rearranges(Exchanged(v, perm, high), v)
<1> DEFINE swaps(l) == IF l \in high THEN v[l] < v[perm[l + 1]] ELSE v[perm[l + 1]] < v[l]
           q == [l \in Lanes |-> IF swaps(l) THEN perm[l + 1] ELSE l]
<1>1. \A l \in Lanes : perm[l + 1] \in Lanes
  <2> SUFFICES ASSUME NEW l \in Lanes PROVE perm[l + 1] \in Lanes
    OBVIOUS
  <2>1. l + 1 \in 1..8 BY DEF Lanes
  <2> QED BY <2>1
<1>2. \A l \in Lanes : v[l] \in Int BY DEF Register
<1>3. \A l \in Lanes : swaps(perm[l + 1]) <=> swaps(l)
  BY <1>1, <1>2
<1>4. q \in Arrangements
  <2>1. q \in [Lanes -> Lanes] BY <1>1
  <2>2. ASSUME NEW l \in Lanes, NEW m \in Lanes, q[l] = q[m] PROVE l = m
    <3>1. CASE swaps(l) /\ swaps(m) BY <2>2, <3>1
    <3>2. CASE ~swaps(l) /\ ~swaps(m) BY <2>2, <3>2
    <3>3. CASE swaps(l) /\ ~swaps(m)
      <4>1. perm[l + 1] = m BY <2>2, <3>3
      <4> QED BY <1>3, <3>3, <4>1
    <3>4. CASE ~swaps(l) /\ swaps(m)
      <4>1. perm[m + 1] = l BY <2>2, <3>4
      <4> QED BY <1>3, <3>4, <4>1
    <3> QED BY <3>1, <3>2, <3>3, <3>4
  <2> QED BY <2>1, <2>2 DEF Arrangements
<1>5. \A l \in Lanes : Exchanged(v, perm, high)[l] = v[q[l]]
  <2> SUFFICES ASSUME NEW l \in Lanes PROVE Exchanged(v, perm, high)[l] = v[q[l]]
    OBVIOUS
  <2>1. v[l] \in Int /\ v[perm[l + 1]] \in Int BY <1>1, <1>2
  <2>2. Exchanged(v, perm, high)[l] = IF l \in high THEN Larger(v[l], v[perm[l + 1]])
                                                    ELSE Smaller(v[l], v[perm[l + 1]])
    BY DEF Exchanged
  <2>3. CASE swaps(l) BY <2>1, <2>2, <2>3 DEF Smaller, Larger
  <2>4. CASE ~swaps(l) BY <2>1, <2>2, <2>4 DEF Smaller, Larger
  <2> QED BY <2>3, <2>4
<1>6. Exchanged(v, perm, high) = [l \in Lanes |-> v[q[l]]]
  BY <1>5, Zenon DEF Exchanged
<1> QED BY <1>4, <1>6 DEF Rearranges

\* Every permutation is its own inverse, and a blend takes one lane of each pair
\* from vmax.
LEMMA PartnersAre ==
    \A l \in Lanes :
      /\ permute_step_1_1[permute_step_1_1[l + 1] + 1] = l
      /\ permute_step_2_1[permute_step_2_1[l + 1] + 1] = l
      /\ permute_step_2_2[permute_step_2_2[l + 1] + 1] = l
      /\ permute_step_3_1[permute_step_3_1[l + 1] + 1] = l
      /\ permute_step_3_2[permute_step_3_2[l + 1] + 1] = l
      /\ permute_step_3_3[permute_step_3_3[l + 1] + 1] = l
      /\ l \in Odd <=> ~(permute_step_1_1[l + 1] \in Odd)
      /\ l \in UpperPairs <=> ~(permute_step_2_1[l + 1] \in UpperPairs)
      /\ l \in Odd <=> ~(permute_step_2_2[l + 1] \in Odd)
      /\ l \in UpperHalf <=> ~(permute_step_3_1[l + 1] \in UpperHalf)
      /\ l \in UpperPairs <=> ~(permute_step_3_2[l + 1] \in UpperPairs)
      /\ l \in Odd <=> ~(permute_step_3_3[l + 1] \in Odd)
  BY LanesAre DEF permute_step_1_1, permute_step_2_1, permute_step_2_2, permute_step_3_1, permute_step_3_2,
                  permute_step_3_3, Odd, UpperPairs, UpperHalf

LEMMA ArrangementsCompose ==
    ASSUME NEW p \in Arrangements, NEW q \in Arrangements
    PROVE  [l \in Lanes |-> p[q[l]]] \in Arrangements
  BY DEF Arrangements

LEMMA Neighbours ==
    ASSUME NEW v \in Register, NEW s, s = Exchanged(v, permute_step_1_1, Odd)
    PROVE  /\ s[0] = Smaller(v[0], v[1]) /\ s[1] = Larger(v[1], v[0])
           /\ s[2] = Smaller(v[2], v[3]) /\ s[3] = Larger(v[3], v[2])
           /\ s[4] = Smaller(v[4], v[5]) /\ s[5] = Larger(v[5], v[4])
           /\ s[6] = Smaller(v[6], v[7]) /\ s[7] = Larger(v[7], v[6])
  BY LanesAre DEF Exchanged, permute_step_1_1, Odd

LEMMA MirroredQuads ==
    ASSUME NEW v \in Register, NEW s, s = Exchanged(v, permute_step_2_1, UpperPairs)
    PROVE  /\ s[0] = Smaller(v[0], v[3]) /\ s[3] = Larger(v[3], v[0])
           /\ s[1] = Smaller(v[1], v[2]) /\ s[2] = Larger(v[2], v[1])
           /\ s[4] = Smaller(v[4], v[7]) /\ s[7] = Larger(v[7], v[4])
           /\ s[5] = Smaller(v[5], v[6]) /\ s[6] = Larger(v[6], v[5])
  BY LanesAre DEF Exchanged, permute_step_2_1, UpperPairs

LEMMA MirroredHalves ==
    ASSUME NEW v \in Register, NEW s, s = Exchanged(v, permute_step_3_1, UpperHalf)
    PROVE  /\ s[0] = Smaller(v[0], v[7]) /\ s[7] = Larger(v[7], v[0])
           /\ s[1] = Smaller(v[1], v[6]) /\ s[6] = Larger(v[6], v[1])
           /\ s[2] = Smaller(v[2], v[5]) /\ s[5] = Larger(v[5], v[2])
           /\ s[3] = Smaller(v[3], v[4]) /\ s[4] = Larger(v[4], v[3])
  BY LanesAre DEF Exchanged, permute_step_3_1, UpperHalf

LEMMA TwoApart ==
    ASSUME NEW v \in Register, NEW s, s = Exchanged(v, permute_step_3_2, UpperPairs)
    PROVE  /\ s[0] = Smaller(v[0], v[2]) /\ s[2] = Larger(v[2], v[0])
           /\ s[1] = Smaller(v[1], v[3]) /\ s[3] = Larger(v[3], v[1])
           /\ s[4] = Smaller(v[4], v[6]) /\ s[6] = Larger(v[6], v[4])
           /\ s[5] = Smaller(v[5], v[7]) /\ s[7] = Larger(v[7], v[5])
  BY LanesAre DEF Exchanged, permute_step_3_2, UpperPairs

THEOREM NetworkSorts ==
    ASSUME NEW v \in Register
    PROVE  \A l \in 0..6 : bitonic_sort_8(v)[l] <= bitonic_sort_8(v)[l + 1]
<1> USE DEF Register, Smaller, Larger
<1> DEFINE a == Step1(v)
           b1 == Exchanged(a, permute_step_2_1, UpperPairs)
           b == Step2(a)
           c1 == Exchanged(b, permute_step_3_1, UpperHalf)
           c2 == Exchanged(c1, permute_step_3_2, UpperPairs)
           c == Step3(b)
<1>1. /\ a \in Register /\ b1 \in Register /\ b \in Register
      /\ c1 \in Register /\ c2 \in Register /\ c \in Register
  BY ExchangeTypes, PermutationsAre DEF Step1, Step2, Step3
<1>2. permute_step_2_2 = permute_step_1_1 /\ permute_step_3_3 = permute_step_1_1
  BY DEF permute_step_1_1, permute_step_2_2, permute_step_3_3
<1>3. /\ a = Exchanged(v, permute_step_1_1, Odd)
      /\ b = Exchanged(b1, permute_step_1_1, Odd)
      /\ c = Exchanged(c2, permute_step_1_1, Odd)
      /\ bitonic_sort_8(v) = c
      /\ b1 = Exchanged(a, permute_step_2_1, UpperPairs)
      /\ c1 = Exchanged(b, permute_step_3_1, UpperHalf)
      /\ c2 = Exchanged(c1, permute_step_3_2, UpperPairs)
  BY <1>2 DEF Step1, Step2, Step3, bitonic_sort_8
<1> HIDE DEF a, b1, b, c1, c2, c
<1>4. \A l \in Lanes : /\ v[l] \in Int /\ a[l] \in Int /\ b1[l] \in Int /\ b[l] \in Int
                       /\ c1[l] \in Int /\ c2[l] \in Int /\ c[l] \in Int
  BY <1>1
<1>5. /\ a[0] <= a[1] /\ a[2] <= a[3] /\ a[4] <= a[5] /\ a[6] <= a[7]
  BY <1>3, <1>4, LanesAre, Neighbours
\* Both halves of a quad are sorted, and the lower half holds the two smaller.
<1>6. /\ b1[0] <= b1[2] /\ b1[0] <= b1[3] /\ b1[1] <= b1[2] /\ b1[1] <= b1[3]
      /\ b1[4] <= b1[6] /\ b1[4] <= b1[7] /\ b1[5] <= b1[6] /\ b1[5] <= b1[7]
  BY <1>1, <1>3, <1>4, <1>5, LanesAre, MirroredQuads
<1>7. /\ b[0] <= b[1] /\ b[1] <= b[2] /\ b[2] <= b[3]
      /\ b[4] <= b[5] /\ b[5] <= b[6] /\ b[6] <= b[7]
  BY <1>1, <1>3, <1>4, <1>6, LanesAre, Neighbours
<1>8. \A l \in 0..3, m \in 4..7 : c1[l] <= c1[m]
  BY <1>1, <1>3, <1>4, <1>7, LanesAre, MirroredHalves
<1>9. \A l \in 0..3, m \in 4..7 : c2[l] <= c2[m]
  BY <1>1, <1>3, <1>4, <1>8, LanesAre, TwoApart
\* A half of c1 rises and then falls, or the other way: the two smaller of it
\* are never in the same pair.
<1>10. /\ c2[0] <= c2[2] /\ c2[0] <= c2[3] /\ c2[1] <= c2[2] /\ c2[1] <= c2[3]
       /\ c2[4] <= c2[6] /\ c2[4] <= c2[7] /\ c2[5] <= c2[6] /\ c2[5] <= c2[7]
  <2>1. /\ c1[0] = Smaller(b[0], b[7]) /\ c1[1] = Smaller(b[1], b[6])
        /\ c1[2] = Smaller(b[2], b[5]) /\ c1[3] = Smaller(b[3], b[4])
        /\ c1[4] = Larger(b[4], b[3]) /\ c1[5] = Larger(b[5], b[2])
        /\ c1[6] = Larger(b[6], b[1]) /\ c1[7] = Larger(b[7], b[0])
    BY <1>1, <1>3, MirroredHalves
  <2>2. /\ c2[0] = Smaller(c1[0], c1[2]) /\ c2[2] = Larger(c1[2], c1[0])
        /\ c2[1] = Smaller(c1[1], c1[3]) /\ c2[3] = Larger(c1[3], c1[1])
        /\ c2[4] = Smaller(c1[4], c1[6]) /\ c2[6] = Larger(c1[6], c1[4])
        /\ c2[5] = Smaller(c1[5], c1[7]) /\ c2[7] = Larger(c1[7], c1[5])
    BY <1>1, <1>3, TwoApart
  <2>3. \A l \in Lanes : b[l] \in Int BY <1>4
  <2> HIDE DEF Register
  <2>4. /\ c2[0] <= c2[2] /\ c2[0] <= c2[3] /\ c2[1] <= c2[2] /\ c2[1] <= c2[3]
    BY <1>7, <2>1, <2>2, <2>3, LanesAre
  <2>5. /\ c2[4] <= c2[6] /\ c2[4] <= c2[7] /\ c2[5] <= c2[6] /\ c2[5] <= c2[7]
    BY <1>7, <2>1, <2>2, <2>3, LanesAre
  <2> QED BY <2>4, <2>5
<1>11. /\ c[0] <= c[1] /\ c[1] <= c[2] /\ c[2] <= c[3] /\ c[3] <= c[4]
       /\ c[4] <= c[5] /\ c[5] <= c[6] /\ c[6] <= c[7]
  BY <1>1, <1>3, <1>4, <1>9, <1>10, LanesAre, Neighbours
<1> QED BY <1>3, <1>11

LEMMA RearrangesComposes ==
    ASSUME NEW s \in Register, NEW t \in Register, NEW u \in Register,
           Rearranges(t, s), Rearranges(u, t)
    PROVE  Rearranges(u, s)
<1>1. PICK p \in Arrangements : t = [l \in Lanes |-> s[p[l]]] BY DEF Rearranges
<1>2. PICK q \in Arrangements : u = [l \in Lanes |-> t[q[l]]] BY DEF Rearranges
<1>3. q \in [Lanes -> Lanes] BY DEF Arrangements
<1>4. \A l \in Lanes : t[q[l]] = s[p[q[l]]] BY <1>1, <1>3
<1> DEFINE r == [l \in Lanes |-> p[q[l]]]
<1>6. u = [l \in Lanes |-> s[r[l]]] BY <1>2, <1>4
<1>7. r \in Arrangements BY ArrangementsCompose
<1> QED BY <1>6, <1>7 DEF Rearranges

\* It returns the numbers it was given, each as often as before.
THEOREM NetworkKeeps ==
    ASSUME NEW v \in Register
    PROVE  Rearranges(bitonic_sort_8(v), v)
<1> DEFINE a == Exchanged(v, permute_step_1_1, Odd)
           b == Exchanged(a, permute_step_2_1, UpperPairs)
           c == Exchanged(b, permute_step_2_2, Odd)
           d == Exchanged(c, permute_step_3_1, UpperHalf)
           e == Exchanged(d, permute_step_3_2, UpperPairs)
           f == Exchanged(e, permute_step_3_3, Odd)
<1>1. /\ a \in Register /\ b \in Register /\ c \in Register
      /\ d \in Register /\ e \in Register /\ f \in Register
  BY ExchangeTypes, PermutationsAre
<1>2. bitonic_sort_8(v) = f BY DEF bitonic_sort_8, Step1, Step2, Step3
<1>3. Rearranges(a, v)
  <2>1. v \in Register /\ permute_step_1_1 \in [1..8 -> Lanes] BY <1>1, PermutationsAre
  <2> QED BY <2>1, PartnersAre, ExchangeKeeps
<1>4. Rearranges(b, a)
  <2>1. a \in Register /\ permute_step_2_1 \in [1..8 -> Lanes] BY <1>1, PermutationsAre
  <2> HIDE DEF a
  <2> QED BY <2>1, PartnersAre, ExchangeKeeps
<1>5. Rearranges(c, b)
  <2>1. b \in Register /\ permute_step_2_2 \in [1..8 -> Lanes] BY <1>1, PermutationsAre
  <2> HIDE DEF b
  <2> QED BY <2>1, PartnersAre, ExchangeKeeps
<1>6. Rearranges(d, c)
  <2>1. c \in Register /\ permute_step_3_1 \in [1..8 -> Lanes] BY <1>1, PermutationsAre
  <2> HIDE DEF c
  <2> QED BY <2>1, PartnersAre, ExchangeKeeps
<1>7. Rearranges(e, d)
  <2>1. d \in Register /\ permute_step_3_2 \in [1..8 -> Lanes] BY <1>1, PermutationsAre
  <2> HIDE DEF d
  <2> QED BY <2>1, PartnersAre, ExchangeKeeps
<1>8. Rearranges(f, e)
  <2>1. e \in Register /\ permute_step_3_3 \in [1..8 -> Lanes] BY <1>1, PermutationsAre
  <2> HIDE DEF e
  <2> QED BY <2>1, PartnersAre, ExchangeKeeps
<1> HIDE DEF a, b, c, d, e, f
<1>9. Rearranges(c, v)
  <2>1. Rearranges(b, v) BY <1>1, <1>3, <1>4, RearrangesComposes
  <2> QED BY <1>1, <1>5, <2>1, RearrangesComposes
<1>10. Rearranges(f, c)
  <2>1. Rearranges(e, c) BY <1>1, <1>6, <1>7, RearrangesComposes
  <2> QED BY <1>1, <1>8, <2>1, RearrangesComposes
<1> QED BY <1>1, <1>2, <1>9, <1>10, RearrangesComposes
=============================================================================
