----------------------------- MODULE PqDataProofs ----------------------------
(***************************************************************************)
(* The data that crosses a connection.  What cursors and a load deliver,   *)
(* for queries of any length, chunks of any size and any number of chunks  *)
(* and other statements; what a copy gives its receivers, for any source   *)
(* and any pieces.  The lemmas about sequences are those of                *)
(* PqStreamProofs.                                                         *)
(***************************************************************************)
EXTENDS PqFetch, PqCopy, PqStreamProofs

-----------------------------------------------------------------------------
(* Rows of several cursors, and a load, over one connection.               *)

\* Of messages that stand at b + 1 and on, those up to h are rows and the others are not.
Shape(s, b, h) ==
  \A i \in 1 .. Len(s) : (b + i <= h => s[i] = b + i) /\ (b + i > h => s[i] <= 0)
HasErr(s) == \E i \in 1 .. Len(s) : s[i] = Err

LEMMA RunsOfRows ==
  ASSUME NEW a \in Int, NEW b \in Int, NEW n \in Nat, b - a + 1 = n \/ (n = 0 /\ b < a)
  PROVE  /\ UpTo(a, b) \in Seq(Int) /\ Len(UpTo(a, b)) = n
         /\ \A i \in 1 .. n : UpTo(a, b)[i] = a + i - 1
<1>1. UpTo(a, b) = [i \in 1 .. n |-> a + i - 1]
  <2>1. 1 .. (b - a + 1) = 1 .. n
    OBVIOUS
  <2> QED
    BY <2>1 DEF UpTo
<1>2. PICK s : s = [i \in 1 .. n |-> a + i - 1]
  OBVIOUS
<1>3. s \in Seq(Int) /\ Len(s) = n /\ \A i \in 1 .. n : s[i] = a + i - 1
  BY <1>2
<1> QED
  BY <1>1, <1>2, <1>3

LEMMA RowsJoin ==
  ASSUME NEW a \in Nat, NEW b \in Nat, a <= b
  PROVE  UpTo(1, a) \o UpTo(a + 1, b) = UpTo(1, b)
<1>1. PICK s \in Seq(Int) : s = UpTo(1, a) /\ Len(s) = a /\ \A i \in 1 .. a : s[i] = i
  BY RunsOfRows
<1>2. PICK t \in Seq(Int), m \in Nat :
        t = UpTo(a + 1, b) /\ m = b - a /\ Len(t) = m /\ \A i \in 1 .. m : t[i] = a + i
  <2>1. PICK m \in Nat : m = b - a
    OBVIOUS
  <2>2. PICK lo \in Int, hi \in Int : lo = a + 1 /\ hi = b
    OBVIOUS
  <2>3. hi - lo + 1 = m /\ \A i \in 1 .. m : lo + i - 1 = a + i
    BY <2>1, <2>2
  <2>4. UpTo(lo, hi) \in Seq(Int) /\ Len(UpTo(lo, hi)) = m
        /\ \A i \in 1 .. m : UpTo(lo, hi)[i] = lo + i - 1
    BY <2>3, RunsOfRows
  <2> QED
    BY <2>1, <2>2, <2>3, <2>4
<1>3. PICK u \in Seq(Int) : u = UpTo(1, b) /\ Len(u) = b /\ \A i \in 1 .. b : u[i] = i
  BY RunsOfRows
<1>4. s \o t \in Seq(Int) /\ Len(s \o t) = b
  <2>1. s \o t \in Seq(Int) /\ Len(s \o t) = Len(s) + Len(t)
    OBVIOUS
  <2>2. a + m = b
    BY <1>2
  <2> QED
    BY <1>1, <1>2, <2>1, <2>2
<1>5. ASSUME NEW i \in 1 .. b PROVE (s \o t)[i] = u[i]
  <2>1. CASE i <= a
    <3>1. (s \o t)[i] = s[i]
      BY <1>1, <2>1
    <3> QED
      BY <1>1, <1>3, <2>1, <3>1
  <2>2. CASE i > a
    <3>1. PICK j \in 1 .. m : j = i - a
      BY <1>2, <2>2
    <3>2. (s \o t)[i] = t[i - a]
      <4>1. i \in 1 .. (Len(s) + Len(t)) /\ i > Len(s)
        BY <1>1, <1>2, <2>2
      <4>2. (s \o t)[i] = t[i - Len(s)]
        <5>1. PICK at \in 1 .. (Len(s) + Len(t)) : at = i /\ at > Len(s)
          BY <4>1
        <5> QED
          BY <5>1
      <4> QED
        BY <1>1, <4>2
    <3>3. t[j] = a + j
      BY <1>2
    <3> QED
      BY <1>3, <3>1, <3>2, <3>3
  <2>3. i <= a \/ i > a
    OBVIOUS
  <2> QED
    BY <2>1, <2>2, <2>3, Zenon
<1>6. s \o t = u
  BY <1>3, <1>4, <1>5, SameElements
<1> QED
  BY <1>1, <1>2, <1>3, <1>6

\* The rows of the beginnings of a chunk.
RowsUpTo(f, s) ==
  f = [i \in 0 .. Len(s) |-> IF i = 0 THEN <<>>
                             ELSE IF Row(s[i]) THEN Append(f[i - 1], s[i]) ELSE f[i - 1]]
LEMMA RowsUpToExists ==
  ASSUME NEW s \in Seq(Int)
  PROVE  \E f : RowsUpTo(f, s)
<1> DEFINE P(n, f) == f = [i \in 0 .. n |-> IF i = 0 THEN <<>>
                             ELSE IF Row(s[i]) THEN Append(f[i - 1], s[i]) ELSE f[i - 1]]
           S == {n \in Nat : \E f : P(n, f)}
<1>1. 0 \in S
  <2>1. PICK g : g = [i \in 0 .. 0 |-> <<>>]
    OBVIOUS
  <2>2. \A i \in 0 .. 0 : i = 0
    OBVIOUS
  <2>3. P(0, g)
    BY <2>1, <2>2
  <2> QED BY <2>3
<1>2. ASSUME NEW n \in S PROVE n + 1 \in S
  <2>1. PICK f : P(n, f)
    OBVIOUS
  <2>2. PICK last : last = IF Row(s[n + 1]) THEN Append(f[n], s[n + 1]) ELSE f[n]
    OBVIOUS
  <2>3. PICK g : g = [i \in 0 .. (n + 1) |-> IF i = n + 1 THEN last ELSE f[i]]
    OBVIOUS
  <2>4. ASSUME NEW i \in 0 .. (n + 1)
        PROVE g[i] = IF i = 0 THEN <<>>
                     ELSE IF Row(s[i]) THEN Append(g[i - 1], s[i]) ELSE g[i - 1]
    <3>1. CASE i = n + 1
      <4>1. i # 0 /\ i - 1 = n /\ n \in 0 .. (n + 1) /\ n # n + 1
        BY <3>1
      <4>2. g[i] = last /\ g[n] = f[n]
        BY <2>3, <3>1, <4>1
      <4> HIDE DEF P
      <4> QED
        BY <2>2, <3>1, <4>1, <4>2
    <3>2. CASE i # n + 1
      <4>1. i \in 0 .. n
        BY <3>2
      <4>2. g[i] = f[i] /\ (i # 0 => g[i - 1] = f[i - 1])
        BY <2>3, <4>1
      <4>3. f[i] = IF i = 0 THEN <<>>
                   ELSE IF Row(s[i]) THEN Append(f[i - 1], s[i]) ELSE f[i - 1]
        BY <2>1, <4>1
      <4> QED BY <4>2, <4>3
    <3> QED BY <3>1, <3>2
  <2>5. g = [i \in 0 .. (n + 1) |-> g[i]]
    BY <2>3
  <2>6. P(n + 1, g)
    BY <2>4, <2>5
  <2>7. n + 1 \in Nat /\ \E h : P(n + 1, h)
    <3> HIDE DEF P
    <3> QED BY <2>6
  <2> QED BY <2>7
<1>3. S = Nat
  <2> HIDE DEF S
  <2>1. S \in SUBSET Nat BY DEF S
  <2> QED BY <1>1, <1>2, <2>1, Inductive
<1>4. Len(s) \in S
  <2>1. Len(s) \in Nat OBVIOUS
  <2> HIDE DEF S
  <2> QED BY <1>3, <2>1
<1> QED
  BY <1>4 DEF RowsUpTo

LEMMA RowsInChunk ==
  ASSUME NEW s \in Seq(Int), NEW b \in Nat, NEW h \in Nat, Shape(s, b, h)
  PROVE  RowsIn(s) = UpTo(b + 1, Least(b + Len(s), h))
<1>1. PICK n \in Nat : n = Len(s)
  OBVIOUS
<1>2. PICK f : f = CHOOSE g : RowsUpTo(g, s)
  OBVIOUS
<1>3. RowsUpTo(f, s)
  BY <1>2, RowsUpToExists
<1>4. RowsIn(s) = f[n]
  BY <1>1, <1>2 DEF RowsIn, RowsUpTo
<1>5. /\ f[0] = <<>>
      /\ \A i \in 1 .. n : f[i] = IF Row(s[i]) THEN Append(f[i - 1], s[i]) ELSE f[i - 1]
  <2>1. \A i \in 0 .. n : f[i] = IF i = 0 THEN <<>>
                                 ELSE IF Row(s[i]) THEN Append(f[i - 1], s[i]) ELSE f[i - 1]
    BY <1>1, <1>3 DEF RowsUpTo
  <2>2. 0 \in 0 .. n /\ \A i \in 1 .. n : i \in 0 .. n /\ i # 0
    OBVIOUS
  <2> QED
    BY <2>1, <2>2
<1> DEFINE S == {k \in Nat : k <= n => f[k] = UpTo(b + 1, Least(b + k, h))}
<1>6. 0 \in S
  <2>1. PICK l \in Nat : l = Least(b + 0, h) /\ l < b + 1
    BY DEF Least
  <2>2. UpTo(b + 1, l) \in Seq(Int) /\ Len(UpTo(b + 1, l)) = 0
    BY <2>1, RunsOfRows
  <2>3. UpTo(b + 1, l) = <<>>
    BY <2>2, NoElements
  <2> QED
    BY <1>5, <2>1, <2>3
<1>7. ASSUME NEW k \in S PROVE k + 1 \in S
  <2> SUFFICES ASSUME k + 1 <= n PROVE f[k + 1] = UpTo(b + 1, Least(b + (k + 1), h))
    OBVIOUS
  <2>1. PICK m \in 1 .. n : m = k + 1 /\ m - 1 = k
    OBVIOUS
  <2>2. k \in Nat /\ f[k] = UpTo(b + 1, Least(b + k, h))
    OBVIOUS
  <2>3. f[m] = IF Row(s[m]) THEN Append(f[k], s[m]) ELSE f[k]
    BY <1>5, <2>1
  <2>4. (b + m <= h => s[m] = b + m) /\ (b + m > h => s[m] <= 0)
    BY <1>1 DEF Shape
  <2>5. CASE b + m > h
    <3>1. ~Row(s[m]) /\ Least(b + k, h) = h /\ Least(b + m, h) = h
      <4>1. PICK e \in Int : e = s[m]
        BY <1>1
      <4>2. ~(e > 0)
        BY <2>4, <2>5, <4>1
      <4> QED
        BY <2>1, <2>2, <2>5, <4>1, <4>2 DEF Row, Least
    <3> QED
      BY <2>1, <2>2, <2>3, <3>1
  <2>6. CASE ~(b + m > h)
    <3>1. s[m] = b + m /\ b + m \in Nat /\ b + m > 0
      BY <2>4, <2>6
    <3>2. Row(s[m])
      BY <3>1 DEF Row
    <3>3. Least(b + k, h) = b + k /\ Least(b + m, h) = b + m
      BY <2>1, <2>2, <2>6 DEF Least
    <3>4. PICK t \in Seq(Int) : t = UpTo(b + 1, b + k) /\ Len(t) = k /\ \A i \in 1 .. k : t[i] = b + 1 + i - 1
      <4>1. b + 1 \in Int /\ b + k \in Int /\ b + k - (b + 1) + 1 = k
        BY <2>2
      <4>2. PICK lo \in Int, hi \in Int : lo = b + 1 /\ hi = b + k /\ hi - lo + 1 = k
        BY <4>1
      <4>3. UpTo(lo, hi) \in Seq(Int) /\ Len(UpTo(lo, hi)) = k
            /\ \A i \in 1 .. k : UpTo(lo, hi)[i] = lo + i - 1
        BY <2>2, <4>2, RunsOfRows
      <4> QED
        BY <4>2, <4>3
    <3>5. PICK u \in Seq(Int) : u = UpTo(b + 1, b + m) /\ Len(u) = m /\ \A i \in 1 .. m : u[i] = b + 1 + i - 1
      <4>1. b + 1 \in Int /\ b + m \in Int /\ b + m - (b + 1) + 1 = m /\ m \in Nat
        OBVIOUS
      <4>2. PICK lo \in Int, hi \in Int : lo = b + 1 /\ hi = b + m /\ hi - lo + 1 = m
        BY <4>1
      <4>3. UpTo(lo, hi) \in Seq(Int) /\ Len(UpTo(lo, hi)) = m
            /\ \A i \in 1 .. m : UpTo(lo, hi)[i] = lo + i - 1
        BY <4>1, <4>2, RunsOfRows
      <4> QED
        BY <4>2, <4>3
    <3>6. PICK v \in Seq(Int) : v = Append(t, b + m)
      <4>1. PICK e \in Int : e = b + m
        BY <3>1
      <4>2. Append(t, e) \in Seq(Int)
        OBVIOUS
      <4> QED
        BY <4>1, <4>2
    <3>7. Len(v) = m /\ v[m] = b + m /\ \A i \in 1 .. k : v[i] = t[i]
      <4>1. PICK e \in Int : e = b + m
        BY <3>1
      <4>2. v = Append(t, e) /\ Len(t) = k /\ m = k + 1
        BY <2>1, <2>2, <3>4, <3>6, <4>1
      <4>3. Len(v) = Len(t) + 1 /\ v[Len(t) + 1] = e
        BY <4>2
      <4>4. \A i \in 1 .. Len(t) : v[i] = t[i]
        BY <4>2
      <4> QED
        BY <4>1, <4>2, <4>3, <4>4
    <3>8. ASSUME NEW i \in 1 .. m PROVE v[i] = u[i]
      <4>1. u[i] = b + i
        BY <3>5
      <4>2. CASE i = m
        BY <3>7, <4>1, <4>2
      <4>3. CASE i # m
        <5>1. i \in 1 .. k
          BY <2>1, <2>2, <4>3
        <5>2. t[i] = b + i
          BY <3>4, <5>1
        <5> QED
          BY <3>7, <4>1, <5>1, <5>2
      <4> QED
        BY <4>2, <4>3
    <3>9. v = u
      BY <3>5, <3>7, <3>8, SameElements
    <3> QED
      BY <2>1, <2>2, <2>3, <3>1, <3>2, <3>3, <3>4, <3>5, <3>6, <3>9
  <2> QED
    BY <2>5, <2>6
<1>8. S = Nat
  <2>1. S \in SUBSET Nat
    OBVIOUS
  <2> HIDE DEF S
  <2> QED
    BY <1>6, <1>7, <2>1, Inductive
<1>9. f[n] = UpTo(b + 1, Least(b + n, h))
  BY <1>8
<1> QED
  BY <1>1, <1>4, <1>9

\* What a server answers to a request for the limit rows of q from row p on: rows up to h.
Replies(r, p, n, limit, h) ==
  /\ r \in Seq(Int) /\ Shape(r, p, h)
  /\ p <= h /\ h <= n /\ h <= p + limit /\ h < p + Len(r)
  /\ HasErr(r) => h < p + limit
  /\ ~HasErr(r) => h = n \/ h = p + limit

LEMMA EndOfReply ==
  ASSUME NEW p \in Nat, NEW h \in Nat, p <= h, NEW m \in {Err, Cmp}
  PROVE  LET r == UpTo(p + 1, h) \o <<m, Rdy>>
         IN r \in Seq(Int) /\ Shape(r, p, h) /\ h < p + Len(r) /\ (HasErr(r) <=> m = Err)
<1>1. PICK d \in Nat : d = h - p
  OBVIOUS
<1>2. PICK s \in Seq(Int) : s = UpTo(p + 1, h) /\ Len(s) = d /\ \A i \in 1 .. d : s[i] = p + i
  <2>1. PICK lo \in Int, hi \in Int : lo = p + 1 /\ hi = h
    OBVIOUS
  <2>2. hi - lo + 1 = d /\ \A i \in 1 .. d : lo + i - 1 = p + i
    BY <1>1, <2>1
  <2>3. UpTo(lo, hi) \in Seq(Int) /\ Len(UpTo(lo, hi)) = d
        /\ \A i \in 1 .. d : UpTo(lo, hi)[i] = lo + i - 1
    BY <2>2, RunsOfRows
  <2> QED
    BY <2>1, <2>2, <2>3
<1>3. PICK t \in Seq(Int) : t = <<m, Rdy>> /\ Len(t) = 2 /\ t[1] = m /\ t[2] = 0
  <2>1. m \in Int /\ Rdy = 0
    BY DEF Err, Cmp, Rdy
  <2>2. <<m, 0>> \in Seq(Int) /\ Len(<<m, 0>>) = 2 /\ <<m, 0>>[1] = m /\ <<m, 0>>[2] = 0
    BY <2>1
  <2> QED
    BY <2>1, <2>2
<1>4. PICK r \in Seq(Int) : r = s \o t
  <2>1. s \o t \in Seq(Int)
    OBVIOUS
  <2> QED
    BY <2>1
<1>5. /\ Len(r) = d + 2 /\ \A i \in 1 .. d : r[i] = p + i
      /\ r[d + 1] = m /\ r[d + 2] = 0
  <2>1. Len(r) = d + 2
    BY <1>2, <1>3, <1>4
  <2>2. ASSUME NEW i \in 1 .. d PROVE r[i] = p + i
    <3>1. r[i] = s[i]
      BY <1>2, <1>4
    <3> QED
      BY <1>2, <3>1
  <2>3. r[d + 1] = t[1] /\ r[d + 2] = t[2]
    BY <1>2, <1>3, <1>4
  <2> QED
    BY <1>3, <2>1, <2>2, <2>3
<1>6. m < 0
  BY DEF Err, Cmp
<1>7. Shape(r, p, h)
  <2> SUFFICES ASSUME NEW i \in 1 .. Len(r)
               PROVE  (p + i <= h => r[i] = p + i) /\ (p + i > h => r[i] <= 0)
    BY DEF Shape
  <2>1. CASE i <= d
    <3>1. r[i] = p + i /\ p + i <= h
      BY <1>1, <1>5, <2>1
    <3> QED
      BY <3>1
  <2>2. CASE i > d
    <3>1. i = d + 1 \/ i = d + 2
      BY <1>5, <2>2
    <3>2. r[i] <= 0 /\ p + i > h
      BY <1>1, <1>5, <1>6, <2>2, <3>1
    <3> QED
      BY <3>2
  <2>3. i <= d \/ i > d
    OBVIOUS
  <2> QED
    BY <2>1, <2>2, <2>3, Zenon
<1>8. HasErr(r) <=> m = Err
  <2>1. ASSUME NEW i \in 1 .. Len(r), r[i] = Err PROVE m = Err
    <3>1. ~(i <= d)
      BY <1>5, <2>1 DEF Err
    <3>2. i = d + 1 \/ i = d + 2
      BY <1>5, <3>1
    <3>3. r[d + 1] = m /\ r[d + 2] = 0 /\ Err # 0
      BY <1>5 DEF Err
    <3> QED
      BY <2>1, <3>2, <3>3
  <2>2. d + 1 \in 1 .. Len(r)
    BY <1>5
  <2> QED
    BY <1>5, <2>1, <2>2 DEF HasErr
<1>9. h < p + Len(r)
  BY <1>1, <1>5
<1> QED
  BY <1>2, <1>3, <1>4, <1>7, <1>8, <1>9

LEMMA RepliesKnown ==
  ASSUME NEW q \in [n : Nat, e : Nat], NEW p \in Nat, NEW limit \in Nat \ {0}, p <= q.n,
         NEW refused \in BOOLEAN
  PROVE  \E h \in Nat : Replies(RowsReply(q, p, limit, refused), p, q.n, limit, h)
<1>1. PICK n \in Nat, e \in Nat : n = q.n /\ e = q.e /\ p <= n
  OBVIOUS
<1>2. PICK hi \in Nat : hi = (IF p + limit < n THEN p + limit ELSE n) /\ p <= hi
  BY <1>1
<1>3. CASE refused = TRUE
  <2>1. RowsReply(q, p, limit, refused) = UpTo(p + 1, p) \o <<Err, Rdy>>
    <3>1. UpTo(p + 1, p) \in Seq(Int) /\ Len(UpTo(p + 1, p)) = 0
      <4>1. PICK lo \in Int, to \in Int : lo = p + 1 /\ to = p /\ to < lo
        OBVIOUS
      <4> QED
        BY <4>1, RunsOfRows
    <3>2. UpTo(p + 1, p) = <<>>
      BY <3>1, NoElements
    <3>3. <<>> \o <<Err, Rdy>> = <<Err, Rdy>>
      BY DEF Err, Rdy
    <3> QED
      BY <1>3, <3>2, <3>3 DEF RowsReply
  <2>2. PICK r : r = UpTo(p + 1, p) \o <<Err, Rdy>>
    OBVIOUS
  <2>3. r \in Seq(Int) /\ Shape(r, p, p) /\ p < p + Len(r) /\ HasErr(r)
    <3>1. p <= p /\ Err \in {Err, Cmp}
      OBVIOUS
    <3> QED
      BY <2>2, <3>1, EndOfReply
  <2>4. Replies(r, p, n, limit, p)
    BY <1>1, <2>3 DEF Replies
  <2> QED
    BY <1>1, <2>1, <2>2, <2>4
<1>4. CASE refused = FALSE /\ e \in (p + 1) .. hi
  <2>1. PICK h \in Nat : h = e - 1 /\ p <= h /\ h <= n /\ h < p + limit
    BY <1>1, <1>2, <1>4
  <2>2. RowsReply(q, p, limit, refused) = UpTo(p + 1, h) \o <<Err, Rdy>>
    BY <1>1, <1>2, <1>4, <2>1 DEF RowsReply
  <2>3. PICK r : r = UpTo(p + 1, h) \o <<Err, Rdy>>
    OBVIOUS
  <2>4. r \in Seq(Int) /\ Shape(r, p, h) /\ h < p + Len(r) /\ HasErr(r)
    BY <2>1, <2>3, EndOfReply
  <2>5. Replies(r, p, n, limit, h)
    BY <2>1, <2>4 DEF Replies
  <2> QED
    BY <1>1, <2>2, <2>3, <2>5
<1>5. CASE refused = FALSE /\ e \notin (p + 1) .. hi
  <2>1. RowsReply(q, p, limit, refused) = UpTo(p + 1, hi) \o <<Cmp, Rdy>>
    BY <1>1, <1>2, <1>5 DEF RowsReply
  <2>2. PICK r : r = UpTo(p + 1, hi) \o <<Cmp, Rdy>>
    OBVIOUS
  <2>3. r \in Seq(Int) /\ Shape(r, p, hi) /\ hi < p + Len(r) /\ ~HasErr(r)
    <3>1. Cmp # Err
      BY DEF Cmp, Err
    <3> QED
      BY <1>2, <2>2, <3>1, EndOfReply
  <2>4. hi <= n /\ hi <= p + limit /\ (hi = n \/ hi = p + limit)
    BY <1>2
  <2>5. Replies(r, p, n, limit, hi)
    BY <1>2, <2>3, <2>4 DEF Replies
  <2> QED
    BY <1>1, <2>1, <2>2, <2>5
<1> QED
  BY <1>3, <1>4, <1>5

-----------------------------------------------------------------------------
(* The transaction of a cursor.                                            *)
XType == [left : Seq(Int), got : Seq(Seq(Int)), err : BOOLEAN, done : BOOLEAN]

\* A step moves the first k messages into a chunk.
LEMMA StepKnown ==
  ASSUME NEW x \in XType, NEW k \in 0 .. Len(x.left)
  PROVE  /\ StepX(x, k) \in XType
         /\ \E part \in Seq(Int), rest \in Seq(Int) :
              /\ StepX(x, k).left = rest /\ StepX(x, k).got = Append(x.got, part)
              /\ StepX(x, k).err = TRUE <=> x.err = TRUE \/ HasErr(part)
              /\ StepX(x, k).done = TRUE <=> k = Len(x.left)
              /\ Len(part) = k /\ Len(rest) = Len(x.left) - k
              /\ \A i \in 1 .. k : part[i] = x.left[i]
              /\ \A i \in 1 .. Len(rest) : rest[i] = x.left[k + i]
<1>1. PICK left \in Seq(Int), n \in Nat : left = x.left /\ n = Len(left)
  BY DEF XType
<1>2. k \in Nat /\ k <= n
  BY <1>1
<1>3. PICK part \in Seq(Int) : /\ part = SubSeq(left, 1, k) /\ Len(part) = k
                               /\ \A i \in 1 .. k : part[i] = left[i]
  <2>1. SubSeq(left, 1, k) \in Seq(Int) /\ Len(SubSeq(left, 1, k)) = k
    BY <1>1, <1>2
  <2>2. \A i \in 1 .. k : SubSeq(left, 1, k)[i] = left[i]
    BY <1>1, <1>2
  <2> QED
    BY <2>1, <2>2
<1>4. PICK rest \in Seq(Int) : /\ rest = SubSeq(left, k + 1, n) /\ Len(rest) = n - k
                               /\ \A i \in 1 .. (n - k) : rest[i] = left[k + i]
  <2>1. SubSeq(left, k + 1, n) \in Seq(Int) /\ Len(SubSeq(left, k + 1, n)) = n - k
    BY <1>1, <1>2
  <2>2. \A i \in 1 .. (n - k) : SubSeq(left, k + 1, n)[i] = left[k + i]
    BY <1>1, <1>2
  <2> QED
    BY <2>1, <2>2
<1>5. Err \in ToSet(part) <=> HasErr(part)
  BY DEF ToSet, HasErr
<1>6. StepX(x, k) = [ left |-> rest, got |-> Append(x.got, part),
                      err |-> x.err \/ Err \in ToSet(part), done |-> k = n ]
  BY <1>1, <1>3, <1>4 DEF StepX
<1>7. Append(x.got, part) \in Seq(Seq(Int))
  BY DEF XType
<1>8. StepX(x, k) \in XType
  BY <1>6, <1>7 DEF XType
<1>9. StepX(x, k).err = TRUE <=> x.err = TRUE \/ HasErr(part)
  <2>1. StepX(x, k).err = (x.err \/ Err \in ToSet(part))
    BY <1>6
  <2>2. x.err \in BOOLEAN
    BY DEF XType
  <2> QED
    BY <1>5, <2>1, <2>2, Zenon
<1>10. StepX(x, k).done = TRUE <=> k = n
  <2>1. StepX(x, k).done = (k = n)
    BY <1>6
  <2> QED
    BY <2>1
<1>11. StepX(x, k).left = rest /\ StepX(x, k).got = Append(x.got, part)
  BY <1>6
<1>12. /\ Len(part) = k /\ Len(rest) = Len(x.left) - k
       /\ \A i \in 1 .. k : part[i] = x.left[i]
       /\ \A i \in 1 .. Len(rest) : rest[i] = x.left[k + i]
  BY <1>1, <1>3, <1>4
<1>13. StepX(x, k).done = TRUE <=> k = Len(x.left)
  BY <1>1, <1>10
<1> QED
  BY <1>8, <1>9, <1>11, <1>12, <1>13, Zenon

\* A cursor for all n rows of a query at once, that gave a of them: the chunks it has and
\* the messages that are to come are the reply, cut at these places; its rows end at h.
Waiting(n, a, x, h, cut) ==
  /\ h \in Nat /\ h <= n /\ cut \in [0 .. Len(x.got) -> Nat]
  /\ \A i \in 1 .. Len(x.got) :
       cut[i] = cut[i - 1] + Len(x.got[i]) /\ Shape(x.got[i], cut[i - 1], h)
  /\ Shape(x.left, cut[Len(x.got)], h) /\ h < cut[Len(x.got)] + Len(x.left)
  /\ a = Least(cut[0], h)
  /\ x.err # TRUE /\ ~HasErr(x.left) => h = n

\* The reply is cut once more.
LEMMA WaitingSteps ==
  ASSUME NEW n \in Nat, NEW a, NEW x \in XType, NEW h, NEW cut, Waiting(n, a, x, h, cut),
         NEW k \in 0 .. Len(x.left)
  PROVE  \E more : Waiting(n, a, StepX(x, k), h, more)
<1>1. PICK y : y = StepX(x, k)
  OBVIOUS
<1>2. PICK part \in Seq(Int), rest \in Seq(Int) :
        /\ y.left = rest /\ y.got = Append(x.got, part)
        /\ y.err = TRUE <=> x.err = TRUE \/ HasErr(part)
        /\ Len(part) = k /\ Len(rest) = Len(x.left) - k
        /\ \A i \in 1 .. k : part[i] = x.left[i]
        /\ \A i \in 1 .. Len(rest) : rest[i] = x.left[k + i]
  BY <1>1, StepKnown
<1>3. PICK left \in Seq(Int), l \in Nat, got \in Seq(Seq(Int)), m \in Nat :
        left = x.left /\ l = Len(left) /\ got = x.got /\ m = Len(got)
  BY DEF XType
<1>4. h \in Nat /\ h <= n /\ cut \in [0 .. m -> Nat] /\ a = Least(cut[0], h)
  BY <1>3 DEF Waiting
<1>5. /\ \A i \in 1 .. m : cut[i] = cut[i - 1] + Len(got[i]) /\ Shape(got[i], cut[i - 1], h)
      /\ Shape(left, cut[m], h) /\ h < cut[m] + l
      /\ x.err # TRUE /\ ~HasErr(left) => h = n
  BY <1>3 DEF Waiting
<1>6. PICK b \in Nat : b = cut[m]
  BY <1>4
<1>7. k \in Nat /\ k <= l /\ Len(rest) = l - k
  BY <1>2, <1>3
<1>8. PICK e \in Nat : e = b + k
  BY <1>7
<1>9. PICK more : more = [i \in 0 .. (m + 1) |-> IF i = m + 1 THEN e ELSE cut[i]]
  OBVIOUS
<1>10. /\ more \in [0 .. (m + 1) -> Nat] /\ more[m + 1] = e
       /\ \A i \in 0 .. m : more[i] = cut[i]
  BY <1>4, <1>9
<1>11. Len(y.got) = m + 1 /\ y.got[m + 1] = part /\ \A i \in 1 .. m : y.got[i] = got[i]
  BY <1>2, <1>3
<1>12. Shape(part, b, h)
  <2> SUFFICES ASSUME NEW i \in 1 .. Len(part)
               PROVE  (b + i <= h => part[i] = b + i) /\ (b + i > h => part[i] <= 0)
    BY DEF Shape
  <2>1. i \in 1 .. l /\ i \in 1 .. k
    BY <1>2, <1>7
  <2>2. (b + i <= h => left[i] = b + i) /\ (b + i > h => left[i] <= 0)
    BY <1>3, <1>5, <1>6, <2>1 DEF Shape
  <2>3. part[i] = left[i]
    BY <1>2, <1>3, <2>1
  <2> QED
    BY <2>2, <2>3
<1>13. Shape(rest, e, h)
  <2> SUFFICES ASSUME NEW i \in 1 .. Len(rest)
               PROVE  (e + i <= h => rest[i] = e + i) /\ (e + i > h => rest[i] <= 0)
    BY DEF Shape
  <2>1. PICK j \in 1 .. l : j = k + i
    BY <1>7
  <2>2. (b + j <= h => left[j] = b + j) /\ (b + j > h => left[j] <= 0)
    BY <1>3, <1>5, <1>6 DEF Shape
  <2>3. rest[i] = left[j]
    BY <1>2, <1>3, <2>1
  <2>4. b + j = e + i
    BY <1>7, <1>8, <2>1
  <2> QED
    BY <2>2, <2>3, <2>4
<1>14. ASSUME NEW i \in 1 .. (m + 1)
       PROVE  more[i] = more[i - 1] + Len(y.got[i]) /\ Shape(y.got[i], more[i - 1], h)
  <2>1. CASE i = m + 1
    <3>1. m \in 0 .. m /\ i - 1 = m
      BY <2>1
    <3>2. more[i] = e /\ more[i - 1] = b /\ y.got[i] = part
      BY <1>6, <1>10, <1>11, <2>1, <3>1
    <3> QED
      BY <1>2, <1>8, <1>12, <3>2
  <2>2. CASE i # m + 1
    <3>1. i \in 1 .. m /\ i \in 0 .. m /\ i - 1 \in 0 .. m
      BY <2>2
    <3>2. more[i] = cut[i] /\ more[i - 1] = cut[i - 1] /\ y.got[i] = got[i]
      BY <1>10, <1>11, <3>1
    <3> QED
      BY <1>5, <3>1, <3>2
  <2> QED
    BY <2>1, <2>2
<1>15. h < e + Len(rest)
  BY <1>5, <1>6, <1>7, <1>8
<1>16. a = Least(more[0], h)
  <2>1. 0 \in 0 .. m
    OBVIOUS
  <2> QED
    BY <1>4, <1>10, <2>1
<1>17. y.err # TRUE /\ ~HasErr(rest) => h = n
  <2> SUFFICES ASSUME y.err # TRUE, ~HasErr(rest) PROVE h = n
    OBVIOUS
  <2>1. x.err # TRUE /\ ~HasErr(part)
    BY <1>2
  <2>2. ASSUME NEW i \in 1 .. Len(left), left[i] = Err PROVE FALSE
    <3>1. CASE i <= k
      <4>1. i \in 1 .. Len(part) /\ part[i] = Err
        BY <1>2, <1>3, <1>7, <2>2, <3>1
      <4> QED
        BY <2>1, <4>1 DEF HasErr
    <3>2. CASE i > k
      <4>1. PICK j \in 1 .. Len(rest) : k + j = i
        <5>1. i - k \in 1 .. Len(rest) /\ k + (i - k) = i
          BY <1>3, <1>7, <3>2
        <5> QED
          BY <5>1
      <4>2. rest[j] = Err
        BY <1>2, <1>3, <2>2, <4>1
      <4> QED
        BY <4>2 DEF HasErr
    <3>3. i <= k \/ i > k
      BY <1>7
    <3> QED
      BY <3>1, <3>2, <3>3, Zenon
  <2>3. ~HasErr(left)
    BY <2>2 DEF HasErr
  <2> QED
    BY <1>5, <2>1, <2>3
<1>18. Waiting(n, a, y, h, more)
  BY <1>2, <1>4, <1>10, <1>11, <1>13, <1>14, <1>15, <1>16, <1>17 DEF Waiting
<1> QED
  BY <1>1, <1>18

\* The first chunk of x given to the program after a rows: it has b rows then.
GivesFirst(n, a, x, h) ==
    \E b \in Nat : \E more :
        /\ Waiting(n, b, TakeChunk(x), h, more) /\ TakeChunk(x) \in XType
        /\ b <= n /\ UpTo(1, a) \o RowsIn(Head(x.got)) = UpTo(1, b)

\* The first chunk is taken, and its rows are given.
LEMMA WaitingTakes ==
  ASSUME NEW n \in Nat, NEW a \in Nat, NEW x \in XType, NEW h, NEW cut, Waiting(n, a, x, h, cut),
         x.got # <<>>
  PROVE  GivesFirst(n, a, x, h)
<1>1. PICK got \in Seq(Seq(Int)), m \in Nat : got = x.got /\ m = Len(got) /\ m # 0
  <2>1. x.got \in Seq(Seq(Int))
    BY DEF XType
  <2>2. Len(x.got) # 0 /\ Len(x.got) \in Nat
    BY <2>1, NoElements
  <2> QED
    BY <2>1, <2>2, Zenon
<1>2. PICK tail \in Seq(Seq(Int)) :
        tail = Tail(got) /\ Len(tail) = m - 1 /\ \A i \in 1 .. (m - 1) : tail[i] = got[i + 1]
  <2>1. got # <<>>
    BY <1>1
  <2>2. Tail(got) \in Seq(Seq(Int)) /\ Len(Tail(got)) = m - 1
    BY <1>1, <2>1
  <2>3. \A i \in 1 .. (m - 1) : Tail(got)[i] = got[i + 1]
    BY <1>1, <2>1
  <2> QED
    BY <2>2, <2>3
<1>3. PICK first \in Seq(Int) : first = Head(got) /\ first = got[1]
  BY <1>1
<1>4. /\ TakeChunk(x).got = tail /\ TakeChunk(x).left = x.left /\ TakeChunk(x).err = x.err
      /\ TakeChunk(x) \in XType
  BY <1>1, <1>2 DEF TakeChunk, XType
<1>5. h \in Nat /\ h <= n /\ cut \in [0 .. m -> Nat] /\ a = Least(cut[0], h)
  BY <1>1 DEF Waiting
<1>6. /\ \A i \in 1 .. m : cut[i] = cut[i - 1] + Len(got[i]) /\ Shape(got[i], cut[i - 1], h)
      /\ Shape(x.left, cut[m], h) /\ h < cut[m] + Len(x.left)
      /\ x.err # TRUE /\ ~HasErr(x.left) => h = n
  BY <1>1 DEF Waiting
<1>7. PICK p \in Nat, q \in Nat : p = cut[0] /\ q = cut[1] /\ q = p + Len(first) /\ Shape(first, p, h)
  <2>1. 0 \in 0 .. m /\ 1 \in 0 .. m /\ 1 \in 1 .. m /\ 1 - 1 = 0
    BY <1>1
  <2>2. cut[1] = cut[0] + Len(got[1]) /\ Shape(got[1], cut[0], h)
    BY <1>6, <2>1
  <2> QED
    BY <1>3, <1>5, <2>1, <2>2
<1>8. PICK b \in Nat : b = Least(q, h) /\ b <= n
  BY <1>5 DEF Least
<1>9. RowsIn(first) = UpTo(p + 1, b)
  BY <1>5, <1>7, <1>8, RowsInChunk
<1>10. UpTo(1, a) \o RowsIn(first) = UpTo(1, b)
  <2>1. CASE p <= h
    <3>1. a = p /\ a <= b
      <4>1. Len(first) \in Nat
        OBVIOUS
      <4> QED
        BY <1>5, <1>7, <1>8, <2>1, <4>1 DEF Least
    <3> QED
      BY <1>9, <3>1, RowsJoin
  <2>2. CASE p > h
    <3>1. a = h /\ b = h
      <4>1. Len(first) \in Nat
        OBVIOUS
      <4> QED
        BY <1>5, <1>7, <1>8, <2>2, <4>1 DEF Least
    <3>2. UpTo(p + 1, b) = <<>>
      <4>1. PICK lo \in Int, to \in Int : lo = p + 1 /\ to = b /\ to < lo
        BY <2>2, <3>1
      <4>2. UpTo(lo, to) \in Seq(Int) /\ Len(UpTo(lo, to)) = 0
        BY <4>1, RunsOfRows
      <4> QED
        BY <4>1, <4>2, NoElements
    <3>3. PICK s \in Seq(Int) : s = UpTo(1, a)
      <4>1. 1 \in Int /\ a \in Int /\ a - 1 + 1 = a
        OBVIOUS
      <4> QED
        BY <4>1, RunsOfRows
    <3>4. s \o <<>> = s
      OBVIOUS
    <3> QED
      BY <1>9, <3>1, <3>2, <3>3, <3>4
  <2>3. p <= h \/ p > h
    BY <1>5
  <2> QED
    BY <2>1, <2>2, <2>3, Zenon
<1>11. PICK more : more = [i \in 0 .. (m - 1) |-> cut[i + 1]]
  OBVIOUS
<1>12. more \in [0 .. (m - 1) -> Nat] /\ \A i \in 0 .. (m - 1) : more[i] = cut[i + 1]
  <2>1. \A i \in 0 .. (m - 1) : i + 1 \in 0 .. m
    BY <1>1
  <2> QED
    BY <1>5, <1>11, <2>1
<1>13. ASSUME NEW i \in 1 .. (m - 1)
       PROVE  more[i] = more[i - 1] + Len(tail[i]) /\ Shape(tail[i], more[i - 1], h)
  <2>1. PICK j \in 1 .. m : j = i + 1 /\ j - 1 = i
    BY <1>1
  <2>2. i \in 0 .. (m - 1) /\ i - 1 \in 0 .. (m - 1) /\ i - 1 + 1 = i
    BY <1>1
  <2>3. more[i] = cut[j] /\ more[i - 1] = cut[j - 1] /\ tail[i] = got[j]
    BY <1>2, <1>12, <2>1, <2>2
  <2> QED
    BY <1>6, <2>3
<1>14. more[m - 1] = cut[m] /\ more[0] = q
  <2>1. m - 1 \in 0 .. (m - 1) /\ 0 \in 0 .. (m - 1) /\ m - 1 + 1 = m /\ 0 + 1 = 1
    BY <1>1
  <2> QED
    BY <1>7, <1>12, <2>1
<1>15. Waiting(n, b, TakeChunk(x), h, more)
  BY <1>2, <1>4, <1>5, <1>6, <1>8, <1>12, <1>13, <1>14 DEF Waiting
<1> QED
  BY <1>1, <1>3, <1>4, <1>8, <1>10, <1>15 DEF GivesFirst

\* All chunks were taken and nothing is to come.
LEMMA WaitingEnds ==
  ASSUME NEW n \in Nat, NEW a, NEW x \in XType, NEW h, NEW cut, Waiting(n, a, x, h, cut),
         x.got = <<>>, x.left = <<>>, x.err # TRUE
  PROVE  a = n
<1>1. Len(x.got) = 0 /\ Len(x.left) = 0
  OBVIOUS
<1>2. ~HasErr(x.left)
  BY <1>1 DEF HasErr
<1>3. PICK p \in Nat : p = cut[0]
  <2>1. 0 \in 0 .. Len(x.got)
    BY <1>1
  <2> QED
    BY <2>1 DEF Waiting
<1>4. h < p + 0 /\ h = n /\ a = Least(p, h) /\ h \in Nat
  BY <1>1, <1>2, <1>3 DEF Waiting
<1> QED
  BY <1>4 DEF Least

LEMMA OneElement ==
  ASSUME NEW T, NEW x \in T
  PROVE  <<x>> \in Seq(T) /\ Len(<<x>>) = 1 /\ <<x>>[1] = x
OBVIOUS

\* A cursor for a chunk at a time, that gave a rows: p is the reply to its last request.
Streaming(n, a, x, h, p) ==
  /\ h \in Nat /\ Replies(p, a, n, ChunkSize, h)
  /\ x.done # TRUE => x.got = <<>> /\ x.left = p /\ x.err # TRUE
  /\ x.done = TRUE => x.got = <<p>> /\ (x.err = TRUE <=> HasErr(p))

LEMMA CompleteKnown ==
  ASSUME NEW x \in XType
  PROVE  /\ CompleteX(x) \in XType /\ CompleteX(x).done = TRUE
         /\ x.done = TRUE => CompleteX(x) = x
         /\ x.done # TRUE => CompleteX(x) = StepX(x, Len(x.left)) /\ CompleteX(x).left = <<>>
<1>1. x.done \in BOOLEAN /\ x.left \in Seq(Int)
  BY DEF XType
<1>2. CASE x.done = TRUE
  BY <1>2 DEF CompleteX
<1>3. CASE x.done # TRUE
  <2>1. CompleteX(x) = StepX(x, Len(x.left))
    BY <1>1, <1>3 DEF CompleteX
  <2>2. Len(x.left) \in 0 .. Len(x.left)
    BY <1>1
  <2>3. PICK rest \in Seq(Int) : /\ StepX(x, Len(x.left)).left = rest /\ Len(rest) = Len(x.left) - Len(x.left)
                                 /\ StepX(x, Len(x.left)).done = TRUE
                                 /\ StepX(x, Len(x.left)) \in XType
    BY <2>2, StepKnown
  <2>4. rest = <<>>
    <3>1. Len(rest) = 0
      BY <1>1, <2>3
    <3> QED
      BY <3>1, NoElements
  <2> QED
    BY <1>3, <2>1, <2>3, <2>4
<1> QED
  BY <1>2, <1>3

LEMMA StreamCompletes ==
  ASSUME NEW n, NEW a, NEW x \in XType, NEW h, NEW p, Streaming(n, a, x, h, p)
  PROVE  Streaming(n, a, CompleteX(x), h, p)
<1>1. CASE x.done = TRUE
  BY <1>1, CompleteKnown
<1>2. CASE x.done # TRUE
  <2>1. PICK y \in XType : y = CompleteX(x) /\ y = StepX(x, Len(x.left)) /\ y.done = TRUE
    BY <1>2, CompleteKnown
  <2>2. x.got = <<>> /\ x.left = p /\ x.err # TRUE /\ p \in Seq(Int) /\ h \in Nat
    BY <1>2 DEF Streaming, Replies
  <2>3. PICK l \in Nat : l = Len(p)
    BY <2>2
  <2>4. PICK part \in Seq(Int) :
          /\ y.got = Append(x.got, part) /\ (y.err = TRUE <=> x.err = TRUE \/ HasErr(part))
          /\ Len(part) = l /\ \A i \in 1 .. l : part[i] = p[i]
    <3>1. PICK k \in 0 .. Len(x.left) : k = l /\ k = Len(x.left)
      BY <2>2, <2>3
    <3>2. PICK part \in Seq(Int) :
            /\ StepX(x, k).got = Append(x.got, part)
            /\ StepX(x, k).err = TRUE <=> x.err = TRUE \/ HasErr(part)
            /\ Len(part) = k /\ \A i \in 1 .. k : part[i] = x.left[i]
      BY StepKnown
    <3> QED
      BY <2>1, <2>2, <3>1, <3>2
  <2>5. part = p
    <3>1. p \in Seq(Int) /\ Len(p) = l /\ Len(part) = l /\ \A i \in 1 .. l : part[i] = p[i]
      BY <2>2, <2>3, <2>4
    <3> QED
      BY <3>1, SameElements
  <2>6. Append(<<>>, p) = <<p>>
    BY <2>2
  <2>7. y.got = <<p>> /\ (y.err = TRUE <=> HasErr(p))
    BY <2>2, <2>4, <2>5, <2>6
  <2>8. Replies(p, a, n, ChunkSize, h)
    BY DEF Streaming
  <2>9. Streaming(n, a, y, h, p)
    BY <2>1, <2>2, <2>7, <2>8 DEF Streaming
  <2> QED
    BY <2>1, <2>9
<1> QED
  BY <1>1, <1>2

LEMMA StreamRows ==
  ASSUME NEW n \in Nat, NEW a \in Nat, NEW x \in XType, NEW h \in Nat, NEW p,
         Streaming(n, a, x, h, p), x.done = TRUE
  PROVE  /\ a <= h /\ h <= n /\ UpTo(1, a) \o Received(x) = UpTo(1, h)
         /\ More(Received(x)) => h = a + ChunkSize
         /\ x.err # TRUE /\ ~More(Received(x)) => h = n
<1>1. /\ h \in Nat /\ p \in Seq(Int) /\ Shape(p, a, h) /\ a <= h /\ h <= n /\ h <= a + ChunkSize
      /\ h < a + Len(p) /\ x.got = <<p>> /\ (x.err = TRUE <=> HasErr(p))
      /\ HasErr(p) => h < a + ChunkSize
      /\ ~HasErr(p) => h = n \/ h = a + ChunkSize
  BY DEF Streaming, Replies
<1>2. FlattenSeq(<<p>>) = p
  <2>1. PICK s \in Seq(Seq(Int)) : s = <<p>> /\ Len(s) = 1 /\ s[1] = p
    BY <1>1, OneElement
  <2>2. PICK f : Joins(f, s) /\ FlattenSeq(s) = f[1]
    <3>1. Len(s) # 0
      BY <2>1
    <3>2. \E f : Joins(f, s) /\ FlattenSeq(s) = f[Len(s)]
      BY <3>1, Flattened
    <3> QED
      BY <2>1, <3>2
  <2>3. f[1] = s[1]
    BY <2>1, <2>2 DEF Joins
  <2> QED
    BY <2>1, <2>2, <2>3
<1>3. Received(x) = UpTo(a + 1, h)
  <2>1. Least(a + Len(p), h) = h
    BY <1>1 DEF Least
  <2>2. RowsIn(p) = UpTo(a + 1, h)
    BY <1>1, <2>1, RowsInChunk
  <2> QED
    BY <1>1, <1>2, <2>2 DEF Received
<1>4. PICK m \in Nat : m = h - a /\ Len(UpTo(a + 1, h)) = m
  <2>1. PICK m \in Nat : m = h - a
    BY <1>1
  <2>2. PICK lo \in Int, to \in Int : lo = a + 1 /\ to = h
    BY <1>1
  <2>3. to - lo + 1 = m
    BY <2>1, <2>2
  <2>4. Len(UpTo(lo, to)) = m
    BY <2>3, RunsOfRows
  <2> QED
    BY <2>1, <2>2, <2>4
<1>5. UpTo(1, a) \o UpTo(a + 1, h) = UpTo(1, h)
  BY <1>1, RowsJoin
<1>6. More(Received(x)) <=> h = a + ChunkSize
  <2>1. Len(Received(x)) = m
    BY <1>3, <1>4
  <2>2. m = ChunkSize <=> h = a + ChunkSize
    BY <1>4, FetchBounds
  <2> QED
    BY <2>1, <2>2 DEF More
<1> QED
  BY <1>1, <1>3, <1>5, <1>6

-----------------------------------------------------------------------------
(* A cursor and its last transaction.                                      *)
Tellings == {"no", "self", "other", "dropped"}
CurType == [ kind : {"none", "all", "inside", "outside"}, status : {"new", "open", "raised", "ended"},
             query : [n : Nat, e : Nat], pos : Nat, gone : BOOLEAN, out : Seq(Int) ]

\* The rows it gave are the first ones; when it is open the rest of them is in its
\* transaction, or was cut short by an error that somebody is told of.
InOrder(cur) == cur.out = UpTo(1, Len(cur.out)) /\ Len(cur.out) <= cur.query.n
Unread(cur, x, told) ==
  /\ told # "self"
  /\ cur.kind = "all" => \E h, cut : Waiting(cur.query.n, Len(cur.out), x, h, cut)
  /\ cur.kind # "all" =>
       /\ cur.pos = Len(cur.out) + ChunkSize
       /\ \E h, p : Streaming(cur.query.n, Len(cur.out), x, h, p)
       /\ x.done = TRUE /\ x.err = TRUE => told \in {"other", "dropped"}
CursorOK(cur, x, told) ==
  /\ InOrder(cur)
  /\ cur.status = "new" => x.done = TRUE /\ told = "no" /\ Len(cur.out) = 0
  /\ cur.status = "ended" =>
       x.done = TRUE /\ (Len(cur.out) = cur.query.n \/ told \in {"other", "dropped"})
  /\ cur.status = "open" => Unread(cur, x, told)

\* Its transaction is completed by somebody.
LEMMA CursorCompletes ==
  ASSUME NEW cur \in CurType, NEW x \in XType, NEW told \in Tellings, NEW now, CursorOK(cur, x, told),
         x.done = TRUE => now = told, now \in {told, "other", "dropped"},
         x.done # TRUE /\ CompleteX(x).err = TRUE => now # "no"
  PROVE  CursorOK(cur, CompleteX(x), now)
<1>1. CASE x.done = TRUE
  BY <1>1, CompleteKnown
<1>2. CASE x.done # TRUE
  <2>1. PICK y \in XType : y = CompleteX(x) /\ y.done = TRUE /\ y = StepX(x, Len(x.left))
    BY <1>2, CompleteKnown
  <2>2. cur.status \notin {"new", "ended"} /\ InOrder(cur)
    BY <1>2 DEF CursorOK
  <2>3. ASSUME cur.status = "open" PROVE Unread(cur, y, now)
    <3>1. Unread(cur, x, told)
      BY <2>3 DEF CursorOK
    <3>2. now # "self"
      BY <3>1 DEF Unread
    <3>3. CASE cur.kind = "all"
      <4>1. PICK h, cut : Waiting(cur.query.n, Len(cur.out), x, h, cut)
        BY <3>1, <3>3 DEF Unread
      <4>2. cur.query.n \in Nat /\ Len(x.left) \in 0 .. Len(x.left)
        BY DEF CurType, XType
      <4>3. \E more : Waiting(cur.query.n, Len(cur.out), y, h, more)
        BY <2>1, <4>1, <4>2, WaitingSteps
      <4> QED
        BY <3>2, <3>3, <4>3 DEF Unread
    <3>4. CASE cur.kind # "all"
      <4>1. PICK h, p : Streaming(cur.query.n, Len(cur.out), x, h, p)
        BY <3>1, <3>4 DEF Unread
      <4>2. Streaming(cur.query.n, Len(cur.out), y, h, p)
        BY <2>1, <4>1, StreamCompletes
      <4>3. y.err = TRUE => now \in {"other", "dropped"}
        <5>1. SUFFICES ASSUME y.err = TRUE PROVE now \in {"other", "dropped"}
          OBVIOUS
        <5>2. now # "no"
          BY <1>2, <2>1, <5>1
        <5> QED
          BY <3>2, <5>2 DEF Tellings
      <4> QED
        BY <3>1, <3>2, <3>4, <4>2, <4>3 DEF Unread
    <3> QED
      BY <3>3, <3>4
  <2> QED
    BY <2>1, <2>2, <2>3 DEF CursorOK
<1> QED
  BY <1>1, <1>2

\* A new cursor for all rows, and the transaction it is given.
LEMMA AllOpens ==
  ASSUME NEW n \in Nat, NEW r, NEW h \in Nat, Replies(r, 0, n, n + 1, h)
  PROVE  Xact(r) \in XType /\ \E cut : Waiting(n, 0, Xact(r), h, cut)
<1>1. /\ r \in Seq(Int) /\ Shape(r, 0, h) /\ h <= n /\ h < 0 + Len(r)
      /\ ~HasErr(r) => h = n
  BY DEF Replies
<1>2. /\ Xact(r).left = r /\ Xact(r).got = <<>> /\ Xact(r).err = FALSE /\ Xact(r).done = FALSE
      /\ Xact(r) \in XType
  BY <1>1 DEF Xact, XType
<1>3. PICK cut : cut = [i \in 0 .. 0 |-> 0]
  OBVIOUS
<1>4. cut \in [0 .. 0 -> Nat] /\ cut[0] = 0
  BY <1>3
<1>5. Len(Xact(r).got) = 0 /\ 0 = Least(0, h)
  BY <1>2 DEF Least
<1>6. Waiting(n, 0, Xact(r), h, cut)
  <2>1. \A i \in 1 .. 0 : FALSE
    OBVIOUS
  <2> QED
    BY <1>1, <1>2, <1>4, <1>5, <2>1 DEF Waiting
<1> QED
  BY <1>2, <1>6

LEMMA StreamRequests ==
  ASSUME NEW n \in Nat, NEW a \in Nat, NEW r, NEW h \in Nat, Replies(r, a, n, ChunkSize, h)
  PROVE  /\ Xact(r) \in XType /\ Xact(r).done # TRUE /\ Len(Xact(r).left) # 0
         /\ Streaming(n, a, Xact(r), h, r)
<1>1. r \in Seq(Int) /\ a <= h /\ h < a + Len(r)
  BY DEF Replies
<1>2. /\ Xact(r).left = r /\ Xact(r).got = <<>> /\ Xact(r).err = FALSE /\ Xact(r).done = FALSE
      /\ Xact(r) \in XType
  BY <1>1 DEF Xact, XType
<1>3. Len(r) # 0
  BY <1>1
<1> QED
  BY <1>2, <1>3 DEF Streaming

\* FetchAll: a chunk of its rows comes in.
LEMMA AllSteps ==
  ASSUME NEW cur \in CurType, NEW x \in XType, NEW told, CursorOK(cur, x, told),
         cur.kind = "all", cur.status = "open", NEW k \in 0 .. Len(x.left)
  PROVE  CursorOK(cur, StepX(x, k), told)
<1>1. InOrder(cur) /\ told # "self" /\ cur.query.n \in Nat
  BY DEF CursorOK, Unread, CurType
<1>2. PICK h, cut : Waiting(cur.query.n, Len(cur.out), x, h, cut)
  BY DEF CursorOK, Unread
<1>3. \E more : Waiting(cur.query.n, Len(cur.out), StepX(x, k), h, more)
  BY <1>1, <1>2, WaitingSteps
<1> QED
  BY <1>1, <1>3 DEF CursorOK, Unread

LEMMA FirstRows ==
  ASSUME NEW n \in Nat
  PROVE  UpTo(1, n) \in Seq(Int) /\ Len(UpTo(1, n)) = n
<1>1. 1 \in Int /\ n \in Int /\ n - 1 + 1 = n
  OBVIOUS
<1> QED
  BY <1>1, RunsOfRows

\* FetchAll: its first chunk is given to the program.
LEMMA AllGives ==
  ASSUME NEW cur \in CurType, NEW x \in XType, NEW told, CursorOK(cur, x, told),
         cur.kind = "all", cur.status = "open", x.got # <<>>
  PROVE  /\ told # "self" /\ TakeChunk(x) \in XType
         /\ \E b \in Nat : \E h, more :
              /\ Waiting(cur.query.n, b, TakeChunk(x), h, more)
              /\ b <= cur.query.n /\ cur.out \o RowsIn(Head(x.got)) = UpTo(1, b)
<1>1. PICK n \in Nat, a \in Nat : n = cur.query.n /\ a = Len(cur.out) /\ cur.out = UpTo(1, a)
  BY DEF CursorOK, InOrder, CurType
<1>2. told # "self"
  BY DEF CursorOK, Unread
<1>3. PICK h, cut : Waiting(n, a, x, h, cut)
  BY <1>1 DEF CursorOK, Unread
<1>4. \E b \in Nat : \E more :
        /\ Waiting(n, b, TakeChunk(x), h, more) /\ TakeChunk(x) \in XType
        /\ b <= n /\ UpTo(1, a) \o RowsIn(Head(x.got)) = UpTo(1, b)
  <2>1. GivesFirst(n, a, x, h)
    BY <1>3, WaitingTakes
  <2> QED
    BY <2>1 DEF GivesFirst
<1> QED
  BY <1>1, <1>2, <1>4

LEMMA AllDelivers ==
  ASSUME NEW cur \in CurType, NEW x \in XType, NEW told, CursorOK(cur, x, told),
         cur.kind = "all", cur.status = "open", x.got # <<>>,
         NEW new, new = [cur EXCEPT !.out = @ \o RowsIn(Head(x.got))]
  PROVE  new \in CurType /\ TakeChunk(x) \in XType /\ CursorOK(new, TakeChunk(x), told)
<1>1. told # "self" /\ TakeChunk(x) \in XType
  BY AllGives
<1>2. PICK b \in Nat : \E h, more :
        /\ Waiting(cur.query.n, b, TakeChunk(x), h, more)
        /\ b <= cur.query.n /\ cur.out \o RowsIn(Head(x.got)) = UpTo(1, b)
  BY AllGives
<1>3. UpTo(1, b) \in Seq(Int) /\ Len(UpTo(1, b)) = b
  BY FirstRows
<1>4. /\ new.out = UpTo(1, b) /\ new.status = "open" /\ new.kind = "all" /\ new.query = cur.query
      /\ new \in CurType
  BY <1>2, <1>3 DEF CurType
<1>5. InOrder(new) /\ Len(new.out) = b
  BY <1>2, <1>3, <1>4 DEF InOrder
<1>6. Unread(new, TakeChunk(x), told)
  BY <1>1, <1>2, <1>4, <1>5 DEF Unread
<1> QED
  BY <1>1, <1>4, <1>5, <1>6 DEF CursorOK

\* FetchAll: nothing is left to give.
LEMMA AllEnds ==
  ASSUME NEW cur \in CurType, NEW x \in XType, NEW told, CursorOK(cur, x, told),
         cur.kind = "all", cur.status = "open", x.got = <<>>, x.done = TRUE, x.left = <<>>, x.err # TRUE,
         NEW new, new = [cur EXCEPT !.status = "ended"]
  PROVE  new \in CurType /\ CursorOK(new, x, told)
<1>1. PICK h, cut : Waiting(cur.query.n, Len(cur.out), x, h, cut)
  BY DEF CursorOK, Unread
<1>2. cur.query.n \in Nat
  BY DEF CurType
<1>3. Len(cur.out) = cur.query.n
  BY <1>1, <1>2, WaitingEnds
<1>4. new \in CurType /\ new.out = cur.out /\ new.query = cur.query /\ new.status = "ended"
  BY DEF CurType
<1> QED
  BY <1>3, <1>4 DEF CursorOK, InOrder

\* A cursor that raises gave the first rows.
LEMMA CursorRaised ==
  ASSUME NEW cur \in CurType, InOrder(cur), NEW new, new = [cur EXCEPT !.status = "raised"], NEW x, NEW told
  PROVE  new \in CurType /\ CursorOK(new, x, told)
<1>1. new \in CurType /\ new.out = cur.out /\ new.query = cur.query /\ new.status = "raised"
  BY DEF CurType
<1> QED
  BY <1>1 DEF CursorOK, InOrder

\* MultiXactStream: the rows of its last request.
LEMMA StreamGives ==
  ASSUME NEW cur \in CurType, NEW x \in XType, NEW told, CursorOK(cur, x, told),
         cur.kind # "all", cur.status = "open", NEW y, y = CompleteX(x)
  PROVE  \E a \in Nat, h \in Nat :
           /\ a = Len(cur.out) /\ a <= h /\ h <= cur.query.n
           /\ cur.out \o Received(y) = UpTo(1, h)
           /\ More(Received(y)) => h = a + ChunkSize
           /\ y.err # TRUE /\ ~More(Received(y)) => h = cur.query.n
<1>1. PICK n \in Nat, a \in Nat : n = cur.query.n /\ a = Len(cur.out) /\ cur.out = UpTo(1, a)
  BY DEF CursorOK, InOrder, CurType
<1>2. PICK h \in Nat : \E p : Streaming(n, a, x, h, p)
  BY <1>1 DEF CursorOK, Unread, Streaming
<1>3. y \in XType /\ y.done = TRUE
  BY CompleteKnown
<1>4. PICK p : Streaming(n, a, y, h, p)
  BY <1>2, StreamCompletes
<1>5. /\ a <= h /\ h <= n /\ UpTo(1, a) \o Received(y) = UpTo(1, h)
      /\ More(Received(y)) => h = a + ChunkSize
      /\ y.err # TRUE /\ ~More(Received(y)) => h = n
  BY <1>3, <1>4, StreamRows
<1> QED
  BY <1>1, <1>5

\* MultiXactStream: its last chunk is given.
LEMMA StreamEnds ==
  ASSUME NEW cur \in CurType, NEW x \in XType, NEW told \in Tellings, CursorOK(cur, x, told),
         cur.kind # "all", cur.status = "open", NEW y \in XType, y = CompleteX(x),
         x.done # TRUE => y.err # TRUE, ~More(Received(y)),
         NEW new, new = [cur EXCEPT !.out = @ \o Received(y), !.status = "ended"]
  PROVE  new \in CurType /\ CursorOK(new, y, told)
<1>1. PICK a \in Nat, h \in Nat :
        /\ a = Len(cur.out) /\ a <= h /\ h <= cur.query.n
        /\ cur.out \o Received(y) = UpTo(1, h)
        /\ More(Received(y)) => h = a + ChunkSize
        /\ y.err # TRUE /\ ~More(Received(y)) => h = cur.query.n
  BY StreamGives
<1>2. y.done = TRUE /\ (x.done = TRUE => y = x)
  BY CompleteKnown
<1>3. h = cur.query.n \/ told \in {"other", "dropped"}
  <2>1. CASE y.err # TRUE
    BY <1>1, <2>1
  <2>2. CASE y.err = TRUE
    <3>1. x.done = TRUE /\ x.err = TRUE
      BY <1>2, <2>2
    <3> QED
      BY <3>1 DEF CursorOK, Unread
  <2> QED
    BY <2>1, <2>2
<1>4. UpTo(1, h) \in Seq(Int) /\ Len(UpTo(1, h)) = h
  BY FirstRows
<1>5. new \in CurType /\ new.out = UpTo(1, h) /\ new.query = cur.query /\ new.status = "ended"
  BY <1>1, <1>4 DEF CurType
<1> QED
  BY <1>1, <1>2, <1>3, <1>4, <1>5 DEF CursorOK, InOrder

\* MultiXactStream: a full chunk is given, and the next is asked for.
LEMMA StreamAsks ==
  ASSUME NEW cur \in CurType, NEW x \in XType, NEW told, CursorOK(cur, x, told),
         cur.kind # "all", cur.status = "open", NEW y \in XType, y = CompleteX(x),
         More(Received(y)), NEW refused \in BOOLEAN,
         NEW z, z = Xact(RowsReply(cur.query, cur.pos, ChunkSize, refused))
  PROVE  /\ z \in XType /\ z.done # TRUE /\ told # "self"
         /\ \E h \in Nat : /\ h = cur.pos /\ h <= cur.query.n /\ cur.out \o Received(y) = UpTo(1, h)
                           /\ \E g, r : Streaming(cur.query.n, h, z, g, r)
<1>1. PICK a \in Nat, h \in Nat :
        /\ a = Len(cur.out) /\ a <= h /\ h <= cur.query.n
        /\ cur.out \o Received(y) = UpTo(1, h)
        /\ More(Received(y)) => h = a + ChunkSize
        /\ y.err # TRUE /\ ~More(Received(y)) => h = cur.query.n
  BY StreamGives
<1>2. told # "self" /\ cur.pos = a + ChunkSize
  BY <1>1 DEF CursorOK, Unread
<1>3. cur.pos = h
  BY <1>1, <1>2
<1>4. PICK r : r = RowsReply(cur.query, h, ChunkSize, refused)
  OBVIOUS
<1>5. PICK n \in Nat : n = cur.query.n
  BY DEF CurType
<1>6. PICK g \in Nat : Replies(r, h, n, ChunkSize, g)
  <2>1. cur.query \in [n : Nat, e : Nat] /\ ChunkSize \in Nat \ {0} /\ h <= cur.query.n
    BY <1>1, FetchBounds DEF CurType
  <2> QED
    BY <1>4, <1>5, <2>1, RepliesKnown
<1>7. z \in XType /\ z.done # TRUE /\ Streaming(n, h, z, g, r)
  <2>1. z = Xact(r)
    BY <1>3, <1>4
  <2> QED
    BY <1>6, <2>1, StreamRequests
<1> QED
  BY <1>1, <1>2, <1>3, <1>5, <1>7

LEMMA StreamContinues ==
  ASSUME NEW cur \in CurType, NEW x \in XType, NEW told, CursorOK(cur, x, told),
         cur.kind # "all", cur.status = "open", NEW y \in XType, y = CompleteX(x),
         More(Received(y)), NEW refused \in BOOLEAN,
         NEW new, new = [cur EXCEPT !.out = @ \o Received(y), !.pos = @ + ChunkSize],
         NEW z, z = Xact(RowsReply(cur.query, cur.pos, ChunkSize, refused))
  PROVE  new \in CurType /\ z \in XType /\ z.done # TRUE /\ CursorOK(new, z, told)
<1>1. z \in XType /\ z.done # TRUE /\ told # "self"
  BY StreamAsks
<1>2. PICK h \in Nat : /\ h = cur.pos /\ h <= cur.query.n /\ cur.out \o Received(y) = UpTo(1, h)
                       /\ \E g, r : Streaming(cur.query.n, h, z, g, r)
  BY StreamAsks
<1>3. UpTo(1, h) \in Seq(Int) /\ Len(UpTo(1, h)) = h
  BY FirstRows
<1>4. /\ new \in CurType /\ new.out = UpTo(1, h) /\ new.query = cur.query /\ new.status = "open"
      /\ new.kind = cur.kind /\ new.pos = h + ChunkSize
  <2>1. PICK pos \in Nat, out \in Seq(Int) : pos = h + ChunkSize /\ out = UpTo(1, h)
    BY <1>3, FetchBounds
  <2>2. new = [cur EXCEPT !.out = out, !.pos = pos]
    BY <1>2, <2>1
  <2> QED
    BY <2>1, <2>2 DEF CurType
<1>5. InOrder(new) /\ Len(new.out) = h
  BY <1>2, <1>3, <1>4 DEF InOrder
<1>6. Unread(new, z, told)
  BY <1>1, <1>2, <1>4, <1>5 DEF Unread
<1> QED
  BY <1>1, <1>4, <1>5, <1>6 DEF CursorOK

-----------------------------------------------------------------------------
(* The load, and the connection as a whole.                                *)
LoadType == [ status : {"new", "loading", "raised", "ended"}, n : Nat, i : Nat, bad : Nat,
              unpacked : Nat ]

\* The table holds the chunks before the one that is packed next and the one that runs.
Kept(l, table, pq) ==
  /\ pq = Loader => table = 1 .. (l.i - 2)
  /\ l.status \in {"new", "loading"} /\ pq # Loader => table = 1 .. (l.i - 1)
  /\ l.status = "ended" => table = 1 .. l.n
  /\ l.status = "raised" => \E k \in Nat : table = 1 .. k
LoadOK(l, table, pq, told) ==
  /\ l.i \in 1 .. (l.n + 1)
  /\ pq = Loader => l.status = "loading" /\ l.i >= 2
  /\ l.status = "new" => l.i = 1
  /\ l.status \in {"new", "loading"} => told \in {"no", "other"}
  /\ told # "other" => Kept(l, table, pq)

FetchTypes ==
  /\ fPq \in 0 .. 3 /\ fX \in [1 .. 3 -> XType] /\ fCur \in [Cursors -> CurType]
  /\ fBlock \in {"I", "T", "E"} /\ fLoad \in LoadType /\ fTable \in SUBSET Nat
  /\ fLog \in [told : [1 .. 3 -> Tellings], others : Nat]
Runs ==
  \A o \in 1 .. 3 : /\ fX[o].done = TRUE <=> fPq # o
                    /\ fX[o].done = TRUE => fX[o].left = <<>>
FetchInv ==
  /\ FetchTypes /\ Runs
  /\ \A c \in Cursors : CursorOK(fCur[c], fX[c], fLog.told[c])
  /\ LoadOK(fLoad, fTable, fPq, fLog.told[Loader])

LEMMA PeopleKnown == Cursors \subseteq 1 .. 3 /\ Loader \in 1 .. 3 /\ Loader \notin Cursors /\ 0 \notin Cursors
BY DEF Cursors, Loader

\* Completing the running transaction completes all of them.
LEMMA CompletedKnown ==
  ASSUME FetchTypes, Runs
  PROVE  /\ Completed \in [1 .. 3 -> XType]
         /\ \A o \in 1 .. 3 : /\ Completed[o] = CompleteX(fX[o])
                              /\ Completed[o].done = TRUE /\ Completed[o].left = <<>>
<1>1. \A o \in 1 .. 3 : fX[o] \in XType
  BY DEF FetchTypes
<1>2. \A o \in 1 .. 3 :
        /\ CompleteX(fX[o]) \in XType /\ CompleteX(fX[o]).done = TRUE /\ CompleteX(fX[o]).left = <<>>
        /\ fPq # o => CompleteX(fX[o]) = fX[o]
  <2>1. TAKE o \in 1 .. 3
  <2>2. PICK x \in XType : x = fX[o]
    BY <1>1
  <2>3. (x.done = TRUE <=> fPq # o) /\ (x.done = TRUE => x.left = <<>>)
    BY <2>2 DEF Runs
  <2>4. /\ CompleteX(x) \in XType /\ CompleteX(x).done = TRUE
        /\ x.done = TRUE => CompleteX(x) = x
        /\ x.done # TRUE => CompleteX(x).left = <<>>
    BY CompleteKnown
  <2> QED
    BY <2>2, <2>3, <2>4
<1>3. CASE fPq = 0
  <2>1. Completed = fX
    BY <1>3 DEF Completed
  <2> QED
    BY <1>2, <1>3, <2>1 DEF FetchTypes
<1>4. CASE fPq # 0
  <2>1. Completed = [fX EXCEPT ![fPq] = CompleteX(fX[fPq])] /\ fPq \in 1 .. 3
    BY <1>4 DEF Completed, FetchTypes
  <2>2. Completed \in [1 .. 3 -> XType]
    BY <1>2, <2>1 DEF FetchTypes
  <2>3. \A o \in 1 .. 3 : Completed[o] = CompleteX(fX[o])
    BY <1>2, <2>1 DEF FetchTypes
  <2> QED
    BY <1>2, <2>2, <2>3
<1> QED
  BY <1>3, <1>4

LEMMA CompletedOK ==
  ASSUME FetchInv, NEW c \in Cursors, NEW now,
         c # fPq => now = fLog.told[c], now \in {fLog.told[c], "other", "dropped"},
         c = fPq /\ PrevErr => now # "no"
  PROVE  CursorOK(fCur[c], Completed[c], now)
<1>1. PICK cur \in CurType, x \in XType, told \in Tellings :
        cur = fCur[c] /\ x = fX[c] /\ told = fLog.told[c] /\ CursorOK(cur, x, told)
  BY PeopleKnown DEF FetchInv, FetchTypes
<1>2. Completed[c] = CompleteX(x) /\ (x.done = TRUE <=> fPq # c)
  BY <1>1, PeopleKnown, CompletedKnown DEF FetchInv, Runs
<1>3. x.done = TRUE => now = told
  BY <1>1, <1>2
<1>4. x.done # TRUE /\ CompleteX(x).err = TRUE => now # "no"
  BY <1>1, <1>2, PeopleKnown DEF PrevErr
<1>5. CursorOK(cur, CompleteX(x), now)
  BY <1>1, <1>3, <1>4, CursorCompletes
<1> QED
  BY <1>1, <1>2, <1>5

LEMMA LoadCompletes ==
  ASSUME NEW l \in LoadType, NEW table, NEW pq, NEW told, LoadOK(l, table, pq, told),
         NEW after, NEW now, NEW next, next # Loader,
         \/ pq # Loader /\ after = table /\ now = told
         \/ pq = Loader /\ after = table \cup {l.i - 1} /\ now = told
         \/ pq = Loader /\ now = "other"
  PROVE  LoadOK(l, after, next, now)
<1>1. PICK i \in Nat, n \in Nat : i = l.i /\ n = l.n /\ i \in 1 .. (n + 1)
  BY DEF LoadType, LoadOK
<1>2. CASE pq # Loader /\ after = table /\ now = told
  BY <1>2 DEF LoadOK, Kept
<1>3. CASE pq = Loader /\ after = table \cup {l.i - 1} /\ now = told
  <2>1. l.status = "loading" /\ i >= 2 /\ told \in {"no", "other"}
    BY <1>1, <1>3 DEF LoadOK
  <2>2. told # "other" => after = 1 .. (i - 1)
    <3>1. (1 .. (i - 2)) \cup {i - 1} = 1 .. (i - 1)
      BY <2>1
    <3> QED
      BY <1>1, <1>3, <3>1 DEF LoadOK, Kept
  <2> QED
    BY <1>1, <1>3, <2>1, <2>2 DEF LoadOK, Kept
<1>4. CASE pq = Loader /\ now = "other"
  BY <1>4 DEF LoadOK
<1> QED
  BY <1>2, <1>3, <1>4

\* The load gives up, with its running chunk stored or not.
LEMMA LoadGivesUp ==
  ASSUME NEW l \in LoadType, NEW table, NEW pq, NEW told, LoadOK(l, table, pq, told),
         l.status = "loading", NEW after, NEW now, now # "other" => told # "other",
         after = table \/ (pq = Loader /\ after = table \cup {l.i - 1}),
         NEW new, new = [l EXCEPT !.status = "raised"]
  PROVE  new \in LoadType /\ LoadOK(new, after, 0, now)
<1>1. PICK i \in Nat, n \in Nat : i = l.i /\ n = l.n /\ i \in 1 .. (n + 1)
  BY DEF LoadType, LoadOK
<1>2. new \in LoadType /\ new.i = i /\ new.n = n /\ new.status = "raised"
  BY <1>1 DEF LoadType
<1>3. told # "other" => \E k \in Nat : after = 1 .. k
  <2>1. SUFFICES ASSUME told # "other" PROVE \E k \in Nat : after = 1 .. k
    OBVIOUS
  <2>2. CASE pq # Loader
    <3>1. after = 1 .. (i - 1) /\ i - 1 \in Nat
      BY <1>1, <2>1, <2>2 DEF LoadOK, Kept
    <3> QED
      BY <3>1
  <2>3. CASE pq = Loader
    <3>1. table = 1 .. (i - 2) /\ i >= 2
      BY <1>1, <2>1, <2>3 DEF LoadOK, Kept
    <3>2. i - 2 \in Nat /\ i - 1 \in Nat /\ (1 .. (i - 2)) \cup {i - 1} = 1 .. (i - 1)
      BY <3>1
    <3>3. after = 1 .. (i - 2) \/ after = 1 .. (i - 1)
      BY <1>1, <2>3, <3>1, <3>2
    <3> QED
      BY <3>2, <3>3
  <2> QED
    BY <2>2, <2>3
<1> QED
  BY <1>1, <1>2, <1>3, PeopleKnown DEF LoadOK, Kept

-----------------------------------------------------------------------------
(* What the actions have in common.                                        *)

\* The error of the running transaction is raised to o.
LEMMA Raises ==
  ASSUME FetchInv, NEW o \in 0 .. 3, RaisePrevious(o)
  PROVE  /\ fX' \in [1 .. 3 -> XType] /\ fPq' = 0 /\ fBlock' \in {"I", "T", "E"} /\ fTable' = fTable
         /\ fLog' \in [told : [1 .. 3 -> Tellings], others : Nat] /\ Runs'
         /\ \A c \in Cursors : c # o \/ fPq # o => CursorOK(fCur[c], fX'[c], fLog'.told[c])
         /\ o # Loader \/ fPq # Loader => LoadOK(fLoad, fTable, 0, fLog'.told[Loader])
         /\ fLog'.told[Loader] # "other" => fLog.told[Loader] # "other"
<1>1. PICK p \in 1 .. 3 : p = fPq
  BY DEF RaisePrevious, PrevErr, FetchInv, FetchTypes
<1>2. PICK told \in [1 .. 3 -> Tellings], others \in Nat : fLog = [told |-> told, others |-> others]
  BY DEF FetchInv, FetchTypes
<1>3. PICK say \in Tellings :
        say = IF told[p] # "no" THEN told[p] ELSE IF p = o THEN "self" ELSE "other"
  BY DEF Tellings
<1>4. fLog' = [told |-> [told EXCEPT ![p] = say], others |-> others]
  <2>1. fLog' = [fLog EXCEPT !.told[p] = say]
    BY <1>1, <1>2, <1>3 DEF RaisePrevious
  <2> QED
    BY <1>2, <2>1
<1>5. PICK now \in [1 .. 3 -> Tellings] :
        now = fLog'.told /\ now[p] = say /\ \A q \in 1 .. 3 : q # p => now[q] = told[q]
  BY <1>4
<1>6. fLog' \in [told : [1 .. 3 -> Tellings], others : Nat]
  BY <1>4
<1>7. /\ fX' = Completed /\ fPq' = 0 /\ fTable' = fTable /\ PrevErr
      /\ Completed \in [1 .. 3 -> XType] /\ fBlock' \in {"I", "T", "E"}
      /\ \A q \in 1 .. 3 : Completed[q].done = TRUE /\ Completed[q].left = <<>>
  BY CompletedKnown DEF RaisePrevious, FetchInv, FetchTypes, Failing
<1>8. Runs'
  <2>1. \A q \in 1 .. 3 : fPq' # q
    BY <1>7
  <2> QED
    BY <1>7, <2>1 DEF Runs
<1>9. ASSUME NEW c \in Cursors, c # o \/ fPq # o PROVE CursorOK(fCur[c], fX'[c], fLog'.told[c])
  <2>1. c # p => now[c] = fLog.told[c]
    BY <1>2, <1>5, PeopleKnown
  <2>2. c = p => now[c] \in {fLog.told[c], "other"} /\ now[c] # "no"
    BY <1>1, <1>2, <1>3, <1>5, <1>9
  <2>3. CursorOK(fCur[c], Completed[c], now[c])
    BY <1>1, <2>1, <2>2, CompletedOK
  <2> QED
    BY <1>5, <1>7, <2>3
<1>10. ASSUME o # Loader \/ fPq # Loader PROVE LoadOK(fLoad, fTable, 0, fLog'.told[Loader])
  <2>1. PICK l \in LoadType, t \in Tellings :
          l = fLoad /\ t = fLog.told[Loader] /\ t = told[Loader] /\ LoadOK(l, fTable, p, t)
    BY <1>1, <1>2, PeopleKnown DEF FetchInv, FetchTypes
  <2>2. CASE p # Loader
    <3>1. now[Loader] = t
      BY <1>5, <2>1, <2>2, PeopleKnown
    <3> QED
      BY <1>5, <2>1, <2>2, <3>1, LoadCompletes, PeopleKnown
  <2>3. CASE p = Loader
    <3>1. t \in {"no", "other"}
      BY <2>1, <2>3 DEF LoadOK
    <3>2. now[Loader] = "other"
      BY <1>1, <1>3, <1>5, <1>10, <2>1, <2>3, <3>1
    <3> QED
      BY <1>5, <2>1, <2>3, <3>2, LoadCompletes, PeopleKnown
  <2> QED
    BY <2>2, <2>3
<1>11. fLog'.told[Loader] # "other" => fLog.told[Loader] # "other"
  BY <1>2, <1>3, <1>5, PeopleKnown
<1> QED
  BY <1>6, <1>7, <1>8, <1>9, <1>10, <1>11

\* The running transaction is completed, and had no error.
LEMMA Completes ==
  ASSUME FetchInv, ~PrevErr
  PROVE  /\ Stored(Completed) \in SUBSET Nat
         /\ \A c \in Cursors : CursorOK(fCur[c], Completed[c], fLog.told[c])
         /\ \A q \in 0 .. 2 : LoadOK(fLoad, Stored(Completed), q, fLog.told[Loader])
<1>1. ASSUME NEW c \in Cursors PROVE CursorOK(fCur[c], Completed[c], fLog.told[c])
  BY CompletedOK
<1>2. PICK l \in LoadType, t \in Tellings :
        l = fLoad /\ t = fLog.told[Loader] /\ LoadOK(l, fTable, fPq, t)
  BY PeopleKnown DEF FetchInv, FetchTypes
<1>3. l.i \in Nat /\ (fPq = Loader => l.i >= 2)
  BY <1>2 DEF LoadType, LoadOK
<1>4. ASSUME NEW q \in 0 .. 2 PROVE LoadOK(l, Stored(Completed), q, t)
  <2>1. q # Loader
    BY DEF Loader
  <2>2. CASE fPq # Loader
    <3>1. Stored(Completed) = fTable
      BY <2>2 DEF Stored
    <3> QED
      BY <1>2, <2>1, <2>2, <3>1, LoadCompletes
  <2>3. CASE fPq = Loader
    <3>1. Completed[Loader] = CompleteX(fX[fPq])
      BY <2>3, CompletedKnown, PeopleKnown DEF FetchInv
    <3>2. Stored(Completed) = fTable \cup {l.i - 1}
      BY <1>2, <2>3, <3>1, PeopleKnown DEF Stored, PrevErr
    <3> QED
      BY <1>2, <2>1, <2>3, <3>2, LoadCompletes
  <2> QED
    BY <2>2, <2>3
<1>5. Stored(Completed) \in SUBSET Nat
  <2>1. fPq = Loader => l.i - 1 \in Nat
    BY <1>3
  <2> QED
    BY <1>2, <2>1 DEF Stored, FetchInv, FetchTypes
<1> QED
  BY <1>1, <1>2, <1>4, <1>5

-----------------------------------------------------------------------------
(* The actions.                                                            *)

\* A cursor that is made, and the transaction it is given.
LEMMA Opens ==
  ASSUME NEW cur \in CurType, InOrder(cur), Len(cur.out) = 0,
         NEW kind \in {"all", "inside", "outside"}, NEW q \in [n : Nat, e : Nat],
         NEW status \in {"open", "raised"}, NEW y, NEW told, told # "self" \/ status = "raised",
         kind = "all" => \E h, cut : Waiting(q.n, 0, y, h, cut),
         kind # "all" => y.done # TRUE /\ \E h, p : Streaming(q.n, 0, y, h, p),
         NEW new, new = [cur EXCEPT !.kind = kind, !.query = q, !.pos = ChunkSize, !.status = status]
  PROVE  new \in CurType /\ CursorOK(new, y, told)
<1>1. /\ new \in CurType /\ new.kind = kind /\ new.query = q /\ new.pos = ChunkSize
      /\ new.status = status /\ new.out = cur.out
  BY FetchBounds DEF CurType
<1>2. q.n \in Nat
  OBVIOUS
<1>3. InOrder(new)
  BY <1>1, <1>2 DEF InOrder
<1>4. status = "open" => Unread(new, y, told)
  <2>1. new.pos = Len(new.out) + ChunkSize
    BY <1>1, FetchBounds
  <2> QED
    BY <1>1, <2>1 DEF Unread
<1> QED
  BY <1>1, <1>3, <1>4 DEF CursorOK

\* What a cursor asks for first.
LEMMA FirstKnown ==
  ASSUME NEW q \in [n : Nat, e : Nat], NEW kind \in {"all", "inside", "outside"}
  PROVE  \E h \in Nat : Replies(First(kind, q), 0, q.n, IF kind = "all" THEN q.n + 1 ELSE ChunkSize, h)
<1>1. PICK n \in Nat, more \in Nat \ {0} : n = q.n /\ more = n + 1 /\ 0 <= n
  OBVIOUS
<1>2. PICK refused \in BOOLEAN : refused = (fBlock = "E")
  OBVIOUS
<1>3. CASE kind = "all"
  <2>1. First(kind, q) = RowsReply(q, 0, more, refused)
    BY <1>1, <1>2, <1>3 DEF First
  <2>2. \E h \in Nat : Replies(RowsReply(q, 0, more, refused), 0, q.n, more, h)
    BY <1>1, RepliesKnown
  <2> QED
    BY <1>1, <1>3, <2>1, <2>2
<1>4. CASE kind = "inside"
  <2>1. First(kind, q) = RowsReply(q, 0, ChunkSize, refused)
    BY <1>2, <1>4 DEF First
  <2>2. \E h \in Nat : Replies(RowsReply(q, 0, ChunkSize, refused), 0, q.n, ChunkSize, h)
    BY <1>1, RepliesKnown, FetchBounds
  <2> QED
    BY <1>4, <2>1, <2>2
<1>5. CASE kind = "outside"
  <2>1. PICK bad \in BOOLEAN : bad = (fBlock = "E" \/ q.e > 0)
    OBVIOUS
  <2>2. First(kind, q) = RowsReply(q, 0, ChunkSize, bad)
    BY <1>5, <2>1 DEF First
  <2>3. \E h \in Nat : Replies(RowsReply(q, 0, ChunkSize, bad), 0, q.n, ChunkSize, h)
    BY <1>1, RepliesKnown, FetchBounds
  <2> QED
    BY <1>5, <2>2, <2>3
<1> QED
  BY <1>3, <1>4, <1>5

\* The step of the transaction of o, done or running.
LEMMA RunsAfter ==
  ASSUME NEW xs \in [1 .. 3 -> XType], NEW o \in 1 .. 3,
         \A q \in 1 .. 3 : q # o => xs[q].done = TRUE /\ xs[q].left = <<>>, NEW y \in XType, y.done = TRUE => y.left = <<>>,
         fX' = [xs EXCEPT ![o] = y], fPq' = IF y.done THEN 0 ELSE o
  PROVE  Runs' /\ fX' \in [1 .. 3 -> XType] /\ fPq' \in {0, o} /\ fX'[o] = y
         /\ \A q \in 1 .. 3 : q # o => fX'[q] = xs[q]
<1>1. /\ fX' \in [1 .. 3 -> XType] /\ fX'[o] = y
      /\ \A q \in 1 .. 3 : q # o => fX'[q] = xs[q]
  OBVIOUS
<1>2. y.done \in BOOLEAN
  BY DEF XType
<1>3. (y.done = TRUE => fPq' = 0) /\ (y.done # TRUE => fPq' = o)
  BY <1>2
<1>4. ASSUME NEW q \in 1 .. 3
      PROVE  (fX'[q].done = TRUE <=> fPq' # q) /\ (fX'[q].done = TRUE => fX'[q].left = <<>>)
  <2>1. CASE q = o
    <3>1. 0 # o
      OBVIOUS
    <3> QED
      BY <1>1, <1>2, <1>3, <2>1, <3>1
  <2>2. CASE q # o
    <3>1. fX'[q] = xs[q] /\ fPq' # q
      BY <1>1, <1>2, <1>3, <2>2
    <3> QED
      BY <3>1
  <2> QED
    BY <2>1, <2>2
<1>5. fPq' \in {0, o}
  BY <1>2, <1>3
<1> QED
  BY <1>1, <1>4, <1>5 DEF Runs

LEMMA StepEnds ==
  ASSUME NEW x \in XType, NEW k \in 0 .. Len(x.left)
  PROVE  StepX(x, k) \in XType /\ (StepX(x, k).done = TRUE => StepX(x, k).left = <<>>)
<1>1. PICK l \in Nat : l = Len(x.left)
  BY DEF XType
<1>2. PICK rest \in Seq(Int) :
        /\ StepX(x, k) \in XType /\ StepX(x, k).left = rest /\ Len(rest) = l - k
        /\ StepX(x, k).done = TRUE => k = l
  BY <1>1, StepKnown
<1>3. k = l => Len(rest) = 0
  BY <1>1, <1>2
<1> QED
  BY <1>2, <1>3, NoElements

LEMMA CursorOpenKeeps ==
  ASSUME FetchInv, NEW c \in Cursors, Open(c)
  PROVE  FetchInv'
<1>1. fCur[c].status = "new" /\ fLoad' = fLoad
  BY DEF Open
<1>2. PICK cur \in CurType, told \in Tellings :
        cur = fCur[c] /\ told = fLog.told[c] /\ CursorOK(cur, fX[c], told) /\ cur.status = "new"
  BY <1>1, PeopleKnown DEF FetchInv, FetchTypes
<1>3. InOrder(cur) /\ Len(cur.out) = 0 /\ told = "no" /\ fX[c].done = TRUE
  BY <1>2 DEF CursorOK
<1>4. fPq # c
  BY <1>3, PeopleKnown DEF FetchInv, Runs
<1>5. CASE PrevErr
  <2>1. RaisePrevious(c) /\ fCur' = fCur
    BY <1>5 DEF Open
  <2>2. c \in 0 .. 3 /\ c # Loader
    BY PeopleKnown
  <2>3. /\ fX' \in [1 .. 3 -> XType] /\ fPq' = 0 /\ fBlock' \in {"I", "T", "E"} /\ fTable' = fTable
        /\ fLog' \in [told : [1 .. 3 -> Tellings], others : Nat] /\ Runs'
        /\ \A d \in Cursors : CursorOK(fCur[d], fX'[d], fLog'.told[d])
        /\ LoadOK(fLoad, fTable, 0, fLog'.told[Loader])
    BY <1>4, <2>1, <2>2, Raises
  <2> QED
    BY <1>1, <2>1, <2>3 DEF FetchInv, FetchTypes
<1>6. CASE ~PrevErr
  <2>1. PICK kind \in {"all", "inside", "outside"}, q \in [n : Nat, e : Nat] : Opened(c, kind, q)
    <3>1. PICK n \in 0 .. MaxResult, hasRows \in BOOLEAN, known \in BOOLEAN : \E e \in {0, n} :
            Opened(c, KindOf(hasRows, fBlock, known), [n |-> n, e |-> e])
      BY <1>6 DEF Open
    <3>2. KindOf(hasRows, fBlock, known) \in {"all", "inside", "outside"}
      BY DEF KindOf
    <3>3. \A e \in {0, n} : [n |-> n, e |-> e] \in [n : Nat, e : Nat]
      BY FetchBounds
    <3> QED
      BY <3>1, <3>2, <3>3
  <2>2. PICK x : x = Xact(First(kind, q))
    OBVIOUS
  <2>3. PICK k \in 1 .. Len(x.left) :
          LET y == IF kind = "all" THEN StepX(x, k) ELSE x
              fails == y.err /\ y.done
          IN /\ IF kind = "all" THEN Received(y) # <<>> \/ y.done ELSE k = 1
             /\ fX' = [Completed EXCEPT ![c] = y]
             /\ fPq' = IF y.done THEN 0 ELSE c
             /\ fBlock' = Failing(fails)
             /\ fTable' = Stored(Completed)
             /\ fCur' = [fCur EXCEPT ![c] =
                  [ @ EXCEPT !.kind = kind, !.query = q, !.pos = ChunkSize,
                             !.status = IF fails THEN "raised" ELSE "open" ]]
             /\ fLog' = [fLog EXCEPT !.told[c] = IF fails THEN "self" ELSE @]
    BY <2>1, <2>2 DEF Opened
  <2>4. PICK y : y = IF kind = "all" THEN StepX(x, k) ELSE x
    OBVIOUS
  <2>5. PICK fails \in BOOLEAN : fails = (y.err /\ y.done)
    OBVIOUS
  <2>6. PICK status \in {"open", "raised"} : status = IF fails THEN "raised" ELSE "open"
    OBVIOUS
  <2>7. PICK say \in Tellings : say = IF fails THEN "self" ELSE told
    BY DEF Tellings
  <2>8. PICK new : new = [cur EXCEPT !.kind = kind, !.query = q, !.pos = ChunkSize, !.status = status]
    OBVIOUS
  <2>9. /\ fX' = [Completed EXCEPT ![c] = y] /\ fPq' = IF y.done THEN 0 ELSE c
        /\ fBlock' = Failing(fails) /\ fTable' = Stored(Completed)
    BY <2>3, <2>4, <2>5
  <2>10. fCur' = [fCur EXCEPT ![c] = new]
    BY <1>2, <2>3, <2>4, <2>5, <2>6, <2>8
  <2>11. fLog' = [fLog EXCEPT !.told[c] = say]
    BY <1>2, <2>3, <2>4, <2>5, <2>7, PeopleKnown DEF FetchInv, FetchTypes
  <2>12. PICK h \in Nat : Replies(First(kind, q), 0, q.n, IF kind = "all" THEN q.n + 1 ELSE ChunkSize, h)
    BY FirstKnown
  <2>13. /\ y \in XType /\ (y.done = TRUE => y.left = <<>>)
         /\ kind = "all" => \E g, cut : Waiting(q.n, 0, y, g, cut)
         /\ kind # "all" => y.done # TRUE /\ \E g, p : Streaming(q.n, 0, y, g, p)
    <3>1. q.n \in Nat
      OBVIOUS
    <3>2. CASE kind = "all"
      <4>1. Replies(First(kind, q), 0, q.n, q.n + 1, h)
        BY <2>12, <3>2
      <4>2. x \in XType /\ \E cut : Waiting(q.n, 0, x, h, cut)
        BY <2>2, <3>1, <4>1, AllOpens
      <4>3. y = StepX(x, k) /\ k \in 0 .. Len(x.left)
        BY <2>4, <3>2
      <4>4. \E g, cut : Waiting(q.n, 0, y, g, cut)
        BY <3>1, <4>2, <4>3, WaitingSteps
      <4>5. y \in XType /\ (y.done = TRUE => y.left = <<>>)
        BY <4>2, <4>3, StepEnds
      <4> QED
        BY <3>2, <4>4, <4>5
    <3>3. CASE kind # "all"
      <4>1. Replies(First(kind, q), 0, q.n, ChunkSize, h)
        BY <2>12, <3>3
      <4>2. x \in XType /\ x.done # TRUE /\ Streaming(q.n, 0, x, h, First(kind, q))
        BY <2>2, <3>1, <4>1, StreamRequests
      <4>3. y = x
        BY <2>4, <3>3
      <4> QED
        BY <3>3, <4>2, <4>3
    <3> QED
      BY <3>2, <3>3
  <2>14. say # "self" \/ status = "raised"
    BY <1>3, <2>6, <2>7
  <2>15. new \in CurType /\ CursorOK(new, y, say)
    BY <1>3, <2>8, <2>13, <2>14, Opens
  <2>16. /\ Stored(Completed) \in SUBSET Nat
         /\ \A d \in Cursors : CursorOK(fCur[d], Completed[d], fLog.told[d])
         /\ \A g \in 0 .. 2 : LoadOK(fLoad, Stored(Completed), g, fLog.told[Loader])
    BY <1>6, Completes
  <2>17. PICK xs \in [1 .. 3 -> XType] :
           xs = Completed /\ \A o \in 1 .. 3 : xs[o].done = TRUE /\ xs[o].left = <<>>
    BY CompletedKnown DEF FetchInv
  <2>18. /\ Runs' /\ fX' \in [1 .. 3 -> XType] /\ fPq' \in {0, c} /\ fX'[c] = y
         /\ \A o \in 1 .. 3 : o # c => fX'[o] = xs[o]
    BY <2>9, <2>13, <2>17, PeopleKnown, RunsAfter
  <2>19. fCur' \in [Cursors -> CurType] /\ fCur'[c] = new /\ \A d \in Cursors : d # c => fCur'[d] = fCur[d]
    BY <2>10, <2>15 DEF FetchInv, FetchTypes
  <2>20. /\ fLog' \in [told : [1 .. 3 -> Tellings], others : Nat] /\ fLog'.told[c] = say
         /\ \A o \in 1 .. 3 : o # c => fLog'.told[o] = fLog.told[o]
    BY <2>11, PeopleKnown DEF FetchInv, FetchTypes
  <2>21. ASSUME NEW d \in Cursors PROVE CursorOK(fCur'[d], fX'[d], fLog'.told[d])
    <3>1. CASE d = c
      BY <2>15, <2>18, <2>19, <2>20, <3>1
    <3>2. CASE d # c
      BY <2>16, <2>17, <2>18, <2>19, <2>20, <3>2, PeopleKnown
    <3> QED
      BY <3>1, <3>2
  <2>22. LoadOK(fLoad', fTable', fPq', fLog'.told[Loader])
    <3>1. fPq' \in 0 .. 2 /\ fLog'.told[Loader] = fLog.told[Loader]
      BY <2>18, <2>20, PeopleKnown DEF Cursors
    <3> QED
      BY <1>1, <2>9, <2>16, <3>1
  <2>23. fBlock' \in {"I", "T", "E"}
    BY <2>9 DEF Failing, FetchInv, FetchTypes
  <2>24. fPq' \in 0 .. 3 /\ fTable' \in SUBSET Nat
    BY <2>9, <2>16, <2>18, PeopleKnown
  <2> QED
    BY <1>1, <2>18, <2>19, <2>20, <2>21, <2>22, <2>23, <2>24 DEF FetchInv, FetchTypes
<1> QED
  BY <1>5, <1>6

\* A cursor moves, and the other does not.
LEMMA OneMoves ==
  ASSUME FetchInv, NEW c \in Cursors, NEW new \in CurType, fCur' = [fCur EXCEPT ![c] = new],
         fX' \in [1 .. 3 -> XType], Runs', fPq' \in 0 .. 3, fBlock' \in {"I", "T", "E"},
         fTable' \in SUBSET Nat, fLoad' = fLoad,
         fLog' \in [told : [1 .. 3 -> Tellings], others : Nat],
         \A d \in Cursors : d # c => CursorOK(fCur[d], fX'[d], fLog'.told[d]),
         CursorOK(new, fX'[c], fLog'.told[c]), LoadOK(fLoad, fTable', fPq', fLog'.told[Loader])
  PROVE  FetchInv'
<1>1. fCur' \in [Cursors -> CurType] /\ fCur'[c] = new /\ \A d \in Cursors : d # c => fCur'[d] = fCur[d]
  BY DEF FetchInv, FetchTypes
<1>2. \A d \in Cursors : CursorOK(fCur'[d], fX'[d], fLog'.told[d])
  BY <1>1
<1> QED
  BY <1>1, <1>2 DEF FetchInv, FetchTypes

LEMMA StepAllKeeps ==
  ASSUME FetchInv, NEW c \in Cursors, StepAll(c)
  PROVE  FetchInv'
<1>1. PICK cur \in CurType, x \in XType, told \in Tellings :
        /\ cur = fCur[c] /\ x = fX[c] /\ told = fLog.told[c] /\ CursorOK(cur, x, told)
        /\ cur.kind = "all" /\ cur.status = "open" /\ x.done # TRUE
  BY PeopleKnown DEF FetchInv, FetchTypes, StepAll
<1>2. fPq = c /\ \A o \in 1 .. 3 : o # c => fX[o].done = TRUE /\ fX[o].left = <<>>
  BY <1>1, PeopleKnown DEF FetchInv, Runs
<1>3. PICK k \in 1 .. Len(x.left) :
        LET y == StepX(x, k)
        IN /\ fX' = [fX EXCEPT ![c] = y] /\ fPq' = IF y.done THEN 0 ELSE c
           /\ fBlock' = Failing(y.err /\ y.done)
  BY <1>1, <1>2 DEF StepAll
<1>4. PICK y : y = StepX(x, k)
  OBVIOUS
<1>5. /\ fX' = [fX EXCEPT ![c] = y] /\ fPq' = IF y.done THEN 0 ELSE c
      /\ fBlock' = Failing(y.err /\ y.done)
      /\ fCur' = fCur /\ fLoad' = fLoad /\ fTable' = fTable /\ fLog' = fLog
  BY <1>3, <1>4 DEF StepAll
<1>6. /\ y \in XType /\ (y.done = TRUE => y.left = <<>>)
      /\ CursorOK(cur, y, told)
  <2>1. k \in 0 .. Len(x.left)
    OBVIOUS
  <2> QED
    BY <1>1, <1>4, <2>1, StepEnds, AllSteps
<1>7. PICK xs \in [1 .. 3 -> XType] : xs = fX
  BY DEF FetchInv, FetchTypes
<1>8. /\ Runs' /\ fX' \in [1 .. 3 -> XType] /\ fPq' \in {0, c} /\ fX'[c] = y
      /\ \A o \in 1 .. 3 : o # c => fX'[o] = fX[o]
  BY <1>2, <1>5, <1>6, <1>7, PeopleKnown, RunsAfter
<1>9. fCur' = [fCur EXCEPT ![c] = cur]
  BY <1>1, <1>5 DEF FetchInv, FetchTypes
<1>10. \A d \in Cursors : d # c => CursorOK(fCur[d], fX'[d], fLog'.told[d])
  BY <1>5, <1>8, PeopleKnown DEF FetchInv
<1>11. LoadOK(fLoad, fTable', fPq', fLog'.told[Loader])
  <2>1. fLoad \in LoadType /\ LoadOK(fLoad, fTable, c, fLog.told[Loader])
    BY <1>2 DEF FetchInv, FetchTypes
  <2>2. c # Loader /\ fPq' # Loader
    BY <1>8, PeopleKnown
  <2> QED
    BY <1>5, <2>1, <2>2, LoadCompletes
<1>12. CursorOK(cur, fX'[c], fLog'.told[c])
  BY <1>1, <1>5, <1>6, <1>8
<1>13. fBlock' \in {"I", "T", "E"} /\ fTable' \in SUBSET Nat
       /\ fLog' \in [told : [1 .. 3 -> Tellings], others : Nat]
  BY <1>5 DEF Failing, FetchInv, FetchTypes
<1>14. fPq' \in 0 .. 3
  BY <1>8, PeopleKnown
<1> QED
  BY <1>5, <1>8, <1>9, <1>10, <1>11, <1>12, <1>13, <1>14, OneMoves

LEMMA NextAllKeeps ==
  ASSUME FetchInv, NEW c \in Cursors, NextAll(c)
  PROVE  FetchInv'
<1>1. PICK cur \in CurType, x \in XType, told \in Tellings :
        /\ cur = fCur[c] /\ x = fX[c] /\ told = fLog.told[c] /\ CursorOK(cur, x, told)
        /\ cur.kind = "all" /\ cur.status = "open" /\ (x.got # <<>> \/ x.done = TRUE)
        /\ x.done = TRUE => x.left = <<>>
  BY PeopleKnown DEF FetchInv, FetchTypes, NextAll, Runs
<1>2. /\ fPq' = fPq /\ fBlock' = fBlock /\ fLoad' = fLoad /\ fTable' = fTable
      /\ fPq' \in 0 .. 3 /\ fBlock' \in {"I", "T", "E"} /\ fTable' \in SUBSET Nat
      /\ LoadOK(fLoad, fTable', fPq', fLog.told[Loader])
  BY DEF NextAll, FetchInv, FetchTypes
<1>3. CASE x.err = TRUE
  <2>1. fX' = fX /\ CursorRaises(c)
    BY <1>1, <1>3 DEF NextAll
  <2>2. PICK new : new = [cur EXCEPT !.status = "raised"]
    OBVIOUS
  <2>3. PICK say \in Tellings : say = IF told = "no" THEN "self" ELSE told
    BY DEF Tellings
  <2>4. fCur' = [fCur EXCEPT ![c] = new] /\ fLog' = [fLog EXCEPT !.told[c] = say]
    BY <1>1, <2>1, <2>2, <2>3, PeopleKnown DEF CursorRaises, FetchInv, FetchTypes
  <2>5. /\ fLog' \in [told : [1 .. 3 -> Tellings], others : Nat] /\ fLog'.told[c] = say
        /\ \A o \in 1 .. 3 : o # c => fLog'.told[o] = fLog.told[o]
    BY <2>4, PeopleKnown DEF FetchInv, FetchTypes
  <2>6. new \in CurType /\ CursorOK(new, fX'[c], fLog'.told[c])
    <3>1. InOrder(cur)
      BY <1>1 DEF CursorOK
    <3> QED
      BY <2>2, <3>1, CursorRaised
  <2>7. \A d \in Cursors : d # c => CursorOK(fCur[d], fX'[d], fLog'.told[d])
    BY <2>1, <2>5, PeopleKnown DEF FetchInv
  <2>8. Runs' /\ fX' \in [1 .. 3 -> XType]
    BY <1>2, <2>1 DEF Runs, FetchInv, FetchTypes
  <2>9. LoadOK(fLoad, fTable', fPq', fLog'.told[Loader])
    BY <1>2, <2>5, PeopleKnown
  <2> QED
    BY <1>2, <2>4, <2>5, <2>6, <2>7, <2>8, <2>9, OneMoves
<1>4. CASE x.err # TRUE /\ x.got = <<>>
  <2>1. fX' = fX /\ fLog' = fLog /\ Ends(c)
    BY <1>1, <1>4 DEF NextAll, XType
  <2>2. PICK new : new = [cur EXCEPT !.status = "ended"]
    OBVIOUS
  <2>3. fCur' = [fCur EXCEPT ![c] = new]
    BY <1>1, <2>1, <2>2 DEF Ends
  <2>4. new \in CurType /\ CursorOK(new, fX'[c], fLog'.told[c])
    BY <1>1, <1>4, <2>1, <2>2, AllEnds
  <2>5. \A d \in Cursors : d # c => CursorOK(fCur[d], fX'[d], fLog'.told[d])
    BY <2>1 DEF FetchInv
  <2>6. /\ Runs' /\ fX' \in [1 .. 3 -> XType] /\ fLog' \in [told : [1 .. 3 -> Tellings], others : Nat]
        /\ LoadOK(fLoad, fTable', fPq', fLog'.told[Loader])
    BY <1>2, <2>1 DEF Runs, FetchInv, FetchTypes
  <2> QED
    BY <1>2, <2>3, <2>4, <2>5, <2>6, OneMoves
<1>5. CASE x.err # TRUE /\ x.got # <<>>
  <2>1. /\ fX' = [fX EXCEPT ![c] = TakeChunk(x)] /\ fLog' = fLog
        /\ Delivers(c, RowsIn(Head(x.got)))
    BY <1>1, <1>5 DEF NextAll, XType
  <2>2. PICK new : new = [cur EXCEPT !.out = @ \o RowsIn(Head(x.got))]
    OBVIOUS
  <2>3. fCur' = [fCur EXCEPT ![c] = new]
    BY <1>1, <2>1, <2>2 DEF Delivers
  <2>4. new \in CurType /\ TakeChunk(x) \in XType /\ CursorOK(new, TakeChunk(x), told)
    BY <1>1, <1>5, <2>2, AllDelivers
  <2>5. /\ fX' \in [1 .. 3 -> XType] /\ fX'[c] = TakeChunk(x)
        /\ \A o \in 1 .. 3 : o # c => fX'[o] = fX[o]
    BY <2>1, <2>4, PeopleKnown DEF FetchInv, FetchTypes
  <2>6. TakeChunk(x).done = x.done /\ TakeChunk(x).left = x.left
    BY DEF TakeChunk, XType
  <2>7. Runs'
    <3>1. \A o \in 1 .. 3 : fX'[o].done = fX[o].done /\ fX'[o].left = fX[o].left
      BY <1>1, <2>5, <2>6
    <3> QED
      BY <1>2, <3>1 DEF Runs, FetchInv
  <2>8. \A d \in Cursors : d # c => CursorOK(fCur[d], fX'[d], fLog'.told[d])
    BY <2>1, <2>5, PeopleKnown DEF FetchInv
  <2>9. CursorOK(new, fX'[c], fLog'.told[c]) /\ fLog' \in [told : [1 .. 3 -> Tellings], others : Nat]
    BY <1>1, <2>1, <2>4, <2>5 DEF FetchInv, FetchTypes
  <2>10. LoadOK(fLoad, fTable', fPq', fLog'.told[Loader])
    BY <1>2, <2>1
  <2> QED
    BY <1>2, <2>3, <2>4, <2>5, <2>7, <2>8, <2>9, <2>10, OneMoves
<1> QED
  BY <1>3, <1>4, <1>5

LEMMA NextStreamKeeps ==
  ASSUME FetchInv, NEW c \in Cursors, NextStream(c)
  PROVE  FetchInv'
<1>1. PICK cur \in CurType, x \in XType, told \in Tellings :
        /\ cur = fCur[c] /\ x = fX[c] /\ told = fLog.told[c] /\ CursorOK(cur, x, told)
        /\ cur.kind # "all" /\ cur.status = "open" /\ (x.done = TRUE <=> fPq # c)
        /\ x.done = TRUE => x.left = <<>>
  BY PeopleKnown DEF FetchInv, FetchTypes, NextStream, Runs
<1>2. PICK y \in XType : y = CompleteX(x) /\ y.done = TRUE /\ (x.done = TRUE => y = x)
  BY CompleteKnown
<1>3. fLoad' = fLoad /\ InOrder(cur) /\ c # Loader /\ c \in 1 .. 3
  BY <1>1, PeopleKnown DEF NextStream, CursorOK
<1>4. /\ Completed \in [1 .. 3 -> XType] /\ Completed[c] = y
      /\ \A o \in 1 .. 3 : Completed[o].done = TRUE /\ Completed[o].left = <<>>
  BY <1>1, <1>2, <1>3, CompletedKnown DEF FetchInv
<1>5. CASE RaisePrevious(c) /\ fCur' = [fCur EXCEPT ![c].status = "raised"]
  <2>1. c \in 0 .. 3
    BY PeopleKnown
  <2>2. /\ fX' \in [1 .. 3 -> XType] /\ fPq' = 0 /\ fBlock' \in {"I", "T", "E"} /\ fTable' = fTable
        /\ fLog' \in [told : [1 .. 3 -> Tellings], others : Nat] /\ Runs'
        /\ \A d \in Cursors : d # c => CursorOK(fCur[d], fX'[d], fLog'.told[d])
        /\ LoadOK(fLoad, fTable, 0, fLog'.told[Loader])
    BY <1>3, <1>5, <2>1, Raises
  <2>3. PICK new : new = [cur EXCEPT !.status = "raised"]
    OBVIOUS
  <2>4. fCur' = [fCur EXCEPT ![c] = new]
    BY <1>1, <1>5, <2>3
  <2>5. new \in CurType /\ CursorOK(new, fX'[c], fLog'.told[c])
    BY <1>3, <2>3, CursorRaised
  <2>6. fTable' \in SUBSET Nat /\ fPq' \in 0 .. 3 /\ LoadOK(fLoad, fTable', fPq', fLog'.told[Loader])
    BY <2>2 DEF FetchInv, FetchTypes
  <2> QED
    BY <1>3, <2>2, <2>4, <2>5, <2>6, OneMoves
<1>6. CASE /\ ~(fPq = c /\ y.err = TRUE) /\ ~More(Received(y))
           /\ fCur' = [fCur EXCEPT ![c].out = @ \o Received(y), ![c].status = "ended"]
           /\ fX' = (IF fPq = c THEN Completed ELSE fX)
           /\ fPq' = (IF fPq = c THEN 0 ELSE fPq)
           /\ UNCHANGED <<fBlock, fTable, fLog>>
  <2>1. PICK new : new = [cur EXCEPT !.out = @ \o Received(y), !.status = "ended"]
    OBVIOUS
  <2>2. fCur' = [fCur EXCEPT ![c] = new]
    BY <1>1, <1>6, <2>1 DEF FetchInv, FetchTypes
  <2>3. fX'[c] = y /\ fX' \in [1 .. 3 -> XType] /\ \A o \in 1 .. 3 : o # c => fX'[o] = fX[o]
    <3>1. CASE fPq = c
      <4>1. Completed = [fX EXCEPT ![c] = CompleteX(fX[c])]
        BY <1>3, <3>1 DEF Completed
      <4> QED
        BY <1>3, <1>4, <1>6, <3>1, <4>1 DEF FetchInv, FetchTypes
    <3>2. CASE fPq # c
      BY <1>1, <1>2, <1>6, <3>2 DEF FetchInv, FetchTypes
    <3> QED
      BY <3>1, <3>2
  <2>4. new \in CurType /\ CursorOK(new, fX'[c], fLog'.told[c])
    <3>1. x.done # TRUE => y.err # TRUE
      BY <1>1, <1>6
    <3>2. /\ cur \in CurType /\ x \in XType /\ told \in Tellings /\ CursorOK(cur, x, told)
          /\ cur.kind # "all" /\ cur.status = "open" /\ y \in XType /\ y = CompleteX(x)
          /\ ~More(Received(y))
      BY <1>1, <1>2, <1>6
    <3>3. new \in CurType /\ CursorOK(new, y, told)
      BY <2>1, <3>1, <3>2, StreamEnds
    <3> QED
      BY <1>1, <1>6, <2>3, <3>3
  <2>5. Runs' /\ fPq' \in 0 .. 3
    <3>1. CASE fPq = c
      <4>1. fPq' = 0 /\ \A o \in 1 .. 3 : fPq' # o
        BY <1>6, <3>1
      <4> QED
        BY <1>4, <1>6, <3>1, <4>1 DEF Runs
    <3>2. CASE fPq # c
      BY <1>6, <3>2 DEF Runs, FetchInv, FetchTypes
    <3> QED
      BY <3>1, <3>2
  <2>6. \A d \in Cursors : d # c => CursorOK(fCur[d], fX'[d], fLog'.told[d])
    BY <1>6, <2>3, PeopleKnown DEF FetchInv
  <2>7. LoadOK(fLoad, fTable', fPq', fLog'.told[Loader])
    <3>1. LoadOK(fLoad, fTable, fPq, fLog.told[Loader]) /\ fLoad \in LoadType
      BY DEF FetchInv, FetchTypes
    <3>2. CASE fPq = c
      <4>1. c # Loader /\ 0 # Loader
        BY <1>3 DEF Loader
      <4>2. LoadOK(fLoad, fTable, 0, fLog.told[Loader])
        BY <3>1, <3>2, <4>1, LoadCompletes
      <4> QED
        BY <1>6, <3>2, <4>2
    <3>3. CASE fPq # c
      BY <1>6, <3>1, <3>3
    <3> QED
      BY <3>2, <3>3
  <2>8. /\ fBlock' \in {"I", "T", "E"} /\ fTable' \in SUBSET Nat
        /\ fLog' \in [told : [1 .. 3 -> Tellings], others : Nat]
    BY <1>6 DEF FetchInv, FetchTypes
  <2> QED
    BY <1>3, <2>2, <2>3, <2>4, <2>5, <2>6, <2>7, <2>8, OneMoves
<1>7. CASE /\ More(Received(y)) /\ Pushes(c, NextRequest(c))
           /\ fCur' = [fCur EXCEPT ![c].out = @ \o Received(y), ![c].pos = @ + ChunkSize]
  <2>1. PICK refused \in BOOLEAN : refused = (fBlock = "E" \/ (cur.kind = "inside" /\ cur.gone))
    OBVIOUS
  <2>2. PICK z : z = Xact(RowsReply(cur.query, cur.pos, ChunkSize, refused))
    OBVIOUS
  <2>3. z = NextRequest(c)
    BY <1>1, <2>1, <2>2 DEF NextRequest
  <2>4. PICK new : new = [cur EXCEPT !.out = @ \o Received(y), !.pos = @ + ChunkSize]
    OBVIOUS
  <2>5. new \in CurType /\ z \in XType /\ z.done # TRUE /\ CursorOK(new, z, told)
    <3>1. /\ cur \in CurType /\ x \in XType /\ CursorOK(cur, x, told)
          /\ cur.kind # "all" /\ cur.status = "open" /\ y \in XType /\ y = CompleteX(x)
          /\ More(Received(y)) /\ refused \in BOOLEAN
      BY <1>1, <1>2, <1>7
    <3> QED
      BY <2>2, <2>4, <3>1, StreamContinues
  <2>6. fCur' = [fCur EXCEPT ![c] = new]
    BY <1>1, <1>7, <2>4 DEF FetchInv, FetchTypes
  <2>7. /\ ~PrevErr /\ fX' = [Completed EXCEPT ![c] = z] /\ fPq' = c
        /\ fTable' = Stored(Completed) /\ fBlock' = fBlock /\ fLog' = fLog
    BY <1>7, <2>3 DEF Pushes
  <2>8. /\ Stored(Completed) \in SUBSET Nat
        /\ \A d \in Cursors : CursorOK(fCur[d], Completed[d], fLog.told[d])
        /\ \A g \in 0 .. 2 : LoadOK(fLoad, Stored(Completed), g, fLog.told[Loader])
    BY <2>7, Completes
  <2>9. /\ Runs' /\ fX' \in [1 .. 3 -> XType] /\ fPq' \in {0, c} /\ fX'[c] = z
        /\ \A o \in 1 .. 3 : o # c => fX'[o] = Completed[o]
    <3>1. z.done = FALSE /\ fPq' = IF z.done THEN 0 ELSE c
      BY <2>5, <2>7 DEF XType
    <3>2. PICK xs \in [1 .. 3 -> XType] :
            xs = Completed /\ \A o \in 1 .. 3 : xs[o].done = TRUE /\ xs[o].left = <<>>
      BY <1>4
    <3> QED
      BY <1>3, <2>5, <2>7, <3>1, <3>2, RunsAfter
  <2>10. \A d \in Cursors : d # c => CursorOK(fCur[d], fX'[d], fLog'.told[d])
    BY <2>7, <2>8, <2>9, PeopleKnown
  <2>11. CursorOK(new, fX'[c], fLog'.told[c])
    BY <1>1, <2>5, <2>7, <2>9
  <2>12. LoadOK(fLoad, fTable', fPq', fLog'.told[Loader])
    <3>1. fPq' \in 0 .. 2
      BY <2>9 DEF Cursors
    <3> QED
      BY <2>7, <2>8, <3>1
  <2>13. /\ fBlock' \in {"I", "T", "E"} /\ fTable' \in SUBSET Nat /\ fPq' \in 0 .. 3
         /\ fLog' \in [told : [1 .. 3 -> Tellings], others : Nat]
    BY <1>3, <2>7, <2>8 DEF FetchInv, FetchTypes
  <2> QED
    BY <1>3, <2>5, <2>6, <2>9, <2>10, <2>11, <2>12, <2>13, OneMoves
<1>8. \/ fCur' = [fCur EXCEPT ![c].status = "raised"] /\ RaisePrevious(c)
      \/ /\ ~(fPq = c /\ y.err = TRUE) /\ ~More(Received(y))
         /\ fCur' = [fCur EXCEPT ![c].out = @ \o Received(y), ![c].status = "ended"]
         /\ fX' = (IF fPq = c THEN Completed ELSE fX)
         /\ fPq' = (IF fPq = c THEN 0 ELSE fPq)
         /\ UNCHANGED <<fBlock, fTable, fLog>>
      \/ /\ More(Received(y)) /\ Pushes(c, NextRequest(c))
         /\ fCur' = [fCur EXCEPT ![c].out = @ \o Received(y), ![c].pos = @ + ChunkSize]
  <2>1. y = CompleteX(fX[c]) /\ y.err \in BOOLEAN
    BY <1>1, <1>2 DEF XType
  <2>2. PICK rows : rows = Received(y)
    OBVIOUS
  <2>3. PICK bad \in BOOLEAN : bad = (fPq = c /\ y.err = TRUE)
    OBVIOUS
  <2>4. CASE bad
    BY <2>1, <2>3, <2>4 DEF NextStream
  <2>5. CASE ~bad /\ ~More(rows)
    BY <2>1, <2>2, <2>3, <2>5 DEF NextStream
  <2>6. CASE ~bad /\ More(rows)
    BY <2>1, <2>2, <2>3, <2>6 DEF NextStream
  <2> QED
    BY <2>4, <2>5, <2>6
<1> QED
  BY <1>5, <1>6, <1>7, <1>8

\* All transactions are done, and the cursors and the load are as they should be then.
LEMMA AllDone ==
  ASSUME FetchInv, fX' = Completed, fPq' = 0
  PROVE  Runs' /\ fX' \in [1 .. 3 -> XType]
<1>1. /\ Completed \in [1 .. 3 -> XType]
      /\ \A o \in 1 .. 3 : Completed[o].done = TRUE /\ Completed[o].left = <<>>
  BY CompletedKnown DEF FetchInv
<1>2. \A o \in 1 .. 3 : fPq' # o
  OBVIOUS
<1> QED
  BY <1>1, <1>2 DEF Runs

LEMMA GoesAway ==
  ASSUME NEW cur \in CurType, NEW x, NEW told, CursorOK(cur, x, told), NEW gone \in BOOLEAN
  PROVE  [cur EXCEPT !.gone = gone] \in CurType /\ CursorOK([cur EXCEPT !.gone = gone], x, told)
<1>1. PICK new : new = [cur EXCEPT !.gone = gone]
  OBVIOUS
<1>2. /\ new \in CurType /\ new.out = cur.out /\ new.query = cur.query /\ new.status = cur.status
      /\ new.kind = cur.kind /\ new.pos = cur.pos
  BY <1>1 DEF CurType
<1>3. CursorOK(new, x, told)
  BY <1>2 DEF CursorOK, InOrder, Unread
<1> QED
  BY <1>1, <1>2, <1>3

LEMMA OtherKeeps ==
  ASSUME FetchInv, Other
  PROVE  FetchInv'
<1>1. fLoad' = fLoad
  BY DEF Other
<1>2. CASE PrevErr
  <2>1. RaisePrevious(0) /\ fCur' = fCur
    BY <1>2 DEF Other
  <2>2. 0 \in 0 .. 3 /\ 0 # Loader /\ \A c \in Cursors : c # 0
    BY PeopleKnown DEF Loader
  <2>3. /\ fX' \in [1 .. 3 -> XType] /\ fPq' = 0 /\ fBlock' \in {"I", "T", "E"} /\ fTable' = fTable
        /\ fLog' \in [told : [1 .. 3 -> Tellings], others : Nat] /\ Runs'
        /\ \A c \in Cursors : CursorOK(fCur[c], fX'[c], fLog'.told[c])
        /\ LoadOK(fLoad, fTable, 0, fLog'.told[Loader])
    BY <2>1, <2>2, Raises
  <2> QED
    BY <1>1, <2>1, <2>3 DEF FetchInv, FetchTypes
<1>3. CASE ~PrevErr
  <2>1. /\ fX' = Completed /\ fPq' = 0 /\ fTable' = Stored(Completed)
        /\ fLog' = [fLog EXCEPT !.others = @ + 1] /\ fBlock' \in {"I", "T", "E"}
    BY <1>3 DEF Other, Failing, FetchInv, FetchTypes
  <2>2. \/ fCur' = [c \in Cursors |-> [fCur[c] EXCEPT !.gone = @ \/ fCur[c].status = "open"]]
        \/ fCur' = fCur
    BY <1>3 DEF Other
  <2>3. /\ Stored(Completed) \in SUBSET Nat
        /\ \A c \in Cursors : CursorOK(fCur[c], Completed[c], fLog.told[c])
        /\ \A q \in 0 .. 2 : LoadOK(fLoad, Stored(Completed), q, fLog.told[Loader])
    BY <1>3, Completes
  <2>4. Runs' /\ fX' \in [1 .. 3 -> XType]
    BY <2>1, AllDone
  <2>5. fLog' \in [told : [1 .. 3 -> Tellings], others : Nat] /\ fLog'.told = fLog.told
    BY <2>1 DEF FetchInv, FetchTypes
  <2>6. ASSUME NEW c \in Cursors
        PROVE  fCur'[c] \in CurType /\ CursorOK(fCur'[c], fX'[c], fLog'.told[c])
    <3>1. PICK cur \in CurType : cur = fCur[c] /\ CursorOK(cur, Completed[c], fLog.told[c])
      BY <2>3 DEF FetchInv, FetchTypes
    <3>2. CASE fCur' = fCur
      BY <2>1, <2>5, <3>1, <3>2
    <3>3. CASE fCur' = [d \in Cursors |-> [fCur[d] EXCEPT !.gone = @ \/ fCur[d].status = "open"]]
      <4>1. PICK gone \in BOOLEAN : gone = (cur.gone \/ cur.status = "open")
        OBVIOUS
      <4>2. fCur'[c] = [cur EXCEPT !.gone = gone]
        BY <3>1, <3>3, <4>1
      <4>3. [cur EXCEPT !.gone = gone] \in CurType
            /\ CursorOK([cur EXCEPT !.gone = gone], Completed[c], fLog.told[c])
        BY <3>1, GoesAway
      <4> QED
        BY <2>1, <2>5, <4>2, <4>3
    <3> QED
      BY <2>2, <3>2, <3>3
  <2>7. fCur' \in [Cursors -> CurType]
    <3>1. fCur' = [c \in Cursors |-> fCur'[c]]
      BY <2>2 DEF FetchInv, FetchTypes
    <3> QED
      BY <2>6, <3>1
  <2>8. LoadOK(fLoad', fTable', fPq', fLog'.told[Loader])
    BY <1>1, <2>1, <2>3, <2>5
  <2> QED
    BY <1>1, <2>1, <2>3, <2>4, <2>5, <2>6, <2>7, <2>8 DEF FetchInv, FetchTypes
<1> QED
  BY <1>2, <1>3

LEMMA StartLoadKeeps ==
  ASSUME FetchInv, StartLoad
  PROVE  FetchInv'
<1>1. PICK l \in LoadType, t \in Tellings :
        l = fLoad /\ t = fLog.told[Loader] /\ LoadOK(l, fTable, fPq, t) /\ l.status = "new"
  BY PeopleKnown DEF FetchInv, FetchTypes, StartLoad
<1>2. PICK n \in Nat : n >= 1 /\ \E bad \in 0 .. n, unpacked \in 0 .. n :
        fLoad' = [fLoad EXCEPT !.status = "loading", !.n = n, !.bad = bad, !.unpacked = unpacked]
  <2>1. \A n \in 1 .. MaxChunks : n \in Nat /\ n >= 1
    BY FetchBounds
  <2> QED
    BY <2>1 DEF StartLoad
<1>3. PICK bad \in Nat, unpacked \in Nat :
        fLoad' = [l EXCEPT !.status = "loading", !.n = n, !.bad = bad, !.unpacked = unpacked]
  <2>1. \A m \in 0 .. n : m \in Nat
    OBVIOUS
  <2> QED
    BY <1>1, <1>2, <2>1
<1>4. /\ fLoad' \in LoadType /\ fLoad'.status = "loading" /\ fLoad'.n = n /\ fLoad'.i = l.i
  BY <1>3 DEF LoadType
<1>5. l.i = 1 /\ fPq # Loader /\ t \in {"no", "other"} /\ (t # "other" => fTable = 1 .. (l.i - 1))
  BY <1>1 DEF LoadOK, Kept
<1>6. LoadOK(fLoad', fTable, fPq, t)
  <2>1. l.i \in 1 .. (n + 1)
    BY <1>2, <1>5
  <2> QED
    BY <1>4, <1>5, <2>1 DEF LoadOK, Kept
<1>7. /\ fPq' = fPq /\ fX' = fX /\ fCur' = fCur /\ fBlock' = fBlock /\ fTable' = fTable /\ fLog' = fLog
  BY DEF StartLoad
<1> QED
  BY <1>1, <1>4, <1>6, <1>7 DEF FetchInv, FetchTypes, Runs

LEMMA LoadGoesOn ==
  ASSUME NEW l \in LoadType, NEW table, NEW t, LoadOK(l, table, 0, t), l.status = "loading",
         l.i <= l.n, NEW new, new = [l EXCEPT !.i = @ + 1]
  PROVE  new \in LoadType /\ LoadOK(new, table, Loader, t)
<1>1. PICK i \in Nat, n \in Nat : i = l.i /\ n = l.n /\ i \in 1 .. (n + 1) /\ i <= n
  BY DEF LoadType, LoadOK
<1>2. PICK j \in Nat : j = i + 1 /\ j >= 2 /\ j \in 1 .. (n + 1) /\ j - 2 = i - 1
  BY <1>1
<1>3. new \in LoadType /\ new.status = "loading" /\ new.n = n /\ new.i = j
  BY <1>1, <1>2 DEF LoadType
<1>4. t \in {"no", "other"} /\ (t # "other" => table = 1 .. (i - 1))
  BY <1>1 DEF LoadOK, Kept, Loader
<1> QED
  BY <1>2, <1>3, <1>4 DEF LoadOK, Kept

\* The error of a chunk, or of what ran before it, is raised to the load.
LEMMA LoadRaises ==
  ASSUME FetchInv, RaisePrevious(Loader), LoadFails, fCur' = fCur, fLoad.status = "loading"
  PROVE  FetchInv'
<1>1. PICK l \in LoadType, t \in Tellings :
        l = fLoad /\ t = fLog.told[Loader] /\ LoadOK(l, fTable, fPq, t) /\ l.status = "loading"
  BY PeopleKnown DEF FetchInv, FetchTypes
<1>2. Loader \in 0 .. 3 /\ \A c \in Cursors : c # Loader
  BY PeopleKnown
<1>3. /\ fX' \in [1 .. 3 -> XType] /\ fPq' = 0 /\ fBlock' \in {"I", "T", "E"} /\ fTable' = fTable
      /\ fLog' \in [told : [1 .. 3 -> Tellings], others : Nat] /\ Runs'
      /\ \A c \in Cursors : CursorOK(fCur[c], fX'[c], fLog'.told[c])
      /\ fLog'.told[Loader] # "other" => fLog.told[Loader] # "other"
  BY <1>2, Raises
<1>4. PICK new : new = [l EXCEPT !.status = "raised"]
  OBVIOUS
<1>5. fLoad' = new
  BY <1>1, <1>4 DEF LoadFails
<1>6. new \in LoadType /\ LoadOK(new, fTable, 0, fLog'.told[Loader])
  BY <1>1, <1>3, <1>4, LoadGivesUp
<1> QED
  BY <1>3, <1>5, <1>6 DEF FetchInv, FetchTypes

LEMMA LoadChunkKeeps ==
  ASSUME FetchInv, LoadChunk
  PROVE  FetchInv'
<1>1. PICK l \in LoadType :
        l = fLoad /\ l.status = "loading" /\ l.i <= l.n /\ fCur' = fCur
  BY DEF FetchInv, FetchTypes, LoadChunk
<1>2. CASE RaisePrevious(Loader) /\ LoadFails
  BY <1>1, <1>2, LoadRaises
<1>3. CASE /\ Pushes(Loader, Xact(IF fLoad.i = fLoad.bad THEN <<Err, Rdy>> ELSE <<Cmp, Rdy>>))
           /\ fLoad' = [fLoad EXCEPT !.i = @ + 1]
  <2>1. PICK r \in Seq(Int) : r = IF fLoad.i = fLoad.bad THEN <<Err, Rdy>> ELSE <<Cmp, Rdy>>
    <3>1. <<-1, 0>> \in Seq(Int) /\ <<-2, 0>> \in Seq(Int)
      OBVIOUS
    <3> QED
      BY <3>1 DEF Err, Cmp, Rdy
  <2>2. PICK z \in XType : z = Xact(r) /\ z.done = FALSE
    <3>1. Xact(r) \in XType /\ Xact(r).done = FALSE
      BY DEF Xact, XType
    <3> QED
      BY <3>1
  <2>3. /\ ~PrevErr /\ fX' = [Completed EXCEPT ![Loader] = z] /\ fPq' = Loader
        /\ fTable' = Stored(Completed) /\ fBlock' = fBlock /\ fLog' = fLog
    BY <1>3, <2>1, <2>2 DEF Pushes
  <2>4. /\ Stored(Completed) \in SUBSET Nat
        /\ \A c \in Cursors : CursorOK(fCur[c], Completed[c], fLog.told[c])
        /\ \A q \in 0 .. 2 : LoadOK(fLoad, Stored(Completed), q, fLog.told[Loader])
    BY <2>3, Completes
  <2>5. PICK xs \in [1 .. 3 -> XType] :
          xs = Completed /\ \A o \in 1 .. 3 : xs[o].done = TRUE /\ xs[o].left = <<>>
    BY CompletedKnown DEF FetchInv
  <2>6. /\ Runs' /\ fX' \in [1 .. 3 -> XType] /\ fX'[Loader] = z
        /\ \A o \in 1 .. 3 : o # Loader => fX'[o] = xs[o]
    <3>1. fPq' = IF z.done THEN 0 ELSE Loader
      BY <2>2, <2>3
    <3> QED
      BY <2>2, <2>3, <2>5, <3>1, PeopleKnown, RunsAfter
  <2>7. \A c \in Cursors : CursorOK(fCur'[c], fX'[c], fLog'.told[c])
    BY <1>1, <2>3, <2>4, <2>5, <2>6, PeopleKnown
  <2>8. PICK new : new = [l EXCEPT !.i = @ + 1]
    OBVIOUS
  <2>9. new \in LoadType /\ LoadOK(new, Stored(Completed), Loader, fLog.told[Loader])
    <3>1. LoadOK(l, Stored(Completed), 0, fLog.told[Loader])
      BY <1>1, <2>4
    <3> QED
      BY <1>1, <2>8, <3>1, LoadGoesOn
  <2>10. fLoad' = new
    BY <1>1, <1>3, <2>8
  <2> QED
    BY <1>1, <2>3, <2>4, <2>6, <2>7, <2>9, <2>10, PeopleKnown DEF FetchInv, FetchTypes
<1> QED
  BY <1>2, <1>3 DEF LoadChunk

\* A row that cannot be packed: the error of what ran is dropped.
LEMMA LoadUnpackedKeeps ==
  ASSUME FetchInv, LoadUnpacked
  PROVE  FetchInv'
<1>1. PICK l \in LoadType, told \in [1 .. 3 -> Tellings], others \in Nat :
        /\ l = fLoad /\ fLog = [told |-> told, others |-> others] /\ l.status = "loading"
        /\ LoadOK(l, fTable, fPq, told[Loader])
  BY PeopleKnown DEF FetchInv, FetchTypes, LoadUnpacked
<1>2. /\ fX' = Completed /\ fPq' = 0 /\ fTable' = Stored(Completed) /\ fBlock' \in {"I", "T", "E"}
      /\ fCur' = fCur /\ fLoad' = [l EXCEPT !.status = "raised"]
      /\ fLog' = IF PrevErr /\ fPq # Loader THEN [fLog EXCEPT !.told[fPq] = "dropped"] ELSE fLog
  BY <1>1 DEF LoadUnpacked, LoadFails, Failing, FetchInv, FetchTypes
<1>3. Runs' /\ fX' \in [1 .. 3 -> XType]
  BY <1>2, AllDone
<1>4. PICK now \in [1 .. 3 -> Tellings] :
        /\ fLog' = [told |-> now, others |-> others] /\ now[Loader] = told[Loader]
        /\ \A c \in Cursors : /\ c # fPq => now[c] = told[c]
                              /\ now[c] \in {told[c], "dropped"}
                              /\ c = fPq /\ PrevErr => now[c] = "dropped"
  <2>1. CASE PrevErr /\ fPq # Loader
    <3>1. PICK p \in 1 .. 3 : p = fPq
      BY <2>1 DEF PrevErr, FetchInv, FetchTypes
    <3>2. PICK now : now = [told EXCEPT ![p] = "dropped"]
      OBVIOUS
    <3>3. now \in [1 .. 3 -> Tellings] /\ now[p] = "dropped" /\ \A o \in 1 .. 3 : o # p => now[o] = told[o]
      BY <3>2 DEF Tellings
    <3>4. fLog' = [told |-> now, others |-> others]
      BY <1>1, <1>2, <2>1, <3>1, <3>2
    <3> QED
      BY <2>1, <3>1, <3>3, <3>4, PeopleKnown
  <2>2. CASE ~(PrevErr /\ fPq # Loader)
    <3>1. fLog' = [told |-> told, others |-> others]
      BY <1>1, <1>2, <2>2
    <3> QED
      BY <2>2, <3>1, PeopleKnown
  <2> QED
    BY <2>1, <2>2
<1>5. ASSUME NEW c \in Cursors PROVE CursorOK(fCur'[c], fX'[c], fLog'.told[c])
  <2>1. /\ c # fPq => now[c] = fLog.told[c]
        /\ now[c] \in {fLog.told[c], "other", "dropped"}
        /\ c = fPq /\ PrevErr => now[c] # "no"
    BY <1>1, <1>4
  <2>2. CursorOK(fCur[c], Completed[c], now[c])
    BY <2>1, CompletedOK
  <2>3. fLog'.told[c] = now[c]
    BY <1>4
  <2>4. fX' = Completed /\ fCur' = fCur
    BY <1>2
  <2> QED
    BY <2>2, <2>3, <2>4
<1>6. PICK after : after = Stored(Completed)
  OBVIOUS
<1>7. after = fTable \/ (fPq = Loader /\ after = fTable \cup {l.i - 1})
  BY <1>1, <1>6 DEF Stored
<1>8. PICK new : new = [l EXCEPT !.status = "raised"]
  OBVIOUS
<1>9. new \in LoadType /\ LoadOK(new, after, 0, told[Loader])
  BY <1>1, <1>7, <1>8, LoadGivesUp
<1>10. after \in SUBSET Nat
  <2>1. fPq = Loader => l.i - 1 \in Nat
    BY <1>1 DEF LoadType, LoadOK
  <2> QED
    BY <1>7, <2>1 DEF FetchInv, FetchTypes
<1>11. LoadOK(fLoad', fTable', fPq', fLog'.told[Loader])
  <2>1. fLog'.told[Loader] = told[Loader]
    BY <1>4
  <2>2. fLoad' = new /\ fTable' = after /\ fPq' = 0
    BY <1>2, <1>6, <1>8
  <2> QED
    BY <1>9, <2>1, <2>2
<1> QED
  BY <1>2, <1>3, <1>4, <1>5, <1>6, <1>8, <1>9, <1>10, <1>11 DEF FetchInv, FetchTypes

LEMMA LoadCloses ==
  ASSUME NEW l \in LoadType, NEW table, NEW t, LoadOK(l, table, 0, t), l.status = "loading",
         l.i > l.n, NEW new, new = [l EXCEPT !.status = "ended"]
  PROVE  new \in LoadType /\ LoadOK(new, table, 0, t)
<1>1. PICK i \in Nat, n \in Nat : i = l.i /\ n = l.n /\ i \in 1 .. (n + 1) /\ i > n
  BY DEF LoadType, LoadOK
<1>2. i - 1 = n
  BY <1>1
<1>3. new \in LoadType /\ new.status = "ended" /\ new.n = n /\ new.i = i
  BY <1>1 DEF LoadType
<1>4. t # "other" => table = 1 .. n
  <2>1. t # "other" => table = 1 .. (i - 1)
    BY <1>1 DEF LoadOK, Kept, Loader
  <2> QED
    BY <1>2, <2>1
<1> QED
  BY <1>1, <1>3, <1>4 DEF LoadOK, Kept, Loader

LEMMA LoadEndsKeeps ==
  ASSUME FetchInv, LoadEnds
  PROVE  FetchInv'
<1>1. PICK l \in LoadType :
        l = fLoad /\ l.status = "loading" /\ l.i > l.n /\ fCur' = fCur
  BY DEF FetchInv, FetchTypes, LoadEnds
<1>2. CASE RaisePrevious(Loader) /\ LoadFails
  BY <1>1, <1>2, LoadRaises
<1>3. CASE /\ ~LastErr /\ fX' = Completed /\ fPq' = 0 /\ fTable' = Stored(Completed)
           /\ fLoad' = [fLoad EXCEPT !.status = "ended"]
           /\ UNCHANGED <<fBlock, fLog>>
  <2>1. /\ Stored(Completed) \in SUBSET Nat
        /\ \A c \in Cursors : CursorOK(fCur[c], Completed[c], fLog.told[c])
        /\ \A q \in 0 .. 2 : LoadOK(fLoad, Stored(Completed), q, fLog.told[Loader])
    BY <1>3, Completes DEF LastErr
  <2>2. Runs' /\ fX' \in [1 .. 3 -> XType]
    BY <1>3, AllDone
  <2>3. PICK new : new = [l EXCEPT !.status = "ended"]
    OBVIOUS
  <2>4. new \in LoadType /\ LoadOK(new, Stored(Completed), 0, fLog.told[Loader])
    <3>1. LoadOK(l, Stored(Completed), 0, fLog.told[Loader])
      BY <1>1, <2>1
    <3> QED
      BY <1>1, <2>3, <3>1, LoadCloses
  <2>5. fLoad' = new
    BY <1>1, <1>3, <2>3
  <2> QED
    BY <1>1, <1>3, <2>1, <2>2, <2>4, <2>5 DEF FetchInv, FetchTypes
<1> QED
  BY <1>2, <1>3 DEF LoadEnds

-----------------------------------------------------------------------------
LEMMA FetchStarts ==
  ASSUME FetchInit
  PROVE  FetchInv
<1>1. <<>> \in Seq(Int) /\ <<>> \in Seq(Seq(Int)) /\ Len(<<>>) = 0
  OBVIOUS
<1>2. NoX \in XType /\ NoX.done = TRUE /\ NoX.left = <<>>
  BY <1>1 DEF NoX, Xact, XType
<1>3. /\ fX = [o \in 1 .. 3 |-> NoX] /\ fPq = 0 /\ fBlock = "I" /\ fTable = {}
      /\ fLoad = [status |-> "new", n |-> 0, i |-> 1, bad |-> 0, unpacked |-> 0]
      /\ fLog = [told |-> [o \in 1 .. 3 |-> "no"], others |-> 0]
  BY DEF FetchInit
<1>4. PICK cur : cur = [ kind |-> "none", status |-> "new", query |-> [n |-> 0, e |-> 0],
                         pos |-> 0, gone |-> FALSE, out |-> <<>> ]
  OBVIOUS
<1>5. cur \in CurType /\ fCur = [c \in Cursors |-> cur]
  <2>1. [n |-> 0, e |-> 0] \in [n : Nat, e : Nat]
    OBVIOUS
  <2> QED
    BY <1>1, <1>4, <2>1 DEF CurType, FetchInit
<1>6. InOrder(cur)
  <2>1. UpTo(1, 0) \in Seq(Int) /\ Len(UpTo(1, 0)) = 0
    BY FirstRows
  <2>2. UpTo(1, 0) = <<>>
    BY <2>1, NoElements
  <2> QED
    BY <1>1, <1>4, <2>2 DEF InOrder
<1>7. CursorOK(cur, NoX, "no")
  BY <1>1, <1>2, <1>4, <1>6 DEF CursorOK
<1>8. \A c \in Cursors : CursorOK(fCur[c], fX[c], fLog.told[c])
  BY <1>3, <1>5, <1>7, PeopleKnown
<1>9. LoadOK(fLoad, fTable, fPq, fLog.told[Loader])
  <2>1. 1 .. 0 = {} /\ 1 \in 1 .. (0 + 1)
    OBVIOUS
  <2> QED
    BY <1>3, <2>1, PeopleKnown DEF LoadOK, Kept, Loader
<1>10. Runs
  BY <1>2, <1>3 DEF Runs
<1>11. FetchTypes
  BY <1>2, <1>3, <1>5 DEF FetchTypes, LoadType, Tellings
<1> QED
  BY <1>8, <1>9, <1>10, <1>11 DEF FetchInv

LEMMA FetchKeeps ==
  ASSUME FetchInv, [FetchNext]_fetchVars
  PROVE  FetchInv'
<1>1. CASE UNCHANGED fetchVars
  BY <1>1 DEF fetchVars, FetchInv, FetchTypes, Runs
<1>2. CASE FetchNext
  BY <1>2, CursorOpenKeeps, StepAllKeeps, NextAllKeeps, NextStreamKeeps, OtherKeeps, StartLoadKeeps,
     LoadChunkKeeps, LoadUnpackedKeeps, LoadEndsKeeps DEF FetchNext
<1> QED
  BY <1>1, <1>2

LEMMA FirstNumbers ==
  ASSUME NEW k \in Nat
  PROVE  1 .. k = 1 .. Cardinality(1 .. k)
<1>1. Cardinality(1 .. k) = IF 1 > k THEN 0 ELSE k - 1 + 1
  BY FS_Interval
<1>2. Cardinality(1 .. k) = k
  BY <1>1
<1> QED
  BY <1>2

LEMMA FetchDelivers ==
  ASSUME FetchInv
  PROVE  CursorsDeliver
<1>1. ASSUME NEW c \in Cursors
      PROVE  LET cur == fCur[c]
             IN /\ cur.out = UpTo(1, Len(cur.out)) /\ Len(cur.out) <= cur.query.n
                /\ cur.status = "ended" => Len(cur.out) = cur.query.n \/ fLog.told[c] \in {"other", "dropped"}
  BY DEF FetchInv, CursorOK, InOrder
<1>2. PICK l \in LoadType, t \in Tellings :
        l = fLoad /\ t = fLog.told[Loader] /\ LoadOK(l, fTable, fPq, t)
  BY PeopleKnown DEF FetchInv, FetchTypes
<1>3. l.status = "ended" /\ t # "other" => fTable = 1 .. l.n
  BY <1>2 DEF LoadOK, Kept
<1>4. ASSUME t # "other" PROVE \E k \in Nat : fTable = 1 .. k
  <2>1. l.i \in Nat /\ l.n \in Nat /\ l.i >= 1 /\ (fPq = Loader => l.i >= 2)
    BY <1>2 DEF LoadOK, LoadType
  <2>2. l.i - 1 \in Nat /\ (fPq = Loader => l.i - 2 \in Nat)
    BY <2>1
  <2>3. l.status \in {"new", "loading", "raised", "ended"} /\ Kept(l, fTable, fPq)
    BY <1>2, <1>4 DEF LoadOK, LoadType
  <2> QED
    BY <2>1, <2>2, <2>3 DEF Kept
<1>5. t # "other" => fTable = 1 .. Cardinality(fTable)
  BY <1>4, FirstNumbers
<1> QED
  BY <1>1, <1>2, <1>3, <1>5 DEF CursorsDeliver

\* Whatever runs on the connection between two calls, a cursor gives the rows of its
\* query in order and once, and the load stores a prefix of its chunks; one that ends has
\* given, or stored, all of them (FetchAll, MultiXactStream and _load_tuple_chunks).
THEOREM RowsTheorem == FetchSpec => []CursorsDeliver
<1>1. FetchInit => FetchInv
  BY FetchStarts
<1>2. FetchInv /\ [FetchNext]_fetchVars => FetchInv'
  BY FetchKeeps
<1>3. FetchInv => CursorsDeliver
  BY FetchDelivers
<1> QED
  BY <1>1, <1>2, <1>3, PTL DEF FetchSpec

-----------------------------------------------------------------------------
(* A COPY stream: the layout of its source, its pieces and its receivers.          *)

\* The least number of a set, as Min chooses it.
LEMMA MinKnown ==
  ASSUME NEW S \in SUBSET Nat, S # {}
  PROVE  Min(S) \in S /\ \A y \in S : Min(S) <= y
<1>1. \E x \in S : \A y \in S : x <= y
  BY Earliest
<1> QED
  BY <1>1 DEF Min

LEMMA MinIs ==
  ASSUME NEW S \in SUBSET Nat, NEW m \in S, \A y \in S : m <= y
  PROVE  Min(S) = m
<1>1. Min(S) \in S /\ \A y \in S : Min(S) <= y
  BY MinKnown
<1>2. Min(S) <= m /\ m <= Min(S)
  BY <1>1
<1>3. PICK k \in Nat, j \in Nat : k = Min(S) /\ j = m
  BY <1>1
<1> QED
  BY <1>2, <1>3

-----------------------------------------------------------------------------
(* The layout of the source: where its messages start and end.             *)
Starts(f) ==
  f = [i \in 1 .. (Len(Stream) + 1) |-> IF i = 1 THEN 0 ELSE f[i - 1] + 5 + Stream[i - 1].body]

LEMMA BodiesKnown ==
  ASSUME NEW i \in 1 .. Len(Stream)
  PROVE  Stream[i].body \in Nat
<1>1. PICK T : T = [data : BOOLEAN, body : Nat]
  OBVIOUS
<1>2. Stream \in Seq(T)
  BY <1>1, CopyBounds
<1>3. Stream[i] \in T
  BY <1>2
<1>4. PICK m \in [data : BOOLEAN, body : Nat] : m = Stream[i]
  BY <1>1, <1>3
<1>5. PICK k \in Nat : k = m.body
  BY <1>4
<1> QED
  BY <1>4, <1>5

LEMMA StartsExist == \E f : Starts(f)
<1> DEFINE P(n, f) == f = [i \in 1 .. n |-> IF i = 1 THEN 0 ELSE f[i - 1] + 5 + Stream[i - 1].body]
<1> DEFINE S == {n \in Nat : \E f : P(n, f)}
<1>1. 0 \in S
  <2>1. P(0, <<>>)
    OBVIOUS
  <2> QED BY <2>1
<1>2. ASSUME NEW n \in S PROVE n + 1 \in S
  <2>1. PICK f : P(n, f)
    OBVIOUS
  <2>2. PICK last : last = IF n + 1 = 1 THEN 0 ELSE f[n] + 5 + Stream[n].body
    OBVIOUS
  <2>3. PICK g : g = [i \in 1 .. (n + 1) |-> IF i = n + 1 THEN last ELSE f[i]]
    OBVIOUS
  <2>4. ASSUME NEW i \in 1 .. (n + 1) PROVE g[i] = IF i = 1 THEN 0 ELSE g[i - 1] + 5 + Stream[i - 1].body
    <3>1. CASE i = n + 1
      BY <2>2, <2>3, <3>1
    <3>2. CASE i # n + 1
      <4>1. i \in 1 .. n
        BY <3>2
      <4>2. g[i] = f[i] /\ (i # 1 => g[i - 1] = f[i - 1])
        BY <2>3, <4>1
      <4>3. f[i] = IF i = 1 THEN 0 ELSE f[i - 1] + 5 + Stream[i - 1].body
        BY <2>1, <4>1
      <4> QED BY <4>2, <4>3
    <3> QED BY <3>1, <3>2
  <2>5. g = [i \in 1 .. (n + 1) |-> g[i]]
    BY <2>3
  <2>6. P(n + 1, g)
    BY <2>4, <2>5
  <2>7. n + 1 \in Nat /\ \E h : P(n + 1, h)
    <3> HIDE DEF P
    <3> QED BY <2>6
  <2> QED BY <2>7
<1>3. S = Nat
  <2> HIDE DEF S
  <2>1. S \in SUBSET Nat BY DEF S
  <2> QED BY <1>1, <1>2, <2>1, Inductive
<1>4. Len(Stream) + 1 \in S
  <2>1. Len(Stream) + 1 \in Nat BY CopyBounds
  <2> HIDE DEF S
  <2> QED BY <1>3, <2>1
<1> QED
  BY <1>4 DEF Starts

LEMMA StartKnown ==
  /\ StartOf = [i \in 1 .. (Len(Stream) + 1) |-> StartOf[i]]
  /\ \A i \in 1 .. (Len(Stream) + 1) : StartOf[i] = IF i = 1 THEN 0 ELSE StartOf[i - 1] + 5 + Stream[i - 1].body
<1>1. Starts(StartOf)
  BY StartsExist DEF StartOf, Starts
<1>2. PICK n \in Nat : n = Len(Stream)
  BY CopyBounds
<1> QED
  BY <1>1, <1>2 DEF Starts

LEMMA StartGrows ==
  /\ \A i \in 1 .. (Len(Stream) + 1) : StartOf[i] \in Nat
  /\ \A i \in 1 .. Len(Stream) : StartOf[i] + 5 <= StartOf[i + 1]
<1>1. PICK n \in Nat : n = Len(Stream)
  BY CopyBounds
<1> DEFINE S == {k \in Nat : k + 1 <= n + 1 => StartOf[k + 1] \in Nat}
<1>2. 0 \in S
  <2>1. 1 \in 1 .. (n + 1) /\ 0 + 1 = 1
    OBVIOUS
  <2>2. StartOf[1] = 0
    BY <1>1, <2>1, StartKnown
  <2> QED
    BY <2>1, <2>2
<1>3. ASSUME NEW k \in S PROVE k + 1 \in S
  <2>1. CASE k + 1 > n
    BY <2>1
  <2>2. CASE k + 1 <= n
    <3>1. StartOf[k + 1] \in Nat /\ k + 2 \in 1 .. (n + 1) /\ k + 1 \in 1 .. n /\ (k + 2) - 1 = k + 1
      BY <2>2
    <3>2. StartOf[k + 2] = StartOf[(k + 2) - 1] + 5 + Stream[(k + 2) - 1].body
      <4>1. k + 2 \in 1 .. (Len(Stream) + 1) /\ k + 2 # 1
        BY <1>1, <3>1
      <4> QED
        BY <4>1, StartKnown
    <3>3. Stream[k + 1].body \in Nat
      BY <1>1, <3>1, BodiesKnown
    <3> QED
      BY <3>1, <3>2, <3>3
  <2> QED
    BY <2>1, <2>2
<1>4. S = Nat
  <2> HIDE DEF S
  <2>1. S \in SUBSET Nat BY DEF S
  <2> QED BY <1>2, <1>3, <2>1, Inductive
<1>5. ASSUME NEW i \in 1 .. (n + 1) PROVE StartOf[i] \in Nat
  <2>1. i - 1 \in Nat /\ (i - 1) + 1 = i
    OBVIOUS
  <2>2. i - 1 \in S
    <3> HIDE DEF S
    <3> QED
      BY <1>4, <2>1
  <2>3. (i - 1) + 1 <= n + 1 => StartOf[(i - 1) + 1] \in Nat
    BY <2>2
  <2> QED
    BY <2>1, <2>3
<1>6. ASSUME NEW i \in 1 .. n PROVE StartOf[i] + 5 <= StartOf[i + 1]
  <2>1. StartOf[i] \in Nat /\ i + 1 \in 1 .. (n + 1) /\ (i + 1) - 1 = i /\ i + 1 # 1
    BY <1>5
  <2>2. StartOf[i + 1] = StartOf[i] + 5 + Stream[i].body
    BY <1>1, <2>1, StartKnown
  <2>3. Stream[i].body \in Nat
    BY <1>1, BodiesKnown
  <2> QED
    BY <2>1, <2>2, <2>3
<1> QED
  BY <1>1, <1>5, <1>6

LEMMA StartOrder ==
  ASSUME NEW i \in 1 .. (Len(Stream) + 1), NEW j \in 1 .. (Len(Stream) + 1), i < j
  PROVE  i \in 1 .. Len(Stream) /\ i + 1 \in 1 .. (Len(Stream) + 1) /\ StartOf[i + 1] <= StartOf[j]
<1>1. PICK n \in Nat : n = Len(Stream)
  BY CopyBounds
<1> DEFINE S == {k \in Nat : i + 1 + k <= n + 1 => StartOf[i + 1] <= StartOf[i + 1 + k]}
<1>2. 0 \in S
  <2>1. i + 1 \in 1 .. (n + 1) /\ i + 1 + 0 = i + 1
    BY <1>1
  <2>2. StartOf[i + 1] \in Nat
    BY <1>1, <2>1, StartGrows
  <2> QED
    BY <2>1, <2>2
<1>3. ASSUME NEW k \in S PROVE k + 1 \in S
  <2>1. CASE i + 1 + k > n
    BY <2>1, <1>1
  <2>2. CASE i + 1 + k <= n
    <3>1. i + 1 + k \in 1 .. n /\ i + 1 + (k + 1) = (i + 1 + k) + 1 /\ i + 1 \in 1 .. (n + 1)
      BY <2>2, <1>1
    <3>2. PICK h \in Nat : h = i + 1 + k
      BY <3>1
    <3>3. StartOf[h] + 5 <= StartOf[h + 1] /\ StartOf[i + 1] \in Nat /\ StartOf[h] \in Nat /\ StartOf[h + 1] \in Nat
      BY <1>1, <3>1, <3>2, StartGrows
    <3>4. StartOf[i + 1] <= StartOf[h]
      BY <2>2, <3>2
    <3>5. PICK x \in Nat, y \in Nat, z \in Nat : x = StartOf[i + 1] /\ y = StartOf[h] /\ z = StartOf[h + 1]
      BY <3>3
    <3>6. x <= z
      BY <3>3, <3>4, <3>5
    <3> QED
      BY <3>1, <3>2, <3>5, <3>6
  <2> QED
    BY <2>1, <2>2, <1>1
<1>4. S = Nat
  <2> HIDE DEF S
  <2>1. S \in SUBSET Nat BY DEF S
  <2> QED BY <1>2, <1>3, <2>1, Inductive
<1>5. j - i - 1 \in S
  <2>1. j - i - 1 \in Nat
    BY <1>1
  <2> HIDE DEF S
  <2> QED
    BY <1>4, <2>1
<1>6. i + 1 + (j - i - 1) = j
  BY <1>1
<1> QED
  BY <1>1, <1>5, <1>6

LEMMA BoundariesKnown ==
  /\ Boundaries \in SUBSET Nat /\ 0 \in Boundaries /\ Total \in Boundaries
  /\ \A q \in Boundaries : q <= Total
  /\ DataStarts \subseteq Boundaries
<1>1. PICK n \in Nat : n = Len(Stream)
  BY CopyBounds
<1>2. 1 \in 1 .. (n + 1) /\ n + 1 \in 1 .. (n + 1)
  BY <1>1
<1>3. StartOf[1] = 0
  BY <1>1, <1>2, StartKnown
<1>4. Boundaries \in SUBSET Nat /\ 0 \in Boundaries /\ Total \in Boundaries
  BY <1>1, <1>2, <1>3, StartGrows DEF Boundaries, Total
<1>5. ASSUME NEW i \in 1 .. (n + 1) PROVE StartOf[i] <= Total
  <2>1. CASE i = n + 1
    <3>1. PICK k \in Nat : k = StartOf[n + 1]
      BY <1>1, <1>2, StartGrows
    <3>2. StartOf[i] = k /\ Total = k
      BY <1>1, <2>1, <3>1 DEF Total
    <3> QED
      BY <3>2
  <2>2. CASE i # n + 1
    <3>1. i \in 1 .. n /\ i + 1 \in 1 .. (n + 1) /\ i < n + 1
      BY <2>2, <1>1
    <3>2. StartOf[i] + 5 <= StartOf[i + 1] /\ StartOf[i + 1] <= StartOf[n + 1]
      BY <1>1, <1>2, <3>1, StartGrows, StartOrder
    <3>3. PICK x \in Nat, y \in Nat, z \in Nat : x = StartOf[i] /\ y = StartOf[i + 1] /\ z = StartOf[n + 1]
      BY <1>1, <1>2, <3>1, StartGrows
    <3>4. x <= z /\ z = Total
      BY <1>1, <3>2, <3>3 DEF Total
    <3> QED
      BY <3>3, <3>4
  <2> QED
    BY <2>1, <2>2
<1>6. \A q \in Boundaries : q <= Total
  BY <1>1, <1>5 DEF Boundaries
<1>7. DataStarts \subseteq Boundaries
  <2>1. Messages = 1 .. n
    BY <1>1, CopyBounds DEF Messages
  <2>2. 1 .. n \subseteq 1 .. (n + 1)
    BY <1>1
  <2> QED
    BY <1>1, <2>1, <2>2, Zenon DEF Boundaries, DataStarts
<1> QED
  BY <1>4, <1>6, <1>7

\* A data message ends at the next boundary.
LEMMA EndsKnown ==
  ASSUME NEW s \in DataStarts
  PROVE  /\ s \in Nat /\ EndAt(s) \in Nat /\ EndAt(s) \in Boundaries
         /\ s + 5 <= EndAt(s) /\ EndAt(s) <= Total /\ Total \in Nat
         /\ \A q \in Boundaries : q <= s \/ EndAt(s) <= q
<1>1. PICK n \in Nat : n = Len(Stream)
  BY CopyBounds
<1>2. PICK i \in 1 .. n : s = StartOf[i]
  BY <1>1, CopyBounds DEF DataStarts, Messages
<1>3. i \in 1 .. (n + 1) /\ i + 1 \in 1 .. (n + 1) /\ i \in Int
  BY <1>1
<1>4. PICK x \in Nat, y \in Nat : x = s /\ y = StartOf[i + 1]
  BY <1>1, <1>2, <1>3, StartGrows
<1>5. x + 5 <= y
  BY <1>1, <1>2, <1>3, <1>4, StartGrows
<1>6. ASSUME NEW j \in 1 .. (n + 1) PROVE StartOf[j] <= x \/ y <= StartOf[j]
  <2>1. CASE i < j
    <3>1. StartOf[i + 1] <= StartOf[j]
      BY <1>1, <1>3, <2>1, StartOrder
    <3> QED
      BY <3>1, <1>4
  <2>2. CASE j < i
    <3>1. j \in 1 .. n /\ j + 1 \in 1 .. (n + 1) /\ StartOf[j + 1] <= StartOf[i]
      BY <1>1, <1>3, <2>2, StartOrder
    <3>2. StartOf[j] + 5 <= StartOf[j + 1] /\ StartOf[j] \in Nat /\ StartOf[j + 1] \in Nat
      BY <1>1, <3>1, StartGrows
    <3>3. PICK u \in Nat, v \in Nat : u = StartOf[j] /\ v = StartOf[j + 1]
      BY <3>2
    <3>4. u <= x
      BY <1>2, <1>4, <3>1, <3>2, <3>3
    <3> QED
      BY <3>3, <3>4
  <2>3. CASE j = i
    BY <1>2, <1>4, <2>3
  <2> QED
    BY <1>3, <2>1, <2>2, <2>3
<1>7. \A q \in Boundaries : q <= x \/ y <= q
  BY <1>1, <1>6 DEF Boundaries
<1>8. y \in Boundaries /\ Boundaries \in SUBSET Nat /\ y <= Total /\ Total \in Nat
  BY <1>1, <1>3, <1>4, BoundariesKnown DEF Boundaries
<1>9. EndAt(s) = y
  <2> DEFINE S == {q \in Boundaries : q > s}
  <2>1. S \in SUBSET Nat /\ y \in S
    <3>1. y > x
      BY <1>5
    <3>2. y > s
      BY <1>4, <3>1
    <3> QED
      BY <1>8, <3>2
  <2>2. \A q \in S : y <= q
    BY <1>4, <1>7, <1>8
  <2>3. Min(S) = y
    <3> HIDE DEF S
    <3> QED
      BY <2>1, <2>2, MinIs
  <2> QED
    BY <2>3 DEF EndAt
<1> QED
  BY <1>4, <1>5, <1>7, <1>8, <1>9

-----------------------------------------------------------------------------
(* The bytes of a view.                                                    *)
LEMMA BytesKnown ==
  ASSUME NEW a \in Nat, NEW n \in Nat
  PROVE  /\ Bytes(a, a + n) \in Seq(Nat) /\ Len(Bytes(a, a + n)) = n
         /\ \A i \in 1 .. n : Bytes(a, a + n)[i] = a + i - 1
<1>1. Bytes(a, a + n) = [i \in 1 .. n |-> a + i - 1]
  <2>1. (a + n) - a = n
    OBVIOUS
  <2> QED
    BY <2>1 DEF Bytes
<1>2. PICK s : s = [i \in 1 .. n |-> a + i - 1]
  OBVIOUS
<1>3. s \in Seq(Nat) /\ Len(s) = n /\ \A i \in 1 .. n : s[i] = a + i - 1
  BY <1>2
<1> QED
  BY <1>1, <1>2, <1>3

LEMMA BytesJoin ==
  ASSUME NEW a \in Nat, NEW n \in Nat, NEW m \in Nat
  PROVE  Bytes(a, a + n) \o Bytes(a + n, a + n + m) = Bytes(a, a + n + m)
<1>1. PICK s \in Seq(Nat) : s = Bytes(a, a + n) /\ Len(s) = n /\ \A i \in 1 .. n : s[i] = a + i - 1
  BY BytesKnown
<1>2. PICK b \in Nat, k \in Nat : b = a + n /\ k = n + m /\ a + k = b + m
  OBVIOUS
<1>3. PICK t \in Seq(Nat) : t = Bytes(b, b + m) /\ Len(t) = m /\ \A i \in 1 .. m : t[i] = b + i - 1
  BY BytesKnown
<1>4. PICK u \in Seq(Nat) : u = Bytes(a, a + k) /\ Len(u) = k /\ \A i \in 1 .. k : u[i] = a + i - 1
  BY BytesKnown
<1>5. PICK v \in Seq(Nat) : v = s \o t /\ Len(v) = k
  <2>1. s \o t \in Seq(Nat) /\ Len(s \o t) = Len(s) + Len(t)
    OBVIOUS
  <2> QED
    BY <2>1, <1>1, <1>2, <1>3
<1>6. ASSUME NEW i \in 1 .. k PROVE v[i] = u[i]
  <2>1. CASE i <= n
    BY <1>1, <1>4, <1>5, <2>1
  <2>2. CASE i > n
    <3>1. i - n \in 1 .. m /\ v[i] = t[i - n]
      BY <1>1, <1>2, <1>3, <1>5, <2>2
    <3>2. t[i - n] = b + (i - n) - 1
      BY <1>3, <3>1
    <3> QED
      BY <1>2, <1>4, <3>1, <3>2
  <2>3. i <= n \/ i > n
    OBVIOUS
  <2> QED
    BY <2>1, <2>2, <2>3, Zenon
<1>7. v = u
  BY <1>4, <1>5, <1>6, SameElements
<1>8. a + n + m = a + k /\ a + n + m = b + m /\ a + n = b
  BY <1>2
<1> QED
  BY <1>1, <1>3, <1>4, <1>5, <1>7, <1>8

LEMMA BytesSpan ==
  ASSUME NEW a \in Nat, NEW b \in Nat, a <= b
  PROVE  Bytes(a, b) \in Seq(Nat) /\ Len(Bytes(a, b)) = b - a
<1>1. PICK n \in Nat : n = b - a /\ a + n = b
  OBVIOUS
<1>2. Bytes(a, a + n) \in Seq(Nat) /\ Len(Bytes(a, a + n)) = n
  BY BytesKnown
<1> QED
  BY <1>1, <1>2

LEMMA BytesMeet ==
  ASSUME NEW a \in Nat, NEW b \in Nat, NEW c \in Nat, a <= b, b <= c
  PROVE  Bytes(a, b) \o Bytes(b, c) = Bytes(a, c)
<1>1. PICK n \in Nat, m \in Nat : a + n = b /\ a + n + m = c
  <2>1. b - a \in Nat /\ c - b \in Nat /\ a + (b - a) = b /\ a + (b - a) + (c - b) = c
    OBVIOUS
  <2> QED
    BY <2>1
<1>2. Bytes(a, a + n) \o Bytes(a + n, a + n + m) = Bytes(a, a + n + m)
  BY BytesJoin
<1> QED
  BY <1>1, <1>2

LEMMA LengthKnown ==
  ASSUME NEW s \in DataStarts
  PROVE  GetLen(Bytes(s + 1, s + 5)) = EndAt(s) - s - 1
<1> DEFINE at == {q \in DataStarts : Bytes(s + 1, s + 5) = Bytes(q + 1, q + 5)}
<1>1. ASSUME NEW q \in DataStarts, Bytes(s + 1, s + 5) = Bytes(q + 1, q + 5)
      PROVE  q = s
  <2>1. PICK x \in Nat, y \in Nat : x = s /\ y = q
    BY EndsKnown
  <2>2. x + 1 \in Nat /\ y + 1 \in Nat /\ (x + 1) + 4 = x + 5 /\ (y + 1) + 4 = y + 5 /\ 1 \in 1 .. 4 /\ 4 \in Nat
    OBVIOUS
  <2>3. Bytes(x + 1, x + 5)[1] = (x + 1) + 1 - 1 /\ Bytes(y + 1, y + 5)[1] = (y + 1) + 1 - 1
    <3>1. \A i \in 1 .. 4 : Bytes(x + 1, (x + 1) + 4)[i] = (x + 1) + i - 1
      BY <2>2, BytesKnown
    <3>2. \A i \in 1 .. 4 : Bytes(y + 1, (y + 1) + 4)[i] = (y + 1) + i - 1
      BY <2>2, BytesKnown
    <3> QED
      BY <2>2, <3>1, <3>2
  <2>4. x = y
    BY <1>1, <2>1, <2>3
  <2> QED
    BY <2>1, <2>4
<1>2. at = {s}
  BY <1>1
<1>3. (CHOOSE q \in at : TRUE) = s
  BY <1>2
<1>4. at # {}
  BY <1>2
<1> QED
  BY <1>3, <1>4 DEF GetLen

-----------------------------------------------------------------------------
(* Data that was passed: its bytes, and its messages.                      *)
DataPlaces(a, b) == {p \in a .. (b - 1) : \E s \in DataStarts : s <= p /\ p < EndAt(s)}
Passed(p) == Cardinality({s \in DataStarts : EndAt(s) <= p})

LEMMA DataFinite ==
  ASSUME NEW a \in Nat, NEW b \in Nat
  PROVE  IsFiniteSet(DataPlaces(a, b)) /\ DataBytes(a, b) \in Nat /\ DataBytes(a, b) = Cardinality(DataPlaces(a, b))
<1>1. IsFiniteSet(a .. (b - 1))
  BY FS_Interval
<1>2. DataPlaces(a, b) \in SUBSET (a .. (b - 1))
  BY DEF DataPlaces
<1>3. IsFiniteSet(DataPlaces(a, b))
  BY <1>1, <1>2, FS_Subset
<1>4. Cardinality(DataPlaces(a, b)) \in Nat
  BY <1>3, FS_CardinalityType
<1>5. DataBytes(a, b) = Cardinality(DataPlaces(a, b))
  BY DEF DataBytes, DataPlaces
<1> QED
  BY <1>3, <1>4, <1>5

LEMMA DataAdds ==
  ASSUME NEW a \in Nat, NEW b \in Nat, NEW c \in Nat, a <= b, b <= c
  PROVE  DataBytes(a, c) = DataBytes(a, b) + DataBytes(b, c)
<1>1. DataPlaces(a, c) = DataPlaces(a, b) \cup DataPlaces(b, c)
  BY DEF DataPlaces
<1>2. DataPlaces(a, b) \cap DataPlaces(b, c) = {}
  BY DEF DataPlaces
<1>3. IsFiniteSet(DataPlaces(a, b)) /\ IsFiniteSet(DataPlaces(b, c))
  BY DataFinite
<1>4. Cardinality(DataPlaces(a, b) \cup DataPlaces(b, c))
        = Cardinality(DataPlaces(a, b)) + Cardinality(DataPlaces(b, c))
            - Cardinality(DataPlaces(a, b) \cap DataPlaces(b, c))
  BY <1>3, FS_Union
<1>5. Cardinality({}) = 0
  BY FS_EmptySet
<1>6. PICK x \in Nat, y \in Nat : x = DataBytes(a, b) /\ y = DataBytes(b, c)
  BY DataFinite
<1>7. Cardinality(DataPlaces(a, b)) = x /\ Cardinality(DataPlaces(b, c)) = y
      /\ DataBytes(a, c) = Cardinality(DataPlaces(a, c))
  BY <1>6, DataFinite
<1>8. Cardinality(DataPlaces(a, b) \cup DataPlaces(b, c)) = x + y - 0
  BY <1>2, <1>4, <1>5, <1>7
<1>9. DataBytes(a, c) = x + y
  BY <1>1, <1>7, <1>8
<1> QED
  BY <1>6, <1>9

LEMMA DataInside ==
  ASSUME NEW s \in DataStarts, NEW a \in Nat, NEW b \in Nat, s <= a, a <= b, b <= EndAt(s)
  PROVE  DataBytes(a, b) = b - a
<1>1. PICK x \in Nat, y \in Nat : x = s /\ y = EndAt(s)
  BY EndsKnown
<1>2. \A p \in a .. (b - 1) : x <= p /\ p < y
  BY <1>1
<1>3. DataPlaces(a, b) = a .. (b - 1)
  BY <1>1, <1>2 DEF DataPlaces
<1>4. Cardinality(a .. (b - 1)) = b - a
  <2>1. b - 1 \in Int /\ Cardinality(a .. (b - 1)) = IF a > b - 1 THEN 0 ELSE (b - 1) - a + 1
    BY FS_Interval
  <2> QED
    BY <2>1
<1> QED
  BY <1>3, <1>4, DataFinite

\* No data stands between a boundary and the next data message.
LEMMA DataBetween ==
  ASSUME NEW a \in Boundaries, NEW b \in Nat, a <= b, \A s \in DataStarts : a <= s => b <= s
  PROVE  DataBytes(a, b) = 0
<1>1. a \in Nat
  BY BoundariesKnown
<1>2. ASSUME NEW p \in a .. (b - 1), NEW s \in DataStarts, s <= p, p < EndAt(s) PROVE FALSE
  <2>1. PICK x \in Nat, y \in Nat, h \in Nat : x = s /\ y = EndAt(s) /\ h = a
    BY <1>1, EndsKnown
  <2>2. h <= x => b <= x
    BY <2>1
  <2>3. h <= x \/ y <= h
    BY <2>1, EndsKnown
  <2>4. p \in h .. (b - 1) /\ x <= p /\ p < y
    BY <1>2, <2>1
  <2> QED
    BY <2>2, <2>3, <2>4
<1>3. DataPlaces(a, b) = {}
  BY <1>2 DEF DataPlaces
<1> QED
  BY <1>1, <1>3, DataFinite, FS_EmptySet

LEMMA PassedKnown ==
  ASSUME NEW p \in Nat
  PROVE  IsFiniteSet({s \in DataStarts : EndAt(s) <= p}) /\ Passed(p) \in Nat
<1>1. DataStarts \in SUBSET Nat /\ \A s \in DataStarts : s <= Total
  BY BoundariesKnown
<1>2. Total \in Nat
  BY BoundariesKnown
<1>3. IsFiniteSet(DataStarts)
  BY <1>1, <1>2, FS_BoundedSetOfNaturals
<1>4. {s \in DataStarts : EndAt(s) <= p} \in SUBSET DataStarts
  OBVIOUS
<1>5. IsFiniteSet({s \in DataStarts : EndAt(s) <= p})
  BY <1>3, <1>4, FS_Subset
<1>6. Cardinality({s \in DataStarts : EndAt(s) <= p}) \in Nat
  BY <1>5, FS_CardinalityType
<1> QED
  BY <1>5, <1>6 DEF Passed

\* Inside a message none ends.
LEMMA PassedInside ==
  ASSUME NEW s \in DataStarts, NEW p \in Nat, NEW q \in Nat, s <= p, p <= q, q < EndAt(s)
  PROVE  Passed(q) = Passed(p)
<1>1. ASSUME NEW t \in DataStarts PROVE EndAt(t) <= q <=> EndAt(t) <= p
  <2>1. PICK x \in Nat, y \in Nat, e \in Nat : x = s /\ y = EndAt(s) /\ e = EndAt(t)
    BY EndsKnown
  <2>2. e <= x \/ y <= e
    BY <2>1, EndsKnown
  <2> QED
    BY <2>1, <2>2
<1>2. {t \in DataStarts : EndAt(t) <= q} = {t \in DataStarts : EndAt(t) <= p}
  BY <1>1
<1> QED
  BY <1>2 DEF Passed

\* At its end it has passed, and no other with it.
LEMMA PassedOne ==
  ASSUME NEW s \in DataStarts, NEW p \in Nat, s <= p, p < EndAt(s)
  PROVE  Passed(EndAt(s)) = Passed(p) + 1
<1> DEFINE Behind(q) == {t \in DataStarts : EndAt(t) <= q}
<1>1. ASSUME NEW t \in DataStarts PROVE EndAt(t) <= EndAt(s) <=> (EndAt(t) <= p \/ t = s)
  <2>1. PICK x \in Nat, y \in Nat, e \in Nat, z \in Nat : x = s /\ y = EndAt(s) /\ e = EndAt(t) /\ z = t
    BY EndsKnown
  <2>2. /\ e <= x \/ y <= e
        /\ z <= x \/ y <= z
        /\ x <= z \/ e <= x
        /\ z < e /\ x < y
    <3>1. e \in Boundaries /\ z \in Boundaries /\ x \in Boundaries
      BY <2>1, EndsKnown, BoundariesKnown
    <3>2. (e <= x \/ y <= e) /\ (z <= x \/ y <= z)
      BY <2>1, <3>1, EndsKnown
    <3>3. x <= z \/ e <= x
      BY <2>1, <3>1, EndsKnown
    <3>4. z + 5 <= e /\ x + 5 <= y
      BY <2>1, EndsKnown
    <3> QED
      BY <3>2, <3>3, <3>4
  <2>3. e <= y <=> (e <= p \/ z = x)
    BY <2>1, <2>2
  <2> QED
    BY <2>1, <2>3
<1>2. Behind(EndAt(s)) = Behind(p) \cup {s}
  BY <1>1
<1>3. s \notin Behind(p)
  <2>1. PICK y \in Nat : y = EndAt(s)
    BY EndsKnown
  <2> QED
    BY <2>1
<1>4. IsFiniteSet(Behind(p)) /\ Passed(p) \in Nat
  BY PassedKnown
<1>5. Cardinality(Behind(p) \cup {s}) = Cardinality(Behind(p)) + 1
  <2> HIDE DEF Behind
  <2> QED
    BY <1>3, <1>4, FS_AddElement
<1> QED
  BY <1>2, <1>5 DEF Passed

\* Nor does one end where there is no data.
LEMMA PassedBetween ==
  ASSUME NEW a \in Boundaries, NEW b \in Nat, a <= b, \A s \in DataStarts : a <= s => b <= s
  PROVE  Passed(b) = Passed(a)
<1>1. a \in Nat
  BY BoundariesKnown
<1>2. ASSUME NEW t \in DataStarts PROVE EndAt(t) <= b <=> EndAt(t) <= a
  <2>1. PICK x \in Nat, y \in Nat, h \in Nat : x = t /\ y = EndAt(t) /\ h = a
    BY <1>1, EndsKnown
  <2>2. (h <= x => b <= x) /\ (h <= x \/ y <= h) /\ x + 5 <= y
    BY <2>1, EndsKnown
  <2> QED
    BY <2>1, <2>2
<1>3. {t \in DataStarts : EndAt(t) <= b} = {t \in DataStarts : EndAt(t) <= a}
  BY <1>2
<1> QED
  BY <1>3 DEF Passed

-----------------------------------------------------------------------------
(* WireState.update.                                                       *)
WireStates == [rem : Int, frag : Seq(Nat), final : Int, n : Nat]
Wire(r, f, n) == [rem |-> r, frag |-> f, final |-> -1, n |-> n]

\* From a to p there is data only, and the end of n messages.
Passes(a, p, n) == a <= p /\ DataBytes(a, p) = p - a /\ Passed(p) = Passed(a) + n

\* Where a state of the wire stands at p: in a header, between two messages, in a body.
InHeader(ws, p) ==
  \E s \in DataStarts : ws.rem = -1 /\ s < p /\ p < s + 5 /\ ws.frag = Bytes(s + 1, p)
InBody(ws, p) ==
  \E s \in DataStarts : ws.frag = <<>> /\ s < p /\ p < EndAt(s) /\ p + ws.rem = EndAt(s)
Stands(ws, p) ==
  /\ ws \in WireStates /\ ws.final = -1
  /\ InHeader(ws, p) \/ InBody(ws, p) \/ (ws.rem = 0 /\ ws.frag = <<>> /\ p \in Boundaries)

\* What an update with the bytes from a to b - 1 has found: data only, or where it ended.
Found(ws, a, b) ==
  /\ ws \in WireStates
  /\ \/ Stands(ws, b) /\ b <= Total /\ Passes(a, b, ws.n)
     \/ ws.final \in Boundaries /\ ws.final < b /\ Passes(a, ws.final, ws.n)

\* Before a turn of the loop that is not the last.
Walks(r, p) ==
  \/ r = 0 /\ p \in Boundaries
  \/ r > 0 /\ \E s \in DataStarts : s <= p /\ p < EndAt(s) /\ p + r = EndAt(s)

LEMMA NothingPassed == ASSUME NEW a \in Nat PROVE Passes(a, a, 0)
<1>1. DataBytes(a, a) = DataBytes(a, a) + DataBytes(a, a) /\ DataBytes(a, a) \in Nat
  BY DataAdds, DataFinite
<1>2. PICK x \in Nat, y \in Nat : x = DataBytes(a, a) /\ y = Passed(a)
  BY DataFinite, PassedKnown
<1>3. x = x + x
  BY <1>1, <1>2
<1>4. x = a - a /\ y = y + 0
  BY <1>3
<1> QED
  BY <1>2, <1>4 DEF Passes

LEMMA PassesOn ==
  ASSUME NEW a \in Nat, NEW p \in Nat, NEW q \in Nat, NEW n \in Nat, NEW k \in Nat, Passes(a, p, n), Passes(p, q, k)
  PROVE  Passes(a, q, n + k)
<1>1. DataBytes(a, q) = DataBytes(a, p) + DataBytes(p, q)
  BY DataAdds DEF Passes
<1>2. PICK x \in Nat, y \in Nat, z \in Nat : x = Passed(a) /\ y = Passed(p) /\ z = Passed(q)
  BY PassedKnown
<1>3. y = x + n /\ z = y + k /\ DataBytes(a, p) = p - a /\ DataBytes(p, q) = q - p /\ a <= p /\ p <= q
  BY <1>2 DEF Passes
<1>4. z = x + (n + k) /\ DataBytes(a, q) = q - a /\ a <= q
  BY <1>1, <1>3
<1> QED
  BY <1>2, <1>4 DEF Passes

LEMMA WireKnown ==
  ASSUME NEW r \in Int, NEW f \in Seq(Nat), NEW n \in Nat
  PROVE  /\ Wire(r, f, n) \in WireStates
         /\ Wire(r, f, n).rem = r /\ Wire(r, f, n).frag = f /\ Wire(r, f, n).final = -1 /\ Wire(r, f, n).n = n
BY DEF Wire, WireStates

LEMMA WireEmpty ==
  ASSUME NEW r \in Int, NEW n \in Nat
  PROVE  /\ Wire(r, <<>>, n) \in WireStates
         /\ Wire(r, <<>>, n).rem = r /\ Wire(r, <<>>, n).frag = <<>> /\ Wire(r, <<>>, n).final = -1
         /\ Wire(r, <<>>, n).n = n
<1>1. <<>> \in Seq(Nat)
  OBVIOUS
<1>2. PICK w : w = [rem |-> r, frag |-> <<>>, final |-> -1, n |-> n]
  OBVIOUS
<1>3. w = Wire(r, <<>>, n)
  BY <1>2 DEF Wire
<1>4. w \in WireStates
  BY <1>1, <1>2 DEF WireStates
<1>5. w.rem = r /\ w.frag = <<>> /\ w.final = -1 /\ w.n = n
  BY <1>2
<1> QED
  BY <1>3, <1>4, <1>5

LEMMA BodyEnds ==
  ASSUME NEW s \in DataStarts, NEW p \in Nat, s <= p, p < EndAt(s)
  PROVE  Passes(p, EndAt(s), 1)
<1>1. PICK y \in Nat : y = EndAt(s)
  BY EndsKnown
<1>2. DataBytes(p, y) = y - p
  BY <1>1, DataInside
<1>3. Passed(y) = Passed(p) + 1
  BY <1>1, PassedOne
<1> QED
  BY <1>1, <1>2, <1>3 DEF Passes

LEMMA BodyPart ==
  ASSUME NEW s \in DataStarts, NEW p \in Nat, NEW q \in Nat, s <= p, p <= q, q < EndAt(s)
  PROVE  Passes(p, q, 0)
<1>1. PICK y \in Nat : y = EndAt(s)
  BY EndsKnown
<1>2. DataBytes(p, q) = q - p
  BY <1>1, DataInside
<1>3. Passed(q) = Passed(p) /\ Passed(p) \in Nat
  BY <1>1, PassedInside, PassedKnown
<1> QED
  BY <1>2, <1>3 DEF Passes

LEMMA AfterBodyIs ==
  ASSUME NEW r \in Nat, NEW n \in Nat, NEW p \in Nat, NEW b \in Nat
  PROVE  AfterBody(Wire(r, <<>>, n), p, b) =
           IF r = 0 THEN Wire(0, <<>>, n)
           ELSE IF r <= b - p THEN Wire(0, <<>>, n + 1) ELSE Wire(r - (b - p), <<>>, n)
<1>1. PICK ws : ws = Wire(r, <<>>, n)
  OBVIOUS
<1>2. ws.rem = r
  BY <1>1 DEF Wire
<1>3. CASE r = 0
  BY <1>1, <1>2, <1>3 DEF AfterBody
<1>4. CASE r # 0 /\ r <= b - p
  <2>1. AfterBody(ws, p, b) = [ws EXCEPT !.rem = 0, !.n = @ + 1]
    BY <1>2, <1>4 DEF AfterBody
  <2>2. [ws EXCEPT !.rem = 0, !.n = @ + 1] = Wire(0, <<>>, n + 1)
    <3>1. ws = [rem |-> r, frag |-> <<>>, final |-> -1, n |-> n]
      BY <1>1 DEF Wire
    <3>5. PICK m \in Nat : m = n + 1
      OBVIOUS
    <3>2. PICK v : m = n + 1 /\ v = [ws EXCEPT !.rem = 0, !.n = @ + 1]
      BY <3>5
    <3>3. v = [rem |-> 0, frag |-> <<>>, final |-> -1, n |-> ws.n + 1]
      BY <3>1, <3>2
    <3>4. ws.n + 1 = m
      BY <3>1, <3>2
    <3> QED
      BY <3>2, <3>3, <3>4 DEF Wire
  <2> QED
    BY <1>1, <1>4, <2>1, <2>2
<1>5. CASE r # 0 /\ ~(r <= b - p)
  <2>1. AfterBody(ws, p, b) = [ws EXCEPT !.rem = @ - (b - p)]
    BY <1>2, <1>5 DEF AfterBody
  <2>2. PICK q \in Int : q = r - (b - p)
    OBVIOUS
  <2>3. [ws EXCEPT !.rem = q] = Wire(q, <<>>, n)
    <3>1. ws = [rem |-> r, frag |-> <<>>, final |-> -1, n |-> n]
      BY <1>1 DEF Wire
    <3>2. [ws EXCEPT !.rem = q] = [rem |-> q, frag |-> <<>>, final |-> -1, n |-> n]
      BY <3>1
    <3> QED
      BY <3>2 DEF Wire
  <2>4. q = r - (b - p) /\ [ws EXCEPT !.rem = @ - (b - p)] = [ws EXCEPT !.rem = q]
    BY <1>2, <2>2
  <2> QED
    BY <1>1, <1>5, <2>1, <2>3, <2>4
<1> QED
  BY <1>3, <1>4, <1>5

\* A body that ends before the view does.
LEMMA BodyPassed ==
  ASSUME NEW r \in Nat, NEW n \in Nat, NEW p \in Nat, NEW b \in Nat, Walks(r, p), p + r < b
  PROVE  /\ p + r \in Boundaries
         /\ \E k \in Nat : AfterBody(Wire(r, <<>>, n), p, b) = Wire(0, <<>>, n + k) /\ Passes(p, p + r, k)
<1>1. CASE r = 0
  <2>1. p + r = p /\ n + 0 = n /\ 0 \in Nat
    BY <1>1
  <2>2. AfterBody(Wire(r, <<>>, n), p, b) = Wire(0, <<>>, n + 0)
    BY <1>1, <2>1, AfterBodyIs
  <2>3. Passes(p, p + r, 0)
    BY <2>1, NothingPassed
  <2>4. p + r \in Boundaries
    BY <1>1, <2>1 DEF Walks
  <2> QED
    BY <2>1, <2>2, <2>3, <2>4
<1>2. CASE r # 0
  <2>1. PICK s \in DataStarts : s <= p /\ p < EndAt(s) /\ p + r = EndAt(s)
    BY <1>2 DEF Walks
  <2>2. Passes(p, p + r, 1) /\ p + r \in Boundaries
    BY <2>1, BodyEnds, EndsKnown
  <2>3. r <= b - p /\ 1 \in Nat
    OBVIOUS
  <2>4. AfterBody(Wire(r, <<>>, n), p, b) = Wire(0, <<>>, n + 1)
    BY <1>2, <2>3, AfterBodyIs
  <2> QED
    BY <2>2, <2>3, <2>4
<1> QED
  BY <1>1, <1>2

\* A view that ends with a body, or in it.
LEMMA BodyOpen ==
  ASSUME NEW r \in Nat, NEW n \in Nat, NEW p \in Nat, NEW b \in Nat, Walks(r, p), p < b, b <= p + r
  PROVE  /\ b <= Total
         /\ \E k \in Nat, q \in Nat :
              /\ AfterBody(Wire(r, <<>>, n), p, b) = Wire(q, <<>>, n + k)
              /\ Stands(Wire(q, <<>>, n + k), b) /\ Passes(p, b, k)
<1>1. r # 0 /\ r > 0
  OBVIOUS
<1>2. PICK s \in DataStarts : s <= p /\ p < EndAt(s) /\ p + r = EndAt(s)
  BY <1>1 DEF Walks
<1>3. PICK x \in Nat, y \in Nat, z \in Nat : x = s /\ y = EndAt(s) /\ y <= z /\ z = Total
  BY EndsKnown
<1>4. <<>> \in Seq(Nat)
  OBVIOUS
<1>5. CASE b = p + r
  <2>1. r <= b - p /\ 1 \in Nat /\ 0 \in Nat /\ n + 1 \in Nat /\ 0 \in Int
    BY <1>5
  <2>2. AfterBody(Wire(r, <<>>, n), p, b) = Wire(0, <<>>, n + 1)
    BY <1>1, <2>1, AfterBodyIs
  <2>3. b \in Boundaries /\ Passes(p, b, 1)
    BY <1>2, <1>5, BodyEnds, EndsKnown
  <2>4. Stands(Wire(0, <<>>, n + 1), b)
    <3>0. PICK m \in Nat : m = n + 1
      BY <2>1
    <3>1. PICK w : m = n + 1 /\ w = Wire(0, <<>>, m)
      BY <3>0
    <3>2. w \in WireStates /\ w.rem = 0 /\ w.frag = <<>> /\ w.final = -1
      BY <2>1, <3>1, WireEmpty
    <3> QED
      BY <2>3, <3>1, <3>2 DEF Stands
  <2>5. b <= Total
    BY <1>2, <1>3, <1>5
  <2> QED
    BY <2>1, <2>2, <2>3, <2>4, <2>5
<1>6. CASE b # p + r
  <2>1. ~(r <= b - p) /\ 0 \in Nat /\ n + 0 = n /\ n \in Nat
    BY <1>6
  <2>2. PICK q \in Nat : q = r - (b - p)
    BY <1>6
  <2>3. AfterBody(Wire(r, <<>>, n), p, b) = Wire(q, <<>>, n + 0)
    BY <1>1, <2>1, <2>2, AfterBodyIs
  <2>4. x < b /\ b < y /\ b + q = y
    BY <1>2, <1>3, <1>6, <2>2
  <2>5. Passes(p, b, 0)
    <3>1. s <= p /\ p <= b /\ b < EndAt(s)
      BY <1>2, <1>3, <2>4
    <3> QED
      BY <3>1, BodyPart
  <2>6. q \in Int
    OBVIOUS
  <2>7. PICK w : w = Wire(q, <<>>, n)
    OBVIOUS
  <2>8. w \in WireStates /\ w.rem = q /\ w.frag = <<>> /\ w.final = -1
    BY <2>6, <2>7, WireEmpty
  <2>9. InBody(w, b)
    <3>1. s < b /\ b < EndAt(s) /\ b + w.rem = EndAt(s)
      BY <1>3, <2>4, <2>8
    <3> QED
      BY <2>8, <3>1 DEF InBody
  <2>10. Stands(w, b)
    BY <2>8, <2>9 DEF Stands
  <2>11. b <= Total
    BY <1>3, <2>4
  <2> QED
    BY <2>1, <2>3, <2>5, <2>7, <2>10, <2>11
<1> QED
  BY <1>5, <1>6

Walking(p, r, n) == [at |-> p, ws |-> Wire(r, <<>>, n), over |-> FALSE]

LEMMA TurnOpen ==
  ASSUME NEW p \in Nat, NEW r \in Nat, NEW n \in Nat, NEW b \in Nat, NEW w,
         w = AfterBody(Wire(r, <<>>, n), p, b), b <= p + r
  PROVE  Turn(Walking(p, r, n), b) = [at |-> b, ws |-> w, over |-> TRUE]
<1>1. PICK t : t = Walking(p, r, n)
  OBVIOUS
<1>2. t.over = FALSE /\ t.at = p /\ t.ws = Wire(r, <<>>, n) /\ t.ws.rem = r
  BY <1>1 DEF Walking, Wire
<1>3. ~(t.at + t.ws.rem < b)
  BY <1>2
<1>4. Turn(t, b) = [at |-> b, ws |-> AfterBody(t.ws, t.at, b), over |-> TRUE]
  BY <1>2, <1>3 DEF Turn
<1> QED
  BY <1>1, <1>2, <1>4

\* The ways a turn ends at a boundary q of the view.
TurnsAt(t2, w, q, b) ==
  /\ q \notin DataStarts => t2 = [at |-> q, ws |-> [w EXCEPT !.final = q], over |-> TRUE]
  /\ q \in DataStarts /\ b - q < 5 =>
       t2 = [at |-> q, ws |-> [w EXCEPT !.rem = -1, !.frag = @ \o Bytes(q + 1, b)], over |-> TRUE]
  /\ q \in DataStarts /\ ~(b - q < 5) =>
       t2 = [at |-> q, ws |-> [w EXCEPT !.rem = GetLen(Bytes(q + 1, q + 5)) + 1], over |-> FALSE]

LEMMA TurnEnded ==
  ASSUME NEW p \in Nat, NEW r \in Nat, NEW n \in Nat, NEW b \in Nat, NEW q \in Nat, q = p + r, q < b
  PROVE  TurnsAt(Turn(Walking(p, r, n), b), AfterBody(Wire(r, <<>>, n), p, b), q, b)
<1>0. PICK w : w = AfterBody(Wire(r, <<>>, n), p, b)
  OBVIOUS
<1>1. PICK t : t = Walking(p, r, n)
  OBVIOUS
<1>2. t.over = FALSE /\ t.at = p /\ t.ws = Wire(r, <<>>, n) /\ t.ws.rem = r
  BY <1>1 DEF Walking, Wire
<1>3. t.at + t.ws.rem < b /\ t.at + t.ws.rem = q /\ q # b
  BY <1>2
<1>4. w = AfterBody(t.ws, t.at, b)
  BY <1>0, <1>2
<1>5. ASSUME q \notin DataStarts PROVE Turn(t, b) = [at |-> q, ws |-> [w EXCEPT !.final = q], over |-> TRUE]
  BY <1>2, <1>3, <1>4, <1>5 DEF Turn
<1>6. ASSUME q \in DataStarts, b - q < 5
      PROVE  Turn(t, b) = [at |-> q, ws |-> [w EXCEPT !.rem = -1, !.frag = @ \o Bytes(q + 1, b)], over |-> TRUE]
  BY <1>2, <1>3, <1>4, <1>6 DEF Turn
<1>7. ASSUME q \in DataStarts, ~(b - q < 5)
      PROVE  Turn(t, b) = [at |-> q, ws |-> [w EXCEPT !.rem = GetLen(Bytes(q + 1, q + 5)) + 1], over |-> FALSE]
  <2>1. PICK x : x = [w EXCEPT !.rem = GetLen(Bytes(q + 1, q + 5)) + 1]
    OBVIOUS
  <2>2. Turn(t, b) = [t EXCEPT !.at = q, !.ws = x]
    BY <1>2, <1>3, <1>4, <1>7, <2>1 DEF Turn
  <2>3. PICK y : y = Wire(r, <<>>, n)
    OBVIOUS
  <2>5. t = [at |-> p, ws |-> y, over |-> FALSE]
    BY <1>1, <2>3 DEF Walking
  <2>6. PICK v : v = [t EXCEPT !.at = q, !.ws = x]
    OBVIOUS
  <2>7. v = [at |-> q, ws |-> x, over |-> FALSE]
    BY <2>5, <2>6
  <2>4. [t EXCEPT !.at = q, !.ws = x] = [at |-> q, ws |-> x, over |-> FALSE]
    BY <2>6, <2>7, Zenon
  <2> QED
    BY <2>1, <2>2, <2>4
<1> QED
  BY <1>0, <1>1, <1>5, <1>6, <1>7, Zenon DEF TurnsAt

\* A turn of the loop finds where the view ends, or goes on behind a header.
GoesOn(t2, a, b, p, r) ==
  \E q \in Nat, g \in Nat, m \in Nat :
    /\ t2 = Walking(q, g, m)
    /\ q < b /\ p + r = q /\ g > 0 /\ Walks(g, q) /\ Passes(a, q, m)
Breaks(t2, a, b) == t2.over = TRUE /\ Found(t2.ws, a, b)

LEMMA TurnDoes ==
  ASSUME NEW a \in Nat, NEW b \in Nat, b <= Total + 1,
         NEW p \in Nat, NEW r \in Nat, NEW n \in Nat, p < b, Walks(r, p), Passes(a, p, n)
  PROVE  Breaks(Turn(Walking(p, r, n), b), a, b) \/ GoesOn(Turn(Walking(p, r, n), b), a, b, p, r)
<1> DEFINE t2 == Turn(Walking(p, r, n), b)
<1>1. CASE b <= p + r
  <2>1. PICK k \in Nat, q \in Nat :
          /\ AfterBody(Wire(r, <<>>, n), p, b) = Wire(q, <<>>, n + k)
          /\ Stands(Wire(q, <<>>, n + k), b) /\ Passes(p, b, k)
    BY <1>1, BodyOpen
  <2>2. b <= Total
    BY <1>1, BodyOpen
  <2>3. PICK m \in Nat : m = n + k
    OBVIOUS
  <2>9. PICK w : w = Wire(q, <<>>, m)
    OBVIOUS
  <2>4. t2 = [at |-> b, ws |-> w, over |-> TRUE]
    <3>1. w = AfterBody(Wire(r, <<>>, n), p, b)
      BY <2>1, <2>3, <2>9
    <3> QED
      BY <1>1, <3>1, TurnOpen
  <2>5. t2.over = TRUE /\ t2.ws = w
    BY <2>4
  <2>6. Passes(a, b, m)
    BY <2>1, <2>3, PassesOn
  <2>7. w.n = m /\ w \in WireStates /\ Stands(w, b)
    <3>1. q \in Int
      OBVIOUS
    <3> QED
      BY <2>1, <2>3, <2>9, <3>1, WireEmpty
  <2>8. Found(w, a, b)
    BY <2>2, <2>6, <2>7 DEF Found
  <2> QED
    BY <2>5, <2>8 DEF Breaks
<1>2. CASE p + r < b
  <2>1. PICK q \in Nat : q = p + r
    OBVIOUS
  <2>2. PICK k \in Nat : AfterBody(Wire(r, <<>>, n), p, b) = Wire(0, <<>>, n + k) /\ Passes(p, p + r, k)
    BY <1>2, BodyPassed
  <2>3. q \in Boundaries
    BY <1>2, <2>1, BodyPassed
  <2>11. PICK m \in Nat : m = n + k
    OBVIOUS
  <2>4. PICK w : w = Wire(0, <<>>, m)
    OBVIOUS
  <2>5. Passes(a, q, m)
    BY <2>1, <2>2, <2>11, PassesOn
  <2>6. w = AfterBody(Wire(r, <<>>, n), p, b) /\ q < b
    BY <1>2, <2>1, <2>2, <2>4, <2>11
  <2>7. w = [rem |-> 0, frag |-> <<>>, final |-> -1, n |-> m]
    BY <2>4 DEF Wire
  <2>12. TurnsAt(t2, w, q, b)
    BY <2>1, <2>6, TurnEnded
  <2>8. CASE q \notin DataStarts
    <3>1. PICK x : x = [w EXCEPT !.final = q]
      OBVIOUS
    <3>2. t2 = [at |-> q, ws |-> x, over |-> TRUE]
      BY <2>8, <2>12, <3>1 DEF TurnsAt
    <3>3. t2.over = TRUE /\ t2.ws = x
      BY <3>2
    <3>4. x = [rem |-> 0, frag |-> <<>>, final |-> q, n |-> m]
      BY <2>7, <3>1
    <3>5. x \in WireStates /\ x.final = q /\ x.n = m
      <4>1. <<>> \in Seq(Nat) /\ q \in Int /\ 0 \in Int
        OBVIOUS
      <4> QED
        BY <3>4, <4>1 DEF WireStates
    <3>6. Found(x, a, b)
      BY <2>3, <2>5, <2>6, <3>5 DEF Found
    <3> QED
      BY <3>3, <3>6 DEF Breaks
  <2>9. CASE q \in DataStarts /\ b - q < 5
    <3>1. PICK e \in Nat, z \in Nat : e = EndAt(q) /\ z = Total /\ e <= z /\ q + 5 <= e
      BY <2>9, EndsKnown
    <3>2. PICK h \in Nat, d \in Nat : h = q + 1 /\ d = b - h /\ h + d = b
      BY <2>6
    <3>3. PICK f \in Seq(Nat) : f = Bytes(q + 1, b)
      BY <3>2, BytesKnown
    <3>4. PICK x : x = [w EXCEPT !.rem = -1, !.frag = @ \o f]
      OBVIOUS
    <3>5. t2 = [at |-> q, ws |-> x, over |-> TRUE]
      BY <2>9, <2>12, <3>3, <3>4 DEF TurnsAt
    <3>6. t2.over = TRUE /\ t2.ws = x
      BY <3>5
    <3>7. x = [rem |-> -1, frag |-> f, final |-> -1, n |-> m]
      <4>1. <<>> \o f = f
        OBVIOUS
      <4>2. x = [rem |-> -1, frag |-> <<>> \o f, final |-> -1, n |-> m]
        BY <2>7, <3>4
      <4> QED
        BY <4>1, <4>2
    <3>8. x \in WireStates /\ x.rem = -1 /\ x.frag = f /\ x.final = -1 /\ x.n = m
      <4>1. -1 \in Int
        OBVIOUS
      <4> QED
        BY <3>7, <4>1 DEF WireStates
    <3>9. q < b /\ b < q + 5 /\ b < e /\ b <= z /\ q <= q /\ q <= b
      BY <2>6, <2>9, <3>1
    <3>10. InHeader(x, b)
      BY <2>9, <3>3, <3>8, <3>9 DEF InHeader
    <3>11. Stands(x, b) /\ b <= Total
      BY <3>1, <3>8, <3>9, <3>10 DEF Stands
    <3>12. Passes(q, b, 0)
      BY <2>9, <3>1, <3>9, BodyPart
    <3>13. Passes(a, b, m)
      <4>1. m + 0 = m /\ 0 \in Nat
        OBVIOUS
      <4>2. Passes(a, b, m + 0)
        BY <2>5, <3>12, <4>1, PassesOn
      <4> QED
        BY <4>1, <4>2
    <3>14. Found(x, a, b)
      BY <3>8, <3>11, <3>13 DEF Found
    <3> QED
      BY <3>6, <3>14 DEF Breaks
  <2>10. CASE q \in DataStarts /\ ~(b - q < 5)
    <3>1. PICK e \in Nat : e = EndAt(q) /\ q + 5 <= e
      BY <2>10, EndsKnown
    <3>2. PICK g \in Nat : g = e - q /\ g > 0
      BY <3>1
    <3>3. GetLen(Bytes(q + 1, q + 5)) + 1 = g
      <4>1. GetLen(Bytes(q + 1, q + 5)) = e - q - 1
        BY <2>10, <3>1, LengthKnown
      <4> QED
        BY <3>2, <4>1
    <3>4. PICK x : x = [w EXCEPT !.rem = g]
      OBVIOUS
    <3>5. t2 = [at |-> q, ws |-> x, over |-> FALSE]
      BY <2>10, <2>12, <3>3, <3>4 DEF TurnsAt
    <3>6. x = Wire(g, <<>>, m)
      BY <2>7, <3>4 DEF Wire
    <3>7. t2 = Walking(q, g, m)
      BY <3>5, <3>6 DEF Walking
    <3>8. q <= q /\ q < e /\ q + g = e
      BY <3>1, <3>2
    <3>9. Walks(g, q)
      BY <2>10, <3>1, <3>2, <3>8 DEF Walks
    <3> QED
      BY <2>1, <2>5, <2>6, <3>2, <3>7, <3>9 DEF GoesOn
  <2> QED
    BY <2>8, <2>9, <2>10
<1>3. b <= p + r \/ p + r < b
  OBVIOUS
<1> QED
  BY <1>1, <1>2, <1>3

\* What HeaderPart makes of a state in a header with g as its part so far.
Headed(h, g, o) ==
  /\ Len(g) = 4 => h = Wire(GetLen(g) - o, <<>>, 0)
  /\ Len(g) # 4 => h = Wire(-1, g, 0)

LEMMA HeaderIs ==
  ASSUME NEW f \in Seq(Nat), NEW a \in Nat, NEW b \in Nat, NEW g \in Seq(Nat), NEW o \in Nat,
         o = Len(f), g = f \o Bytes(a, IF a + 4 - o < b THEN a + 4 - o ELSE b)
  PROVE  Headed(HeaderPart(Wire(-1, f, 0), a, b), g, o)
<1>1. PICK ws : ws = Wire(-1, f, 0)
  OBVIOUS
<1>2. ws = [rem |-> -1, frag |-> f, final |-> -1, n |-> 0]
  BY <1>1 DEF Wire
<1>3. ws.rem = -1 /\ ws.frag = f
  BY <1>2
<1>5. ASSUME Len(g) = 4 PROVE HeaderPart(ws, a, b) = Wire(GetLen(g) - o, <<>>, 0)
  <2>1. PICK x : x = GetLen(g) - o
    OBVIOUS
  <2>2. PICK v : v = [ws EXCEPT !.rem = x, !.frag = <<>>]
    OBVIOUS
  <2>3. HeaderPart(ws, a, b) = v
    BY <1>3, <1>5, <2>1, <2>2 DEF HeaderPart, Continued
  <2>4. v = [rem |-> x, frag |-> <<>>, final |-> -1, n |-> 0]
    BY <1>2, <2>2
  <2> QED
    BY <2>1, <2>3, <2>4 DEF Wire
<1>6. ASSUME Len(g) # 4 PROVE HeaderPart(ws, a, b) = Wire(-1, g, 0)
  <2>1. HeaderPart(ws, a, b) = [ws EXCEPT !.frag = g]
    BY <1>3, <1>6 DEF HeaderPart
  <2>2. PICK v : v = [ws EXCEPT !.frag = g]
    OBVIOUS
  <2>3. v = [rem |-> -1, frag |-> g, final |-> -1, n |-> 0]
    BY <1>2, <1>6, <2>2
  <2> QED
    BY <2>1, <2>2, <2>3 DEF Wire
<1> QED
  BY <1>1, <1>5, <1>6 DEF Headed

\* The header that an earlier view began: it is completed, or the view ends in it too.
LEMMA HeaderDoes ==
  ASSUME NEW a \in Nat, NEW b \in Nat, a < b, NEW s \in DataStarts, s < a, a < s + 5,
         NEW ws, ws = Wire(-1, Bytes(s + 1, a), 0)
  PROVE  \/ HeaderPart(ws, a, b).rem = -1 /\ Found(HeaderPart(ws, a, b), a, b)
         \/ \E r \in Nat : HeaderPart(ws, a, b) = Wire(r, <<>>, 0) /\ Walks(r, a)
<1>1. PICK k \in Nat, h \in Nat, o \in Nat, e \in Nat, z \in Nat :
        k = s /\ h = k + 1 /\ h + o = a /\ e = EndAt(s) /\ z = Total /\ e <= z /\ k + 5 <= e /\ o < 4
  <2>1. PICK k \in Nat, e \in Nat, z \in Nat : k = s /\ e = EndAt(s) /\ z = Total /\ e <= z /\ k + 5 <= e
    BY EndsKnown
  <2>2. k + 1 \in Nat /\ a - (k + 1) \in Nat /\ (k + 1) + (a - (k + 1)) = a /\ a - (k + 1) < 4
    BY <2>1
  <2> QED
    BY <2>1, <2>2
<1>2. PICK f \in Seq(Nat) : f = Bytes(h, a) /\ Len(f) = o
  BY <1>1, BytesKnown
<1>3. ws = Wire(-1, f, 0) /\ -1 \in Int
  BY <1>1, <1>2
<1>4. CASE k + 5 <= b
  <2>1. k + 5 \in Nat /\ h <= a /\ a <= k + 5 /\ h <= k + 5
    BY <1>1
  <2>2. f \o Bytes(a, k + 5) = Bytes(h, k + 5)
    BY <1>2, <2>1, BytesMeet
  <2>3. (IF a + 4 - o < b THEN a + 4 - o ELSE b) = k + 5
    BY <1>1, <1>4
  <2>4. PICK g \in Seq(Nat) : g = Bytes(h, k + 5) /\ Len(g) = (k + 5) - h
    BY <2>1, BytesSpan
  <2>5. Len(g) = 4
    BY <1>1, <2>4
  <2>6. g = f \o Bytes(a, IF a + 4 - o < b THEN a + 4 - o ELSE b)
    BY <2>2, <2>3, <2>4
  <2>14. Headed(HeaderPart(Wire(-1, f, 0), a, b), g, o)
    BY <1>2, <2>6, HeaderIs
  <2>7. HeaderPart(ws, a, b) = Wire(GetLen(g) - o, <<>>, 0)
    BY <1>3, <2>5, <2>14 DEF Headed
  <2>8. GetLen(g) = e - k - 1
    BY <1>1, <2>4, LengthKnown
  <2>9. PICK r \in Nat : r = e - a
    BY <1>1
  <2>15. h = k + 1 /\ h + o = a /\ r = e - a
    BY <1>1, <2>9
  <2>13. (e - k - 1) - o = r
    BY <2>15
  <2>10. GetLen(g) - o = r
    BY <2>8, <2>13
  <2>11. s <= a /\ a < EndAt(s) /\ a + r = EndAt(s) /\ r > 0
    BY <1>1, <2>9
  <2>12. Walks(r, a)
    BY <2>11 DEF Walks
  <2> QED
    BY <2>7, <2>9, <2>10, <2>12
<1>5. CASE b < k + 5
  <2>1. h <= a /\ a <= b /\ h <= b
    BY <1>1
  <2>2. f \o Bytes(a, b) = Bytes(h, b)
    BY <1>2, <2>1, BytesMeet
  <2>3. (IF a + 4 - o < b THEN a + 4 - o ELSE b) = b
    BY <1>1, <1>5
  <2>4. b - h # 4
    BY <1>1, <1>5
  <2>5. PICK g \in Seq(Nat) : g = Bytes(h, b) /\ Len(g) = b - h
    BY <2>1, BytesSpan
  <2>6. g = f \o Bytes(a, IF a + 4 - o < b THEN a + 4 - o ELSE b)
    BY <2>2, <2>3, <2>5
  <2>15. Headed(HeaderPart(Wire(-1, f, 0), a, b), g, o)
    BY <1>2, <2>6, HeaderIs
  <2>7. HeaderPart(ws, a, b) = Wire(-1, g, 0)
    BY <1>3, <2>4, <2>5, <2>15 DEF Headed
  <2>8. PICK x : x = Wire(-1, g, 0)
    OBVIOUS
  <2>9. x \in WireStates /\ x.rem = -1 /\ x.frag = g /\ x.final = -1 /\ x.n = 0
    <3>1. -1 \in Int /\ 0 \in Nat
      OBVIOUS
    <3> QED
      BY <2>8, <3>1, WireKnown
  <2>10. InHeader(x, b)
    <3>1. s < b /\ b < s + 5 /\ x.frag = Bytes(s + 1, b)
      BY <1>1, <1>5, <2>5, <2>9
    <3> QED
      BY <2>9, <3>1 DEF InHeader
  <2>11. Stands(x, b)
    BY <2>9, <2>10 DEF Stands
  <2>12. s <= a /\ a <= b /\ b < EndAt(s) /\ b <= Total
    BY <1>1, <1>5
  <2>13. Passes(a, b, 0)
    BY <2>12, BodyPart
  <2>14. Found(x, a, b)
    BY <2>9, <2>11, <2>12, <2>13 DEF Found
  <2> QED
    BY <2>7, <2>8, <2>9, <2>14
<1>6. k + 5 <= b \/ b < k + 5
  OBVIOUS
<1> QED
  BY <1>4, <1>5, <1>6

LEMMA StandsKnown ==
  ASSUME NEW a \in Nat, NEW ws, Stands(ws, a), ws.n = 0
  PROVE  \/ \E s \in DataStarts : s < a /\ a < s + 5 /\ ws = Wire(-1, Bytes(s + 1, a), 0)
         \/ \E r \in Nat : ws = Wire(r, <<>>, 0) /\ Walks(r, a)
<1>1. PICK g \in Int, f \in Seq(Nat) : ws = Wire(g, f, 0)
  BY DEF Stands, WireStates, Wire
<1>2. ws.rem = g /\ ws.frag = f
  BY <1>1 DEF Wire
<1>3. CASE InHeader(ws, a)
  BY <1>1, <1>2, <1>3 DEF InHeader
<1>4. CASE InBody(ws, a)
  <2>1. PICK s \in DataStarts : f = <<>> /\ s < a /\ a < EndAt(s) /\ a + g = EndAt(s)
    BY <1>2, <1>4 DEF InBody
  <2>2. PICK x \in Nat, e \in Nat : x = s /\ e = EndAt(s)
    BY EndsKnown
  <2>3. g \in Nat /\ g > 0 /\ s <= a
    BY <2>1, <2>2
  <2>4. Walks(g, a)
    BY <2>1, <2>3 DEF Walks
  <2> QED
    BY <1>1, <2>1, <2>3, <2>4
<1>5. CASE ws.rem = 0 /\ ws.frag = <<>> /\ a \in Boundaries
  BY <1>1, <1>2, <1>5 DEF Walks
<1> QED
  BY <1>3, <1>4, <1>5 DEF Stands

\* The turns of the loop, x first.
Turns(f, x, b, n) == f = [i \in 0 .. n |-> IF i = 0 THEN x ELSE Turn(f[i - 1], b)]

LEMMA TurnsExist ==
  ASSUME NEW x, NEW b, NEW k \in Nat
  PROVE  \E f : Turns(f, x, b, k)
<1> DEFINE S == {n \in Nat : \E f : Turns(f, x, b, n)}
<1>1. 0 \in S
  <2>1. Turns([i \in 0 .. 0 |-> x], x, b, 0)
    BY DEF Turns
  <2> QED BY <2>1
<1>2. ASSUME NEW n \in S PROVE n + 1 \in S
  <2>1. PICK f : Turns(f, x, b, n)
    OBVIOUS
  <2>2. PICK last : last = Turn(f[n], b)
    OBVIOUS
  <2>3. PICK g : g = [i \in 0 .. (n + 1) |-> IF i = n + 1 THEN last ELSE f[i]]
    OBVIOUS
  <2>4. ASSUME NEW i \in 0 .. (n + 1) PROVE g[i] = IF i = 0 THEN x ELSE Turn(g[i - 1], b)
    <3>1. CASE i = n + 1
      <4>1. i # 0 /\ i - 1 = n /\ n # n + 1 /\ n \in 0 .. (n + 1)
        BY <3>1
      <4>2. g[i] = last /\ g[i - 1] = f[n]
        BY <2>3, <3>1, <4>1
      <4> QED
        BY <2>2, <4>1, <4>2
    <3>2. CASE i # n + 1
      <4>1. i \in 0 .. n
        BY <3>2
      <4>2. g[i] = f[i] /\ (i # 0 => g[i - 1] = f[i - 1])
        BY <2>3, <4>1
      <4>3. f[i] = IF i = 0 THEN x ELSE Turn(f[i - 1], b)
        BY <2>1, <4>1 DEF Turns
      <4> QED BY <4>2, <4>3
    <3> QED BY <3>1, <3>2
  <2>5. g = [i \in 0 .. (n + 1) |-> g[i]]
    BY <2>3
  <2>6. Turns(g, x, b, n + 1)
    BY <2>4, <2>5 DEF Turns
  <2> QED
    BY <2>6
<1>3. S = Nat
  <2> HIDE DEF S
  <2>1. S \in SUBSET Nat BY DEF S
  <2> QED BY <1>1, <1>2, <2>1, Inductive
<1> QED
  BY <1>3

LEMMA UpdateTurns ==
  ASSUME NEW ws, NEW a \in Nat, NEW b \in Nat, a < b
  PROVE  LET h == HeaderPart(ws, a, b)
         IN  \E f : /\ Turns(f, [at |-> a, ws |-> h, over |-> h.rem < 0], b, b - a + 1)
                    /\ Update(ws, a, b) = f[b - a + 1].ws
<1> DEFINE h == HeaderPart(ws, a, b)
           x == [at |-> a, ws |-> h, over |-> h.rem < 0]
<1>1. b - a + 1 \in Nat
  OBVIOUS
<1>2. \E f : Turns(f, x, b, b - a + 1)
  <2> HIDE DEF x
  <2> QED
    BY <1>1, TurnsExist
<1>3. PICK f : f = CHOOSE g : Turns(g, x, b, b - a + 1)
  OBVIOUS
<1>4. Turns(f, x, b, b - a + 1)
  BY <1>2, <1>3
<1>5. Update(ws, a, b) = f[b - a + 1].ws
  BY <1>3 DEF Update, Turns
<1> QED
  BY <1>4, <1>5

\* Whatever the pieces, an update finds where the view ends, or the first byte that
\* is no data.
LEMMA UpdateDoes ==
  ASSUME NEW ws, NEW a \in Nat, NEW b \in Nat, a < b, b <= Total + 1, Stands(ws, a), ws.n = 0
  PROVE  Found(Update(ws, a, b), a, b)
<1> DEFINE h == HeaderPart(ws, a, b)
           k == b - a + 1
<1>1. PICK f : /\ Turns(f, [at |-> a, ws |-> h, over |-> h.rem < 0], b, k)
               /\ Update(ws, a, b) = f[k].ws
  BY UpdateTurns
<1> DEFINE On(i) == \E p \in Nat, r \in Nat, n \in Nat :
                      /\ f[i] = Walking(p, r, n) /\ p < b /\ Walks(r, p) /\ Passes(a, p, n)
                      /\ i >= 1 => r > 0 /\ p >= a + i - 1
           Over(i) == Breaks(f[i], a, b)
           S == {i \in Nat : i <= k => On(i) \/ Over(i)}
<1>2. k \in Nat /\ 0 \in 0 .. k
  OBVIOUS
<1>4. \/ h.rem = -1 /\ Found(h, a, b)
      \/ \E r \in Nat : h = Wire(r, <<>>, 0) /\ Walks(r, a)
  <2>1. CASE \E s \in DataStarts : s < a /\ a < s + 5 /\ ws = Wire(-1, Bytes(s + 1, a), 0)
    BY <2>1, HeaderDoes
  <2>2. CASE \E r \in Nat : ws = Wire(r, <<>>, 0) /\ Walks(r, a)
    <3>1. PICK r \in Nat : ws = Wire(r, <<>>, 0) /\ Walks(r, a)
      BY <2>2
    <3>2. ws.rem = r /\ r # -1
      BY <3>1 DEF Wire
    <3>3. h = ws
      BY <3>2 DEF HeaderPart
    <3> QED
      BY <3>1, <3>3
  <2> QED
    BY <2>1, <2>2, StandsKnown
<1>11. PICK z \in Int : z = h.rem
  <2>1. CASE h.rem = -1
    BY <2>1
  <2>2. CASE \E r \in Nat : h = Wire(r, <<>>, 0)
    BY <2>2 DEF Wire
  <2> QED
    BY <1>4, <2>1, <2>2
<1>10. PICK o \in BOOLEAN : o = (z < 0)
  <2>1. (z < 0) \in BOOLEAN
    OBVIOUS
  <2> QED
    BY <2>1
<1>3. f[0] = [at |-> a, ws |-> h, over |-> o]
  BY <1>1, <1>2, <1>10, <1>11 DEF Turns
<1>5. 0 \in S
  <2>1. CASE h.rem = -1 /\ Found(h, a, b)
    <3>1. o = TRUE
      <4>1. z < 0
        BY <1>11, <2>1
      <4>2. (z < 0) = TRUE
        BY <4>1, Zenon
      <4> QED
        BY <1>10, <4>2, Zenon
    <3>2. f[0].over = TRUE /\ f[0].ws = h
      BY <1>3, <3>1
    <3> QED
      BY <2>1, <3>2 DEF Breaks
  <2>2. CASE \E r \in Nat : h = Wire(r, <<>>, 0) /\ Walks(r, a)
    <3>1. PICK r \in Nat : h = Wire(r, <<>>, 0) /\ Walks(r, a)
      BY <2>2
    <3>2. h.rem = r
      BY <3>1 DEF Wire
    <3>3. o = FALSE
      <4>1. ~(z < 0)
        BY <1>11, <3>2
      <4>2. ASSUME o = TRUE PROVE FALSE
        <5>1. TRUE = (z < 0)
          BY <1>10, <4>2, Zenon
        <5>2. z < 0
          BY <5>1, Zenon
        <5> QED
          BY <4>1, <5>2
      <4>3. o = TRUE \/ o = FALSE
        BY <1>10, Zenon
      <4> QED
        BY <4>2, <4>3
    <3>4. f[0] = Walking(a, r, 0)
      BY <1>3, <3>1, <3>3 DEF Walking
    <3>5. Passes(a, a, 0) /\ 0 \in Nat
      BY NothingPassed
    <3>6. On(0)
      BY <3>1, <3>4, <3>5
    <3> QED
      BY <3>6
  <2> QED
    BY <1>4, <2>1, <2>2
<1>6. ASSUME NEW i \in S PROVE i + 1 \in S
  <2> HIDE DEF On, Over
  <2>1. SUFFICES ASSUME i + 1 <= k PROVE On(i + 1) \/ Over(i + 1)
    OBVIOUS
  <2> USE DEF On, Over
  <2>2. i + 1 \in 0 .. k /\ i + 1 # 0 /\ (i + 1) - 1 = i /\ i <= k
    BY <1>2, <2>1
  <2>3. f[i + 1] = Turn(f[i], b)
    BY <1>1, <2>2 DEF Turns
  <2>4. CASE Over(i)
    <3>1. f[i + 1] = f[i]
      BY <2>3, <2>4 DEF Turn, Breaks
    <3> QED
      BY <2>4, <3>1
  <2>5. CASE On(i)
    <3>1. PICK p \in Nat, r \in Nat, n \in Nat :
            /\ f[i] = Walking(p, r, n) /\ p < b /\ Walks(r, p) /\ Passes(a, p, n)
            /\ i >= 1 => r > 0 /\ p >= a + i - 1
      BY <2>5
    <3>2. CASE Breaks(Turn(Walking(p, r, n), b), a, b)
      BY <2>3, <3>1, <3>2
    <3>3. CASE GoesOn(Turn(Walking(p, r, n), b), a, b, p, r)
      <4>1. PICK q \in Nat, g \in Nat, m \in Nat :
              /\ Turn(Walking(p, r, n), b) = Walking(q, g, m)
              /\ q < b /\ p + r = q /\ g > 0 /\ Walks(g, q) /\ Passes(a, q, m)
        BY <3>3 DEF GoesOn
      <4>2. q >= a + (i + 1) - 1
        <5>1. CASE i >= 1
          BY <3>1, <4>1, <5>1
        <5>2. CASE i = 0
          BY <4>1, <5>2 DEF Passes
        <5> QED
          BY <5>1, <5>2
      <4>3. On(i + 1)
        BY <2>3, <3>1, <4>1, <4>2
      <4> QED
        BY <4>3
    <3> QED
      BY <3>1, <3>2, <3>3, TurnDoes
  <2> QED
    BY <2>2, <2>4, <2>5
<1>7. S = Nat
  <2> HIDE DEF S
  <2>1. S \in SUBSET Nat BY DEF S
  <2> QED BY <1>5, <1>6, <2>1, Inductive
<1>8. On(k) \/ Over(k)
  <2>1. k \in S
    <3> HIDE DEF S
    <3> QED
      BY <1>2, <1>7
  <2> QED
    BY <2>1, <1>2
<1>9. ~On(k)
  <2>1. ASSUME NEW p \in Nat, p < b, k >= 1 => p >= a + k - 1 PROVE FALSE
    BY <2>1
  <2> QED
    BY <2>1
<1> QED
  BY <1>1, <1>8, <1>9 DEF Breaks

-----------------------------------------------------------------------------
(* What the producer makes of its next bytes.                              *)
ProdType ==
  [ kind : {"statement", "iterator"}, at : Nat, ws : WireStates, tracked : BOOLEAN,
    next : {"confiscate", "recv"}, msgs : Nat, running : BOOLEAN, dead : BOOLEAN ]

\* Where the producer stands: within the data it follows, or at a boundary.
ProducerOK(p) ==
  /\ p.at <= Total /\ p.msgs = Passed(p.at)
  /\ p.tracked = TRUE => p.next = "recv" /\ p.kind = "statement" /\ Stands(p.ws, p.at)
  /\ p.tracked # TRUE => p.next = "confiscate" /\ p.at \in Boundaries

\* A chunk: every byte of data up to where the producer stands next.
ChunkOK(d, p) ==
  /\ d.view \in Nat /\ d.prod \in ProdType /\ ProducerOK(d.prod)
  /\ p.at <= d.prod.at /\ d.view = DataBytes(p.at, d.prod.at)

LEMMA NextData ==
  ASSUME NEW h \in Boundaries, h = yProd.at, DataLeft # {}
  PROVE  LET s == Min(DataLeft)
         IN  s \in DataStarts /\ s \in Nat /\ h <= s /\ Passes(s, s, 0) /\ DataBytes(h, s) = 0 /\ Passed(s) = Passed(h)
<1>1. DataLeft \in SUBSET Nat /\ h \in Nat /\ DataStarts \subseteq Boundaries
  BY BoundariesKnown DEF DataLeft
<1>2. PICK s \in Nat : s = Min(DataLeft) /\ s \in DataLeft /\ \A y \in DataLeft : s <= y
  BY <1>1, MinKnown
<1>3. s \in DataStarts /\ h <= s
  BY <1>2 DEF DataLeft
<1>4. \A t \in DataStarts : h <= t => s <= t
  BY <1>1, <1>2 DEF DataLeft
<1>5. DataBytes(h, s) = 0 /\ Passed(s) = Passed(h)
  BY <1>3, <1>4, DataBetween, PassedBetween
<1>6. Passes(s, s, 0)
  BY NothingPassed
<1> QED
  BY <1>2, <1>3, <1>5, <1>6

LEMMA NoDataLeft ==
  ASSUME NEW h \in Boundaries, h = yProd.at, DataLeft = {}
  PROVE  DataBytes(0, h) = DataBytes(0, Total)
<1>1. h \in Nat /\ h <= Total /\ Total \in Nat
  BY BoundariesKnown
<1>2. \A t \in DataStarts : h <= t => Total <= t
  <2>1. ASSUME NEW t \in DataStarts, h <= t PROVE FALSE
    <3>1. PICK x \in Nat : x = t
      BY EndsKnown
    <3> QED
      BY <2>1, <3>1 DEF DataLeft
  <2> QED
    BY <2>1
<1>3. DataBytes(h, Total) = 0
  BY <1>1, <1>2, DataBetween
<1>4. PICK x \in Nat, y \in Nat : x = DataBytes(0, h) /\ y = DataBytes(0, Total)
  BY <1>1, DataFinite
<1>5. DataBytes(0, Total) = DataBytes(0, h) + DataBytes(h, Total)
  <2>1. 0 \in Nat /\ 0 <= h
    BY <1>1
  <2> QED
    BY <1>1, <2>1, DataAdds
<1>6. y = x + 0
  BY <1>3, <1>4, <1>5
<1> QED
  BY <1>4, <1>6

\* A chunk that ends at e, and the producer there.
ProcessedAs(c, p, w, a, e, t, x) ==
  /\ c.view = e - a
  /\ c.prod = [p EXCEPT !.at = e, !.ws = w, !.tracked = t, !.msgs = @ + w.n, !.next = x]
MovedTo(q, p, w, e, t, x) ==
  /\ q \in ProdType /\ q.at = e /\ q.ws = w /\ q.tracked = t /\ q.msgs = p.msgs + w.n
  /\ q.next = x /\ q.kind = p.kind

LEMMA ProcessedIs ==
  ASSUME NEW p \in ProdType, p = yProd, NEW ws, NEW a \in Nat, NEW b \in Nat, NEW e \in Nat
  PROVE  LET w == Update([ws EXCEPT !.n = 0], a, b)
         IN  /\ w.final = -1 /\ e = b => ProcessedAs(Processed(ws, a, b), p, w, a, e, TRUE, "recv")
             /\ w.final # -1 /\ e = w.final => ProcessedAs(Processed(ws, a, b), p, w, a, e, FALSE, "confiscate")
BY DEF Processed, ProcessedAs

LEMMA ProducersFields ==
  ASSUME NEW p \in ProdType
  PROVE  \E k \in {"statement", "iterator"}, a \in Nat, v \in WireStates, o \in BOOLEAN,
            y \in {"confiscate", "recv"}, m \in Nat, u \in BOOLEAN, d \in BOOLEAN :
              p = [kind |-> k, at |-> a, ws |-> v, tracked |-> o, next |-> y, msgs |-> m, running |-> u, dead |-> d]
BY DEF ProdType

LEMMA MovedOn ==
  ASSUME NEW p \in ProdType, NEW w \in WireStates, NEW e \in Nat, NEW t \in BOOLEAN,
         NEW x \in {"confiscate", "recv"}
  PROVE  MovedTo([p EXCEPT !.at = e, !.ws = w, !.tracked = t, !.msgs = @ + w.n, !.next = x], p, w, e, t, x)
<1>1. PICK k \in {"statement", "iterator"}, a \in Nat, v \in WireStates, o \in BOOLEAN,
           y \in {"confiscate", "recv"}, m \in Nat, u \in BOOLEAN, d \in BOOLEAN :
             p = [kind |-> k, at |-> a, ws |-> v, tracked |-> o, next |-> y, msgs |-> m, running |-> u, dead |-> d]
  BY ProducersFields
<1>9. PICK n \in Nat : n = w.n
  BY DEF WireStates
<1>2. PICK c \in Nat : c = m + n
  OBVIOUS
<1>3. PICK q : q = [p EXCEPT !.at = e, !.ws = w, !.tracked = t, !.msgs = @ + w.n, !.next = x]
  OBVIOUS
<1>4. q = [kind |-> k, at |-> e, ws |-> w, tracked |-> t, next |-> x, msgs |-> p.msgs + w.n, running |-> u, dead |-> d]
  BY <1>1, <1>3
<1>5. p.msgs + w.n = c /\ p.kind = k
  BY <1>1, <1>2, <1>9
<1>6. q = [kind |-> k, at |-> e, ws |-> w, tracked |-> t, next |-> x, msgs |-> c, running |-> u, dead |-> d]
  BY <1>4, <1>5
<1>7. q \in ProdType
  BY <1>6 DEF ProdType
<1>8. q.at = e /\ q.ws = w /\ q.tracked = t /\ q.msgs = p.msgs + w.n /\ q.next = x /\ q.kind = p.kind
  BY <1>5, <1>6
<1> QED
  BY <1>3, <1>7, <1>8 DEF MovedTo

\* The iterator's producer one message on.
IteratedTo(q, p, e) ==
  q \in ProdType /\ q.at = e /\ q.msgs = p.msgs + 1 /\ q.tracked = p.tracked /\ q.next = p.next

LEMMA IteratedOn ==
  ASSUME NEW p \in ProdType, NEW e \in Nat
  PROVE  IteratedTo([p EXCEPT !.at = e, !.msgs = @ + 1], p, e)
<1>1. PICK k \in {"statement", "iterator"}, a \in Nat, v \in WireStates, o \in BOOLEAN,
           y \in {"confiscate", "recv"}, m \in Nat, u \in BOOLEAN, d \in BOOLEAN :
             p = [kind |-> k, at |-> a, ws |-> v, tracked |-> o, next |-> y, msgs |-> m, running |-> u, dead |-> d]
  BY ProducersFields
<1>2. PICK c \in Nat : c = m + 1
  OBVIOUS
<1>3. PICK q : q = [p EXCEPT !.at = e, !.msgs = @ + 1]
  OBVIOUS
<1>4. q = [kind |-> k, at |-> e, ws |-> v, tracked |-> o, next |-> y, msgs |-> p.msgs + 1, running |-> u, dead |-> d]
  BY <1>1, <1>3
<1>5. p.msgs + 1 = c /\ p.tracked = o /\ p.next = y
  BY <1>1, <1>2
<1>6. q = [kind |-> k, at |-> e, ws |-> v, tracked |-> o, next |-> y, msgs |-> c, running |-> u, dead |-> d]
  BY <1>4, <1>5
<1>7. q \in ProdType
  BY <1>6 DEF ProdType
<1> QED
  BY <1>3, <1>5, <1>6, <1>7 DEF IteratedTo

LEMMA Restarted ==
  ASSUME NEW ws, NEW a \in Nat, Stands(ws, a)
  PROVE  Stands([ws EXCEPT !.n = 0], a) /\ [ws EXCEPT !.n = 0].n = 0
<1>1. PICK r \in Int, f \in Seq(Nat), n \in Nat : ws = [rem |-> r, frag |-> f, final |-> -1, n |-> n]
  BY DEF Stands, WireStates
<1>2. PICK v : v = [ws EXCEPT !.n = 0]
  OBVIOUS
<1>3. v = [rem |-> r, frag |-> f, final |-> -1, n |-> 0]
  BY <1>1, <1>2
<1>4. v \in WireStates /\ v.final = -1 /\ v.n = 0 /\ v.rem = ws.rem /\ v.frag = ws.frag
  <2>1. -1 \in Int /\ 0 \in Nat
    OBVIOUS
  <2> QED
    BY <1>1, <1>3, <2>1 DEF WireStates
<1>5. Stands(v, a)
  BY <1>4 DEF Stands, InHeader, InBody
<1> QED
  BY <1>2, <1>4, <1>5

LEMMA FreshStands ==
  ASSUME NEW s \in Boundaries
  PROVE  Stands(Fresh, s)
<1>1. PICK v : v = Fresh
  OBVIOUS
<1>2. v = Wire(0, <<>>, 0) /\ 0 \in Nat /\ 0 \in Int
  BY <1>1 DEF Fresh, Wire
<1>3. v \in WireStates /\ v.rem = 0 /\ v.frag = <<>> /\ v.final = -1
  BY <1>2, WireEmpty
<1> QED
  BY <1>1, <1>3 DEF Stands

LEMMA ProcessedOK ==
  ASSUME NEW p \in ProdType, p = yProd, p.kind = "statement", NEW ws, NEW a \in Nat, NEW b \in Nat, a < b,
         b <= Total + 1, Stands(ws, a), p.at <= a, DataBytes(p.at, a) = 0, Passed(a) = Passed(p.at),
         p.msgs = Passed(p.at)
  PROVE  ChunkOK(Processed(ws, a, b), p)
<1>1. PICK v : v = [ws EXCEPT !.n = 0]
  OBVIOUS
<1>2. PICK w : w = Update(v, a, b)
  OBVIOUS
<1>3. Found(w, a, b)
  <2>1. Stands(v, a) /\ v.n = 0
    BY <1>1, Restarted
  <2> QED
    BY <1>2, <2>1, UpdateDoes
<1>4. PICK h \in Nat, m \in Nat, n \in Nat : h = p.at /\ m = p.msgs /\ n = w.n /\ w \in WireStates
  BY <1>3 DEF Found, WireStates, ProdType
<1>5. PICK d : d = Processed(ws, a, b)
  OBVIOUS
<1>6. ASSUME NEW e \in Nat, Passes(a, e, n), d.view = e - a, d.prod.at = e, d.prod.msgs = m + n
      PROVE  d.view \in Nat /\ p.at <= e /\ d.view = DataBytes(p.at, e) /\ d.prod.msgs = Passed(e)
  <2>1. a <= e /\ DataBytes(a, e) = e - a /\ Passed(e) = Passed(a) + n
    BY <1>6 DEF Passes
  <2>2. DataBytes(h, e) = DataBytes(h, a) + DataBytes(a, e)
    BY <1>4, <2>1, DataAdds
  <2>3. PICK x \in Nat : x = e - a
    BY <2>1
  <2>4. DataBytes(h, e) = 0 + x
    BY <1>4, <2>1, <2>2, <2>3
  <2>5. Passed(e) = m + n
    BY <1>4, <2>1
  <2>6. h <= e
    BY <1>4, <2>1
  <2> QED
    BY <1>4, <1>6, <2>3, <2>4, <2>5, <2>6
<1>7. CASE Stands(w, b) /\ b <= Total /\ Passes(a, b, n)
  <2>1. w.final = -1
    BY <1>7 DEF Stands
  <2>2. PICK q : q = [p EXCEPT !.at = b, !.ws = w, !.tracked = TRUE, !.msgs = @ + n, !.next = "recv"]
    OBVIOUS
  <2>3. d.view = b - a /\ d.prod = q
    <3>1. ProcessedAs(d, p, w, a, b, TRUE, "recv")
      BY <1>1, <1>2, <1>5, <2>1, ProcessedIs
    <3> QED
      BY <1>4, <2>2, <3>1 DEF ProcessedAs
  <2>4. q \in ProdType /\ q.at = b /\ q.ws = w /\ q.tracked = TRUE /\ q.msgs = p.msgs + n
        /\ q.next = "recv" /\ q.kind = p.kind
    <3>1. MovedTo(q, p, w, b, TRUE, "recv")
      BY <1>4, <2>2, MovedOn
    <3> QED
      BY <1>4, <3>1 DEF MovedTo
  <2>5. d.view \in Nat /\ p.at <= b /\ d.view = DataBytes(p.at, b) /\ d.prod.msgs = Passed(b)
    BY <1>4, <1>6, <1>7, <2>3, <2>4
  <2>6. ProducerOK(q)
    BY <1>7, <2>3, <2>4, <2>5 DEF ProducerOK
  <2> QED
    BY <1>5, <2>3, <2>4, <2>5, <2>6 DEF ChunkOK
<1>8. CASE w.final \in Boundaries /\ w.final < b /\ Passes(a, w.final, n)
  <2>1. PICK e \in Nat : e = w.final /\ e \in Boundaries /\ e <= Total /\ Passes(a, e, n)
    BY <1>8, BoundariesKnown
  <2>2. w.final # -1
    BY <2>1
  <2>3. PICK q : q = [p EXCEPT !.at = e, !.ws = w, !.tracked = FALSE, !.msgs = @ + n, !.next = "confiscate"]
    OBVIOUS
  <2>4. d.view = e - a /\ d.prod = q
    <3>1. ProcessedAs(d, p, w, a, e, FALSE, "confiscate")
      BY <1>1, <1>2, <1>5, <2>1, <2>2, ProcessedIs
    <3> QED
      BY <1>4, <2>3, <3>1 DEF ProcessedAs
  <2>5. q \in ProdType /\ q.at = e /\ q.ws = w /\ q.tracked = FALSE /\ q.msgs = p.msgs + n
        /\ q.next = "confiscate" /\ q.kind = p.kind
    <3>1. MovedTo(q, p, w, e, FALSE, "confiscate")
      BY <1>4, <2>3, MovedOn
    <3> QED
      BY <1>4, <3>1 DEF MovedTo
  <2>6. d.view \in Nat /\ p.at <= e /\ d.view = DataBytes(p.at, e) /\ d.prod.msgs = Passed(e)
    BY <1>4, <1>6, <2>1, <2>4, <2>5
  <2>7. ProducerOK(q)
    BY <2>1, <2>4, <2>5, <2>6 DEF ProducerOK
  <2> QED
    BY <1>5, <2>4, <2>5, <2>6, <2>7 DEF ChunkOK
<1> QED
  BY <1>3, <1>4, <1>7, <1>8 DEF Found

\* What the producer gives next, of either kind; and it gives none only at the end.
LEMMA ProducedOK ==
  ASSUME NEW p \in ProdType, p = yProd, ProducerOK(p)
  PROVE  /\ \A d \in Produced : ChunkOK(d, p)
         /\ Produced = {} => DataBytes(0, p.at) = DataBytes(0, Total)
<1>1. PICK h \in Nat, z \in Nat : h = p.at /\ z = Total /\ h <= z /\ p.msgs = Passed(h)
  BY BoundariesKnown DEF ProducerOK, ProdType
<1>2. p.kind \in {"statement", "iterator"}
  BY DEF ProdType
<1>3. CASE p.tracked # TRUE
  <2>1. h \in Boundaries /\ p.next = "confiscate"
    BY <1>1, <1>3 DEF ProducerOK
  <2>2. CASE DataLeft = {}
    <3>1. Produced = {}
      BY <2>1, <2>2 DEF Produced, Ahead, FromIterator
    <3>2. DataBytes(0, h) = DataBytes(0, Total)
      BY <1>1, <2>1, <2>2, NoDataLeft
    <3> QED
      BY <1>1, <3>1, <3>2
  <2>3. CASE DataLeft # {}
    <3>1. PICK s \in Nat : s = Min(DataLeft) /\ s \in DataStarts /\ h <= s /\ DataBytes(h, s) = 0 /\ Passed(s) = Passed(h)
      BY <1>1, <2>1, <2>3, NextData
    <3>2. PICK e \in Nat : e = EndAt(s) /\ e <= z /\ s < e /\ e \in Boundaries
      <4>1. PICK e \in Nat : e = EndAt(s)
        BY <3>1, EndsKnown
      <4>2. s + 5 <= e /\ e <= z /\ e \in Boundaries
        BY <1>1, <3>1, <4>1, EndsKnown
      <4> QED
        BY <4>1, <4>2
    <3>3. CASE p.kind = "statement"
      <4>1. Produced = {Processed(Fresh, s, b) : b \in e .. (z + 1)}
        BY <1>1, <2>1, <2>3, <3>1, <3>2, <3>3 DEF Produced, Ahead
      <4>2. ASSUME NEW b \in e .. (z + 1) PROVE ChunkOK(Processed(Fresh, s, b), p)
        <5>1. b \in Nat /\ s < b /\ b <= Total + 1 /\ p.at <= s
          BY <1>1, <3>1, <3>2
        <5>2. Stands(Fresh, s)
          BY <3>1, BoundariesKnown, FreshStands
        <5>3. DataBytes(p.at, s) = 0 /\ Passed(s) = Passed(p.at) /\ p.msgs = Passed(p.at)
          BY <1>1, <3>1
        <5> QED
          BY <3>3, <5>1, <5>2, <5>3, ProcessedOK
      <4>3. e \in e .. (z + 1)
        BY <3>2
      <4>4. Produced # {}
        BY <4>1, <4>3
      <4> QED
        BY <4>1, <4>2, <4>4
    <3>4. CASE p.kind = "iterator"
      <4>1. PICK d : d = [view |-> e - s, prod |-> [p EXCEPT !.at = e, !.msgs = @ + 1]]
        OBVIOUS
      <4>2. Produced = {d}
        BY <2>3, <3>1, <3>2, <3>4, <4>1 DEF Produced, FromIterator
      <4>3. PICK q : q = [p EXCEPT !.at = e, !.msgs = @ + 1]
        OBVIOUS
      <4>4. d.view = e - s /\ d.prod = q
        BY <4>1, <4>3
      <4>5. q \in ProdType /\ q.at = e /\ q.msgs = p.msgs + 1 /\ q.tracked = p.tracked /\ q.next = p.next
        BY <3>2, <4>3, IteratedOn DEF IteratedTo
      <4>6. Passes(s, e, 1)
        BY <3>1, <3>2, BodyEnds
      <4>7. DataBytes(h, e) = DataBytes(h, s) + DataBytes(s, e)
        BY <3>1, <3>2, DataAdds
      <4>8. DataBytes(s, e) = e - s /\ Passed(e) = Passed(s) + 1
        BY <4>6 DEF Passes
      <4>9. PICK x \in Nat : x = e - s
        BY <3>2
      <4>14. PICK m \in Nat : m = Passed(h)
        BY PassedKnown
      <4>10. DataBytes(h, e) = 0 + x /\ Passed(e) = m + 1
        BY <3>1, <4>7, <4>8, <4>9, <4>14
      <4>11. d.view \in Nat /\ d.view = DataBytes(p.at, e) /\ q.msgs = Passed(e) /\ p.at <= e
        BY <1>1, <3>1, <3>2, <4>4, <4>5, <4>9, <4>10, <4>14
      <4>12. ProducerOK(q)
        BY <1>1, <1>3, <2>1, <3>2, <4>5, <4>11 DEF ProducerOK
      <4>13. ChunkOK(d, p)
        BY <4>4, <4>5, <4>11, <4>12 DEF ChunkOK
      <4> QED
        BY <4>2, <4>13
    <3> QED
      BY <1>2, <3>3, <3>4
  <2> QED
    BY <2>2, <2>3
<1>4. CASE p.tracked = TRUE
  <2>1. p.next = "recv" /\ p.kind = "statement" /\ Stands(p.ws, h)
    BY <1>1, <1>4 DEF ProducerOK
  <2>2. Produced = {Processed(p.ws, h, b) : b \in (h + 1) .. (z + 1)}
    BY <1>1, <2>1 DEF Produced, Ahead
  <2>3. ASSUME NEW b \in (h + 1) .. (z + 1) PROVE ChunkOK(Processed(p.ws, h, b), p)
    <3>1. b \in Nat /\ h < b /\ b <= Total + 1 /\ p.at <= h
      BY <1>1
    <3>2. DataBytes(p.at, h) = 0
      BY <1>1, NothingPassed DEF Passes
    <3> QED
      BY <1>1, <2>1, <3>1, <3>2, ProcessedOK
  <2>4. h + 1 \in (h + 1) .. (z + 1)
    BY <1>1
  <2>5. Produced # {}
    BY <2>2, <2>4
  <2> QED
    BY <2>2, <2>3, <2>5
<1> QED
  BY <1>3, <1>4

-----------------------------------------------------------------------------
(* The manager: what each receiver has, in every phase.                    *)
RecvType == [in : BOOLEAN, view : Nat, got : Nat, missed : BOOLEAN, done : {"open", "failed", "done"}]
CopyTypes ==
  /\ yPhase \in {"new", "user", "transmit", "leaving", "done"}
  /\ yTyp \in {"none", "error", "base"}
  /\ yProd \in ProdType
  /\ yRecv \in [Receivers -> RecvType]
  /\ ySeen \in BOOLEAN
  /\ yOut \in {"running", "ok", "CopyFail", "base"}
  /\ yLog \in [stopped : BOOLEAN, early : BOOLEAN]

\* What a receiver has sent and what it still holds are the data that has passed, unless
\* it missed some; between two calls one in the set holds nothing.
RecvOK(x, phase, at) ==
  /\ phase # "done" => x.missed = TRUE \/ x.got + x.view = DataBytes(0, at)
  /\ phase \notin {"transmit", "done"} /\ x.in = TRUE => x.view = 0
ReceiversOK == \A r \in Receivers : RecvOK(yRecv[r], yPhase, yProd.at)

AllOut == \A r \in Receivers : yRecv[r].in # TRUE
Given(x) == x.in = TRUE => x.done = "done" /\ (x.missed = TRUE \/ x.got = DataBytes(0, Total))
\* An iteration that stopped has come to the end of the data, or lost every receiver.
Ending ==
  /\ yPhase = "new" => yProd.tracked # TRUE
  /\ yPhase # "done" => yOut = "running"
  /\ yPhase = "leaving" => yLog.stopped = TRUE \/ yLog.early = TRUE \/ yTyp = "error"
  /\ yLog.stopped = TRUE => AllOut \/ DataBytes(0, yProd.at) = DataBytes(0, Total)
  /\ yOut = "ok" /\ yLog.early # TRUE => \A r \in Receivers : Given(yRecv[r])
CopyInv == CopyTypes /\ ProducerOK(yProd) /\ ReceiversOK /\ Ending

LEMMA InKnown ==
  ASSUME CopyTypes, NEW r \in Receivers
  PROVE  /\ yRecv[r] \in RecvType
         /\ r \in In <=> yRecv[r].in = TRUE
         /\ r \notin In <=> yRecv[r].in = FALSE
<1>1. yRecv[r] \in RecvType
  BY DEF CopyTypes
<1>2. yRecv[r].in \in BOOLEAN
  BY <1>1 DEF RecvType
<1> QED
  BY <1>1, <1>2 DEF In

LEMMA LogKnown ==
  ASSUME CopyTypes
  PROVE  yLog.stopped \in BOOLEAN /\ yLog.early \in BOOLEAN
BY DEF CopyTypes

\* A receiver's fields, one by one.
LEMMA ViewSet ==
  ASSUME NEW x \in RecvType, NEW n \in Nat
  PROVE  LET y == [x EXCEPT !.view = n]
         IN  y \in RecvType /\ y.in = x.in /\ y.view = n /\ y.got = x.got /\ y.missed = x.missed /\ y.done = x.done
BY DEF RecvType

LEMMA CopyStarts == CopyInit => CopyInv
<1> SUFFICES ASSUME CopyInit PROVE CopyInv
  OBVIOUS
<1>1. Fresh \in WireStates /\ 0 \in Nat
  BY BoundariesKnown, FreshStands DEF Stands
<1>2. yProd.at = 0 /\ yProd.tracked = FALSE /\ yProd.next = "confiscate" /\ yProd.msgs = 0 /\ yProd \in ProdType
  BY <1>1 DEF CopyInit, ProdType
<1>3. CopyTypes
  BY <1>2 DEF CopyInit, CopyTypes, RecvType
<1>4. Passed(0) = 0
  <2>1. {s \in DataStarts : EndAt(s) <= 0} = {}
    <3>1. ASSUME NEW s \in DataStarts, EndAt(s) <= 0 PROVE FALSE
      <4>1. PICK x \in Nat, e \in Nat : x = s /\ e = EndAt(s)
        BY EndsKnown
      <4>2. x + 5 <= e /\ e <= 0
        BY <3>1, <4>1, EndsKnown
      <4> QED
        BY <4>2
    <3> QED
      BY <3>1
  <2> QED
    BY <2>1, FS_EmptySet DEF Passed
<1>5. ProducerOK(yProd)
  BY <1>2, <1>4, BoundariesKnown DEF ProducerOK
<1>6. DataBytes(0, 0) = 0
  BY <1>1, NothingPassed DEF Passes
<1>7. ReceiversOK
  <2>1. ASSUME NEW r \in Receivers PROVE RecvOK(yRecv[r], yPhase, yProd.at)
    <3>1. yRecv[r] = [in |-> TRUE, view |-> 0, got |-> 0, missed |-> FALSE, done |-> "open"]
      BY DEF CopyInit
    <3>2. yRecv[r].got = 0 /\ yRecv[r].view = 0 /\ yRecv[r].got + yRecv[r].view = 0
      BY <3>1
    <3> QED
      BY <1>2, <1>6, <3>2 DEF RecvOK
  <2> QED
    BY <2>1 DEF ReceiversOK
<1>8. Ending
  BY <1>2 DEF Ending, CopyInit
<1> QED
  BY <1>3, <1>5, <1>7, <1>8 DEF CopyInv

LEMMA EnterKeeps == ASSUME CopyInv, Enter PROVE CopyInv'
<1>1. yPhase = "new" /\ yRecv' = yRecv /\ ySeen' = ySeen /\ yOut' = yOut /\ yLog' = yLog
  BY DEF Enter
<1>2. PICK k \in {"statement", "iterator"}, ok \in BOOLEAN :
        /\ yProd' = [yProd EXCEPT !.kind = k, !.running = k = "statement"]
        /\ yPhase' = IF ok THEN "user" ELSE "leaving"
        /\ yTyp' = IF ok THEN "none" ELSE "error"
  BY DEF Enter
<1>3. yProd' \in ProdType /\ yProd'.at = yProd.at /\ yProd'.msgs = yProd.msgs /\ yProd'.tracked = yProd.tracked
      /\ yProd'.next = yProd.next
  BY <1>2 DEF CopyInv, CopyTypes, ProdType
<1>4. CopyTypes'
  BY <1>1, <1>2, <1>3 DEF CopyInv, CopyTypes
<1>5. ProducerOK(yProd')
  BY <1>1, <1>3 DEF CopyInv, Ending, ProducerOK
<1>6. ReceiversOK'
  BY <1>1, <1>2, <1>3 DEF CopyInv, ReceiversOK, RecvOK
<1>7. Ending'
  BY <1>1, <1>2, <1>3 DEF CopyInv, Ending, AllOut
<1> QED
  BY <1>4, <1>5, <1>6, <1>7 DEF CopyInv

LEMMA FaultKeeps == ASSUME CopyInv, ProducerFault PROVE CopyInv'
<1>1. yPhase = "user" /\ yRecv' = yRecv /\ ySeen' = ySeen /\ yOut' = yOut
      /\ yProd' = [yProd EXCEPT !.dead = TRUE] /\ yPhase' = "leaving" /\ yLog' = [yLog EXCEPT !.early = TRUE]
      /\ yTyp' \in {"none", "error"}
  BY DEF ProducerFault
<1>2. yProd' \in ProdType /\ yProd'.at = yProd.at /\ yProd'.msgs = yProd.msgs /\ yProd'.tracked = yProd.tracked
      /\ yProd'.next = yProd.next /\ yProd'.kind = yProd.kind /\ yProd'.ws = yProd.ws
  BY <1>1 DEF CopyInv, CopyTypes, ProdType
<1>3. yLog' \in [stopped : BOOLEAN, early : BOOLEAN] /\ yLog'.stopped = yLog.stopped /\ yLog'.early = TRUE
  BY <1>1 DEF CopyInv, CopyTypes
<1>4. CopyTypes'
  BY <1>1, <1>2, <1>3 DEF CopyInv, CopyTypes
<1>5. ProducerOK(yProd')
  BY <1>2 DEF CopyInv, ProducerOK
<1>6. ReceiversOK'
  BY <1>1, <1>2 DEF CopyInv, ReceiversOK, RecvOK
<1>7. Ending'
  BY <1>1, <1>2, <1>3 DEF CopyInv, Ending, AllOut
<1> QED
  BY <1>4, <1>5, <1>6, <1>7 DEF CopyInv

LEMMA LeaveKeeps == ASSUME CopyInv, LeaveBlock PROVE CopyInv'
<1>1. yPhase = "user" /\ yProd' = yProd /\ yRecv' = yRecv /\ ySeen' = ySeen /\ yOut' = yOut
      /\ yPhase' = "leaving" /\ yTyp' \in {"none", "error", "base"}
      /\ yLog' = [yLog EXCEPT !.early = @ \/ ~yLog.stopped]
  BY DEF LeaveBlock
<1>2. PICK s \in BOOLEAN, e \in BOOLEAN : yLog = [stopped |-> s, early |-> e]
  BY DEF CopyInv, CopyTypes
<1>3. yLog' = [stopped |-> s, early |-> (e \/ ~s)]
  BY <1>1, <1>2
<1>4. yLog' \in [stopped : BOOLEAN, early : BOOLEAN] /\ yLog'.stopped = yLog.stopped
  BY <1>2, <1>3
<1>5. yLog.early = TRUE => yLog'.early = TRUE
  BY <1>2, <1>3
<1>6. yLog'.stopped = TRUE \/ yLog'.early = TRUE
  BY <1>2, <1>3
<1>7. CopyTypes'
  BY <1>1, <1>4 DEF CopyInv, CopyTypes
<1>8. ReceiversOK'
  BY <1>1 DEF CopyInv, ReceiversOK, RecvOK
<1>9. Ending'
  BY <1>1, <1>4, <1>5, <1>6 DEF CopyInv, Ending, AllOut
<1> QED
  BY <1>1, <1>7, <1>8, <1>9 DEF CopyInv

\* A receiver that sent k of the bytes it holds.
SentOf(y, x, k) ==
  /\ y \in RecvType /\ y.in = x.in /\ y.got + y.view = x.got + x.view /\ y.view = x.view - k
  /\ y.missed = x.missed /\ y.done = x.done

LEMMA SendsSome ==
  ASSUME NEW x \in RecvType, NEW k \in Nat, k <= x.view
  PROVE  SentOf(Sends(x, k), x, k)
<1>1. PICK i \in BOOLEAN, v \in Nat, g \in Nat, m \in BOOLEAN, d \in {"open", "failed", "done"} :
        x = [in |-> i, view |-> v, got |-> g, missed |-> m, done |-> d]
  BY DEF RecvType
<1>2. PICK c \in Nat, l \in Nat : c = g + k /\ l = v - k /\ c + l = g + v
  <2>1. g + k \in Nat /\ v - k \in Nat /\ (g + k) + (v - k) = g + v
    BY <1>1
  <2> QED
    BY <2>1
<1>3. PICK y : y = Sends(x, k)
  OBVIOUS
<1>4. y = [in |-> i, view |-> x.view - k, got |-> x.got + k, missed |-> m, done |-> d]
  BY <1>1, <1>3 DEF Sends
<1>5. x.view - k = l /\ x.got + k = c
  BY <1>1, <1>2
<1>6. y = [in |-> i, view |-> l, got |-> c, missed |-> m, done |-> d]
  BY <1>4, <1>5
<1>7. y \in RecvType
  BY <1>6 DEF RecvType
<1>8. y.in = x.in /\ y.missed = x.missed /\ y.done = x.done /\ y.got + y.view = x.got + x.view /\ y.view = x.view - k
  BY <1>1, <1>2, <1>6
<1> QED
  BY <1>3, <1>7, <1>8 DEF SentOf

LEMMA InSet ==
  ASSUME NEW x \in RecvType, NEW i \in BOOLEAN
  PROVE  LET y == [x EXCEPT !.in = i]
         IN  y \in RecvType /\ y.in = i /\ y.view = x.view /\ y.got = x.got /\ y.missed = x.missed /\ y.done = x.done
BY DEF RecvType

LEMMA TransmitDoes ==
  ASSUME CopyInv, Transmit, NEW r \in Receivers
  PROVE  /\ yRecv'[r] \in RecvType /\ RecvOK(yRecv'[r], "user", yProd.at)
         /\ yRecv[r].in # TRUE => yRecv'[r].in # TRUE
<1>1. PICK x \in RecvType : x = yRecv[r]
  BY DEF CopyInv, CopyTypes
<1>2. yPhase = "transmit"
  BY DEF Transmit
<1>3. x.missed = TRUE \/ x.got + x.view = DataBytes(0, yProd.at)
  BY <1>1, <1>2 DEF CopyInv, ReceiversOK, RecvOK
<1>4. PICK faulty \in SUBSET In, part \in {0, 1} :
        yRecv' = [q \in Receivers |->
            IF q \notin In THEN yRecv[q]
            ELSE IF q \notin faulty THEN Sends(yRecv[q], yRecv[q].view)
            ELSE [Sends(yRecv[q], IF yRecv[q].view > part /\ q \notin Callers THEN part ELSE 0)
                    EXCEPT !.in = FALSE]]
  BY DEF Transmit
<1>5. (r \in In <=> x.in = TRUE) /\ (r \notin In <=> x.in = FALSE)
  BY <1>1, InKnown DEF CopyInv
<1>6. PICK v \in Nat : v = x.view
  BY DEF RecvType
<1>7. CASE r \notin In
  <2>1. yRecv'[r] = x
    BY <1>1, <1>4, <1>7
  <2> QED
    BY <1>1, <1>3, <1>5, <1>7, <2>1 DEF RecvOK
<1>8. CASE r \in In /\ r \notin faulty
  <2>1. yRecv'[r] = Sends(x, v)
    BY <1>1, <1>4, <1>6, <1>8
  <2>2. SentOf(Sends(x, v), x, v)
    BY <1>6, SendsSome
  <2>3. PICK y : y = Sends(x, v)
    OBVIOUS
  <2>4. y \in RecvType /\ y.in = TRUE /\ y.got + y.view = x.got + x.view /\ y.view = v - v /\ y.missed = x.missed
    BY <1>5, <1>6, <1>8, <2>2, <2>3 DEF SentOf
  <2>5. v - v = 0
    OBVIOUS
  <2>6. RecvOK(y, "user", yProd.at)
    BY <1>3, <2>4, <2>5 DEF RecvOK
  <2> QED
    BY <1>1, <1>5, <1>8, <2>1, <2>3, <2>4, <2>6
<1>9. CASE r \in faulty
  <2>1. PICK k \in {0, 1} : k <= v /\ yRecv'[r] = [Sends(x, k) EXCEPT !.in = FALSE]
    <3>1. yRecv'[r] = [Sends(x, IF v > part /\ r \notin Callers THEN part ELSE 0) EXCEPT !.in = FALSE]
      BY <1>1, <1>4, <1>6, <1>9
    <3>2. PICK k \in {0, 1} : k = (IF v > part /\ r \notin Callers THEN part ELSE 0) /\ k <= v
      <4>1. CASE v > part /\ r \notin Callers
        BY <4>1
      <4>2. CASE ~(v > part /\ r \notin Callers)
        BY <4>2
      <4> QED
        BY <4>1, <4>2
    <3> QED
      BY <3>1, <3>2, Zenon
  <2>2. SentOf(Sends(x, k), x, k)
    BY <1>6, <2>1, SendsSome
  <2>3. PICK y : y = Sends(x, k)
    OBVIOUS
  <2>4. y \in RecvType /\ y.got + y.view = x.got + x.view /\ y.missed = x.missed
    BY <2>2, <2>3 DEF SentOf
  <2>5. PICK z : z = [y EXCEPT !.in = FALSE]
    OBVIOUS
  <2>6. z \in RecvType /\ z.in = FALSE /\ z.view = y.view /\ z.got = y.got /\ z.missed = y.missed
    BY <2>4, <2>5, InSet
  <2>7. z.got + z.view = x.got + x.view
    BY <2>4, <2>6
  <2>8. RecvOK(z, "user", yProd.at)
    BY <1>3, <2>4, <2>6, <2>7 DEF RecvOK
  <2> QED
    BY <2>1, <2>3, <2>5, <2>6, <2>8
<1> QED
  BY <1>7, <1>8, <1>9

LEMMA TransmitKeeps == ASSUME CopyInv, Transmit PROVE CopyInv'
<1>1. yPhase = "transmit" /\ yProd' = yProd /\ ySeen' = ySeen /\ yOut' = yOut /\ yLog' = yLog
      /\ yPhase' \in {"user", "leaving"} /\ (yTyp' = yTyp \/ yTyp' = "error")
      /\ (yPhase' = "leaving" => yTyp' = "error")
  BY DEF Transmit
<1>2. yRecv' = [q \in Receivers |-> yRecv'[q]]
  BY DEF Transmit
<1>3. \A r \in Receivers :
        /\ yRecv'[r] \in RecvType /\ RecvOK(yRecv'[r], "user", yProd.at)
        /\ yRecv[r].in # TRUE => yRecv'[r].in # TRUE
  BY TransmitDoes
<1>4. CopyTypes'
  <2>1. yRecv' \in [Receivers -> RecvType]
    BY <1>2, <1>3
  <2> QED
    BY <1>1, <2>1 DEF CopyInv, CopyTypes
<1>5. ReceiversOK'
  BY <1>1, <1>3 DEF ReceiversOK, RecvOK
<1>6. AllOut => AllOut'
  BY <1>3 DEF AllOut
<1>7. Ending'
  BY <1>1, <1>6 DEF CopyInv, Ending
<1> QED
  BY <1>1, <1>4, <1>5, <1>7 DEF CopyInv

LEMMA ReconcileKeeps == ASSUME CopyInv, Reconcile PROVE CopyInv'
<1>1. yPhase = "user" /\ yLog.stopped # TRUE /\ yPhase' = yPhase /\ yTyp' = yTyp /\ yProd' = yProd /\ ySeen' = ySeen
      /\ yOut' = yOut /\ yLog' = yLog
  BY DEF Reconcile
<1>2. PICK r \in Receivers \ In : yRecv' = [yRecv EXCEPT ![r] = [Sends(@, @.view) EXCEPT !.in = TRUE]]
  BY DEF Reconcile
<1>3. PICK x \in RecvType : x = yRecv[r]
  BY DEF CopyInv, CopyTypes
<1>4. PICK v \in Nat : v = x.view
  BY DEF RecvType
<1>5. SentOf(Sends(x, v), x, v)
  BY <1>4, SendsSome
<1>6. PICK y : y = Sends(x, v)
  OBVIOUS
<1>7. y \in RecvType /\ y.got + y.view = x.got + x.view /\ y.view = v - v /\ y.missed = x.missed
  BY <1>4, <1>5, <1>6 DEF SentOf
<1>8. PICK z : z = [y EXCEPT !.in = TRUE]
  OBVIOUS
<1>9. z \in RecvType /\ z.view = y.view /\ z.got = y.got /\ z.missed = y.missed
  BY <1>7, <1>8, InSet
<1>10. yRecv' = [yRecv EXCEPT ![r] = z]
  BY <1>2, <1>3, <1>4, <1>6, <1>8
<1>11. RecvOK(z, "user", yProd.at)
  <2>1. x.missed = TRUE \/ x.got + x.view = DataBytes(0, yProd.at)
    BY <1>1, <1>3 DEF CopyInv, ReceiversOK, RecvOK
  <2>2. v - v = 0 /\ z.got + z.view = x.got + x.view
    BY <1>7, <1>9
  <2> QED
    BY <1>7, <1>9, <2>1, <2>2 DEF RecvOK
<1>12. CopyTypes'
  <2>1. yRecv' \in [Receivers -> RecvType]
    BY <1>9, <1>10 DEF CopyInv, CopyTypes
  <2> QED
    BY <1>1, <2>1 DEF CopyInv, CopyTypes
<1>13. ReceiversOK'
  <2>1. ASSUME NEW q \in Receivers PROVE RecvOK(yRecv'[q], yPhase, yProd.at)
    <3>1. CASE q = r
      <4>1. yRecv'[q] = z
        BY <1>10, <3>1 DEF CopyInv, CopyTypes
      <4> QED
        BY <1>1, <1>11, <4>1
    <3>2. CASE q # r
      <4>1. yRecv'[q] = yRecv[q]
        BY <1>10, <3>2 DEF CopyInv, CopyTypes
      <4> QED
        BY <4>1 DEF CopyInv, ReceiversOK
    <3> QED
      BY <3>1, <3>2
  <2> QED
    BY <1>1, <2>1 DEF ReceiversOK
<1>14. Ending'
  BY <1>1 DEF CopyInv, Ending
<1> QED
  BY <1>1, <1>12, <1>13, <1>14 DEF CopyInv

LEMMA ServiceKeeps == ASSUME CopyInv, ServiceProducer PROVE CopyInv'
<1>1. yPhase = "user" /\ yLog.stopped # TRUE /\ yTyp' = yTyp /\ yOut' = yOut
  BY DEF ServiceProducer
<1>2. PICK s \in BOOLEAN, e \in BOOLEAN : yLog = [stopped |-> s, early |-> e]
  BY DEF CopyInv, CopyTypes
<1>3. PICK p \in ProdType : p = yProd /\ ProducerOK(p)
  BY DEF CopyInv, CopyTypes
<1>4. CASE /\ yLog' = [yLog EXCEPT !.stopped = TRUE] /\ yPhase' = yPhase /\ yRecv' = yRecv
           /\ yProd' = p /\ ySeen' = ySeen /\ In = {}
  <2>1. AllOut
    BY <1>4, InKnown DEF CopyInv, AllOut
  <2>2. yLog' = [stopped |-> TRUE, early |-> e]
    BY <1>2, <1>4
  <2>3. yLog' \in [stopped : BOOLEAN, early : BOOLEAN]
    BY <2>2
  <2>4. CopyTypes'
    BY <1>1, <1>3, <1>4, <2>3 DEF CopyInv, CopyTypes
  <2>5. ReceiversOK'
    BY <1>3, <1>4 DEF CopyInv, ReceiversOK
  <2>6. Ending'
    BY <1>1, <1>3, <1>4, <2>1 DEF CopyInv, Ending, AllOut
  <2> QED
    BY <1>3, <1>4, <2>4, <2>5, <2>6 DEF CopyInv
<1>5. CASE /\ Produced = {} /\ ySeen' = TRUE /\ yLog' = [yLog EXCEPT !.stopped = TRUE]
           /\ yProd' = [p EXCEPT !.running = FALSE] /\ yPhase' = yPhase /\ yRecv' = yRecv
  <2>1. DataBytes(0, p.at) = DataBytes(0, Total)
    BY <1>3, <1>5, ProducedOK
  <2>2. yLog' = [stopped |-> TRUE, early |-> e]
    BY <1>2, <1>5
  <2>3. yLog' \in [stopped : BOOLEAN, early : BOOLEAN]
    BY <2>2
  <2>4. yProd' \in ProdType /\ yProd'.at = p.at /\ yProd'.msgs = p.msgs /\ yProd'.tracked = p.tracked
        /\ yProd'.next = p.next /\ yProd'.kind = p.kind /\ yProd'.ws = p.ws
    BY <1>5 DEF ProdType
  <2>5. CopyTypes'
    BY <1>1, <1>5, <2>3, <2>4 DEF CopyInv, CopyTypes
  <2>6. ProducerOK(yProd')
    BY <1>3, <2>4 DEF ProducerOK
  <2>7. ReceiversOK'
    BY <1>3, <1>5, <2>4 DEF CopyInv, ReceiversOK
  <2>8. Ending'
    BY <1>1, <1>3, <1>5, <2>1, <2>4 DEF CopyInv, Ending
  <2> QED
    BY <2>5, <2>6, <2>7, <2>8 DEF CopyInv
<1>6. CASE /\ \E d \in Produced : yProd' = d.prod /\ Accepts(d.view)
           /\ yPhase' = "transmit" /\ ySeen' = ySeen /\ yLog' = yLog
  <2>1. PICK d \in Produced : yProd' = d.prod /\ Accepts(d.view)
    BY <1>6
  <2>2. ChunkOK(d, p)
    BY <1>3, ProducedOK
  <2>3. PICK n \in Nat, q \in ProdType :
          n = d.view /\ q = d.prod /\ ProducerOK(q) /\ p.at <= q.at /\ n = DataBytes(p.at, q.at)
    BY <2>2 DEF ChunkOK
  <2>4. PICK a \in Nat, b \in Nat : a = p.at /\ b = q.at
    BY DEF ProdType
  <2>5. PICK x \in Nat, y \in Nat : x = DataBytes(0, a) /\ y = DataBytes(0, b)
    BY DataFinite
  <2>6. y = x + n
    <3>1. 0 \in Nat /\ 0 <= a /\ a <= b
      BY <2>3, <2>4
    <3>2. DataBytes(0, b) = DataBytes(0, a) + DataBytes(a, b)
      BY <3>1, DataAdds
    <3> QED
      BY <2>3, <2>4, <2>5, <3>2
  <2>7. ASSUME NEW r \in Receivers
        PROVE  /\ yRecv'[r] \in RecvType /\ RecvOK(yRecv'[r], "transmit", b)
               /\ yRecv'[r].in = yRecv[r].in
    <3>1. PICK c \in RecvType : c = yRecv[r]
      BY DEF CopyInv, CopyTypes
    <3>2. c.missed = TRUE \/ c.got + c.view = x
      BY <1>1, <1>3, <2>4, <2>5, <3>1 DEF CopyInv, ReceiversOK, RecvOK
    <3>3. (r \in In <=> c.in = TRUE) /\ (c.in = TRUE => c.view = 0)
      BY <1>1, <3>1, InKnown DEF CopyInv, ReceiversOK, RecvOK
    <3>4. PICK g \in Nat, v \in Nat, m \in BOOLEAN : g = c.got /\ v = c.view /\ m = c.missed
      BY DEF RecvType
    <3>5. CASE r \in In
      <4>1. yRecv'[r] = [c EXCEPT !.view = n]
        BY <2>1, <2>3, <3>1, <3>5 DEF Accepts
      <4>2. PICK z : z = [c EXCEPT !.view = n]
        OBVIOUS
      <4>3. z \in RecvType /\ z.in = c.in /\ z.view = n /\ z.got = g /\ z.missed = m
        BY <3>4, <4>2, ViewSet
      <4>4. m = TRUE \/ g + n = y
        BY <2>6, <3>2, <3>3, <3>4, <3>5
      <4>5. RecvOK(z, "transmit", b)
        BY <2>5, <4>3, <4>4 DEF RecvOK
      <4> QED
        BY <3>1, <4>1, <4>2, <4>3, <4>5
    <3>6. CASE r \notin In
      <4>1. yRecv'[r] = [c EXCEPT !.missed = @ \/ n > 0]
        BY <2>1, <2>3, <3>1, <3>6 DEF Accepts
      <4>2. PICK z : z = [c EXCEPT !.missed = @ \/ n > 0]
        OBVIOUS
      <4>3. z \in RecvType /\ z.in = c.in /\ z.view = v /\ z.got = g
        BY <3>4, <4>2 DEF RecvType
      <4>4. c.missed = TRUE \/ n > 0 => z.missed = TRUE
        BY <4>2 DEF RecvType
      <4>5. z.missed = TRUE \/ g + v = y
        <5>1. CASE n > 0
          BY <4>4, <5>1
        <5>2. CASE n = 0
          BY <2>6, <3>2, <3>4, <4>4, <5>2
        <5>3. n > 0 \/ n = 0
          OBVIOUS
        <5> QED
          BY <5>1, <5>2, <5>3, Zenon
      <4>6. RecvOK(z, "transmit", b)
        BY <2>5, <4>3, <4>5 DEF RecvOK
      <4> QED
        BY <3>1, <4>1, <4>2, <4>3, <4>6
    <3> QED
      BY <3>5, <3>6
  <2>8. yRecv' \in [Receivers -> RecvType]
    <3>1. yRecv' = [r \in Receivers |-> yRecv'[r]]
      BY <2>1 DEF Accepts
    <3> QED
      BY <2>7, <3>1
  <2>9. CopyTypes'
    BY <1>1, <1>6, <2>1, <2>3, <2>8 DEF CopyInv, CopyTypes
  <2>10. ProducerOK(yProd')
    BY <2>1, <2>3
  <2>11. ReceiversOK'
    BY <1>6, <2>1, <2>3, <2>4, <2>7 DEF ReceiversOK
  <2>12. Ending'
    BY <1>1, <1>6 DEF CopyInv, Ending
  <2> QED
    BY <2>9, <2>10, <2>11, <2>12 DEF CopyInv
<1> QED
  BY <1>3, <1>4, <1>5, <1>6 DEF ServiceProducer

LEMMA PaddingKnown ==
  ASSUME NEW p \in ProdType, p = yProd, ProducerOK(p)
  PROVE  Padding \in Nat
<1>1. CASE p.kind = "iterator" \/ p.tracked # TRUE
  BY <1>1 DEF Padding, ProdType
<1>2. CASE p.kind # "iterator" /\ p.tracked = TRUE
  <2>1. PICK h \in Nat, w \in WireStates : h = p.at /\ w = p.ws /\ Stands(w, h)
    BY <1>2 DEF ProducerOK, ProdType
  <2>2. Padding = IF w.rem = -1 THEN 4 - Len(w.frag) ELSE w.rem
    BY <1>2, <2>1 DEF Padding
  <2>3. CASE InHeader(w, h)
    <3>1. PICK s \in DataStarts : w.rem = -1 /\ s < h /\ h < s + 5 /\ w.frag = Bytes(s + 1, h)
      BY <2>3 DEF InHeader
    <3>2. PICK k \in Nat, j \in Nat : k = s /\ j = k + 1 /\ j <= h /\ h <= j + 3
      <4>1. PICK k \in Nat : k = s
        BY EndsKnown
      <4>2. k + 1 \in Nat /\ k + 1 <= h /\ h <= (k + 1) + 3
        BY <3>1, <4>1
      <4> QED
        BY <4>1, <4>2
    <3>3. Len(w.frag) = h - j
      BY <3>1, <3>2, BytesSpan
    <3>4. 4 - (h - j) \in Nat
      BY <3>2
    <3> QED
      BY <2>2, <3>1, <3>3, <3>4
  <2>4. CASE InBody(w, h)
    <3>1. PICK s \in DataStarts : h < EndAt(s) /\ h + w.rem = EndAt(s)
      BY <2>4 DEF InBody
    <3>2. PICK e \in Nat : e = EndAt(s)
      BY EndsKnown
    <3>3. PICK g \in Int : g = w.rem
      BY DEF WireStates
    <3>4. g \in Nat /\ g # -1
      BY <3>1, <3>2, <3>3
    <3> QED
      BY <2>2, <3>3, <3>4
  <2>5. CASE w.rem = 0
    BY <2>2, <2>5
  <2> QED
    BY <2>1, <2>3, <2>4, <2>5 DEF Stands
<1> QED
  BY <1>1, <1>2

LEMMA ExitKeeps == ASSUME CopyInv, Exit PROVE CopyInv'
<1>1. yPhase = "leaving" /\ yPhase' = "done" /\ yTyp' = yTyp /\ yProd' = yProd /\ yLog' = yLog
  BY DEF Exit
<1> DEFINE iterated == yProd.kind = "iterator" /\ FromIterator # {}
           view == IF In = {} THEN 0 ELSE IF iterated THEN (CHOOSE d \in FromIterator : TRUE).view ELSE Padding
           seen == ySeen \/ (In # {} /\ ~iterated /\ RealignedStop)
           interrupts == yProd.kind = "statement" /\ yProd.running /\ ~yProd.dead
           fails(r, refuse) == r \notin Callers /\ (view > 0 \/ yTyp = "error" \/ refuse)
<1>2. PICK late \in BOOLEAN, refuse \in BOOLEAN :
        /\ yRecv' = [r \in Receivers |->
                       IF r \notin In THEN yRecv[r]
                       ELSE [yRecv[r] EXCEPT !.view = view, !.done = IF fails(r, refuse) THEN "failed" ELSE "done"]]
        /\ yOut' = IF In = {} \/ yTyp = "error" \/ (interrupts /\ ~late) \/ ~seen \/ \E r \in In : fails(r, refuse)
                   THEN "CopyFail" ELSE "ok"
        /\ ySeen' = seen
  BY Zenon DEF Exit
<1>3. PICK p \in ProdType : p = yProd /\ ProducerOK(p)
  BY DEF CopyInv, CopyTypes
<1>4. view \in Nat
  <2>1. CASE In = {}
    BY <2>1
  <2>2. CASE In # {} /\ iterated
    <3>1. (CHOOSE d \in FromIterator : TRUE) \in Produced
      BY <2>2 DEF Produced
    <3>2. (CHOOSE d \in FromIterator : TRUE).view \in Nat
      BY <1>3, <3>1, ProducedOK DEF ChunkOK
    <3> QED
      BY <2>2, <3>2
  <2>3. CASE In # {} /\ ~iterated
    BY <1>3, <2>3, PaddingKnown
  <2> QED
    BY <2>1, <2>2, <2>3
<1>5. ySeen' \in BOOLEAN
  BY <1>2 DEF CopyInv, CopyTypes
<1> HIDE DEF iterated, view, seen, interrupts
<1>6. ASSUME NEW r \in Receivers
      PROVE  /\ yRecv'[r] \in RecvType /\ yRecv'[r].in = yRecv[r].in
             /\ yRecv'[r].got = yRecv[r].got /\ yRecv'[r].missed = yRecv[r].missed
             /\ r \in In /\ ~fails(r, refuse) => yRecv'[r].done = "done"
  <2>1. PICK c \in RecvType : c = yRecv[r]
    BY DEF CopyInv, CopyTypes
  <2>2. CASE r \notin In
    BY <1>2, <2>1, <2>2
  <2>3. CASE r \in In
    <3>1. PICK d \in {"failed", "done"} : d = IF fails(r, refuse) THEN "failed" ELSE "done"
      OBVIOUS
    <3>2. yRecv'[r] = [c EXCEPT !.view = view, !.done = d]
      BY <1>2, <2>1, <2>3, <3>1
    <3>3. PICK z : z = [c EXCEPT !.view = view, !.done = d]
      OBVIOUS
    <3>4. z \in RecvType /\ z.in = c.in /\ z.got = c.got /\ z.missed = c.missed /\ z.done = d
      BY <1>4, <3>3 DEF RecvType
    <3> QED
      BY <2>1, <3>1, <3>2, <3>3, <3>4
  <2> QED
    BY <2>2, <2>3
<1>7. yOut' \in {"ok", "CopyFail"}
  BY <1>2
<1>8. CopyTypes'
  <2>1. yRecv' \in [Receivers -> RecvType]
    <3>1. yRecv' = [r \in Receivers |-> yRecv'[r]]
      BY <1>2
    <3> QED
      BY <1>6, <3>1
  <2> QED
    BY <1>1, <1>5, <1>7, <2>1 DEF CopyInv, CopyTypes
<1>9. ReceiversOK'
  BY <1>1 DEF ReceiversOK, RecvOK
<1>10. AllOut => AllOut'
  BY <1>6 DEF AllOut
<1>11. ASSUME yOut' = "ok", yLog.early # TRUE, NEW r \in Receivers, yRecv'[r].in = TRUE
       PROVE  yRecv'[r].done = "done" /\ (yRecv'[r].missed = TRUE \/ yRecv'[r].got = DataBytes(0, Total))
  <2>1. In # {} /\ yTyp # "error" /\ ~\E q \in In : fails(q, refuse)
    BY <1>2, <1>11
  <2>2. r \in In /\ yRecv[r].in = TRUE
    BY <1>6, <1>11, InKnown DEF CopyInv
  <2>3. yRecv'[r].done = "done"
    BY <1>6, <2>1, <2>2
  <2>4. yLog.stopped = TRUE
    BY <1>1, <1>11, <2>1 DEF CopyInv, Ending
  <2>5. DataBytes(0, yProd.at) = DataBytes(0, Total)
    BY <2>2, <2>4 DEF CopyInv, Ending, AllOut
  <2>6. PICK c \in RecvType : c = yRecv[r]
    BY DEF CopyInv, CopyTypes
  <2>7. PICK g \in Nat, v \in Nat : g = c.got /\ v = c.view
    BY DEF RecvType
  <2>8. v = 0 /\ (c.missed = TRUE \/ g + v = DataBytes(0, yProd.at))
    BY <1>1, <2>2, <2>6, <2>7 DEF CopyInv, ReceiversOK, RecvOK
  <2>9. c.missed = TRUE \/ g = DataBytes(0, Total)
    BY <2>5, <2>8
  <2> QED
    BY <1>6, <2>3, <2>6, <2>7, <2>9
<1>12. Ending'
  BY <1>1, <1>10, <1>11 DEF CopyInv, Ending, Given
<1> QED
  BY <1>1, <1>8, <1>9, <1>12 DEF CopyInv

LEMMA ExitBaseKeeps == ASSUME CopyInv, ExitBase PROVE CopyInv'
<1>1. yPhase' = "done" /\ yOut' = "base" /\ yTyp' = yTyp /\ yProd' = yProd /\ yRecv' = yRecv /\ ySeen' = ySeen
      /\ yLog' = yLog
  BY DEF ExitBase
<1>2. CopyTypes' /\ ReceiversOK'
  BY <1>1 DEF CopyInv, CopyTypes, ReceiversOK, RecvOK
<1>3. Ending'
  BY <1>1 DEF CopyInv, Ending, AllOut
<1> QED
  BY <1>1, <1>2, <1>3 DEF CopyInv

LEMMA CopyKeeps == ASSUME CopyInv, [CopyNext]_copyVars PROVE CopyInv'
<1>1. CASE UNCHANGED copyVars
  BY <1>1 DEF copyVars, CopyInv, CopyTypes, ReceiversOK, Ending, AllOut
<1>2. CASE CopyNext
  BY <1>2, EnterKeeps, ServiceKeeps, FaultKeeps, TransmitKeeps, ReconcileKeeps, LeaveKeeps, ExitKeeps,
     ExitBaseKeeps DEF CopyNext
<1> QED
  BY <1>1, <1>2

\* However the stream is cut into pieces, the producer knows where it stands in a message
\* and how many have passed (WireState.update), so that a realigned copy ends at a boundary.
THEOREM WireTheorem == CopySpec => []WirePosition
<1>1. CopyInit => CopyInv
  BY CopyStarts
<1>2. CopyInv /\ [CopyNext]_copyVars => CopyInv'
  BY CopyKeeps
<1>3. CopyInv => WirePosition
  <2> SUFFICES ASSUME CopyInv PROVE WirePosition
    OBVIOUS
  <2>1. PICK h \in Nat, w \in WireStates : h = yProd.at /\ w = yProd.ws
    BY DEF CopyInv, CopyTypes, ProdType
  <2>2. yProd.msgs = Cardinality({s \in DataStarts : EndAt(s) <= h})
    BY <2>1 DEF CopyInv, ProducerOK, Passed
  <2>3. ASSUME yProd.tracked
        PROVE  IF w.rem = -1 THEN h - 1 - Len(w.frag) \in DataStarts /\ Len(w.frag) < 4
               ELSE h + w.rem \in Boundaries /\ ~\E q \in h .. (h + w.rem - 1) : w.rem > 0 /\ q \in Boundaries
    <3>1. Stands(w, h)
      BY <2>1, <2>3 DEF CopyInv, CopyTypes, ProducerOK, ProdType
    <3>2. CASE InHeader(w, h)
      <4>1. PICK s \in DataStarts : w.rem = -1 /\ s < h /\ h < s + 5 /\ w.frag = Bytes(s + 1, h)
        BY <3>2 DEF InHeader
      <4>2. PICK k \in Nat : k = s
        BY EndsKnown
      <4>3. k + 1 \in Nat /\ k + 1 <= h
        BY <4>1, <4>2
      <4>4. Len(w.frag) = h - (k + 1)
        BY <4>1, <4>2, <4>3, BytesSpan
      <4>5. h - 1 - (h - (k + 1)) = k /\ h - (k + 1) < 4
        BY <4>1, <4>2
      <4> QED
        BY <4>1, <4>2, <4>4, <4>5
    <3>3. CASE InBody(w, h)
      <4>1. PICK s \in DataStarts : s < h /\ h < EndAt(s) /\ h + w.rem = EndAt(s)
        BY <3>3 DEF InBody
      <4>2. PICK k \in Nat, e \in Nat : k = s /\ e = EndAt(s)
        BY EndsKnown
      <4>3. PICK g \in Int : g = w.rem
        BY DEF WireStates
      <4>4. g # -1 /\ h + g = e /\ e \in Boundaries
        BY <4>1, <4>2, <4>3, EndsKnown
      <4>5. ASSUME NEW q \in h .. (h + g - 1), q \in Boundaries PROVE FALSE
        <5>1. q <= k \/ e <= q
          BY <4>2, <4>5, EndsKnown
        <5>2. k < q /\ q < e
          BY <4>1, <4>2, <4>4, <4>5
        <5> QED
          BY <5>1, <5>2
      <4> QED
        BY <4>3, <4>4, <4>5
    <3>4. CASE w.rem = 0 /\ h \in Boundaries
      <4>1. w.rem # -1 /\ h + w.rem = h /\ ~(w.rem > 0)
        BY <3>4
      <4> QED
        BY <3>4, <4>1
    <3> QED
      BY <3>1, <3>2, <3>3, <3>4 DEF Stands
  <2> QED
    BY <2>1, <2>2, <2>3 DEF WirePosition
<1> QED
  BY <1>1, <1>2, <1>3, PTL DEF CopySpec

\* Between two calls every receiver in the set has accepted exactly the data that has passed,
\* and a copy that was iterated to its end and left without an exception has given every
\* byte of the source to each of them (CopyManager: __next__, reconcile and __exit__).
THEOREM CopyTheorem == CopySpec => []NoSilentTruncation
<1>1. CopyInit => CopyInv
  BY CopyStarts
<1>2. CopyInv /\ [CopyNext]_copyVars => CopyInv'
  BY CopyKeeps
<1>3. CopyInv => NoSilentTruncation
  <2> SUFFICES ASSUME CopyInv PROVE NoSilentTruncation
    OBVIOUS
  <2>1. ASSUME yPhase \in {"user", "leaving"}, NEW r \in In
        PROVE  yRecv[r].missed \/ yRecv[r].got = DataBytes(0, yProd.at)
    <3>1. r \in Receivers
      BY DEF In
    <3>2. PICK c \in RecvType : c = yRecv[r]
      BY <3>1 DEF CopyInv, CopyTypes
    <3>3. PICK g \in Nat, v \in Nat : g = c.got /\ v = c.view
      BY DEF RecvType
    <3>4. v = 0 /\ (c.missed = TRUE \/ g + v = DataBytes(0, yProd.at))
      BY <2>1, <3>1, <3>2, <3>3, InKnown DEF CopyInv, ReceiversOK, RecvOK
    <3>5. c.missed = TRUE \/ g = DataBytes(0, yProd.at)
      BY <3>4
    <3> QED
      BY <3>2, <3>3, <3>5
  <2>2. ASSUME yOut = "ok", ~yLog.early, NEW r \in In
        PROVE  yRecv[r].done = "done" /\ (yRecv[r].missed \/ yRecv[r].got = DataBytes(0, Total))
    <3>1. r \in Receivers /\ yRecv[r].in = TRUE
      BY InKnown DEF In, CopyInv
    <3>2. yLog.early # TRUE
      BY <2>2
    <3> QED
      BY <2>2, <3>1, <3>2 DEF CopyInv, Ending, Given
  <2> QED
    BY <2>1, <2>2 DEF NoSilentTruncation
<1> QED
  BY <1>1, <1>2, <1>3, PTL DEF CopySpec

=============================================================================
