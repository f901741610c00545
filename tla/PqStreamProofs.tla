---------------------------- MODULE PqStreamProofs ----------------------------
(***************************************************************************)
(* Proofs about what comes in over a connection in order: the greeting of  *)
(* a server while a connection is established, its notifications, and the  *)
(* messages that both buffers cut the bytes into, for any number of hosts, *)
(* connections and messages.                                               *)
(***************************************************************************)
EXTENDS PqNotify, PqConnect, PqFrames, TLAPS, FiniteSetTheorems, WellFoundedInduction

-----------------------------------------------------------------------------
(* Sequences, and the joining of a sequence of them.                       *)

\* A set of numbers has a least one.
LEMMA Earliest ==
  ASSUME NEW S \in SUBSET Nat, S # {}
  PROVE  \E x \in S : \A y \in S : x <= y
<1>1. PICK x \in S : \A y \in S : <<y, x>> \notin OpToRel(<, Nat)
  BY WFMin, NatLessThanWellFounded, Zenon
<1>2. \A y \in S : ~(y < x)
  <2>1. TAKE y \in S
  <2>2. y \in Nat /\ x \in Nat
    OBVIOUS
  <2>3. <<y, x>> \notin {ss \in Nat \X Nat : ss[1] < ss[2]}
    BY <1>1, Zenon DEF OpToRel
  <2>4. QED
    BY <2>2, <2>3
<1>3. QED
  BY <1>2

\* Induction, from < being well-founded.
LEMMA Inductive ==
  ASSUME NEW S \in SUBSET Nat, 0 \in S, \A n \in S : n + 1 \in S
  PROVE  S = Nat
<1>1. SUFFICES ASSUME Nat \ S # {} PROVE FALSE
  OBVIOUS
<1>2. PICK x \in Nat \ S : \A y \in Nat \ S : x <= y
  BY <1>1, Earliest
<1>3. x # 0 /\ x - 1 \in Nat
  BY <1>2
<1>4. x - 1 \in S
  BY <1>2, <1>3
<1>5. QED BY <1>4, <1>2

Joins(f, s) == f = [i \in 1 .. Len(s) |-> IF i = 1 THEN s[i] ELSE f[i - 1] \o s[i]]

\* The sequence of the joined beginnings of s, which FlattenSeq ends.
LEMMA JoinsExists ==
  ASSUME NEW T, NEW s \in Seq(Seq(T))
  PROVE \E f : Joins(f, s)
<1> DEFINE P(n, f) == f = [i \in 1 .. n |-> IF i = 1 THEN s[i] ELSE f[i - 1] \o s[i]]
<1> DEFINE S == {n \in Nat : \E f : P(n, f)}
<1>1. 0 \in S
  <2>1. P(0, <<>>)
    OBVIOUS
  <2> QED BY <2>1
<1>2. ASSUME NEW n \in S PROVE n + 1 \in S
  <2>1. PICK f : P(n, f)
    OBVIOUS
  <2>2. PICK last : last = IF n + 1 = 1 THEN s[n + 1] ELSE f[n] \o s[n + 1]
    OBVIOUS
  <2>3. PICK g : g = [i \in 1 .. (n + 1) |-> IF i = n + 1 THEN last ELSE f[i]]
    OBVIOUS
  <2>4. ASSUME NEW i \in 1 .. (n + 1) PROVE g[i] = IF i = 1 THEN s[i] ELSE g[i - 1] \o s[i]
    <3>1. CASE i = n + 1
      BY <2>2, <2>3, <3>1
    <3>2. CASE i # n + 1
      <4>1. i \in 1 .. n
        BY <3>2
      <4>2. g[i] = f[i] /\ (i # 1 => g[i - 1] = f[i - 1])
        BY <2>3, <4>1
      <4>3. f[i] = IF i = 1 THEN s[i] ELSE f[i - 1] \o s[i]
        BY <2>1, <4>1
      <4> QED BY <4>2, <4>3
    <3> QED BY <3>1, <3>2
  <2>5. g = [i \in 1 .. (n + 1) |-> g[i]]
    BY <2>3
  <2>6. P(n + 1, g)
    BY <2>4, <2>5
  <2>7. n + 1 \in Nat /\ \E h : P(n + 1, h)
    <3> HIDE DEF P
    <3> QED BY <2>6
  <2> QED BY <2>7
<1>3. S = Nat
  <2> HIDE DEF S
  <2>1. S \in SUBSET Nat BY DEF S
  <2> QED BY <1>1, <1>2, <2>1, Inductive
<1>4. Len(s) \in S
  <2>1. Len(s) \in Nat OBVIOUS
  <2> HIDE DEF S
  <2> QED BY <1>3, <2>1
<1> QED
  BY <1>4 DEF Joins

LEMMA Flattened ==
  ASSUME NEW T, NEW s \in Seq(Seq(T)), Len(s) # 0
  PROVE \E f : Joins(f, s) /\ FlattenSeq(s) = f[Len(s)]
<1>1. PICK f : f = CHOOSE g : Joins(g, s)
  OBVIOUS
<1>2. Joins(f, s)
  BY <1>1, JoinsExists
<1>3. FlattenSeq(s) = f[Len(s)]
  BY <1>1 DEF FlattenSeq, Joins
<1> QED BY <1>2, <1>3

LEMMA NoElements == ASSUME NEW T, NEW s \in Seq(T), Len(s) = 0 PROVE s = <<>>
OBVIOUS

LEMMA SameElements ==
  ASSUME NEW T, NEW s \in Seq(T), NEW t \in Seq(T), NEW n \in Nat, Len(s) = n, Len(t) = n,
         \A i \in 1 .. n : s[i] = t[i]
  PROVE  s = t
<1>1. DOMAIN s = 1 .. n /\ DOMAIN t = 1 .. n
  OBVIOUS
<1>2. s = [i \in 1 .. n |-> s[i]] /\ t = [i \in 1 .. n |-> t[i]]
  BY <1>1
<1> QED
  BY <1>2

\* A sequence of sequences of which at most one is not empty.
LEMMA OneFull ==
  ASSUME NEW s \in Seq(Seq(Nat)), NEW x \in Seq(Nat), NEW i \in Nat, i \in 1 .. Len(s) \/ x = <<>>,
         \A j \in 1 .. Len(s) : (j = i => s[j] = x) /\ (j # i => s[j] = <<>>)
  PROVE  FlattenSeq(s) = x
<1>1. PICK n \in Nat : n = Len(s)
  OBVIOUS
<1>2. CASE n = 0
  <2>1. s = <<>>
    BY <1>1, <1>2, NoElements
  <2>2. FlattenSeq(s) = IF Len(s) = 0 THEN s ELSE FlattenSeq(s)
    BY DEF FlattenSeq
  <2> QED
    BY <1>1, <1>2, <2>1, <2>2
<1>3. CASE n # 0
  <2>1. PICK f : Joins(f, s) /\ FlattenSeq(s) = f[n]
    BY <1>1, <1>3, Flattened
  <2>2. \A k \in 1 .. n : (k = 1 => f[k] = s[1]) /\ (k # 1 => f[k] = f[k - 1] \o s[k])
    BY <1>1, <2>1 DEF Joins
  <2> DEFINE Q(k) == (k < i => f[k] = <<>>) /\ (k >= i => f[k] = x)
             S == {k \in Nat : k \in 1 .. n => Q(k)}
  <2>3. 0 \in S
    OBVIOUS
  <2>4. ASSUME NEW k \in S PROVE k + 1 \in S
    <3> SUFFICES ASSUME k + 1 \in 1 .. n PROVE Q(k + 1)
      OBVIOUS
    <3>1. CASE k = 0
      <4>1. f[1] = s[1]
        <5>1. 1 \in 1 .. n
          BY <1>3
        <5> QED
          BY <2>2, <5>1
      <4>2. 1 \in 1 .. n /\ (1 < i => 1 # i) /\ (1 >= i => i = 1 \/ i = 0)
        BY <1>3
      <4>3. (1 = i => s[1] = x) /\ (1 # i => s[1] = <<>>)
        BY <1>1, <4>2
      <4>4. i = 0 => x = <<>>
        OBVIOUS
      <4> QED
        BY <3>1, <4>1, <4>2, <4>3, <4>4
    <3>2. CASE k # 0
      <4>1. k \in 1 .. n /\ Q(k)
        BY <3>2
      <4>2. PICK m \in 1 .. n : m = k + 1 /\ m # 1 /\ m - 1 = k
        BY <3>2
      <4>3. f[m] = f[k] \o s[m]
        BY <2>2, <4>2
      <4>4. (m = i => s[m] = x) /\ (m # i => s[m] = <<>>)
        BY <1>1
      <4>5. <<>> \o <<>> = <<>> /\ <<>> \o x = x /\ x \o <<>> = x
        OBVIOUS
      <4>6. CASE m = i
        <5>1. f[k] = <<>>
          BY <4>1, <4>2, <4>6
        <5> QED
          BY <4>2, <4>3, <4>4, <4>5, <4>6, <5>1
      <4>7. CASE m < i
        <5>1. f[k] = <<>>
          BY <4>1, <4>2, <4>7
        <5> QED
          BY <4>2, <4>3, <4>4, <4>5, <4>7, <5>1
      <4>8. CASE m > i
        <5>1. f[k] = x /\ s[m] = <<>> /\ ~(m < i)
          BY <4>1, <4>2, <4>4, <4>8
        <5>2. f[m] = x
          BY <4>3, <4>5, <5>1
        <5> QED
          BY <4>2, <5>1, <5>2
      <4> QED
        BY <4>6, <4>7, <4>8
    <3> QED
      BY <3>1, <3>2
  <2>5. S = Nat
    <3>1. S \in SUBSET Nat
      OBVIOUS
    <3> HIDE DEF S
    <3> QED
      BY <2>3, <2>4, <3>1, Inductive
  <2>6. n \in 1 .. n
    BY <1>3
  <2>7. Q(n)
    BY <2>5, <2>6
  <2>8. n < i => x = <<>>
    BY <1>1
  <2> QED
    BY <2>1, <2>7, <2>8
<1> QED
  BY <1>2, <1>3

-----------------------------------------------------------------------------
(* The notification manager.                                               *)

\* What a connection was sent from a to b is a sequence of numbers.
LEMMA NumbersKnown ==
  ASSUME NEW a \in Nat, NEW b \in Nat, a <= b
  PROVE  /\ Numbers(a, b) \in Seq(Nat) /\ Len(Numbers(a, b)) = b - a
         /\ \A i \in 1 .. (b - a) : Numbers(a, b)[i] = a + i
<1>1. PICK n \in Nat : n = b - a
  OBVIOUS
<1>2. PICK s : s = [i \in 1 .. n |-> a + i]
  OBVIOUS
<1>3. s \in Seq(Nat) /\ Len(s) = n
  BY <1>2
<1>4. Numbers(a, b) = s
  BY <1>1, <1>2 DEF Numbers
<1> QED
  BY <1>1, <1>2, <1>3, <1>4

\* What it was sent from a to b, and then to c, is what it was sent from a to c.
LEMMA NumbersJoin ==
  ASSUME NEW a \in Nat, NEW b \in Nat, NEW e \in Nat, a <= b, b <= e
  PROVE  Numbers(a, b) \o Numbers(b, e) = Numbers(a, e)
<1>1. PICK s \in Seq(Nat), n \in Nat :
        s = Numbers(a, b) /\ n = b - a /\ Len(s) = n /\ \A i \in 1 .. n : s[i] = a + i
  <2>1. b - a \in Nat
    OBVIOUS
  <2> QED
    BY <2>1, NumbersKnown
<1>2. PICK t \in Seq(Nat), m \in Nat :
        t = Numbers(b, e) /\ m = e - b /\ Len(t) = m /\ \A i \in 1 .. m : t[i] = b + i
  <2>1. e - b \in Nat
    OBVIOUS
  <2> QED
    BY <2>1, NumbersKnown
<1>3. PICK u \in Seq(Nat) :
        u = Numbers(a, e) /\ Len(u) = n + m /\ \A i \in 1 .. (n + m) : u[i] = a + i
  <2>1. a <= e /\ e - a = n + m
    BY <1>1, <1>2
  <2>2. Numbers(a, e) \in Seq(Nat) /\ Len(Numbers(a, e)) = e - a
        /\ \A i \in 1 .. (e - a) : Numbers(a, e)[i] = a + i
    BY <2>1, NumbersKnown
  <2> QED
    BY <2>1, <2>2
<1>4. PICK v \in Seq(Nat) : v = s \o t /\ Len(v) = n + m
  <2>1. s \o t \in Seq(Nat) /\ Len(s \o t) = Len(s) + Len(t)
    OBVIOUS
  <2> QED
    BY <1>1, <1>2, <2>1
<1>5. ASSUME NEW i \in 1 .. (n + m) PROVE v[i] = u[i]
  <2>1. CASE i <= n
    <3>1. (s \o t)[i] = s[i] /\ i \in 1 .. n
      BY <1>1, <1>2, <2>1
    <3> QED
      BY <1>1, <1>3, <1>4, <3>1
  <2>2. CASE i > n
    <3>1. PICK j \in 1 .. m : j = i - n
      BY <2>2
    <3>2. (s \o t)[i] = t[i - n]
      BY <1>1, <1>2, <2>2
    <3>3. t[j] = b + j /\ u[i] = a + i
      BY <1>2, <1>3
    <3>4. b + j = a + i
      BY <1>1, <3>1
    <3> QED
      BY <1>4, <3>1, <3>2, <3>3, <3>4
  <2> QED
    BY <2>1, <2>2
<1>6. v = u
  <2>1. n + m \in Nat
    OBVIOUS
  <2> QED
    BY <1>3, <1>4, <1>5, <2>1, SameElements
<1> QED
  BY <1>1, <1>2, <1>3, <1>4, <1>6

\* The notifications of c, 1 to read: a given to the caller, those up to b in the queue of
\* the manager, at i if there are any, and the others with the connection.
PlaceAt(c, got, queue, pending, read, a, b, i) ==
  /\ a <= b /\ b <= read /\ got = Numbers(0, a) /\ pending = Numbers(b, read)
  /\ \A j \in 1 .. Len(queue) : /\ j = i => queue[j] = <<c, Numbers(a, b)>>
                                /\ j # i => queue[j][1] # c
  /\ i \in 1 .. Len(queue) \/ a = b
PlaceOf(c, got, queue, pending, read) ==
  \E a \in Nat, b \in Nat, i \in Nat : PlaceAt(c, got, queue, pending, read, a, b, i)
AnyQueue == Seq(Conns \X Seq(Nat))

\* What a connection reads joins what is pending there.
LEMMA PlaceReads ==
  ASSUME NEW c, NEW got, NEW queue, NEW pending, NEW read \in Nat, NEW more \in Nat, read <= more,
         PlaceOf(c, got, queue, pending, read)
  PROVE  PlaceOf(c, got, queue, pending \o Numbers(read, more), more)
<1>1. PICK a \in Nat, b \in Nat, i \in Nat :
        /\ a <= b /\ b <= read /\ got = Numbers(0, a) /\ pending = Numbers(b, read)
        /\ \A j \in 1 .. Len(queue) : /\ j = i => queue[j] = <<c, Numbers(a, b)>>
                                      /\ j # i => queue[j][1] # c
        /\ i \in 1 .. Len(queue) \/ a = b
  BY DEF PlaceOf, PlaceAt
<1>2. Numbers(b, read) \o Numbers(read, more) = Numbers(b, more) /\ b <= more
  <2>1. b <= read /\ b <= more
    BY <1>1
  <2> QED
    BY <2>1, NumbersJoin
<1>3. PlaceAt(c, got, queue, pending \o Numbers(read, more), more, a, b, i)
  BY <1>1, <1>2 DEF PlaceAt
<1> QED
  BY <1>3 DEF PlaceOf

LEMMA QueueKnown ==
  ASSUME NEW queue \in AnyQueue
  PROVE  /\ Len(queue) \in Nat
         /\ \A j \in 1 .. Len(queue) : queue[j][1] \in Conns /\ queue[j][2] \in Seq(Nat)
<1>1. Len(queue) \in Nat
  BY DEF AnyQueue
<1>2. ASSUME NEW j \in 1 .. Len(queue) PROVE queue[j][1] \in Conns /\ queue[j][2] \in Seq(Nat)
  <2>1. queue[j] \in Conns \X Seq(Nat)
    BY DEF AnyQueue
  <2> QED
    BY <2>1
<1> QED
  BY <1>1, <1>2

\* The manager takes the first pair of the queue and yields it.
LEMMA PlaceTaken ==
  ASSUME NEW c, NEW got, NEW queue \in AnyQueue, queue # <<>>, NEW pending, NEW read \in Nat,
         PlaceOf(c, got, queue, pending, read)
  PROVE  /\ Head(queue)[1] = c => PlaceOf(c, got \o Head(queue)[2], Tail(queue), pending, read)
         /\ Head(queue)[1] # c => PlaceOf(c, got, Tail(queue), pending, read)
<1>1. PICK a \in Nat, b \in Nat, i \in Nat :
        /\ a <= b /\ b <= read /\ got = Numbers(0, a) /\ pending = Numbers(b, read)
        /\ \A j \in 1 .. Len(queue) : /\ j = i => queue[j] = <<c, Numbers(a, b)>>
                                      /\ j # i => queue[j][1] # c
        /\ i \in 1 .. Len(queue) \/ a = b
  BY DEF PlaceOf, PlaceAt
<1>2. PICK n \in Nat, rest \in AnyQueue :
        /\ n = Len(rest) /\ rest = Tail(queue) /\ Len(queue) = n + 1 /\ Head(queue) = queue[1]
        /\ \A j \in 1 .. n : rest[j] = queue[j + 1]
  <2>1. PICK m \in Nat : m = Len(queue) /\ m > 0
    BY DEF AnyQueue
  <2>2. /\ Tail(queue) \in AnyQueue /\ Len(Tail(queue)) = m - 1 /\ Head(queue) = queue[1]
        /\ \A j \in 1 .. (m - 1) : Tail(queue)[j] = queue[j + 1]
    BY <2>1 DEF AnyQueue
  <2>3. m - 1 \in Nat /\ m = (m - 1) + 1
    BY <2>1
  <2> QED
    BY <2>1, <2>2, <2>3
<1>3. \A j \in 1 .. n : j + 1 \in 1 .. (n + 1) /\ (j + 1 = i <=> j = i - 1) /\ j # 0
  OBVIOUS
<1>4. 1 \in 1 .. (n + 1)
  OBVIOUS
<1>5. CASE i = 1
  <2>1. Head(queue)[1] = c /\ Head(queue)[2] = Numbers(a, b)
    BY <1>1, <1>2, <1>4, <1>5
  <2>2. got \o Head(queue)[2] = Numbers(0, b)
    <3>1. 0 \in Nat /\ 0 <= a
      OBVIOUS
    <3>2. Numbers(0, a) \o Numbers(a, b) = Numbers(0, b)
      BY <1>1, <3>1, NumbersJoin
    <3> QED
      BY <1>1, <2>1, <3>2
  <2>3. \A j \in 1 .. n : (j = 0 => rest[j] = <<c, Numbers(b, b)>>) /\ (j # 0 => rest[j][1] # c)
    <3>1. ASSUME NEW j \in 1 .. n PROVE rest[j][1] # c /\ j # 0
      <4>1. j + 1 # i /\ j + 1 \in 1 .. Len(queue)
        BY <1>2, <1>5
      <4> QED
        BY <1>1, <1>2, <1>3, <4>1
    <3> QED
      BY <3>1
  <2>4. PlaceOf(c, got \o Head(queue)[2], rest, pending, read)
    <3>1. b <= b /\ 0 \in Nat
      OBVIOUS
    <3>2. PlaceAt(c, got \o Head(queue)[2], rest, pending, read, b, b, 0)
      BY <1>1, <1>2, <2>2, <2>3, <3>1 DEF PlaceAt
    <3> QED
      BY <3>1, <3>2 DEF PlaceOf
  <2> QED
    BY <1>2, <2>1, <2>4
<1>6. CASE i # 1
  <2>1. Head(queue)[1] # c
    BY <1>1, <1>2, <1>4, <1>6
  <2>2. PICK k \in Nat : k = IF i = 0 THEN 0 ELSE i - 1
    OBVIOUS
  <2>3. ASSUME NEW j \in 1 .. n
        PROVE (j = k => rest[j] = <<c, Numbers(a, b)>>) /\ (j # k => rest[j][1] # c)
    <3>1. PICK m \in 1 .. Len(queue) : m = j + 1
      BY <1>2
    <3>2. j = k <=> m = i
      BY <2>2, <3>1
    <3>3. rest[j] = queue[m]
      BY <1>2, <3>1
    <3> QED
      BY <1>1, <3>2, <3>3
  <2>4. k \in 1 .. n \/ a = b
    BY <1>1, <1>2, <1>6, <2>2
  <2>5. PlaceOf(c, got, rest, pending, read)
    <3>1. PlaceAt(c, got, rest, pending, read, a, b, k)
      BY <1>1, <1>2, <2>3, <2>4 DEF PlaceAt
    <3> QED
      BY <3>1 DEF PlaceOf
  <2> QED
    BY <1>2, <2>1, <2>5
<1> QED
  BY <1>5, <1>6

LEMMA NumbersNone ==
  ASSUME NEW a \in Nat, NEW b \in Nat, a <= b
  PROVE  (Numbers(a, b) = <<>>) <=> (a = b)
<1>1. PICK s \in Seq(Nat), n \in Nat : s = Numbers(a, b) /\ n = b - a /\ Len(s) = n
  <2>1. b - a \in Nat
    OBVIOUS
  <2> QED
    BY <2>1, NumbersKnown
<1>2. n = 0 => s = <<>>
  BY <1>1, NoElements
<1>3. n # 0 => s # <<>>
  BY <1>1
<1> QED
  BY <1>1, <1>2, <1>3

\* What is pulled from a connection enters the empty queue at one place.
LEMMA PlacePulled ==
  ASSUME NEW c, NEW got, NEW pending, NEW read \in Nat, PlaceOf(c, got, <<>>, pending, read),
         NEW queue, NEW i \in Nat,
         \A j \in 1 .. Len(queue) : (j = i => queue[j] = <<c, pending>>) /\ (j # i => queue[j][1] # c),
         i \in 1 .. Len(queue) \/ pending = <<>>
  PROVE  PlaceOf(c, got, queue, <<>>, read)
<1>1. PICK a \in Nat, b \in Nat, k \in Nat :
        /\ a <= b /\ b <= read /\ got = Numbers(0, a) /\ pending = Numbers(b, read)
        /\ k \in 1 .. Len(<<>>) \/ a = b
  BY DEF PlaceOf, PlaceAt
<1>2. a = b
  BY <1>1
<1>3. <<>> = Numbers(read, read)
  BY NumbersNone
<1>4. i \in 1 .. Len(queue) \/ a = read
  <2>1. pending = <<>> => b = read
    BY <1>1, NumbersNone
  <2> QED
    BY <1>2, <2>1
<1>5. a <= read /\ read <= read /\ pending = Numbers(a, read)
  BY <1>1, <1>2
<1>6. PlaceAt(c, got, queue, <<>>, read, a, read, i)
  BY <1>1, <1>3, <1>4, <1>5 DEF PlaceAt
<1> QED
  BY <1>6 DEF PlaceOf

\* A connection whose notifications have a place lost none of them.
LEMMA PlaceHolds ==
  ASSUME NEW c, NEW got, NEW queue \in AnyQueue, NEW pending, NEW read \in Nat,
         PlaceOf(c, got, queue, pending, read)
  PROVE  got \o FlattenSeq([j \in DOMAIN queue |-> IF queue[j][1] = c THEN queue[j][2] ELSE <<>>])
             \o pending = Numbers(0, read)
<1>1. PICK a \in Nat, b \in Nat, i \in Nat :
        /\ a <= b /\ b <= read /\ got = Numbers(0, a) /\ pending = Numbers(b, read)
        /\ \A j \in 1 .. Len(queue) : /\ j = i => queue[j] = <<c, Numbers(a, b)>>
                                      /\ j # i => queue[j][1] # c
        /\ i \in 1 .. Len(queue) \/ a = b
  BY DEF PlaceOf, PlaceAt
<1>2. PICK n \in Nat : n = Len(queue) /\ DOMAIN queue = 1 .. n
  BY DEF AnyQueue
<1>3. PICK s : s = [j \in DOMAIN queue |-> IF queue[j][1] = c THEN queue[j][2] ELSE <<>>]
  OBVIOUS
<1>4. PICK x \in Seq(Nat) : x = Numbers(a, b)
  BY <1>1, NumbersKnown
<1>5. \A j \in 1 .. n : (j = i => s[j] = x) /\ (j # i => s[j] = <<>>)
  BY <1>1, <1>2, <1>3, <1>4
<1>6. s \in Seq(Seq(Nat)) /\ Len(s) = n
  <2>1. \A j \in 1 .. n : s[j] \in Seq(Nat)
    <3>1. <<>> \in Seq(Nat)
      OBVIOUS
    <3> QED
      BY <1>5, <3>1
  <2>2. s \in [1 .. n -> Seq(Nat)]
    BY <1>2, <1>3, <2>1
  <2> QED
    BY <2>2
<1>7. i \in 1 .. Len(s) \/ x = <<>>
  BY <1>1, <1>2, <1>4, <1>6, NumbersNone
<1>8. FlattenSeq(s) = x
  BY <1>5, <1>6, <1>7, OneFull
<1>9. got \o x = Numbers(0, b) /\ Numbers(0, b) \o pending = Numbers(0, read)
  <2>1. 0 \in Nat /\ 0 <= a /\ 0 <= b
    OBVIOUS
  <2>2. Numbers(0, a) \o Numbers(a, b) = Numbers(0, b)
    BY <1>1, <2>1, NumbersJoin
  <2>3. Numbers(0, b) \o Numbers(b, read) = Numbers(0, read)
    BY <1>1, <2>1, NumbersJoin
  <2> QED
    BY <1>1, <1>4, <2>2, <2>3
<1> QED
  BY <1>3, <1>8, <1>9

-----------------------------------------------------------------------------
Kinds ==
  /\ nSent \in [Conns -> Nat] /\ nRead \in [Conns -> Nat] /\ \A c \in Conns : nRead[c] <= nSent[c]
  /\ nPending \in [Conns -> Seq(Nat)] /\ nConns \subseteq Conns
  /\ nLog \in [got : [Conns -> Seq(Nat)], changes : Nat, dying : SUBSET Conns]
  /\ nIncoming.pairs \in AnyQueue /\ nIncoming.there \in {TRUE, FALSE}
  /\ nIncoming.there = FALSE => nIncoming.pairs = <<>>
\* The manager has no iterator when it signals, and while __next__ looks for more.
Moments ==
  /\ nPc \in [ at : {"user", "incoming", "timed", "wait", "pull"}, checked : BOOLEAN,
              out : {"running", "event", "idle", "stop"} ]
  /\ nPc.at \in {"timed", "wait", "pull"} \/ nPc.out \in {"idle", "stop"} => nIncoming.there = FALSE
  /\ nPc.at # "user" => nPc.out = "running"
Place(c) == PlaceOf(c, nLog.got[c], nIncoming.pairs, nPending[c], nRead[c])
NotifyInv == Kinds /\ Moments /\ \A c \in Conns : Place(c)

LEMMA IncomingKnown ==
  /\ None.there = FALSE /\ None.pairs = <<>>
  /\ \A pairs : Iter(pairs).there = TRUE /\ Iter(pairs).pairs = pairs
BY DEF None, Iter

\* A step that reads what connections in S were sent.
LEMMA Reads ==
  ASSUME NotifyInv, NEW S \in SUBSET Conns,
         nRead' = [c \in Conns |-> IF c \in S THEN nSent[c] ELSE nRead[c]],
         nPending' = [c \in Conns |-> IF c \in S THEN nPending[c] \o Numbers(nRead[c], nSent[c])
                                       ELSE nPending[c]],
         nConns' \in SUBSET Conns, Moments', UNCHANGED <<nSent, nIncoming, nLog>>
  PROVE  NotifyInv'
<1>1. ASSUME NEW c \in Conns
      PROVE  /\ nRead'[c] \in Nat /\ nRead'[c] <= nSent[c] /\ nPending'[c] \in Seq(Nat)
             /\ PlaceOf(c, nLog.got[c], nIncoming.pairs, nPending'[c], nRead'[c])
  <2>1. nRead[c] \in Nat /\ nSent[c] \in Nat /\ nRead[c] <= nSent[c] /\ nPending[c] \in Seq(Nat)
        /\ PlaceOf(c, nLog.got[c], nIncoming.pairs, nPending[c], nRead[c])
    BY DEF NotifyInv, Kinds, Place
  <2>2. CASE c \in S
    <3>1. nRead'[c] = nSent[c] /\ nPending'[c] = nPending[c] \o Numbers(nRead[c], nSent[c])
      BY <2>2
    <3>2. PlaceOf(c, nLog.got[c], nIncoming.pairs, nPending[c] \o Numbers(nRead[c], nSent[c]), nSent[c])
      BY <2>1, PlaceReads
    <3>3. Numbers(nRead[c], nSent[c]) \in Seq(Nat)
      BY <2>1, NumbersKnown
    <3>4. nPending[c] \o Numbers(nRead[c], nSent[c]) \in Seq(Nat)
      BY <2>1, <3>3
    <3> QED
      BY <2>1, <3>1, <3>2, <3>4
  <2>3. CASE c \notin S
    BY <2>1, <2>3
  <2> QED
    BY <2>2, <2>3
<1>2. nRead' \in [Conns -> Nat] /\ nPending' \in [Conns -> Seq(Nat)]
  <2>1. nRead' = [c \in Conns |-> nRead'[c]] /\ nPending' = [c \in Conns |-> nPending'[c]]
    OBVIOUS
  <2> QED
    BY <1>1, <2>1
<1>3. Kinds'
  BY <1>1, <1>2 DEF NotifyInv, Kinds
<1>4. \A c \in Conns : Place(c)'
  BY <1>1 DEF Place
<1> QED
  BY <1>3, <1>4 DEF NotifyInv

\* A step that moves no notification.
LEMMA Rests ==
  ASSUME NotifyInv, UNCHANGED <<nRead, nPending>>, nIncoming'.pairs = nIncoming.pairs,
         nLog'.got = nLog.got, nLog' \in [got : [Conns -> Seq(Nat)], changes : Nat, dying : SUBSET Conns],
         nSent' \in [Conns -> Nat], \A c \in Conns : nSent'[c] >= nSent[c],
         nConns' \in SUBSET Conns, nIncoming'.there \in {TRUE, FALSE},
         nIncoming'.there = FALSE => nIncoming.pairs = <<>>, Moments'
  PROVE  NotifyInv'
<1>1. \A c \in Conns : nRead[c] <= nSent'[c]
  <2>1. TAKE c \in Conns
  <2>2. nRead[c] \in Nat /\ nSent[c] \in Nat /\ nSent'[c] \in Nat /\ nRead[c] <= nSent[c] /\ nSent'[c] >= nSent[c]
    BY DEF NotifyInv, Kinds
  <2> QED
    BY <2>2
<1>2. Kinds'
  BY <1>1 DEF NotifyInv, Kinds
<1>3. \A c \in Conns : Place(c)'
  BY DEF NotifyInv, Place
<1> QED
  BY <1>2, <1>3 DEF NotifyInv

AnyPc == [ at : {"user", "incoming", "timed", "wait", "pull"}, checked : BOOLEAN,
           out : {"running", "event", "idle", "stop"} ]
AnyLog == [got : [Conns -> Seq(Nat)], changes : Nat, dying : SUBSET Conns]

LEMMA PcMoves ==
  ASSUME nPc \in AnyPc, NEW at \in {"user", "incoming", "timed", "wait", "pull"}
  PROVE  /\ GoesTo(at) => nPc' \in AnyPc /\ nPc'.at = at /\ nPc'.out = nPc.out
         /\ \A checked \in BOOLEAN : nPc' = [nPc EXCEPT !.at = at, !.checked = checked] =>
              nPc' \in AnyPc /\ nPc'.at = at /\ nPc'.out = nPc.out
BY DEF GoesTo, AnyPc

LEMMA PcReturns ==
  ASSUME NEW what \in {"running", "event", "idle", "stop"}, Returns(what)
  PROVE  nPc' \in AnyPc /\ nPc'.at = "user" /\ nPc'.out = what
BY DEF Returns, AnyPc

LEMMA Facts ==
  ASSUME NotifyInv
  PROVE  /\ nPc \in AnyPc /\ nLog \in AnyLog /\ nLog.got \in [Conns -> Seq(Nat)]
         /\ nPc.at \in {"timed", "wait", "pull"} \/ nPc.out \in {"idle", "stop"} => nIncoming.there = FALSE
         /\ nPc.at # "user" => nPc.out = "running"
         /\ nIncoming.there = FALSE => nIncoming.pairs = <<>>
         /\ nIncoming.there \in {TRUE, FALSE} /\ nIncoming.pairs \in AnyQueue /\ nConns \in SUBSET Conns
         /\ nSent \in [Conns -> Nat] /\ nPending \in [Conns -> Seq(Nat)] /\ nRead \in [Conns -> Nat]
BY DEF NotifyInv, Kinds, Moments, AnyPc, AnyLog

LEMMA Grows ==
  ASSUME NotifyInv PROVE \A c \in Conns : nSent[c] >= nSent[c]
BY DEF NotifyInv, Kinds

LEMMA MomentsMade ==
  ASSUME nPc' \in AnyPc,
         nPc'.at \in {"timed", "wait", "pull"} \/ nPc'.out \in {"idle", "stop"} => nIncoming'.there = FALSE,
         nPc'.at # "user" => nPc'.out = "running"
  PROVE  Moments'
BY DEF Moments, AnyPc

LEMMA CallKeeps == ASSUME NotifyInv, CallNext PROVE NotifyInv'
<1>1. nPc' \in AnyPc /\ nPc'.at = "incoming" /\ nPc'.out = "running"
  BY DEF CallNext, AnyPc
<1>2. Moments'
  BY <1>1, MomentsMade
<1> QED
  BY <1>2, Facts, Grows, Rests DEF CallNext, AnyLog

\* The step that yields the first pair of the queue.
LEMMA TakeKeeps ==
  ASSUME NotifyInv, nIncoming.there = TRUE, nIncoming.pairs # <<>>, Returns("event"),
         nIncoming' = Iter(Tail(nIncoming.pairs)),
         nLog' = [nLog EXCEPT !.got[Head(nIncoming.pairs)[1]] = @ \o Head(nIncoming.pairs)[2]],
         UNCHANGED <<nSent, nRead, nPending, nConns, nGarbage, nTimeout, nTimed, nGone>>
  PROVE  NotifyInv'
<1>1. PICK queue \in AnyQueue : queue = nIncoming.pairs /\ queue # <<>>
  BY Facts
<1>2. PICK h \in Conns, events \in Seq(Nat) : h = Head(queue)[1] /\ events = Head(queue)[2]
  <2>1. Len(queue) \in Nat /\ Len(queue) # 0 /\ Head(queue) = queue[1]
    BY <1>1, NoElements DEF AnyQueue
  <2>2. 1 \in 1 .. Len(queue)
    BY <2>1
  <2>3. queue[1][1] \in Conns /\ queue[1][2] \in Seq(Nat)
    BY <2>2, QueueKnown
  <2> QED
    BY <2>1, <2>3
<1>3. nIncoming'.there = TRUE /\ nIncoming'.pairs = Tail(queue) /\ Tail(queue) \in AnyQueue
  BY <1>1, IncomingKnown DEF AnyQueue
<1>4. PICK got \in [Conns -> Seq(Nat)] : got = nLog.got
  BY Facts
<1>5. got[h] \o events \in Seq(Nat)
  <2>1. got[h] \in Seq(Nat)
    BY <1>2
  <2> QED
    BY <2>1
<1>6. nLog' = [nLog EXCEPT !.got = [got EXCEPT ![h] = got[h] \o events]]
  BY <1>1, <1>2, <1>4
<1>7. [got EXCEPT ![h] = got[h] \o events] \in [Conns -> Seq(Nat)]
  BY <1>5
<1>8. nLog' \in AnyLog /\ nLog'.got = [got EXCEPT ![h] = got[h] \o events]
  BY <1>6, <1>7, Facts DEF AnyLog
<1>9. ASSUME NEW c \in Conns PROVE PlaceOf(c, nLog'.got[c], Tail(queue), nPending[c], nRead[c])
  <2>1. PlaceOf(c, got[c], queue, nPending[c], nRead[c]) /\ nRead[c] \in Nat
    BY <1>1, <1>4, Facts DEF NotifyInv, Place
  <2>2. /\ Head(queue)[1] = c => PlaceOf(c, got[c] \o Head(queue)[2], Tail(queue), nPending[c], nRead[c])
        /\ Head(queue)[1] # c => PlaceOf(c, got[c], Tail(queue), nPending[c], nRead[c])
    BY <1>1, <2>1, PlaceTaken
  <2>3. CASE h = c
    <3>1. nLog'.got[c] = got[c] \o Head(queue)[2]
      BY <1>2, <1>8, <2>3
    <3> QED
      BY <1>2, <2>2, <2>3, <3>1
  <2>4. CASE h # c
    <3>1. nLog'.got[c] = got[c]
      BY <1>8, <2>4
    <3> QED
      BY <1>2, <2>2, <2>4, <3>1
  <2> QED
    BY <2>3, <2>4
<1>10. \A c \in Conns : Place(c)'
  BY <1>3, <1>9 DEF Place
<1>11. Moments'
  <2>1. nPc' \in AnyPc /\ nPc'.at = "user" /\ nPc'.out = "event"
    BY PcReturns
  <2> QED
    BY <2>1, MomentsMade
<1>12. Kinds'
  BY <1>3, <1>8 DEF NotifyInv, Kinds, AnyLog
<1> QED
  BY <1>10, <1>11, <1>12 DEF NotifyInv

LEMMA NextKeeps == ASSUME NotifyInv, NextIncoming PROVE NotifyInv'
<1>1. CASE nIncoming.there = FALSE
  <2>1. GoesTo("timed") /\ UNCHANGED <<nIncoming, nLog>>
    BY <1>1 DEF NextIncoming
  <2>2. Moments'
    <3>1. nPc' \in AnyPc /\ nPc'.at = "timed" /\ nPc'.out = nPc.out
      BY <2>1, Facts, PcMoves
    <3>2. nPc.out = "running"
      BY Facts DEF NextIncoming
    <3> QED
      BY <1>1, <2>1, <3>1, <3>2, MomentsMade
  <2> QED
    BY <2>1, <2>2, Facts, Grows, Rests DEF NextIncoming, AnyLog
<1>2. CASE nIncoming.there = TRUE /\ nIncoming.pairs # <<>>
  <2>1. /\ Returns("event") /\ nIncoming' = Iter(Tail(nIncoming.pairs))
        /\ nLog' = [nLog EXCEPT !.got[Head(nIncoming.pairs)[1]] = @ \o Head(nIncoming.pairs)[2]]
        /\ UNCHANGED <<nSent, nRead, nPending, nConns, nGarbage, nTimeout, nTimed, nGone>>
    BY <1>2 DEF NextIncoming
  <2> QED
    BY <1>2, <2>1, TakeKeeps
<1>3. CASE nIncoming.there = TRUE /\ nIncoming.pairs = <<>>
  <2>1. nIncoming' = None /\ nLog' = nLog /\ (Returns("stop") \/ GoesTo("timed"))
    BY <1>3 DEF NextIncoming
  <2>2. nIncoming'.there = FALSE /\ nIncoming'.pairs = nIncoming.pairs
    BY <1>3, <2>1, IncomingKnown
  <2>3. Moments'
    <3>1. nPc' \in AnyPc /\ (nPc'.at = "user" \/ nPc'.out = nPc.out)
      BY <2>1, Facts, PcMoves, PcReturns
    <3>2. nPc.out = "running"
      BY Facts DEF NextIncoming
    <3> QED
      BY <2>2, <3>1, <3>2, MomentsMade
  <2> QED
    BY <1>3, <2>1, <2>2, <2>3, Facts, Grows, Rests DEF NextIncoming, AnyLog
<1> QED
  BY <1>1, <1>2, <1>3, Facts

LEMMA TimedKeeps == ASSUME NotifyInv, TimedOut PROVE NotifyInv'
<1>1. nIncoming.there = FALSE /\ nPc.out = "running"
  BY Facts DEF TimedOut
<1>2. nPc' \in AnyPc /\ (nPc'.at = "user" \/ nPc'.out = nPc.out)
  BY Facts, PcMoves, PcReturns DEF TimedOut
<1>3. Moments'
  BY <1>1, <1>2, MomentsMade DEF TimedOut
<1> QED
  BY <1>3, Facts, Grows, Rests DEF TimedOut, AnyLog

LEMMA WaitKeeps == ASSUME NotifyInv, WaitOnWires PROVE NotifyInv'
<1>1. nIncoming.there = FALSE /\ nPc.out = "running"
  BY Facts DEF WaitOnWires
<1>2. Moments'
  <2>1. nPc' \in AnyPc /\ nPc'.at = "pull" /\ nPc'.out = nPc.out
    BY Facts, PcMoves DEF WaitOnWires
  <2> QED
    BY <1>1, <2>1, MomentsMade DEF WaitOnWires
<1>3. PICK S \in SUBSET Conns :
        /\ nRead' = [c \in Conns |-> IF c \in S THEN nSent[c] ELSE nRead[c]]
        /\ nPending' = [c \in Conns |-> IF c \in S THEN nPending[c] \o Numbers(nRead[c], nSent[c])
                                         ELSE nPending[c]]
        /\ nConns' \in SUBSET Conns
  BY Facts DEF WaitOnWires
<1> QED
  BY <1>2, <1>3, Reads DEF WaitOnWires

LEMMA ExecuteKeeps == ASSUME NotifyInv, UserExecutes PROVE NotifyInv'
<1>1. PICK d \in Conns :
        /\ nPending' = [nPending EXCEPT ![d] = @ \o Numbers(nRead[d], nSent[d])]
        /\ nRead' = [nRead EXCEPT ![d] = nSent[d]]
  BY DEF UserExecutes
<1>2. /\ nRead' = [c \in Conns |-> IF c \in {d} THEN nSent[c] ELSE nRead[c]]
      /\ nPending' = [c \in Conns |-> IF c \in {d} THEN nPending[c] \o Numbers(nRead[c], nSent[c])
                                       ELSE nPending[c]]
  BY <1>1, Facts
<1>3. Moments'
  BY DEF NotifyInv, Moments, UserExecutes
<1>4. {d} \in SUBSET Conns /\ nConns' \in SUBSET Conns
  BY Facts DEF UserExecutes
<1> QED
  BY <1>2, <1>3, <1>4, Reads DEF UserExecutes

\* Each of the connections that had some stands at one place of the order.
Arranges(order, full, n) ==
  /\ order \in [1 .. n -> full] /\ DOMAIN order = 1 .. n
  /\ \A i, j \in 1 .. n : i # j => order[i] # order[j]
  /\ \A c \in full : \E i \in 1 .. n : order[i] = c

LEMMA Ordered ==
  ASSUME NEW full, full \subseteq Conns, NEW order, order \in SetToSeqs(full)
  PROVE  \E n \in Nat : Arranges(order, full, n)
<1>1. IsFiniteSet(full)
  BY NotifyBounds, FS_Subset
<1>2. PICK n \in Nat : n = Cardinality(full)
  BY <1>1, FS_CardinalityType
<1>3. order \in [1 .. n -> full] /\ \A i, j \in 1 .. n : i # j => order[i] # order[j]
  BY <1>2 DEF SetToSeqs
<1>4. order \in Injection(1 .. n, full)
  BY <1>3 DEF Injection, IsInjective
<1>5. Cardinality(1 .. n) = n
  BY <1>2, FS_Interval
<1>6. order \in Surjection(1 .. n, full)
  BY <1>1, <1>2, <1>4, <1>5, FS_Injection
<1>7. \A c \in full : \E i \in 1 .. n : order[i] = c
  BY <1>6 DEF Surjection
<1> QED
  BY <1>3, <1>7 DEF Arranges

LEMMA PullKeeps == ASSUME NotifyInv, PullAndQueue PROVE NotifyInv'
<1>1. nIncoming.there = FALSE /\ nIncoming.pairs = <<>> /\ nPc.out = "running"
  BY Facts DEF PullAndQueue
<1> DEFINE full == {c \in nConns : nPending[c] # <<>>}
<1>2. full \in SUBSET Conns
  BY Facts
<1>3. PICK order \in SetToSeqs(full) :
        nIncoming' = Iter(nIncoming.pairs \o [i \in DOMAIN order |-> [c \in full |-> <<c, nPending[c]>>][order[i]]])
  BY Zenon DEF PullAndQueue
<1>4. full = {c \in nConns : nPending[c] # <<>>}
  OBVIOUS
<1>5. nPending' = [c \in Conns |-> IF c \in full THEN LeftPending(nPending[c]) ELSE nPending[c]]
  BY Zenon DEF PullAndQueue
<1> HIDE DEF full
<1>6. PICK n \in Nat : Arranges(order, full, n)
  <2>1. full \subseteq Conns
    BY <1>2
  <2> QED
    BY <2>1, Ordered
<1>7. /\ order \in [1 .. n -> full] /\ DOMAIN order = 1 .. n
      /\ \A i, j \in 1 .. n : i # j => order[i] # order[j]
      /\ \A c \in full : \E i \in 1 .. n : order[i] = c
  BY <1>6 DEF Arranges
<1>8. PICK queue : queue = [i \in 1 .. n |-> <<order[i], nPending[order[i]]>>]
  OBVIOUS
<1>9. queue \in AnyQueue /\ Len(queue) = n
  <2>1. \A i \in 1 .. n : <<order[i], nPending[order[i]]>> \in Conns \X Seq(Nat)
    <3>1. TAKE i \in 1 .. n
    <3>2. order[i] \in Conns
      BY <1>2, <1>7
    <3>3. nPending[order[i]] \in Seq(Nat)
      BY <3>2, Facts
    <3> QED
      BY <3>2, <3>3
  <2>2. queue \in [1 .. n -> Conns \X Seq(Nat)]
    BY <1>8, <2>1
  <2> QED
    BY <2>2 DEF AnyQueue
<1>10. nIncoming'.there = TRUE /\ nIncoming'.pairs = queue
  <2>1. [i \in DOMAIN order |-> [c \in full |-> <<c, nPending[c]>>][order[i]]] = queue
    BY <1>7, <1>8
  <2>2. <<>> \o queue = queue
    BY <1>9 DEF AnyQueue
  <2>3. nIncoming' = Iter(queue)
    BY <1>1, <1>3, <2>1, <2>2
  <2> QED
    BY <2>3, IncomingKnown
<1>11. nPending' = [c \in Conns |-> IF c \in full THEN <<>> ELSE nPending[c]]
  BY <1>5 DEF LeftPending
<1>12. ASSUME NEW c \in Conns PROVE PlaceOf(c, nLog.got[c], queue, nPending'[c], nRead[c])
  <2>1. PlaceOf(c, nLog.got[c], <<>>, nPending[c], nRead[c]) /\ nRead[c] \in Nat
    BY <1>1, Facts DEF NotifyInv, Place
  <2>2. CASE c \in full
    <3>1. PICK i \in 1 .. n : order[i] = c
      BY <1>7, <2>2
    <3>2. ASSUME NEW j \in 1 .. Len(queue)
          PROVE (j = i => queue[j] = <<c, nPending[c]>>) /\ (j # i => queue[j][1] # c)
      BY <1>7, <1>8, <1>9, <3>1
    <3>3. i \in Nat /\ i \in 1 .. Len(queue)
      BY <1>9
    <3>4. PlaceOf(c, nLog.got[c], queue, <<>>, nRead[c])
      BY <2>1, <3>2, <3>3, PlacePulled
    <3> QED
      BY <1>11, <2>2, <3>4
  <2>3. CASE c \notin full
    <3>1. PICK none : none = nPending[c] /\ nPending'[c] = none
      BY <1>11, <2>3
    <3>2. \A j \in 1 .. Len(queue) : queue[j][1] # c
      BY <1>7, <1>8, <1>9, <2>3
    <3>3. none = <<>> \/ c \notin nConns
      BY <1>4, <2>3, <3>1
    <3>4. PICK a \in Nat, b \in Nat, i \in Nat : PlaceAt(c, nLog.got[c], <<>>, none, nRead[c], a, b, i)
      BY <2>1, <3>1 DEF PlaceOf
    <3>5. a = b
      BY <3>4 DEF PlaceAt
    <3>6. PlaceAt(c, nLog.got[c], queue, none, nRead[c], a, b, 0)
      <4>1. \A j \in 1 .. Len(queue) : j # 0
        OBVIOUS
      <4> QED
        BY <3>2, <3>4, <3>5, <4>1 DEF PlaceAt
    <3> QED
      BY <3>1, <3>6 DEF PlaceOf
  <2> QED
    BY <2>2, <2>3
<1>13. \A c \in Conns : Place(c)'
  BY <1>10, <1>12 DEF Place, PullAndQueue
<1>14. Moments'
  <2>1. nPc' \in AnyPc /\ nPc'.at = "incoming" /\ nPc'.out = "running"
    BY <1>1, Facts, PcMoves DEF PullAndQueue
  <2> QED
    BY <2>1, MomentsMade
<1>15. nPending' \in [Conns -> Seq(Nat)]
  <2>1. <<>> \in Seq(Nat)
    OBVIOUS
  <2> QED
    BY <1>11, <2>1, Facts
<1>16. Kinds'
  BY <1>9, <1>10, <1>15 DEF NotifyInv, Kinds, PullAndQueue
<1> QED
  BY <1>13, <1>14, <1>16 DEF NotifyInv

LEMMA ChangesKeep == ASSUME NotifyInv, UserChanges PROVE NotifyInv'
<1>1. nLog' \in AnyLog /\ nLog'.got = nLog.got
  <2>1. nLog' = [nLog EXCEPT !.changes = @ + 1]
    BY DEF UserChanges
  <2>2. nLog \in AnyLog
    BY Facts
  <2> QED
    BY <2>1, <2>2 DEF AnyLog
<1>2. Moments'
  BY DEF NotifyInv, Moments, UserChanges
<1>3. nConns' \in SUBSET Conns
  BY Facts DEF UserChanges
<1> QED
  BY <1>1, <1>2, <1>3, Facts, Grows, Rests DEF UserChanges, AnyLog

LEMMA SentKeeps == ASSUME NotifyInv, NotifySent PROVE NotifyInv'
<1>1. PICK d \in Conns : \/ nSent' = [nSent EXCEPT ![d] = @ + 1] /\ UNCHANGED nLog
                         \/ nSent' = nSent /\ nLog' = [nLog EXCEPT !.dying = @ \cup {d}, !.changes = @ + 1]
  BY DEF NotifySent
<1>2. nLog' \in AnyLog /\ nLog'.got = nLog.got
  <2>1. CASE nLog' = nLog
    BY <2>1, Facts
  <2>2. CASE nLog' = [nLog EXCEPT !.dying = @ \cup {d}, !.changes = @ + 1]
    <3>1. nLog \in AnyLog
      BY Facts
    <3>2. nLog = [got |-> nLog.got, changes |-> nLog.changes, dying |-> nLog.dying]
      BY <3>1 DEF AnyLog
    <3>3. nLog' = [got |-> nLog.got, changes |-> nLog.changes + 1, dying |-> nLog.dying \cup {d}]
      BY <2>2, <3>2
    <3>4. nLog.got \in [Conns -> Seq(Nat)] /\ nLog.changes + 1 \in Nat /\ nLog.dying \cup {d} \in SUBSET Conns
      BY <3>1 DEF AnyLog
    <3> QED
      BY <3>3, <3>4 DEF AnyLog
  <2> QED
    BY <1>1, <2>1, <2>2
<1>3. nSent' \in [Conns -> Nat] /\ \A c \in Conns : nSent'[c] >= nSent[c]
  <2>1. CASE nSent' = nSent
    BY <2>1, Facts, Grows
  <2>2. CASE nSent' = [nSent EXCEPT ![d] = @ + 1]
    BY <2>2, Facts
  <2> QED
    BY <1>1, <2>1, <2>2
<1>4. Moments'
  BY DEF NotifyInv, Moments, NotifySent
<1> QED
  BY <1>2, <1>3, <1>4, Facts, Rests DEF NotifySent, AnyLog

LEMMA NotifyStarts == NotifyInit => NotifyInv
<1> SUFFICES ASSUME NotifyInit PROVE NotifyInv
  OBVIOUS
<1>1. <<>> \in Seq(Nat) /\ <<>> \in AnyQueue /\ Len(<<>>) = 0
  BY DEF AnyQueue
<1>2. Kinds
  <2>1. nSent \in [Conns -> Nat] /\ nRead \in [Conns -> Nat] /\ \A c \in Conns : nRead[c] <= nSent[c]
    BY DEF NotifyInit
  <2>2. nPending \in [Conns -> Seq(Nat)] /\ nConns \subseteq Conns
    BY <1>1 DEF NotifyInit
  <2>3. nLog \in [got : [Conns -> Seq(Nat)], changes : Nat, dying : SUBSET Conns]
    <3>1. [c \in Conns |-> <<>>] \in [Conns -> Seq(Nat)]
      BY <1>1
    <3> QED
      BY <3>1 DEF NotifyInit
  <2>4. nIncoming.pairs = <<>> /\ nIncoming.there = FALSE
    BY IncomingKnown DEF NotifyInit
  <2> QED
    BY <1>1, <2>1, <2>2, <2>3, <2>4 DEF Kinds
<1>3. Moments
  BY DEF NotifyInit, Moments
<1>4. ASSUME NEW c \in Conns PROVE Place(c)
  <2>1. /\ nLog.got[c] = <<>> /\ nIncoming.pairs = <<>> /\ nPending[c] = <<>> /\ nRead[c] = 0
    BY IncomingKnown DEF NotifyInit
  <2>2. <<>> = Numbers(0, 0) /\ 0 <= 0
    BY NumbersNone
  <2>3. PlaceAt(c, <<>>, <<>>, <<>>, 0, 0, 0, 0)
    BY <1>1, <2>2 DEF PlaceAt
  <2>4. PlaceOf(c, <<>>, <<>>, <<>>, 0)
    <3>1. 0 \in Nat
      OBVIOUS
    <3> QED
      BY <2>3, <3>1, Zenon DEF PlaceOf
  <2> QED
    BY <2>1, <2>4, Zenon DEF Place
<1> QED
  BY <1>2, <1>3, <1>4 DEF NotifyInv

\* Every notification read is yielded once and in order or is still held, and none is
\* held when the manager signals idle or stops, for any connections and any number of
\* notifications, however they come and whichever connections close, fail or change.
THEOREM EventsTheorem == NotifySpec => []EventsOnce
<1>1. NotifyInv /\ [NotifyNext]_notifyVars => NotifyInv'
  <2> SUFFICES ASSUME NotifyInv, [NotifyNext]_notifyVars PROVE NotifyInv'
    OBVIOUS
  <2>1. CASE UNCHANGED notifyVars
    <3>1. Moments'
      BY <2>1 DEF notifyVars, NotifyInv, Moments
    <3> QED
      BY <2>1, <3>1, Facts, Grows, Rests DEF notifyVars, AnyLog
  <2>2. CASE NotifyNext
    BY <2>2, CallKeeps, NextKeeps, TimedKeeps, WaitKeeps, PullKeeps, ExecuteKeeps, ChangesKeep, SentKeeps
    DEF NotifyNext
  <2> QED
    BY <2>1, <2>2
<1>2. NotifyInv => EventsOnce
  <2> SUFFICES ASSUME NotifyInv PROVE EventsOnce
    OBVIOUS
  <2>1. ASSUME NEW c \in Conns
        PROVE  nLog.got[c] \o FlattenSeq([ i \in DOMAIN nIncoming.pairs |->
                 IF nIncoming.pairs[i][1] = c THEN nIncoming.pairs[i][2] ELSE <<>> ]) \o nPending[c]
                 = Numbers(0, nRead[c])
    <3>1. PlaceOf(c, nLog.got[c], nIncoming.pairs, nPending[c], nRead[c]) /\ nRead[c] \in Nat
          /\ nIncoming.pairs \in AnyQueue
      BY Facts DEF NotifyInv, Place
    <3> QED
      BY <3>1, PlaceHolds
  <2>2. nPc.out \in {"idle", "stop"} => ~nIncoming.there
    BY Facts
  <2> QED
    BY <2>1, <2>2 DEF EventsOnce
<1> QED
  BY NotifyStarts, <1>1, <1>2, PTL DEF NotifySpec

-----------------------------------------------------------------------------
(* Establishing a connection.                                             *)

\* The attempt under way, and the types of the connection's state.
AnyTry ==
  [ ssl : {"none", "try", "must"}, f : Nat, phase : {"socket", "ssl", "startup", "receive", "ended"},
    did : {"unset", "yes", "no", "none"}, secured : BOOLEAN,
    pc : {"auth", "send", "authok", "kill", "ready", "done"}, options : Nat,
    fatal : BOOLEAN, exception : BOOLEAN, n : Nat ]
ConnectTypes ==
  /\ cConn \in {"setup", "new", "trying", "initializing", "open", "failed", "raised", "closed"}
  /\ cMode \in {"allow", "prefer", "require", "disable"}
  /\ cServers \in Seq(ServerKinds) /\ (cConn # "setup" => cServers # <<>>)
  /\ cTodo \in Seq({"none", "try", "must"} \X Nat) /\ cSkip \in BOOLEAN /\ cTry \in AnyTry
  /\ cWire \in Seq({"AuthOK", "Option", "Key", "Ready", "AuthPassword", "AuthOther", "Error"})
  /\ cLog \in [tried : Seq({"none", "try", "must"} \X Nat), hosts : SUBSET Nat, passwords : SUBSET BOOLEAN]

\* The greeting of a server that accepts, from each of its messages on.
Greeting(pc) ==
  { <<pc, 0, <<"AuthOK", "Option", "Key", "Option", "Ready">>>>,
    <<"kill", 0, <<"Option", "Key", "Option", "Ready">>>>, <<"kill", 1, <<"Key", "Option", "Ready">>>>,
    <<"ready", 1, <<"Option", "Ready">>>>, <<"ready", 2, <<"Ready">>>>, <<"done", 2, <<>>>> }
Exchanges(w) ==
  [ trust |-> Greeting("auth"),
    password |-> {<<"auth", 0, <<"AuthPassword">>>>, <<"send", 0, <<>>>>} \cup Greeting("authok"),
    badpassword |-> {<<"auth", 0, <<"AuthPassword">>>>, <<"send", 0, <<>>>>, <<"authok", 0, <<"Error">>>>},
    scram |-> {<<"auth", 0, <<"AuthOther">>>>}, rejected |-> {<<"auth", 0, <<"Error">>>>},
    hangup |-> {<<"auth", 0, <<>>>>},
    silent |-> {<<"auth", 0, <<"AuthOK", "Ready">>>>, <<"kill", 0, <<"Ready">>>>} ][w]
Heard(w, a, wire) ==
  (a.fatal = TRUE /\ a.pc = "done") \/ (a.fatal = FALSE /\ <<a.pc, a.options, wire>> \in Exchanges(w))
Greeted ==
  /\ cTry.phase \in {"socket", "ssl", "startup"} => cTry.pc = "auth" /\ cTry.options = 0
  /\ cTry.phase # "ended" => cTry.fatal = FALSE /\ cTry.exception = FALSE
  /\ cTry.phase = "receive" => cTry.pc # "done" /\ Heard(Welcome, cTry, cWire)
  /\ cTry.phase = "ended" /\ cTry.fatal = FALSE => Welcome \in {"trust", "password"} /\ cTry.options = 2

\* Sockets secured as sslmode asks.
Sockets ==
  /\ cTry # NoTry => cTry.f \in DOMAIN cServers /\ \E i \in DOMAIN AttemptKinds(cMode) : cTry.ssl = AttemptKinds(cMode)[i]
  /\ cTry.phase = "socket" => cTry.secured = FALSE
  /\ cTry.ssl = "none" => cTry.secured = FALSE /\ cTry.phase # "ssl"
  /\ cTry.ssl = "must" /\ (cTry.phase \in {"startup", "receive"} \/ (cTry.phase = "ended" /\ cTry.fatal = FALSE))
       => cTry.secured = TRUE
  /\ cMode = "require" => FALSE \notin cLog.passwords
  /\ cMode = "disable" => TRUE \notin cLog.passwords
Phases ==
  /\ cTry # NoTry => cConn = "trying" \/ (cTry.phase = "ended" /\ cTry.fatal = FALSE)
  /\ cConn \in {"initializing", "open"} => cTry.phase = "ended" /\ cTry.fatal = FALSE
  /\ cConn \in {"setup", "new"} => cTry = NoTry /\ cSkip = FALSE /\ cLog = [tried |-> <<>>, hosts |-> {}, passwords |-> {}]
  /\ cConn # "trying" => cSkip = FALSE

\* What is left of Attempts: the kinds of host h from the s-th on, then the hosts after it.
Left(kinds, todo, h, s, n) ==
  /\ h \in Nat \ {0} /\ h <= n + 1 /\ s \in 1 .. Len(kinds) /\ (s = 2 => h <= n)
  /\ Len(kinds) = 1 => Len(todo) = n + 1 - h /\ \A j \in 1 .. (n + 1 - h) : todo[j] = <<kinds[1], h + j - 1>>
  /\ Len(kinds) = 2 /\ s = 1 =>
       /\ Len(todo) = 2 * (n + 1 - h)
       /\ \A j \in 1 .. (n + 1 - h) : todo[2 * j - 1] = <<kinds[1], h + j - 1>> /\ todo[2 * j] = <<kinds[2], h + j - 1>>
  /\ Len(kinds) = 2 /\ s = 2 =>
       /\ Len(todo) = 2 * (n - h) + 1 /\ todo[1] = <<kinds[2], h>>
       /\ \A j \in 1 .. (n - h) : todo[2 * j] = <<kinds[1], h + j>> /\ todo[2 * j + 1] = <<kinds[2], h + j>>

Tried(f) == \E i \in DOMAIN cLog.tried : cLog.tried[i][2] = f
Once(f) == \A i, j \in DOMAIN cLog.tried : cLog.tried[i][2] = f /\ cLog.tried[j][2] = f => i = j
\* The attempt under way is the first on its host.
IsFirst(kinds, s) == s = 2 \/ Len(kinds) = 1
Current(kinds, h, s) == IF s = 2 THEN <<kinds[1], h>> ELSE <<kinds[Len(kinds)], h - 1>>
Waits(f, kinds, s) == cTry # NoTry /\ cTry.phase = "socket" /\ cTry.f = f /\ IsFirst(kinds, s)
Planned(kinds, h, s, n) ==
  /\ Left(kinds, cTodo, h, s, n) /\ cLog.hosts = 1 .. n /\ n <= Len(cServers)
  /\ cTry # NoTry => <<cTry.ssl, cTry.f>> = Current(kinds, h, s) /\ cTry.f \in 1 .. n
  /\ \A f \in 1 .. n : Tried(f) <=> (f < h \/ (f = h /\ s = 2)) /\ ~Waits(f, kinds, s)
  /\ cTry # NoTry /\ cTry.phase = "socket" /\ ~IsFirst(kinds, s) => Server.up = TRUE
  /\ cSkip = TRUE => s = 2 /\ cTry = NoTry
  /\ s = 2 /\ cTry = NoTry /\ cSkip = FALSE => cServers[h].up = TRUE
  /\ cTry # NoTry /\ cTry.phase # "socket" /\ Server.up = FALSE =>
       cTry.phase = "ended" /\ cTry.fatal = TRUE /\ cTry.exception = TRUE
Hosts ==
  /\ cLog.hosts \subseteq DOMAIN cServers
  /\ \A i \in DOMAIN cLog.tried : cLog.tried[i][2] \in cLog.hosts
  /\ \A f \in cLog.hosts : cServers[f].up = FALSE => Once(f)
  /\ cConn = "trying" => \E h, s, n \in Nat : Planned(AttemptKinds(cMode), h, s, n)
  /\ cConn = "failed" => \A f \in cLog.hosts : Tried(f)
ConnectInv == ConnectTypes /\ Greeted /\ Sockets /\ Phases /\ Hosts

LEMMA KindsKnown ==
  ASSUME NEW mode \in {"allow", "prefer", "require", "disable"}
  PROVE  /\ AttemptKinds(mode) \in Seq({"none", "try", "must"})
         /\ mode \in {"allow", "prefer"} => Len(AttemptKinds(mode)) = 2
         /\ mode \in {"require", "disable"} => Len(AttemptKinds(mode)) = 1
         /\ mode = "allow" => AttemptKinds(mode)[1] = "none" /\ AttemptKinds(mode)[2] = "must"
         /\ mode = "prefer" => AttemptKinds(mode)[1] = "try" /\ AttemptKinds(mode)[2] = "none"
         /\ mode = "require" => AttemptKinds(mode)[1] = "must"
         /\ mode = "disable" => AttemptKinds(mode)[1] = "none"
<1>1. PICK kinds : kinds = AttemptKinds(mode)
  OBVIOUS
<1>2. CASE mode = "allow"
  <2>1. kinds = <<"none", "must">>
    BY <1>2, <1>1 DEF AttemptKinds
  <2>2. <<"none", "must">> \in Seq({"none", "try", "must"})
    OBVIOUS
  <2>3. kinds \in Seq({"none", "try", "must"}) /\ Len(kinds) = 2 /\ kinds[1] = "none" /\ kinds[2] = "must"
    BY <2>1, <2>2
  <2> QED
    BY <1>2, <1>1, <2>3
<1>3. CASE mode = "prefer"
  <2>1. kinds = <<"try", "none">>
    BY <1>3, <1>1 DEF AttemptKinds
  <2>2. <<"try", "none">> \in Seq({"none", "try", "must"})
    OBVIOUS
  <2>3. kinds \in Seq({"none", "try", "must"}) /\ Len(kinds) = 2 /\ kinds[1] = "try" /\ kinds[2] = "none"
    BY <2>1, <2>2
  <2> QED
    BY <1>3, <1>1, <2>3
<1>4. CASE mode = "require"
  <2>1. kinds = <<"must">>
    BY <1>4, <1>1 DEF AttemptKinds
  <2>2. <<"must">> \in Seq({"none", "try", "must"})
    OBVIOUS
  <2>3. kinds \in Seq({"none", "try", "must"}) /\ Len(kinds) = 1 /\ kinds[1] = "must"
    BY <2>1, <2>2
  <2> QED
    BY <1>4, <1>1, <2>3
<1>5. CASE mode = "disable"
  <2>1. kinds = <<"none">>
    BY <1>5, <1>1 DEF AttemptKinds
  <2>2. <<"none">> \in Seq({"none", "try", "must"})
    OBVIOUS
  <2>3. kinds \in Seq({"none", "try", "must"}) /\ Len(kinds) = 1 /\ kinds[1] = "none"
    BY <2>1, <2>2
  <2> QED
    BY <1>5, <1>1, <2>3
<1> QED
  BY <1>2, <1>3, <1>4, <1>5

JoinOf(T, s, x, t) ==
  /\ t = s \o x /\ t \in Seq(T) /\ Len(t) = Len(s) + Len(x)
  /\ \A i \in 1 .. Len(s) : t[i] = s[i]
  /\ \A i \in 1 .. Len(x) : t[Len(s) + i] = x[i]
LEMMA Appended ==
  ASSUME NEW T, NEW s \in Seq(T), NEW x \in Seq(T) PROVE JoinOf(T, s, x, s \o x)
BY DEF JoinOf

AnyPair == {"none", "try", "must"} \X Nat
\* The attempts on the first k hosts.
Planning(kinds, s, k) ==
  /\ s \in Seq(AnyPair)
  /\ Len(kinds) = 1 => Len(s) = k /\ \A j \in 1 .. k : s[j] = <<kinds[1], j>>
  /\ Len(kinds) = 2 => Len(s) = 2 * k /\ \A j \in 1 .. k : s[2 * j - 1] = <<kinds[1], j>> /\ s[2 * j] = <<kinds[2], j>>

LEMMA PlansOne ==
  ASSUME NEW kinds \in Seq({"none", "try", "must"}), Len(kinds) \in 1 .. 2, NEW k \in Nat \ {0}, NEW x,
         x = [j \in 1 .. Len(kinds) |-> <<kinds[j], k>>]
  PROVE  /\ x \in Seq(AnyPair) /\ Len(x) = Len(kinds) /\ x[1] = <<kinds[1], k>>
         /\ Len(kinds) = 2 => x[2] = <<kinds[2], k>>
BY DEF AnyPair

LEMMA PlansMore ==
  ASSUME NEW kinds \in Seq({"none", "try", "must"}), Len(kinds) \in 1 .. 2, NEW k \in Nat, NEW s, Planning(kinds, s, k),
         NEW x \in Seq(AnyPair), Len(x) = Len(kinds), x[1] = <<kinds[1], k + 1>>,
         Len(kinds) = 2 => x[2] = <<kinds[2], k + 1>>
  PROVE  Planning(kinds, s \o x, k + 1)
<1>1. PICK t \in Seq(AnyPair) :
        /\ t = s \o x /\ Len(t) = Len(s) + Len(x) /\ \A i \in 1 .. Len(s) : t[i] = s[i]
        /\ \A i \in 1 .. Len(x) : t[Len(s) + i] = x[i]
  <2>1. s \in Seq(AnyPair)
    BY DEF Planning
  <2>2. JoinOf(AnyPair, s, x, s \o x)
    BY <2>1, Appended
  <2> QED
    BY <2>2 DEF JoinOf
<1>2. Len(s) \in Nat
  <2>1. s \in Seq(AnyPair)
    BY DEF Planning
  <2> QED
    BY <2>1
<1>3. CASE Len(kinds) = 1
  <2>1. Len(s) = k /\ \A j \in 1 .. k : s[j] = <<kinds[1], j>>
    BY <1>3 DEF Planning
  <2>2. ASSUME NEW j \in 1 .. (k + 1) PROVE t[j] = <<kinds[1], j>>
    <3>1. CASE j <= k
      <4>1. t[j] = s[j] /\ j \in 1 .. k
        BY <1>1, <2>1, <3>1
      <4> QED
        BY <4>1, <2>1
    <3>2. CASE j = k + 1
      <4>1. t[Len(s) + 1] = x[1] /\ j = Len(s) + 1
        BY <1>1, <1>3, <2>1, <3>2
      <4> QED
        BY <4>1, <3>2
    <3> QED
      BY <3>1, <3>2
  <2> QED
    BY <1>1, <1>3, <2>1, <2>2 DEF Planning
<1>4. CASE Len(kinds) = 2
  <2>1. Len(s) = 2 * k /\ \A j \in 1 .. k : s[2 * j - 1] = <<kinds[1], j>> /\ s[2 * j] = <<kinds[2], j>>
    BY <1>4 DEF Planning
  <2>2. ASSUME NEW j \in 1 .. (k + 1)
        PROVE t[2 * j - 1] = <<kinds[1], j>> /\ t[2 * j] = <<kinds[2], j>>
    <3>1. CASE j <= k
      <4>1. 2 * j - 1 \in 1 .. (2 * k) /\ 2 * j \in 1 .. (2 * k) /\ j \in 1 .. k
        BY <3>1
      <4>2. t[2 * j - 1] = s[2 * j - 1] /\ t[2 * j] = s[2 * j]
        BY <1>1, <2>1, <4>1
      <4> QED
        BY <4>1, <4>2, <2>1
    <3>2. CASE j = k + 1
      <4>1. 2 * j - 1 = Len(s) + 1 /\ 2 * j = Len(s) + 2
        BY <2>1, <3>2
      <4>2. t[Len(s) + 1] = x[1] /\ t[Len(s) + 2] = x[2]
        BY <1>1, <1>4
      <4> QED
        BY <4>1, <4>2, <3>2, <1>4
    <3> QED
      BY <3>1, <3>2
  <2>3. Len(t) = 2 * (k + 1)
    BY <1>1, <1>4, <2>1
  <2>4. ~(Len(kinds) = 1)
    BY <1>4
  <2>5. t \in Seq(AnyPair)
    BY <1>1
  <2>6. Planning(kinds, t, k + 1)
    BY <2>5, <2>4, <2>2, <2>3, Zenon DEF Planning
  <2> QED
    BY <1>1, <2>6
<1> QED
  BY <1>3, <1>4

\* Attempts is every kind for every host, host by host.
LEMMA AttemptsPlanned ==
  ASSUME NEW mode \in {"allow", "prefer", "require", "disable"}, NEW n \in Nat \ {0}, NEW fs \in Seq(Nat),
         Len(fs) = n, \A i \in 1 .. n : fs[i] = i
  PROVE  Planning(AttemptKinds(mode), Attempts(mode, fs), n)
<1>1. PICK kinds \in Seq({"none", "try", "must"}) : kinds = AttemptKinds(mode) /\ Len(kinds) \in 1 .. 2
  BY KindsKnown
<1>2. PICK s : s = [i \in 1 .. n |-> [j \in 1 .. Len(kinds) |-> <<kinds[j], fs[i]>>]]
  OBVIOUS
<1>3. \A i \in 1 .. n : s[i] = [j \in 1 .. Len(kinds) |-> <<kinds[j], i>>]
  BY <1>2
<1>4. \A i \in 1 .. n : s[i] \in Seq(AnyPair) /\ Len(s[i]) = Len(kinds) /\ s[i][1] = <<kinds[1], i>>
                        /\ (Len(kinds) = 2 => s[i][2] = <<kinds[2], i>>)
  <2>1. TAKE i \in 1 .. n
  <2>2. PICK x : x = s[i] /\ x = [j \in 1 .. Len(kinds) |-> <<kinds[j], i>>]
    BY <1>3
  <2>3. i \in Nat \ {0}
    OBVIOUS
  <2> HIDE DEF AnyPair
  <2>4. /\ x \in Seq(AnyPair) /\ Len(x) = Len(kinds) /\ x[1] = <<kinds[1], i>>
        /\ Len(kinds) = 2 => x[2] = <<kinds[2], i>>
    BY <1>1, <2>2, <2>3, PlansOne
  <2> QED
    BY <2>2, <2>4
<1>5. s \in Seq(Seq(AnyPair)) /\ Len(s) = n
  <2>1. s \in [1 .. n -> Seq(AnyPair)]
    BY <1>2, <1>4
  <2> QED
    BY <2>1
<1>6. PICK f : Joins(f, s) /\ FlattenSeq(s) = f[n]
  BY <1>5, Flattened
<1>7. \A k \in 1 .. n : (k = 1 => f[k] = s[1]) /\ (k # 1 => f[k] = f[k - 1] \o s[k])
  BY <1>5, <1>6 DEF Joins
<1> DEFINE S == {k \in Nat : k \in 1 .. n => Planning(kinds, f[k], k)}
<1>8. 0 \in S
  OBVIOUS
<1>9. ASSUME NEW k \in S PROVE k + 1 \in S
  <2> SUFFICES ASSUME k + 1 \in 1 .. n PROVE Planning(kinds, f[k + 1], k + 1)
    OBVIOUS
  <2>1. PICK m \in 1 .. n : m = k + 1 /\ m - 1 = k
    OBVIOUS
  <2>2. PICK x \in Seq(AnyPair) : x = s[m] /\ Len(x) = Len(kinds) /\ x[1] = <<kinds[1], k + 1>>
                                   /\ (Len(kinds) = 2 => x[2] = <<kinds[2], k + 1>>)
    BY <1>4, <2>1
  <2>3. CASE k = 0
    <3>1. Planning(kinds, <<>>, 0)
      BY DEF Planning
    <3>2. Planning(kinds, <<>> \o x, 0 + 1)
      BY <1>1, <2>2, <2>3, <3>1, PlansMore
    <3>3. <<>> \o x = x
      BY <2>2
    <3>4. 1 \in 1 .. n /\ m = 1
      BY <2>1, <2>3
    <3>5. f[1] = x
      BY <1>7, <2>2, <3>4
    <3> QED
      BY <2>3, <3>2, <3>3, <3>5
  <2>4. CASE k # 0
    <3>1. Planning(kinds, f[k], k) /\ k \in Nat
      BY <2>4
    <3>2. f[m] = f[k] \o x
      <4>1. m # 1
        BY <2>1, <2>4
      <4>2. f[m] = f[m - 1] \o s[m]
        BY <1>7, <4>1
      <4> QED
        BY <2>1, <2>2, <4>2
    <3>3. Planning(kinds, f[k] \o x, k + 1)
      BY <1>1, <2>2, <3>1, PlansMore
    <3> QED
      BY <2>1, <3>2, <3>3
  <2> QED
    BY <2>3, <2>4
<1>10. S = Nat
  <2>1. S \in SUBSET Nat
    OBVIOUS
  <2> HIDE DEF S
  <2> QED
    BY <1>8, <1>9, <2>1, Inductive
<1>11. Planning(kinds, f[n], n)
  BY <1>10
<1>12. Attempts(mode, fs) = FlattenSeq(s)
  BY <1>1, <1>2 DEF Attempts
<1> QED
  BY <1>1, <1>6, <1>11, <1>12

LEMMA MaxKnown ==
  ASSUME NEW s \in SUBSET Nat, NEW x \in s, \A y \in s : y <= x
  PROVE  Max(s) = x
<1>1. PICK m : m = Max(s)
  OBVIOUS
<1>2. x \in s /\ \A y \in s : x >= y
  OBVIOUS
<1>3. m \in s /\ \A y \in s : m >= y
  BY <1>1, <1>2, Zenon DEF Max
<1>4. m >= x /\ x >= m /\ m \in Nat /\ x \in Nat
  BY <1>2, <1>3
<1> QED
  BY <1>1, <1>4

\* What folding Negotiate over the first k messages computes.
Folds(g, a, wire, k) ==
  g = [s \in SUBSET (1 .. k) |-> IF s = {} THEN a ELSE Negotiate(g[s \ {Max(s)}], wire[Max(s)])]
LEMMA FoldsExist ==
  ASSUME NEW a, NEW wire, NEW n \in Nat
  PROVE  \E g : Folds(g, a, wire, n)
<1> DEFINE S == {k \in Nat : \E g : Folds(g, a, wire, k)}
<1>1. 0 \in S
  <2>1. PICK g : g = [s \in SUBSET (1 .. 0) |-> a]
    OBVIOUS
  <2>2. \A s \in SUBSET (1 .. 0) : s = {}
    OBVIOUS
  <2>3. g = [s \in SUBSET (1 .. 0) |-> IF s = {} THEN a ELSE Negotiate(g[s \ {Max(s)}], wire[Max(s)])]
    BY <2>1, <2>2
  <2>4. Folds(g, a, wire, 0)
    BY <2>3 DEF Folds
  <2> QED
    BY <2>4
<1>2. ASSUME NEW k \in S PROVE k + 1 \in S
  <2>1. PICK g : Folds(g, a, wire, k)
    OBVIOUS
  <2>2. PICK h : h = [s \in SUBSET (1 .. (k + 1)) |->
                       IF k + 1 \in s THEN Negotiate(g[s \ {k + 1}], wire[k + 1]) ELSE g[s]]
    OBVIOUS
  <2>3. ASSUME NEW s \in SUBSET (1 .. (k + 1))
        PROVE  h[s] = IF s = {} THEN a ELSE Negotiate(h[s \ {Max(s)}], wire[Max(s)])
    <3>1. CASE k + 1 \in s
      <4>1. Max(s) = k + 1
        <5>1. s \in SUBSET Nat /\ \A y \in s : y <= k + 1
          OBVIOUS
        <5> QED
          BY <3>1, <5>1, MaxKnown
      <4>2. PICK t : t = s \ {k + 1} /\ t \in SUBSET (1 .. (k + 1)) /\ k + 1 \notin t
        <5>1. s \ {k + 1} \in SUBSET (1 .. (k + 1)) /\ k + 1 \notin s \ {k + 1}
          OBVIOUS
        <5> QED
          BY <5>1
      <4>3. h[t] = g[t]
        BY <2>2, <4>2
      <4>4. h[s] = Negotiate(g[t], wire[k + 1])
        BY <2>2, <3>1, <4>2
      <4> QED
        BY <3>1, <4>1, <4>2, <4>3, <4>4
    <3>2. CASE k + 1 \notin s
      <4>1. s \in SUBSET (1 .. k)
        BY <3>2
      <4>2. h[s] = g[s]
        BY <2>2, <3>2
      <4>3. PICK m : m = Max(s)
        OBVIOUS
      <4>4. PICK t : t = s \ {m} /\ t \in SUBSET (1 .. (k + 1)) /\ k + 1 \notin t
        BY <3>2
      <4>5. h[t] = g[t]
        BY <2>2, <4>4
      <4>6. g[s] = IF s = {} THEN a ELSE Negotiate(g[s \ {Max(s)}], wire[Max(s)])
        BY <2>1, <4>1, Zenon DEF Folds
      <4> QED
        BY <4>2, <4>3, <4>4, <4>5, <4>6
    <3> QED
      BY <3>1, <3>2
  <2>4. h = [s \in SUBSET (1 .. (k + 1)) |-> h[s]]
    BY <2>2
  <2>5. Folds(h, a, wire, k + 1)
    BY <2>3, <2>4, Zenon DEF Folds
  <2>6. k + 1 \in Nat
    OBVIOUS
  <2> QED
    BY <2>5, <2>6
<1>3. S = Nat
  <2>1. S \in SUBSET Nat
    OBVIOUS
  <2> HIDE DEF S
  <2> QED
    BY <1>1, <1>2, <2>1, Inductive
<1> QED
  BY <1>3

Folded(a, wire) == FoldLeft(Negotiate, a, wire)
StepsTo(r, a, wire, n) ==
  r[0] = a /\ Folded(a, wire) = r[n] /\ \A i \in 1 .. n : r[i] = Negotiate(r[i - 1], wire[i])
LEMMA FoldSteps ==
  ASSUME NEW a, NEW wire, NEW n \in Nat, DOMAIN wire = 1 .. n
  PROVE  \E r : StepsTo(r, a, wire, n)
<1>1. PICK g : g = CHOOSE h : Folds(h, a, wire, n)
  OBVIOUS
<1>2. Folds(g, a, wire, n)
  BY <1>1, FoldsExist
<1>3. Folded(a, wire) = g[1 .. n]
  BY <1>1 DEF Folded, FoldLeft, MapThenFoldSet, Folds
<1>4. \A s \in SUBSET (1 .. n) : g[s] = IF s = {} THEN a ELSE Negotiate(g[s \ {Max(s)}], wire[Max(s)])
  BY <1>2, Zenon DEF Folds
<1>5. g[1 .. 0] = a
  <2>1. 1 .. 0 = {}
    OBVIOUS
  <2> QED
    BY <1>4, <2>1
<1>6. ASSUME NEW i \in 1 .. n PROVE g[1 .. i] = Negotiate(g[1 .. (i - 1)], wire[i])
  <2>1. PICK s \in SUBSET (1 .. n) : s = 1 .. i
    <3>1. 1 .. i \in SUBSET (1 .. n)
      OBVIOUS
    <3> QED
      BY <3>1
  <2>2. s # {} /\ s \in SUBSET Nat /\ i \in s /\ \A y \in s : y <= i
    BY <2>1
  <2>3. Max(s) = i
    BY <2>2, MaxKnown
  <2>4. s \ {i} = 1 .. (i - 1)
    BY <2>1
  <2>5. g[s] = Negotiate(g[s \ {Max(s)}], wire[Max(s)])
    BY <1>4, <2>2
  <2> QED
    BY <2>1, <2>3, <2>4, <2>5
<1>7. PICK r : r = [i \in 0 .. n |-> g[1 .. i]]
  OBVIOUS
<1>8. r[0] = a /\ r[n] = g[1 .. n]
  BY <1>5, <1>7
<1>9. ASSUME NEW i \in 1 .. n PROVE r[i] = Negotiate(r[i - 1], wire[i])
  <2>1. i \in 0 .. n /\ i - 1 \in 0 .. n
    OBVIOUS
  <2>2. r[i] = g[1 .. i] /\ r[i - 1] = g[1 .. (i - 1)]
    BY <1>7, <2>1
  <2> QED
    BY <1>6, <2>2
<1> QED
  BY <1>3, <1>8, <1>9 DEF StepsTo

LEMMA LeftAll ==
  ASSUME NEW kinds, Len(kinds) \in 1 .. 2, NEW n \in Nat \ {0}, NEW todo, Planning(kinds, todo, n)
  PROVE  Left(kinds, todo, 1, 1, n)
<1>1. n + 1 - 1 = n /\ \A j \in 1 .. n : 1 + j - 1 = j
  OBVIOUS
<1>2. 1 \in Nat \ {0} /\ 1 <= n + 1 /\ ~(1 = 2)
  OBVIOUS
<1>3. 1 \in 1 .. Len(kinds)
  OBVIOUS
<1>4. /\ Len(kinds) = 1 => Len(todo) = n /\ \A j \in 1 .. n : todo[j] = <<kinds[1], j>>
      /\ Len(kinds) = 2 => Len(todo) = 2 * n /\ \A j \in 1 .. n : todo[2 * j - 1] = <<kinds[1], j>> /\ todo[2 * j] = <<kinds[2], j>>
  BY Zenon DEF Planning
<1> QED
  BY <1>1, <1>4, <1>2, <1>3, Zenon DEF Left

LEMMA LeftNone ==
  ASSUME NEW kinds, Len(kinds) \in 1 .. 2, NEW n \in Nat, NEW h, NEW s, Left(kinds, <<>>, h, s, n)
  PROVE  s = 1 /\ h = n + 1
<1>1. h \in Nat \ {0} /\ h <= n + 1 /\ s \in 1 .. Len(kinds) /\ (s = 2 => h <= n) /\ Len(<<>>) = 0
  BY DEF Left
<1>2. Len(kinds) = 1 => 0 = n + 1 - h
  BY <1>1 DEF Left
<1>3. Len(kinds) = 2 /\ s = 1 => 0 = 2 * (n + 1 - h)
  BY <1>1 DEF Left
<1>4. Len(kinds) = 2 /\ s = 2 => 0 = 2 * (n - h) + 1
  BY <1>1 DEF Left
<1>5. (Len(kinds) = 1 \/ Len(kinds) = 2) /\ (s = 1 \/ s = 2) /\ (Len(kinds) = 1 => s = 1)
  <2>1. PICK l \in 1 .. 2 : l = Len(kinds)
    OBVIOUS
  <2>2. s \in 1 .. l
    BY <1>1, <2>1
  <2> QED
    BY <2>1, <2>2
<1> QED
  BY <1>1, <1>2, <1>3, <1>4, <1>5

\* Taking the next attempt.
Taken(kinds, todo, h, s, n) ==
  /\ Head(todo) = <<kinds[s], h>> /\ h <= n /\ h \in Nat /\ s \in {1, 2}
  /\ s = Len(kinds) => Left(kinds, Tail(todo), h + 1, 1, n)
  /\ s # Len(kinds) => s = 1 /\ Len(kinds) = 2 /\ Left(kinds, Tail(todo), h, 2, n)
LEMMA LeftTakes ==
  ASSUME NEW kinds, Len(kinds) \in 1 .. 2, NEW n \in Nat, NEW h, NEW s, NEW todo \in Seq(AnyPair), todo # <<>>,
         Left(kinds, todo, h, s, n)
  PROVE  Taken(kinds, todo, h, s, n)
<1>1. PICK rest \in Seq(AnyPair), l \in Nat :
        rest = Tail(todo) /\ l = Len(rest) /\ Len(todo) = l + 1 /\ Head(todo) = todo[1] /\ \A j \in 1 .. l : rest[j] = todo[j + 1]
  <2>1. /\ Tail(todo) \in Seq(AnyPair) /\ Len(Tail(todo)) \in Nat /\ Len(todo) = Len(Tail(todo)) + 1
        /\ Head(todo) = todo[1] /\ \A j \in 1 .. Len(Tail(todo)) : Tail(todo)[j] = todo[j + 1]
    OBVIOUS
  <2> QED
    BY <2>1
<1>2. h \in Nat \ {0} /\ h <= n + 1 /\ s \in 1 .. Len(kinds) /\ (s = 2 => h <= n)
  BY DEF Left
<1>3. CASE Len(kinds) = 1
  <2>1. l + 1 = n + 1 - h /\ s = 1 /\ \A j \in 1 .. (n + 1 - h) : todo[j] = <<kinds[1], h + j - 1>>
    BY <1>1, <1>2, <1>3 DEF Left
  <2>2. todo[1] = <<kinds[1], h>>
    BY <1>2, <2>1
  <2>3. ASSUME NEW j \in 1 .. (n + 1 - (h + 1)) PROVE rest[j] = <<kinds[1], (h + 1) + j - 1>>
    <3>1. j + 1 \in 1 .. (n + 1 - h) /\ j \in 1 .. l /\ h + (j + 1) - 1 = (h + 1) + j - 1
      BY <1>2, <2>1
    <3> QED
      BY <1>1, <2>1, <3>1
  <2>4. l = n + 1 - (h + 1) /\ h + 1 \in Nat \ {0} /\ h + 1 <= n + 1
    BY <1>2, <2>1
  <2>5. Left(kinds, rest, h + 1, 1, n)
    BY <1>1, <1>3, <2>3, <2>4 DEF Left
  <2> QED
    BY <1>1, <1>2, <1>3, <2>1, <2>2, <2>4, <2>5 DEF Taken
<1>4. CASE Len(kinds) = 2 /\ s = 1
  <2>1. /\ l + 1 = 2 * (n + 1 - h)
        /\ \A j \in 1 .. (n + 1 - h) : todo[2 * j - 1] = <<kinds[1], h + j - 1>> /\ todo[2 * j] = <<kinds[2], h + j - 1>>
    BY <1>1, <1>4 DEF Left
  <2>2. h <= n /\ l = 2 * (n - h) + 1
    BY <1>2, <2>1
  <2>3. 1 \in 1 .. (n + 1 - h) /\ 2 * 1 - 1 = 1 /\ 2 * 1 = 2 /\ h + 1 - 1 = h
    BY <1>2, <2>2
  <2>4. todo[1] = <<kinds[1], h>> /\ todo[2] = <<kinds[2], h>>
    BY <2>1, <2>3
  <2>5. rest[1] = <<kinds[2], h>>
    <3>1. 1 \in 1 .. l /\ 1 + 1 = 2
      BY <1>2, <2>2
    <3> QED
      BY <1>1, <2>4, <3>1
  <2>6. ASSUME NEW j \in 1 .. (n - h) PROVE rest[2 * j] = <<kinds[1], h + j>> /\ rest[2 * j + 1] = <<kinds[2], h + j>>
    <3>1. PICK i \in 1 .. (n + 1 - h) : i = j + 1
      BY <1>2, <2>2
    <3>2. todo[2 * i - 1] = <<kinds[1], h + i - 1>> /\ todo[2 * i] = <<kinds[2], h + i - 1>>
      BY <2>1
    <3>3. 2 * i - 1 = 2 * j + 1 /\ 2 * i = (2 * j + 1) + 1 /\ h + i - 1 = h + j
      BY <1>2, <3>1
    <3>4. 2 * j \in 1 .. l /\ 2 * j + 1 \in 1 .. l
      BY <1>2, <2>2
    <3>5. rest[2 * j] = todo[2 * j + 1] /\ rest[2 * j + 1] = todo[(2 * j + 1) + 1]
      BY <1>1, <3>4
    <3> QED
      BY <3>2, <3>3, <3>5
  <2>7. Left(kinds, rest, h, 2, n)
    <3>1. /\ h \in Nat \ {0} /\ h <= n + 1 /\ 2 \in 1 .. Len(kinds) /\ h <= n /\ ~(Len(kinds) = 1) /\ ~(2 = 1)
          /\ Len(rest) = 2 * (n - h) + 1
      BY <1>1, <1>2, <1>4, <2>2
    <3> QED
      BY <3>1, <2>5, <2>6, Zenon DEF Left
  <2> QED
    BY <1>1, <1>2, <1>4, <2>2, <2>4, <2>7 DEF Taken
<1>5. CASE Len(kinds) = 2 /\ s = 2
  <2>1. /\ l + 1 = 2 * (n - h) + 1 /\ todo[1] = <<kinds[2], h>>
        /\ \A j \in 1 .. (n - h) : todo[2 * j] = <<kinds[1], h + j>> /\ todo[2 * j + 1] = <<kinds[2], h + j>>
    BY <1>1, <1>5 DEF Left
  <2>2. h <= n /\ l = 2 * (n + 1 - (h + 1)) /\ h + 1 \in Nat \ {0} /\ h + 1 <= n + 1
    BY <1>2, <1>5, <2>1
  <2>3. ASSUME NEW j \in 1 .. (n + 1 - (h + 1))
        PROVE rest[2 * j - 1] = <<kinds[1], (h + 1) + j - 1>> /\ rest[2 * j] = <<kinds[2], (h + 1) + j - 1>>
    <3>1. j \in 1 .. (n - h) /\ (h + 1) + j - 1 = h + j
      BY <1>2, <2>2
    <3>2. 2 * j - 1 \in 1 .. l /\ 2 * j \in 1 .. l /\ (2 * j - 1) + 1 = 2 * j
      BY <1>2, <2>2
    <3>3. rest[2 * j - 1] = todo[(2 * j - 1) + 1] /\ rest[2 * j] = todo[2 * j + 1]
      BY <1>1, <3>2
    <3> QED
      BY <2>1, <3>1, <3>2, <3>3
  <2>4. Left(kinds, rest, h + 1, 1, n)
    BY <1>1, <1>5, <2>2, <2>3 DEF Left
  <2> QED
    BY <1>1, <1>2, <1>5, <2>1, <2>2, <2>4 DEF Taken
<1>6. Len(kinds) = 1 \/ (Len(kinds) = 2 /\ s = 1) \/ (Len(kinds) = 2 /\ s = 2)
  <2>1. PICK k \in 1 .. 2 : k = Len(kinds)
    OBVIOUS
  <2>2. s \in 1 .. k
    BY <1>2, <2>1
  <2> QED
    BY <2>1, <2>2
<1> QED
  BY <1>6, <1>3, <1>4, <1>5, Zenon

Welcomes == {"trust", "password", "badpassword", "scram", "rejected", "hangup", "silent"}
AnyMessage == {"AuthOK", "Option", "Key", "Ready", "AuthPassword", "AuthOther", "Error"}
\* What reading one message leaves as it is.
Same(a, b) ==
  /\ b \in AnyTry /\ b.ssl = a.ssl /\ b.f = a.f /\ b.phase = a.phase /\ b.did = a.did
  /\ b.secured = a.secured /\ b.exception = a.exception
Becomes(a, b, pc, options, fatal) ==
  Same(a, b) /\ b.n = a.n + 1 /\ b.pc = pc /\ b.options = options /\ b.fatal = fatal

LEMMA NegotiateDoes ==
  ASSUME NEW a \in AnyTry, a.pc \notin {"done", "send"}, NEW m
  PROVE  LET b == Negotiate(a, m)
         IN /\ m = "Error" => Becomes(a, b, "done", a.options, TRUE)
            /\ m = "Option" => Becomes(a, b, a.pc, a.options + 1, a.fatal)
            /\ m = "AuthPassword" /\ a.pc = "auth" => Becomes(a, b, "send", a.options, a.fatal)
            /\ m = "AuthOK" /\ a.pc \in {"auth", "authok"} => Becomes(a, b, "kill", a.options, a.fatal)
            /\ m = "Key" /\ a.pc = "kill" => Becomes(a, b, "ready", a.options, a.fatal)
            /\ m = "Ready" /\ a.pc = "ready" => Becomes(a, b, "done", a.options, a.fatal)
            /\ m = "AuthOther" => Becomes(a, b, "done", a.options, TRUE)
            /\ m = "Ready" /\ a.pc = "kill" => Becomes(a, b, "done", a.options, TRUE)
<1>1. /\ a = [ ssl |-> a.ssl, f |-> a.f, phase |-> a.phase, did |-> a.did, secured |-> a.secured, pc |-> a.pc,
                options |-> a.options, fatal |-> a.fatal, exception |-> a.exception, n |-> a.n ]
      /\ a.n \in Nat /\ a.options \in Nat
  BY DEF AnyTry
<1> DEFINE Made(pc, options, fatal) ==
      [ ssl |-> a.ssl, f |-> a.f, phase |-> a.phase, did |-> a.did, secured |-> a.secured, pc |-> pc,
        options |-> options, fatal |-> fatal, exception |-> a.exception, n |-> a.n + 1 ]
<1>2. ASSUME NEW pc \in {"auth", "send", "authok", "kill", "ready", "done"}, NEW options \in Nat, NEW fatal \in BOOLEAN
      PROVE  Becomes(a, Made(pc, options, fatal), pc, options, fatal)
  <2>1. Made(pc, options, fatal) \in AnyTry
    BY <1>1 DEF AnyTry
  <2> QED
    BY <2>1 DEF Becomes, Same
<1>3. PICK b : b = Negotiate(a, m)
  OBVIOUS
<1>4. /\ m = "Error" => b = Made("done", a.options, TRUE)
      /\ m = "Option" => b = Made(a.pc, a.options + 1, a.fatal)
  BY <1>1, <1>3 DEF Negotiate
<1>5. /\ m = "AuthPassword" /\ a.pc = "auth" => b = Made("send", a.options, a.fatal)
      /\ m = "AuthOK" /\ a.pc \in {"auth", "authok"} => b = Made("kill", a.options, a.fatal)
      /\ m = "Key" /\ a.pc = "kill" => b = Made("ready", a.options, a.fatal)
      /\ m = "Ready" /\ a.pc = "ready" => b = Made("done", a.options, a.fatal)
  BY <1>1, <1>3 DEF Negotiate
<1>6. /\ m = "AuthOther" => b = Made("done", a.options, TRUE)
      /\ m = "Ready" /\ a.pc = "kill" => b = Made("done", a.options, TRUE)
  BY <1>1, <1>3 DEF Negotiate
<1>7. a.pc \in {"auth", "send", "authok", "kill", "ready", "done"} /\ a.fatal \in BOOLEAN /\ a.options + 1 \in Nat
  BY <1>1 DEF AnyTry
<1> HIDE DEF Made
<1> QED
  BY <1>1, <1>2, <1>3, <1>4, <1>5, <1>6, <1>7

\* One message of the exchange with a server.
LEMMA HearsOne ==
  ASSUME NEW w \in Welcomes, NEW a \in AnyTry, NEW wire, wire # <<>>, Heard(w, a, wire), a.pc \notin {"done", "send"}
  PROVE  /\ Same(a, Negotiate(a, Head(wire))) /\ Negotiate(a, Head(wire)).n = a.n + 1
         /\ Heard(w, Negotiate(a, Head(wire)), Tail(wire))
<1>1. PICK b : b = Negotiate(a, Head(wire))
  OBVIOUS
<1>2. PICK m, rest : m = Head(wire) /\ rest = Tail(wire)
  OBVIOUS
<1>3. a.fatal = FALSE /\ <<a.pc, a.options, wire>> \in Exchanges(w)
  BY DEF Heard
<1>4. ASSUME Becomes(a, b, "done", a.options, TRUE) PROVE Same(a, b) /\ b.n = a.n + 1 /\ Heard(w, b, rest)
  BY <1>4 DEF Becomes, Heard
<1>5. ASSUME NEW pc, NEW options, Becomes(a, b, pc, options, FALSE), <<pc, options, rest>> \in Exchanges(w)
      PROVE Same(a, b) /\ b.n = a.n + 1 /\ Heard(w, b, rest)
  BY <1>5 DEF Becomes, Heard
<1>6. ASSUME NEW pc \in {"auth", "authok"}, <<a.pc, a.options, wire>> \in Greeting(pc), Greeting(pc) \subseteq Exchanges(w)
      PROVE Same(a, b) /\ b.n = a.n + 1 /\ Heard(w, b, rest)
  <2>1. CASE a.pc = pc /\ a.options = 0 /\ wire = <<"AuthOK", "Option", "Key", "Option", "Ready">>
    <3>1. m = "AuthOK" /\ rest = <<"Option", "Key", "Option", "Ready">>
      BY <1>2, <2>1
    <3>2. Becomes(a, b, "kill", 0, FALSE)
      BY <1>1, <1>2, <1>3, <2>1, <3>1, NegotiateDoes
    <3>3. <<"kill", 0, rest>> \in Exchanges(w)
      BY <1>6, <3>1 DEF Greeting
    <3> QED
      BY <1>5, <3>2, <3>3
  <2>2. CASE a.pc = "kill" /\ a.options = 0 /\ wire = <<"Option", "Key", "Option", "Ready">>
    <3>1. m = "Option" /\ rest = <<"Key", "Option", "Ready">>
      BY <1>2, <2>2
    <3>2. Becomes(a, b, "kill", 1, FALSE)
      <4>1. Becomes(a, b, "kill", 0 + 1, FALSE)
        BY <1>1, <1>2, <1>3, <2>2, <3>1, NegotiateDoes
      <4>2. 0 + 1 = 1
        OBVIOUS
      <4> QED
        BY <4>1, <4>2, Zenon
    <3>3. <<"kill", 1, rest>> \in Exchanges(w)
      BY <1>6, <3>1 DEF Greeting
    <3> QED
      BY <1>5, <3>2, <3>3
  <2>3. CASE a.pc = "kill" /\ a.options = 1 /\ wire = <<"Key", "Option", "Ready">>
    <3>1. m = "Key" /\ rest = <<"Option", "Ready">>
      BY <1>2, <2>3
    <3>2. Becomes(a, b, "ready", 1, FALSE)
      BY <1>1, <1>2, <1>3, <2>3, <3>1, NegotiateDoes
    <3>3. <<"ready", 1, rest>> \in Exchanges(w)
      BY <1>6, <3>1 DEF Greeting
    <3> QED
      BY <1>5, <3>2, <3>3
  <2>4. CASE a.pc = "ready" /\ a.options = 1 /\ wire = <<"Option", "Ready">>
    <3>1. m = "Option" /\ rest = <<"Ready">>
      BY <1>2, <2>4
    <3>2. Becomes(a, b, "ready", 2, FALSE)
      <4>1. Becomes(a, b, "ready", 1 + 1, FALSE)
        BY <1>1, <1>2, <1>3, <2>4, <3>1, NegotiateDoes
      <4>2. 1 + 1 = 2
        OBVIOUS
      <4> QED
        BY <4>1, <4>2, Zenon
    <3>3. <<"ready", 2, rest>> \in Exchanges(w)
      BY <1>6, <3>1 DEF Greeting
    <3> QED
      BY <1>5, <3>2, <3>3
  <2>5. CASE a.pc = "ready" /\ a.options = 2 /\ wire = <<"Ready">>
    <3>1. m = "Ready" /\ rest = <<>>
      BY <1>2, <2>5
    <3>2. Becomes(a, b, "done", 2, FALSE)
      BY <1>1, <1>2, <1>3, <2>5, <3>1, NegotiateDoes
    <3>3. <<"done", 2, rest>> \in Exchanges(w)
      BY <1>6, <3>1 DEF Greeting
    <3> QED
      BY <1>5, <3>2, <3>3
  <2> QED
    BY <1>6, <2>1, <2>2, <2>3, <2>4, <2>5 DEF Greeting
<1>7. ASSUME a.pc = "auth", a.options = 0, wire = <<"AuthPassword">>, <<"send", 0, <<>>>> \in Exchanges(w)
      PROVE Same(a, b) /\ b.n = a.n + 1 /\ Heard(w, b, rest)
  <2>1. m = "AuthPassword" /\ rest = <<>>
    BY <1>2, <1>7
  <2>2. Becomes(a, b, "send", 0, FALSE)
    BY <1>1, <1>2, <1>3, <1>7, <2>1, NegotiateDoes
  <2> QED
    BY <1>5, <1>7, <2>1, <2>2
<1>8. CASE w = "trust"
  <2>1. Exchanges(w) = Greeting("auth")
    BY <1>8 DEF Exchanges
  <2> QED
    BY <1>1, <1>2, <1>3, <1>6, <2>1
<1>9. CASE w = "password"
  <2>1. Exchanges(w) = {<<"auth", 0, <<"AuthPassword">>>>, <<"send", 0, <<>>>>} \cup Greeting("authok")
    BY <1>9 DEF Exchanges
  <2>2. CASE <<a.pc, a.options, wire>> \in Greeting("authok")
    BY <1>1, <1>2, <1>6, <2>1, <2>2
  <2>3. CASE <<a.pc, a.options, wire>> = <<"auth", 0, <<"AuthPassword">>>>
    BY <1>1, <1>2, <1>7, <2>1, <2>3
  <2> QED
    BY <1>3, <2>1, <2>2, <2>3
<1>10. CASE w = "badpassword"
  <2>1. Exchanges(w) = {<<"auth", 0, <<"AuthPassword">>>>, <<"send", 0, <<>>>>, <<"authok", 0, <<"Error">>>>}
    BY <1>10 DEF Exchanges
  <2>2. CASE <<a.pc, a.options, wire>> = <<"authok", 0, <<"Error">>>>
    <3>1. m = "Error"
      BY <1>2, <2>2
    <3> QED
      BY <1>1, <1>2, <1>4, <3>1, NegotiateDoes
  <2>3. CASE <<a.pc, a.options, wire>> = <<"auth", 0, <<"AuthPassword">>>>
    BY <1>1, <1>2, <1>7, <2>1, <2>3
  <2> QED
    BY <1>3, <2>1, <2>2, <2>3
<1>11. CASE w = "scram"
  <2>1. wire = <<"AuthOther">>
    BY <1>3, <1>11 DEF Exchanges
  <2>2. m = "AuthOther"
    BY <1>2, <2>1
  <2> QED
    BY <1>1, <1>2, <1>4, <2>2, NegotiateDoes
<1>12. CASE w = "rejected"
  <2>1. wire = <<"Error">>
    BY <1>3, <1>12 DEF Exchanges
  <2>2. m = "Error"
    BY <1>2, <2>1
  <2> QED
    BY <1>1, <1>2, <1>4, <2>2, NegotiateDoes
<1>13. CASE w = "hangup"
  BY <1>3, <1>13 DEF Exchanges
<1>14. CASE w = "silent"
  <2>1. Exchanges(w) = {<<"auth", 0, <<"AuthOK", "Ready">>>>, <<"kill", 0, <<"Ready">>>>}
    BY <1>14 DEF Exchanges
  <2>2. CASE <<a.pc, a.options, wire>> = <<"auth", 0, <<"AuthOK", "Ready">>>>
    <3>1. m = "AuthOK" /\ rest = <<"Ready">> /\ a.pc = "auth" /\ a.options = 0
      BY <1>2, <2>2
    <3>2. Becomes(a, b, "kill", 0, FALSE)
      BY <1>1, <1>2, <1>3, <3>1, NegotiateDoes
    <3> QED
      BY <1>1, <1>2, <1>5, <2>1, <3>1, <3>2
  <2>3. CASE <<a.pc, a.options, wire>> = <<"kill", 0, <<"Ready">>>>
    <3>1. m = "Ready" /\ a.pc = "kill"
      BY <1>2, <2>3
    <3> QED
      BY <1>1, <1>2, <1>4, <3>1, NegotiateDoes
  <2> QED
    BY <1>3, <2>1, <2>2, <2>3
<1> QED
  BY <1>8, <1>9, <1>10, <1>11, <1>12, <1>13, <1>14 DEF Welcomes

LEMMA RestKnown ==
  ASSUME NEW T, NEW s \in Seq(T)
  PROVE  /\ SubSeq(s, 1, Len(s)) = s
         /\ \A n \in 0 .. (Len(s) - 1) :
              /\ SubSeq(s, n + 1, Len(s)) # <<>> /\ Head(SubSeq(s, n + 1, Len(s))) = s[n + 1]
              /\ Tail(SubSeq(s, n + 1, Len(s))) = SubSeq(s, (n + 1) + 1, Len(s))
<1>1. SubSeq(s, 1, Len(s)) = s
  <2>1. PICK t \in Seq(T), n \in Nat : t = SubSeq(s, 1, Len(s)) /\ n = Len(s) /\ Len(t) = n
    <3>1. SubSeq(s, 1, Len(s)) \in Seq(T) /\ Len(SubSeq(s, 1, Len(s))) = Len(s)
      OBVIOUS
    <3> QED
      BY <3>1
  <2>2. \A i \in 1 .. n : t[i] = s[i]
    BY <2>1
  <2> QED
    BY <2>1, <2>2, SameElements
<1>2. ASSUME NEW n \in 0 .. (Len(s) - 1)
      PROVE /\ SubSeq(s, n + 1, Len(s)) # <<>> /\ Head(SubSeq(s, n + 1, Len(s))) = s[n + 1]
            /\ Tail(SubSeq(s, n + 1, Len(s))) = SubSeq(s, (n + 1) + 1, Len(s))
  <2>1. PICK t \in Seq(T) : t = SubSeq(s, n + 1, Len(s)) /\ Len(t) = Len(s) - n /\ \A i \in 1 .. (Len(s) - n) : t[i] = s[n + i]
    <3>1. /\ SubSeq(s, n + 1, Len(s)) \in Seq(T) /\ Len(SubSeq(s, n + 1, Len(s))) = Len(s) - n
          /\ \A i \in 1 .. (Len(s) - n) : SubSeq(s, n + 1, Len(s))[i] = s[n + i]
      OBVIOUS
    <3> QED
      BY <3>1
  <2>2. PICK u \in Seq(T) : u = SubSeq(s, (n + 1) + 1, Len(s)) /\ Len(u) = Len(s) - n - 1
                            /\ \A i \in 1 .. (Len(s) - n - 1) : u[i] = s[(n + 1) + i]
    <3>1. /\ SubSeq(s, (n + 1) + 1, Len(s)) \in Seq(T) /\ Len(SubSeq(s, (n + 1) + 1, Len(s))) = Len(s) - n - 1
          /\ \A i \in 1 .. (Len(s) - n - 1) : SubSeq(s, (n + 1) + 1, Len(s))[i] = s[(n + 1) + i]
      OBVIOUS
    <3> QED
      BY <3>1
  <2>3. t # <<>> /\ Head(t) = t[1] /\ t[1] = s[n + 1]
    <3>1. Len(s) - n \in Nat \ {0} /\ 1 \in 1 .. (Len(s) - n)
      OBVIOUS
    <3>2. Len(t) # 0 /\ t[1] = s[n + 1]
      BY <2>1, <3>1
    <3> QED
      BY <3>2
  <2>4. PICK v \in Seq(T), m \in Nat : v = Tail(t) /\ m = Len(s) - n - 1 /\ Len(v) = m
    <3>1. Tail(t) \in Seq(T) /\ Len(Tail(t)) = Len(s) - n - 1 /\ Len(s) - n - 1 \in Nat
      BY <2>1, <2>3
    <3> QED
      BY <3>1
  <2>5. \A i \in 1 .. m : v[i] = u[i]
    <3>1. TAKE i \in 1 .. m
    <3>2. v[i] = t[i + 1]
      BY <2>3, <2>4
    <3>3. i + 1 \in 1 .. (Len(s) - n) /\ n + (i + 1) = (n + 1) + i
      BY <2>4
    <3>4. t[i + 1] = s[(n + 1) + i]
      BY <2>1, <3>3
    <3> QED
      BY <2>2, <2>4, <3>2, <3>4
  <2>6. v = u
    BY <2>2, <2>4, <2>5, SameElements
  <2> QED
    BY <2>1, <2>2, <2>3, <2>4, <2>6
<1> QED
  BY <1>1, <1>2

\* What is known after i messages of a chunk.
Reading(w, a, wire, b, i) ==
  /\ Same(a, b) /\ b.n <= i /\ (b.pc \notin {"done", "send"} => b.n = i)
  /\ Heard(w, b, SubSeq(wire, b.n + 1, Len(wire)))

LEMMA ReadsOne ==
  ASSUME NEW w \in Welcomes, NEW a, NEW wire \in Seq(AnyMessage), NEW b, NEW i \in 0 .. (Len(wire) - 1),
         Reading(w, a, wire, b, i)
  PROVE  Reading(w, a, wire, Negotiate(b, wire[i + 1]), i + 1)
<1>1. b \in AnyTry /\ b.n \in Nat /\ b.n <= i
  BY DEF Reading, Same, AnyTry
<1>2. CASE b.pc \in {"done", "send"}
  <2>1. Negotiate(b, wire[i + 1]) = b
    BY <1>2 DEF Negotiate
  <2>2. b.n <= i + 1
    BY <1>1
  <2> QED
    BY <1>2, <2>1, <2>2 DEF Reading
<1>3. CASE b.pc \notin {"done", "send"}
  <2>1. b.n = i
    BY <1>3 DEF Reading
  <2>2. PICK s : s = SubSeq(wire, i + 1, Len(wire))
    OBVIOUS
  <2>3. s # <<>> /\ Head(s) = wire[i + 1] /\ Tail(s) = SubSeq(wire, (i + 1) + 1, Len(wire))
    BY <2>2, RestKnown
  <2>4. Heard(w, b, s)
    BY <2>1, <2>2 DEF Reading
  <2>5. PICK d : d = Negotiate(b, Head(s))
    OBVIOUS
  <2>6. Same(b, d) /\ d.n = b.n + 1 /\ Heard(w, d, Tail(s))
    BY <1>1, <1>3, <2>3, <2>4, <2>5, HearsOne
  <2>7. Same(a, d)
    BY <2>6 DEF Same, Reading
  <2>8. d.n = i + 1 /\ d.n <= i + 1
    BY <2>1, <2>6
  <2> QED
    BY <2>3, <2>5, <2>6, <2>7, <2>8 DEF Reading
<1> QED
  BY <1>2, <1>3

LEMMA ReadsChunk ==
  ASSUME NEW w \in Welcomes, NEW a \in AnyTry, a.n = 0, NEW wire \in Seq(AnyMessage), Heard(w, a, wire),
         NEW k \in 1 .. Len(wire)
  PROVE  Reading(w, a, wire, Folded(a, SubSeq(wire, 1, k)), k)
<1>1. PICK part : part = SubSeq(wire, 1, k) /\ DOMAIN part = 1 .. k /\ \A i \in 1 .. k : part[i] = wire[i]
  <2>1. DOMAIN SubSeq(wire, 1, k) = 1 .. k /\ \A i \in 1 .. k : SubSeq(wire, 1, k)[i] = wire[i]
    OBVIOUS
  <2> QED
    BY <2>1
<1>2. k \in Nat
  OBVIOUS
<1>3. PICK r : StepsTo(r, a, part, k)
  BY <1>1, <1>2, FoldSteps
<1>4. r[0] = a /\ Folded(a, part) = r[k] /\ \A i \in 1 .. k : r[i] = Negotiate(r[i - 1], part[i])
  BY <1>3 DEF StepsTo
<1>5. Reading(w, a, wire, a, 0)
  <2>1. SubSeq(wire, 0 + 1, Len(wire)) = wire
    BY RestKnown
  <2>2. Same(a, a) /\ a.n <= 0
    BY DEF Same
  <2> QED
    BY <2>1, <2>2 DEF Reading
<1> DEFINE S == {i \in Nat : i \in 0 .. k => Reading(w, a, wire, r[i], i)}
<1>6. 0 \in S
  BY <1>4, <1>5
<1>7. ASSUME NEW i \in S PROVE i + 1 \in S
  <2> SUFFICES ASSUME i + 1 \in 0 .. k PROVE Reading(w, a, wire, r[i + 1], i + 1)
    OBVIOUS
  <2>1. i \in Nat /\ i \in 0 .. k /\ i \in 0 .. (Len(wire) - 1) /\ i + 1 \in 1 .. k /\ (i + 1) - 1 = i
    OBVIOUS
  <2>2. Reading(w, a, wire, r[i], i)
    BY <2>1
  <2>3. Reading(w, a, wire, Negotiate(r[i], wire[i + 1]), i + 1)
    BY <2>1, <2>2, ReadsOne
  <2>4. r[i + 1] = Negotiate(r[i], wire[i + 1])
    BY <1>1, <1>4, <2>1
  <2> QED
    BY <2>3, <2>4
<1>8. S = Nat
  <2>1. S \in SUBSET Nat
    OBVIOUS
  <2> HIDE DEF S
  <2> QED
    BY <1>6, <1>7, <2>1, Inductive
<1>9. Reading(w, a, wire, r[k], k)
  BY <1>2, <1>8
<1> QED
  BY <1>1, <1>4, <1>9

NewlyTried(t, ssl, f) ==
  /\ t \in AnyTry /\ t.ssl = ssl /\ t.f = f /\ t.phase = "socket" /\ t.secured = FALSE /\ t.pc = "auth"
  /\ t.options = 0 /\ t.fatal = FALSE /\ t.exception = FALSE /\ t.n = 0
LEMMA NewTryKnown ==
  ASSUME NEW ssl \in {"none", "try", "must"}, NEW f \in Nat PROVE NewlyTried(NewTry(ssl, f), ssl, f)
BY DEF NewTry, AnyTry, NewlyTried
LEMMA NoTryKnown ==
  /\ NoTry \in AnyTry /\ NoTry.ssl = "none" /\ NoTry.f = 0 /\ NoTry.phase = "socket" /\ NoTry.secured = FALSE
  /\ NoTry.pc = "auth" /\ NoTry.options = 0 /\ NoTry.fatal = FALSE /\ NoTry.exception = FALSE /\ NoTry.n = 0
BY DEF NoTry, NewTry, AnyTry

LEMMA ModesKnown ==
  ASSUME ConnectTypes
  PROVE  /\ AttemptKinds(cMode) \in Seq({"none", "try", "must"}) /\ Len(AttemptKinds(cMode)) \in 1 .. 2
         /\ DOMAIN AttemptKinds(cMode) = 1 .. Len(AttemptKinds(cMode))
BY KindsKnown DEF ConnectTypes

\* An attempt goes on: which hosts were tried and are left stays as it is.
LEMMA HostsKept ==
  ASSUME Hosts, cConn = "trying", cTry.phase \in {"ssl", "startup", "receive"},
         NEW t, cTry' = t, t.phase # "socket", t.ssl = cTry.ssl, t.f = cTry.f,
         cConn' = cConn, cMode' = cMode, cServers' = cServers, cTodo' = cTodo, cSkip' = cSkip,
         cLog'.tried = cLog.tried, cLog'.hosts = cLog.hosts
  PROVE  Hosts'
<1>1. cTry # NoTry /\ t # NoTry
  BY NoTryKnown
<1>2. PICK kinds : kinds = AttemptKinds(cMode)
  OBVIOUS
<1>3. PICK h \in Nat, s \in Nat, n \in Nat : Planned(kinds, h, s, n)
  BY <1>2 DEF Hosts
<1>4. Server.up # FALSE /\ Server' = Server
  BY <1>1, <1>3 DEF Planned, Server
<1>5. ASSUME NEW f PROVE Tried(f)' = Tried(f) /\ Waits(f, kinds, s)' = FALSE /\ Waits(f, kinds, s) = FALSE
  BY DEF Tried, Waits
<1>6. Planned(kinds, h, s, n)'
  BY <1>1, <1>3, <1>4, <1>5 DEF Planned
<1>7. \A f : Once(f)' = Once(f)
  BY DEF Once
<1> QED
  BY <1>2, <1>3, <1>6, <1>7 DEF Hosts

\* The connection is no longer being tried.
LEMMA HostsLeft ==
  ASSUME Hosts, cConn' \notin {"trying", "failed"}, cServers' = cServers, cLog' = cLog
  PROVE  Hosts'
BY DEF Hosts, Once

LEMMA NegotiateSslKeeps == ASSUME ConnectInv, NegotiateSsl PROVE ConnectInv'
<1>1. cTry \in AnyTry /\ cTry.phase = "ssl" /\ cTry # NoTry /\ cConn = "trying"
  BY NoTryKnown DEF ConnectInv, ConnectTypes, Phases, NegotiateSsl
<1>2. PICK t : t = cTry'
  OBVIOUS
<1>3. /\ t \in AnyTry /\ t.ssl = cTry.ssl /\ t.f = cTry.f /\ t.pc = cTry.pc /\ t.options = cTry.options
      /\ \/ t.phase = "startup" /\ t.fatal = cTry.fatal /\ t.exception = cTry.exception
            /\ (t.secured = TRUE \/ (t.secured = cTry.secured /\ cTry.ssl # "must"))
         \/ t.phase = "ended" /\ t.fatal = TRUE /\ t.secured = cTry.secured
  BY <1>1, <1>2 DEF NegotiateSsl, AnyTry, Fatal, WithException, Ended
<1>4. UNCHANGED <<cConn, cMode, cServers, cTodo, cSkip, cWire, cLog>> /\ t # NoTry
  BY <1>2, <1>3, NoTryKnown DEF NegotiateSsl
<1>5. ConnectTypes'
  BY <1>2, <1>3, <1>4 DEF ConnectInv, ConnectTypes
<1>6. Greeted'
  BY <1>1, <1>2, <1>3, <1>4 DEF ConnectInv, Greeted
<1>7. Sockets'
  BY <1>1, <1>2, <1>3, <1>4 DEF ConnectInv, Sockets
<1>8. Phases'
  BY <1>1, <1>2, <1>3, <1>4 DEF ConnectInv, Phases
<1>9. Hosts'
  BY <1>1, <1>2, <1>3, <1>4, HostsKept DEF ConnectInv
<1> QED
  BY <1>5, <1>6, <1>7, <1>8, <1>9 DEF ConnectInv

LEMMA ResetKeeps == ASSUME ConnectInv, NegotiationReset PROVE ConnectInv'
<1>1. cTry \in AnyTry /\ cTry.phase = "ssl" /\ cTry # NoTry /\ cConn = "trying"
  BY NoTryKnown DEF ConnectInv, ConnectTypes, Phases, NegotiationReset
<1>2. cSkip = FALSE
  BY <1>1 DEF ConnectInv, ConnectTypes, Hosts, Planned
<1>3. UNCHANGED <<cMode, cServers, cTodo, cSkip, cWire, cLog>> /\ cTry' = NoTry /\ cConn' = "raised"
  BY DEF NegotiationReset
<1>4. ConnectTypes'
  BY <1>1, <1>3, NoTryKnown DEF ConnectInv, ConnectTypes
<1>5. Greeted'
  BY <1>3, NoTryKnown DEF ConnectInv, Greeted
<1>6. Sockets'
  BY <1>3, NoTryKnown DEF ConnectInv, Sockets
<1>7. Phases'
  BY <1>2, <1>3, NoTryKnown DEF ConnectInv, Phases
<1>8. Hosts'
  BY <1>3, HostsLeft DEF ConnectInv
<1> QED
  BY <1>4, <1>5, <1>6, <1>7, <1>8 DEF ConnectInv

LEMMA WelcomeKnown ==
  ASSUME ConnectInv, cTry # NoTry
  PROVE  cTry.f \in DOMAIN cServers /\ Welcome \in Welcomes /\ cServers[cTry.f] \in ServerKinds
<1>1. cTry.f \in DOMAIN cServers
  BY DEF ConnectInv, Sockets
<1>2. cServers[cTry.f] \in ServerKinds
  BY <1>1 DEF ConnectInv, ConnectTypes
<1>3. cServers[cTry.f].plain \in Welcomes /\ cServers[cTry.f].crypted \in Welcomes
  BY <1>2, ConnectBounds DEF Welcomes
<1> QED
  BY <1>1, <1>2, <1>3 DEF Welcome, Server

LEMMA ConversationsHeard ==
  ASSUME NEW w \in Welcomes
  PROVE  /\ <<"auth", 0, Conversation(w)>> \in Exchanges(w)
         /\ Conversation(w) \in Seq(AnyMessage)
         /\ w \in {"password", "badpassword"} => <<"authok", 0, AfterPassword(w)>> \in Exchanges(w)
         /\ AfterPassword(w) \in Seq(AnyMessage)
<1>1. Accepted \in Seq(AnyMessage) /\ <<"Error">> \in Seq(AnyMessage) /\ <<"AuthPassword">> \in Seq(AnyMessage)
  BY DEF Accepted, AnyMessage
<1>2. <<"AuthOther">> \in Seq(AnyMessage) /\ <<>> \in Seq(AnyMessage) /\ <<"AuthOK", "Ready">> \in Seq(AnyMessage)
  BY DEF AnyMessage
<1>3. AfterPassword(w) \in Seq(AnyMessage)
  BY <1>1 DEF AfterPassword
<1>4. CASE w = "trust"
  BY <1>1, <1>3, <1>4 DEF Conversation, Exchanges, Greeting, Accepted
<1>5. CASE w = "password"
  BY <1>1, <1>3, <1>5 DEF Conversation, Exchanges, Greeting, Accepted, AfterPassword
<1>6. CASE w = "badpassword"
  BY <1>1, <1>3, <1>6 DEF Conversation, Exchanges, AfterPassword
<1>7. CASE w = "scram"
  BY <1>2, <1>3, <1>7 DEF Conversation, Exchanges
<1>8. CASE w = "rejected"
  BY <1>1, <1>3, <1>8 DEF Conversation, Exchanges
<1>9. CASE w = "hangup"
  BY <1>2, <1>3, <1>9 DEF Conversation, Exchanges
<1>10. CASE w = "silent"
  BY <1>2, <1>3, <1>10 DEF Conversation, Exchanges
<1> QED
  BY <1>4, <1>5, <1>6, <1>7, <1>8, <1>9, <1>10 DEF Welcomes

LEMMA StartupKeeps == ASSUME ConnectInv, SendStartup PROVE ConnectInv'
<1>1. cTry \in AnyTry /\ cTry.phase = "startup" /\ cTry # NoTry /\ cConn = "trying"
  BY NoTryKnown DEF ConnectInv, ConnectTypes, Phases, SendStartup
<1>2. PICK t : t = cTry'
  OBVIOUS
<1>3. /\ t \in AnyTry /\ t.ssl = cTry.ssl /\ t.f = cTry.f /\ t.pc = cTry.pc /\ t.options = cTry.options /\ t.phase = "receive"
      /\ t.fatal = cTry.fatal /\ t.exception = cTry.exception /\ t.secured = cTry.secured
  BY <1>1, <1>2 DEF SendStartup, AnyTry
<1>4. UNCHANGED <<cConn, cMode, cServers, cTodo, cSkip, cLog>> /\ t # NoTry /\ cWire' = Conversation(Welcome)
  BY <1>2, <1>3, NoTryKnown DEF SendStartup
<1>5. Welcome \in Welcomes /\ Welcome' = Welcome
  BY <1>1, <1>2, <1>3, <1>4, WelcomeKnown DEF Welcome, Server
<1>6. ConnectTypes'
  BY <1>2, <1>3, <1>4, <1>5, ConversationsHeard DEF ConnectInv, ConnectTypes, AnyMessage
<1>7. Greeted'
  <2>1. t.pc = "auth" /\ t.options = 0 /\ t.fatal = FALSE /\ t.exception = FALSE
    BY <1>1, <1>3 DEF ConnectInv, Greeted
  <2>2. Heard(Welcome, t, Conversation(Welcome))
    BY <1>5, <2>1, ConversationsHeard DEF Heard
  <2> QED
    BY <1>2, <1>3, <1>4, <1>5, <2>1, <2>2 DEF Greeted
<1>8. Sockets'
  BY <1>1, <1>2, <1>3, <1>4 DEF ConnectInv, Sockets
<1>9. Phases'
  BY <1>1, <1>2, <1>3, <1>4 DEF ConnectInv, Phases
<1>10. Hosts'
  BY <1>1, <1>2, <1>3, <1>4, HostsKept DEF ConnectInv
<1> QED
  BY <1>6, <1>7, <1>8, <1>9, <1>10 DEF ConnectInv

LEMMA PasswordKeeps == ASSUME ConnectInv, SendPassword PROVE ConnectInv'
<1>1. cTry \in AnyTry /\ cTry.phase = "receive" /\ cTry.pc = "send" /\ cTry # NoTry /\ cConn = "trying"
  BY NoTryKnown DEF ConnectInv, ConnectTypes, Phases, SendPassword
<1>2. PICK t : t = cTry'
  OBVIOUS
<1>3. /\ t \in AnyTry /\ t.ssl = cTry.ssl /\ t.f = cTry.f /\ t.pc = "authok" /\ t.options = cTry.options /\ t.phase = "receive"
      /\ t.fatal = cTry.fatal /\ t.exception = cTry.exception /\ t.secured = cTry.secured
  BY <1>1, <1>2 DEF SendPassword, AnyTry
<1>4. UNCHANGED <<cConn, cMode, cServers, cTodo, cSkip>> /\ t # NoTry /\ cWire' = cWire \o AfterPassword(Welcome)
  BY <1>2, <1>3, NoTryKnown DEF SendPassword
<1>5. cLog'.tried = cLog.tried /\ cLog'.hosts = cLog.hosts /\ cLog'.passwords = cLog.passwords \cup {cTry.secured}
      /\ cLog' \in [tried : Seq({"none", "try", "must"} \X Nat), hosts : SUBSET Nat, passwords : SUBSET BOOLEAN]
  <2>1. cTry.secured \in BOOLEAN
    BY <1>1 DEF AnyTry
  <2> QED
    BY <2>1 DEF SendPassword, ConnectInv, ConnectTypes
<1>6. Welcome \in Welcomes /\ Welcome' = Welcome
  BY <1>1, <1>2, <1>3, <1>4, WelcomeKnown DEF Welcome, Server
<1>7. cTry.fatal = FALSE /\ cTry.exception = FALSE /\ <<"send", cTry.options, cWire>> \in Exchanges(Welcome)
  BY <1>1 DEF ConnectInv, Greeted, Heard
<1>8. cTry.options = 0 /\ cWire = <<>> /\ Welcome \in {"password", "badpassword"}
  BY <1>6, <1>7 DEF Exchanges, Greeting, Welcomes
<1>9. cWire' = AfterPassword(Welcome)
  BY <1>4, <1>6, <1>8, ConversationsHeard
<1>10. ConnectTypes'
  BY <1>2, <1>3, <1>4, <1>5, <1>6, <1>9, ConversationsHeard DEF ConnectInv, ConnectTypes, AnyMessage
<1>11. Greeted'
  <2>1. Heard(Welcome, t, AfterPassword(Welcome))
    BY <1>3, <1>6, <1>7, <1>8, ConversationsHeard DEF Heard
  <2> QED
    BY <1>2, <1>3, <1>6, <1>7, <1>9, <2>1 DEF Greeted
<1>12. Sockets'
  <2>1. (cMode = "require" => cTry.ssl = "must") /\ (cMode = "disable" => cTry.ssl = "none")
    BY <1>1, ModesKnown, KindsKnown DEF ConnectInv, ConnectTypes, Sockets
  <2>2. (cMode = "require" => cTry.secured = TRUE) /\ (cMode = "disable" => cTry.secured = FALSE)
    BY <1>1, <2>1 DEF ConnectInv, Sockets
  <2>3. (cMode = "require" => FALSE \notin cLog'.passwords) /\ (cMode = "disable" => TRUE \notin cLog'.passwords)
    BY <1>5, <2>2, Zenon DEF ConnectInv, Sockets
  <2> QED
    BY <1>1, <1>2, <1>3, <1>4, <2>3 DEF ConnectInv, Sockets
<1>13. Phases'
  BY <1>1, <1>2, <1>3, <1>4 DEF ConnectInv, Phases
<1>14. Hosts'
  BY <1>1, <1>2, <1>3, <1>4, <1>5, HostsKept DEF ConnectInv
<1> QED
  BY <1>10, <1>11, <1>12, <1>13, <1>14 DEF ConnectInv

LEMMA GreetingKeeps == ASSUME ConnectInv, ReceiveGreeting PROVE ConnectInv'
<1>1. /\ cTry \in AnyTry /\ cTry.phase = "receive" /\ cTry.pc \notin {"send", "done"} /\ cTry # NoTry /\ cConn = "trying"
      /\ cWire \in Seq(AnyMessage)
  BY NoTryKnown DEF ConnectInv, ConnectTypes, Phases, ReceiveGreeting, AnyMessage
<1>2. PICK k, d :
        /\ k \in 1 .. Len(cWire)
        /\ d = Folded([cTry EXCEPT !.n = 0], SubSeq(cWire, 1, k))
        /\ cTry' = [(IF d.pc = "done" THEN Ended(d) ELSE d) EXCEPT !.n = 0]
        /\ cWire' = SubSeq(cWire, d.n + 1, Len(cWire))
  BY DEF ReceiveGreeting, Folded
<1>3. PICK a \in AnyTry : a = [cTry EXCEPT !.n = 0] /\ a.n = 0 /\ Same(cTry, a) /\ a.pc = cTry.pc /\ a.options = cTry.options
                         /\ a.fatal = cTry.fatal
  <2>1. [cTry EXCEPT !.n = 0] \in AnyTry
    BY <1>1 DEF AnyTry
  <2> QED
    BY <1>1, <2>1 DEF AnyTry, Same
<1>4. Welcome \in Welcomes
  BY <1>1, WelcomeKnown
<1>5. Heard(Welcome, a, cWire)
  BY <1>1, <1>3 DEF ConnectInv, Greeted, Heard
<1>6. Reading(Welcome, a, cWire, d, k)
  BY <1>1, <1>2, <1>3, <1>4, <1>5, ReadsChunk
<1>7. Same(cTry, d) /\ Heard(Welcome, d, cWire') /\ d \in AnyTry /\ d.n \in Nat /\ cWire' \in Seq(AnyMessage)
  <2>1. Same(cTry, d) /\ d \in AnyTry
    BY <1>3, <1>6 DEF Reading, Same
  <2>2. d.n \in Nat /\ d.n <= k
    BY <1>6, <2>1 DEF Reading, AnyTry
  <2>3. SubSeq(cWire, d.n + 1, Len(cWire)) \in Seq(AnyMessage)
    BY <1>1, <2>2
  <2> QED
    BY <1>2, <1>6, <2>1, <2>2, <2>3 DEF Reading
<1>8. PICK t : t = cTry'
  OBVIOUS
<1>9. /\ t \in AnyTry /\ t.ssl = cTry.ssl /\ t.f = cTry.f /\ t.pc = d.pc /\ t.options = d.options
      /\ t.fatal = d.fatal /\ t.exception = cTry.exception /\ t.secured = cTry.secured
      /\ d.pc = "done" => t.phase = "ended"
      /\ d.pc # "done" => t.phase = "receive"
  <2>1. PICK e \in AnyTry : /\ t = [e EXCEPT !.n = 0] /\ e.ssl = d.ssl /\ e.f = d.f /\ e.pc = d.pc /\ e.options = d.options
                             /\ e.fatal = d.fatal /\ e.exception = d.exception /\ e.secured = d.secured
                             /\ (d.pc = "done" => e.phase = "ended") /\ (d.pc # "done" => e = d)
    <3>1. CASE d.pc = "done"
      <4>1. t = [Ended(d) EXCEPT !.n = 0]
        BY <1>2, <1>8, <3>1
      <4>2. /\ Ended(d) \in AnyTry /\ Ended(d).ssl = d.ssl /\ Ended(d).f = d.f /\ Ended(d).pc = d.pc
            /\ Ended(d).options = d.options /\ Ended(d).fatal = d.fatal /\ Ended(d).exception = d.exception
            /\ Ended(d).secured = d.secured /\ Ended(d).phase = "ended"
        BY <1>7 DEF Ended, AnyTry
      <4> QED
        BY <3>1, <4>1, <4>2
    <3>2. CASE d.pc # "done"
      BY <1>2, <1>7, <1>8, <3>2
    <3> QED
      BY <3>1, <3>2
  <2>2. /\ t \in AnyTry /\ t.ssl = e.ssl /\ t.f = e.f /\ t.pc = e.pc /\ t.options = e.options /\ t.phase = e.phase
        /\ t.fatal = e.fatal /\ t.exception = e.exception /\ t.secured = e.secured
    BY <2>1 DEF AnyTry
  <2> QED
    BY <1>1, <1>7, <2>1, <2>2 DEF Same
<1>10. UNCHANGED <<cConn, cMode, cServers, cTodo, cSkip, cLog>> /\ t # NoTry
  BY <1>8, <1>9, NoTryKnown DEF ReceiveGreeting
<1>11. Welcome' = Welcome
  BY <1>8, <1>9, <1>10 DEF Welcome, Server
<1>12. ConnectTypes'
  BY <1>7, <1>8, <1>9, <1>10 DEF ConnectInv, ConnectTypes, AnyMessage
<1>13. Greeted'
  <2>1. Heard(Welcome, t, cWire')
    BY <1>7, <1>9 DEF Heard
  <2>2. t.phase # "ended" => t.fatal = FALSE /\ t.exception = FALSE
    BY <1>1, <1>9, <2>1 DEF Heard, ConnectInv, Greeted
  <2>3. t.phase = "ended" /\ t.fatal = FALSE => Welcome \in {"trust", "password"} /\ t.options = 2
    <3>1. SUFFICES ASSUME t.phase = "ended", t.fatal = FALSE PROVE Welcome \in {"trust", "password"} /\ t.options = 2
      OBVIOUS
    <3>2. t.pc = "done" /\ <<"done", t.options, cWire'>> \in Exchanges(Welcome)
      BY <1>9, <2>1, <3>1 DEF Heard
    <3> QED
      BY <1>4, <3>2 DEF Exchanges, Greeting, Welcomes
  <2> QED
    BY <1>8, <1>9, <1>11, <2>1, <2>2, <2>3 DEF Greeted
<1>14. Sockets'
  BY <1>1, <1>8, <1>9, <1>10 DEF ConnectInv, Sockets
<1>15. Phases'
  BY <1>1, <1>8, <1>9, <1>10 DEF ConnectInv, Phases
<1>16. Hosts'
  BY <1>1, <1>8, <1>9, <1>10, HostsKept DEF ConnectInv
<1> QED
  BY <1>12, <1>13, <1>14, <1>15, <1>16 DEF ConnectInv

LEMMA EofKeeps == ASSUME ConnectInv, GreetingEof PROVE ConnectInv'
<1>1. cTry \in AnyTry /\ cTry.phase = "receive" /\ cTry # NoTry /\ cConn = "trying"
  BY NoTryKnown DEF ConnectInv, ConnectTypes, Phases, GreetingEof
<1>2. PICK t : t = cTry'
  OBVIOUS
<1>3. /\ t \in AnyTry /\ t.ssl = cTry.ssl /\ t.f = cTry.f /\ t.phase = "ended"
      /\ t.fatal = TRUE /\ t.exception = cTry.exception /\ t.secured = cTry.secured
  BY <1>1, <1>2 DEF GreetingEof, AnyTry, Fatal, Ended
<1>4. UNCHANGED <<cConn, cMode, cServers, cTodo, cSkip, cWire, cLog>> /\ t # NoTry
  BY <1>2, <1>3, NoTryKnown DEF GreetingEof
<1>5. ConnectTypes'
  BY <1>2, <1>3, <1>4 DEF ConnectInv, ConnectTypes
<1>6. Greeted'
  BY <1>1, <1>2, <1>3, <1>4 DEF ConnectInv, Greeted
<1>7. Sockets'
  BY <1>1, <1>2, <1>3, <1>4 DEF ConnectInv, Sockets
<1>8. Phases'
  BY <1>1, <1>2, <1>3, <1>4 DEF ConnectInv, Phases
<1>9. Hosts'
  BY <1>1, <1>2, <1>3, <1>4, HostsKept DEF ConnectInv
<1> QED
  BY <1>5, <1>6, <1>7, <1>8, <1>9 DEF ConnectInv

LEMMA EnvironmentKeeps == ASSUME ConnectInv, Environment PROVE ConnectInv'
<1>1. /\ cConn = "setup" /\ cConn' = "new" /\ cTry = NoTry /\ cTry' = NoTry /\ cSkip = FALSE /\ cSkip' = FALSE
      /\ cLog = [tried |-> <<>>, hosts |-> {}, passwords |-> {}] /\ UNCHANGED <<cTodo, cWire, cLog>>
  BY DEF ConnectInv, Phases, Environment
<1>2. cServers' \in Seq(ServerKinds) /\ cServers' # <<>>
  <2>1. PICK n \in 1 .. MaxHosts : cServers' \in [1 .. n -> ServerKinds]
    BY DEF Environment
  <2>2. n \in Nat /\ n # 0
    OBVIOUS
  <2>3. cServers' \in Seq(ServerKinds) /\ Len(cServers') # 0
    BY <2>1, <2>2
  <2> QED
    BY <2>3
<1>3. cMode' \in {"allow", "prefer", "require", "disable"}
  BY ConnectBounds DEF Environment
<1>4. ConnectTypes'
  BY <1>1, <1>2, <1>3, NoTryKnown DEF ConnectInv, ConnectTypes
<1>5. Greeted'
  BY <1>1, NoTryKnown DEF Greeted
<1>6. Sockets'
  BY <1>1, NoTryKnown DEF Sockets
<1>7. Phases'
  BY <1>1 DEF Phases
<1>8. Hosts'
  BY <1>1 DEF Hosts
<1> QED
  BY <1>4, <1>5, <1>6, <1>7, <1>8 DEF ConnectInv

\* The factories of a name that has m addresses: the first n of them.
Addresses(fs, n, m) == n \in Nat \ {0} /\ n <= m /\ fs \in Seq(Nat) /\ Len(fs) = n /\ \A i \in 1 .. n : fs[i] = i
LEMMA FactoriesKnown ==
  ASSUME NEW kind, NEW m \in Nat \ {0} PROVE \E n : Addresses(Factories(kind, m), n, m)
<1>1. CASE kind = "host"
  <2>1. PICK fs : fs = [i \in 1 .. m |-> i]
    OBVIOUS
  <2>2. fs \in Seq(Nat) /\ Len(fs) = m /\ \A i \in 1 .. m : fs[i] = i
    BY <2>1
  <2> QED
    BY <1>1, <2>1, <2>2 DEF Factories, Addresses
<1>2. CASE kind # "host"
  <2>1. Factories(kind, m) = <<1>>
    BY <1>2 DEF Factories
  <2>2. <<1>> \in Seq(Nat) /\ Len(<<1>>) = 1 /\ \A i \in 1 .. 1 : <<1>>[i] = i
    OBVIOUS
  <2>3. 1 \in Nat \ {0} /\ 1 <= m
    OBVIOUS
  <2> QED
    BY <2>1, <2>2, <2>3 DEF Addresses
<1> QED
  BY <1>1, <1>2

LEMMA ConnectKeeps == ASSUME ConnectInv, Connect PROVE ConnectInv'
<1>1. PICK kind : /\ cTodo' = Attempts(cMode, Factories(kind, Len(cServers)))
                  /\ cLog' = [cLog EXCEPT !.hosts = ToSet(Factories(kind, Len(cServers)))]
  BY DEF Connect
<1>2. /\ cConn = "new" /\ cConn' = "trying" /\ cTry = NoTry /\ cTry' = NoTry /\ cSkip = FALSE /\ cSkip' = FALSE
      /\ cLog = [tried |-> <<>>, hosts |-> {}, passwords |-> {}] /\ UNCHANGED <<cMode, cServers, cWire>>
  BY DEF ConnectInv, Phases, Connect
<1>3. cServers \in Seq(ServerKinds) /\ Len(cServers) \in Nat \ {0} /\ DOMAIN cServers = 1 .. Len(cServers)
  BY <1>2 DEF ConnectInv, ConnectTypes
<1>4. PICK n \in Nat \ {0}, fs \in Seq(Nat) :
        fs = Factories(kind, Len(cServers)) /\ n <= Len(cServers) /\ Len(fs) = n /\ \A i \in 1 .. n : fs[i] = i
  <2>1. PICK n : Addresses(Factories(kind, Len(cServers)), n, Len(cServers))
    BY <1>3, FactoriesKnown
  <2>2. PICK fs : fs = Factories(kind, Len(cServers))
    OBVIOUS
  <2>3. n \in Nat \ {0} /\ n <= Len(cServers) /\ fs \in Seq(Nat) /\ Len(fs) = n /\ \A i \in 1 .. n : fs[i] = i
    BY <2>1, <2>2, Zenon DEF Addresses
  <2> QED
    BY <2>2, <2>3, Zenon
<1>5. ToSet(fs) = 1 .. n
  BY <1>4 DEF ToSet
<1>6. cLog' = [tried |-> <<>>, hosts |-> 1 .. n, passwords |-> {}]
  BY <1>1, <1>2, <1>4, <1>5
<1>7. PICK kinds : kinds = AttemptKinds(cMode) /\ Len(kinds) \in 1 .. 2
  BY ModesKnown DEF ConnectInv
<1>8. Planning(kinds, cTodo', n)
  BY <1>1, <1>4, <1>7, AttemptsPlanned DEF ConnectInv, ConnectTypes
<1>9. Left(kinds, cTodo', 1, 1, n)
  BY <1>7, <1>8, LeftAll
<1>10. ConnectTypes'
  <2>1. cTodo' \in Seq({"none", "try", "must"} \X Nat)
    BY <1>8 DEF Planning, AnyPair
  <2> QED
    <3>1. 1 .. n \in SUBSET Nat /\ {} \in SUBSET BOOLEAN /\ <<>> \in Seq({"none", "try", "must"} \X Nat)
      OBVIOUS
    <3>2. cLog' \in [tried : Seq({"none", "try", "must"} \X Nat), hosts : SUBSET Nat, passwords : SUBSET BOOLEAN]
      BY <1>6, <3>1
    <3>3. cServers' # <<>>
      BY <1>2, <1>3
    <3> QED
      BY <1>2, <2>1, <3>2, <3>3, NoTryKnown DEF ConnectInv, ConnectTypes
<1>11. Greeted'
  BY <1>2, NoTryKnown DEF Greeted
<1>12. Sockets'
  BY <1>2, <1>6, NoTryKnown DEF Sockets
<1>13. Phases'
  BY <1>2 DEF Phases
<1>14. Planned(kinds, 1, 1, n)'
  <2>1. \A f \in 1 .. n : Tried(f)' = FALSE /\ ~(f < 1 \/ (f = 1 /\ 1 = 2))
    BY <1>6 DEF Tried
  <2>2. cLog'.hosts = 1 .. n /\ n <= Len(cServers') /\ cTry' = NoTry /\ cSkip' = FALSE
    BY <1>2, <1>4, <1>6
  <2>3. 1 # 2
    OBVIOUS
  <2> QED
    BY <1>9, <2>1, <2>2, <2>3, Zenon DEF Planned
<1>15. Hosts'
  <2>1. /\ 1 .. n \subseteq DOMAIN cServers' /\ n \in Nat /\ 1 \in Nat
    BY <1>2, <1>3, <1>4
  <2>2. \A f : Once(f)'
    BY <1>6 DEF Once
  <2> QED
    BY <1>2, <1>6, <1>7, <1>14, <2>1, <2>2 DEF Hosts
<1> QED
  BY <1>10, <1>11, <1>12, <1>13, <1>15 DEF ConnectInv

LEMMA SocketKeeps == ASSUME ConnectInv, OpenSocket PROVE ConnectInv'
<1>1. cTry \in AnyTry /\ cTry.phase = "socket" /\ cTry # NoTry /\ cConn = "trying"
  BY DEF ConnectInv, ConnectTypes, OpenSocket
<1>2. PICK t : t = cTry'
  OBVIOUS
<1>3. cTry.f \in DOMAIN cServers /\ Server \in ServerKinds /\ Server.up \in BOOLEAN
  BY <1>1, WelcomeKnown, ConnectBounds DEF Server
<1>4. /\ t \in AnyTry /\ t.ssl = cTry.ssl /\ t.f = cTry.f /\ t.pc = cTry.pc /\ t.options = cTry.options /\ t.secured = cTry.secured
      /\ \/ Server.up = FALSE /\ t.phase = "ended" /\ t.fatal = TRUE /\ t.exception = TRUE
         \/ Server.up = TRUE /\ t.phase \in {"startup", "ssl"} /\ t.fatal = cTry.fatal /\ t.exception = cTry.exception
            /\ (t.phase = "startup" <=> cTry.ssl = "none")
  BY <1>1, <1>2, <1>3 DEF OpenSocket, AnyTry, Ended, Fatal, WithException
<1>5. UNCHANGED <<cConn, cMode, cServers, cTodo, cSkip, cWire>> /\ t # NoTry
  BY <1>2, <1>4, NoTryKnown DEF OpenSocket
<1>6. PICK tried \in Seq({"none", "try", "must"} \X Nat), last \in Nat :
        /\ tried = cLog'.tried /\ last = Len(cLog.tried) + 1 /\ DOMAIN tried = 1 .. last /\ DOMAIN cLog.tried = 1 .. (last - 1)
        /\ tried[last][2] = cTry.f /\ \A i \in 1 .. (last - 1) : tried[i] = cLog.tried[i]
  <2>1. cLog.tried \in Seq({"none", "try", "must"} \X Nat)
    BY DEF ConnectInv, ConnectTypes
  <2>2. PICK p : p = <<cTry.ssl, cTry.f>> /\ p \in {"none", "try", "must"} \X Nat /\ p[2] = cTry.f
    <3>1. <<cTry.ssl, cTry.f>> \in {"none", "try", "must"} \X Nat /\ <<cTry.ssl, cTry.f>>[2] = cTry.f
      BY <1>1 DEF AnyTry
    <3> QED
      BY <3>1
  <2>3. cLog'.tried = Append(cLog.tried, p)
    BY <2>2 DEF OpenSocket, ConnectInv, ConnectTypes
  <2>4. /\ Append(cLog.tried, p) \in Seq({"none", "try", "must"} \X Nat) /\ Len(cLog.tried) \in Nat
        /\ DOMAIN Append(cLog.tried, p) = 1 .. (Len(cLog.tried) + 1) /\ DOMAIN cLog.tried = 1 .. Len(cLog.tried)
        /\ Append(cLog.tried, p)[Len(cLog.tried) + 1] = p
        /\ \A i \in 1 .. Len(cLog.tried) : Append(cLog.tried, p)[i] = cLog.tried[i]
    BY <2>1, <2>2
  <2>5. PICK m \in Nat : m = Len(cLog.tried) + 1 /\ Len(cLog.tried) = m - 1
    <3>1. PICK l \in Nat : l = Len(cLog.tried)
      BY <2>4
    <3>2. l + 1 \in Nat /\ l = (l + 1) - 1
      OBVIOUS
    <3> QED
      BY <3>1, <3>2
  <2>6. PICK u \in Seq({"none", "try", "must"} \X Nat) : u = Append(cLog.tried, p)
    BY <2>4
  <2>7. /\ u = cLog'.tried /\ m = Len(cLog.tried) + 1 /\ DOMAIN u = 1 .. m /\ DOMAIN cLog.tried = 1 .. (m - 1)
        /\ u[m][2] = cTry.f /\ \A i \in 1 .. (m - 1) : u[i] = cLog.tried[i]
    BY <2>2, <2>3, <2>4, <2>5, <2>6
  <2> QED
    BY <2>7
<1>7. cLog'.hosts = cLog.hosts /\ cLog'.passwords = cLog.passwords
      /\ cLog' \in [tried : Seq({"none", "try", "must"} \X Nat), hosts : SUBSET Nat, passwords : SUBSET BOOLEAN]
  BY <1>6 DEF OpenSocket, ConnectInv, ConnectTypes
<1>8. ConnectTypes'
  BY <1>2, <1>4, <1>5, <1>7 DEF ConnectInv, ConnectTypes
<1>9. Greeted'
  BY <1>1, <1>2, <1>4, <1>5 DEF ConnectInv, Greeted
<1>10. Sockets'
  BY <1>1, <1>2, <1>4, <1>5, <1>7 DEF ConnectInv, Sockets
<1>11. Phases'
  BY <1>1, <1>2, <1>4, <1>5 DEF ConnectInv, Phases
<1>12. PICK kinds : kinds = AttemptKinds(cMode) /\ Len(kinds) \in 1 .. 2
  BY ModesKnown DEF ConnectInv
<1>13. PICK h \in Nat, s \in Nat, n \in Nat : Planned(kinds, h, s, n)
  BY <1>1, <1>12 DEF ConnectInv, Hosts
<1>14. /\ cLog.hosts = 1 .. n /\ <<cTry.ssl, cTry.f>> = Current(kinds, h, s) /\ cTry.f \in 1 .. n
       /\ \A f \in 1 .. n : Tried(f) <=> (f < h \/ (f = h /\ s = 2)) /\ ~Waits(f, kinds, s)
       /\ ~IsFirst(kinds, s) => Server.up = TRUE
  BY <1>1, <1>13 DEF Planned
<1>15. s = 1 \/ s = 2
  <2>1. PICK k \in 1 .. 2 : k = Len(kinds)
    BY <1>12
  <2>2. s \in 1 .. k
    BY <1>13, <2>1 DEF Planned, Left
  <2> QED
    BY <2>1, <2>2
<1>16. cTry.f < h \/ (cTry.f = h /\ s = 2)
  BY <1>14, <1>15 DEF Current
<1>17. ASSUME NEW f PROVE Tried(f)' <=> Tried(f) \/ f = cTry.f
  <2>1. Tried(f)' <=> \E i \in 1 .. last : tried[i][2] = f
    BY <1>6 DEF Tried
  <2>2. Tried(f) <=> \E i \in 1 .. (last - 1) : cLog.tried[i][2] = f
    BY <1>6 DEF Tried
  <2>3. \A i \in 1 .. last : i = last \/ i \in 1 .. (last - 1)
    BY <1>6
  <2>4. last \in 1 .. last /\ \A i \in 1 .. (last - 1) : i \in 1 .. last
    BY <1>6
  <2> QED
    BY <1>6, <2>1, <2>2, <2>3, <2>4
<1>18. Planned(kinds, h, s, n)'
  <2>1. ASSUME NEW f \in 1 .. n PROVE Tried(f)' <=> (f < h \/ (f = h /\ s = 2)) /\ ~(Waits(f, kinds, s)')
    <3>1. ~(Waits(f, kinds, s)')
      BY <1>2, <1>4 DEF Waits
    <3>2. f # cTry.f => ~Waits(f, kinds, s)
      BY DEF Waits
    <3> QED
      BY <1>14, <1>16, <1>17, <3>1, <3>2
  <2>2. Server' = Server
    BY <1>2, <1>4, <1>5 DEF Server
  <2>3. cSkip = FALSE
    BY <1>1, <1>13 DEF Planned, ConnectInv, ConnectTypes
  <2> QED
    BY <1>1, <1>2, <1>4, <1>5, <1>7, <1>13, <2>1, <2>2, <2>3 DEF Planned
<1>19. ASSUME NEW f \in 1 .. n, cServers[f].up = FALSE PROVE Once(f)'
  <2>1. Once(f)
    BY <1>14, <1>19 DEF ConnectInv, Hosts
  <2>2. CASE f # cTry.f
    <3>1. \A i \in 1 .. last : tried[i][2] = f => i \in 1 .. (last - 1) /\ cLog.tried[i][2] = f
      <4>1. \A i \in 1 .. last : i = last \/ i \in 1 .. (last - 1)
        BY <1>6
      <4> QED
        BY <1>6, <2>2, <4>1
    <3> QED
      BY <1>6, <2>1, <3>1 DEF Once
  <2>3. CASE f = cTry.f
    <3>1. IsFirst(kinds, s)
      BY <1>14, <1>19, <2>3 DEF Server
    <3>2. ~Tried(f)
      BY <1>1, <1>14, <2>3, <3>1 DEF Waits
    <3>3. \A i \in 1 .. last : tried[i][2] = f => i = last
      <4>1. \A i \in 1 .. last : i = last \/ i \in 1 .. (last - 1)
        BY <1>6
      <4> QED
        BY <1>6, <3>2, <4>1 DEF Tried
    <3> QED
      BY <1>6, <3>3 DEF Once
  <2> QED
    BY <2>2, <2>3
<1>20. \A i \in DOMAIN tried : tried[i][2] \in cLog.hosts
  <2>1. \A i \in 1 .. last : i = last \/ i \in 1 .. (last - 1)
    BY <1>6
  <2> QED
    BY <1>6, <1>14, <2>1 DEF ConnectInv, Hosts
<1>21. Hosts'
  BY <1>1, <1>5, <1>6, <1>7, <1>12, <1>14, <1>18, <1>19, <1>20 DEF ConnectInv, Hosts
<1> QED
  BY <1>8, <1>9, <1>10, <1>11, <1>21 DEF ConnectInv

\* A step of the loop: the attempts left are those of another place of the plan.
LEMMA HostsPlanned ==
  ASSUME Hosts, cConn' = "trying", cMode' = cMode, cServers' = cServers, cLog' = cLog,
         NEW kinds, kinds = AttemptKinds(cMode), \E h, s, n \in Nat : Planned(kinds, h, s, n)'
  PROVE  Hosts'
<1>1. /\ cLog'.hosts \subseteq DOMAIN cServers'
      /\ \A i \in DOMAIN cLog'.tried : cLog'.tried[i][2] \in cLog'.hosts
  BY DEF Hosts
<1>2. \A f : Once(f)' = Once(f)
  BY DEF Once
<1>3. \A f \in cLog'.hosts : cServers'[f].up = FALSE => Once(f)'
  BY <1>2 DEF Hosts
<1>4. kinds = AttemptKinds(cMode')
  OBVIOUS
<1>5. \E g, k, m \in Nat : Planned(AttemptKinds(cMode), g, k, m)'
  BY <1>4
<1> QED
  BY <1>1, <1>3, <1>5 DEF Hosts

LEMMA AttemptKeeps == ASSUME ConnectInv, NextAttempt PROVE ConnectInv'
<1>1. cConn = "trying" /\ cTry = NoTry /\ UNCHANGED <<cMode, cServers, cWire, cLog>>
  BY DEF NextAttempt
<1>2. PICK kinds \in Seq({"none", "try", "must"}) :
        kinds = AttemptKinds(cMode) /\ Len(kinds) \in 1 .. 2 /\ DOMAIN kinds = 1 .. Len(kinds)
  BY ModesKnown DEF ConnectInv
<1>3. PICK h \in Nat, s \in Nat, n \in Nat : Planned(kinds, h, s, n)
  BY <1>1, <1>2 DEF ConnectInv, Hosts
<1>4. cTodo \in Seq(AnyPair)
  BY DEF ConnectInv, ConnectTypes, AnyPair
<1>5. /\ Left(kinds, cTodo, h, s, n) /\ cLog.hosts = 1 .. n /\ n <= Len(cServers) /\ cSkip \in BOOLEAN
      /\ \A f \in 1 .. n : Tried(f) <=> (f < h \/ (f = h /\ s = 2))
      /\ (cSkip = TRUE => s = 2) /\ (s = 2 /\ cSkip = FALSE => cServers[h].up = TRUE)
  BY <1>1, <1>3 DEF Planned, Waits, ConnectInv, ConnectTypes
<1>6. \A f : Tried(f)' = Tried(f) /\ Once(f)' = Once(f)
  BY <1>1 DEF Tried, Once
<1>7. CASE cTodo = <<>>
  <2>1. cConn' = "failed" /\ UNCHANGED <<cTodo, cSkip, cTry>>
    BY <1>7 DEF NextAttempt
  <2>2. s = 1 /\ h = n + 1
    BY <1>2, <1>5, <1>7, LeftNone
  <2>3. cSkip = FALSE /\ \A f \in 1 .. n : Tried(f)
    BY <1>5, <2>2
  <2>4. ConnectTypes'
    BY <1>1, <2>1 DEF ConnectInv, ConnectTypes
  <2>5. Greeted'
    BY <1>1, <2>1, NoTryKnown DEF Greeted
  <2>6. Sockets'
    BY <1>1, <2>1 DEF ConnectInv, Sockets
  <2>7. Phases'
    BY <1>1, <2>1, <2>3 DEF Phases
  <2>8. Hosts'
    BY <1>1, <1>5, <1>6, <2>1, <2>3 DEF ConnectInv, Hosts
  <2> QED
    BY <2>4, <2>5, <2>6, <2>7, <2>8 DEF ConnectInv
<1>8. CASE cTodo # <<>>
  <2>1. /\ cTodo' = Tail(cTodo) /\ cSkip' = FALSE /\ cConn' = cConn
        /\ cTry' = IF cSkip THEN NoTry ELSE NewTry(Head(cTodo)[1], Head(cTodo)[2])
    BY <1>8 DEF NextAttempt, CanSkip
  <2>2. /\ Head(cTodo) = <<kinds[s], h>> /\ h <= n /\ h \in Nat /\ s \in {1, 2}
        /\ s = Len(kinds) => Left(kinds, cTodo', h + 1, 1, n)
        /\ s # Len(kinds) => s = 1 /\ Len(kinds) = 2 /\ Left(kinds, cTodo', h, 2, n)
    <3>1. Taken(kinds, cTodo, h, s, n)
      BY <1>2, <1>3, <1>4, <1>5, <1>8, LeftTakes
    <3> QED
      BY <2>1, <3>1, Zenon DEF Taken
  <2>3. h \in 1 .. n /\ s \in DOMAIN kinds /\ kinds[s] \in {"none", "try", "must"}
    <3>1. s \in 1 .. Len(kinds) /\ h \in Nat \ {0}
      BY <1>5 DEF Left
    <3>2. h \in 1 .. n
      BY <1>3, <2>2, <3>1
    <3>3. kinds[s] \in {"none", "try", "must"}
      BY <1>2, <3>1
    <3> QED
      BY <1>2, <3>1, <3>2, <3>3
  <2>4. PICK t : t = cTry'
    OBVIOUS
  <2>5. \/ cSkip = TRUE /\ t = NoTry
        \/ cSkip = FALSE /\ t = NewTry(kinds[s], h)
    BY <1>5, <2>1, <2>2, <2>4
  <2>6. /\ t \in AnyTry /\ t.phase = "socket" /\ t.secured = FALSE /\ t.pc = "auth" /\ t.options = 0
        /\ t.fatal = FALSE /\ t.exception = FALSE
        /\ cSkip = FALSE => t.ssl = kinds[s] /\ t.f = h /\ t # NoTry
        /\ cSkip = TRUE => t = NoTry
    <3>1. CASE cSkip = TRUE
      BY <2>5, <3>1, NoTryKnown
    <3>2. CASE cSkip = FALSE
      <4>1. t = NewTry(kinds[s], h) /\ h \in Nat /\ h # 0
        BY <2>3, <2>5, <3>2
      <4>2. NewlyTried(t, kinds[s], h)
        BY <2>3, <4>1, NewTryKnown
      <4> QED
        BY <3>2, <4>1, <4>2, NoTryKnown DEF NewlyTried
    <3> QED
      BY <1>5, <3>1, <3>2
  <2>7. ConnectTypes'
    <3>1. cTodo' \in Seq(AnyPair)
      BY <1>4, <1>8, <2>1
    <3> QED
      BY <1>1, <2>1, <2>4, <2>6, <3>1 DEF ConnectInv, ConnectTypes, AnyPair
  <2>8. Greeted'
    BY <2>4, <2>6 DEF Greeted
  <2>9. Sockets'
    <3>1. h \in DOMAIN cServers
      BY <1>5, <2>3 DEF ConnectInv, Hosts
    <3> QED
      BY <1>1, <1>2, <1>5, <2>3, <2>4, <2>6, <3>1 DEF ConnectInv, Sockets
  <2>10. Phases'
    BY <1>1, <2>1 DEF Phases
  <2>11. CASE s = Len(kinds)
    <3>1. h + 1 \in Nat /\ 1 \in Nat /\ (h + 1) - 1 = h /\ 1 # 2
      BY <2>2
    <3>2. cSkip = FALSE => <<t.ssl, t.f>> = Current(kinds, h + 1, 1) /\ t.f \in 1 .. n
      BY <2>3, <2>6, <2>11, <3>1 DEF Current
    <3>3. ASSUME NEW f \in 1 .. n PROVE Tried(f)' <=> (f < h + 1 \/ (f = h + 1 /\ 1 = 2)) /\ ~(Waits(f, kinds, 1)')
      <4>1. f < h + 1 <=> f < h \/ f = h
        BY <2>2
      <4>2. Waits(f, kinds, 1)' <=> cSkip = FALSE /\ f = h /\ s = 1
        BY <1>5, <2>2, <2>4, <2>6, <2>11, <3>1 DEF Waits, IsFirst
      <4> QED
        BY <1>5, <1>6, <2>2, <3>1, <4>1, <4>2
    <3>4. cSkip = FALSE /\ ~IsFirst(kinds, 1) => cServers[h].up = TRUE
      BY <1>5, <2>2, <2>11 DEF IsFirst
    <3>5. PICK next \in Nat : next = h + 1
      BY <3>1
    <3>6. Planned(kinds, next, 1, n)'
      BY <1>1, <1>5, <2>1, <2>2, <2>4, <2>6, <2>11, <3>1, <3>2, <3>3, <3>4, <3>5 DEF Planned, Server
    <3>7. Hosts'
      <4>1. \E g, k, m \in Nat : Planned(kinds, g, k, m)'
        BY <1>3, <3>1, <3>6, <3>5
      <4> QED
        BY <1>1, <1>2, <2>1, <4>1, HostsPlanned DEF ConnectInv
    <3> QED
      BY <2>7, <2>8, <2>9, <2>10, <3>7 DEF ConnectInv
  <2>12. CASE s # Len(kinds)
    <3>1. s = 1 /\ Len(kinds) = 2 /\ cSkip = FALSE /\ 2 \in Nat
      BY <1>5, <2>2, <2>12
    <3>2. <<t.ssl, t.f>> = Current(kinds, h, 2) /\ t.f \in 1 .. n
      BY <2>3, <2>6, <3>1 DEF Current
    <3>3. ASSUME NEW f \in 1 .. n PROVE Tried(f)' <=> (f < h \/ (f = h /\ 2 = 2)) /\ ~(Waits(f, kinds, 2)')
      <4>1. Waits(f, kinds, 2)' <=> f = h
        BY <2>4, <2>6, <3>1 DEF Waits, IsFirst
      <4>2. f < h => f # h
        BY <2>2
      <4> QED
        BY <1>5, <1>6, <3>1, <4>1, <4>2
    <3>4. Planned(kinds, h, 2, n)'
      BY <1>1, <1>5, <2>1, <2>2, <2>4, <2>6, <2>12, <3>1, <3>2, <3>3 DEF Planned, Server, IsFirst
    <3>5. Hosts'
      <4>1. \E g, k, m \in Nat : Planned(kinds, g, k, m)'
        BY <1>3, <3>1, <3>4
      <4> QED
        BY <1>1, <1>2, <2>1, <4>1, HostsPlanned DEF ConnectInv
    <3> QED
      BY <2>7, <2>8, <2>9, <2>10, <3>5 DEF ConnectInv
  <2> QED
    BY <2>7, <2>8, <2>9, <2>10, <2>11, <2>12 DEF ConnectInv
<1> QED
  BY <1>7, <1>8

LEMMA EndKeeps == ASSUME ConnectInv, AttemptEnds PROVE ConnectInv'
<1>1. cTry \in AnyTry /\ cTry.phase = "ended" /\ cTry # NoTry /\ cTry.fatal \in BOOLEAN /\ cTry.exception \in BOOLEAN
  BY NoTryKnown DEF ConnectInv, ConnectTypes, AttemptEnds, AnyTry
<1>2. UNCHANGED <<cMode, cServers, cTodo, cLog>> /\ cWire' = <<>> /\ cConn = "trying"
  BY <1>1 DEF AttemptEnds, ConnectInv, Phases
<1>3. PICK kinds : kinds = AttemptKinds(cMode) /\ Len(kinds) \in 1 .. 2
  BY ModesKnown DEF ConnectInv
<1>4. PICK h \in Nat, s \in Nat, n \in Nat : Planned(kinds, h, s, n)
  BY <1>2, <1>3 DEF ConnectInv, Hosts
<1>5. cSkip = FALSE
  BY <1>1, <1>4 DEF Planned, ConnectInv, ConnectTypes
<1>6. CASE cTry.fatal = FALSE
  <2>1. cConn' = "initializing" /\ UNCHANGED <<cTry, cSkip>>
    BY <1>6 DEF AttemptEnds
  <2>2. ConnectTypes'
    BY <1>2, <2>1 DEF ConnectInv, ConnectTypes
  <2>3. Greeted'
    <3>1. Welcome' = Welcome
      BY <1>2, <2>1 DEF Welcome, Server
    <3> QED
      BY <1>1, <1>6, <2>1, <3>1 DEF ConnectInv, Greeted
  <2>4. Sockets'
    BY <1>2, <2>1 DEF ConnectInv, Sockets
  <2>5. Phases'
    BY <1>1, <1>5, <1>6, <2>1 DEF Phases
  <2>6. Hosts'
    BY <1>2, <2>1, HostsLeft DEF ConnectInv
  <2> QED
    BY <2>2, <2>3, <2>4, <2>5, <2>6 DEF ConnectInv
<1>7. CASE cTry.fatal = TRUE
  <2>1. cConn' = cConn /\ cTry' = NoTry
    BY <1>7 DEF AttemptEnds
  <2>2. cSkip' = \/ cMode = "prefer" /\ cTry.ssl = "try" /\ (cTry.did = "no" \/ cTry.exception)
                 \/ cMode = "allow" /\ cTry.ssl = "none" /\ cTry.exception
    BY <1>7 DEF AttemptEnds
  <2>3. cSkip' \in BOOLEAN
    BY <2>2
  <2>4. ConnectTypes'
    BY <1>2, <2>1, <2>3, NoTryKnown DEF ConnectInv, ConnectTypes
  <2>5. Greeted'
    BY <2>1, NoTryKnown DEF Greeted
  <2>6. Sockets'
    BY <1>2, <2>1, NoTryKnown DEF ConnectInv, Sockets
  <2>7. Phases'
    BY <1>2, <2>1 DEF Phases
  <2>8. /\ Left(kinds, cTodo, h, s, n) /\ cLog.hosts = 1 .. n /\ n <= Len(cServers)
        /\ <<cTry.ssl, cTry.f>> = Current(kinds, h, s) /\ cTry.f \in 1 .. n
        /\ \A f \in 1 .. n : Tried(f) <=> (f < h \/ (f = h /\ s = 2)) /\ ~Waits(f, kinds, s)
        /\ Server.up = FALSE => cTry.exception = TRUE
    BY <1>1, <1>4 DEF Planned
  <2>9. (s = 1 \/ s = 2) /\ (s = 2 => Len(kinds) = 2)
    <3>1. PICK k \in 1 .. 2 : k = Len(kinds)
      BY <1>3
    <3>2. s \in 1 .. k
      BY <2>8, <3>1 DEF Left
    <3> QED
      BY <3>1, <3>2
  <2>10. /\ cMode \in {"allow", "prefer", "require", "disable"}
         /\ cMode \in {"require", "disable"} => Len(kinds) = 1
         /\ cMode \in {"allow", "prefer"} => Len(kinds) = 2
         /\ cMode = "allow" => kinds[1] = "none" /\ kinds[2] = "must"
         /\ cMode = "prefer" => kinds[1] = "try" /\ kinds[2] = "none"
    BY <1>3, KindsKnown DEF ConnectInv, ConnectTypes
  <2>11. cSkip' = TRUE => s = 2
    BY <2>2, <2>8, <2>9, <2>10 DEF Current
  <2>12. s = 2 /\ cSkip' = FALSE => cServers[h].up = TRUE
    <3>1. SUFFICES ASSUME s = 2, cSkip' = FALSE PROVE cServers[h].up = TRUE
      OBVIOUS
    <3>2. cTry.f = h /\ cTry.ssl = kinds[1] /\ cMode \in {"allow", "prefer"}
      BY <2>8, <2>9, <2>10, <3>1 DEF Current
    <3>3. cTry.exception = FALSE
      <4>1. cMode = "prefer" => cTry.ssl = "try"
        BY <2>10, <3>2
      <4>2. cMode = "allow" => cTry.ssl = "none"
        BY <2>10, <3>2
      <4>3. ~cTry.exception
        BY <2>2, <3>1, <3>2, <4>1, <4>2
      <4> QED
        BY <1>1, <4>3
    <3>4. cServers[h].up \in BOOLEAN
      BY <1>1, <3>2, WelcomeKnown, ConnectBounds
    <3> QED
      BY <2>8, <3>2, <3>3, <3>4 DEF Server
  <2>13. \A f : Tried(f)' = Tried(f) /\ Once(f)' = Once(f) /\ Waits(f, kinds, s) = FALSE /\ Waits(f, kinds, s)' = FALSE
    BY <1>1, <1>2, <2>1 DEF Tried, Once, Waits
  <2>14. Planned(kinds, h, s, n)'
    BY <1>2, <2>1, <2>8, <2>11, <2>12, <2>13 DEF Planned
  <2>15. Hosts'
    BY <1>2, <1>3, <2>1, <2>13, <2>14 DEF ConnectInv, Hosts
  <2> QED
    BY <2>4, <2>5, <2>6, <2>7, <2>15 DEF ConnectInv
<1> QED
  BY <1>1, <1>6, <1>7

LEMMA OpenKeeps == ASSUME ConnectInv, Initialize \/ Close PROVE ConnectInv'
<1>1. /\ cConn \in {"initializing", "open"} /\ cConn' \in {"open", "closed"}
      /\ UNCHANGED <<cMode, cServers, cTodo, cSkip, cTry, cWire, cLog>>
  BY DEF Initialize, Close
<1>2. ConnectTypes'
  BY <1>1 DEF ConnectInv, ConnectTypes
<1>3. Greeted'
  <2>1. Welcome' = Welcome /\ cTry.phase = "ended"
    BY <1>1 DEF Welcome, Server, ConnectInv, Phases
  <2> QED
    BY <1>1, <2>1 DEF ConnectInv, Greeted
<1>4. Sockets'
  BY <1>1 DEF ConnectInv, Sockets
<1>5. Phases'
  BY <1>1 DEF ConnectInv, Phases
<1>6. Hosts'
  BY <1>1, HostsLeft DEF ConnectInv
<1> QED
  BY <1>2, <1>3, <1>4, <1>5, <1>6 DEF ConnectInv

LEMMA ConnectStarts == ConnectInit => ConnectInv
<1> SUFFICES ASSUME ConnectInit PROVE ConnectInv
  OBVIOUS
<1>1. /\ cConn = "setup" /\ cMode = "disable" /\ cServers = <<>> /\ cTodo = <<>>
      /\ cSkip = FALSE /\ cTry = NoTry /\ cWire = <<>> /\ cLog = [tried |-> <<>>, hosts |-> {}, passwords |-> {}]
  BY DEF ConnectInit
<1>2. ConnectTypes
  <2>1. /\ <<>> \in Seq(ServerKinds) /\ <<>> \in Seq({"none", "try", "must"} \X Nat)
        /\ <<>> \in Seq({"AuthOK", "Option", "Key", "Ready", "AuthPassword", "AuthOther", "Error"})
    OBVIOUS
  <2> QED
    BY <1>1, <2>1, NoTryKnown DEF ConnectTypes
<1>3. Greeted
  BY <1>1, NoTryKnown DEF Greeted
<1>4. Sockets
  BY <1>1, NoTryKnown DEF Sockets
<1>5. Phases
  BY <1>1 DEF Phases
<1>6. Hosts
  BY <1>1 DEF Hosts
<1> QED
  BY <1>2, <1>3, <1>4, <1>5, <1>6 DEF ConnectInv

\* A connection is open only on a server that accepted the user on a socket secured as
\* sslmode asks, the password is sent on no other, and could_not_connect means that every
\* host was tried, for any number of hosts and whatever each server answers.
THEOREM OpenedTheorem == ConnectSpec => []OpenedAsAsked
<1>1. ConnectInv /\ [ConnectNext]_connectVars => ConnectInv'
  <2> SUFFICES ASSUME ConnectInv, [ConnectNext]_connectVars PROVE ConnectInv'
    OBVIOUS
  <2>1. CASE UNCHANGED connectVars
    <3>1. UNCHANGED <<cConn, cMode, cServers, cTodo, cSkip, cTry, cWire, cLog>>
      BY <2>1 DEF connectVars
    <3>2. ConnectTypes' /\ Phases' /\ Sockets'
      <4>1. ConnectTypes'
        BY <3>1 DEF ConnectInv, ConnectTypes
      <4>2. Phases'
        BY <3>1 DEF ConnectInv, Phases
      <4>3. Sockets'
        BY <3>1 DEF ConnectInv, Sockets
      <4> QED
        BY <4>1, <4>2, <4>3
    <3>3. Greeted'
      BY <3>1 DEF ConnectInv, Greeted, Welcome, Server
    <3>4. Hosts'
      <4>1. \A f : Tried(f)' = Tried(f) /\ Once(f)' = Once(f)
        BY <3>1 DEF Tried, Once
      <4>2. \A kinds, h, s, n : Planned(kinds, h, s, n)' = Planned(kinds, h, s, n)
        BY <3>1, <4>1 DEF Planned, Waits, Server
      <4> QED
        BY <3>1, <4>1, <4>2 DEF ConnectInv, Hosts
    <3> QED
      BY <3>2, <3>3, <3>4 DEF ConnectInv
  <2>2. CASE ConnectNext
    BY <2>2, EnvironmentKeeps, ConnectKeeps, AttemptKeeps, SocketKeeps, NegotiateSslKeeps, ResetKeeps, StartupKeeps,
       PasswordKeeps, GreetingKeeps, EofKeeps, EndKeeps, OpenKeeps DEF ConnectNext
  <2> QED
    BY <2>1, <2>2
<1>2. ConnectInv => OpenedAsAsked
  <2> SUFFICES ASSUME ConnectInv PROVE OpenedAsAsked
    OBVIOUS
  <2>1. cConn \in {"initializing", "open"} =>
          /\ Welcome \in {"trust", "password"} /\ cTry.options = 2 /\ cTry.phase = "ended" /\ cTry.fatal = FALSE
          /\ cTry # NoTry
    BY NoTryKnown DEF ConnectInv, Phases, Greeted
  <2>2. /\ cTry # NoTry /\ cMode = "require" => cTry.ssl = "must"
        /\ cTry # NoTry /\ cMode = "disable" => cTry.ssl = "none"
    BY ModesKnown, KindsKnown DEF ConnectInv, ConnectTypes, Sockets
  <2>3. cMode = "require" /\ cConn \in {"initializing", "open"} => cTry.secured
    BY <2>1, <2>2 DEF ConnectInv, Sockets
  <2>4. cMode = "disable" => ~cTry.secured
    BY <2>2, NoTryKnown DEF ConnectInv, Sockets
  <2>5. cConn = "failed" => cLog.hosts = {p[2] : p \in ToSet(cLog.tried)}
    <3>1. SUFFICES ASSUME cConn = "failed" PROVE cLog.hosts = {p[2] : p \in ToSet(cLog.tried)}
      OBVIOUS
    <3>2. ToSet(cLog.tried) = {cLog.tried[i] : i \in DOMAIN cLog.tried}
      BY DEF ToSet
    <3>3. \A f \in cLog.hosts : \E i \in DOMAIN cLog.tried : cLog.tried[i][2] = f
      BY <3>1 DEF ConnectInv, Hosts, Tried
    <3>4. \A i \in DOMAIN cLog.tried : cLog.tried[i][2] \in cLog.hosts
      BY DEF ConnectInv, Hosts
    <3> QED
      BY <3>2, <3>3, <3>4
  <2>6. \A f \in cLog.hosts :
          ~cServers[f].up => \A i, j \in DOMAIN cLog.tried : cLog.tried[i][2] = f /\ cLog.tried[j][2] = f => i = j
    <3>1. TAKE f \in cLog.hosts
    <3>2. cServers[f].up \in BOOLEAN
      BY ConnectBounds DEF ConnectInv, ConnectTypes, Hosts
    <3> QED
      BY <3>2 DEF ConnectInv, Hosts, Once
  <2> QED
    BY <2>1, <2>3, <2>4, <2>5, <2>6 DEF OpenedAsAsked, ConnectInv, Sockets
<1> QED
  BY ConnectStarts, <1>1, <1>2, PTL DEF ConnectSpec

-----------------------------------------------------------------------------
(* The buffers between the socket and the protocol.                        *)

(* Runs of the stream's bytes.                                             *)
LEMMA RunKnown ==
  ASSUME NEW a \in Nat, NEW n \in Nat
  PROVE  /\ UpFrom(a, n) \in Seq(Nat) /\ Len(UpFrom(a, n)) = n
         /\ \A j \in 1 .. n : UpFrom(a, n)[j] = a + j
BY DEF UpFrom

RunsJoin(a, n, b, m) == UpFrom(a, n) \o UpFrom(b, m) = UpFrom(a, n + m)
LEMMA RunJoin ==
  ASSUME NEW a \in Nat, NEW n \in Nat, NEW b \in Nat, NEW m \in Nat, b = a + n
  PROVE  RunsJoin(a, n, b, m)
<1>1. PICK s \in Seq(Nat) : s = UpFrom(a, n) /\ Len(s) = n /\ \A j \in 1 .. n : s[j] = a + j
  BY RunKnown
<1>2. PICK t \in Seq(Nat) : t = UpFrom(b, m) /\ Len(t) = m /\ \A j \in 1 .. m : t[j] = b + j
  BY RunKnown
<1>3. PICK k \in Nat : k = n + m
  OBVIOUS
<1>4. PICK u \in Seq(Nat) : u = UpFrom(a, k) /\ Len(u) = k /\ \A j \in 1 .. k : u[j] = a + j
  BY RunKnown
<1>5. s \o t \in Seq(Nat) /\ Len(s \o t) = k
  <2>1. s \o t \in Seq(Nat) /\ Len(s \o t) = Len(s) + Len(t)
    OBVIOUS
  <2> QED
    BY <1>1, <1>2, <1>3, <2>1
<1>6. ASSUME NEW j \in 1 .. k PROVE (s \o t)[j] = u[j]
  <2>1. u[j] = a + j
    BY <1>4
  <2>2. CASE j <= n
    <3>1. j \in 1 .. n /\ j \in 1 .. Len(s)
      BY <1>1, <2>2
    <3>2. (s \o t)[j] = s[j]
      BY <3>1
    <3> QED
      BY <1>1, <2>1, <3>1, <3>2
  <2>3. CASE j > n
    <3>1. PICK i \in 1 .. m : i = j - n
      BY <1>3, <2>3
    <3>2. (s \o t)[j] = t[i]
      <4>1. j \in Len(s) + 1 .. Len(s) + Len(t) /\ j - Len(s) = i
        BY <1>1, <1>2, <1>3, <2>3, <3>1
      <4> QED
        BY <4>1
    <3>3. t[i] = b + i
      BY <1>2
    <3> QED
      BY <2>1, <3>1, <3>2, <3>3
  <2>4. j <= n \/ j > n
    OBVIOUS
  <2> QED
    BY <2>2, <2>3, <2>4
<1>7. s \o t = u
  BY <1>3, <1>4, <1>5, <1>6, SameElements
<1> QED
  BY <1>1, <1>2, <1>3, <1>4, <1>7 DEF RunsJoin

LEMMA RunsMeet ==
  ASSUME NEW x \in Nat, NEW y \in Nat, NEW z \in Nat, x <= y, y <= z
  PROVE  UpFrom(x, y - x) \o UpFrom(y, z - y) = UpFrom(x, z - x)
<1>1. PICK p \in Nat : p = y - x
  OBVIOUS
<1>2. PICK q \in Nat : q = z - y
  OBVIOUS
<1>3. y = x + p /\ p \in Nat /\ q \in Nat
  BY <1>1, <1>2
<1>4. UpFrom(x, p) \o UpFrom(y, q) = UpFrom(x, p + q)
  <2>1. RunsJoin(x, p, y, q)
    BY <1>3, RunJoin
  <2> QED
    BY <2>1 DEF RunsJoin
<1>5. p + q = z - x
  BY <1>1, <1>2
<1> QED
  BY <1>1, <1>2, <1>4, <1>5

LEMMA RunRest ==
  ASSUME NEW a \in Nat, NEW m \in Nat, NEW n \in Nat, n <= m
  PROVE  Rest(UpFrom(a, m), n) = UpFrom(a + n, m - n)
<1>1. PICK s \in Seq(Nat) : s = UpFrom(a, m) /\ Len(s) = m /\ \A j \in 1 .. m : s[j] = a + j
  BY RunKnown
<1>2. PICK b \in Nat, k \in Nat : b = a + n /\ k = m - n
  OBVIOUS
<1>3. PICK u \in Seq(Nat) : u = UpFrom(b, k) /\ Len(u) = k /\ \A j \in 1 .. k : u[j] = b + j
  BY RunKnown
<1>4. PICK t \in Seq(Nat) : t = SubSeq(s, n + 1, m) /\ Len(t) = k /\ \A j \in 1 .. k : t[j] = s[n + j]
  <2>1. SubSeq(s, n + 1, m) = [j \in 1 .. k |-> s[n + j]]
    <3>1. n + 1 \in Int /\ m - (n + 1) + 1 = k
      BY <1>2
    <3>2. SubSeq(s, n + 1, m) = [j \in 1 .. (m - (n + 1) + 1) |-> s[(n + 1) + j - 1]]
      BY DEF SubSeq
    <3>3. \A j \in 1 .. k : (n + 1) + j - 1 = n + j
      BY <1>2
    <3> QED
      BY <3>1, <3>2, <3>3
  <2>2. \A j \in 1 .. k : n + j \in 1 .. m
    BY <1>2
  <2>3. ASSUME NEW j \in 1 .. k PROVE s[n + j] \in Nat
    <3>1. n + j \in 1 .. Len(s)
      BY <1>1, <2>2
    <3> QED
      BY <1>1, <3>1
  <2>4. PICK t : t = [j \in 1 .. k |-> s[n + j]]
    OBVIOUS
  <2>5. t \in Seq(Nat) /\ Len(t) = k /\ \A j \in 1 .. k : t[j] = s[n + j]
    BY <2>3, <2>4
  <2> QED
    BY <2>1, <2>4, <2>5
<1>5. ASSUME NEW j \in 1 .. k PROVE t[j] = u[j]
  <2>1. n + j \in 1 .. m /\ b + j = a + (n + j)
    BY <1>2
  <2>2. s[n + j] = a + (n + j)
    BY <1>1, <2>1
  <2> QED
    BY <1>3, <1>4, <2>1, <2>2
<1>6. t = u
  BY <1>3, <1>4, <1>5, SameElements
<1>7. Rest(s, n) = t
  BY <1>1, <1>4 DEF Rest
<1> QED
  BY <1>1, <1>2, <1>3, <1>6, <1>7

LEMMA RunCut ==
  ASSUME NEW a \in Nat, NEW m \in Nat, NEW n \in Nat
  PROVE  Cut(UpFrom(a, m), n) = UpFrom(a, Least(n, m))
<1>1. PICK s \in Seq(Nat) : s = UpFrom(a, m) /\ Len(s) = m /\ \A j \in 1 .. m : s[j] = a + j
  BY RunKnown
<1>2. PICK k \in Nat : k = Least(n, m) /\ k <= m
  BY DEF Least
<1>3. PICK u \in Seq(Nat) : u = UpFrom(a, k) /\ Len(u) = k /\ \A j \in 1 .. k : u[j] = a + j
  BY RunKnown
<1>4. PICK t \in Seq(Nat) : t = SubSeq(s, 1, k) /\ Len(t) = k /\ \A j \in 1 .. k : t[j] = s[j]
  <2>1. SubSeq(s, 1, k) = [j \in 1 .. k |-> s[j]]
    <3>1. SubSeq(s, 1, k) = [j \in 1 .. (k - 1 + 1) |-> s[1 + j - 1]]
      BY DEF SubSeq
    <3>2. k - 1 + 1 = k /\ \A j \in 1 .. k : 1 + j - 1 = j
      OBVIOUS
    <3> QED
      BY <3>1, <3>2
  <2>2. \A j \in 1 .. k : j \in 1 .. m
    BY <1>2
  <2>3. \A j \in 1 .. k : s[j] \in Nat
    BY <1>1, <2>2
  <2>4. PICK t : t = [j \in 1 .. k |-> s[j]]
    OBVIOUS
  <2>5. t \in Seq(Nat) /\ Len(t) = k /\ \A j \in 1 .. k : t[j] = s[j]
    BY <2>3, <2>4
  <2> QED
    BY <2>1, <2>4, <2>5
<1>5. ASSUME NEW j \in 1 .. k PROVE t[j] = u[j]
  <2>1. j \in 1 .. m
    BY <1>2
  <2> QED
    BY <1>1, <1>3, <1>4, <2>1
<1>6. t = u
  BY <1>3, <1>4, <1>5, SameElements
<1>7. Cut(s, n) = t
  BY <1>1, <1>2, <1>4 DEF Cut
<1> QED
  BY <1>1, <1>2, <1>3, <1>6, <1>7

LEMMA RunNothing == ASSUME NEW a \in Nat PROVE UpFrom(a, 0) = <<>>
<1>1. PICK s \in Seq(Nat) : s = UpFrom(a, 0) /\ Len(s) = 0
  BY RunKnown
<1> QED
  BY <1>1, NoElements

-----------------------------------------------------------------------------
(* The layout of the stream.                                               *)
FrameStarts(f) ==
  f = [i \in 1 .. (Len(Bodies) + 1) |-> IF i = 1 THEN 0 ELSE f[i - 1] + Header + Bodies[i - 1]]

LEMMA FrameStartsExist == \E f : FrameStarts(f)
<1> DEFINE P(n, f) == f = [i \in 1 .. n |-> IF i = 1 THEN 0 ELSE f[i - 1] + Header + Bodies[i - 1]]
<1> DEFINE S == {n \in Nat : \E f : P(n, f)}
<1>1. 0 \in S
  <2>1. P(0, <<>>)
    OBVIOUS
  <2> QED BY <2>1
<1>2. ASSUME NEW n \in S PROVE n + 1 \in S
  <2>1. PICK f : P(n, f)
    OBVIOUS
  <2>2. PICK last : last = IF n + 1 = 1 THEN 0 ELSE f[n] + Header + Bodies[n]
    OBVIOUS
  <2>3. PICK g : g = [i \in 1 .. (n + 1) |-> IF i = n + 1 THEN last ELSE f[i]]
    OBVIOUS
  <2>4. ASSUME NEW i \in 1 .. (n + 1) PROVE g[i] = IF i = 1 THEN 0 ELSE g[i - 1] + Header + Bodies[i - 1]
    <3>1. CASE i = n + 1
      BY <2>2, <2>3, <3>1
    <3>2. CASE i # n + 1
      <4>1. i \in 1 .. n
        BY <3>2
      <4>2. g[i] = f[i] /\ (i # 1 => g[i - 1] = f[i - 1])
        BY <2>3, <4>1
      <4>3. f[i] = IF i = 1 THEN 0 ELSE f[i - 1] + Header + Bodies[i - 1]
        BY <2>1, <4>1
      <4> QED BY <4>2, <4>3
    <3> QED BY <3>1, <3>2
  <2>5. g = [i \in 1 .. (n + 1) |-> g[i]]
    BY <2>3
  <2>6. P(n + 1, g)
    BY <2>4, <2>5
  <2>7. n + 1 \in Nat /\ \E h : P(n + 1, h)
    <3> HIDE DEF P
    <3> QED BY <2>6
  <2> QED BY <2>7
<1>3. S = Nat
  <2> HIDE DEF S
  <2>1. S \in SUBSET Nat BY DEF S
  <2> QED BY <1>1, <1>2, <2>1, Inductive
<1>4. Len(Bodies) + 1 \in S
  <2>1. Len(Bodies) + 1 \in Nat BY FrameBounds
  <2> HIDE DEF S
  <2> QED BY <1>3, <2>1
<1> QED
  BY <1>4 DEF FrameStarts

LEMMA FrameStartKnown ==
  \A i \in 1 .. (Len(Bodies) + 1) :
    FrameStart[i] = IF i = 1 THEN 0 ELSE FrameStart[i - 1] + Header + Bodies[i - 1]
<1>1. FrameStarts(FrameStart)
  BY FrameStartsExist DEF FrameStart, FrameStarts
<1>2. PICK n \in Nat : n = Len(Bodies)
  BY FrameBounds
<1> QED
  BY <1>1, <1>2 DEF FrameStarts

LEMMA FrameStartGrows ==
  /\ \A i \in 1 .. (Len(Bodies) + 1) : FrameStart[i] \in Nat
  /\ \A i \in 1 .. Len(Bodies) : FrameStart[i + 1] = FrameStart[i] + Header + Bodies[i] /\ Bodies[i] \in Nat
<1>1. PICK n \in Nat : n = Len(Bodies)
  BY FrameBounds
<1>0. \A i \in 1 .. n : Bodies[i] \in Nat
  BY <1>1, FrameBounds
<1> DEFINE S == {k \in Nat : k + 1 <= n + 1 => FrameStart[k + 1] \in Nat}
<1>2. 0 \in S
  <2>1. 1 \in 1 .. (n + 1) /\ 0 + 1 = 1
    OBVIOUS
  <2>2. FrameStart[1] = 0
    BY <1>1, <2>1, FrameStartKnown
  <2> QED
    BY <2>1, <2>2
<1>3. ASSUME NEW k \in S PROVE k + 1 \in S
  <2>1. CASE k + 1 > n
    BY <2>1
  <2>2. CASE k + 1 <= n
    <3>1. FrameStart[k + 1] \in Nat /\ k + 2 \in 1 .. (n + 1) /\ k + 1 \in 1 .. n /\ (k + 2) - 1 = k + 1
      BY <2>2
    <3>2. FrameStart[k + 2] = FrameStart[(k + 2) - 1] + Header + Bodies[(k + 2) - 1]
      <4>1. k + 2 \in 1 .. (Len(Bodies) + 1) /\ k + 2 # 1
        BY <1>1, <3>1
      <4> QED
        BY <4>1, FrameStartKnown
    <3>3. Bodies[k + 1] \in Nat
      BY <1>0, <3>1
    <3> QED
      BY <3>1, <3>2, <3>3 DEF Header
  <2> QED
    BY <2>1, <2>2
<1>4. S = Nat
  <2> HIDE DEF S
  <2>1. S \in SUBSET Nat BY DEF S
  <2> QED BY <1>2, <1>3, <2>1, Inductive
<1>5. ASSUME NEW i \in 1 .. (n + 1) PROVE FrameStart[i] \in Nat
  <2>1. i - 1 \in Nat /\ (i - 1) + 1 = i
    OBVIOUS
  <2>2. i - 1 \in S
    <3> HIDE DEF S
    <3> QED
      BY <1>4, <2>1
  <2>3. (i - 1) + 1 <= n + 1 => FrameStart[(i - 1) + 1] \in Nat
    BY <2>2
  <2> QED
    BY <2>1, <2>3
<1>6. ASSUME NEW i \in 1 .. n PROVE FrameStart[i + 1] = FrameStart[i] + Header + Bodies[i]
  <2>1. i + 1 \in 1 .. (n + 1) /\ (i + 1) - 1 = i /\ i + 1 # 1
    OBVIOUS
  <2> QED
    BY <1>1, <2>1, FrameStartKnown
<1> QED
  BY <1>0, <1>1, <1>5, <1>6

LEMMA FrameStartOrder ==
  ASSUME NEW i \in 1 .. (Len(Bodies) + 1), NEW j \in 1 .. (Len(Bodies) + 1), i < j
  PROVE  FrameStart[i] < FrameStart[j] /\ FrameStart[i + 1] <= FrameStart[j]
<1>1. PICK n \in Nat : n = Len(Bodies)
  BY FrameBounds
<1>0. ASSUME NEW k \in 1 .. n PROVE FrameStart[k] < FrameStart[k + 1]
  <2>1. k + 1 \in 1 .. (n + 1) /\ k \in 1 .. (n + 1)
    OBVIOUS
  <2>2. PICK x \in Nat, y \in Nat, z \in Nat : x = FrameStart[k] /\ y = FrameStart[k + 1] /\ z = Bodies[k]
    BY <1>1, <2>1, FrameStartGrows
  <2>3. y = x + Header + z
    BY <1>1, <2>2, FrameStartGrows
  <2> QED
    BY <2>2, <2>3 DEF Header
<1> DEFINE S == {k \in Nat : i + 1 + k <= n + 1 => FrameStart[i + 1] <= FrameStart[i + 1 + k]}
<1>2. 0 \in S
  <2>1. i + 1 \in 1 .. (n + 1) /\ i + 1 + 0 = i + 1
    BY <1>1
  <2>2. FrameStart[i + 1] \in Nat
    BY <1>1, <2>1, FrameStartGrows
  <2> QED
    BY <2>1, <2>2
<1>3. ASSUME NEW k \in S PROVE k + 1 \in S
  <2>1. CASE i + 1 + k > n
    BY <2>1, <1>1
  <2>2. CASE i + 1 + k <= n
    <3>1. i + 1 + k \in 1 .. n /\ i + 1 + (k + 1) = (i + 1 + k) + 1 /\ i + 1 \in 1 .. (n + 1)
      BY <2>2, <1>1
    <3>2. PICK h \in 1 .. n : h = i + 1 + k
      BY <3>1
    <3>3. FrameStart[h] < FrameStart[h + 1] /\ FrameStart[i + 1] \in Nat /\ FrameStart[h] \in Nat /\ FrameStart[h + 1] \in Nat
      BY <1>0, <1>1, <3>1, <3>2, FrameStartGrows
    <3>4. FrameStart[i + 1] <= FrameStart[h]
      BY <2>2, <3>2
    <3>5. PICK x \in Nat, y \in Nat, z \in Nat : x = FrameStart[i + 1] /\ y = FrameStart[h] /\ z = FrameStart[h + 1]
      BY <3>3
    <3>6. x <= z
      BY <3>3, <3>4, <3>5
    <3> QED
      BY <3>1, <3>2, <3>5, <3>6
  <2> QED
    BY <2>1, <2>2, <1>1
<1>4. S = Nat
  <2> HIDE DEF S
  <2>1. S \in SUBSET Nat BY DEF S
  <2> QED BY <1>2, <1>3, <2>1, Inductive
<1>5. j - i - 1 \in S
  <2>1. j - i - 1 \in Nat
    BY <1>1
  <2> HIDE DEF S
  <2> QED
    BY <1>4, <2>1
<1>6. i + 1 + (j - i - 1) = j
  BY <1>1
<1>7. FrameStart[i + 1] <= FrameStart[j]
  BY <1>1, <1>5, <1>6
<1>8. i \in 1 .. n /\ i + 1 \in 1 .. (n + 1)
  BY <1>1
<1>9. PICK x \in Nat, y \in Nat, z \in Nat : x = FrameStart[i] /\ y = FrameStart[i + 1] /\ z = FrameStart[j]
  BY <1>1, <1>8, FrameStartGrows
<1>10. x < y /\ y <= z
  BY <1>0, <1>7, <1>8, <1>9
<1> QED
  BY <1>9, <1>10

-----------------------------------------------------------------------------
(* The head of a message, and how many messages are whole.                 *)
LEMMA SizeKnown ==
  ASSUME NEW i \in 1 .. Len(Bodies)
  PROVE  BodySize(UpFrom(FrameStart[i], Header)) = Bodies[i]
<1>1. PICK n \in Nat : n = Len(Bodies)
  BY FrameBounds
<1>2. ASSUME NEW j \in 1 .. n, UpFrom(FrameStart[i], Header) = UpFrom(FrameStart[j], Header) PROVE j = i
  <2>1. i \in 1 .. (n + 1) /\ j \in 1 .. (n + 1)
    BY <1>1
  <2>2. PICK x \in Nat, y \in Nat : x = FrameStart[i] /\ y = FrameStart[j]
    BY <1>1, <2>1, FrameStartGrows
  <2>3. 5 \in Nat /\ 1 \in 1 .. 5
    OBVIOUS
  <2>4. UpFrom(x, 5)[1] = x + 1 /\ UpFrom(y, 5)[1] = y + 1
    BY <2>3, RunKnown
  <2>5. x = y
    <3>1. x + 1 = y + 1
      BY <1>2, <2>2, <2>4 DEF Header
    <3> QED
      BY <3>1
  <2>0. i \in 1 .. (Len(Bodies) + 1) /\ j \in 1 .. (Len(Bodies) + 1)
    BY <1>1, <2>1
  <2>6. ASSUME i < j PROVE FALSE
    <3>1. FrameStart[i] < FrameStart[j]
      BY <2>0, <2>6, FrameStartOrder
    <3> QED
      BY <2>2, <2>5, <3>1
  <2>7. ASSUME j < i PROVE FALSE
    <3>1. FrameStart[j] < FrameStart[i]
      BY <2>0, <2>7, FrameStartOrder
    <3> QED
      BY <2>2, <2>5, <3>1
  <2> QED
    BY <1>1, <2>6, <2>7
<1>3. PICK here : here = {j \in 1 .. Len(Bodies) : UpFrom(FrameStart[i], Header) = UpFrom(FrameStart[j], Header)}
  OBVIOUS
<1>4. here = {i}
  BY <1>1, <1>2, <1>3
<1>5. (CHOOSE j \in here : TRUE) = i
  BY <1>4
<1> QED
  BY <1>3, <1>4, <1>5 DEF BodySize

LEMMA SizeUnknown ==
  ASSUME NEW a \in Nat, NEW k \in Nat, k < 5
  PROVE  BodySize(UpFrom(a, k)) = -1
<1>1. ASSUME NEW j \in 1 .. Len(Bodies), UpFrom(a, k) = UpFrom(FrameStart[j], Header) PROVE FALSE
  <2>1. j \in 1 .. (Len(Bodies) + 1)
    BY FrameBounds
  <2>2. PICK x \in Nat : x = FrameStart[j]
    BY <2>1, FrameStartGrows
  <2>3. 5 \in Nat
    OBVIOUS
  <2>4. Len(UpFrom(a, k)) = k /\ Len(UpFrom(x, 5)) = 5
    BY <2>3, RunKnown
  <2>5. UpFrom(a, k) = UpFrom(x, 5)
    BY <1>1, <2>2 DEF Header
  <2>6. Len(UpFrom(a, k)) = Len(UpFrom(x, 5))
    BY <2>5
  <2>7. k = 5
    BY <2>4, <2>6
  <2> QED
    BY <2>7
<1>2. {j \in 1 .. Len(Bodies) : UpFrom(a, k) = UpFrom(FrameStart[j], Header)} = {}
  BY <1>1
<1> QED
  BY <1>2 DEF BodySize

LEMMA SizeNumber == ASSUME NEW head PROVE BodySize(head) \in Int
<1>1. PICK here : here = {i \in 1 .. Len(Bodies) : head = UpFrom(FrameStart[i], Header)}
  OBVIOUS
<1>2. CASE here = {}
  BY <1>1, <1>2 DEF BodySize
<1>3. CASE here # {}
  <2>1. PICK i \in 1 .. Len(Bodies) : i = CHOOSE j \in here : TRUE
    BY <1>1, <1>3
  <2>2. BodySize(head) = Bodies[i]
    BY <1>1, <1>3, <2>1 DEF BodySize
  <2> QED
    BY <2>2, FrameBounds
<1> QED
  BY <1>2, <1>3

\* w messages are whole in the first e bytes.
Whole(w, e) ==
  /\ w \in 0 .. Len(Bodies) /\ FrameStart[w + 1] <= e
  /\ w = Len(Bodies) \/ (w < Len(Bodies) /\ e < FrameStart[w + 2])

LEMMA WholeExists ==
  ASSUME NEW e \in Nat
  PROVE  \E w \in 0 .. Len(Bodies) : Whole(w, e)
<1>1. PICK n \in Nat : n = Len(Bodies)
  BY FrameBounds
<1>2. SUFFICES ASSUME \A w \in 0 .. n : ~Whole(w, e) PROVE FALSE
  BY <1>1
<1> DEFINE S == {k \in Nat : k <= n => FrameStart[k + 1] <= e}
<1>3. 0 \in S
  <2>1. 1 \in 1 .. (n + 1) /\ 0 + 1 = 1
    BY <1>1
  <2>2. FrameStart[1] = 0
    BY <1>1, <2>1, FrameStartKnown
  <2> QED
    BY <2>1, <2>2
<1>4. ASSUME NEW k \in S PROVE k + 1 \in S
  <2>1. SUFFICES ASSUME k + 1 <= n PROVE FrameStart[k + 2] <= e
    <3>1. (k + 1) + 1 = k + 2
      OBVIOUS
    <3> QED
      BY <2>1, <3>1
  <2>2. FrameStart[k + 1] <= e /\ k \in 0 .. n /\ k < n /\ k + 2 \in 1 .. (n + 1)
    BY <2>1
  <2>3. PICK y \in Nat : y = FrameStart[k + 2]
    BY <1>1, <2>2, FrameStartGrows
  <2>4. ~(e < FrameStart[k + 2])
    BY <1>1, <1>2, <2>2 DEF Whole
  <2> QED
    BY <2>3, <2>4
<1>5. S = Nat
  <2> HIDE DEF S
  <2>1. S \in SUBSET Nat BY DEF S
  <2> QED BY <1>3, <1>4, <2>1, Inductive
<1>6. n \in S
  <2> HIDE DEF S
  <2> QED
    BY <1>5
<1>7. Whole(n, e)
  BY <1>1, <1>6 DEF Whole
<1> QED
  BY <1>1, <1>2, <1>7

\* What can be seen of message n + 1 in the bytes from its start a up to e.
SeenOf(n, a, e, w) ==
  /\ n <= w
  /\ n < w => \E size \in Nat : /\ n < Len(Bodies) /\ size = Bodies[n + 1] /\ a + 5 + size <= e
                                /\ FrameStart[n + 2] = a + 5 + size
  /\ n = w => \/ e - a < 5
              \/ \E size \in Nat : n < Len(Bodies) /\ size = Bodies[n + 1] /\ a + 5 <= e /\ e < a + 5 + size
LEMMA WholeTells ==
  ASSUME NEW n \in 0 .. Len(Bodies), NEW e \in Nat, NEW w \in 0 .. Len(Bodies), Whole(w, e),
         e <= StreamSize, NEW a \in Nat, a = FrameStart[n + 1], a <= e
  PROVE  SeenOf(n, a, e, w)
<1>1. PICK m \in Nat : m = Len(Bodies)
  BY FrameBounds
<1>2. PICK z \in Nat : z = FrameStart[m + 1] /\ e <= z
  <2>1. m + 1 \in 1 .. (m + 1)
    BY <1>1
  <2> QED
    BY <1>1, <2>1, FrameStartGrows DEF StreamSize
<1>3. n <= w
  <2>1. SUFFICES ASSUME n > w PROVE FALSE
    BY <1>1
  <2>2. w + 1 \in 1 .. (m + 1) /\ n + 1 \in 1 .. (m + 1) /\ w + 1 < n + 1 /\ w # m /\ w + 2 \in 1 .. (m + 1)
    BY <1>1, <2>1
  <2>3. e < FrameStart[w + 2]
    BY <1>1, <2>2 DEF Whole
  <2>4. FrameStart[(w + 1) + 1] <= FrameStart[n + 1] /\ (w + 1) + 1 = w + 2
    <3>1. w + 1 \in 1 .. (Len(Bodies) + 1) /\ n + 1 \in 1 .. (Len(Bodies) + 1)
      BY <1>1, <2>2
    <3>2. PICK i \in 1 .. (Len(Bodies) + 1), j \in 1 .. (Len(Bodies) + 1) : i = w + 1 /\ j = n + 1 /\ i < j
      BY <2>2, <3>1
    <3>3. FrameStart[i + 1] <= FrameStart[j]
      BY <3>2, FrameStartOrder
    <3> QED
      BY <3>2, <3>3
  <2>5. PICK x \in Nat : x = FrameStart[w + 2]
    BY <1>1, <2>2, FrameStartGrows
  <2> QED
    BY <2>3, <2>4, <2>5
<1>4. ASSUME n < m
      PROVE  \E size \in Nat : size = Bodies[n + 1] /\ FrameStart[n + 2] = a + 5 + size
  <2>1. n + 1 \in 1 .. m /\ (n + 1) + 1 = n + 2
    BY <1>1, <1>4
  <2>2. FrameStart[n + 2] = a + Header + Bodies[n + 1] /\ Bodies[n + 1] \in Nat
    BY <1>1, <2>1, FrameStartGrows
  <2> QED
    BY <2>2 DEF Header
<1>5. CASE n < w
  <2>1. n < m
    BY <1>1, <1>5
  <2>2. PICK size \in Nat : size = Bodies[n + 1] /\ FrameStart[n + 2] = a + 5 + size
    BY <1>4, <2>1
  <2>3. FrameStart[n + 2] <= FrameStart[w + 1]
    <3>1. n + 2 \in 1 .. (m + 1) /\ w + 1 \in 1 .. (m + 1) /\ n + 1 \in 1 .. (m + 1) /\ n + 1 < w + 1
          /\ (n + 1) + 1 = n + 2
      BY <1>1, <1>5, <2>1
    <3>2. PICK i \in 1 .. (Len(Bodies) + 1), j \in 1 .. (Len(Bodies) + 1) : i = n + 1 /\ j = w + 1 /\ i < j
      BY <1>1, <3>1
    <3>3. FrameStart[i + 1] <= FrameStart[j]
      BY <3>2, FrameStartOrder
    <3> QED
      BY <3>1, <3>2, <3>3
  <2>4. PICK y \in Nat : y = FrameStart[w + 1] /\ y <= e
    <3>1. w + 1 \in 1 .. (m + 1)
      BY <1>1
    <3> QED
      BY <1>1, <3>1, FrameStartGrows DEF Whole
  <2>5. a + 5 + size <= e
    <3>1. PICK t \in Nat : t = a + 5 + size
      OBVIOUS
    <3>2. t <= y
      BY <2>2, <2>3, <2>4, <3>1
    <3> QED
      BY <2>4, <3>1, <3>2
  <2> QED
    BY <1>1, <1>3, <1>5, <2>1, <2>2, <2>5 DEF SeenOf
<1>6. CASE n = w
  <2>1. CASE n = m
    <3>1. e - a = 0
      BY <1>1, <1>2, <2>1
    <3> QED
      BY <1>3, <1>6, <3>1 DEF SeenOf
  <2>2. CASE n # m
    <3>1. n < m
      BY <1>1, <2>2
    <3>2. PICK size \in Nat : size = Bodies[n + 1] /\ FrameStart[n + 2] = a + 5 + size
      BY <1>4, <3>1
    <3>3. e < a + 5 + size
      BY <1>1, <1>6, <3>1, <3>2 DEF Whole
    <3>4. e - a < 5 \/ a + 5 <= e
      OBVIOUS
    <3> QED
      BY <1>1, <1>3, <1>6, <3>1, <3>2, <3>3, <3>4 DEF SeenOf
  <2> QED
    BY <2>1, <2>2
<1>7. n < w \/ n = w
  BY <1>1, <1>3
<1> QED
  BY <1>5, <1>6, <1>7

LEMMA FrameWithin ==
  ASSUME NEW n \in 0 .. Len(Bodies), NEW m \in 0 .. Len(Bodies), NEW w \in 0 .. Len(Bodies), NEW e \in Nat,
         Whole(w, e), n <= m, m <= w
  PROVE  FrameStart[m + 1] \in Nat /\ FrameStart[n + 1] <= FrameStart[m + 1] /\ FrameStart[m + 1] <= e
<1>1. PICK k \in Nat : k = Len(Bodies)
  BY FrameBounds
<1>2. PICK i \in 1 .. (Len(Bodies) + 1), j \in 1 .. (Len(Bodies) + 1), h \in 1 .. (Len(Bodies) + 1) :
        i = n + 1 /\ j = m + 1 /\ h = w + 1 /\ i <= j /\ j <= h
  <2>1. n + 1 \in 1 .. (Len(Bodies) + 1) /\ m + 1 \in 1 .. (Len(Bodies) + 1) /\ w + 1 \in 1 .. (Len(Bodies) + 1)
    BY <1>1
  <2>2. n + 1 <= m + 1 /\ m + 1 <= w + 1
    BY <1>1
  <2> QED
    BY <2>1, <2>2
<1>3. PICK x \in Nat, y \in Nat, z \in Nat : x = FrameStart[i] /\ y = FrameStart[j] /\ z = FrameStart[h]
  BY FrameStartGrows
<1>4. x <= y
  <2>1. CASE i = j
    BY <1>3, <2>1
  <2>2. CASE i < j
    BY <1>3, <2>2, FrameStartOrder
  <2>3. i = j \/ i < j
    BY <1>1, <1>2
  <2> QED
    BY <2>1, <2>2, <2>3
<1>5. y <= z
  <2>1. CASE j = h
    BY <1>3, <2>1
  <2>2. CASE j < h
    BY <1>3, <2>2, FrameStartOrder
  <2>3. j = h \/ j < h
    BY <1>1, <1>2
  <2> QED
    BY <2>1, <2>2, <2>3
<1>6. z <= e
  BY <1>2, <1>3 DEF Whole
<1> QED
  BY <1>2, <1>3, <1>4, <1>5, <1>6

(* The messages that are returned.                                         *)
FrameAt(i) == FrameOf(UpFrom(FrameStart[i], Header), UpFrom(FrameStart[i] + Header, Bodies[i]))
AllFrames == {FrameAt(i) : i \in 1 .. Len(Bodies)}
FramesIn(n, m) == [j \in 1 .. (m - n) |-> FrameAt(n + j)]

LEMMA FrameIsMessage == ASSUME NEW i PROVE FrameAt(i) # NoMessage
<1>1. PICK p, q : FrameAt(i) = <<p, q>>
  BY DEF FrameAt, FrameOf
<1>2. Len(<<p, q>>) = 2 /\ Len(<<>>) = 0
  OBVIOUS
<1> QED
  BY <1>1, <1>2 DEF NoMessage

LEMMA FramesKnown ==
  ASSUME NEW n \in Nat, NEW m \in 0 .. Len(Bodies), n <= m
  PROVE  /\ FramesIn(n, m) \in Seq(AllFrames) /\ Len(FramesIn(n, m)) = m - n
         /\ \A j \in 1 .. (m - n) : FramesIn(n, m)[j] = FrameAt(n + j)
<1>1. PICK k \in Nat : k = m - n
  BY FrameBounds
<1>2. ASSUME NEW j \in 1 .. k PROVE FrameAt(n + j) \in AllFrames
  <2>1. n + j \in 1 .. Len(Bodies)
    BY <1>1, FrameBounds
  <2> QED
    BY <2>1 DEF AllFrames
<1>3. PICK s : s = [j \in 1 .. k |-> FrameAt(n + j)]
  OBVIOUS
<1>4. s \in Seq(AllFrames) /\ Len(s) = k /\ \A j \in 1 .. k : s[j] = FrameAt(n + j)
  BY <1>2, <1>3
<1> QED
  BY <1>1, <1>3, <1>4 DEF FramesIn

LEMMA FramesFirst ==
  ASSUME NEW m \in 0 .. Len(Bodies)
  PROVE  /\ FramesIn(0, m) \in Seq(AllFrames) /\ Len(FramesIn(0, m)) = m
         /\ \A j \in 1 .. m : FramesIn(0, m)[j] = FrameAt(j)
<1>1. PICK z \in Nat : z = 0 /\ z <= m /\ m - z = m
  BY FrameBounds
<1>2. FramesIn(z, m) \in Seq(AllFrames) /\ Len(FramesIn(z, m)) = m - z
      /\ \A j \in 1 .. (m - z) : FramesIn(z, m)[j] = FrameAt(z + j)
  BY <1>1, FramesKnown
<1>3. \A j \in 1 .. m : z + j = j
  BY <1>1
<1> QED
  BY <1>1, <1>2, <1>3

LEMMA FramesGrow ==
  ASSUME NEW n \in Nat, NEW m \in 0 .. Len(Bodies), n <= m, m < Len(Bodies)
  PROVE  Append(FramesIn(n, m), FrameAt(m + 1)) = FramesIn(n, m + 1)
<1>1. PICK k \in Nat : k = m - n /\ m + 1 - n = k + 1
  BY FrameBounds
<1>2. m + 1 \in 0 .. Len(Bodies) /\ n <= m + 1 /\ m + 1 \in 1 .. Len(Bodies) /\ n + (k + 1) = m + 1
  BY <1>1, FrameBounds
<1>3. PICK s \in Seq(AllFrames) : s = FramesIn(n, m) /\ Len(s) = k /\ \A j \in 1 .. k : s[j] = FrameAt(n + j)
  BY <1>1, FramesKnown
<1>4. PICK t \in Seq(AllFrames) :
        t = FramesIn(n, m + 1) /\ Len(t) = k + 1 /\ \A j \in 1 .. (k + 1) : t[j] = FrameAt(n + j)
  <2>1. PICK h \in 0 .. Len(Bodies) : h = m + 1 /\ n <= h /\ h - n = k + 1
    BY <1>1, <1>2
  <2>2. FramesIn(n, h) \in Seq(AllFrames) /\ Len(FramesIn(n, h)) = h - n
        /\ \A j \in 1 .. (h - n) : FramesIn(n, h)[j] = FrameAt(n + j)
    BY <2>1, FramesKnown
  <2> QED
    BY <2>1, <2>2
<1>5. PICK x \in AllFrames : x = FrameAt(m + 1)
  BY <1>2 DEF AllFrames
<1>6. PICK u \in Seq(AllFrames) : u = Append(s, x) /\ Len(u) = k + 1 /\ u[k + 1] = x /\ \A j \in 1 .. k : u[j] = s[j]
  <2>1. PICK u \in Seq(AllFrames) : u = Append(s, x)
    <3>1. Append(s, x) \in Seq(AllFrames)
      OBVIOUS
    <3> QED
      BY <3>1
  <2>2. Len(u) = Len(s) + 1 /\ u[Len(s) + 1] = x
    BY <2>1
  <2>3. \A j \in 1 .. Len(s) : u[j] = s[j]
    BY <2>1
  <2> QED
    BY <1>3, <2>1, <2>2, <2>3
<1>7. ASSUME NEW j \in 1 .. (k + 1) PROVE u[j] = t[j]
  <2>1. CASE j = k + 1
    BY <1>2, <1>4, <1>5, <1>6, <2>1
  <2>2. CASE j # k + 1
    <3>1. j \in 1 .. k
      BY <2>2
    <3> QED
      BY <1>3, <1>4, <1>6, <3>1
  <2> QED
    BY <2>1, <2>2
<1>8. u = t
  BY <1>4, <1>6, <1>7, SameElements
<1> QED
  BY <1>3, <1>4, <1>5, <1>6, <1>8

LEMMA FramesJoin ==
  ASSUME NEW n \in 0 .. Len(Bodies), NEW m \in 0 .. Len(Bodies), n <= m
  PROVE  FramesIn(0, n) \o FramesIn(n, m) = FramesIn(0, m)
<1>1. PICK k \in Nat : k = m - n /\ n + k = m /\ n \in Nat /\ m \in Nat
  BY FrameBounds
<1>2. PICK s \in Seq(AllFrames) : s = FramesIn(0, n) /\ Len(s) = n /\ \A j \in 1 .. n : s[j] = FrameAt(j)
  BY FramesFirst
<1>3. PICK t \in Seq(AllFrames) : t = FramesIn(n, m) /\ Len(t) = k /\ \A j \in 1 .. k : t[j] = FrameAt(n + j)
  BY <1>1, FramesKnown
<1>4. PICK u \in Seq(AllFrames) : u = FramesIn(0, m) /\ Len(u) = m /\ \A j \in 1 .. m : u[j] = FrameAt(j)
  BY FramesFirst
<1>5. s \o t \in Seq(AllFrames) /\ Len(s \o t) = m
  <2>1. s \o t \in Seq(AllFrames) /\ Len(s \o t) = Len(s) + Len(t)
    OBVIOUS
  <2> QED
    BY <1>1, <1>2, <1>3, <2>1
<1>6. ASSUME NEW j \in 1 .. m PROVE (s \o t)[j] = u[j]
  <2>1. u[j] = FrameAt(j)
    BY <1>4
  <2>2. CASE j <= n
    <3>1. j \in 1 .. n /\ j \in 1 .. Len(s)
      BY <1>1, <1>2, <2>2
    <3>2. (s \o t)[j] = s[j]
      BY <3>1
    <3> QED
      BY <1>2, <2>1, <3>1, <3>2
  <2>3. CASE j > n
    <3>1. PICK i \in 1 .. k : i = j - n /\ n + i = j
      BY <1>1, <2>3
    <3>2. (s \o t)[j] = t[i]
      <4>1. j \in Len(s) + 1 .. Len(s) + Len(t) /\ j - Len(s) = i
        BY <1>1, <1>2, <1>3, <2>3, <3>1
      <4> QED
        BY <4>1
    <3>3. t[i] = FrameAt(n + i)
      BY <1>3
    <3> QED
      BY <2>1, <3>1, <3>2, <3>3
  <2>4. j <= n \/ j > n
    BY <1>1
  <2> QED
    BY <2>2, <2>3, <2>4
<1>7. s \o t = u
  BY <1>1, <1>4, <1>5, <1>6, SameElements
<1> QED
  BY <1>2, <1>3, <1>4, <1>7

(* The loops.                                                              *)
OneTurn(loop, io, t) ==
  CASE loop = "read" -> GetNext(io, t)
    [] loop = "seek" -> SeekPiece(t)
    [] loop = "count" -> CountNext(t)
    [] loop = "build" -> BuildNext(t)
Loops(f, loop, io, x, k) == f = [i \in 0 .. k |-> IF i = 0 THEN x ELSE OneTurn(loop, io, f[i - 1])]

LEMMA LoopsExist ==
  ASSUME NEW loop, NEW io, NEW x, NEW k \in Nat
  PROVE  \E f : Loops(f, loop, io, x, k)
<1> DEFINE S == {n \in Nat : \E f : Loops(f, loop, io, x, n)}
<1>1. 0 \in S
  <2>1. Loops([i \in 0 .. 0 |-> x], loop, io, x, 0)
    BY DEF Loops
  <2> QED BY <2>1
<1>2. ASSUME NEW n \in S PROVE n + 1 \in S
  <2>1. PICK f : Loops(f, loop, io, x, n)
    OBVIOUS
  <2>2. PICK last : last = OneTurn(loop, io, f[n])
    OBVIOUS
  <2>3. PICK g : g = [i \in 0 .. (n + 1) |-> IF i = n + 1 THEN last ELSE f[i]]
    OBVIOUS
  <2>4. ASSUME NEW i \in 0 .. (n + 1) PROVE g[i] = IF i = 0 THEN x ELSE OneTurn(loop, io, g[i - 1])
    <3>1. CASE i = n + 1
      <4>1. i # 0 /\ i - 1 = n /\ n # n + 1 /\ n \in 0 .. (n + 1)
        BY <3>1
      <4>2. g[i] = last /\ g[i - 1] = f[n]
        BY <2>3, <3>1, <4>1
      <4> QED
        BY <2>2, <4>1, <4>2
    <3>2. CASE i # n + 1
      <4>1. i \in 0 .. n
        BY <3>2
      <4>2. g[i] = f[i] /\ (i # 0 => g[i - 1] = f[i - 1])
        BY <2>3, <4>1
      <4>3. f[i] = IF i = 0 THEN x ELSE OneTurn(loop, io, f[i - 1])
        BY <2>1, <4>1 DEF Loops
      <4> QED BY <4>2, <4>3
    <3> QED BY <3>1, <3>2
  <2>5. g = [i \in 0 .. (n + 1) |-> g[i]]
    BY <2>3
  <2>6. Loops(g, loop, io, x, n + 1)
    BY <2>4, <2>5 DEF Loops
  <2> QED
    BY <2>6
<1>3. S = Nat
  <2> HIDE DEF S
  <2>1. S \in SUBSET Nat BY DEF S
  <2> QED BY <1>1, <1>2, <2>1, Inductive
<1> QED
  BY <1>3

ReadLoop(f, io, at, k) ==
  /\ f[0] = [msgs |-> <<>>, at |-> at]
  /\ \A i \in 1 .. k : f[i] = GetNext(io, f[i - 1])
  /\ ReadFrom(io, at, k) = f[k]
LEMMA ReadTurns ==
  ASSUME NEW io, NEW at, NEW k \in Nat
  PROVE  \E f : ReadLoop(f, io, at, k)
<1> DEFINE x == [msgs |-> <<>>, at |-> at]
           P(f) == f = [i \in 0 .. k |-> IF i = 0 THEN x ELSE GetNext(io, f[i - 1])]
<1>1. \E f : P(f)
  <2> HIDE DEF x
  <2>1. PICK f : Loops(f, "read", io, x, k)
    BY LoopsExist
  <2>2. P(f)
    BY <2>1 DEF Loops, OneTurn
  <2> QED
    BY <2>2
<1>2. PICK f : f = CHOOSE g : P(g)
  OBVIOUS
<1>3. P(f)
  <2> HIDE DEF P
  <2> QED
    BY <1>1, <1>2
<1>4. ReadFrom(io, at, k) = f[k]
  BY <1>2 DEF ReadFrom
<1>5. f[0] = x /\ \A i \in 1 .. k : f[i] = GetNext(io, f[i - 1])
  <2> HIDE DEF x
  <2>1. 0 \in 0 .. k /\ \A i \in 1 .. k : i \in 0 .. k /\ i # 0
    OBVIOUS
  <2> QED
    BY <1>3, <2>1
<1> QED
  BY <1>4, <1>5 DEF ReadLoop

\* Between two reads: message n + 1 begins at a, and e bytes were received, in which w
\* messages are whole.
Standing(n, a, e, w) ==
  /\ n \in 0 .. Len(Bodies) /\ w \in 0 .. Len(Bodies) /\ a \in Nat /\ e \in Nat
  /\ a = FrameStart[n + 1] /\ a <= e /\ e <= StreamSize /\ Whole(w, e)

\* The next message is whole, or not, and where it would end.
NextWhole(n, a, e) ==
  \E size \in Nat : /\ BodySize(UpFrom(a, 5)) = size /\ a + 5 + size <= e /\ FrameStart[n + 2] = a + 5 + size
                    /\ FrameAt(n + 1) = FrameOf(UpFrom(a, 5), UpFrom(a + 5, size))
NextCut(a, e) ==
  \/ e - a < 5
  \/ \E size \in Nat : BodySize(UpFrom(a, 5)) = size /\ a + 5 <= e /\ e < a + 5 + size

LEMMA NextTells ==
  ASSUME NEW n \in Nat, NEW a \in Nat, NEW e \in Nat, NEW w \in Nat, Standing(n, a, e, w)
  PROVE  n <= w /\ a <= e /\ w <= Len(Bodies) /\ (n < w => NextWhole(n, a, e)) /\ (n = w => NextCut(a, e))
<1>0. /\ n \in 0 .. Len(Bodies) /\ w \in 0 .. Len(Bodies) /\ a = FrameStart[n + 1] /\ a <= e
      /\ e <= StreamSize /\ Whole(w, e) /\ w <= Len(Bodies)
  BY FrameBounds DEF Standing
<1>1. /\ n <= w
      /\ n < w => \E size \in Nat : /\ n < Len(Bodies) /\ size = Bodies[n + 1] /\ a + 5 + size <= e
                                    /\ FrameStart[n + 2] = a + 5 + size
      /\ n = w => \/ e - a < 5
                  \/ \E size \in Nat : n < Len(Bodies) /\ size = Bodies[n + 1] /\ a + 5 <= e /\ e < a + 5 + size
  <2>1. SeenOf(n, a, e, w)
    BY <1>0, WholeTells
  <2> QED
    BY <2>1 DEF SeenOf
<1>2. ASSUME n < Len(Bodies) PROVE BodySize(UpFrom(a, 5)) = Bodies[n + 1]
  <2>1. PICK i \in 1 .. Len(Bodies) : i = n + 1
    BY <1>2, FrameBounds
  <2>2. BodySize(UpFrom(FrameStart[i], Header)) = Bodies[i]
    BY SizeKnown
  <2> QED
    BY <1>0, <2>1, <2>2 DEF Header
<1>3. ASSUME n < w PROVE NextWhole(n, a, e)
  <2>1. PICK size \in Nat : /\ n < Len(Bodies) /\ size = Bodies[n + 1] /\ a + 5 + size <= e
                            /\ FrameStart[n + 2] = a + 5 + size
    BY <1>1, <1>3
  <2>2. FrameAt(n + 1) = FrameOf(UpFrom(a, 5), UpFrom(a + 5, size))
    BY <1>0, <2>1 DEF FrameAt, Header
  <2> QED
    BY <1>2, <2>1, <2>2 DEF NextWhole
<1>4. ASSUME n = w PROVE NextCut(a, e)
  BY <1>1, <1>2, <1>4 DEF NextCut
<1> QED
  BY <1>0, <1>1, <1>3, <1>4

\* Reading goes on at a later message.
LEMMA StandingOn ==
  ASSUME NEW n \in Nat, NEW a \in Nat, NEW e \in Nat, NEW w \in Nat, Standing(n, a, e, w),
         NEW m \in Nat, n <= m, m <= w
  PROVE  /\ FrameStart[m + 1] \in Nat /\ a <= FrameStart[m + 1] /\ FrameStart[m + 1] <= e
         /\ Standing(m, FrameStart[m + 1], e, w)
<1>0. /\ n \in 0 .. Len(Bodies) /\ w \in 0 .. Len(Bodies) /\ a = FrameStart[n + 1] /\ a <= e
      /\ e <= StreamSize /\ Whole(w, e)
  BY DEF Standing
<1>1. m \in 0 .. Len(Bodies)
  BY <1>0, FrameBounds
<1>2. FrameStart[m + 1] \in Nat /\ FrameStart[n + 1] <= FrameStart[m + 1] /\ FrameStart[m + 1] <= e
  BY <1>0, <1>1, FrameWithin
<1> QED
  BY <1>0, <1>1, <1>2 DEF Standing

(* pbuffer.py *)
LEMMA GetIs ==
  ASSUME NEW io, NEW at, NEW head, head = Cut(Rest(io, at), Header),
         NEW size, size = BodySize(head), NEW body, body = Cut(Rest(io, at + Header), size)
  PROVE  GetMessage(io, at) = IF Len(head) < Header \/ size < 0 \/ Len(body) < size
                              THEN [msg |-> NoMessage, at |-> at]
                              ELSE [msg |-> FrameOf(head, body), at |-> at + Header + size]
BY DEF GetMessage

\* The buffer from the place d on holds the k bytes behind a.
LEMMA HeadRead ==
  ASSUME NEW c \in Nat, NEW m \in Nat, NEW d \in Nat, d <= m
  PROVE  Cut(Rest(UpFrom(c, m), d), Header) = UpFrom(c + d, Least(5, m - d))
<1>1. PICK a \in Nat, k \in Nat : a = c + d /\ k = m - d
  <2>1. c + d \in Nat /\ m - d \in Nat
    OBVIOUS
  <2> QED
    BY <2>1
<1>2. Rest(UpFrom(c, m), d) = UpFrom(a, k)
  BY <1>1, RunRest
<1>3. PICK five \in Nat : five = 5
  OBVIOUS
<1>4. Cut(UpFrom(a, k), five) = UpFrom(a, Least(five, k))
  BY RunCut
<1> QED
  BY <1>1, <1>2, <1>3, <1>4 DEF Header

LEMMA BodyRead ==
  ASSUME NEW c \in Nat, NEW m \in Nat, NEW d \in Nat, d + 5 <= m, NEW size \in Nat
  PROVE  Cut(Rest(UpFrom(c, m), d + Header), size) = UpFrom(c + d + 5, Least(size, m - d - 5))
<1>1. PICK f \in Nat, b \in Nat, k \in Nat : f = d + 5 /\ b = c + d + 5 /\ k = m - d - 5 /\ f <= m /\ b = c + f /\ k = m - f
  <2>1. d + 5 \in Nat /\ c + d + 5 \in Nat /\ m - d - 5 \in Nat /\ c + d + 5 = c + (d + 5) /\ m - d - 5 = m - (d + 5)
    OBVIOUS
  <2> QED
    BY <2>1
<1>2. Rest(UpFrom(c, m), f) = UpFrom(b, k)
  BY <1>1, RunRest
<1>3. Cut(UpFrom(b, k), size) = UpFrom(b, Least(size, k))
  BY RunCut
<1> QED
  BY <1>1, <1>2, <1>3 DEF Header

LEMMA GetWhole ==
  ASSUME NEW c \in Nat, NEW m \in Nat, NEW d \in Nat, NEW a \in Nat, a = c + d,
         NEW size \in Nat, BodySize(UpFrom(a, 5)) = size, d + 5 + size <= m
  PROVE  GetMessage(UpFrom(c, m), d) =
           [msg |-> FrameOf(UpFrom(a, 5), UpFrom(a + 5, size)), at |-> d + 5 + size]
<1>1. PICK b \in Nat, five \in Nat : b = a + 5 /\ five = 5 /\ b = c + d + 5 /\ d <= m /\ d + 5 <= m
  <2>1. a + 5 \in Nat /\ a + 5 = c + d + 5 /\ d <= m /\ d + 5 <= m
    OBVIOUS
  <2> QED
    BY <2>1
<1>2. Least(5, m - d) = 5 /\ Least(size, m - d - 5) = size
  BY DEF Least
<1>3. PICK head : head = UpFrom(a, 5) /\ head = Cut(Rest(UpFrom(c, m), d), Header) /\ Len(head) = five
  <2>1. Cut(Rest(UpFrom(c, m), d), Header) = UpFrom(a, 5)
    BY <1>1, <1>2, HeadRead
  <2>2. Len(UpFrom(a, five)) = five
    BY RunKnown
  <2> QED
    BY <1>1, <2>1, <2>2
<1>4. PICK body : body = UpFrom(b, size) /\ body = Cut(Rest(UpFrom(c, m), d + Header), size) /\ Len(body) = size
  <2>1. Cut(Rest(UpFrom(c, m), d + Header), size) = UpFrom(b, size)
    BY <1>1, <1>2, BodyRead
  <2>2. Len(UpFrom(b, size)) = size
    BY RunKnown
  <2> QED
    BY <2>1, <2>2
<1>5. ~(Len(head) < Header) /\ ~(size < 0) /\ ~(Len(body) < size)
  <2>1. ~(five < Header)
    BY <1>1 DEF Header
  <2>2. ~(size < 0) /\ ~(size < size)
    OBVIOUS
  <2> QED
    BY <1>3, <1>4, <2>1, <2>2
<1>6. GetMessage(UpFrom(c, m), d) = [msg |-> FrameOf(head, body), at |-> d + Header + size]
  BY <1>3, <1>4, <1>5, GetIs
<1>7. UpFrom(b, size) = UpFrom(a + 5, size)
  BY <1>1
<1>8. FrameOf(head, body) = FrameOf(UpFrom(a, 5), UpFrom(a + 5, size))
  BY <1>3, <1>4, <1>7
<1>9. d + Header + size = d + 5 + size
  BY DEF Header
<1> QED
  BY <1>6, <1>8, <1>9

LEMMA GetCut ==
  ASSUME NEW c \in Nat, NEW m \in Nat, NEW d \in Nat, NEW a \in Nat, a = c + d,
         NEW size \in Nat, BodySize(UpFrom(a, 5)) = size, d + 5 <= m, m < d + 5 + size
  PROVE  GetMessage(UpFrom(c, m), d) = [msg |-> NoMessage, at |-> d]
<1>1. PICK b \in Nat, r \in Nat : b = c + d + 5 /\ r = m - d - 5 /\ d <= m /\ r < size
  <2>1. c + d + 5 \in Nat /\ m - d - 5 \in Nat /\ d <= m /\ m - d - 5 < size
    OBVIOUS
  <2> QED
    BY <2>1
<1>2. Least(5, m - d) = 5 /\ Least(size, m - d - 5) = r
  BY <1>1 DEF Least
<1>3. PICK head : head = UpFrom(a, 5) /\ head = Cut(Rest(UpFrom(c, m), d), Header)
  <2>1. Cut(Rest(UpFrom(c, m), d), Header) = UpFrom(a, 5)
    BY <1>1, <1>2, HeadRead
  <2> QED
    BY <2>1
<1>4. PICK body : body = Cut(Rest(UpFrom(c, m), d + Header), size) /\ Len(body) = r
  <2>1. Cut(Rest(UpFrom(c, m), d + Header), size) = UpFrom(b, r)
    BY <1>1, <1>2, BodyRead
  <2>2. Len(UpFrom(b, r)) = r
    BY RunKnown
  <2> QED
    BY <2>1, <2>2
<1>5. Len(body) < size
  BY <1>1, <1>4
<1> QED
  BY <1>3, <1>4, <1>5, GetIs

LEMMA GetShort ==
  ASSUME NEW c \in Nat, NEW m \in Nat, NEW d \in Nat, d <= m, m - d < 5
  PROVE  GetMessage(UpFrom(c, m), d) = [msg |-> NoMessage, at |-> d]
<1>1. PICK a \in Nat, k \in Nat : a = c + d /\ k = m - d /\ k < 5
  <2>1. c + d \in Nat /\ m - d \in Nat
    OBVIOUS
  <2> QED
    BY <2>1
<1>2. Least(5, m - d) = k
  BY <1>1 DEF Least
<1>3. PICK head : head = Cut(Rest(UpFrom(c, m), d), Header) /\ Len(head) = k
  <2>1. Cut(Rest(UpFrom(c, m), d), Header) = UpFrom(a, k)
    BY <1>1, <1>2, HeadRead
  <2>2. Len(UpFrom(a, k)) = k
    BY RunKnown
  <2> QED
    BY <2>1, <2>2
<1>4. PICK size, body : size = BodySize(head) /\ body = Cut(Rest(UpFrom(c, m), d + Header), size)
  OBVIOUS
<1>5. Len(head) < Header
  BY <1>1, <1>3 DEF Header
<1> QED
  BY <1>3, <1>4, <1>5, GetIs

\* What a read finds in a buffer that holds the bytes from c to e.
Finds(n, a, e, w, c) ==
  /\ n < w => GetMessage(UpFrom(c, e - c), a - c) = [msg |-> FrameAt(n + 1), at |-> FrameStart[n + 2] - c]
  /\ n = w => GetMessage(UpFrom(c, e - c), a - c) = [msg |-> NoMessage, at |-> a - c]
LEMMA GetKnown ==
  ASSUME NEW n \in Nat, NEW a \in Nat, NEW e \in Nat, NEW w \in Nat, Standing(n, a, e, w), NEW c \in Nat, c <= a
  PROVE  Finds(n, a, e, w, c)
<1>0. a <= e
  BY NextTells
<1>1. PICK d \in Nat, m \in Nat : d = a - c /\ m = e - c /\ a = c + d /\ d <= m
  <2>1. a - c \in Nat /\ e - c \in Nat /\ a = c + (a - c) /\ a - c <= e - c
    BY <1>0
  <2> QED
    BY <2>1
<1>2. ASSUME n < w PROVE GetMessage(UpFrom(c, m), d) = [msg |-> FrameAt(n + 1), at |-> FrameStart[n + 2] - c]
  <2>1. PICK size \in Nat :
          /\ BodySize(UpFrom(a, 5)) = size /\ a + 5 + size <= e /\ FrameStart[n + 2] = a + 5 + size
          /\ FrameAt(n + 1) = FrameOf(UpFrom(a, 5), UpFrom(a + 5, size))
    BY <1>2, NextTells DEF NextWhole
  <2>2. d + 5 + size <= m /\ FrameStart[n + 2] - c = d + 5 + size
    BY <1>1, <2>1
  <2>3. GetMessage(UpFrom(c, m), d) =
          [msg |-> FrameOf(UpFrom(a, 5), UpFrom(a + 5, size)), at |-> d + 5 + size]
    BY <1>1, <2>1, <2>2, GetWhole
  <2> QED
    BY <2>1, <2>2, <2>3
<1>3. ASSUME n = w PROVE GetMessage(UpFrom(c, m), d) = [msg |-> NoMessage, at |-> d]
  <2>1. CASE e - a < 5
    <3>1. m - d < 5
      BY <1>1, <2>1
    <3> QED
      BY <1>1, <3>1, GetShort
  <2>2. CASE \E size \in Nat : BodySize(UpFrom(a, 5)) = size /\ a + 5 <= e /\ e < a + 5 + size
    <3>1. PICK size \in Nat : BodySize(UpFrom(a, 5)) = size /\ a + 5 <= e /\ e < a + 5 + size
      BY <2>2
    <3>2. d + 5 <= m /\ m < d + 5 + size
      BY <1>1, <3>1
    <3> QED
      BY <1>1, <3>1, <3>2, GetCut
  <2> QED
    BY <1>3, <2>1, <2>2, NextTells DEF NextCut
<1> QED
  BY <1>1, <1>2, <1>3 DEF Finds

\* The messages that are whole are read, as many as were asked for.
ReadTo(r, n, m, c) == r = [msgs |-> FramesIn(n, m), at |-> FrameStart[m + 1] - c]

LEMMA FramesNone == ASSUME NEW n \in 0 .. Len(Bodies) PROVE FramesIn(n, n) = <<>>
<1>1. n \in Nat /\ n - n = 0 /\ n <= n
  BY FrameBounds
<1>2. FramesIn(n, n) \in Seq(AllFrames) /\ Len(FramesIn(n, n)) = 0
  BY <1>1, FramesKnown
<1> QED
  BY <1>2, NoElements

LEMMA GetNextKnown ==
  ASSUME NEW n \in Nat, NEW a \in Nat, NEW e \in Nat, NEW w \in Nat, Standing(n, a, e, w), NEW c \in Nat, c <= a,
         NEW m \in Nat, n <= m, m <= w, NEW r, ReadTo(r, n, m, c)
  PROVE  /\ m < w => ReadTo(GetNext(UpFrom(c, e - c), r), n, m + 1, c)
         /\ m = w => GetNext(UpFrom(c, e - c), r) = r
<1>1. PICK b \in Nat : b = FrameStart[m + 1] /\ a <= b /\ Standing(m, b, e, w)
  BY StandingOn
<1>2. r.msgs = FramesIn(n, m) /\ r.at = b - c /\ c <= b
  BY <1>1 DEF ReadTo
<1>3. PICK io : io = UpFrom(c, e - c)
  OBVIOUS
<1>6. Finds(m, b, e, w, c)
  BY <1>1, <1>2, GetKnown
<1>4. ASSUME m < w PROVE ReadTo(GetNext(io, r), n, m + 1, c)
  <2>1. GetMessage(io, b - c) = [msg |-> FrameAt(m + 1), at |-> FrameStart[m + 2] - c]
    BY <1>3, <1>4, <1>6 DEF Finds
  <2>2. FrameAt(m + 1) # NoMessage
    BY FrameIsMessage
  <2>0. PICK got : got = GetMessage(io, r.at)
    OBVIOUS
  <2>6. got = [msg |-> FrameAt(m + 1), at |-> FrameStart[m + 2] - c]
    BY <1>2, <2>0, <2>1
  <2>7. got.msg = FrameAt(m + 1) /\ got.at = FrameStart[m + 2] - c /\ got.msg # NoMessage
    BY <2>2, <2>6
  <2>8. GetNext(io, r) = [msgs |-> Append(r.msgs, got.msg), at |-> got.at]
    BY <2>0, <2>7 DEF GetNext
  <2>3. GetNext(io, r) = [msgs |-> Append(FramesIn(n, m), FrameAt(m + 1)), at |-> FrameStart[m + 2] - c]
    BY <1>2, <2>7, <2>8
  <2>4. Append(FramesIn(n, m), FrameAt(m + 1)) = FramesIn(n, m + 1)
    <3>1. m \in 0 .. Len(Bodies) /\ m < Len(Bodies)
      BY <1>4, NextTells, FrameBounds
    <3> QED
      BY <3>1, FramesGrow
  <2>5. (m + 1) + 1 = m + 2
    OBVIOUS
  <2> QED
    BY <2>3, <2>4, <2>5 DEF ReadTo
<1>5. ASSUME m = w PROVE GetNext(io, r) = r
  <2>1. GetMessage(io, b - c) = [msg |-> NoMessage, at |-> b - c]
    BY <1>3, <1>5, <1>6 DEF Finds
  <2> QED
    BY <1>2, <2>1 DEF GetNext
<1> QED
  BY <1>3, <1>4, <1>5

LEMMA ReadKnown ==
  ASSUME NEW n \in Nat, NEW a \in Nat, NEW e \in Nat, NEW w \in Nat, Standing(n, a, e, w), NEW c \in Nat, c <= a,
         NEW num \in Nat
  PROVE  ReadTo(ReadFrom(UpFrom(c, e - c), a - c, num), n, Least(n + num, w), c)
<1>1. PICK io : io = UpFrom(c, e - c)
  OBVIOUS
<1>2. PICK f : /\ f[0] = [msgs |-> <<>>, at |-> a - c]
               /\ \A i \in 1 .. num : f[i] = GetNext(io, f[i - 1])
               /\ ReadFrom(io, a - c, num) = f[num]
  <2>1. PICK f : ReadLoop(f, io, a - c, num)
    BY ReadTurns
  <2> QED
    BY <2>1 DEF ReadLoop
<1>3. n <= w
  BY NextTells
<1> DEFINE S == {i \in Nat : i <= num => ReadTo(f[i], n, Least(n + i, w), c)}
<1>4. 0 \in S
  <2>1. FramesIn(n, n) = <<>> /\ a = FrameStart[n + 1]
    BY FramesNone DEF Standing
  <2>2. n = Least(n + 0, w)
    BY <1>3 DEF Least
  <2>3. ReadTo(f[0], n, n, c)
    BY <1>2, <2>1 DEF ReadTo
  <2> QED
    BY <2>2, <2>3
<1>5. ASSUME NEW i \in S PROVE i + 1 \in S
  <2>1. SUFFICES ASSUME i + 1 <= num PROVE ReadTo(f[i + 1], n, Least(n + (i + 1), w), c)
    OBVIOUS
  <2>2. i \in Nat /\ i + 1 \in 1 .. num /\ (i + 1) - 1 = i
    BY <2>1
  <2>3. PICK m \in Nat : m = Least(n + i, w) /\ n <= m /\ m <= w /\ ReadTo(f[i], n, m, c)
    <3>1. Least(n + i, w) \in Nat /\ n <= Least(n + i, w) /\ Least(n + i, w) <= w
      BY <1>3, <2>2 DEF Least
    <3> QED
      BY <2>1, <3>1
  <2>4. f[i + 1] = GetNext(io, f[i])
    BY <1>2, <2>2
  <2>5. CASE m < w
    <3>1. ReadTo(f[i + 1], n, m + 1, c)
      BY <1>1, <2>3, <2>4, <2>5, GetNextKnown
    <3>2. m + 1 = Least(n + (i + 1), w)
      BY <1>3, <2>2, <2>3, <2>5 DEF Least
    <3> QED
      BY <3>1, <3>2
  <2>6. CASE m = w
    <3>1. f[i + 1] = f[i]
      BY <1>1, <2>3, <2>4, <2>6, GetNextKnown
    <3>2. m = Least(n + (i + 1), w)
      BY <1>3, <2>2, <2>3, <2>6 DEF Least
    <3> QED
      BY <2>3, <3>1, <3>2
  <2>7. m < w \/ m = w
    BY <2>3
  <2> QED
    BY <2>5, <2>6, <2>7
<1>6. S = Nat
  <2> HIDE DEF S
  <2>1. S \in SUBSET Nat BY DEF S
  <2> QED BY <1>4, <1>5, <2>1, Inductive
<1>7. num \in S
  <2> HIDE DEF S
  <2> QED
    BY <1>6
<1> QED
  BY <1>1, <1>2, <1>7

\* The Python buffer between two calls, when it holds the bytes from a to e.
PyHolds(b, a, e) == \E c \in Nat : c <= a /\ b = [io |-> UpFrom(c, e - c), start |-> a - c]

LEMMA CompactedHolds ==
  ASSUME NEW b, NEW a \in Nat, NEW e \in Nat, a <= e, PyHolds(b, a, e)
  PROVE  PyHolds(Compacted(b), a, e)
<1>1. PICK c \in Nat : c <= a /\ b = [io |-> UpFrom(c, e - c), start |-> a - c]
  BY DEF PyHolds
<1>2. PICK d \in Nat, m \in Nat : d = a - c /\ m = e - c /\ a = c + d /\ d <= m /\ e - a = m - d
  <2>1. a - c \in Nat /\ e - c \in Nat /\ a = c + (a - c) /\ a - c <= e - c /\ e - a = (e - c) - (a - c)
    BY <1>1
  <2> QED
    BY <2>1
<1>3. Rest(UpFrom(c, m), d) = UpFrom(a, e - a)
  BY <1>2, RunRest
<1>4. a <= a /\ a - a = 0
  OBVIOUS
<1>5. PyHolds([io |-> Rest(b.io, b.start), start |-> 0], a, e)
  BY <1>1, <1>2, <1>3, <1>4 DEF PyHolds
<1> QED
  BY <1>5 DEF Compacted

LEMMA PyReadKnown ==
  ASSUME NEW n \in Nat, NEW a \in Nat, NEW e \in Nat, NEW w \in Nat, Standing(n, a, e, w),
         NEW b, PyHolds(b, a, e), NEW num \in Nat, NEW m \in Nat, m = Least(n + num, w)
  PROVE  PyRead(b, num).msgs = FramesIn(n, m) /\ PyHolds(PyRead(b, num).b, FrameStart[m + 1], e)
<1>0. a <= e /\ n <= m /\ m <= w
  BY NextTells DEF Least
<1>1. PICK c \in Nat : c <= a /\ Compacted(b) = [io |-> UpFrom(c, e - c), start |-> a - c]
  <2>1. PyHolds(Compacted(b), a, e)
    BY <1>0, CompactedHolds
  <2> QED
    BY <2>1 DEF PyHolds
<1>2. ReadTo(ReadFrom(UpFrom(c, e - c), a - c, num), n, m, c)
  BY <1>1, ReadKnown
<1>3. PICK r : r = ReadFrom(UpFrom(c, e - c), a - c, num)
  OBVIOUS
<1>4. r.msgs = FramesIn(n, m) /\ r.at = FrameStart[m + 1] - c
  BY <1>2, <1>3 DEF ReadTo
<1>5. PyRead(b, num) = [msgs |-> r.msgs, b |-> [io |-> UpFrom(c, e - c), start |-> r.at]]
  BY <1>1, <1>3 DEF PyRead
<1>6. c <= FrameStart[m + 1]
  <2>1. PICK x \in Nat : x = FrameStart[m + 1] /\ a <= x
    BY <1>0, StandingOn
  <2> QED
    BY <1>1, <2>1
<1> QED
  BY <1>4, <1>5, <1>6 DEF PyHolds

LEMMA PyValueKnown ==
  ASSUME NEW b, NEW a \in Nat, NEW e \in Nat, a <= e, PyHolds(b, a, e)
  PROVE  PyValue(b) = UpFrom(a, e - a)
<1>1. PICK c \in Nat : c <= a /\ b = [io |-> UpFrom(c, e - c), start |-> a - c]
  BY DEF PyHolds
<1>2. PICK d \in Nat, m \in Nat : d = a - c /\ m = e - c /\ a = c + d /\ d <= m /\ e - a = m - d
  <2>1. a - c \in Nat /\ e - c \in Nat /\ a = c + (a - c) /\ a - c <= e - c /\ e - a = (e - c) - (a - c)
    BY <1>1
  <2> QED
    BY <2>1
<1>3. Rest(UpFrom(c, m), d) = UpFrom(a, e - a)
  BY <1>2, RunRest
<1> QED
  BY <1>1, <1>2, <1>3 DEF PyValue

LEMMA PyTells ==
  ASSUME NEW n \in Nat, NEW a \in Nat, NEW e \in Nat, NEW w \in Nat, Standing(n, a, e, w),
         NEW b, PyHolds(b, a, e)
  PROVE  PyHas(b) = (n < w) /\ PyLength(b) = w - n
<1>1. PICK c \in Nat : c <= a /\ b = [io |-> UpFrom(c, e - c), start |-> a - c]
  BY DEF PyHolds
<1>2. n <= w /\ w <= Len(Bodies)
  BY NextTells
<1>5. Finds(n, a, e, w, c)
  BY <1>1, GetKnown
<1>3. PyHas(b) = (n < w)
  <2>1. CASE n < w
    <3>1. GetMessage(UpFrom(c, e - c), a - c) = [msg |-> FrameAt(n + 1), at |-> FrameStart[n + 2] - c]
      BY <1>5, <2>1 DEF Finds
    <3>2. FrameAt(n + 1) # NoMessage
      BY FrameIsMessage
    <3> QED
      BY <1>1, <2>1, <3>1, <3>2 DEF PyHas
  <2>2. CASE n = w
    <3>1. GetMessage(UpFrom(c, e - c), a - c) = [msg |-> NoMessage, at |-> a - c]
      BY <1>5, <2>2 DEF Finds
    <3> QED
      BY <1>1, <2>2, <3>1 DEF PyHas
  <2>3. n < w \/ n = w
    BY <1>2
  <2> QED
    BY <2>1, <2>2, <2>3
<1>4. PyLength(b) = w - n
  <2>1. PICK k \in Nat : k = Len(Bodies) /\ w <= k
    BY <1>2, FrameBounds
  <2>2. Least(n + k, w) = w
    BY <1>2, <2>1 DEF Least
  <2>3. ReadTo(ReadFrom(UpFrom(c, e - c), a - c, k), n, w, c)
    BY <1>1, <2>2, ReadKnown
  <2>4. Len(FramesIn(n, w)) = w - n
    <3>1. w \in 0 .. Len(Bodies)
      BY <2>1
    <3> QED
      BY <1>2, <3>1, FramesKnown
  <2> QED
    BY <1>1, <2>1, <2>3, <2>4 DEF PyLength, ReadTo
<1> QED
  BY <1>3, <1>4

-----------------------------------------------------------------------------
(* buffer.c: the pieces, of which piece i is the bytes from c[i - 1] to c[i]. *)
InPieces(l, c, m, e) ==
  /\ m \in Nat /\ c \in [0 .. m -> Nat] /\ c[m] = e
  /\ l \in Seq(Seq(Nat)) /\ Len(l) = m
  /\ \A i \in 1 .. m : c[i - 1] < c[i] /\ l[i] = UpFrom(c[i - 1], c[i] - c[i - 1])
\* The m pieces of p hold the bytes from its place a to e.
Pieced(m, p, a, e) ==
  \E c, l : /\ InPieces(l, c, m, e) /\ p = [list |-> l, offset |-> a - c[0]] /\ c[0] <= a
            /\ m = 0 => c[0] = a
            /\ m > 0 => a < c[1]

LEMMA FlatKnown ==
  ASSUME NEW l, NEW c, NEW m, NEW e \in Nat, InPieces(l, c, m, e)
  PROVE  c[0] \in Nat /\ c[0] <= e /\ FlattenSeq(l) = UpFrom(c[0], e - c[0])
<1>0. /\ m \in Nat /\ c \in [0 .. m -> Nat] /\ c[m] = e /\ l \in Seq(Seq(Nat)) /\ Len(l) = m
      /\ \A i \in 1 .. m : c[i - 1] < c[i] /\ l[i] = UpFrom(c[i - 1], c[i] - c[i - 1])
  BY DEF InPieces
<1>1. CASE m = 0
  <2>1. l = <<>>
    BY <1>0, <1>1, NoElements
  <2>2. FlattenSeq(l) = <<>>
    <3>1. Len(l) = 0
      BY <1>0, <1>1
    <3> QED
      BY <2>1, <3>1 DEF FlattenSeq
  <2>3. c[0] = e /\ e - e = 0
    BY <1>0, <1>1
  <2> QED
    BY <2>2, <2>3, RunNothing
<1>2. CASE m # 0
  <2>1. PICK f : Joins(f, l) /\ FlattenSeq(l) = f[m]
    <3>1. Len(l) # 0
      BY <1>0, <1>2
    <3> QED
      BY <1>0, <3>1, Flattened
  <2>2. PICK x \in Nat : x = c[0]
    <3>1. 0 \in 0 .. m
      BY <1>0
    <3> QED
      BY <1>0, <3>1
  <2> DEFINE S == {k \in Nat : k + 1 <= m => x <= c[k + 1] /\ f[k + 1] = UpFrom(x, c[k + 1] - x)}
  <2>3. 0 \in S
    <3>1. 1 \in 1 .. m /\ 0 + 1 = 1 /\ 1 - 1 = 0 /\ 1 \in 0 .. m
      BY <1>0, <1>2
    <3>2. f[1] = l[1]
      BY <1>0, <2>1, <3>1 DEF Joins
    <3>3. c[0] < c[1] /\ l[1] = UpFrom(c[0], c[1] - c[0]) /\ c[1] \in Nat
      BY <1>0, <3>1
    <3> QED
      BY <2>2, <3>1, <3>2, <3>3
  <2>4. ASSUME NEW k \in S PROVE k + 1 \in S
    <3>1. SUFFICES ASSUME k + 2 <= m PROVE x <= c[k + 2] /\ f[k + 2] = UpFrom(x, c[k + 2] - x)
      <4>1. (k + 1) + 1 = k + 2
        OBVIOUS
      <4> QED
        BY <3>1, <4>1
    <3>2. k + 2 \in 1 .. m /\ (k + 2) - 1 = k + 1 /\ k + 1 \in 0 .. m /\ k + 2 \in 0 .. m /\ k + 1 <= m /\ k + 2 # 1
      BY <1>0, <3>1
    <3>3. PICK y \in Nat, z \in Nat : y = c[k + 1] /\ z = c[k + 2] /\ x <= y
      BY <1>0, <3>2
    <3>4. y < z /\ l[k + 2] = UpFrom(y, z - y)
      BY <1>0, <3>2, <3>3
    <3>5. f[k + 2] = f[k + 1] \o l[k + 2]
      BY <1>0, <2>1, <3>2 DEF Joins
    <3>6. f[k + 1] = UpFrom(x, y - x)
      BY <3>2, <3>3
    <3>8. UpFrom(x, y - x) \o UpFrom(y, z - y) = UpFrom(x, z - x)
      <4>1. x \in Nat /\ y \in Nat /\ z \in Nat /\ x <= y /\ y <= z
        BY <2>2, <3>3, <3>4
      <4> QED
        BY <4>1, RunsMeet
    <3>9. f[k + 2] = UpFrom(x, z - x)
      BY <3>3, <3>4, <3>5, <3>6, <3>8
    <3>10. x <= z
      BY <2>2, <3>3, <3>4
    <3> QED
      BY <3>3, <3>9, <3>10
  <2>5. S = Nat
    <3> HIDE DEF S
    <3>1. S \in SUBSET Nat BY DEF S
    <3> QED BY <2>3, <2>4, <3>1, Inductive
  <2>6. m - 1 \in S
    <3>1. m - 1 \in Nat
      BY <1>0, <1>2
    <3> HIDE DEF S
    <3> QED
      BY <2>5, <3>1
  <2>7. (m - 1) + 1 = m
    BY <1>0
  <2> QED
    BY <1>0, <2>1, <2>2, <2>6, <2>7
<1> QED
  BY <1>1, <1>2

\* What p_getvalue returns.
LEMMA FlatFromKnown ==
  ASSUME NEW m, NEW p, NEW a \in Nat, NEW e \in Nat, Pieced(m, p, a, e)
  PROVE  a <= e /\ FlatFrom(p) = UpFrom(a, e - a)
<1>1. PICK c, l : /\ InPieces(l, c, m, e) /\ p = [list |-> l, offset |-> a - c[0]] /\ c[0] <= a
                  /\ m = 0 => c[0] = a
                  /\ m > 0 => a < c[1]
  BY DEF Pieced
<1>2. PICK x \in Nat : x = c[0] /\ x <= e /\ FlattenSeq(l) = UpFrom(x, e - x)
  BY <1>1, FlatKnown
<1>3. a <= e
  <2>1. m \in Nat /\ c \in [0 .. m -> Nat] /\ c[m] = e
    BY <1>1 DEF InPieces
  <2>2. CASE m = 0
    BY <1>1, <2>1, <2>2
  <2>3. CASE m # 0
    <3>1. PICK y \in Nat : y = c[1] /\ a < y
      <4>1. 1 \in 0 .. m /\ m > 0
        BY <2>1, <2>3
      <4> QED
        BY <1>1, <2>1, <4>1
    <3>2. y <= e
      <4> DEFINE S == {k \in Nat : k + 1 <= m => y <= c[k + 1]}
      <4>1. 0 \in S
        BY <3>1
      <4>2. ASSUME NEW k \in S PROVE k + 1 \in S
        <5>1. SUFFICES ASSUME k + 2 <= m PROVE y <= c[k + 2]
          <6>1. (k + 1) + 1 = k + 2
            OBVIOUS
          <6> QED
            BY <5>1, <6>1
        <5>2. k + 2 \in 1 .. m /\ (k + 2) - 1 = k + 1 /\ k + 1 \in 0 .. m /\ k + 2 \in 0 .. m /\ k + 1 <= m
          BY <2>1, <5>1
        <5>3. PICK u \in Nat, v \in Nat : u = c[k + 1] /\ v = c[k + 2]
          BY <2>1, <5>2
        <5>4. u < v
          BY <1>1, <5>2, <5>3 DEF InPieces
        <5> QED
          BY <5>2, <5>3, <5>4
      <4>3. S = Nat
        <5> HIDE DEF S
        <5>1. S \in SUBSET Nat BY DEF S
        <5> QED BY <4>1, <4>2, <5>1, Inductive
      <4>4. m - 1 \in S
        <5>1. m - 1 \in Nat
          BY <2>1, <2>3
        <5> HIDE DEF S
        <5> QED
          BY <4>3, <5>1
      <4>5. (m - 1) + 1 = m
        BY <2>1
      <4> QED
        BY <2>1, <4>4, <4>5
    <3> QED
      BY <3>1, <3>2
  <2> QED
    BY <2>2, <2>3
<1>4. PICK d \in Nat, k \in Nat : d = a - x /\ k = e - x /\ d <= k /\ a = x + d /\ k - d = e - a
  <2>1. a - x \in Nat /\ e - x \in Nat /\ a - x <= e - x /\ a = x + (a - x) /\ (e - x) - (a - x) = e - a
    BY <1>1, <1>2, <1>3
  <2> QED
    BY <2>1
<1>5. Rest(UpFrom(x, k), d) = UpFrom(a, e - a)
  BY <1>4, RunRest
<1> QED
  BY <1>1, <1>2, <1>3, <1>4, <1>5 DEF FlatFrom

\* One turn of p_seek.
SeekTurned(m, p, a, e, k, i, q, j) ==
  /\ SeekPiece([p |-> p, n |-> k]) = [p |-> q, n |-> j]
  /\ j <= k /\ Pieced(i, q, a + (k - j), e)
  /\ j = 0 \/ i + 1 = m
LEMMA SeekTurn ==
  ASSUME NEW m, NEW p, NEW a \in Nat, NEW e \in Nat, Pieced(m, p, a, e), NEW k \in Nat, a + k <= e, k # 0
  PROVE  m \in Nat /\ \E i \in Nat, j \in Nat : \E q : SeekTurned(m, p, a, e, k, i, q, j)
<1>1. PICK c, l : /\ InPieces(l, c, m, e) /\ p = [list |-> l, offset |-> a - c[0]] /\ c[0] <= a
                  /\ m = 0 => c[0] = a
                  /\ m > 0 => a < c[1]
  BY DEF Pieced
<1>2. /\ m \in Nat /\ c \in [0 .. m -> Nat] /\ c[m] = e /\ l \in Seq(Seq(Nat)) /\ Len(l) = m
      /\ \A i \in 1 .. m : c[i - 1] < c[i] /\ l[i] = UpFrom(c[i - 1], c[i] - c[i - 1])
  BY <1>1 DEF InPieces
<1>3. m # 0
  <2>1. SUFFICES ASSUME m = 0 PROVE FALSE
    OBVIOUS
  <2>2. a = e
    BY <1>1, <1>2, <2>1
  <2> QED
    BY <2>2
<1>4. 0 \in 0 .. m /\ 1 \in 0 .. m /\ 1 \in 1 .. m /\ m > 0 /\ 1 - 1 = 0
  BY <1>2, <1>3
<1>5. PICK x \in Nat, y \in Nat : x = c[0] /\ y = c[1] /\ x <= a /\ a < y /\ l[1] = UpFrom(x, y - x)
  BY <1>1, <1>2, <1>4
<1>6. l # <<>> /\ Head(l) = l[1] /\ Len(l[1]) = y - x
  <2>1. y - x \in Nat
    BY <1>5
  <2>2. Len(UpFrom(x, y - x)) = y - x
    BY <2>1, RunKnown
  <2>3. l # <<>>
    BY <1>2, <1>3
  <2>4. Head(l) = l[1]
    BY <1>2, <2>3
  <2> QED
    BY <1>5, <2>2, <2>3, <2>4
<1>7. PICK left \in Nat : left = y - a /\ (y - x) - (a - x) = left
  <2>1. y - a \in Nat /\ (y - x) - (a - x) = y - a
    BY <1>5
  <2> QED
    BY <2>1
<1>8. Len(Head(p.list)) - p.offset = left /\ p.list = l /\ p.offset = a - x
  BY <1>1, <1>5, <1>6, <1>7
<1>9. CASE k < left
  <2>1. SeekPiece([p |-> p, n |-> k]) = [p |-> [p EXCEPT !.offset = @ + k], n |-> 0]
    BY <1>6, <1>8, <1>9 DEF SeekPiece
  <2>2. [p EXCEPT !.offset = @ + k] = [list |-> l, offset |-> (a + k) - x]
    <3>1. (a - x) + k = (a + k) - x
      BY <1>5
    <3> QED
      BY <1>1, <1>5, <3>1
  <2>3. Pieced(m, [list |-> l, offset |-> (a + k) - x], a + k, e)
    <3>1. x <= a + k /\ a + k < y
      BY <1>5, <1>7, <1>9
    <3> QED
      BY <1>1, <1>3, <1>5, <3>1 DEF Pieced
  <2>4. a + (k - 0) = a + k /\ 0 <= k /\ 0 \in Nat
    OBVIOUS
  <2>5. SeekTurned(m, p, a, e, k, m, [list |-> l, offset |-> (a + k) - x], 0)
    BY <2>1, <2>2, <2>3, <2>4 DEF SeekTurned
  <2> QED
    BY <1>2, <2>4, <2>5
<1>10. CASE ~(k < left)
  <2>1. SeekPiece([p |-> p, n |-> k]) = [p |-> [list |-> Tail(l), offset |-> 0], n |-> k - left]
    BY <1>6, <1>8, <1>10 DEF SeekPiece
  <2>2. PICK i \in Nat, j \in Nat : i = m - 1 /\ j = k - left /\ j <= k /\ a + (k - j) = y /\ i + 1 = m
    <3>1. m - 1 \in Nat /\ (m - 1) + 1 = m
      BY <1>2, <1>3
    <3>2. a + left = y
      BY <1>5, <1>7
    <3>3. k - left \in Nat /\ k - left <= k /\ k - (k - left) = left
      BY <1>7, <1>10
    <3> QED
      BY <3>1, <3>2, <3>3
  <2>3. PICK d : d = [h \in 0 .. i |-> c[h + 1]]
    OBVIOUS
  <2>4. d \in [0 .. i -> Nat] /\ d[i] = e /\ d[0] = y
    <3>1. \A h \in 0 .. i : h + 1 \in 0 .. m
      BY <2>2
    <3>2. i \in 0 .. i /\ 0 \in 0 .. i /\ 0 + 1 = 1
      BY <2>2
    <3>3. \A h \in 0 .. i : c[h + 1] \in Nat
      BY <1>2, <3>1
    <3> QED
      BY <1>2, <1>5, <2>2, <2>3, <3>2, <3>3
  <2>5. PICK t \in Seq(Seq(Nat)) : t = Tail(l) /\ Len(t) = i /\ \A h \in 1 .. i : t[h] = l[h + 1]
    <3>1. Tail(l) \in Seq(Seq(Nat)) /\ Len(Tail(l)) = Len(l) - 1
      BY <1>2, <1>6
    <3>2. \A h \in 1 .. (Len(l) - 1) : Tail(l)[h] = l[h + 1]
      BY <1>2, <1>6
    <3> QED
      BY <1>2, <2>2, <3>1, <3>2
  <2>6. ASSUME NEW h \in 1 .. i PROVE d[h - 1] < d[h] /\ t[h] = UpFrom(d[h - 1], d[h] - d[h - 1])
    <3>1. h - 1 \in 0 .. i /\ h \in 0 .. i /\ (h - 1) + 1 = h /\ h + 1 \in 1 .. m /\ (h + 1) - 1 = h
      BY <2>2
    <3>2. d[h - 1] = c[h] /\ d[h] = c[h + 1]
      BY <2>3, <3>1
    <3>3. c[h] < c[h + 1] /\ l[h + 1] = UpFrom(c[h], c[h + 1] - c[h])
      BY <1>2, <3>1
    <3> QED
      BY <2>5, <3>2, <3>3
  <2>7. InPieces(t, d, i, e)
    BY <2>2, <2>4, <2>5, <2>6 DEF InPieces
  <2>8. Pieced(i, [list |-> t, offset |-> 0], y, e)
    <3>1. y - y = 0 /\ y <= y
      BY <1>5
    <3>2. i > 0 => y < d[1]
      <4>1. SUFFICES ASSUME i > 0 PROVE y < d[1]
        OBVIOUS
      <4>2. 1 \in 1 .. i /\ 1 - 1 = 0
        BY <4>1
      <4> QED
        BY <2>4, <2>6, <4>2
    <3>3. [list |-> t, offset |-> 0] = [list |-> t, offset |-> y - d[0]] /\ d[0] <= y
      BY <2>4, <3>1
    <3> QED
      BY <2>4, <2>7, <3>2, <3>3 DEF Pieced
  <2>9. SeekTurned(m, p, a, e, k, i, [list |-> t, offset |-> 0], j)
    BY <2>1, <2>2, <2>5, <2>8 DEF SeekTurned
  <2> QED
    BY <1>2, <2>2, <2>9
<1> QED
  BY <1>9, <1>10

\* The place is never behind the last byte of its piece.
LEMMA FirstPiece ==
  ASSUME NEW m, NEW p, NEW a \in Nat, NEW e \in Nat, Pieced(m, p, a, e)
  PROVE  /\ p.list \in Seq(Seq(Nat)) /\ Len(p.list) = m /\ m \in Nat
         /\ m = 0 => a = e /\ p.list = <<>>
         /\ m # 0 => p.offset # Len(Head(p.list))
<1>1. PICK c, l : /\ InPieces(l, c, m, e) /\ p = [list |-> l, offset |-> a - c[0]] /\ c[0] <= a
                  /\ m = 0 => c[0] = a
                  /\ m > 0 => a < c[1]
  BY DEF Pieced
<1>2. /\ m \in Nat /\ c \in [0 .. m -> Nat] /\ c[m] = e /\ l \in Seq(Seq(Nat)) /\ Len(l) = m
      /\ \A i \in 1 .. m : c[i - 1] < c[i] /\ l[i] = UpFrom(c[i - 1], c[i] - c[i - 1])
  BY <1>1 DEF InPieces
<1>3. p.list = l
  BY <1>1
<1>4. ASSUME m = 0 PROVE a = e /\ l = <<>>
  <2>1. l = <<>>
    BY <1>2, <1>4, NoElements
  <2> QED
    BY <1>1, <1>2, <1>4, <2>1
<1>5. ASSUME m # 0 PROVE p.offset # Len(Head(l))
  <2>1. 0 \in 0 .. m /\ 1 \in 0 .. m /\ 1 \in 1 .. m /\ m > 0 /\ 1 - 1 = 0
    BY <1>2, <1>5
  <2>2. PICK x \in Nat, y \in Nat : x = c[0] /\ y = c[1] /\ x <= a /\ a < y /\ l[1] = UpFrom(x, y - x)
    BY <1>1, <1>2, <2>1
  <2>3. y - x \in Nat
    BY <2>2
  <2>4. Len(UpFrom(x, y - x)) = y - x
    BY <2>3, RunKnown
  <2>5. l # <<>>
    BY <1>2, <1>5
  <2>6. Head(l) = l[1]
    BY <1>2, <2>5
  <2>7. a - x # y - x
    BY <2>2
  <2>8. p.offset = a - x
    BY <1>1, <2>2
  <2> QED
    BY <2>2, <2>4, <2>6, <2>7, <2>8
<1> QED
  BY <1>2, <1>3, <1>4, <1>5

Seeking(f, p, n, k) ==
  /\ f[0] = [p |-> p, n |-> n]
  /\ \A i \in 1 .. k : f[i] = SeekPiece(f[i - 1])
  /\ SeekTo(p, n) = f[k].p
LEMMA SeekTurns ==
  ASSUME NEW p, NEW n, NEW k \in Nat, k = Len(p.list)
  PROVE  \E f : Seeking(f, p, n, k)
<1> DEFINE x == [p |-> p, n |-> n]
           P(f) == f = [i \in 0 .. k |-> IF i = 0 THEN x ELSE SeekPiece(f[i - 1])]
<1>1. \E f : P(f)
  <2> HIDE DEF x
  <2>1. PICK f : Loops(f, "seek", 0, x, k)
    BY LoopsExist
  <2>2. P(f)
    BY <2>1 DEF Loops, OneTurn
  <2> QED
    BY <2>2
<1>2. PICK f : f = CHOOSE g : P(g)
  OBVIOUS
<1>3. P(f)
  <2> HIDE DEF P
  <2> QED
    BY <1>1, <1>2
<1>4. SeekTo(p, n) = f[k].p
  BY <1>2 DEF SeekTo
<1>5. f[0] = x /\ \A i \in 1 .. k : f[i] = SeekPiece(f[i - 1])
  <2> HIDE DEF x
  <2>1. 0 \in 0 .. k /\ \A i \in 1 .. k : i \in 0 .. k /\ i # 0
    OBVIOUS
  <2> QED
    BY <1>3, <2>1
<1> QED
  BY <1>4, <1>5 DEF Seeking

\* Of n bytes to pass, j are left, and h pieces.
Sought(t, a, e, n, h, j, q) == t = [p |-> q, n |-> j] /\ j <= n /\ Pieced(h, q, a + (n - j), e)
SoughtAt(t, i, a, e, n, m) ==
  \E h \in Nat, j \in Nat : \E q : Sought(t, a, e, n, h, j, q) /\ (j = 0 \/ h + i <= m)

\* p_seek passes n bytes.
LEMMA SeekKnown ==
  ASSUME NEW m, NEW p, NEW a \in Nat, NEW e \in Nat, Pieced(m, p, a, e), NEW n \in Nat, a + n <= e
  PROVE  \E i \in Nat : Pieced(i, SeekPlace(p, n), a + n, e)
<1>1. /\ p.list \in Seq(Seq(Nat)) /\ Len(p.list) = m /\ m \in Nat
      /\ m = 0 => a = e /\ p.list = <<>>
      /\ m # 0 => p.offset # Len(Head(p.list))
  BY FirstPiece
<1>2. SeekPlace(p, n) = SeekTo(p, n)
  BY <1>1 DEF SeekPlace
<1>3. PICK f : /\ f[0] = [p |-> p, n |-> n]
               /\ \A i \in 1 .. m : f[i] = SeekPiece(f[i - 1])
               /\ SeekTo(p, n) = f[m].p
  <2>1. PICK f : Seeking(f, p, n, m)
    BY <1>1, SeekTurns
  <2> QED
    BY <2>1 DEF Seeking
<1> DEFINE S == {i \in Nat : i <= m => SoughtAt(f[i], i, a, e, n, m)}
<1>4. 0 \in S
  <2>1. a + (n - n) = a /\ n <= n /\ m + 0 <= m
    BY <1>1
  <2>2. Sought(f[0], a, e, n, m, n, p)
    BY <1>3, <2>1 DEF Sought
  <2>3. SoughtAt(f[0], 0, a, e, n, m)
    BY <1>1, <2>1, <2>2 DEF SoughtAt
  <2> QED
    BY <2>3
<1>5. ASSUME NEW i \in S PROVE i + 1 \in S
  <2>1. SUFFICES ASSUME i + 1 <= m PROVE SoughtAt(f[i + 1], i + 1, a, e, n, m)
    OBVIOUS
  <2>2. i \in Nat /\ i + 1 \in 1 .. m /\ (i + 1) - 1 = i /\ i <= m
    BY <1>1, <2>1
  <2>3. PICK h \in Nat, j \in Nat : \E q : Sought(f[i], a, e, n, h, j, q) /\ (j = 0 \/ h + i <= m)
    <3>1. SoughtAt(f[i], i, a, e, n, m)
      BY <2>2
    <3> QED
      BY <3>1 DEF SoughtAt
  <2>4. PICK q : Sought(f[i], a, e, n, h, j, q) /\ (j = 0 \/ h + i <= m)
    BY <2>3
  <2>5. f[i + 1] = SeekPiece(f[i])
    BY <1>3, <2>2
  <2>6. f[i] = [p |-> q, n |-> j] /\ j <= n /\ Pieced(h, q, a + (n - j), e)
    BY <2>4 DEF Sought
  <2>7. CASE j = 0
    <3>1. SeekPiece([p |-> q, n |-> 0]) = [p |-> q, n |-> 0]
      BY DEF SeekPiece
    <3>2. Sought(f[i + 1], a, e, n, h, j, q)
      BY <2>5, <2>6, <2>7, <3>1 DEF Sought
    <3> QED
      BY <2>7, <3>2 DEF SoughtAt
  <2>8. CASE j # 0
    <3>1. PICK b \in Nat : b = a + (n - j) /\ b + j <= e
      <4>1. a + (n - j) \in Nat /\ a + (n - j) + j <= e
        BY <2>6
      <4> QED
        BY <4>1
    <3>2. h \in Nat /\ \E g \in Nat, d \in Nat : \E r : SeekTurned(h, q, b, e, j, g, r, d)
      <4>1. Pieced(h, q, b, e) /\ b + j <= e /\ j # 0
        BY <2>6, <2>8, <3>1
      <4> QED
        BY <4>1, SeekTurn
    <3>3. PICK g \in Nat, d \in Nat : \E r : SeekTurned(h, q, b, e, j, g, r, d)
      BY <3>2
    <3>4. PICK r : SeekTurned(h, q, b, e, j, g, r, d)
      BY <3>3
    <3>5. /\ SeekPiece([p |-> q, n |-> j]) = [p |-> r, n |-> d]
          /\ d <= j /\ Pieced(g, r, b + (j - d), e)
          /\ d = 0 \/ g + 1 = h
      BY <3>4 DEF SeekTurned
    <3>6. b + (j - d) = a + (n - d) /\ d <= n
      BY <2>6, <3>1, <3>5
    <3>7. Sought(f[i + 1], a, e, n, g, d, r)
      BY <2>5, <2>6, <3>5, <3>6 DEF Sought
    <3>8. d = 0 \/ g + (i + 1) <= m
      <4>1. h + i <= m
        BY <2>4, <2>8
      <4> QED
        BY <1>1, <2>2, <3>5, <4>1
    <3> QED
      BY <3>7, <3>8 DEF SoughtAt
  <2> QED
    BY <2>7, <2>8
<1>6. S = Nat
  <2> HIDE DEF S
  <2>1. S \in SUBSET Nat BY DEF S
  <2> QED BY <1>4, <1>5, <2>1, Inductive
<1>7. m \in S
  <2> HIDE DEF S
  <2> QED
    BY <1>1, <1>6
<1>8. PICK h \in Nat, j \in Nat : \E q : Sought(f[m], a, e, n, h, j, q) /\ (j = 0 \/ h + m <= m)
  <2>1. m <= m
    BY <1>1
  <2>2. SoughtAt(f[m], m, a, e, n, m)
    BY <1>7, <2>1
  <2> QED
    BY <2>2 DEF SoughtAt
<1>9. PICK q : Sought(f[m], a, e, n, h, j, q) /\ (j = 0 \/ h + m <= m)
  BY <1>8
<1>10. f[m] = [p |-> q, n |-> j] /\ j <= n /\ Pieced(h, q, a + (n - j), e)
  BY <1>9 DEF Sought
<1>11. j = 0
  <2>1. SUFFICES ASSUME j # 0 PROVE FALSE
    OBVIOUS
  <2>2. h = 0
    BY <1>1, <1>9, <2>1
  <2>3. PICK b \in Nat : b = a + (n - j)
    <3>1. a + (n - j) \in Nat
      BY <1>10
    <3> QED
      BY <3>1
  <2>4. b = e
    <3>1. Pieced(h, q, b, e)
      BY <1>10, <2>3
    <3> QED
      BY <2>2, <3>1, FirstPiece
  <2>5. j <= n
    BY <1>10
  <2>6. a + (n - j) = e
    BY <2>3, <2>4
  <2>7. a + (n - j) < a + n
    BY <2>1, <2>5
  <2> QED
    BY <2>6, <2>7
<1>12. n - 0 = n /\ f[m].p = q
  BY <1>10
<1>13. Pieced(h, q, a + n, e)
  BY <1>10, <1>11, <1>12
<1> QED
  BY <1>2, <1>3, <1>12, <1>13

\* The m pieces are not told apart any more.
CHolds(p, a, e) == \E m \in Nat : Pieced(m, p, a, e)

LEMMA CHoldsKnown ==
  ASSUME NEW p, NEW a \in Nat, NEW e \in Nat, CHolds(p, a, e)
  PROVE  a <= e /\ FlatFrom(p) = UpFrom(a, e - a)
BY FlatFromKnown DEF CHolds

LEMMA CSeeks ==
  ASSUME NEW p, NEW a \in Nat, NEW e \in Nat, CHolds(p, a, e), NEW n \in Nat, NEW b, b = a + n, b <= e
  PROVE  CHolds(SeekPlace(p, n), b, e)
<1>1. PICK m \in Nat : Pieced(m, p, a, e)
  BY DEF CHolds
<1>2. \E i \in Nat : Pieced(i, SeekPlace(p, n), a + n, e)
  BY <1>1, SeekKnown
<1> QED
  BY <1>2 DEF CHolds

LEMMA CCopies ==
  ASSUME NEW p, NEW a \in Nat, NEW e \in Nat, CHolds(p, a, e), NEW n \in Nat
  PROVE  /\ n <= e - a => MemCpy(p, n) = UpFrom(a, n) /\ AtLeast(p, n)
         /\ e - a < n => MemCpy(p, n) = UpFrom(a, e - a) /\ ~AtLeast(p, n)
<1>1. PICK k \in Nat : k = e - a
  BY CHoldsKnown
<1>2. FlatFrom(p) = UpFrom(a, k)
  BY <1>1, CHoldsKnown
<1>3. Cut(UpFrom(a, k), n) = UpFrom(a, Least(n, k))
  BY RunCut
<1>4. Len(UpFrom(a, k)) = k
  BY RunKnown
<1>5. (n <= k => AtLeast(p, n)) /\ (k < n => ~AtLeast(p, n))
  BY <1>2, <1>4 DEF AtLeast
<1>6. MemCpy(p, n) = UpFrom(a, Least(n, k))
  BY <1>2, <1>3 DEF MemCpy
<1>7. (n <= k => Least(n, k) = n) /\ (k < n => Least(n, k) = k)
  BY DEF Least
<1> QED
  BY <1>1, <1>5, <1>6, <1>7

\* What is behind the place, when the next message is whole and when it is not.
CWhole(p, n, a, e, size) ==
  /\ MemCpy(p, Header) = UpFrom(a, 5) /\ BodySize(UpFrom(a, 5)) = size
  /\ AtLeast(SeekPlace(p, Header), size) /\ MemCpy(SeekPlace(p, Header), size) = UpFrom(a + 5, size)
  /\ CHolds(SeekPlace(SeekPlace(p, Header), size), FrameStart[n + 2], e)
  /\ FrameAt(n + 1) = FrameOf(UpFrom(a, 5), UpFrom(a + 5, size))
CShort(p) ==
  LET size == BodySize(MemCpy(p, Header)) IN size < 0 \/ ~AtLeast(SeekPlace(p, Header), size)

LEMMA CFindsWhole ==
  ASSUME NEW n \in Nat, NEW a \in Nat, NEW e \in Nat, NEW w \in Nat, Standing(n, a, e, w), n < w,
         NEW p, CHolds(p, a, e)
  PROVE  \E size \in Nat : CWhole(p, n, a, e, size)
<1>1. PICK size \in Nat :
        /\ BodySize(UpFrom(a, 5)) = size /\ a + 5 + size <= e /\ FrameStart[n + 2] = a + 5 + size
        /\ FrameAt(n + 1) = FrameOf(UpFrom(a, 5), UpFrom(a + 5, size))
  BY NextTells DEF NextWhole
<1>2. PICK b \in Nat, d \in Nat, five \in Nat :
        five = 5 /\ b = a + 5 /\ d = a + 5 + size /\ b = a + five /\ d = b + size /\ b <= e /\ d <= e /\ five <= e - a /\ size <= e - b
  <2>1. /\ 5 \in Nat /\ a + 5 \in Nat /\ a + 5 + size \in Nat /\ a + 5 <= e /\ 5 <= e - a
        /\ size <= e - (a + 5) /\ a + 5 + size = (a + 5) + size
    BY <1>1
  <2> QED
    BY <1>1, <2>1
<1>3. CHolds(SeekPlace(p, five), b, e)
  BY <1>2, CSeeks
<1>4. CHolds(SeekPlace(SeekPlace(p, five), size), d, e)
  BY <1>2, <1>3, CSeeks
<1>8. five <= e - a
  BY <1>2
<1>5. MemCpy(p, five) = UpFrom(a, five) /\ AtLeast(p, five)
  BY <1>8, CCopies
<1>6. AtLeast(SeekPlace(p, five), size) /\ MemCpy(SeekPlace(p, five), size) = UpFrom(b, size)
  BY <1>2, <1>3, CCopies
<1>7. CWhole(p, n, a, e, size)
  BY <1>1, <1>2, <1>4, <1>5, <1>6 DEF CWhole, Header
<1> QED
  BY <1>7

LEMMA CFindsShort ==
  ASSUME NEW n \in Nat, NEW a \in Nat, NEW e \in Nat, NEW w \in Nat, Standing(n, a, e, w), n = w,
         NEW p, CHolds(p, a, e)
  PROVE  CShort(p)
<1>1. PICK five \in Nat : five = 5
  OBVIOUS
<1>2. CASE e - a < 5
  <2>1. PICK k \in Nat : k = e - a /\ k < 5
    <3>1. a <= e
      BY CHoldsKnown
    <3> QED
      BY <1>2, <3>1
  <2>2. MemCpy(p, five) = UpFrom(a, k)
    BY <1>1, <2>1, CCopies
  <2>3. BodySize(UpFrom(a, k)) = -1
    BY <2>1, SizeUnknown
  <2>4. BodySize(MemCpy(p, Header)) < 0
    BY <1>1, <2>2, <2>3 DEF Header
  <2> QED
    BY <2>4 DEF CShort
<1>3. CASE \E size \in Nat : BodySize(UpFrom(a, 5)) = size /\ a + 5 <= e /\ e < a + 5 + size
  <2>1. PICK size \in Nat : BodySize(UpFrom(a, 5)) = size /\ a + 5 <= e /\ e < a + 5 + size
    BY <1>3
  <2>2. PICK b \in Nat : b = a + 5 /\ b = a + five /\ b <= e /\ e - b < size /\ five <= e - a
    <3>1. a + 5 \in Nat /\ e - (a + 5) < size /\ 5 <= e - a
      BY <2>1
    <3> QED
      BY <1>1, <2>1, <3>1
  <2>3. CHolds(SeekPlace(p, five), b, e)
    BY <2>2, CSeeks
  <2>6. five <= e - a
    BY <2>2
  <2>4. MemCpy(p, five) = UpFrom(a, five) /\ AtLeast(p, five)
    BY <2>6, CCopies
  <2>5. ~AtLeast(SeekPlace(p, five), size)
    BY <2>2, <2>3, CCopies
  <2> QED
    BY <1>1, <2>1, <2>4, <2>5 DEF CShort, Header
<1> QED
  BY <1>2, <1>3, NextTells DEF NextCut

\* buffer.c tells whether there is a message.
LEMMA CHasKnown ==
  ASSUME NEW n \in Nat, NEW a \in Nat, NEW e \in Nat, NEW w \in Nat, Standing(n, a, e, w),
         NEW p, CHolds(p, a, e)
  PROVE  CHas(p) = (n < w)
<1>1. CASE n < w
  <2>1. PICK size \in Nat : CWhole(p, n, a, e, size)
    BY <1>1, CFindsWhole
  <2>2. BodySize(MemCpy(p, Header)) = size /\ AtLeast(SeekPlace(p, Header), size) /\ size >= 0
    BY <2>1 DEF CWhole
  <2> QED
    BY <1>1, <2>2 DEF CHas
<1>2. CASE n = w
  <2>1. CShort(p)
    BY <1>2, CFindsShort
  <2>2. PICK size : size = BodySize(MemCpy(p, Header))
    OBVIOUS
  <2>3. size \in Int
    BY <2>2, SizeNumber
  <2>4. ~(size >= 0 /\ AtLeast(SeekPlace(p, Header), size))
    BY <2>1, <2>2, <2>3 DEF CShort
  <2> QED
    BY <1>2, <2>2, <2>4 DEF CHas
<1>3. n < w \/ n = w
  BY NextTells
<1> QED
  BY <1>1, <1>2, <1>3

\* p_build_tuple and the turns of the two loops around it.
LEMMA BuildIs ==
  ASSUME NEW p, NEW head, head = MemCpy(p, Header), NEW size, size = BodySize(head), NEW q, q = SeekPlace(p, Header)
  PROVE  BuildTuple(p) = IF Len(head) < Header \/ size < 0 \/ ~AtLeast(q, size)
                         THEN [msg |-> NoMessage, p |-> p]
                         ELSE [msg |-> FrameOf(head, MemCpy(q, size)), p |-> SeekPlace(q, size)]
BY DEF BuildTuple

LEMMA CountIs ==
  ASSUME NEW t, NEW size, size = BodySize(MemCpy(t.p, Header)), NEW q, q = SeekPlace(t.p, Header)
  PROVE  CountNext(t) = IF size < 0 \/ ~AtLeast(q, size) THEN t ELSE [n |-> t.n + 1, p |-> SeekPlace(q, size)]
BY DEF CountNext

BuildTo(t, n, m, e) == \E q : t = [msgs |-> FramesIn(n, m), p |-> q] /\ CHolds(q, FrameStart[m + 1], e)
CountTo(t, n, m, e) == \E q : t = [n |-> m - n, p |-> q] /\ CHolds(q, FrameStart[m + 1], e)

LEMMA BuildNextKnown ==
  ASSUME NEW n \in Nat, NEW a \in Nat, NEW e \in Nat, NEW w \in Nat, Standing(n, a, e, w),
         NEW m \in Nat, n <= m, m <= w, NEW t, BuildTo(t, n, m, e)
  PROVE  /\ m < w => BuildTo(BuildNext(t), n, m + 1, e)
         /\ m = w => BuildNext(t) = t
<1>1. PICK b \in Nat : b = FrameStart[m + 1] /\ a <= b /\ Standing(m, b, e, w)
  BY StandingOn
<1>2. PICK p : t = [msgs |-> FramesIn(n, m), p |-> p] /\ CHolds(p, b, e)
  BY <1>1 DEF BuildTo
<1>3. t.p = p /\ t.msgs = FramesIn(n, m)
  BY <1>2
<1>4. PICK got : got = BuildTuple(p)
  OBVIOUS
<1>5. PICK head, size, q : head = MemCpy(p, Header) /\ size = BodySize(head) /\ q = SeekPlace(p, Header)
  OBVIOUS
<1>6. ASSUME m < w PROVE BuildTo(BuildNext(t), n, m + 1, e)
  <2>1. PICK body \in Nat : CWhole(p, m, b, e, body)
    BY <1>1, <1>2, <1>6, CFindsWhole
  <2>2. /\ head = UpFrom(b, 5) /\ size = body /\ AtLeast(q, body) /\ MemCpy(q, body) = UpFrom(b + 5, body)
        /\ CHolds(SeekPlace(q, body), FrameStart[m + 2], e)
        /\ FrameAt(m + 1) = FrameOf(UpFrom(b, 5), UpFrom(b + 5, body))
    BY <1>5, <2>1 DEF CWhole
  <2>3. ~(Len(head) < Header) /\ ~(size < 0) /\ AtLeast(q, size)
    <3>1. PICK five \in Nat : five = 5
      OBVIOUS
    <3>2. Len(UpFrom(b, five)) = five
      BY RunKnown
    <3>3. Len(head) = 5
      BY <2>2, <3>1, <3>2
    <3>4. ~(size < 0)
      BY <2>2
    <3>5. ~(Len(head) < Header)
      BY <3>3 DEF Header
    <3>6. AtLeast(q, size)
      BY <2>2
    <3> QED
      BY <3>4, <3>5, <3>6
  <2>4. got = [msg |-> FrameOf(head, MemCpy(q, size)), p |-> SeekPlace(q, size)]
    BY <1>4, <1>5, <2>3, BuildIs
  <2>5. got.msg = FrameAt(m + 1) /\ got.p = SeekPlace(q, body) /\ FrameAt(m + 1) # NoMessage
    <3>1. FrameAt(m + 1) # NoMessage
      BY FrameIsMessage
    <3> QED
      BY <2>2, <2>4, <3>1
  <2>6. BuildNext(t) = [msgs |-> Append(t.msgs, got.msg), p |-> got.p]
    BY <1>3, <1>4, <2>5 DEF BuildNext
  <2>7. Append(FramesIn(n, m), FrameAt(m + 1)) = FramesIn(n, m + 1)
    <3>1. m \in 0 .. Len(Bodies) /\ m < Len(Bodies)
      BY <1>6, NextTells, FrameBounds
    <3> QED
      BY <3>1, FramesGrow
  <2>8. BuildNext(t) = [msgs |-> FramesIn(n, m + 1), p |-> SeekPlace(q, body)]
    BY <1>3, <2>5, <2>6, <2>7
  <2>9. (m + 1) + 1 = m + 2
    OBVIOUS
  <2> QED
    BY <2>2, <2>8, <2>9 DEF BuildTo
<1>7. ASSUME m = w PROVE BuildNext(t) = t
  <2>1. CShort(p)
    BY <1>1, <1>2, <1>7, CFindsShort
  <2>2. size < 0 \/ ~AtLeast(q, size)
    BY <1>5, <2>1 DEF CShort
  <2>3. got = [msg |-> NoMessage, p |-> p]
    BY <1>4, <1>5, <2>2, BuildIs
  <2>4. got.msg = NoMessage
    BY <2>3
  <2> QED
    BY <1>3, <1>4, <2>4 DEF BuildNext
<1> QED
  BY <1>6, <1>7

LEMMA CountNextKnown ==
  ASSUME NEW n \in Nat, NEW a \in Nat, NEW e \in Nat, NEW w \in Nat, Standing(n, a, e, w),
         NEW m \in Nat, n <= m, m <= w, NEW t, CountTo(t, n, m, e)
  PROVE  /\ m < w => CountTo(CountNext(t), n, m + 1, e)
         /\ m = w => CountNext(t) = t
<1>1. PICK b \in Nat : b = FrameStart[m + 1] /\ a <= b /\ Standing(m, b, e, w)
  BY StandingOn
<1>2. PICK p : t = [n |-> m - n, p |-> p] /\ CHolds(p, b, e)
  BY <1>1 DEF CountTo
<1>3. t.p = p /\ t.n = m - n
  BY <1>2
<1>4. PICK size, q : size = BodySize(MemCpy(p, Header)) /\ q = SeekPlace(p, Header)
  OBVIOUS
<1>5. ASSUME m < w PROVE CountTo(CountNext(t), n, m + 1, e)
  <2>1. PICK body \in Nat : CWhole(p, m, b, e, body)
    BY <1>1, <1>2, <1>5, CFindsWhole
  <2>2. size = body /\ AtLeast(q, body) /\ CHolds(SeekPlace(q, body), FrameStart[m + 2], e)
    BY <1>4, <2>1 DEF CWhole
  <2>3. ~(size < 0)
    BY <2>2
  <2>4. CountNext(t) = [n |-> t.n + 1, p |-> SeekPlace(q, size)]
    BY <1>3, <1>4, <2>2, <2>3, CountIs
  <2>5. (m + 1) + 1 = m + 2 /\ (m - n) + 1 = (m + 1) - n
    OBVIOUS
  <2>6. CountNext(t) = [n |-> (m + 1) - n, p |-> SeekPlace(q, body)]
    BY <1>3, <2>2, <2>4, <2>5
  <2> QED
    BY <2>2, <2>5, <2>6 DEF CountTo
<1>6. ASSUME m = w PROVE CountNext(t) = t
  <2>1. CShort(p)
    BY <1>1, <1>2, <1>6, CFindsShort
  <2>2. size < 0 \/ ~AtLeast(q, size)
    BY <1>4, <2>1 DEF CShort
  <2> QED
    BY <1>3, <1>4, <2>2, CountIs
<1> QED
  BY <1>5, <1>6

Building(f, p, k) ==
  /\ f[0] = [msgs |-> <<>>, p |-> p]
  /\ \A i \in 1 .. k : f[i] = BuildNext(f[i - 1])
  /\ Build(p, k) = f[k]
LEMMA BuildTurns ==
  ASSUME NEW p, NEW k \in Nat
  PROVE  \E f : Building(f, p, k)
<1> DEFINE x == [msgs |-> <<>>, p |-> p]
           P(f) == f = [i \in 0 .. k |-> IF i = 0 THEN x ELSE BuildNext(f[i - 1])]
<1>1. \E f : P(f)
  <2> HIDE DEF x
  <2>1. PICK f : Loops(f, "build", 0, x, k)
    BY LoopsExist
  <2>2. P(f)
    BY <2>1 DEF Loops, OneTurn
  <2> QED
    BY <2>2
<1>2. PICK f : f = CHOOSE g : P(g)
  OBVIOUS
<1>3. P(f)
  <2> HIDE DEF P
  <2> QED
    BY <1>1, <1>2
<1>4. Build(p, k) = f[k]
  BY <1>2 DEF Build
<1>5. f[0] = x /\ \A i \in 1 .. k : f[i] = BuildNext(f[i - 1])
  <2> HIDE DEF x
  <2>1. 0 \in 0 .. k /\ \A i \in 1 .. k : i \in 0 .. k /\ i # 0
    OBVIOUS
  <2> QED
    BY <1>3, <2>1
<1> QED
  BY <1>4, <1>5 DEF Building

Counting(f, p, k) ==
  /\ f[0] = [n |-> 0, p |-> p]
  /\ \A i \in 1 .. k : f[i] = CountNext(f[i - 1])
  /\ CLength(p) = f[k].n
LEMMA CountTurns ==
  ASSUME NEW p, NEW k \in Nat, k = Len(Bodies)
  PROVE  \E f : Counting(f, p, k)
<1> DEFINE x == [n |-> 0, p |-> p]
           P(f) == f = [i \in 0 .. k |-> IF i = 0 THEN x ELSE CountNext(f[i - 1])]
<1>1. \E f : P(f)
  <2> HIDE DEF x
  <2>1. PICK f : Loops(f, "count", 0, x, k)
    BY LoopsExist
  <2>2. P(f)
    BY <2>1 DEF Loops, OneTurn
  <2> QED
    BY <2>2
<1>2. PICK f : f = CHOOSE g : P(g)
  OBVIOUS
<1>3. P(f)
  <2> HIDE DEF P
  <2> QED
    BY <1>1, <1>2
<1>4. CLength(p) = f[k].n
  BY <1>2 DEF CLength
<1>5. f[0] = x /\ \A i \in 1 .. k : f[i] = CountNext(f[i - 1])
  <2> HIDE DEF x
  <2>1. 0 \in 0 .. k /\ \A i \in 1 .. k : i \in 0 .. k /\ i # 0
    OBVIOUS
  <2> QED
    BY <1>3, <2>1
<1> QED
  BY <1>4, <1>5 DEF Counting

LEMMA BuildKnown ==
  ASSUME NEW n \in Nat, NEW a \in Nat, NEW e \in Nat, NEW w \in Nat, Standing(n, a, e, w),
         NEW p, CHolds(p, a, e), NEW num \in Nat
  PROVE  BuildTo(Build(p, num), n, Least(n + num, w), e)
<1>2. PICK f : /\ f[0] = [msgs |-> <<>>, p |-> p]
               /\ \A i \in 1 .. num : f[i] = BuildNext(f[i - 1])
               /\ Build(p, num) = f[num]
  <2>1. PICK f : Building(f, p, num)
    BY BuildTurns
  <2> QED
    BY <2>1 DEF Building
<1>3. n <= w
  BY NextTells
<1> DEFINE S == {i \in Nat : i <= num => BuildTo(f[i], n, Least(n + i, w), e)}
<1>4. 0 \in S
  <2>1. FramesIn(n, n) = <<>> /\ a = FrameStart[n + 1]
    BY FramesNone DEF Standing
  <2>2. n = Least(n + 0, w)
    BY <1>3 DEF Least
  <2>3. BuildTo(f[0], n, n, e)
    BY <1>2, <2>1 DEF BuildTo
  <2> QED
    BY <2>2, <2>3
<1>5. ASSUME NEW i \in S PROVE i + 1 \in S
  <2>1. SUFFICES ASSUME i + 1 <= num PROVE BuildTo(f[i + 1], n, Least(n + (i + 1), w), e)
    OBVIOUS
  <2>2. i \in Nat /\ i + 1 \in 1 .. num /\ (i + 1) - 1 = i
    BY <2>1
  <2>3. PICK m \in Nat : m = Least(n + i, w) /\ n <= m /\ m <= w /\ BuildTo(f[i], n, m, e)
    <3>1. Least(n + i, w) \in Nat /\ n <= Least(n + i, w) /\ Least(n + i, w) <= w
      BY <1>3, <2>2 DEF Least
    <3> QED
      BY <2>1, <3>1
  <2>4. f[i + 1] = BuildNext(f[i])
    BY <1>2, <2>2
  <2>5. CASE m < w
    <3>1. BuildTo(f[i + 1], n, m + 1, e)
      BY <2>3, <2>4, <2>5, BuildNextKnown
    <3>2. m + 1 = Least(n + (i + 1), w)
      BY <1>3, <2>2, <2>3, <2>5 DEF Least
    <3> QED
      BY <3>1, <3>2
  <2>6. CASE m = w
    <3>1. f[i + 1] = f[i]
      BY <2>3, <2>4, <2>6, BuildNextKnown
    <3>2. m = Least(n + (i + 1), w)
      BY <1>3, <2>2, <2>3, <2>6 DEF Least
    <3> QED
      BY <2>3, <3>1, <3>2
  <2>7. m < w \/ m = w
    BY <2>3
  <2> QED
    BY <2>5, <2>6, <2>7
<1>6. S = Nat
  <2> HIDE DEF S
  <2>1. S \in SUBSET Nat BY DEF S
  <2> QED BY <1>4, <1>5, <2>1, Inductive
<1>7. num \in S
  <2> HIDE DEF S
  <2> QED
    BY <1>6
<1> QED
  BY <1>2, <1>7

LEMMA CLengthKnown ==
  ASSUME NEW n \in Nat, NEW a \in Nat, NEW e \in Nat, NEW w \in Nat, Standing(n, a, e, w),
         NEW p, CHolds(p, a, e)
  PROVE  CLength(p) = w - n
<1>1. PICK k \in Nat : k = Len(Bodies)
  BY FrameBounds
<1>2. PICK f : /\ f[0] = [n |-> 0, p |-> p]
               /\ \A i \in 1 .. k : f[i] = CountNext(f[i - 1])
               /\ CLength(p) = f[k].n
  <2>1. PICK f : Counting(f, p, k)
    BY <1>1, CountTurns
  <2> QED
    BY <2>1 DEF Counting
<1>3. n <= w /\ w <= k
  BY <1>1, NextTells
<1> DEFINE S == {i \in Nat : i <= k => CountTo(f[i], n, Least(n + i, w), e)}
<1>4. 0 \in S
  <2>1. n - n = 0 /\ a = FrameStart[n + 1]
    BY DEF Standing
  <2>2. n = Least(n + 0, w)
    BY <1>3 DEF Least
  <2>3. CountTo(f[0], n, n, e)
    BY <1>2, <2>1 DEF CountTo
  <2> QED
    BY <2>2, <2>3
<1>5. ASSUME NEW i \in S PROVE i + 1 \in S
  <2>1. SUFFICES ASSUME i + 1 <= k PROVE CountTo(f[i + 1], n, Least(n + (i + 1), w), e)
    OBVIOUS
  <2>2. i \in Nat /\ i + 1 \in 1 .. k /\ (i + 1) - 1 = i
    BY <2>1
  <2>3. PICK m \in Nat : m = Least(n + i, w) /\ n <= m /\ m <= w /\ CountTo(f[i], n, m, e)
    <3>1. Least(n + i, w) \in Nat /\ n <= Least(n + i, w) /\ Least(n + i, w) <= w
      BY <1>3, <2>2 DEF Least
    <3> QED
      BY <2>1, <3>1
  <2>4. f[i + 1] = CountNext(f[i])
    BY <1>2, <2>2
  <2>5. CASE m < w
    <3>1. CountTo(f[i + 1], n, m + 1, e)
      BY <2>3, <2>4, <2>5, CountNextKnown
    <3>2. m + 1 = Least(n + (i + 1), w)
      BY <1>3, <2>2, <2>3, <2>5 DEF Least
    <3> QED
      BY <3>1, <3>2
  <2>6. CASE m = w
    <3>1. f[i + 1] = f[i]
      BY <2>3, <2>4, <2>6, CountNextKnown
    <3>2. m = Least(n + (i + 1), w)
      BY <1>3, <2>2, <2>3, <2>6 DEF Least
    <3> QED
      BY <2>3, <3>1, <3>2
  <2>7. m < w \/ m = w
    BY <2>3
  <2> QED
    BY <2>5, <2>6, <2>7
<1>6. S = Nat
  <2> HIDE DEF S
  <2>1. S \in SUBSET Nat BY DEF S
  <2> QED BY <1>4, <1>5, <2>1, Inductive
<1>7. k \in S
  <2> HIDE DEF S
  <2> QED
    BY <1>6
<1>8. Least(n + k, w) = w
  BY <1>3 DEF Least
<1>9. CountTo(f[k], n, w, e)
  BY <1>7, <1>8
<1> QED
  BY <1>2, <1>9 DEF CountTo

\* A read of the list of pieces.
LEMMA CReadKnown ==
  ASSUME NEW n \in Nat, NEW a \in Nat, NEW e \in Nat, NEW w \in Nat, Standing(n, a, e, w),
         NEW p, CHolds(p, a, e), NEW num \in Nat, NEW m \in Nat, m = Least(n + num, w)
  PROVE  CRead(p, num).msgs = FramesIn(n, m) /\ CHolds(CRead(p, num).p, FrameStart[m + 1], e)
<1>1. n <= w
  BY NextTells
<1>2. PICK k \in Nat : k = Least(num, CLength(p)) /\ Least(n + k, w) = m
  <2>1. CLength(p) = w - n
    BY CLengthKnown
  <2>2. Least(num, w - n) \in Nat /\ Least(n + Least(num, w - n), w) = Least(n + num, w)
    BY <1>1 DEF Least
  <2> QED
    BY <2>1, <2>2
<1>3. BuildTo(Build(p, k), n, m, e)
  BY <1>2, BuildKnown
<1>4. CRead(p, num) = Build(p, k)
  BY <1>2 DEF CRead
<1>5. PICK q : Build(p, k) = [msgs |-> FramesIn(n, m), p |-> q] /\ CHolds(q, FrameStart[m + 1], e)
  BY <1>3 DEF BuildTo
<1> QED
  BY <1>4, <1>5

-----------------------------------------------------------------------------
(* Both buffers between two calls: n messages were returned, and what is    *)
(* held begins with message n + 1, whether in one string or in pieces.       *)
FramesInv ==
  \E n \in 0 .. Len(Bodies) :
    /\ wIn \in Nat /\ wIn <= StreamSize /\ FrameStart[n + 1] <= wIn
    /\ PyHolds(wPy, FrameStart[n + 1], wIn) /\ CHolds(wC, FrameStart[n + 1], wIn)
    /\ wOut = [py |-> FramesIn(0, n), c |-> FramesIn(0, n)]

\* The same with the start of message n + 1 and the number of whole messages.
Between(n, a, w) ==
  /\ Standing(n, a, wIn, w) /\ PyHolds(wPy, a, wIn) /\ CHolds(wC, a, wIn)
  /\ wOut = [py |-> FramesIn(0, n), c |-> FramesIn(0, n)]
LEMMA FramesStand ==
  ASSUME FramesInv
  PROVE  /\ wIn \in Nat
         /\ \E n \in Nat, a \in Nat, w \in Nat : n \in 0 .. Len(Bodies) /\ Between(n, a, w)
<1>1. PICK n \in 0 .. Len(Bodies) :
        /\ wIn \in Nat /\ wIn <= StreamSize /\ FrameStart[n + 1] <= wIn
        /\ PyHolds(wPy, FrameStart[n + 1], wIn) /\ CHolds(wC, FrameStart[n + 1], wIn)
        /\ wOut = [py |-> FramesIn(0, n), c |-> FramesIn(0, n)]
  BY DEF FramesInv
<1>2. PICK k \in Nat : k = Len(Bodies)
  BY FrameBounds
<1>3. PICK a \in Nat : a = FrameStart[n + 1]
  <2>1. n + 1 \in 1 .. (Len(Bodies) + 1)
    BY <1>2
  <2> QED
    BY <2>1, FrameStartGrows
<1>4. PICK w \in 0 .. Len(Bodies) : Whole(w, wIn)
  BY <1>1, WholeExists
<1>5. n \in Nat /\ w \in Nat
  BY <1>2
<1>6. Standing(n, a, wIn, w)
  BY <1>1, <1>3, <1>4 DEF Standing
<1>7. Between(n, a, w)
  BY <1>1, <1>3, <1>6 DEF Between
<1> QED
  BY <1>1, <1>3, <1>5, <1>7

LEMMA EmptyHolds ==
  ASSUME NEW e \in Nat
  PROVE  CHolds([list |-> <<>>, offset |-> 0], e, e)
<1>1. PICK c : c = [i \in 0 .. 0 |-> e]
  OBVIOUS
<1>2. 0 \in 0 .. 0 /\ c[0] = e /\ c \in [0 .. 0 -> Nat]
  BY <1>1
<1>3. <<>> \in Seq(Seq(Nat)) /\ Len(<<>>) = 0
  OBVIOUS
<1>4. InPieces(<<>>, c, 0, e)
  BY <1>2, <1>3 DEF InPieces
<1>5. e - e = 0
  OBVIOUS
<1>6. Pieced(0, [list |-> <<>>, offset |-> 0], e, e)
  BY <1>2, <1>4, <1>5 DEF Pieced
<1> QED
  BY <1>6 DEF CHolds

LEMMA OneHolds ==
  ASSUME NEW a \in Nat, NEW e \in Nat, a < e
  PROVE  CHolds([list |-> <<UpFrom(a, e - a)>>, offset |-> 0], a, e)
<1>1. PICK c : c = [i \in 0 .. 1 |-> IF i = 0 THEN a ELSE e]
  OBVIOUS
<1>2. c[0] = a /\ c[1] = e /\ c \in [0 .. 1 -> Nat]
  BY <1>1
<1>3. PICK s \in Seq(Nat) : s = UpFrom(a, e - a)
  <2>1. e - a \in Nat
    OBVIOUS
  <2> QED
    BY <2>1, RunKnown
<1>4. <<s>> \in Seq(Seq(Nat)) /\ Len(<<s>>) = 1 /\ <<s>>[1] = s
  OBVIOUS
<1>5. ASSUME NEW i \in 1 .. 1 PROVE c[i - 1] < c[i] /\ <<s>>[i] = UpFrom(c[i - 1], c[i] - c[i - 1])
  <2>1. i = 1 /\ i - 1 = 0
    OBVIOUS
  <2> QED
    BY <1>2, <1>3, <1>4, <2>1
<1>6. InPieces(<<s>>, c, 1, e)
  BY <1>2, <1>4, <1>5 DEF InPieces
<1>7. a - a = 0 /\ a <= a
  OBVIOUS
<1>8. Pieced(1, [list |-> <<s>>, offset |-> 0], a, e)
  BY <1>2, <1>6, <1>7 DEF Pieced
<1> QED
  BY <1>3, <1>8 DEF CHolds

\* A piece is added behind.
LEMMA PieceAdded ==
  ASSUME NEW p, NEW a \in Nat, NEW e \in Nat, CHolds(p, a, e), NEW k \in Nat \ {0}
  PROVE  CHolds([p EXCEPT !.list = Append(@, UpFrom(e, k))], a, e + k)
<1>0. PICK m : Pieced(m, p, a, e)
  BY DEF CHolds
<1>1. PICK c, l : /\ InPieces(l, c, m, e) /\ p = [list |-> l, offset |-> a - c[0]] /\ c[0] <= a
                  /\ m = 0 => c[0] = a
                  /\ m > 0 => a < c[1]
  BY <1>0 DEF Pieced
<1>2. /\ m \in Nat /\ c \in [0 .. m -> Nat] /\ c[m] = e /\ l \in Seq(Seq(Nat)) /\ Len(l) = m
      /\ \A i \in 1 .. m : c[i - 1] < c[i] /\ l[i] = UpFrom(c[i - 1], c[i] - c[i - 1])
  BY <1>1 DEF InPieces
<1>3. PICK h \in Nat, f \in Nat : h = m + 1 /\ f = e + k /\ e < f /\ f - e = k
  <2>1. m + 1 \in Nat /\ e + k \in Nat /\ e < e + k /\ (e + k) - e = k
    BY <1>2
  <2> QED
    BY <2>1
<1>4. PICK s \in Seq(Nat) : s = UpFrom(e, k)
  BY RunKnown
<1>5. PICK t \in Seq(Seq(Nat)) : t = Append(l, s) /\ Len(t) = h /\ t[h] = s /\ \A i \in 1 .. m : t[i] = l[i]
  <2>1. PICK t \in Seq(Seq(Nat)) : t = Append(l, s)
    <3>1. Append(l, s) \in Seq(Seq(Nat))
      BY <1>2
    <3> QED
      BY <3>1
  <2>2. Len(t) = Len(l) + 1 /\ t[Len(l) + 1] = s
    BY <1>2, <2>1
  <2>3. \A i \in 1 .. Len(l) : t[i] = l[i]
    BY <1>2, <2>1
  <2> QED
    BY <1>2, <1>3, <2>1, <2>2, <2>3
<1>6. PICK d : d = [i \in 0 .. h |-> IF i = h THEN f ELSE c[i]]
  OBVIOUS
<1>7. d \in [0 .. h -> Nat] /\ d[h] = f /\ \A i \in 0 .. m : d[i] = c[i]
  <2>1. \A i \in 0 .. m : i \in 0 .. h /\ i # h
    BY <1>2, <1>3
  <2>2. \A i \in 0 .. h : i # h => i \in 0 .. m
    BY <1>2, <1>3
  <2>3. \A i \in 0 .. h : (IF i = h THEN f ELSE c[i]) \in Nat
    BY <1>2, <2>2
  <2>4. h \in 0 .. h
    OBVIOUS
  <2> QED
    BY <1>6, <2>1, <2>3, <2>4
<1>8. ASSUME NEW i \in 1 .. h PROVE d[i - 1] < d[i] /\ t[i] = UpFrom(d[i - 1], d[i] - d[i - 1])
  <2>1. CASE i = h
    <3>1. i - 1 = m /\ m \in 0 .. m
      BY <1>2, <1>3, <2>1
    <3>2. d[i - 1] = e /\ d[i] = f /\ t[i] = s
      BY <1>2, <1>5, <1>7, <2>1, <3>1
    <3> QED
      BY <1>3, <1>4, <3>2
  <2>2. CASE i # h
    <3>1. i \in 1 .. m /\ i - 1 \in 0 .. m /\ i \in 0 .. m
      BY <1>2, <1>3, <2>2
    <3>2. d[i - 1] = c[i - 1] /\ d[i] = c[i] /\ t[i] = l[i]
      BY <1>5, <1>7, <3>1
    <3> QED
      BY <1>2, <3>1, <3>2
  <2> QED
    BY <2>1, <2>2
<1>9. InPieces(t, d, h, f)
  BY <1>5, <1>7, <1>8 DEF InPieces
<1>10. d[0] = c[0] /\ (h = 0 => d[0] = a) /\ (h > 0 => a < d[1])
  <2>1. 0 \in 0 .. m
    BY <1>2
  <2>2. CASE m = 0
    <3>1. h = 1 /\ a = e
      BY <1>1, <1>2, <1>3, <2>2
    <3> QED
      BY <1>3, <1>7, <2>1, <3>1
  <2>3. CASE m # 0
    <3>1. 1 \in 0 .. m /\ m > 0 /\ h # 0
      BY <1>2, <1>3, <2>3
    <3> QED
      BY <1>1, <1>7, <2>1, <3>1
  <2> QED
    BY <2>2, <2>3
<1>11. [p EXCEPT !.list = Append(@, s)] = [list |-> t, offset |-> a - d[0]]
  <2>1. PICK x : x = a - c[0]
    OBVIOUS
  <2>2. p = [list |-> l, offset |-> x]
    BY <1>1, <2>1
  <2>3. [p EXCEPT !.list = t] = [list |-> t, offset |-> x]
    BY <2>2
  <2>4. Append(p.list, s) = t
    BY <1>5, <2>2
  <2>5. [p EXCEPT !.list = Append(@, s)] = [p EXCEPT !.list = Append(p.list, s)]
    OBVIOUS
  <2> QED
    BY <1>10, <2>1, <2>3, <2>4, <2>5
<1>12. Pieced(h, [list |-> t, offset |-> a - d[0]], a, f)
  BY <1>1, <1>9, <1>10 DEF Pieced
<1> QED
  BY <1>3, <1>4, <1>11, <1>12 DEF CHolds

LEMMA FramesStart == FramesInit => FramesInv
<1>1. SUFFICES ASSUME FramesInit PROVE FramesInv
  OBVIOUS
<1>2. PICK k \in Nat : k = Len(Bodies)
  BY FrameBounds
<1>3. PICK z \in 0 .. Len(Bodies) : z = 0 /\ z \in Nat
  BY <1>2
<1>4. FrameStart[z + 1] = 0
  <2>1. 1 \in 1 .. (Len(Bodies) + 1) /\ z + 1 = 1
    BY <1>2, <1>3
  <2> QED
    BY <2>1, FrameStartKnown
<1>5. StreamSize \in Nat
  <2>1. Len(Bodies) + 1 \in 1 .. (Len(Bodies) + 1)
    BY <1>2
  <2> QED
    BY <2>1, FrameStartGrows DEF StreamSize
<1>6. wIn = z /\ wPy = [io |-> <<>>, start |-> 0] /\ wC = [list |-> <<>>, offset |-> 0]
      /\ wOut = [py |-> <<>>, c |-> <<>>]
  BY <1>1, <1>3 DEF FramesInit
<1>7. PyHolds(wPy, z, z)
  <2>1. UpFrom(z, 0) = <<>> /\ z - z = 0 /\ z <= z
    BY <1>3, RunNothing
  <2> QED
    BY <1>3, <1>6, <2>1 DEF PyHolds
<1>8. CHolds(wC, z, z)
  BY <1>3, <1>6, EmptyHolds
<1>9. FramesIn(0, z) = <<>>
  <2>1. FramesIn(z, z) = <<>>
    BY FramesNone
  <2> QED
    BY <1>3, <2>1
<1>10. z <= StreamSize /\ FrameStart[z + 1] <= z /\ FrameStart[z + 1] = z
  BY <1>3, <1>4, <1>5
<1> QED
  BY <1>3, <1>6, <1>7, <1>8, <1>9, <1>10 DEF FramesInv

LEMMA FramesReceived == ASSUME FramesInv, Receive PROVE FramesInv'
<1>1. PICK n \in Nat, a \in Nat, w \in Nat : n \in 0 .. Len(Bodies) /\ Between(n, a, w)
  BY FramesStand
<1>2. /\ Standing(n, a, wIn, w) /\ PyHolds(wPy, a, wIn) /\ CHolds(wC, a, wIn)
      /\ wOut = [py |-> FramesIn(0, n), c |-> FramesIn(0, n)]
  BY <1>1 DEF Between
<1>3. PICK k \in Pieces :
        /\ wIn + k <= StreamSize /\ wIn' = wIn + k
        /\ wPy' = [wPy EXCEPT !.io = @ \o UpFrom(wIn, k)]
        /\ wC' = [wC EXCEPT !.list = Append(@, UpFrom(wIn, k))]
  BY DEF Receive, Written
<1>4. wOut' = wOut
  BY DEF Receive
<1>5. PICK e \in Nat : e = wIn /\ a <= e
  BY <1>1, FramesStand, NextTells, <1>2 DEF Standing
<1>6. PICK f \in Nat : f = e + k /\ k \in Nat \ {0} /\ wIn' = f /\ e <= f /\ f <= StreamSize /\ a <= f
  <2>1. k \in Nat \ {0}
    BY FrameBounds
  <2>2. e + k \in Nat /\ e <= e + k /\ a <= e + k
    BY <1>5, <2>1
  <2> QED
    BY <1>3, <1>5, <2>1, <2>2
<1>7. PyHolds(wPy', a, f)
  <2>1. PICK c \in Nat : c <= a /\ wPy = [io |-> UpFrom(c, e - c), start |-> a - c]
    BY <1>2, <1>5 DEF PyHolds
  <2>2. c <= e
    BY <1>5, <2>1
  <2>3. UpFrom(c, e - c) \o UpFrom(e, f - e) = UpFrom(c, f - c)
    BY <1>6, <2>2, RunsMeet
  <2>4. f - e = k
    BY <1>6
  <2>5. wPy' = [io |-> UpFrom(c, e - c) \o UpFrom(e, k), start |-> a - c]
    BY <1>3, <1>5, <2>1
  <2>6. wPy' = [io |-> UpFrom(c, f - c), start |-> a - c]
    BY <2>3, <2>4, <2>5
  <2> QED
    BY <2>1, <2>6 DEF PyHolds
<1>8. CHolds(wC', a, f)
  <2>1. CHolds([wC EXCEPT !.list = Append(@, UpFrom(e, k))], a, e + k)
    BY <1>2, <1>5, <1>6, PieceAdded
  <2> QED
    BY <1>3, <1>5, <1>6, <2>1
<1>9. a = FrameStart[n + 1]
  BY <1>2 DEF Standing
<1> QED
  BY <1>1, <1>2, <1>4, <1>6, <1>7, <1>8, <1>9 DEF FramesInv

LEMMA FramesTaken == ASSUME FramesInv, Take PROVE FramesInv'
<1>1. PICK n \in Nat, a \in Nat, w \in Nat : n \in 0 .. Len(Bodies) /\ Between(n, a, w)
  BY FramesStand
<1>2. /\ Standing(n, a, wIn, w) /\ PyHolds(wPy, a, wIn) /\ CHolds(wC, a, wIn)
      /\ wOut = [py |-> FramesIn(0, n), c |-> FramesIn(0, n)]
  BY <1>1 DEF Between
<1>3. PICK num \in {1, 2, Len(Bodies)} :
        /\ wPy' = PyRead(wPy, num).b /\ wC' = CRead(wC, num).p
        /\ wOut' = [py |-> wOut.py \o PyRead(wPy, num).msgs, c |-> wOut.c \o CRead(wC, num).msgs]
  BY DEF Take
<1>4. wIn' = wIn
  BY DEF Take
<1>5. num \in Nat
  BY FrameBounds
<1>6. PICK e \in Nat : e = wIn
  BY FramesStand
<1>7. n <= w /\ w <= Len(Bodies)
  BY <1>2, <1>6, NextTells
<1>8. PICK m \in Nat : m = Least(n + num, w) /\ n <= m /\ m <= w
  <2>1. Least(n + num, w) \in Nat /\ n <= Least(n + num, w) /\ Least(n + num, w) <= w
    BY <1>5, <1>7 DEF Least
  <2> QED
    BY <2>1
<1>9. PyRead(wPy, num).msgs = FramesIn(n, m) /\ PyHolds(PyRead(wPy, num).b, FrameStart[m + 1], e)
  BY <1>2, <1>5, <1>6, <1>8, PyReadKnown
<1>10. CRead(wC, num).msgs = FramesIn(n, m) /\ CHolds(CRead(wC, num).p, FrameStart[m + 1], e)
  BY <1>2, <1>5, <1>6, <1>8, CReadKnown
<1>11. FrameStart[m + 1] <= e
  BY <1>2, <1>6, <1>8, StandingOn
<1>12. m \in 0 .. Len(Bodies)
  BY <1>7, <1>8, FrameBounds
<1>13. FramesIn(0, n) \o FramesIn(n, m) = FramesIn(0, m)
  BY <1>1, <1>8, <1>12, FramesJoin
<1>14. wOut' = [py |-> FramesIn(0, m), c |-> FramesIn(0, m)]
  BY <1>2, <1>3, <1>9, <1>10, <1>13
<1>15. e <= StreamSize
  BY <1>2, <1>6 DEF Standing
<1> QED
  BY <1>3, <1>4, <1>6, <1>9, <1>10, <1>11, <1>12, <1>14, <1>15 DEF FramesInv

LEMMA FramesHandedOver == ASSUME FramesInv, HandOver PROVE FramesInv'
<1>1. PICK n \in Nat, a \in Nat, w \in Nat : n \in 0 .. Len(Bodies) /\ Between(n, a, w)
  BY FramesStand
<1>2. /\ Standing(n, a, wIn, w) /\ PyHolds(wPy, a, wIn) /\ CHolds(wC, a, wIn)
      /\ wOut = [py |-> FramesIn(0, n), c |-> FramesIn(0, n)]
  BY <1>1 DEF Between
<1>3. /\ wPy' = [io |-> PyValue(wPy), start |-> 0]
      /\ wC' = [list |-> IF CValue(wC) = <<>> THEN <<>> ELSE <<CValue(wC)>>, offset |-> 0]
      /\ wIn' = wIn /\ wOut' = wOut
  BY DEF HandOver
<1>4. PICK e \in Nat : e = wIn /\ a <= e
  <2>1. wIn \in Nat
    BY FramesStand
  <2> QED
    BY <1>2, <2>1 DEF Standing
<1>5. PyValue(wPy) = UpFrom(a, e - a)
  BY <1>2, <1>4, PyValueKnown
<1>6. CValue(wC) = UpFrom(a, e - a)
  BY <1>2, <1>4, CHoldsKnown DEF CValue
<1>7. PyHolds(wPy', a, e)
  <2>1. a - a = 0 /\ a <= a
    OBVIOUS
  <2> QED
    BY <1>3, <1>5, <2>1 DEF PyHolds
<1>8. CHolds(wC', a, e)
  <2>1. CASE a = e
    <3>1. e - a = 0
      BY <2>1
    <3>2. UpFrom(a, e - a) = <<>>
      BY <3>1, RunNothing
    <3>3. wC' = [list |-> <<>>, offset |-> 0]
      BY <1>3, <1>6, <3>2
    <3> QED
      BY <2>1, <3>3, EmptyHolds
  <2>2. CASE a # e
    <3>1. a < e
      BY <1>4, <2>2
    <3>2. PICK k \in Nat : k = e - a /\ k # 0
      BY <3>1
    <3>3. Len(UpFrom(a, k)) = k /\ Len(<<>>) = 0
      BY RunKnown
    <3>4. UpFrom(a, k) # <<>>
      BY <3>2, <3>3
    <3>5. wC' = [list |-> <<UpFrom(a, e - a)>>, offset |-> 0]
      BY <1>3, <1>6, <3>2, <3>4
    <3> QED
      BY <3>1, <3>5, OneHolds
  <2> QED
    BY <2>1, <2>2
<1>9. a = FrameStart[n + 1] /\ e <= StreamSize
  BY <1>2, <1>4 DEF Standing
<1> QED
  BY <1>1, <1>2, <1>3, <1>4, <1>7, <1>8, <1>9 DEF FramesInv

LEMMA FramesAgree == FramesInv => BuffersAgree
<1>1. SUFFICES ASSUME FramesInv PROVE BuffersAgree
  OBVIOUS
<1>2. PICK n \in Nat, a \in Nat, w \in Nat : n \in 0 .. Len(Bodies) /\ Between(n, a, w)
  BY <1>1, FramesStand
<1>3. /\ Standing(n, a, wIn, w) /\ PyHolds(wPy, a, wIn) /\ CHolds(wC, a, wIn)
      /\ wOut = [py |-> FramesIn(0, n), c |-> FramesIn(0, n)]
  BY <1>2 DEF Between
<1>4. PICK e \in Nat : e = wIn /\ a <= e
  <2>1. wIn \in Nat
    BY <1>1, FramesStand
  <2> QED
    BY <1>3, <2>1 DEF Standing
<1>5. PICK s \in Seq(AllFrames) : s = FramesIn(0, n) /\ Len(s) = n /\ \A j \in 1 .. n : s[j] = FrameAt(j)
  BY <1>2, FramesFirst
<1>6. wOut.py = s /\ wOut.c = s
  BY <1>3, <1>5
<1>7. s = [i \in 1 .. n |-> FrameAt(i)]
  <2>1. DOMAIN s = 1 .. n /\ s = [i \in DOMAIN s |-> s[i]]
    BY <1>5
  <2> QED
    BY <1>5, <2>1
<1>8. PyHas(wPy) = CHas(wC)
  <2>1. PyHas(wPy) = (n < w)
    BY <1>3, <1>4, PyTells
  <2>2. CHas(wC) = (n < w)
    BY <1>3, <1>4, CHasKnown
  <2> QED
    BY <2>1, <2>2
<1>9. PyLength(wPy) = CLength(wC)
  <2>1. PyLength(wPy) = w - n
    BY <1>3, <1>4, PyTells
  <2>2. CLength(wC) = w - n
    BY <1>3, <1>4, CLengthKnown
  <2> QED
    BY <2>1, <2>2
<1>10. PyValue(wPy) = UpFrom(a, e - a) /\ CValue(wC) = UpFrom(a, e - a)
  <2>1. PyValue(wPy) = UpFrom(a, e - a)
    BY <1>3, <1>4, PyValueKnown
  <2>2. CValue(wC) = UpFrom(a, e - a)
    BY <1>3, <1>4, CHoldsKnown DEF CValue
  <2> QED
    BY <2>1, <2>2
<1>11. a = FrameStart[n + 1]
  BY <1>3 DEF Standing
<1>12. UpFrom(a, e - a) = UpFrom(FrameStart[n + 1], wIn - FrameStart[n + 1])
  BY <1>4, <1>11
<1>13. s = [i \in 1 .. n |-> FrameOf(UpFrom(FrameStart[i], Header), UpFrom(FrameStart[i] + Header, Bodies[i]))]
  BY <1>7 DEF FrameAt
<1> QED
  BY <1>5, <1>6, <1>8, <1>9, <1>10, <1>12, <1>13 DEF BuffersAgree

\* Both implementations of the buffer, protocol/pbuffer.py and _optimized/buffer.c,
\* return the messages of the stream, each once, whole and in order, however recv()
\* cuts it and however reads and hand-overs alternate; both say alike whether there is
\* a message and how many, and both give back the same rest.
THEOREM FramesTheorem == FramesSpec => []BuffersAgree
<1>1. FramesInit => FramesInv
  BY FramesStart
<1>2. FramesInv /\ [FramesNext]_framesVars => FramesInv'
  <2>1. SUFFICES ASSUME FramesInv, [FramesNext]_framesVars PROVE FramesInv'
    OBVIOUS
  <2>2. CASE Receive
    BY <2>1, <2>2, FramesReceived
  <2>3. CASE Take
    BY <2>1, <2>3, FramesTaken
  <2>4. CASE HandOver
    BY <2>1, <2>4, FramesHandedOver
  <2>5. CASE UNCHANGED framesVars
    BY <2>1, <2>5 DEF framesVars, FramesInv
  <2> QED
    BY <2>1, <2>2, <2>3, <2>4, <2>5 DEF FramesNext
<1>3. FramesInv => BuffersAgree
  BY FramesAgree
<1> QED
  BY <1>1, <1>2, <1>3, PTL DEF FramesSpec

===============================================================================
