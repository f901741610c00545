---------------------------- MODULE PqWireProofs ----------------------------
(***************************************************************************)
(* InStep and NoStandoff of PqWire, for any number of instructions,         *)
(* messages, notices, dropped names and deaths, and any chunks.             *)
(*                                                                          *)
(* The messages in flight lead a running instruction from its position,     *)
(* one entry of the hook table after the other, to the position that the    *)
(* session has reached (Way).  From there, what is on its way to the        *)
(* session and what the instruction still owes it are the rest of the       *)
(* commands, read in the mode the session is in (Served): idle, ignoring    *)
(* up to Sync after an error, or taking the data of a COPY.  An instruction  *)
(* that is over has left nothing behind (Settled).  These three are Sound,  *)
(* and every action keeps them.                                             *)
(***************************************************************************)
EXTENDS PqWire, TLAPS, FiniteSetTheorems, WellFoundedInduction

-----------------------------------------------------------------------------
(* Positions in the hook table, and the order of the commands of an instruction.*)

\* A set of numbers has a least one.
LEMMA Earliest ==
  ASSUME NEW S \in SUBSET Nat, S # {}
  PROVE  \E x \in S : \A y \in S : x <= y
<1>1. PICK x \in S : \A y \in S : <<y, x>> \notin OpToRel(<, Nat)
  BY WFMin, NatLessThanWellFounded, Zenon
<1>2. \A y \in S : ~(y < x)
  <2>1. TAKE y \in S
  <2>2. y \in Nat /\ x \in Nat
    OBVIOUS
  <2>3. <<y, x>> \notin {ss \in Nat \X Nat : ss[1] < ss[2]}
    BY <1>1, Zenon DEF OpToRel
  <2>4. QED
    BY <2>2, <2>3
<1>3. QED
  BY <1>2

\* Induction, from < being well-founded.
LEMMA Inductive ==
  ASSUME NEW S \in SUBSET Nat, 0 \in S, \A n \in S : n + 1 \in S
  PROVE  S = Nat
<1>1. SUFFICES ASSUME Nat \ S # {} PROVE FALSE
  OBVIOUS
<1>2. PICK x \in Nat \ S : \A y \in Nat \ S : x <= y
  BY <1>1, Earliest
<1>3. x # 0 /\ x - 1 \in Nat
  BY <1>2
<1>4. x - 1 \in S
  BY <1>2, <1>3
<1>5. QED BY <1>4, <1>2

\* Commands, and whether one of them ends by itself with Ready.
Commands == DOMAIN Hook \cup {"L"}
Simple(c) == c = "Q"
\* A simple query, or requests of the extended protocol that one Sync ends, with no answered
\* command between an Execute and it.
InOrder(s) ==
  \/ s = <<"Q">>
  \/ /\ s \in Seq({"P", "B", "D", "X", "E", "L", "S"}) /\ s # <<>> /\ s[1] # "L"
     /\ \A i \in 1 .. Len(s) : s[i] = "S" <=> i = Len(s)
     /\ \A i \in 1 .. Len(s), j \in 1 .. Len(s) : i < j /\ s[i] = "E" => s[j] \in {"L", "S"}

\* Positions, those that the hook table has for the commands s, what is expected at one of them, and
\* where an error leads.
Positions == [off : Nat, step : 1 .. 4]
Places(s) == {p \in Positions :
  /\ p.off \in 1 .. Len(s) + 1
  /\ p.off <= Len(s) => s[p.off] \in DOMAIN Hook /\ p.step \in 1 .. Len(Hook[s[p.off]])}
Expected(s, p) == Hook[s[p.off]][p.step]
SyncOf(s, o) == IF Simple(s[o]) THEN o ELSE Len(s)
At(o, step) == [off |-> o, step |-> step]
\* The position of x after m has been taken at p.
Leads(x, p, m, q) ==
  \/ m.k \in {"A", "FATAL"} /\ q = p
  \/ /\ p.off <= Len(x.cmds) /\ m.id = x.id
     /\ \/ /\ m.at = p.off /\ m.k \in DOMAIN Expected(x.cmds, p)
           /\ q = IF Expected(x.cmds, p)[m.k] = 0 THEN At(NextCmd(x.cmds, p.off), 1)
                  ELSE At(p.off, Expected(x.cmds, p)[m.k])
        \/ m.k = "ERROR" /\ q = At(SyncOf(x.cmds, p.off), 1)

\* NextCmd is the next command that has an answer, or the end.
LEMMA NextUp ==
  ASSUME NEW s, NEW n \in Nat, n = Len(s), NEW o \in 0 .. n
  PROVE  /\ NextCmd(s, o) \in (o + 1) .. (n + 1)
         /\ NextCmd(s, o) = n + 1 \/ s[NextCmd(s, o)] # "L"
         /\ \A i \in (o + 1) .. (NextCmd(s, o) - 1) : s[i] = "L"
<1> DEFINE Ok(j) == /\ j = n + 1 \/ s[j] # "L"
                    /\ \A i \in (o + 1) .. (j - 1) : s[i] = "L"
           Is(j) == /\ j = Len(s) + 1 \/ s[j] # "L"
                    /\ \A i \in (o + 1) .. (j - 1) : s[i] = "L"
           S == {j \in (o + 1) .. (n + 1) : j = n + 1 \/ s[j] # "L"}
<1>1. S \in SUBSET Nat /\ n + 1 \in S
  OBVIOUS
<1>2. PICK j \in S : \A y \in S : j <= y
  BY <1>1, Earliest
<1>3. j \in (o + 1) .. (n + 1) /\ Ok(j)
  BY <1>2
<1> HIDE DEF Ok, S
<1>4. \E i \in (o + 1) .. (Len(s) + 1) : Is(i)
  BY <1>3 DEF Ok
<1> HIDE DEF Is
<1>5. NextCmd(s, o) = CHOOSE i \in (o + 1) .. (Len(s) + 1) : Is(i)
  BY DEF NextCmd, Is
<1>6. NextCmd(s, o) \in (o + 1) .. (Len(s) + 1) /\ Is(NextCmd(s, o))
  BY <1>4, <1>5
<1> QED BY <1>6 DEF Is

\* Whatever is the next one with an answer is NextCmd.
LEMMA NextIs ==
  ASSUME NEW s, NEW n \in Nat, n = Len(s), NEW o \in 0 .. n, NEW j \in (o + 1) .. (n + 1),
         j = n + 1 \/ s[j] # "L", \A i \in (o + 1) .. (j - 1) : s[i] = "L"
  PROVE  NextCmd(s, o) = j
<1> DEFINE k == NextCmd(s, o)
<1>1. /\ k \in (o + 1) .. (n + 1)
      /\ k = n + 1 \/ s[k] # "L"
      /\ \A i \in (o + 1) .. (k - 1) : s[i] = "L"
  BY NextUp
<1> HIDE DEF k
<1>2. k < j => FALSE
  BY <1>1
<1>3. j < k => FALSE
  BY <1>1
<1>4. k \in Int /\ j \in Int
  BY <1>1
<1> QED BY <1>2, <1>3, <1>4 DEF k

\* What InOrder says of the commands one by one.
LEMMA OrderFacts ==
  ASSUME NEW s, InOrder(s)
  PROVE  /\ s \in Seq(Commands) /\ Len(s) \in Nat \ {0} /\ s[1] # "L"
         /\ DOMAIN s = 1 .. Len(s)
         /\ \A i \in 1 .. Len(s) : s[i] \in {"Q", "P", "B", "D", "X", "E", "L", "S"}
         /\ s[Len(s)] # "L"
         /\ (\E i \in 1 .. Len(s) : s[i] = "Q") => Len(s) = 1
         /\ \A i \in 1 .. Len(s) : s[i] # "Q" => s[Len(s)] = "S"
         /\ \A i \in 1 .. Len(s) : s[i] = "S" => i = Len(s)
         /\ \A i, j \in 1 .. Len(s) : i < j /\ s[i] = "E" => s[j] \in {"L", "S"}
<1>0. Commands = {"Q", "F", "P", "B", "D", "X", "E", "S", "L"}
  BY DEF Commands, Hook
<1>1. CASE s = <<"Q">>
  BY <1>0, <1>1
<1>2. CASE s # <<"Q">>
  BY <1>0, <1>2 DEF InOrder
<1> QED BY <1>1, <1>2

\* The Sync an error leads to is the last command, and the simple query its own.
LEMMA SyncIs ==
  ASSUME NEW s, InOrder(s), NEW o \in 1 .. Len(s)
  PROVE  /\ s[o] \notin {"Q", "F"} => SyncFrom(s, o) = Len(s)
         /\ SyncOf(s, o) \in 1 .. Len(s) /\ s[SyncOf(s, o)] \in {"Q", "S"}
<1>1. /\ Len(s) \in Nat \ {0}
      /\ \A i \in 1 .. Len(s) : s[i] # "Q" => s[Len(s)] = "S"
      /\ \A i \in 1 .. Len(s) : s[i] = "S" => i = Len(s)
      /\ s[o] # "F"
  BY OrderFacts
<1>2. ASSUME s[o] # "Q" PROVE SyncFrom(s, o) = Len(s)
  <2>1. {j \in o .. Len(s) : s[j] = "S"} = {Len(s)}
    BY <1>1, <1>2
  <2>2. Min({Len(s)}) = Len(s)
    BY <1>1 DEF Min
  <2> QED BY <2>1, <2>2 DEF SyncFrom
<1>3. SyncOf(s, o) \in 1 .. Len(s) /\ s[SyncOf(s, o)] \in {"Q", "S"}
  BY <1>1 DEF SyncOf, Simple
<1> QED BY <1>2, <1>3

\* The rows of the hook table.
LEMMA Rows ==
  ASSUME NEW c \in DOMAIN Hook, NEW i \in 1 .. Len(Hook[c])
  PROVE  /\ "A" \notin DOMAIN Hook[c][i] /\ "FATAL" \notin DOMAIN Hook[c][i]
         /\ "ERROR" \notin DOMAIN Hook[c][i]
         /\ i \in 1 .. 4
         /\ \A k \in DOMAIN Hook[c][i] : Hook[c][i][k] \in 0 .. Len(Hook[c])
<1>0. c \in {"Q", "F", "P", "B", "D", "X", "E", "S"}
  BY DEF Hook
<1>1. CASE c = "Q"
  BY <1>1 DEF Hook
<1>2. CASE c = "E"
  BY <1>2 DEF Hook
<1>3. CASE c = "D"
  BY <1>3 DEF Hook
<1>4. CASE c = "F"
  BY <1>4 DEF Hook
<1>5. CASE c = "P"
  BY <1>5 DEF Hook
<1>6. CASE c = "B"
  BY <1>6 DEF Hook
<1>7. CASE c = "X"
  BY <1>7 DEF Hook
<1>8. CASE c = "S"
  BY <1>8 DEF Hook
<1> QED BY <1>0, <1>1, <1>2, <1>3, <1>4, <1>5, <1>6, <1>7, <1>8

\* Every command has a first row.
LEMMA FirstRow ==
  ASSUME NEW c \in DOMAIN Hook
  PROVE  1 \in 1 .. Len(Hook[c])
<1>0. c \in {"Q", "F", "P", "B", "D", "X", "E", "S"}
  BY DEF Hook
<1>1. Len(Hook["Q"]) = 4 /\ Len(Hook["F"]) = 2
  BY DEF Hook
<1>2. Len(Hook["P"]) = 1 /\ Len(Hook["B"]) = 1
  BY DEF Hook
<1>3. Len(Hook["D"]) = 2 /\ Len(Hook["X"]) = 1
  BY DEF Hook
<1>4. Len(Hook["E"]) = 4 /\ Len(Hook["S"]) = 1
  BY DEF Hook
<1>5. Len(Hook[c]) \in 1 .. 4
  <2>1. CASE c \in {"Q", "E"}
    BY <2>1, <1>1, <1>4
  <2>2. CASE c \in {"F", "D"}
    BY <2>2, <1>1, <1>3
  <2>3. CASE c \in {"P", "B", "X", "S"}
    BY <2>3, <1>2, <1>3, <1>4
  <2> QED BY <1>0, <2>1, <2>2, <2>3
<1> DEFINE n == Len(Hook[c])
<1>6. n \in 1 .. 4
  BY <1>5
<1> HIDE DEF n
<1>7. 1 \in 1 .. n
  BY <1>6
<1> QED BY <1>7 DEF n

\* Every message leads from a place to a place.
LEMMA LeadsTo ==
  ASSUME NEW x, InOrder(x.cmds), NEW p \in Places(x.cmds), NEW m, NEW q, Leads(x, p, m, q)
  PROVE  /\ q \in Places(x.cmds)
         /\ p.off <= Len(x.cmds) => q.off >= p.off
<1> DEFINE s == x.cmds
           N == Len(s)
<1>1. /\ N \in Nat \ {0} /\ s \in Seq(Commands)
      /\ \A i \in 1 .. N : s[i] # "L" => s[i] \in DOMAIN Hook
      /\ s[N] # "L"
  BY OrderFacts DEF Commands
<1>2. CASE m.k \in {"A", "FATAL"} /\ q = p
  BY <1>2 DEF Places, Positions
<1>3. CASE p.off <= N /\ m.k \in DOMAIN Expected(s, p)
           /\ q = IF Expected(s, p)[m.k] = 0 THEN At(NextCmd(s, p.off), 1) ELSE At(p.off, Expected(s, p)[m.k])
  <2>1. p.off \in 1 .. N /\ s[p.off] \in DOMAIN Hook /\ p.step \in 1 .. Len(Hook[s[p.off]])
    BY <1>3, <1>1 DEF Places
  <2>2. Expected(s, p)[m.k] \in 0 .. Len(Hook[s[p.off]])
    BY <2>1, <1>3, Rows DEF Expected
  <2>3. CASE Expected(s, p)[m.k] = 0
    <3>1. /\ NextCmd(s, p.off) \in (p.off + 1) .. (N + 1)
          /\ NextCmd(s, p.off) = N + 1 \/ s[NextCmd(s, p.off)] # "L"
      BY <2>1, <1>1, NextUp, SMTT(40)
    <3>2. \A c \in DOMAIN Hook : 1 \in 1 .. Len(Hook[c])
      BY FirstRow
    <3> QED BY <3>1, <3>2, <2>3, <1>3, <1>1, <2>1 DEF Places, Positions, At
  <2>4. CASE Expected(s, p)[m.k] # 0
    <3>1. Expected(s, p)[m.k] \in 1 .. Len(Hook[s[p.off]])
      BY <2>2, <2>4, <2>1
    <3>2. Expected(s, p)[m.k] \in 1 .. 4
      BY <3>1, <2>1, Rows
    <3> QED BY <3>1, <3>2, <2>4, <1>3, <2>1 DEF Places, Positions, At
  <2> QED BY <2>3, <2>4
<1>4. CASE p.off <= N /\ q = At(SyncOf(s, p.off), 1)
  <2>1. p.off \in 1 .. N
    BY <1>4 DEF Places
  <2>2. SyncOf(s, p.off) \in 1 .. N /\ s[SyncOf(s, p.off)] \in {"Q", "S"}
    BY <2>1, SyncIs
  <2>3. SyncOf(s, p.off) \in {p.off, N}
    BY DEF SyncOf
  <2>4. \A c \in DOMAIN Hook : 1 \in 1 .. Len(Hook[c])
    BY FirstRow
  <2> QED BY <1>4, <1>1, <2>1, <2>2, <2>3, <2>4 DEF Places, Positions, At
<1> QED BY <1>2, <1>3, <1>4 DEF Leads

-----------------------------------------------------------------------------
(* One message of a chunk.                                                 *)

\* The account of the loop over a chunk, and one without a stray or an unexpected message.
Account(off, step, proc, n, told, fatal, end, stray, broke, kept) ==
  [ off |-> off, step |-> step, proc |-> proc, n |-> n, told |-> told, fatal |-> fatal,
    end |-> end, stray |-> stray, broke |-> broke, kept |-> kept ]
\* The account of a loop in which nothing strayed.
IsAccount(a) ==
  a = Account(a.off, a.step, a.proc, a.n, a.told, a.fatal, a.end, FALSE, FALSE, a.kept)

\* What becomes of the account of the loop with one more message.
LEMMA PutFields ==
  ASSUME NEW y, NEW a, IsAccount(a), NEW m, NEW row,
         "A" \notin DOMAIN row /\ "FATAL" \notin DOMAIN row /\ "ERROR" \notin DOMAIN row
  PROVE  LET s == y.cmds
             off == IF row[m.k] = 0 THEN NextCmd(s, a.off) ELSE a.off
             sync == IF s[a.off] \in {"Q", "F"} THEN a.off ELSE SyncFrom(s, a.off)
             skip == AfterError(y, a.off, sync)
             c == PutOne(y, a, m, row)
         IN /\ m.k \in DOMAIN row /\ <<m.id, m.at>> = <<y.id, a.off>> =>
                 c = Account(off, IF row[m.k] = 0 THEN 1 ELSE row[m.k], Append(a.proc, m), a.n + 1,
                             a.told, a.fatal, IF off > Len(s) THEN "done" ELSE "no", FALSE, FALSE, a.kept)
            /\ m.k = "FATAL" => c = Account(a.off, a.step, a.proc, a.n + 1, a.told, "Yes", "early", FALSE, FALSE, a.kept)
            /\ m.k = "ERROR" /\ m.id = y.id =>
                 c = Account(skip, 1, a.proc, a.n + 1, a.told, "No",
                             IF sync = 0 THEN "early" ELSE IF skip > Len(s) THEN "done" ELSE "no",
                             FALSE, FALSE, a.kept)
            /\ m.k = "A" => c = Account(a.off, a.step, a.proc, a.n + 1,
                                        IF m.no \in y.asyncs THEN a.told ELSE Append(a.told, m.no),
                                        a.fatal, a.end, FALSE, FALSE, a.kept)
<1>0. a.stray = FALSE /\ a.broke = FALSE
  BY DEF IsAccount, Account
<1> DEFINE s == y.cmds
           off == IF row[m.k] = 0 THEN NextCmd(s, a.off) ELSE a.off
           sync == IF s[a.off] \in {"Q", "F"} THEN a.off ELSE SyncFrom(s, a.off)
           skip == AfterError(y, a.off, sync)
           n == a.n + 1
           b == [a EXCEPT !.n = @ + 1]
           b1 == [b EXCEPT !.proc = Append(@, m)]
           b2 == [b1 EXCEPT !.off = off]
           b3 == [b2 EXCEPT !.step = IF row[m.k] = 0 THEN 1 ELSE row[m.k]]
           b4 == [b3 EXCEPT !.stray = @ \/ <<m.id, m.at>> # <<y.id, a.off>>]
           B == [b EXCEPT !.proc = Append(@, m), !.off = off,
                      !.step = IF row[m.k] = 0 THEN 1 ELSE row[m.k],
                      !.stray = @ \/ <<m.id, m.at>> # <<y.id, a.off>>,
                      !.end = IF off > Len(y.cmds) THEN "done" ELSE "no"]
           c1 == [b EXCEPT !.fatal = "Yes"]
           C == [b EXCEPT !.fatal = "Yes", !.end = "early"]
           d1 == [b EXCEPT !.fatal = "No"]
           d2 == [d1 EXCEPT !.off = AfterError(y, @, sync)]
           d3 == [d2 EXCEPT !.step = 1]
           d4 == [d3 EXCEPT !.end = IF sync = 0 THEN "early"
                              ELSE IF AfterError(y, a.off, sync) > Len(y.cmds) THEN "done" ELSE "no"]
           D == [b EXCEPT !.fatal = "No", !.off = AfterError(y, @, sync), !.step = 1,
                      !.end = IF sync = 0 THEN "early"
                              ELSE IF AfterError(y, a.off, sync) > Len(y.cmds) THEN "done" ELSE "no",
                      !.stray = @ \/ m.id # y.id]
           E == [b EXCEPT !.told = IF m.no \in y.asyncs THEN @ ELSE Append(@, m.no)]
           F == [b EXCEPT !.fatal = "Yes", !.end = "early", !.broke = TRUE]
<1>1. PutOne(y, a, m, row) = CASE m.k \in DOMAIN row -> B
                               [] m.k = "FATAL" -> C
                               [] m.k = "ERROR" -> D
                               [] m.k = "A" -> E
                               [] OTHER -> F
  BY DEF PutOne
<1>2. b = Account(a.off, a.step, a.proc, n, a.told, a.fatal, a.end, a.stray, a.broke, a.kept)
  <2> DEFINE v == a.n + 1
  <2>1. b = [a EXCEPT !.n = v]
    OBVIOUS
  <2> HIDE DEF v, b
  <2>2. b = Account(a.off, a.step, a.proc, v, a.told, a.fatal, a.end, a.stray, a.broke, a.kept)
    BY <2>1 DEF IsAccount, Account
  <2> QED BY <2>2 DEF v
<1>3. B = [b4 EXCEPT !.end = IF off > Len(y.cmds) THEN "done" ELSE "no"]
  OBVIOUS
<1>4. C = [c1 EXCEPT !.end = "early"]
  OBVIOUS
<1>5. D = [d4 EXCEPT !.stray = @ \/ m.id # y.id]
  OBVIOUS
<1>6. b.off = a.off
  BY <1>2 DEF Account
<1> HIDE DEF b, n, off, sync
<1>7. m.k \in DOMAIN row /\ <<m.id, m.at>> = <<y.id, a.off>> =>
      B = Account(off, IF row[m.k] = 0 THEN 1 ELSE row[m.k], Append(a.proc, m), n,
                  a.told, a.fatal, IF off > Len(s) THEN "done" ELSE "no", FALSE, FALSE, a.kept)
  <2> DEFINE pr == Append(a.proc, m)
             st == IF row[m.k] = 0 THEN 1 ELSE row[m.k]
             er == a.stray \/ <<m.id, m.at>> # <<y.id, a.off>>
             e == IF off > Len(y.cmds) THEN "done" ELSE "no"
  <2>0. b.proc = a.proc
    BY <1>2 DEF Account
  <2>1. b1 = [b EXCEPT !.proc = pr]
    BY <2>0
  <2> HIDE DEF pr, b1
  <2>2. b1 = Account(a.off, a.step, pr, n, a.told, a.fatal, a.end, a.stray, a.broke, a.kept)
    BY <1>2, <2>1 DEF Account
  <2>3. b2 = Account(off, a.step, pr, n, a.told, a.fatal, a.end, a.stray, a.broke, a.kept)
    BY <2>2 DEF Account
  <2>4. b3 = [b2 EXCEPT !.step = st]
    OBVIOUS
  <2> HIDE DEF b2, st, b3
  <2>5. b3 = Account(off, st, pr, n, a.told, a.fatal, a.end, a.stray, a.broke, a.kept)
    BY <2>3, <2>4 DEF Account
  <2>6. SUFFICES ASSUME m.k \in DOMAIN row, <<m.id, m.at>> = <<y.id, a.off>>
                 PROVE  B = Account(off, st, pr, n, a.told, a.fatal, e, FALSE, FALSE, a.kept)
    BY DEF st, pr
  <2>7. er = FALSE /\ a.broke = FALSE
    BY <2>6, <1>0
  <2>8. b3.stray = a.stray
    BY <2>5 DEF Account
  <2>9. b4 = [b3 EXCEPT !.stray = er]
    BY <2>8
  <2> HIDE DEF b4, er
  <2>10. b4 = Account(off, st, pr, n, a.told, a.fatal, a.end, FALSE, a.broke, a.kept)
    BY <2>5, <2>7, <2>9 DEF Account
  <2>11. B = [b4 EXCEPT !.end = e]
    BY <1>3
  <2> HIDE DEF e, B
  <2> QED BY <2>7, <2>10, <2>11 DEF Account
<1> HIDE DEF B
<1>8. C = Account(a.off, a.step, a.proc, n, a.told, "Yes", "early", FALSE, FALSE, a.kept)
  <2>1. c1 = Account(a.off, a.step, a.proc, n, a.told, "Yes", a.end, a.stray, a.broke, a.kept)
    BY <1>2 DEF Account
  <2> HIDE DEF c1
  <2> HIDE DEF C
  <2> QED BY <1>4, <2>1, <1>0 DEF Account
<1> HIDE DEF C
<1>9. m.k = "ERROR" /\ m.id = y.id =>
        D = Account(skip, 1, a.proc, n, a.told, "No",
                    IF sync = 0 THEN "early" ELSE IF skip > Len(s) THEN "done" ELSE "no",
                    FALSE, FALSE, a.kept)
  <2>0. SUFFICES ASSUME m.id = y.id PROVE
        D = Account(skip, 1, a.proc, n, a.told, "No",
                    IF sync = 0 THEN "early" ELSE IF skip > Len(s) THEN "done" ELSE "no",
                    FALSE, FALSE, a.kept)
    OBVIOUS
  <2>1. d1 = Account(a.off, a.step, a.proc, n, a.told, "No", a.end, a.stray, a.broke, a.kept)
    BY <1>2 DEF Account
  <2> HIDE DEF d1
  <2>2. d2 = Account(AfterError(y, a.off, sync), a.step, a.proc, n, a.told, "No", a.end, a.stray, a.broke, a.kept)
    BY <2>1 DEF Account
  <2> HIDE DEF d2
  <2>3. d3 = Account(AfterError(y, a.off, sync), 1, a.proc, n, a.told, "No", a.end, a.stray, a.broke, a.kept)
    BY <2>2 DEF Account
  <2> HIDE DEF d3
  <2> DEFINE e == IF sync = 0 THEN "early"
                  ELSE IF AfterError(y, a.off, sync) > Len(y.cmds) THEN "done" ELSE "no"
  <2>4. d4 = [d3 EXCEPT !.end = e]
    OBVIOUS
  <2> HIDE DEF e, d4
  <2>5. d4 = Account(AfterError(y, a.off, sync), 1, a.proc, n, a.told, "No", e, a.stray, a.broke, a.kept)
    BY <2>3, <2>4 DEF Account
  <2>6. (a.stray \/ m.id # y.id) = FALSE /\ a.broke = FALSE
    BY <2>0, <1>0
  <2> HIDE DEF D
  <2>7. D = Account(AfterError(y, a.off, sync), 1, a.proc, n, a.told, "No", e, FALSE, FALSE, a.kept)
    BY <2>5, <2>6, <1>5 DEF Account
  <2> QED BY <2>7 DEF e
<1> HIDE DEF D
<1>10. E = Account(a.off, a.step, a.proc, n, IF m.no \in y.asyncs THEN a.told ELSE Append(a.told, m.no),
                   a.fatal, a.end, FALSE, FALSE, a.kept)
  <2> DEFINE v == IF m.no \in y.asyncs THEN a.told ELSE Append(a.told, m.no)
  <2>2. b.told = a.told
    BY <1>2 DEF Account
  <2>3. E = [b EXCEPT !.told = v]
    BY <2>2
  <2> HIDE DEF v, E
  <2>4. E = Account(a.off, a.step, a.proc, n, v, a.fatal, a.end, FALSE, FALSE, a.kept)
    BY <1>2, <2>3, <1>0 DEF Account
  <2> QED BY <2>4 DEF v
<1> HIDE DEF E, F
<1>11. /\ m.k \in DOMAIN row => PutOne(y, a, m, row) = B
       /\ m.k = "FATAL" => PutOne(y, a, m, row) = C
       /\ m.k = "ERROR" => PutOne(y, a, m, row) = D
       /\ m.k = "A" => PutOne(y, a, m, row) = E
  BY <1>1
<1> HIDE DEF skip, s
<1>12. /\ m.k \in DOMAIN row /\ <<m.id, m.at>> = <<y.id, a.off>> =>
                 PutOne(y, a, m, row) = Account(off, IF row[m.k] = 0 THEN 1 ELSE row[m.k], Append(a.proc, m), n,
                             a.told, a.fatal, IF off > Len(s) THEN "done" ELSE "no", FALSE, FALSE, a.kept)
  BY <1>7, <1>11
<1>13. m.k = "ERROR" /\ m.id = y.id => PutOne(y, a, m, row) = Account(skip, 1, a.proc, n, a.told, "No",
                    IF sync = 0 THEN "early" ELSE IF skip > Len(s) THEN "done" ELSE "no",
                    FALSE, FALSE, a.kept)
  BY <1>9, <1>11
<1> QED BY <1>8, <1>10, <1>11, <1>12, <1>13 DEF n, off, sync, skip, s

\* The same, field by field.
LEMMA TakesReply ==
  ASSUME NEW y, NEW a, IsAccount(a), NEW m, NEW row, m.k \in DOMAIN row,
         "A" \notin DOMAIN row /\ "FATAL" \notin DOMAIN row /\ "ERROR" \notin DOMAIN row,
         m.id = y.id, m.at = a.off, NEW c, c = PutOne(y, a, m, row)
  PROVE  /\ IsAccount(c) /\ c.n = a.n + 1 /\ c.fatal = a.fatal
         /\ c.off = (IF row[m.k] = 0 THEN NextCmd(y.cmds, a.off) ELSE a.off)
         /\ c.step = (IF row[m.k] = 0 THEN 1 ELSE row[m.k])
         /\ c.proc = Append(a.proc, m)
         /\ c.end = (IF c.off > Len(y.cmds) THEN "done" ELSE "no")
<1> DEFINE off == IF row[m.k] = 0 THEN NextCmd(y.cmds, a.off) ELSE a.off
           step == IF row[m.k] = 0 THEN 1 ELSE row[m.k]
<1>1. c = Account(off, step, Append(a.proc, m), a.n + 1, a.told, a.fatal,
                  IF off > Len(y.cmds) THEN "done" ELSE "no", FALSE, FALSE, a.kept)
  BY PutFields, ZenonT(60)
<1> HIDE DEF off, step
<1>2. /\ IsAccount(c) /\ c.n = a.n + 1 /\ c.fatal = a.fatal
      /\ c.off = off /\ c.step = step /\ c.proc = Append(a.proc, m)
      /\ c.end = (IF off > Len(y.cmds) THEN "done" ELSE "no")
  BY <1>1 DEF Account, IsAccount
<1> QED BY <1>2 DEF off, step

\* A fatal error ends the loop.
LEMMA TakesFatal ==
  ASSUME NEW y, NEW a, IsAccount(a), NEW m, NEW row, m.k = "FATAL",
         "A" \notin DOMAIN row /\ "FATAL" \notin DOMAIN row /\ "ERROR" \notin DOMAIN row,
         NEW c, c = PutOne(y, a, m, row)
  PROVE  /\ IsAccount(c) /\ c.n = a.n + 1 /\ c.fatal = "Yes"
         /\ c.off = a.off /\ c.step = a.step /\ c.proc = a.proc /\ c.end = "early"
<1>1. c = Account(a.off, a.step, a.proc, a.n + 1, a.told, "Yes", "early", FALSE, FALSE, a.kept)
  BY PutFields, ZenonT(60)
<1> QED BY <1>1 DEF Account, IsAccount

\* A notice leaves the position.
LEMMA TakesNotice ==
  ASSUME NEW y, NEW a, IsAccount(a), NEW m, NEW row, m.k = "A",
         "A" \notin DOMAIN row /\ "FATAL" \notin DOMAIN row /\ "ERROR" \notin DOMAIN row,
         NEW c, c = PutOne(y, a, m, row)
  PROVE  /\ IsAccount(c) /\ c.n = a.n + 1 /\ c.fatal = a.fatal
         /\ c.off = a.off /\ c.step = a.step /\ c.proc = a.proc /\ c.end = a.end
<1> DEFINE t == IF m.no \in y.asyncs THEN a.told ELSE Append(a.told, m.no)
<1>1. c = Account(a.off, a.step, a.proc, a.n + 1, t, a.fatal, a.end, FALSE, FALSE, a.kept)
  BY PutFields, ZenonT(60)
<1> HIDE DEF t
<1> QED BY <1>1 DEF Account, IsAccount

\* An error moves the account to the Sync that ends it.
LEMMA TakesError ==
  ASSUME NEW y, NEW a, IsAccount(a), NEW m, NEW row, m.k = "ERROR",
         "A" \notin DOMAIN row /\ "FATAL" \notin DOMAIN row /\ "ERROR" \notin DOMAIN row,
         m.id = y.id, InOrder(y.cmds), a.off \in 1 .. Len(y.cmds), NEW c, c = PutOne(y, a, m, row)
  PROVE  /\ IsAccount(c) /\ c.n = a.n + 1 /\ c.fatal = "No"
         /\ c.off = SyncOf(y.cmds, a.off) /\ c.step = 1 /\ c.proc = a.proc /\ c.end = "no"
<1> DEFINE sync == IF y.cmds[a.off] \in {"Q", "F"} THEN a.off ELSE SyncFrom(y.cmds, a.off)
           skip == AfterError(y, a.off, sync)
           end == IF sync = 0 THEN "early" ELSE IF skip > Len(y.cmds) THEN "done" ELSE "no"
<1>1. c = Account(skip, 1, a.proc, a.n + 1, a.told, "No", end, FALSE, FALSE, a.kept)
  BY PutFields, ZenonT(60)
<1>2. sync = SyncOf(y.cmds, a.off) /\ sync \in 1 .. Len(y.cmds) /\ Len(y.cmds) \in Nat
  <2>1. y.cmds[a.off] # "F" /\ Len(y.cmds) \in Nat
    BY OrderFacts
  <2> QED BY <2>1, SyncIs DEF SyncOf, Simple
<1> HIDE DEF sync
<1>3. skip = sync /\ end = "no"
  BY <1>2 DEF AfterError
<1>4. c = Account(sync, 1, a.proc, a.n + 1, a.told, "No", "no", FALSE, FALSE, a.kept)
  BY <1>1, <1>3
<1> QED BY <1>2, <1>4 DEF Account, IsAccount

\* Where D is expected after an Execute it leads to the second step; where G is expected
\* it keeps the command.
LEMMA RowsFrom ==
  ASSUME NEW c \in DOMAIN Hook, NEW i \in 1 .. Len(Hook[c])
  PROVE  /\ "D" \in DOMAIN Hook[c][i] => Hook[c][i]["D"] # 0 /\ (c = "E" => Hook[c][i]["D"] = 2)
                                         /\ (c # "E" => Hook[c][i]["D"] = i)
         /\ "G" \in DOMAIN Hook[c][i] => c \in {"E", "Q"} /\ Hook[c][i]["G"] # 0
         /\ "d" \in DOMAIN Hook[c][i] => Hook[c][i]["d"] = i /\ i # 0
<1>0. c \in {"Q", "F", "P", "B", "D", "X", "E", "S"}
  BY DEF Hook
<1>1. CASE c = "Q"
  BY <1>1 DEF Hook
<1>2. CASE c = "E"
  BY <1>2 DEF Hook
<1>3. CASE c = "D"
  BY <1>3 DEF Hook
<1>4. CASE c = "F"
  BY <1>4 DEF Hook
<1>5. CASE c = "P"
  BY <1>5 DEF Hook
<1>6. CASE c = "B"
  BY <1>6 DEF Hook
<1>7. CASE c = "X"
  BY <1>7 DEF Hook
<1>8. CASE c = "S"
  BY <1>8 DEF Hook
<1> QED BY <1>0, <1>1, <1>2, <1>3, <1>4, <1>5, <1>6, <1>7, <1>8


-----------------------------------------------------------------------------
(* Lists, and the way of an instruction through the messages of a chunk.   *)

\* A list: a sequence of its own elements.
IsList(s) == s \in Seq(ToSet(s))

\* A sequence is a list.
LEMMA Listed ==
  ASSUME NEW T, NEW s \in Seq(T)
  PROVE  IsList(s)
<1>1. Len(s) \in Nat /\ DOMAIN s = 1 .. Len(s)
  OBVIOUS
<1>2. \A i \in 1 .. Len(s) : s[i] \in ToSet(s)
  BY <1>1 DEF ToSet
<1>3. s = [i \in 1 .. Len(s) |-> s[i]]
  BY <1>1
<1>4. s \in [1 .. Len(s) -> ToSet(s)]
  BY <1>2, <1>3
<1> QED BY <1>1, <1>4 DEF IsList

\* The positions that the messages ms lead x through.
Way(x, w, ms) ==
  /\ w \in [0 .. Len(ms) -> Places(x.cmds)]
  /\ w[0] = x.last.to
  /\ \A i \in 1 .. Len(ms) : Leads(x, w[i - 1], ms[i], w[i])

\* The account after i messages of the loop, if the way is as expected.
LoopAt(x, w, ms, i, a) ==
  /\ IsAccount(a)
  /\ a.proc \in Seq(ToSet(ms)) /\ a.end \in {"no", "done", "early"} /\ a.fatal \in {"None", "No", "Yes"}
  /\ a.n \in 0 .. i /\ (i >= 1 \/ a.end # "no" => a.n >= 1)
  /\ a.end # "early" => At(a.off, a.step) = w[a.n] /\ a.fatal \in {x.fatal, "No"}
  /\ a.end = "no" => a.n = i /\ a.off <= Len(x.cmds)
  /\ a.end = "done" => a.off = Len(x.cmds) + 1
  /\ a.end = "early" => a.n >= 1 /\ ms[a.n].k = "FATAL" /\ a.fatal = "Yes"
  /\ a.proc # <<>> /\ a.proc[Len(a.proc)].k = "D" /\ a.off <= Len(x.cmds) /\ x.cmds[a.off] = "E" => a.step = 2
  /\ a.proc # <<>> /\ a.proc[Len(a.proc)].k = "G" => \E l \in 1 .. a.n : ms[l].k = "G"
  /\ \A l \in 1 .. a.n :
       ms[l].k = "G" /\ (\A j \in (l + 1) .. a.n : ms[j].k = "A")
         => a.proc # <<>> /\ a.proc[Len(a.proc)].k = "G" /\ x.cmds[a.off] \in {"E", "Q"}

\* The last element of a longer sequence.
LEMMA Appended ==
  ASSUME NEW T, NEW s \in Seq(T), NEW e \in T
  PROVE  /\ Append(s, e) \in Seq(T) /\ Append(s, e) # <<>>
         /\ Append(s, e)[Len(Append(s, e))] = e
  OBVIOUS

\* An account that is as expected, conjunct by conjunct.
LEMMA LoopMade ==
  ASSUME NEW x, NEW w, NEW ms, NEW i \in Nat \ {0}, NEW N, N = Len(x.cmds), NEW s, s = x.cmds,
         NEW c, IsAccount(c), c.n = i,
         c.proc \in Seq(ToSet(ms)), c.end \in {"no", "done", "early"}, c.fatal \in {"None", "No", "Yes"},
         c.end # "early" => At(c.off, c.step) = w[i] /\ c.fatal \in {x.fatal, "No"},
         c.end = "no" => c.off <= N,
         c.end = "done" => c.off = N + 1,
         c.end = "early" => ms[i].k = "FATAL" /\ c.fatal = "Yes",
         c.proc # <<>> /\ c.proc[Len(c.proc)].k = "D" /\ c.off <= N /\ s[c.off] = "E" => c.step = 2,
         c.proc # <<>> /\ c.proc[Len(c.proc)].k = "G" => \E l \in 1 .. c.n : ms[l].k = "G",
         \A l \in 1 .. c.n :
            ms[l].k = "G" /\ (\A j \in (l + 1) .. c.n : ms[j].k = "A")
              => c.proc # <<>> /\ c.proc[Len(c.proc)].k = "G" /\ s[c.off] \in {"E", "Q"}
  PROVE  LoopAt(x, w, ms, i, c)
<1>1. c.n \in 0 .. i /\ c.n >= 1
  OBVIOUS
<1> QED BY <1>1 DEF LoopAt

\* The next message of the way keeps the account as expected.
LEMMA LoopStep ==
  ASSUME NEW x, x.fatal \in {"None", "No", "Yes"}, InOrder(x.cmds), NEW w, NEW ms, IsList(ms), Way(x, w, ms),
         NEW i \in 1 .. Len(ms), NEW a, LoopAt(x, w, ms, i - 1, a), a.end = "no",
         NEW y, y.id = x.id, y.cmds = x.cmds
  PROVE  LoopAt(x, w, ms, i, PutOne(y, a, ms[i], Hook[x.cmds[a.off]][a.step]))
<1> DEFINE s == x.cmds
           N == Len(s)
           m == ms[i]
           row == Hook[s[a.off]][a.step]
           p == At(a.off, a.step)
           q == w[i]
           c == PutOne(y, a, m, row)
<1>1. /\ N \in Nat \ {0} /\ i \in Nat \ {0} /\ i <= Len(ms) /\ Len(ms) \in Nat
      /\ m \in ToSet(ms)
  BY OrderFacts DEF IsList, ToSet
<1>2. /\ IsAccount(a) /\ a.n = i - 1 /\ p = w[i - 1]
      /\ a.fatal \in {x.fatal, "No"} /\ a.off <= N /\ a.proc \in Seq(ToSet(ms))
      /\ a.proc # <<>> /\ a.proc[Len(a.proc)].k = "D" /\ a.off <= N /\ s[a.off] = "E" => a.step = 2
      /\ a.proc # <<>> /\ a.proc[Len(a.proc)].k = "G" => \E l \in 1 .. a.n : ms[l].k = "G"
      /\ \A l \in 1 .. a.n :
       ms[l].k = "G" /\ (\A j \in (l + 1) .. a.n : ms[j].k = "A")
         => a.proc # <<>> /\ a.proc[Len(a.proc)].k = "G" /\ s[a.off] \in {"E", "Q"}
  BY DEF LoopAt
<1>3. /\ p \in Places(s) /\ q \in Places(s) /\ Leads(x, p, m, q)
      /\ p.off = a.off /\ p.step = a.step
  <2>1. i - 1 \in 0 .. Len(ms) /\ i \in 0 .. Len(ms)
    BY <1>1
  <2> QED BY <1>2, <2>1 DEF Way, At
<1>4. /\ s[a.off] \in DOMAIN Hook /\ a.step \in 1 .. Len(Hook[s[a.off]]) /\ a.off \in 1 .. N
      /\ Expected(s, p) = row
  BY <1>2, <1>3, SMTT(40) DEF Places, Expected
<1>5. /\ "A" \notin DOMAIN row /\ "FATAL" \notin DOMAIN row /\ "ERROR" \notin DOMAIN row
  BY <1>4, Rows
<1>6. q = At(q.off, q.step) /\ q.off \in Nat /\ q.step \in 1 .. 4 /\ q.off \in 1 .. N + 1
  BY <1>3 DEF Places, Positions, At
<1>7. i \in 1 .. i /\ i \in 0 .. i /\ i >= 1 /\ a.n + 1 = i
  BY <1>1, <1>2
<1>8. ASSUME NEW l \in 1 .. i, ms[l].k = "G", \A j \in (l + 1) .. i : ms[j].k = "A", m.k # "G"
      PROVE  m.k = "A" /\ l \in 1 .. a.n /\ \A j \in (l + 1) .. a.n : ms[j].k = "A"
  <2>1. l # i
    BY <1>8
  <2>2. i \in (l + 1) .. i /\ l \in 1 .. a.n
    BY <2>1, <1>1, <1>2
  <2>3. \A j \in (l + 1) .. a.n : j \in (l + 1) .. i
    BY <1>1, <1>2
  <2> QED BY <1>8, <2>2, <2>3
<1>9. c = PutOne(y, a, m, row) /\ N = Len(y.cmds) /\ s = y.cmds
  OBVIOUS
<1>10. /\ i \in Nat \ {0} /\ N = Len(x.cmds) /\ s = x.cmds
  BY <1>1
<1>11. IsAccount(a)
  BY <1>2
<1> SUFFICES LoopAt(x, w, ms, i, c)
  OBVIOUS
<1> HIDE DEF c, s, N
<1>A. CASE m.k \in DOMAIN row
  <2>1. /\ m.id = x.id /\ m.at = a.off
        /\ q = IF row[m.k] = 0 THEN At(NextCmd(s, a.off), 1) ELSE At(a.off, row[m.k])
    BY <1>A, <1>3, <1>4, <1>5 DEF Leads, s
  <2>2. /\ IsAccount(c) /\ c.n = a.n + 1 /\ c.fatal = a.fatal
        /\ c.off = (IF row[m.k] = 0 THEN NextCmd(y.cmds, a.off) ELSE a.off)
        /\ c.step = (IF row[m.k] = 0 THEN 1 ELSE row[m.k])
        /\ c.proc = Append(a.proc, m)
        /\ c.end = (IF c.off > Len(y.cmds) THEN "done" ELSE "no")
    <3> HIDE DEF row, m
    <3> QED BY <1>A, <1>11, <1>5, <1>9, <2>1, TakesReply
  <2>3. At(c.off, c.step) = q /\ c.off = q.off /\ c.end = (IF q.off > N THEN "done" ELSE "no")
    <3>1. At(c.off, c.step) = q
      BY <2>1, <2>2, <1>9
    <3>2. c.off = q.off
      BY <3>1 DEF At
    <3> QED BY <3>1, <3>2, <2>2, <1>9
  <2>4. /\ c.proc \in Seq(ToSet(ms)) /\ c.proc # <<>> /\ c.proc[Len(c.proc)] = m
    <3> HIDE DEF m
    <3>1. /\ c.proc = Append(a.proc, m) /\ a.proc \in Seq(ToSet(ms)) /\ m \in ToSet(ms)
      BY <1>1, <1>2, <2>2
    <3> QED BY <3>1, Appended
  <2>5. m.k = "D" /\ c.off <= N /\ s[c.off] = "E" => c.step = 2
    <3>1. ASSUME m.k = "D" PROVE row[m.k] # 0 /\ (s[a.off] = "E" => row[m.k] = 2)
      BY <3>1, <1>A, <1>4, RowsFrom
    <3> HIDE DEF row
    <3> QED BY <3>1, <2>2
  <2>6. c.end = "no" => c.off <= N
    BY <2>3, <1>6, <1>1
  <2>7. c.end = "done" => c.off = N + 1
    BY <2>3, <1>6, <1>1
  <2>8. \A l \in 1 .. c.n : ms[l].k = "G" /\ (\A j \in (l + 1) .. c.n : ms[j].k = "A") => m.k = "G"
    <3>1. m.k # "A"
      BY <1>A, <1>5
    <3> QED BY <1>8, <3>1, <2>2, <1>7
  <2>9. m.k = "G" => \E l \in 1 .. c.n : ms[l].k = "G"
    BY <2>2, <1>7, <1>1, <1>2
  <2> HIDE DEF q
  <2>10. c.n = i /\ c.end \in {"no", "done", "early"} /\ c.end # "early"
    BY <2>2, <1>7
  <2>11. c.fatal \in {"None", "No", "Yes"} /\ c.fatal \in {x.fatal, "No"}
    BY <2>2, <1>2
  <2>12. c.proc # <<>> /\ c.proc[Len(c.proc)].k = "D" /\ c.off <= N /\ s[c.off] = "E" => c.step = 2
    BY <2>4, <2>5
  <2>13. c.proc # <<>> /\ c.proc[Len(c.proc)].k = "G" => \E l \in 1 .. c.n : ms[l].k = "G"
    BY <2>4, <2>9
  <2>14. \A l \in 1 .. c.n :
            ms[l].k = "G" /\ (\A j \in (l + 1) .. c.n : ms[j].k = "A")
              => c.proc # <<>> /\ c.proc[Len(c.proc)].k = "G" /\ s[c.off] \in {"E", "Q"}
    <3>1. m.k = "G" => s[c.off] \in {"E", "Q"}
      <4>1. ASSUME m.k = "G" PROVE row[m.k] # 0 /\ s[a.off] \in {"E", "Q"}
        BY <4>1, <1>A, <1>4, RowsFrom
      <4> HIDE DEF row
      <4> QED BY <4>1, <2>2
    <3> QED BY <3>1, <2>4, <2>8
  <2>15. At(c.off, c.step) = w[i]
    BY <2>3 DEF q
  <2>16. IsAccount(c) /\ c.proc \in Seq(ToSet(ms)) /\ (c.end = "no" => c.off <= N)
    BY <2>2, <2>4, <2>6, <2>10
  <2> HIDE DEF m
  <2> QED BY <1>10, <2>16, <2>7, <2>10, <2>11, <2>12, <2>13, <2>14, <2>15, LoopMade
<1>B. CASE m.k = "FATAL"
  <2>1. /\ IsAccount(c) /\ c.n = a.n + 1 /\ c.fatal = "Yes"
        /\ c.off = a.off /\ c.step = a.step /\ c.proc = a.proc /\ c.end = "early"
    <3> HIDE DEF row, m
    <3> QED BY <1>B, <1>11, <1>5, <1>9, TakesFatal
  <2>2. \A l \in 1 .. c.n : ms[l].k = "G" /\ (\A j \in (l + 1) .. c.n : ms[j].k = "A") => FALSE
    BY <1>8, <1>B, <2>1, <1>7
  <2>3. (\E l \in 1 .. a.n : ms[l].k = "G") => \E l \in 1 .. c.n : ms[l].k = "G"
    BY <2>1, <1>7, <1>1, <1>2
  <2>4. /\ c.n = i /\ c.end = "early" /\ c.fatal = "Yes" /\ ms[i].k = "FATAL" /\ c.proc \in Seq(ToSet(ms))
    BY <2>1, <1>2, <1>7, <1>B
  <2>5. c.proc # <<>> /\ c.proc[Len(c.proc)].k = "D" /\ c.off <= N /\ s[c.off] = "E" => c.step = 2
    BY <2>1, <1>2
  <2>6. c.proc # <<>> /\ c.proc[Len(c.proc)].k = "G" => \E l \in 1 .. c.n : ms[l].k = "G"
    BY <2>1, <2>3, <1>2
  <2> QED BY <1>10, <2>1, <2>2, <2>4, <2>5, <2>6, LoopMade
<1>C. CASE m.k = "ERROR"
  <2>1. m.id = x.id /\ q = At(SyncOf(s, a.off), 1)
    BY <1>C, <1>5, <1>3, <1>4 DEF Leads, s
  <2>2. /\ IsAccount(c) /\ c.n = a.n + 1 /\ c.fatal = "No"
        /\ c.off = SyncOf(s, a.off) /\ c.step = 1 /\ c.proc = a.proc /\ c.end = "no"
    <3> HIDE DEF row, m
    <3> QED BY <1>C, <1>2, <1>4, <1>5, <1>9, <2>1, TakesError
  <2>3. SyncOf(s, a.off) <= N /\ s[SyncOf(s, a.off)] # "E"
    <3>1. SyncOf(s, a.off) \in 1 .. N /\ s[SyncOf(s, a.off)] \in {"Q", "S"}
      BY <1>4, SyncIs DEF s, N
    <3> QED BY <3>1, <1>1
  <2>4. \A l \in 1 .. c.n : ms[l].k = "G" /\ (\A j \in (l + 1) .. c.n : ms[j].k = "A") => FALSE
    BY <1>8, <1>C, <2>2, <1>7
  <2>5. (\E l \in 1 .. a.n : ms[l].k = "G") => \E l \in 1 .. c.n : ms[l].k = "G"
    BY <2>2, <1>7, <1>1, <1>2
  <2> HIDE DEF q
  <2>6. /\ c.n = i /\ c.end = "no" /\ c.fatal = "No" /\ c.proc \in Seq(ToSet(ms)) /\ c.off <= N
    BY <2>2, <2>3, <1>2, <1>7
  <2>7. c.proc # <<>> /\ c.proc[Len(c.proc)].k = "D" /\ c.off <= N /\ s[c.off] = "E" => c.step = 2
    BY <2>2, <2>3
  <2>8. c.proc # <<>> /\ c.proc[Len(c.proc)].k = "G" => \E l \in 1 .. c.n : ms[l].k = "G"
    BY <2>2, <2>5, <1>2
  <2>9. At(c.off, c.step) = w[i]
    BY <2>1, <2>2 DEF q
  <2> QED BY <1>10, <2>2, <2>4, <2>6, <2>7, <2>8, <2>9, LoopMade
<1>D. CASE m.k = "A"
  <2>1. q = p
    BY <1>D, <1>5, <1>3, <1>4 DEF Leads, s
  <2>2. /\ IsAccount(c) /\ c.n = a.n + 1 /\ c.fatal = a.fatal
        /\ c.off = a.off /\ c.step = a.step /\ c.proc = a.proc /\ c.end = a.end
    <3> HIDE DEF row, m
    <3> QED BY <1>D, <1>11, <1>5, <1>9, TakesNotice
  <2>3. \A l \in 1 .. c.n : ms[l].k = "G" /\ (\A j \in (l + 1) .. c.n : ms[j].k = "A")
          => l \in 1 .. a.n /\ \A j \in (l + 1) .. a.n : ms[j].k = "A"
    BY <1>8, <1>D, <2>2, <1>7
  <2>4. (\E l \in 1 .. a.n : ms[l].k = "G") => \E l \in 1 .. c.n : ms[l].k = "G"
    BY <2>2, <1>7, <1>1, <1>2
  <2>5. a.proc # <<>> /\ a.proc[Len(a.proc)].k = "G" => \E l \in 1 .. c.n : ms[l].k = "G"
    BY <1>2, <2>4
  <2>6. At(c.off, c.step) = w[c.n]
    BY <2>1, <2>2, <1>7
  <2> HIDE DEF q, p
  <2>7. /\ c.n = i /\ c.end = "no" /\ c.fatal \in {x.fatal, "No"} /\ c.fatal \in {"None", "No", "Yes"}
        /\ c.proc \in Seq(ToSet(ms)) /\ c.off <= N /\ At(c.off, c.step) = w[i]
    BY <2>2, <2>6, <1>2, <1>7
  <2>8. c.proc # <<>> /\ c.proc[Len(c.proc)].k = "D" /\ c.off <= N /\ s[c.off] = "E" => c.step = 2
    BY <2>2, <1>2
  <2>9. c.proc # <<>> /\ c.proc[Len(c.proc)].k = "G" => \E l \in 1 .. c.n : ms[l].k = "G"
    BY <2>2, <2>5
  <2>10. \A l \in 1 .. c.n :
            ms[l].k = "G" /\ (\A j \in (l + 1) .. c.n : ms[j].k = "A")
              => c.proc # <<>> /\ c.proc[Len(c.proc)].k = "G" /\ s[c.off] \in {"E", "Q"}
    BY <2>2, <2>3, <1>2
  <2> QED BY <1>10, <2>2, <2>7, <2>8, <2>9, <2>10, LoopMade
<1> QED
  BY <1>A, <1>B, <1>C, <1>D, <1>3, <1>4 DEF Leads, s

-----------------------------------------------------------------------------
(* The loop over a chunk.                                                  *)

\* What PutAll starts from, and the instruction it tells the notices to.
Told(x, r) == IF r.id = x.last.of THEN x ELSE [x EXCEPT !.asyncs = {}]

\* The account before the loop and after one more message; the loop as a function.
Start(x, r) ==
  [ off |-> Resume(x, r).off, step |-> Resume(x, r).step, proc |-> <<>>, n |-> 0, told |-> <<>>,
    fatal |-> x.fatal, end |-> "no", stray |-> FALSE, broke |-> FALSE, kept |-> Told(x, r).asyncs ]
NextAccount(x, r, a, i) ==
  IF a.end # "no" THEN a ELSE PutOne(Told(x, r), a, r.msgs[i], Hook[x.cmds[a.off]][a.step])
Puts(f, x, r, n) == f = [i \in 0 .. n |-> IF i = 0 THEN Start(x, r) ELSE NextAccount(x, r, f[i - 1], i)]

\* The recursive function of PutAll exists.
LEMMA PutsExist ==
  ASSUME NEW x, NEW r, NEW n \in Nat
  PROVE  \E f : Puts(f, x, r, n)
<1> DEFINE S == {k \in Nat : \E f : Puts(f, x, r, k)}
<1>1. 0 \in S
  <2>1. PICK f : f = [i \in 0 .. 0 |-> Start(x, r)]
    OBVIOUS
  <2>2. f = [i \in 0 .. 0 |-> IF i = 0 THEN Start(x, r) ELSE NextAccount(x, r, f[i - 1], i)]
    BY <2>1
  <2>3. Puts(f, x, r, 0)
    BY <2>2 DEF Puts
  <2> QED BY <2>3
<1>2. ASSUME NEW k \in S PROVE k + 1 \in S
  <2>1. PICK f : Puts(f, x, r, k)
    OBVIOUS
  <2>2. PICK last : last = NextAccount(x, r, f[k], k + 1)
    OBVIOUS
  <2>3. PICK g : g = [i \in 0 .. (k + 1) |-> IF i = k + 1 THEN last ELSE f[i]]
    OBVIOUS
  <2>4. ASSUME NEW i \in 0 .. (k + 1)
        PROVE  g[i] = IF i = 0 THEN Start(x, r) ELSE NextAccount(x, r, g[i - 1], i)
    <3>1. CASE i = k + 1
      <4>1. k \in 0 .. (k + 1) /\ i - 1 = k /\ k # k + 1 /\ i # 0
        BY <3>1
      <4>2. g[i] = last /\ g[k] = f[k]
        BY <2>3, <3>1, <4>1
      <4> QED BY <2>2, <3>1, <4>1, <4>2
    <3>2. CASE i # k + 1
      <4>1. i \in 0 .. k
        BY <3>2
      <4>2. f[i] = IF i = 0 THEN Start(x, r) ELSE NextAccount(x, r, f[i - 1], i)
        BY <2>1, <4>1, Zenon DEF Puts
      <4>3. g[i] = f[i] /\ (i # 0 => g[i - 1] = f[i - 1])
        BY <2>3, <4>1
      <4> QED BY <4>2, <4>3
    <3> QED BY <3>1, <3>2
  <2>5. g = [i \in 0 .. (k + 1) |-> g[i]]
    BY <2>3
  <2>6. Puts(g, x, r, k + 1)
    BY <2>4, <2>5, Zenon DEF Puts
  <2>7. k + 1 \in Nat
    OBVIOUS
  <2> QED BY <2>6, <2>7
<1>3. S = Nat
  <2>1. S \in SUBSET Nat
    OBVIOUS
  <2> HIDE DEF S
  <2> QED BY <1>1, <1>2, <2>1, Inductive
<1> QED BY <1>3

\* It gives the account before the loop and after each message.
LEMMA PutsAll ==
  ASSUME NEW x, NEW r, NEW n \in Nat
  PROVE  \E f : /\ f[0] = Start(x, r) /\ PutAll(x, r, n) = f[n]
                /\ \A i \in 1 .. n : f[i] = NextAccount(x, r, f[i - 1], i)
<1>1. PICK f : f = CHOOSE g : Puts(g, x, r, n)
  OBVIOUS
<1>2. Puts(f, x, r, n)
  BY <1>1, PutsExist
<1>3. PutAll(x, r, n) = f[n]
  BY <1>1 DEF PutAll, Puts, Start, NextAccount, Told
<1>4. \A i \in 0 .. n : f[i] = IF i = 0 THEN Start(x, r) ELSE NextAccount(x, r, f[i - 1], i)
  BY <1>2, Zenon DEF Puts
<1>5. 0 \in 0 .. n /\ \A i \in 1 .. n : i \in 0 .. n /\ i # 0
  OBVIOUS
<1> QED BY <1>3, <1>4, <1>5

\* An instruction, field by field.
Xact(id, cmds, state, op, messages, last, stored, rows, asyncs, fatal) ==
  [ id |-> id, cmds |-> cmds, state |-> state, op |-> op, messages |-> messages, last |-> last,
    stored |-> stored, rows |-> rows, asyncs |-> asyncs, fatal |-> fatal ]
IsXact(x) ==
  /\ x = Xact(x.id, x.cmds, x.state, x.op, x.messages, x.last, x.stored, x.rows, x.asyncs, x.fatal)
  /\ x.state \in {"Sending", "Receiving", "Complete"} /\ x.fatal \in {"None", "No", "Yes"}

\* The loop over a chunk that was not seen before follows the way.
LEMMA Walk ==
  ASSUME NEW x, IsXact(x), InOrder(x.cmds), NEW w, NEW ms, IsList(ms), Way(x, w, ms),
         x.last.to.off <= Len(x.cmds), NEW r, r.id # x.last.of, NEW n \in 0 .. Len(ms),
         \A i \in 1 .. n : r.msgs[i] = ms[i]
  PROVE  LoopAt(x, w, ms, n, PutAll(x, r, n))
<1> DEFINE y == Told(x, r)
<1>0. Len(ms) \in Nat /\ n \in Nat
  BY DEF IsList
<1>1. PICK f : /\ f[0] = Start(x, r) /\ PutAll(x, r, n) = f[n]
               /\ \A i \in 1 .. n : f[i] = NextAccount(x, r, f[i - 1], i)
  BY <1>0, PutsAll
<1>2. y.id = x.id /\ y.cmds = x.cmds
  BY DEF Told, IsXact, Xact
<1>3. LoopAt(x, w, ms, 0, f[0])
  <2>1. w[0] = x.last.to /\ w[0] \in Places(x.cmds)
    BY <1>0 DEF Way
  <2>2. Resume(x, r) = w[0]
    BY <2>1 DEF Resume
  <2> DEFINE p == w[0]
             k == Told(x, r).asyncs
  <2>3. f[0] = Account(p.off, p.step, <<>>, 0, <<>>, x.fatal, "no", FALSE, FALSE, k)
    BY <1>1, <2>2 DEF Start, Account
  <2> HIDE DEF k
  <2>4. /\ IsAccount(f[0]) /\ f[0].off = p.off /\ f[0].step = p.step /\ f[0].proc = <<>> /\ f[0].n = 0
        /\ f[0].fatal = x.fatal /\ f[0].end = "no"
    BY <2>3 DEF Account, IsAccount
  <2>5. At(p.off, p.step) = p /\ p.off <= Len(x.cmds)
    BY <2>1 DEF Places, Positions, At
  <2>6. <<>> \in Seq(ToSet(ms)) /\ x.fatal \in {"None", "No", "Yes"}
    BY DEF IsXact
  <2>7. f[0].n \in 0 .. 0 /\ ~(0 >= 1) /\ 1 .. f[0].n = {}
    BY <2>4
  <2> HIDE DEF p
  <2> QED BY <2>4, <2>5, <2>6, <2>7 DEF LoopAt, p
<1>4. ASSUME NEW i \in 1 .. n, LoopAt(x, w, ms, i - 1, f[i - 1])
      PROVE  LoopAt(x, w, ms, i, f[i])
  <2> DEFINE a == f[i - 1]
  <2>1. f[i] = NextAccount(x, r, a, i) /\ r.msgs[i] = ms[i] /\ i \in 1 .. Len(ms) /\ i - 1 \in Nat
    BY <1>0, <1>1
  <2>2. LoopAt(x, w, ms, i - 1, a)
    BY <1>4
  <2> HIDE DEF a
  <2>3. CASE a.end # "no"
    <3>1. f[i] = a
      BY <2>1, <2>3 DEF NextAccount
    <3>2. a.n >= 1
      BY <2>2, <2>3 DEF LoopAt
    <3>3. a.n \in 0 .. i
      BY <2>1, <2>2 DEF LoopAt
    <3> QED BY <3>1, <3>2, <3>3, <2>2, <2>3 DEF LoopAt
  <2>4. CASE a.end = "no"
    <3>1. f[i] = PutOne(y, a, ms[i], Hook[x.cmds[a.off]][a.step])
      BY <2>1, <2>4 DEF NextAccount
    <3>2. x.fatal \in {"None", "No", "Yes"}
      BY DEF IsXact
    <3> HIDE DEF y
    <3>3. LoopAt(x, w, ms, i, PutOne(y, a, ms[i], Hook[x.cmds[a.off]][a.step]))
      BY <2>1, <2>2, <2>4, <1>2, <3>2, LoopStep
    <3> QED BY <3>1, <3>3
  <2> QED BY <2>3, <2>4
<1>5. \A i \in 0 .. n : LoopAt(x, w, ms, i, f[i])
  <2> DEFINE S == {i \in Nat : i <= n => LoopAt(x, w, ms, i, f[i])}
  <2>1. 0 \in S
    BY <1>3
  <2>2. ASSUME NEW i \in S PROVE i + 1 \in S
    <3>1. ASSUME i + 1 <= n PROVE LoopAt(x, w, ms, i + 1, f[i + 1])
      <4>1. PICK j : j = i + 1
        OBVIOUS
      <4>2. j \in 1 .. n /\ j - 1 = i /\ i <= n
        BY <4>1, <3>1, <1>0
      <4>3. LoopAt(x, w, ms, j - 1, f[j - 1])
        BY <4>2
      <4>4. LoopAt(x, w, ms, j, f[j])
        BY <4>2, <4>3, <1>4
      <4> QED BY <4>1, <4>4
    <3>2. i + 1 \in Nat
      OBVIOUS
    <3> QED BY <3>1, <3>2
  <2>3. S = Nat
    <3>1. S \in SUBSET Nat
      OBVIOUS
    <3> HIDE DEF S
    <3> QED BY <3>1, <2>1, <2>2, Inductive
  <2> QED BY <2>3, <1>0
<1> QED BY <1>0, <1>1, <1>5

-----------------------------------------------------------------------------
(* The instruction after a chunk.                                          *)

\* What ends a COPY that the client gives up, and one message of its data.
EndOf(x, o) == <<[k |-> "fail", id |-> x.id, at |-> o, no |-> 0]>> \o Reissued(x, o)
DataOf(x) == [k |-> "data", id |-> x.id, at |-> x.last.to.off, no |-> 0]
\* From the place after n on, the messages are the commands from j on.
Rest(x, pipe, j, n) ==
  /\ Len(pipe) - n = Len(x.cmds) + 1 - j
  /\ \A i \in (n + 1) .. Len(pipe) :
       pipe[i].k = x.cmds[j + i - n - 1] /\ pipe[i].id = x.id /\ pipe[i].at = j + i - n - 1
\* A receiving instruction, one that begins and one that sends the data of a COPY.
Receives(x) ==
  /\ x.messages = <<>> /\ x.op \in {"standard_put", "put_tupledata", "put_copydata"}
  /\ x.op = "put_tupledata" /\ x.cmds[x.last.to.off] = "E" => x.last.to.step = 2

\* All commands are to be sent.
Begins(x) ==
  x.op = "standard_sent" /\ x.last.to = P0 /\ Rest(x, x.messages, 1, 0)

\* The data of a COPY are sent, or what ends them.
Supplies(x) ==
  /\ x.op = "sent_from_stdin" /\ x.cmds[x.last.to.off] \in {"Q", "E"}
  /\ \/ x.messages = <<>> \/ x.messages = <<DataOf(x)>>
     \/ \E k \in {"done", "fail"} : x.messages = CopySequence(x, k)

\* An instruction that is not complete, and one of the same commands.
Runs(x) ==
  /\ InOrder(x.cmds) /\ x.last.to \in Places(x.cmds) /\ x.last.to.off <= Len(x.cmds)
  /\ IsList(x.messages)
  /\ x.state = "Receiving" => Receives(x)
  /\ x.state = "Sending" => Begins(x) \/ Supplies(x)

\* The same commands under the same identity.
Same(x, y) == y.id = x.id /\ y.cmds = x.cmds

\* The instruction y after n of the messages ms have been put into x.
Outcome(x, w, ms, of, n, y) ==
  /\ IsXact(y) /\ Same(x, y)
  /\ \/ y.state = "Complete" /\ y.fatal = "Yes" /\ ms[n].k = "FATAL"
     \/ y.state = "Complete" /\ y.fatal \in {x.fatal, "No"} /\ w[n].off = Len(x.cmds) + 1
     \/ /\ y.state \in {"Receiving", "Sending"} /\ y.fatal \in {x.fatal, "No"}
        /\ y.last.to = w[n] /\ y.last.of = of /\ Runs(y)
        /\ y.state = "Sending" => y.op = "sent_from_stdin" /\ y.messages = <<>> /\ \E l \in 1 .. n : ms[l].k = "G"
        /\ (\E l \in 1 .. n : ms[l].k = "G" /\ \A j \in (l + 1) .. n : ms[j].k = "A") => y.state = "Sending"

\* Storing what a chunk brought changes no other field.
LEMMA Stores ==
  ASSUME NEW x, IsXact(x), NEW r, NEW ms, NEW y, y = Store(x, r, ms)
  PROVE  /\ IsXact(y) /\ Same(x, y) /\ y.state = x.state /\ y.op = x.op /\ y.messages = x.messages
         /\ y.last = x.last /\ y.fatal = x.fatal
<1>1. CASE x.stored = r.id
  BY <1>1 DEF Store, Same
<1>2. CASE x.stored # r.id
  <2> DEFINE u == x.rows \o RowsOf(ms)
             z == [x EXCEPT !.stored = r.id]
  <2>1. y = [x EXCEPT !.stored = r.id, !.rows = @ \o RowsOf(ms)]
    BY <1>2 DEF Store
  <2>2. z = Xact(x.id, x.cmds, x.state, x.op, x.messages, x.last, r.id, x.rows, x.asyncs, x.fatal)
    BY DEF IsXact, Xact
  <2>3. z.rows = x.rows
    BY <2>2 DEF Xact
  <2>4. y = [z EXCEPT !.rows = u]
    BY <2>1, <2>3
  <2> HIDE DEF z, u
  <2>5. y = Xact(x.id, x.cmds, x.state, x.op, x.messages, x.last, r.id, u, x.asyncs, x.fatal)
    BY <2>2, <2>4 DEF Xact
  <2> QED BY <2>5 DEF IsXact, Xact, Same
<1> QED BY <1>1, <1>2

\* What becomes of the fields of an instruction one of which is replaced.
LEMMA Replaces ==
  ASSUME NEW x, IsXact(x), NEW v
  PROVE  /\ v \in {"Sending", "Receiving", "Complete"} =>
              [x EXCEPT !.state = v] = Xact(x.id, x.cmds, v, x.op, x.messages, x.last, x.stored, x.rows, x.asyncs, x.fatal)
         /\ [x EXCEPT !.op = v] = Xact(x.id, x.cmds, x.state, v, x.messages, x.last, x.stored, x.rows, x.asyncs, x.fatal)
         /\ [x EXCEPT !.messages = v] = Xact(x.id, x.cmds, x.state, x.op, v, x.last, x.stored, x.rows, x.asyncs, x.fatal)
         /\ [x EXCEPT !.last = v] = Xact(x.id, x.cmds, x.state, x.op, x.messages, v, x.stored, x.rows, x.asyncs, x.fatal)
         /\ [x EXCEPT !.fatal = v] = Xact(x.id, x.cmds, x.state, x.op, x.messages, x.last, x.stored, x.rows, x.asyncs, v)
         /\ [x EXCEPT !.asyncs = v] = Xact(x.id, x.cmds, x.state, x.op, x.messages, x.last, x.stored, x.rows, v, x.fatal)
  BY DEF IsXact, Xact

\* An account carried to the end of the loop makes an outcome.
LEMMA Accounts ==
  ASSUME NEW x, IsXact(x), Runs(x), x.op = "standard_put", x.state = "Receiving", NEW w, NEW ms, IsList(ms),
         Way(x, w, ms), NEW r, NEW n \in 1 .. Len(ms), NEW a, LoopAt(x, w, ms, n, a),
         a.end = "no" => a.n = n
  PROVE  Outcome(x, w, ms, r.id, a.n, Accounted(x, r, a).x)
<1> DEFINE b == [x EXCEPT !.fatal = a.fatal]
           t == a.kept \cup ToSet(a.told)
           x1 == [x EXCEPT !.fatal = a.fatal, !.asyncs = t]
           v == [of |-> r.id, from |-> x.last.to, to |-> [off |-> a.off, step |-> a.step]]
           x2 == [Store(x1, r, a.proc) EXCEPT !.last = v]
           y == Accounted(x, r, a).x
           N == Len(x.cmds)
<1>1. /\ a.proc \in Seq(ToSet(ms)) /\ a.end \in {"no", "done", "early"} /\ a.fatal \in {"None", "No", "Yes"}
      /\ a.n \in 1 .. n
      /\ a.end # "early" => At(a.off, a.step) = w[a.n] /\ a.fatal \in {x.fatal, "No"}
      /\ a.end = "no" => a.off <= N
      /\ a.end = "done" => a.off = N + 1
      /\ a.end = "early" => ms[a.n].k = "FATAL" /\ a.fatal = "Yes"
      /\ a.proc # <<>> /\ a.proc[Len(a.proc)].k = "D" /\ a.off <= N /\ x.cmds[a.off] = "E" => a.step = 2
      /\ a.proc # <<>> /\ a.proc[Len(a.proc)].k = "G" => \E l \in 1 .. a.n : ms[l].k = "G"
      /\ \A l \in 1 .. a.n :
           ms[l].k = "G" /\ (\A j \in (l + 1) .. a.n : ms[j].k = "A")
             => a.proc # <<>> /\ a.proc[Len(a.proc)].k = "G" /\ x.cmds[a.off] \in {"E", "Q"}
  BY DEF LoopAt
<1>2. /\ IsXact(x1) /\ Same(x, x1) /\ x1.state = "Receiving" /\ x1.op = "standard_put" /\ x1.messages = <<>>
      /\ x1.fatal = a.fatal /\ x1.last = x.last
  <2>1. b = Xact(x.id, x.cmds, x.state, x.op, x.messages, x.last, x.stored, x.rows, x.asyncs, a.fatal)
    <3>1. PICK f : f = a.fatal
      OBVIOUS
    <3>2. b = [x EXCEPT !.fatal = f]
      BY <3>1
    <3> HIDE DEF b
    <3>3. b = Xact(x.id, x.cmds, x.state, x.op, x.messages, x.last, x.stored, x.rows, x.asyncs, f)
      BY <3>2, Replaces, ZenonT(60)
    <3> QED BY <3>1, <3>3
  <2>2. x1 = [b EXCEPT !.asyncs = t]
    OBVIOUS
  <2> HIDE DEF b, t
  <2>3. x1 = Xact(x.id, x.cmds, x.state, x.op, x.messages, x.last, x.stored, x.rows, t, a.fatal)
    BY <2>1, <2>2 DEF Xact
  <2> HIDE DEF x1
  <2>4. x.messages = <<>>
    BY DEF Runs, Receives
  <2> QED BY <1>1, <2>3, <2>4 DEF Xact, IsXact, Same
<1>3. y = IF a.end = "early" THEN [x1 EXCEPT !.state = "Complete"] ELSE Switched(x2, a)
  BY DEF Accounted
<1> HIDE DEF x1, v, y
<1>4. /\ IsXact(x2) /\ Same(x, x2) /\ x2.state = "Receiving" /\ x2.op = "standard_put" /\ x2.messages = <<>>
      /\ x2.fatal = a.fatal /\ x2.last = v
  <2>1. PICK z : z = Store(x1, r, a.proc)
    OBVIOUS
  <2>2. /\ IsXact(z) /\ Same(x1, z) /\ z.state = "Receiving" /\ z.op = "standard_put" /\ z.messages = <<>>
        /\ z.fatal = a.fatal
    BY <2>1, <1>2, Stores
  <2>3. x2 = [z EXCEPT !.last = v]
    BY <2>1
  <2> HIDE DEF x2
  <2>4. x2 = Xact(z.id, z.cmds, z.state, z.op, z.messages, v, z.stored, z.rows, z.asyncs, z.fatal)
    BY <2>2, <2>3, Replaces, ZenonT(60)
  <2> QED BY <1>2, <2>2, <2>4 DEF IsXact, Xact, Same
<1> HIDE DEF x2
<1>5. v.of = r.id /\ v.to = At(a.off, a.step)
  BY DEF v, At
<1>6. CASE a.end = "early"
  <2>1. y = [x1 EXCEPT !.state = "Complete"]
    BY <1>3, <1>6
  <2>2. y = Xact(x1.id, x1.cmds, "Complete", x1.op, x1.messages, x1.last, x1.stored, x1.rows, x1.asyncs, x1.fatal)
    BY <2>1, <1>2, Replaces, ZenonT(60)
  <2>3. IsXact(y) /\ Same(x, y) /\ y.state = "Complete" /\ y.fatal = "Yes"
    BY <1>1, <1>2, <1>6, <2>2 DEF IsXact, Xact, Same
  <2>4. ms[a.n].k = "FATAL"
    BY <1>1, <1>6
  <2> QED BY <2>3, <2>4 DEF Outcome, y
<1>7. CASE a.end # "early" /\ a.off > Len(x.cmds)
  <2>1. y = [x2 EXCEPT !.state = "Complete"]
    BY <1>3, <1>7, <1>4 DEF Switched, Same
  <2>2. y = Xact(x2.id, x2.cmds, "Complete", x2.op, x2.messages, x2.last, x2.stored, x2.rows, x2.asyncs, x2.fatal)
    BY <2>1, <1>4, Replaces, ZenonT(60)
  <2>3. IsXact(y) /\ Same(x, y) /\ y.state = "Complete" /\ y.fatal = a.fatal
    BY <1>4, <2>2 DEF IsXact, Xact, Same
  <2>4. a.end = "done"
    <3>1. N \in Nat
      BY OrderFacts DEF Runs
    <3>2. a.off \in Nat
      BY <1>1, <1>7, <3>1 DEF Way, Places, Positions, At
    <3> QED BY <1>1, <1>7, <3>1, <3>2
  <2>5. w[a.n].off = N + 1
    BY <1>1, <2>4 DEF At
  <2> QED BY <2>3, <2>5, <1>1, <1>7 DEF Outcome, y
<1>8. CASE a.end # "early" /\ ~(a.off > Len(x.cmds))
  <2>1. w[a.n] \in Places(x.cmds) /\ w[a.n].off = a.off /\ At(a.off, a.step) = w[a.n] /\ a.fatal \in {x.fatal, "No"}
    BY <1>1, <1>8 DEF Way, At
  <2>2. a.off \in 1 .. N /\ N \in Nat
    <3>1. N \in Nat
      BY OrderFacts DEF Runs
    <3> QED BY <2>1, <3>1, <1>8 DEF Places, Positions
  <2>3. InOrder(x.cmds)
    BY DEF Runs
  <2>4. IsList(<<>>)
    BY DEF IsList, ToSet
  <2>5. y = Switched(x2, a)
    BY <1>3, <1>8
  <2>6. CASE a.proc # <<>> /\ a.proc[Len(a.proc)].k \in {"d", "H", "D", "G"} /\ x.cmds[a.off] \in {"E", "Q"}
    <3> DEFINE k == a.proc[Len(a.proc)].k
               o == CASE k \in {"d", "H"} -> "put_copydata" [] k = "D" -> "put_tupledata" [] k = "G" -> "sent_from_stdin"
               s == IF k = "G" THEN "Sending" ELSE "Receiving"
    <3>1. y = [x2 EXCEPT !.state = s, !.op = o]
      <4>1. /\ ~(a.off > Len(x2.cmds)) /\ ~(x2.cmds[a.off] \notin {"E", "Q"} \/ a.proc = <<>>)
            /\ Last(a.proc).k = k
        BY <2>6, <2>2, <1>4, <1>8 DEF Last, Same
      <4>2. y = CASE k \in {"d", "H"} -> [x2 EXCEPT !.state = "Receiving", !.op = "put_copydata"]
                  [] k = "D" -> [x2 EXCEPT !.state = "Receiving", !.op = "put_tupledata"]
                  [] k = "G" -> [x2 EXCEPT !.state = "Sending", !.op = "sent_from_stdin"]
                  [] OTHER -> x2
        BY <2>5, <4>1, Zenon DEF Switched
      <4>3. k \in {"d", "H", "D", "G"}
        BY <2>6
      <4> HIDE DEF k
      <4>4. CASE k \in {"d", "H"}
        BY <4>2, <4>4, Zenon
      <4>5. CASE k = "D"
        BY <4>2, <4>5, Zenon
      <4>6. CASE k = "G"
        BY <4>2, <4>6, Zenon
      <4> QED BY <4>3, <4>4, <4>5, <4>6
    <3>2. s \in {"Sending", "Receiving", "Complete"}
      OBVIOUS
    <3>3. /\ s = "Sending" => k = "G" /\ o = "sent_from_stdin"
          /\ s = "Receiving" => k # "G" /\ o \in {"put_copydata", "put_tupledata"}
          /\ o = "put_tupledata" => k = "D"
      BY <2>6
    <3> HIDE DEF o, s
    <3>4. /\ IsXact(y) /\ Same(x2, y) /\ y.state = s /\ y.op = o /\ y.messages = <<>>
          /\ y.last = v /\ y.fatal = a.fatal
      <4>1. /\ IsXact(y) /\ Same(x2, y) /\ y.state = s /\ y.op = o /\ y.messages = x2.messages
            /\ y.last = x2.last /\ y.fatal = x2.fatal
        <5>1. IsXact(x2)
          BY <1>4
        <5>2. PICK u : u = y
          OBVIOUS
        <5>21. PICK z : z = [x2 EXCEPT !.state = s]
          OBVIOUS
        <5>3. u = [z EXCEPT !.op = o]
          BY <3>1, <5>2, <5>21
        <5>4. /\ IsXact(u) /\ Same(x2, u) /\ u.state = s /\ u.op = o /\ u.messages = x2.messages
              /\ u.last = x2.last /\ u.fatal = x2.fatal
          <6>1. z = Xact(x2.id, x2.cmds, s, x2.op, x2.messages, x2.last, x2.stored, x2.rows, x2.asyncs, x2.fatal)
            BY <5>1, <5>21, <3>2, Replaces, Zenon
          <6>2. u = Xact(x2.id, x2.cmds, s, o, x2.messages, x2.last, x2.stored, x2.rows, x2.asyncs, x2.fatal)
            BY <5>3, <6>1 DEF Xact
          <6>3. x2.fatal \in {"None", "No", "Yes"}
            BY <5>1 DEF IsXact
          <6> QED BY <6>2, <6>3, <3>2 DEF IsXact, Xact, Same
        <5> QED BY <5>2, <5>4
      <4> QED BY <4>1, <1>4
    <3>5. Same(x, y) /\ y.last.to = w[a.n] /\ y.last.of = r.id
      BY <3>4, <1>4, <1>5, <2>1 DEF Same
    <3>6. s = "Receiving" => Receives(y)
      BY <3>3, <3>4, <3>5, <1>1, <1>5, <2>1, <2>2, <2>6 DEF Receives, Same, At
    <3>7. s = "Sending" => Supplies(y)
      BY <3>3, <3>4, <3>5, <2>1, <2>6 DEF Supplies, Same
    <3>8. Runs(y)
      BY <3>3, <3>4, <3>5, <3>6, <3>7, <2>1, <2>2, <2>3, <2>4 DEF Runs, Same
    <3>9. s = "Sending" => \E l \in 1 .. a.n : ms[l].k = "G"
      BY <3>3, <2>6, <1>1
    <3>10. (\E l \in 1 .. a.n : ms[l].k = "G" /\ \A j \in (l + 1) .. a.n : ms[j].k = "A") => s = "Sending"
      BY <1>1, <2>6, Zenon DEF s
    <3>11. s \in {"Receiving", "Sending"}
      BY DEF s
    <3> QED BY <3>3, <3>4, <3>5, <3>8, <3>9, <3>10, <3>11, <2>1 DEF Outcome, y
  <2>7. CASE ~(a.proc # <<>> /\ a.proc[Len(a.proc)].k \in {"d", "H", "D", "G"} /\ x.cmds[a.off] \in {"E", "Q"})
    <3>1. y = x2
      BY <2>5, <2>7, <2>2, <1>4 DEF Switched, Last, Same
    <3>2. y.last.to = w[a.n] /\ y.last.of = r.id
      BY <3>1, <1>4, <1>5, <2>1
    <3>3. Receives(y)
      BY <3>1, <1>4 DEF Receives
    <3>4. Runs(y)
      BY <3>1, <3>2, <3>3, <1>4, <2>1, <2>2, <2>3, <2>4 DEF Runs, Same
    <3>5. ASSUME NEW l \in 1 .. a.n, ms[l].k = "G", \A j \in (l + 1) .. a.n : ms[j].k = "A" PROVE FALSE
      <4>1. a.proc # <<>> /\ a.proc[Len(a.proc)].k = "G" /\ x.cmds[a.off] \notin {"E", "Q"}
        BY <3>5, <2>7, <1>1
      <4> QED BY <4>1, <3>5, <1>1
    <3> QED BY <3>1, <3>2, <3>4, <3>5, <1>4, <2>1 DEF Outcome, y
  <2> QED BY <2>6, <2>7
<1> QED BY <1>6, <1>7, <1>8

\* Messages that lead nowhere else leave the position alone.
Still(x, w, ms, b, n) == \A j \in (b + 1) .. n : \A q : Leads(x, w[b], ms[j], q) => q = w[b]

\* Along messages that lead nowhere else the position is the same.
LEMMA Stays ==
  ASSUME NEW x, NEW w, NEW ms, IsList(ms), Way(x, w, ms), NEW b \in 0 .. Len(ms), NEW n \in b .. Len(ms),
         Still(x, w, ms, b, n)
  PROVE  \A j \in b .. n : w[j] = w[b]
<1>0. Len(ms) \in Nat /\ b \in Nat /\ n \in Nat
  BY DEF IsList
<1> DEFINE S == {i \in Nat : b + i <= n => w[b + i] = w[b]}
<1>1. 0 \in S
  BY <1>0
<1>2. ASSUME NEW i \in S PROVE i + 1 \in S
  <2>1. PICK j : j = b + (i + 1)
    OBVIOUS
  <2>2. ASSUME j <= n PROVE w[j] = w[b]
    <3>1. j \in (b + 1) .. n /\ j \in 1 .. Len(ms) /\ j - 1 = b + i
      BY <1>0, <2>1, <2>2
    <3>2. w[j - 1] = w[b]
      BY <1>0, <3>1
    <3>3. Leads(x, w[j - 1], ms[j], w[j])
      BY <3>1 DEF Way
    <3>4. Leads(x, w[b], ms[j], w[j])
      BY <3>2, <3>3
    <3> QED BY <3>1, <3>4 DEF Still
  <2>3. i + 1 \in Nat
    OBVIOUS
  <2> QED BY <2>1, <2>2, <2>3
<1>3. S = Nat
  <2>1. S \in SUBSET Nat
    OBVIOUS
  <2> HIDE DEF S
  <2> QED BY <2>1, <1>1, <1>2, Inductive
<1>4. ASSUME NEW j \in b .. n PROVE w[j] = w[b]
  <2>1. PICK i : i = j - b
    OBVIOUS
  <2>2. i \in Nat /\ b + i = j /\ j <= n
    BY <1>0, <2>1
  <2>3. i \in S
    BY <1>3, <2>2
  <2> QED BY <2>2, <2>3
<1> QED BY <1>4

\* standard_put on a chunk of the way.
LEMMA StandardOutcome ==
  ASSUME NEW x, IsXact(x), Runs(x), x.op = "standard_put", x.state = "Receiving", NEW w, NEW ms, IsList(ms),
         Way(x, w, ms), NEW r, r.id # x.last.of, NEW n, n = Len(r.msgs), n \in 1 .. Len(ms),
         \A i \in 1 .. n : r.msgs[i] = ms[i], NEW p, p = StandardPut(x, r)
  PROVE  /\ p.a.n \in 1 .. n /\ Outcome(x, w, ms, r.id, p.a.n, p.x) /\ IsAccount(p.a)
<1> DEFINE a == PutAll(x, r, Len(r.msgs))
<1>0. Len(ms) \in Nat /\ n \in Nat
  BY DEF IsList
<1>1. InOrder(x.cmds) /\ x.last.to.off <= Len(x.cmds)
  BY DEF Runs
<1>2. LoopAt(x, w, ms, n, a)
  BY <1>0, <1>1, Walk
<1>3. p = Accounted(x, r, a)
  BY DEF StandardPut
<1> HIDE DEF a
<1>4. p.a = a
  BY <1>3 DEF Accounted
<1>5. a.n \in 1 .. n /\ (a.end = "no" => a.n = n) /\ IsAccount(a)
  BY <1>0, <1>2 DEF LoopAt
<1>6. Outcome(x, w, ms, r.id, a.n, Accounted(x, r, a).x)
  BY <1>2, <1>5, Accounts
<1> QED BY <1>3, <1>4, <1>5, <1>6

\* How many of the messages at the beginning are of a kind.
LEMMA Leading ==
  ASSUME NEW ms, Len(ms) \in Nat, NEW kind
  PROVE  \E k \in 0 .. Len(ms) : /\ \A i \in 1 .. k : ms[i].k = kind
                                 /\ k = Len(ms) \/ ms[k + 1].k # kind
<1>0. PICK n \in Nat : n = Len(ms)
  OBVIOUS
<1> DEFINE S == {j \in 0 .. n : j = n \/ ms[j + 1].k # kind}
<1>1. S \in SUBSET Nat /\ n \in S
  OBVIOUS
<1>2. PICK k \in S : \A y \in S : k <= y
  BY <1>1, Earliest
<1>3. ASSUME NEW i \in 1 .. k PROVE ms[i].k = kind
  <2>1. PICK j : j = i - 1
    OBVIOUS
  <2>2. j \in 0 .. n /\ ~(k <= j) /\ j # n /\ j + 1 = i
    BY <1>2, <2>1
  <2>3. j \notin S
    BY <1>2, <2>2
  <2> QED BY <2>2, <2>3
<1> QED BY <1>0, <1>2, <1>3

\* A row or a COPY line is taken at the position where rows are expected, and leaves it.
LEMMA RowsStay ==
  ASSUME NEW x, InOrder(x.cmds), NEW p \in Places(x.cmds), p.off <= Len(x.cmds), NEW m, NEW q, Leads(x, p, m, q),
         m.k = "d" \/ (m.k = "D" /\ (x.cmds[p.off] = "E" => p.step = 2))
  PROVE  q = p /\ m.id = x.id /\ m.at = p.off
<1>1. /\ m.at = p.off /\ m.id = x.id /\ m.k \in DOMAIN Expected(x.cmds, p)
      /\ q = IF Expected(x.cmds, p)[m.k] = 0 THEN At(NextCmd(x.cmds, p.off), 1)
                  ELSE At(p.off, Expected(x.cmds, p)[m.k])
  BY DEF Leads
<1>2. /\ x.cmds[p.off] \in DOMAIN Hook /\ p.step \in 1 .. Len(Hook[x.cmds[p.off]]) /\ p = At(p.off, p.step)
  BY DEF Places, Positions, At
<1>3. Expected(x.cmds, p)[m.k] = p.step /\ p.step # 0
  <2>1. PICK c : c = x.cmds[p.off]
    OBVIOUS
  <2>2. PICK i : i = p.step
    OBVIOUS
  <2>3. c \in DOMAIN Hook /\ i \in 1 .. Len(Hook[c]) /\ Expected(x.cmds, p) = Hook[c][i]
    BY <1>2, <2>1, <2>2 DEF Expected
  <2>4. /\ "D" \in DOMAIN Hook[c][i] => Hook[c][i]["D"] # 0 /\ (c = "E" => Hook[c][i]["D"] = 2)
                                       /\ (c # "E" => Hook[c][i]["D"] = i)
        /\ "d" \in DOMAIN Hook[c][i] => Hook[c][i]["d"] = i /\ i # 0
    BY <2>3, RowsFrom
  <2>5. CASE m.k = "d"
    BY <2>2, <2>3, <2>4, <2>5, <1>1
  <2>6. CASE m.k = "D" /\ (c = "E" => i = 2)
    BY <2>2, <2>3, <2>4, <2>6, <1>1
  <2> QED BY <2>1, <2>2, <2>5, <2>6
<1> QED BY <1>1, <1>2, <1>3

\* The chunk r is a first part of the messages ms that lead x along w.
Chunked(x, w, ms, r) ==
  /\ IsXact(x) /\ Runs(x) /\ x.state = "Receiving" /\ IsList(ms) /\ Way(x, w, ms) /\ r.id # x.last.of
  /\ Len(r.msgs) \in 1 .. Len(ms) /\ \A i \in 1 .. Len(r.msgs) : r.msgs[i] = ms[i]

\* What put makes of the chunk.
Processed(x, w, ms, r, p) ==
  /\ p.a.n \in 1 .. Len(r.msgs) /\ Outcome(x, w, ms, r.id, p.a.n, p.x)
  /\ p.a.stray = FALSE /\ p.a.broke = FALSE

\* What putting a chunk into a receiving instruction does, whichever path takes it.
LEMMA PutOutcome ==
  ASSUME NEW x, NEW w, NEW ms, NEW r, Chunked(x, w, ms, r), NEW p, p = Put(x, r)
  PROVE  Processed(x, w, ms, r, p)
<1>n. PICK n : n = Len(r.msgs)
  OBVIOUS
<1> SUFFICES ASSUME IsXact(x), Runs(x), x.state = "Receiving", IsList(ms), Way(x, w, ms), r.id # x.last.of,
                    n \in 1 .. Len(ms), \A i \in 1 .. n : r.msgs[i] = ms[i], n = Len(r.msgs)
             PROVE  /\ p.a.n \in 1 .. n /\ Outcome(x, w, ms, r.id, p.a.n, p.x)
                    /\ p.a.stray = FALSE /\ p.a.broke = FALSE
  BY <1>n DEF Chunked, Processed
<1>0. Len(ms) \in Nat /\ n \in Nat
  BY DEF IsList
<1>1. /\ InOrder(x.cmds) /\ x.last.to.off <= Len(x.cmds) /\ x.last.to \in Places(x.cmds)
      /\ x.messages = <<>> /\ x.op \in {"standard_put", "put_tupledata", "put_copydata"}
      /\ x.op = "put_tupledata" /\ x.cmds[x.last.to.off] = "E" => x.last.to.step = 2
  BY DEF Runs, Receives
<1> DEFINE z == [x EXCEPT !.op = "standard_put"]
<1>2. /\ IsXact(z) /\ Same(x, z) /\ z.state = "Receiving" /\ z.op = "standard_put" /\ z.messages = <<>>
      /\ z.last = x.last /\ z.fatal = x.fatal
  <2>1. z = Xact(x.id, x.cmds, x.state, "standard_put", x.messages, x.last, x.stored, x.rows, x.asyncs, x.fatal)
    BY Replaces, Zenon
  <2> HIDE DEF z
  <2> QED BY <2>1, <1>1 DEF IsXact, Xact, Same
<1>3. Runs(z) /\ Way(z, w, ms)
  BY <1>1, <1>2 DEF Runs, Receives, Way, Leads, Same
<1>4. ASSUME p = StandardPut(z, r)
      PROVE  p.a.n \in 1 .. n /\ Outcome(x, w, ms, r.id, p.a.n, p.x) /\ IsAccount(p.a)
  <2>1. p.a.n \in 1 .. n /\ Outcome(z, w, ms, r.id, p.a.n, p.x) /\ IsAccount(p.a)
    <3> HIDE DEF z
    <3> QED BY <1>2, <1>3, <1>4, StandardOutcome
  <2> QED BY <2>1, <1>2 DEF Outcome, Same
<1>5. CASE x.op = "standard_put"
  <2>1. p = StandardPut(x, r)
    BY <1>5 DEF Put
  <2>2. p.a.n \in 1 .. n /\ Outcome(x, w, ms, r.id, p.a.n, p.x) /\ IsAccount(p.a)
    BY <1>5, <2>1, StandardOutcome
  <2> QED BY <2>2 DEF IsAccount, Account
<1>6. ASSUME NEW kind, NEW whole, p = FastPut(x, r, kind, whole),
             kind = "d" \/ (kind = "D" /\ (x.cmds[x.last.to.off] = "E" => x.last.to.step = 2))
      PROVE  /\ p.a.n \in 1 .. n /\ Outcome(x, w, ms, r.id, p.a.n, p.x)
             /\ p.a.stray = FALSE /\ p.a.broke = FALSE
  <2> DEFINE K(j) == /\ \A i \in 1 .. j : r.msgs[i].k = kind
                     /\ j = Len(r.msgs) \/ r.msgs[j + 1].k # kind
             k == CHOOSE j \in 0 .. Len(r.msgs) : K(j)
             y == Store(x, r, SubSeq(r.msgs, 1, k))
             v == [of |-> r.id, from |-> x.last.to, to |-> x.last.to]
             e == \E i \in 1 .. k : <<r.msgs[i].id, r.msgs[i].at>> # <<x.id, x.last.to.off>>
  <2>1. k \in 0 .. n /\ \A i \in 1 .. k : r.msgs[i].k = kind
    <3>1. \E j \in 0 .. Len(r.msgs) : K(j)
      <4>1. PICK u : u = r.msgs
        OBVIOUS
      <4>2. Len(u) \in Nat
        BY <4>1, <1>0
      <4>3. \E j \in 0 .. Len(u) : (\A i \in 1 .. j : u[i].k = kind) /\ (j = Len(u) \/ u[j + 1].k # kind)
        BY <4>2, Leading
      <4> QED BY <4>1, <4>3
    <3> HIDE DEF K
    <3>2. k \in 0 .. Len(r.msgs) /\ K(k)
      BY <3>1
    <3> QED BY <3>2 DEF K
  <2>2. p = IF k = 0 \/ (whole /\ k < Len(r.msgs)) THEN StandardPut(z, r)
            ELSE [ x |-> [y EXCEPT !.last = v],
                   a |-> [ n |-> k, told |-> <<>>, broke |-> FALSE, stray |-> e ] ]
    BY <1>6, Zenon DEF FastPut
  <2>3. CASE k = 0 \/ (whole /\ k < Len(r.msgs))
    <3>1. p = StandardPut(z, r)
      BY <2>2, <2>3
    <3>2. p.a.n \in 1 .. n /\ Outcome(x, w, ms, r.id, p.a.n, p.x) /\ IsAccount(p.a)
      BY <3>1, <1>4
    <3> QED BY <3>2 DEF IsAccount, Account
  <2>4. CASE ~(k = 0 \/ (whole /\ k < Len(r.msgs)))
    <3>1. PICK u : u = [y EXCEPT !.last = v]
      OBVIOUS
    <3>2. p = [ x |-> u, a |-> [ n |-> k, told |-> <<>>, broke |-> FALSE, stray |-> e ] ]
      BY <2>2, <2>4, <3>1, Zenon
    <3>3. p.x = u /\ p.a.n = k /\ p.a.broke = FALSE /\ p.a.stray = e
      <4> HIDE DEF e, k
      <4> QED BY <3>2
    <3> HIDE DEF k
    <3>4. k \in 1 .. n
      BY <2>1, <2>4, <1>0
    <3>5. w[0] = x.last.to /\ w[0] \in Places(x.cmds)
      BY <1>0 DEF Way
    <3>6. \A j \in 1 .. k : \A q : Leads(x, w[0], ms[j], q) => q = w[0] /\ ms[j].id = x.id /\ ms[j].at = w[0].off
      <4>1. SUFFICES ASSUME NEW j \in 1 .. k, NEW q, Leads(x, w[0], ms[j], q)
                     PROVE  q = w[0] /\ ms[j].id = x.id /\ ms[j].at = w[0].off
        OBVIOUS
      <4>2. ms[j].k = kind
        BY <2>1, <3>4
      <4> QED BY <4>1, <4>2, <3>5, <1>1, <1>6, RowsStay
    <3>7. \A j \in 0 .. k : w[j] = w[0]
      <4>1. 0 \in 0 .. Len(ms) /\ k \in 0 .. Len(ms) /\ 0 + 1 = 1
        BY <1>0, <3>4
      <4>2. \A j \in (0 + 1) .. k : \A q : Leads(x, w[0], ms[j], q) => q = w[0]
        BY <3>6, <4>1, Zenon
      <4>3. \A j \in 0 .. k : w[j] = w[0]
        <5>1. PICK b : b = 0
          OBVIOUS
        <5>2. b \in 0 .. Len(ms) /\ k \in b .. Len(ms) /\ \A j \in (b + 1) .. k : \A q : Leads(x, w[b], ms[j], q) => q = w[b]
          BY <4>1, <4>2, <5>1, <3>4, <1>0
        <5>3. \A j \in b .. k : w[j] = w[b]
          <6>1. b \in 0 .. Len(ms) /\ k \in b .. Len(ms)
            BY <5>2
          <6>2. Still(x, w, ms, b, k)
            BY <5>2 DEF Still
          <6> QED BY <6>1, <6>2, Stays
        <5> QED BY <5>1, <5>3
      <4> QED BY <4>3
    <3>8. e = FALSE
      <4>1. ASSUME NEW i \in 1 .. k PROVE <<r.msgs[i].id, r.msgs[i].at>> = <<x.id, x.last.to.off>>
        <5>1. i \in 1 .. n /\ i \in 1 .. Len(ms) /\ i - 1 \in 0 .. k /\ i \in 0 .. k
          BY <1>0, <3>4
        <5>2. Leads(x, w[i - 1], ms[i], w[i])
          BY <5>1 DEF Way
        <5>3. Leads(x, w[0], ms[i], w[i])
          BY <5>1, <5>2, <3>7
        <5> QED BY <5>1, <5>3, <3>5, <3>6
      <4> QED BY <4>1
    <3>9. IsXact(y) /\ Same(x, y) /\ y.state = x.state /\ y.op = x.op /\ y.messages = x.messages /\ y.fatal = x.fatal
      <4>1. PICK l : l = SubSeq(r.msgs, 1, k)
        OBVIOUS
      <4>2. y = Store(x, r, l)
        BY <4>1
      <4> HIDE DEF y
      <4> QED BY <4>2, Stores
    <3> HIDE DEF y, v, e
    <3>10. u = Xact(y.id, y.cmds, y.state, y.op, y.messages, v, y.stored, y.rows, y.asyncs, y.fatal)
      BY <3>1, <3>9, Replaces, Zenon
    <3>11. /\ IsXact(u) /\ Same(x, u) /\ u.state = "Receiving" /\ u.op = x.op /\ u.messages = <<>> /\ u.fatal = x.fatal
           /\ u.last = v
      BY <3>9, <3>10, <1>1 DEF IsXact, Xact, Same
    <3>12. u.last.to = w[k] /\ u.last.of = r.id /\ u.last.to = x.last.to
      BY <3>11, <3>5, <3>7, <3>4 DEF v
    <3>13. Runs(u)
      <4>1. IsList(<<>>)
        BY DEF IsList, ToSet
      <4> QED BY <3>11, <3>12, <4>1, <1>1 DEF Runs, Receives, Same
    <3>14. \A l \in 1 .. k : ms[l].k # "G"
      BY <2>1, <3>4, <1>6
    <3>15. Outcome(x, w, ms, r.id, k, u)
      BY <3>11, <3>12, <3>13, <3>14 DEF Outcome
    <3> QED BY <3>3, <3>4, <3>8, <3>15
  <2> QED BY <2>3, <2>4
<1>7. CASE x.op = "put_copydata"
  <2>1. p = FastPut(x, r, "d", TRUE)
    BY <1>7 DEF Put
  <2> QED BY <2>1, <1>6
<1>8. CASE x.op = "put_tupledata"
  <2>1. p = FastPut(x, r, "D", ~wOptimized)
    BY <1>8 DEF Put
  <2> QED BY <2>1, <1>6, <1>1, <1>8
<1> QED BY <1>1, <1>5, <1>7, <1>8

-----------------------------------------------------------------------------
(* What is on its way, and the invariant of the connection.                *)

\* Lists of messages that nobody waits for: notices, and the data of a COPY that was ended; a list
\* with the message that begins a COPY.
Quiet(ms) == \A i \in 1 .. Len(ms) : ms[i].k \in {"A", "FATAL"}
Junk == {"data", "done", "fail"}
AllJunk(ms) == \A i \in 1 .. Len(ms) : ms[i].k \in Junk
Coming(ms) == \E i \in 1 .. Len(ms) : ms[i].k = "G"
\* What the instruction will still send: its messages, and what ends the COPY it is in or
\* will be in.
Closes(x) == x.op = "standard_sent" \/ (x.messages # <<>> /\ Head(x.messages).k \in {"done", "fail"})

\* What it owes the session.
Owed(x, o, coming) ==
  IF x.state = "Sending"
  THEN IF Closes(x) THEN x.messages ELSE x.messages \o EndOf(x, x.last.to.off)
  ELSE IF coming THEN EndOf(x, o) ELSE <<>>

\* The requests on their way, read in the state the session is in, lead to the end of x
\* from position p.
ServedIdle(x, pipe, p) ==
  \E n \in 0 .. Len(pipe), j \in 1 .. Len(x.cmds) + 1 :
    /\ \A i \in 1 .. n : pipe[i].k \in Junk
    /\ Rest(x, pipe, j, n)
    /\ p = At(NextCmd(x.cmds, j - 1), 1)

\* After an error the session ignores the rest up to Sync.
ServedIgnoring(x, pipe, p) ==
  \E n \in 0 .. Len(pipe), j \in 1 .. Len(x.cmds) :
    /\ \A i \in 1 .. n : pipe[i].k \in Junk
    /\ Rest(x, pipe, j, n)
    /\ p = At(Len(x.cmds), 1) /\ x.cmds[Len(x.cmds)] = "S"

\* In a COPY it takes data up to what ends them.
ServedCopying(x, pipe, p, simple) ==
  \E b \in 0 .. Len(pipe), n \in 0 .. Len(pipe) :
    /\ b < n
    /\ \A i \in 1 .. b : pipe[i].k \in {"L", "S"}
    /\ \A i \in (b + 1) .. (n - 1) : pipe[i].k = "data" /\ pipe[i].id = x.id /\ pipe[i].at = p.off
    /\ pipe[n].k \in {"done", "fail"} /\ pipe[n].id = x.id /\ pipe[n].at = p.off
    /\ Rest(x, pipe, p.off + 1, n)
    /\ p.off \in 1 .. Len(x.cmds)
    /\ \/ simple /\ x.cmds[p.off] = "Q" /\ p = At(p.off, 2)
       \/ ~simple /\ x.cmds[p.off] = "E" /\ p = At(p.off, 4)

\* By the mode of the session.
Served(x, pipe, p, srv) ==
  /\ srv.mode \in {"idle", "ignore", "copyin"}
  /\ srv.mode = "idle" => ServedIdle(x, pipe, p)
  /\ srv.mode = "ignore" => ServedIgnoring(x, pipe, p)
  /\ srv.mode = "copyin" => ServedCopying(x, pipe, p, srv.simple)
\* While the message that starts a COPY is on its way the session waits for its data.
Waits(x, srv, in, out) ==
  Coming(in) =>
    /\ x.state = "Receiving" /\ srv.mode = "copyin"
    /\ \A i \in 1 .. Len(out) : out[i].k \in {"L", "S"}
    /\ \A l \in 1 .. Len(in) : in[l].k = "G" => \A j \in (l + 1) .. Len(in) : in[j].k = "A"

\* The way of x through what is in flight, and what the session will do with what is on its way to it.
OnWay(x, w, srv, in, out) ==
  /\ Way(x, w, in)
  /\ srv.open => /\ Served(x, out \o Owed(x, w[Len(in)].off, Coming(in)), w[Len(in)], srv)
                 /\ Waits(x, srv, in, out)

\* An instruction that is over and left the connection in use.
Ended(x) == x = NoXact \/ (x.state = "Complete" /\ x.fatal # "Yes")
\* x: the instruction, srv: the session, in and out: what is on its way to the driver and
\* to the session, rid: the identity of the next chunk, op: the method that runs.
Settled(x, srv, in, out) ==
  /\ srv.reset => ~srv.open
  /\ \A i \in 1 .. Len(in) : in[i].k = "FATAL" => ~srv.open /\ i = Len(in)
  /\ Ended(x) => Quiet(in) /\ (srv.open => srv.mode = "idle" /\ AllJunk(out))
  /\ x # NoXact => IsXact(x) /\ (x.fatal = "Yes" => ~srv.open /\ (srv.reset \/ in = <<>>))
\* The last instruction of a connection that is gone, which will not be sent.
Useless(x, srv, op) == Begins(x) /\ x.state = "Sending" /\ op = "complete" /\ srv.reset

\* The invariant: what is settled when nothing runs, and the way of an instruction that does.
Sound(x, srv, in, out, rid, op) ==
  /\ Settled(x, srv, in, out)
  /\ x # NoXact /\ x.state # "Complete" =>
       /\ Runs(x) /\ x.last.of # rid
       /\ Useless(x, srv, op) \/ \E w : OnWay(x, w, srv, in, out)

\* Length, head and tail of a list.
LEMMA ListFacts ==
  ASSUME NEW s, IsList(s)
  PROVE  /\ Len(s) \in Nat /\ DOMAIN s = 1 .. Len(s)
         /\ s = <<>> <=> Len(s) = 0
         /\ s # <<>> => /\ Head(s) = s[1] /\ IsList(Tail(s)) /\ Len(Tail(s)) = Len(s) - 1
                        /\ \A i \in 1 .. Len(s) - 1 : Tail(s)[i] = s[i + 1]
<1>1. s \in Seq(ToSet(s))
  BY DEF IsList
<1>2. s # <<>> => Tail(s) \in Seq(ToSet(s))
  BY <1>1
<1>3. s # <<>> => IsList(Tail(s))
  BY <1>2, Listed
<1> QED BY <1>1, <1>3

\* The elements of a joined list.
LEMMA Joined ==
  ASSUME NEW a, IsList(a), NEW b, IsList(b)
  PROVE  /\ IsList(a \o b) /\ Len(a \o b) = Len(a) + Len(b)
         /\ \A i \in 1 .. Len(a) : (a \o b)[i] = a[i]
         /\ \A i \in 1 .. Len(b) : (a \o b)[Len(a) + i] = b[i]
<1> DEFINE T == ToSet(a) \cup ToSet(b)
<1>1. a \in Seq(T) /\ b \in Seq(T)
  BY DEF IsList
<1> HIDE DEF T
<1>2. a \o b \in Seq(T)
  BY <1>1
<1>3. IsList(a \o b)
  BY <1>2, Listed
<1> QED BY <1>1, <1>3

\* Lists with the same elements are the same.
LEMMA SameLists ==
  ASSUME NEW a, IsList(a), NEW b, IsList(b), Len(a) = Len(b), \A i \in 1 .. Len(a) : a[i] = b[i]
  PROVE  a = b
<1> DEFINE T == ToSet(a) \cup ToSet(b)
<1>1. a \in Seq(T) /\ b \in Seq(T)
  BY DEF IsList
<1> HIDE DEF T
<1>2. DOMAIN a = 1 .. Len(a) /\ DOMAIN b = 1 .. Len(a)
  BY <1>1
<1>3. a = [i \in 1 .. Len(a) |-> a[i]] /\ b = [i \in 1 .. Len(a) |-> b[i]]
  BY <1>1, <1>2
<1> QED BY <1>3

\* Joining is associative.
LEMMA JoinMore ==
  ASSUME NEW a, IsList(a), NEW b, IsList(b), NEW c, IsList(c)
  PROVE  (a \o b) \o c = a \o (b \o c)
<1> DEFINE T == ToSet(a) \cup ToSet(b) \cup ToSet(c)
<1>1. a \in Seq(T) /\ b \in Seq(T) /\ c \in Seq(T)
  BY DEF IsList
<1> HIDE DEF T
<1> QED BY <1>1

\* Joining nothing.
LEMMA JoinNone ==
  ASSUME NEW a, IsList(a)
  PROVE  IsList(<<>>) /\ a \o <<>> = a /\ <<>> \o a = a
<1>1. a \in Seq(ToSet(a)) /\ <<>> \in Seq(ToSet(a))
  BY DEF IsList
<1> QED BY <1>1 DEF IsList, ToSet

\* A list of one element.
LEMMA JoinOne ==
  ASSUME NEW m
  PROVE  IsList(<<m>>) /\ Len(<<m>>) = 1 /\ <<m>>[1] = m
<1>1. <<m>> \in Seq({m})
  OBVIOUS
<1> QED BY <1>1, Listed

\* The two parts a list is cut into.
LEMMA Beginning ==
  ASSUME NEW a, IsList(a), NEW n \in 0 .. Len(a)
  PROVE  /\ IsList(SubSeq(a, 1, n)) /\ Len(SubSeq(a, 1, n)) = n
         /\ \A i \in 1 .. n : SubSeq(a, 1, n)[i] = a[i]
         /\ IsList(SubSeq(a, n + 1, Len(a))) /\ Len(SubSeq(a, n + 1, Len(a))) = Len(a) - n
         /\ \A i \in 1 .. Len(a) - n : SubSeq(a, n + 1, Len(a))[i] = a[n + i]
<1>1. a \in Seq(ToSet(a)) /\ Len(a) \in Nat
  BY DEF IsList
<1>2. SubSeq(a, 1, n) \in Seq(ToSet(a)) /\ SubSeq(a, n + 1, Len(a)) \in Seq(ToSet(a))
  BY <1>1
<1>3. IsList(SubSeq(a, 1, n)) /\ IsList(SubSeq(a, n + 1, Len(a)))
  BY <1>2, Listed
<1> QED BY <1>1, <1>3

\* What is left of a chunk and what follows it.
LEMMA Cut ==
  ASSUME NEW a, IsList(a), NEW b, IsList(b), NEW n \in 0 .. Len(a), NEW c, c = SubSeq(a, n + 1, Len(a)) \o b
  PROVE  /\ IsList(c) /\ Len(c) = Len(a \o b) - n
         /\ \A i \in 1 .. Len(c) : c[i] = (a \o b)[n + i]
<1> DEFINE d == SubSeq(a, n + 1, Len(a))
<1>1. IsList(d) /\ Len(d) = Len(a) - n /\ \A i \in 1 .. Len(a) - n : d[i] = a[n + i]
  BY Beginning
<1>2. Len(a) \in Nat /\ Len(b) \in Nat
  BY ListFacts
<1> HIDE DEF d
<1>3. /\ IsList(d \o b) /\ Len(d \o b) = Len(d) + Len(b)
      /\ \A i \in 1 .. Len(d) : (d \o b)[i] = d[i]
      /\ \A i \in 1 .. Len(b) : (d \o b)[Len(d) + i] = b[i]
  <2>1. IsList(d)
    BY <1>1
  <2> QED BY <2>1, Joined
<1>4. /\ Len(a \o b) = Len(a) + Len(b)
      /\ \A i \in 1 .. Len(a) : (a \o b)[i] = a[i]
      /\ \A i \in 1 .. Len(b) : (a \o b)[Len(a) + i] = b[i]
  BY Joined
<1>5. c = d \o b
  BY DEF d
<1>6. PICK e : e = a \o b
  OBVIOUS
<1> HIDE DEF d
<1>7. Len(c) = Len(e) - n /\ Len(d) \in Nat /\ Len(c) = Len(d) + Len(b)
  <2>1. Len(e) = Len(a) + Len(b)
    BY <1>4, <1>6, Zenon
  <2>2. Len(c) = Len(d) + Len(b)
    BY <1>3, <1>5, Zenon
  <2> QED BY <2>1, <2>2, <1>1, <1>2
<1>8. ASSUME NEW i \in 1 .. Len(c) PROVE c[i] = e[n + i]
  <2>1. CASE i <= Len(a) - n
    <3>1. i \in 1 .. Len(d) /\ n + i \in 1 .. Len(a) /\ i \in 1 .. Len(a) - n
      BY <2>1, <1>1, <1>2
    <3>2. c[i] = d[i]
      BY <3>1, <1>3, <1>5
    <3>3. d[i] = a[n + i]
      BY <3>1, <1>1
    <3> QED BY <3>1, <3>2, <3>3, <1>4, <1>6
  <2>2. CASE i > Len(a) - n
    <3>1. PICK k : k = i - (Len(a) - n)
      OBVIOUS
    <3>2. k \in 1 .. Len(b) /\ Len(d) + k = i /\ Len(a) + k = n + i
      BY <3>1, <2>2, <1>1, <1>2, <1>7
    <3>3. c[i] = b[k] /\ e[n + i] = b[k]
      BY <3>2, <1>3, <1>4, <1>5, <1>6
    <3> QED BY <3>3
  <2> QED BY <2>1, <2>2, <1>2, <1>7
<1> QED BY <1>3, <1>5, <1>6, <1>7, <1>8

-----------------------------------------------------------------------------
(* The messages an instruction sends.                                      *)

\* What ends the COPY of the command at o.
Ending(x, k, o) == <<[k |-> k, id |-> x.id, at |-> o, no |-> 0]>> \o Reissued(x, o)

\* The messages t are the commands ks, the last of cmds.
Tags(t, id, cmds, ks) ==
  /\ IsList(t) /\ Len(t) = Len(ks)
  /\ \A i \in 1 .. Len(ks) : t[i].k = ks[i] /\ t[i].id = id /\ t[i].at = Len(cmds) - Len(ks) + i

\* Tagged commands, element by element.
LEMMA TaggedIs ==
  ASSUME NEW cmds, NEW ks, Len(ks) \in Nat, NEW id
  PROVE  Tags(Tagged(id, cmds, ks), id, cmds, ks)
<1> DEFINE M(i) == [k |-> ks[i], id |-> id, at |-> Len(cmds) - Len(ks) + i, no |-> 0]
           t == [i \in 1 .. Len(ks) |-> M(i)]
           R == {M(i) : i \in 1 .. Len(ks)}
<1>1. Tagged(id, cmds, ks) = t
  BY DEF Tagged
<1>2. Len(ks) \in Nat
  OBVIOUS
<1>3. \A i \in 1 .. Len(ks) : M(i) \in R
  OBVIOUS
<1>4. \A i \in 1 .. Len(ks) : M(i).k = ks[i] /\ M(i).id = id /\ M(i).at = Len(cmds) - Len(ks) + i
  OBVIOUS
<1> HIDE DEF M, R
<1>5. t \in Seq(R) /\ Len(t) = Len(ks)
  BY <1>2, <1>3
<1>6. IsList(t)
  BY <1>5, Listed
<1>7. \A i \in 1 .. Len(ks) : t[i] = M(i)
  OBVIOUS
<1> HIDE DEF t
<1> QED BY <1>1, <1>4, <1>5, <1>6, <1>7 DEF Tags

\* What ends a COPY, element by element: one message, then the commands again.
IsEnding(e, x, k, o) ==
  /\ IsList(e) /\ Len(e) = Len(x.cmds) - o + 1 /\ e # <<>> /\ Head(e) = e[1]
  /\ e[1].k = k /\ e[1].id = x.id /\ e[1].at = o
  /\ \A i \in 1 .. Len(x.cmds) - o : e[i + 1].k = x.cmds[o + i] /\ e[i + 1].id = x.id /\ e[i + 1].at = o + i

\* Ending is what IsEnding says.
LEMMA EndingIs ==
  ASSUME NEW x, NEW s, s = x.cmds, InOrder(s), NEW N, N = Len(s), NEW o \in 1 .. N, NEW k, NEW e, e = Ending(x, k, o)
  PROVE  IsEnding(e, x, k, o)
<1>1. s \in Seq(Commands) /\ N \in Nat \ {0}
  BY OrderFacts
<1> DEFINE ks == SubSeq(s, o + 1, N)
           t == Tagged(x.id, s, ks)
           c == [k |-> k, id |-> x.id, at |-> o, no |-> 0]
<1>2. ks \in Seq(Commands) /\ Len(ks) = N - o /\ \A i \in 1 .. N - o : ks[i] = s[o + i]
  BY <1>1
<1>3. t = Reissued(x, o)
  BY DEF Reissued
<1> HIDE DEF ks
<1>4. /\ IsList(t) /\ Len(t) = Len(ks)
      /\ \A i \in 1 .. Len(ks) : t[i].k = ks[i] /\ t[i].id = x.id /\ t[i].at = Len(s) - Len(ks) + i
  <2>1. Len(ks) \in Nat
    BY <1>1, <1>2
  <2>2. Tags(t, x.id, s, ks)
    BY <2>1, TaggedIs, Zenon
  <2> QED BY <2>2 DEF Tags
<1>5. c.k = k /\ c.id = x.id /\ c.at = o
  OBVIOUS
<1>6. e = <<c>> \o t
  BY <1>3 DEF Ending
<1> HIDE DEF c, t
<1>7. IsList(<<c>>) /\ Len(<<c>>) = 1 /\ <<c>>[1] = c
  BY JoinOne
<1>8. PICK one : one = <<c>>
  OBVIOUS
<1>9. /\ IsList(e) /\ Len(e) = Len(one) + Len(t)
      /\ \A i \in 1 .. Len(one) : e[i] = one[i]
      /\ \A i \in 1 .. Len(t) : e[Len(one) + i] = t[i]
  <2>1. IsList(one) /\ e = one \o t
    BY <1>6, <1>7, <1>8
  <2>2. IsList(t)
    BY <1>4
  <2>3. IsList(one)
    BY <2>1
  <2> QED BY <2>1, <2>2, <2>3, Joined
<1>10. Len(one) = 1 /\ one[1] = c
  BY <1>7, <1>8
<1>11. Len(e) = N - o + 1 /\ e[1] = c
  BY <1>1, <1>2, <1>4, <1>9, <1>10
<1>12. e # <<>> /\ Head(e) = e[1]
  BY <1>1, <1>9, <1>11, ListFacts
<1>13. ASSUME NEW i \in 1 .. N - o PROVE e[i + 1].k = s[o + i] /\ e[i + 1].id = x.id /\ e[i + 1].at = o + i
  <2>1. i \in 1 .. Len(t) /\ Len(one) + i = i + 1 /\ i \in 1 .. Len(ks) /\ Len(s) - Len(ks) + i = o + i
    BY <1>1, <1>2, <1>4, <1>10
  <2>2. e[i + 1] = t[i]
    BY <2>1, <1>9
  <2>3. t[i].k = ks[i] /\ t[i].id = x.id /\ t[i].at = o + i
    BY <2>1, <1>4
  <2> QED BY <2>2, <2>3, <1>2
<1> QED BY <1>5, <1>9, <1>11, <1>12, <1>13 DEF IsEnding

\* EndOf and CopySequence are endings, and depend on the commands only.
LEMMA EndsWith ==
  ASSUME NEW x
  PROVE  /\ \A o : EndOf(x, o) = Ending(x, "fail", o)
         /\ \A k : CopySequence(x, k) = Ending(x, k, x.last.to.off)
         /\ \A y : Same(x, y) => \A k, o : Ending(y, k, o) = Ending(x, k, o)
  BY DEF EndOf, Ending, CopySequence, Reissued, Same

\* The instruction after its messages have been written.
LEMMA SentIs ==
  ASSUME NEW x, IsXact(x), Runs(x), x.state = "Sending", NEW y, y = Sent(x)
  PROVE  /\ IsXact(y) /\ Same(x, y) /\ y.last = x.last /\ y.fatal = x.fatal /\ Runs(y)
         /\ Closes(x) => y.state = "Receiving"
         /\ ~Closes(x) => y.state = "Sending" /\ Closes(y) /\ y.messages = EndOf(x, x.last.to.off)
<1>0. IsXact(x) /\ InOrder(x.cmds) /\ x.last.to \in Places(x.cmds) /\ x.last.to.off <= Len(x.cmds)
      /\ (Begins(x) \/ Supplies(x))
  BY DEF Runs
<1>1. PICK o : o = x.last.to.off
  OBVIOUS
<1>2. o \in 1 .. Len(x.cmds)
  BY <1>0, <1>1 DEF Places
<1>3. CASE Closes(x)
  <2> DEFINE z == [x EXCEPT !.messages = <<>>]
             v == [z EXCEPT !.state = "Receiving"]
  <2>1. y = [x EXCEPT !.messages = <<>>, !.state = "Receiving", !.op = "standard_put"]
    BY <1>3 DEF Sent, Closes
  <2>2. y = [v EXCEPT !.op = "standard_put"]
    BY <2>1
  <2>3. z = Xact(x.id, x.cmds, x.state, x.op, <<>>, x.last, x.stored, x.rows, x.asyncs, x.fatal)
    BY Replaces, Zenon
  <2> HIDE DEF z
  <2>4. v = Xact(x.id, x.cmds, "Receiving", x.op, <<>>, x.last, x.stored, x.rows, x.asyncs, x.fatal)
    BY <2>3 DEF Xact
  <2> HIDE DEF v
  <2>5. y = Xact(x.id, x.cmds, "Receiving", "standard_put", <<>>, x.last, x.stored, x.rows, x.asyncs, x.fatal)
    BY <2>2, <2>4 DEF Xact
  <2>6. /\ IsXact(y) /\ Same(x, y) /\ y.last = x.last /\ y.fatal = x.fatal /\ y.state = "Receiving"
        /\ y.op = "standard_put" /\ y.messages = <<>>
    BY <2>5, <1>0 DEF IsXact, Xact, Same
  <2>7. IsList(y.messages)
    BY <2>6 DEF IsList, ToSet
  <2>8. Runs(y)
    BY <2>6, <2>7, <1>0 DEF Runs, Receives, Same
  <2> QED BY <2>6, <2>8, <1>3
<1>4. CASE ~Closes(x)
  <2>1. PICK e : e = CopySequence(x, "fail")
    OBVIOUS
  <2>2. y = [x EXCEPT !.messages = e]
    BY <1>4, <2>1 DEF Sent, Closes
  <2>3. y = Xact(x.id, x.cmds, x.state, x.op, e, x.last, x.stored, x.rows, x.asyncs, x.fatal)
    BY <2>2, Replaces, Zenon
  <2>4. /\ IsXact(y) /\ Same(x, y) /\ y.last = x.last /\ y.fatal = x.fatal /\ y.state = "Sending"
        /\ y.op = x.op /\ y.messages = e
    BY <2>3, <1>0 DEF IsXact, Xact, Same
  <2>5. e = Ending(x, "fail", o) /\ e = EndOf(x, o) /\ CopySequence(y, "fail") = e
    BY <2>1, <2>4, <1>1, EndsWith
  <2>6. IsList(e) /\ e # <<>> /\ Head(e) = e[1] /\ e[1].k = "fail"
    BY <2>5, <1>0, <1>2, EndingIs DEF IsEnding
  <2>7. Closes(y)
    BY <2>4, <2>6 DEF Closes
  <2>8. Supplies(x)
    BY <1>0, <1>4 DEF Begins, Closes
  <2>9. Supplies(y)
    BY <2>4, <2>5, <2>8 DEF Supplies, Same
  <2>10. Runs(y)
    BY <2>4, <2>6, <2>9, <1>0 DEF Runs, Same
  <2> QED BY <2>4, <2>5, <2>7, <2>10, <1>1, <1>4
<1> QED BY <1>3, <1>4

-----------------------------------------------------------------------------
(* Other calls, lost instructions and writing.                             *)

\* Which method runs matters only to a useless instruction.
LEMMA OtherOp ==
  ASSUME NEW x, NEW srv, NEW in, NEW out, NEW rid, NEW op, NEW op2, Sound(x, srv, in, out, rid, op),
         op # "complete" \/ x.state # "Sending"
  PROVE  Sound(x, srv, in, out, rid, op2)
BY DEF Sound, Useless

\* An instruction that is over may be dropped.
LEMMA NoneLeft ==
  ASSUME NEW x, NEW srv, NEW in, NEW out, NEW rid, NEW op, NEW op2, Settled(x, srv, in, out), Ended(x)
  PROVE  Sound(NoXact, srv, in, out, rid, op)
BY DEF Sound, Settled, Ended, NoXact

\* Nothing is left to be done for an instruction that has failed.
LEMMA Failing ==
  ASSUME NEW x, IsXact(x), x.state = "Complete", x.fatal = "Yes", NEW srv, NEW in, NEW out, NEW rid, NEW op,
         ~srv.open, srv.reset \/ in = <<>>,
         \A i \in 1 .. Len(in) : in[i].k = "FATAL" => i = Len(in)
  PROVE  Sound(x, srv, in, out, rid, op)
<1>1. ~Ended(x)
  BY DEF Ended, NoXact, IsXact, Xact
<1> QED BY <1>1 DEF Sound, Settled

\* The session serves what looks the same.
LEMMA ServedSame ==
  ASSUME NEW x, NEW y, Same(x, y), NEW pipe, NEW p, NEW srv, Served(x, pipe, p, srv)
  PROVE  Served(y, pipe, p, srv)
<1>1. y.id = x.id /\ y.cmds = x.cmds
  BY DEF Same
<1>2. \A j, n : Rest(x, pipe, j, n) <=> Rest(y, pipe, j, n)
  BY <1>1 DEF Rest
<1>3. ServedIdle(x, pipe, p) => ServedIdle(y, pipe, p)
  BY <1>1, <1>2 DEF ServedIdle
<1>4. ServedIgnoring(x, pipe, p) => ServedIgnoring(y, pipe, p)
  BY <1>1, <1>2 DEF ServedIgnoring
<1>5. ServedCopying(x, pipe, p, srv.simple) => ServedCopying(y, pipe, p, srv.simple)
  BY <1>1, <1>2 DEF ServedCopying
<1> QED BY <1>3, <1>4, <1>5 DEF Served

\* The way depends on the commands and where it begins.
LEMMA WaySame ==
  ASSUME NEW x, NEW y, Same(x, y), y.last.to = x.last.to, NEW w, NEW in, Way(x, w, in)
  PROVE  Way(y, w, in)
BY DEF Same, Way, Leads

\* WireWrite: what was owed is on its way now.
LEMMA Writing ==
  ASSUME NEW x, NEW srv, NEW in, NEW out, NEW rid, NEW op, NEW op2, Sound(x, srv, in, out, rid, op),
         x # NoXact, x.state = "Sending", srv.open, IsList(out), NEW y, y = Sent(x),
         NEW more, more = out \o x.messages
  PROVE  Sound(y, srv, in, more, rid, op2) /\ y # NoXact /\ y.state # "Complete"
<1>1. IsXact(x) /\ Runs(x) /\ x.last.of # rid /\ Settled(x, srv, in, out) /\ x.fatal # "Yes"
  BY DEF Sound, Settled
<1>2. PICK w : OnWay(x, w, srv, in, out)
  BY <1>1 DEF Sound, Useless, Settled
<1>3. /\ IsXact(y) /\ Same(x, y) /\ y.last = x.last /\ y.fatal = x.fatal /\ Runs(y)
      /\ Closes(x) => y.state = "Receiving"
      /\ ~Closes(x) => y.state = "Sending" /\ Closes(y) /\ y.messages = EndOf(x, x.last.to.off)
  BY <1>1, SentIs
<1>4. y # NoXact /\ ~Ended(y) /\ y.fatal # "Yes" /\ y.state # "Complete"
  BY <1>1, <1>3 DEF IsXact, Xact, NoXact, Ended
<1>5. Settled(y, srv, in, more)
  BY <1>1, <1>3, <1>4 DEF Settled
<1>6. ~Coming(in)
  BY <1>2 DEF OnWay, Waits
<1>7. out \o Owed(x, w[Len(in)].off, Coming(in)) = more \o Owed(y, w[Len(in)].off, Coming(in))
  <2>0. IsList(x.messages)
    BY <1>1 DEF Runs
  <2>1. CASE Closes(x)
    <3>1. Owed(x, w[Len(in)].off, Coming(in)) = x.messages /\ Owed(y, w[Len(in)].off, Coming(in)) = <<>>
      BY <2>1, <1>3, <1>6 DEF Owed
    <3>2. IsList(more)
      BY <2>0, Joined
    <3>3. more \o <<>> = more
      BY <3>2, JoinNone
    <3> QED BY <3>1, <3>3
  <2>2. CASE ~Closes(x)
    <3>1. PICK e : e = EndOf(x, x.last.to.off)
      OBVIOUS
    <3>2. Owed(x, w[Len(in)].off, Coming(in)) = x.messages \o e /\ Owed(y, w[Len(in)].off, Coming(in)) = e
      BY <2>2, <1>3, <3>1 DEF Owed
    <3>3. InOrder(x.cmds) /\ x.last.to.off \in 1 .. Len(x.cmds)
      BY <1>1 DEF Runs, Places
    <3>4. e = Ending(x, "fail", x.last.to.off)
      BY <3>1, EndsWith
    <3>5. IsList(e)
      BY <3>3, <3>4, EndingIs DEF IsEnding
    <3>6. (out \o x.messages) \o e = out \o (x.messages \o e)
      <4>1. PICK m : m = x.messages
        OBVIOUS
      <4>2. IsList(m)
        BY <2>0, <4>1
      <4>3. (out \o m) \o e = out \o (m \o e)
        BY <4>2, <3>5, JoinMore
      <4> QED BY <4>1, <4>3
    <3> QED BY <3>2, <3>6
  <2> QED BY <2>1, <2>2
<1>8. Way(y, w, in)
  BY <1>2, <1>3, WaySame DEF OnWay
<1>9. Served(y, more \o Owed(y, w[Len(in)].off, Coming(in)), w[Len(in)], srv)
  <2>1. Served(x, more \o Owed(y, w[Len(in)].off, Coming(in)), w[Len(in)], srv)
    BY <1>2, <1>7 DEF OnWay
  <2> QED BY <2>1, <1>3, ServedSame
<1>10. OnWay(y, w, srv, in, more)
  BY <1>6, <1>8, <1>9 DEF OnWay, Waits
<1> QED BY <1>1, <1>3, <1>4, <1>5, <1>10 DEF Sound

\* A fatal instruction, field by field.
LEMMA DeadIs ==
  ASSUME NEW x, IsXact(x), NEW y, y = Dead(x)
  PROVE  IsXact(y) /\ Same(x, y) /\ y.state = "Complete" /\ y.fatal = "Yes" /\ y.op = x.op
         /\ y.messages = x.messages /\ y.last = x.last
<1> DEFINE z == [x EXCEPT !.state = "Complete"]
<1>1. z = Xact(x.id, x.cmds, "Complete", x.op, x.messages, x.last, x.stored, x.rows, x.asyncs, x.fatal)
  BY Replaces, Zenon
<1>2. y = [z EXCEPT !.fatal = "Yes"]
  BY DEF Dead
<1> HIDE DEF z
<1>3. y = Xact(x.id, x.cmds, "Complete", x.op, x.messages, x.last, x.stored, x.rows, x.asyncs, "Yes")
  BY <1>1, <1>2 DEF Xact
<1> QED BY <1>3 DEF IsXact, Xact, Same

\* The bytes are lost: the op has run all the same, or sending has failed.
LEMMA Losing ==
  ASSUME NEW x, NEW srv, NEW in, NEW out, NEW rid, NEW op, NEW op2, Sound(x, srv, in, out, rid, op),
         x # NoXact, x.state = "Sending", ~srv.open, ~srv.reset, NEW y, y = Sent(x)
  PROVE  Sound(y, srv, in, out, rid, op2) /\ y # NoXact /\ y.state # "Complete"
<1>1. IsXact(x) /\ Runs(x) /\ x.last.of # rid /\ Settled(x, srv, in, out)
  BY DEF Sound, Settled
<1>2. PICK w : OnWay(x, w, srv, in, out)
  BY <1>1 DEF Sound, Useless
<1>3. /\ IsXact(y) /\ Same(x, y) /\ y.last = x.last /\ y.fatal = x.fatal /\ Runs(y)
      /\ y.state # "Complete"
  BY <1>1, SentIs
<1>4. y # NoXact /\ ~Ended(y) /\ x # NoXact
  BY <1>1, <1>3 DEF IsXact, Xact, NoXact, Ended
<1>5. Settled(y, srv, in, out)
  BY <1>1, <1>3, <1>4 DEF Settled
<1>8. Way(y, w, in)
  BY <1>2, <1>3, WaySame DEF OnWay
<1>10. OnWay(y, w, srv, in, out)
  BY <1>8 DEF OnWay
<1> QED BY <1>1, <1>3, <1>4, <1>5, <1>10 DEF Sound

\* s2: the session once the connection is known to be reset.
LEMMA Resetting ==
  ASSUME NEW x, NEW srv, NEW in, NEW out, NEW rid, NEW op, NEW op2, Sound(x, srv, in, out, rid, op),
         x # NoXact, x.state = "Sending", ~srv.open, NEW s2, ~s2.open, s2.reset
  PROVE  /\ Sound(Dead(x), s2, in, out, rid, op2) /\ Dead(x) # NoXact /\ Dead(x).fatal = "Yes"
         /\ op # "complete" =>
              Sound(Sent(Dead(x)), s2, in, out, rid, op2) /\ Sent(Dead(x)) # NoXact /\ Sent(Dead(x)).fatal = "Yes"
<1>1. IsXact(x) /\ Runs(x) /\ x.last.of # rid /\ Settled(x, srv, in, out)
  BY DEF Sound, Settled
<1>2. PICK y : y = Dead(x)
  OBVIOUS
<1>3. IsXact(y) /\ Same(x, y) /\ y.state = "Complete" /\ y.fatal = "Yes" /\ y.op = x.op
      /\ y.messages = x.messages /\ y.last = x.last
  BY <1>1, <1>2, DeadIs
<1>4. \A i \in 1 .. Len(in) : in[i].k = "FATAL" => i = Len(in)
  BY <1>1 DEF Settled
<1>5. Sound(y, s2, in, out, rid, op2) /\ y # NoXact
  <2>1. y # NoXact
    BY <1>3 DEF NoXact
  <2> QED BY <2>1, <1>3, <1>4, Failing
<1>6. ASSUME op # "complete"
      PROVE  Sound(Sent(y), s2, in, out, rid, op2) /\ Sent(y) # NoXact /\ Sent(y).fatal = "Yes"
  <2>1. PICK w : OnWay(x, w, srv, in, out)
    BY <1>1, <1>6 DEF Sound, Useless
  <2>2. PICK u : u = Sent(y)
    OBVIOUS
  <2>5. IsXact(y)
    BY <1>3
  <2>3. CASE Closes(x)
    <3> DEFINE z == [y EXCEPT !.messages = <<>>]
               v == [z EXCEPT !.state = "Receiving"]
    <3>1. u = [y EXCEPT !.messages = <<>>, !.state = "Receiving", !.op = "standard_put"]
      BY <1>3, <2>2, <2>3 DEF Sent, Closes
    <3>2. u = [v EXCEPT !.op = "standard_put"]
      BY <3>1
    <3>3. z = Xact(y.id, y.cmds, y.state, y.op, <<>>, y.last, y.stored, y.rows, y.asyncs, y.fatal)
      BY <2>5, Replaces, Zenon
    <3> HIDE DEF z
    <3>4. v = Xact(y.id, y.cmds, "Receiving", y.op, <<>>, y.last, y.stored, y.rows, y.asyncs, y.fatal)
      BY <3>3 DEF Xact
    <3> HIDE DEF v
    <3>5. u = Xact(y.id, y.cmds, "Receiving", "standard_put", <<>>, y.last, y.stored, y.rows, y.asyncs, y.fatal)
      BY <3>2, <3>4 DEF Xact
    <3>6. /\ IsXact(u) /\ Same(x, u) /\ u.last = x.last /\ u.fatal = "Yes" /\ u.state = "Receiving"
          /\ u.op = "standard_put" /\ u.messages = <<>>
      BY <3>5, <1>3 DEF IsXact, Xact, Same
    <3>7. IsList(u.messages)
      BY <3>6 DEF IsList, ToSet
    <3>8. Runs(u)
      BY <3>6, <3>7, <1>1 DEF Runs, Receives, Same
    <3>9. u # NoXact /\ ~Ended(u)
      BY <3>6 DEF NoXact, Ended
    <3>10. Settled(u, s2, in, out)
      BY <3>6, <3>9, <1>4 DEF Settled
    <3>11. Way(u, w, in)
      BY <2>1, <3>6, WaySame DEF OnWay
    <3>12. OnWay(u, w, s2, in, out)
      BY <3>11 DEF OnWay
    <3> QED BY <2>2, <3>6, <3>8, <3>9, <3>10, <3>12, <1>1 DEF Sound
  <2>4. CASE ~Closes(x)
    <3>1. PICK e : e = CopySequence(y, "fail")
      OBVIOUS
    <3>2. u = [y EXCEPT !.messages = e]
      BY <1>3, <2>2, <2>4, <3>1 DEF Sent, Closes
    <3>3. u = Xact(y.id, y.cmds, y.state, y.op, e, y.last, y.stored, y.rows, y.asyncs, y.fatal)
      BY <3>2, <2>5, Replaces, Zenon
    <3>4. IsXact(u) /\ u.state = "Complete" /\ u.fatal = "Yes"
      BY <3>3, <1>3 DEF IsXact, Xact
    <3>5. u # NoXact
      BY <3>4 DEF NoXact
    <3>6. Sound(u, s2, in, out, rid, op2)
      BY <3>4, <1>4, Failing
    <3> QED BY <2>2, <3>4, <3>5, <3>6
  <2> QED BY <2>3, <2>4
<1> QED BY <1>2, <1>3, <1>5, <1>6

-----------------------------------------------------------------------------
(* New instructions.                                                       *)

\* A receiving instruction goes on, with another op or as one that has failed.
LEMMA Recast ==
  ASSUME NEW x, NEW srv, NEW in, NEW out, NEW rid, NEW op, NEW op2, Sound(x, srv, in, out, rid, op),
         x # NoXact, x.state = "Receiving", NEW y, IsXact(y), Same(x, y), y.state = "Receiving",
         y.op = "standard_put", y.messages = x.messages, y.last = x.last,
         y.fatal = "Yes" => ~srv.open /\ (srv.reset \/ in = <<>>)
  PROVE  Sound(y, srv, in, out, rid, op2) /\ y # NoXact /\ y.state # "Complete"
<1>1. IsXact(x) /\ Runs(x) /\ x.last.of # rid /\ Settled(x, srv, in, out)
  BY DEF Sound, Settled
<1>2. PICK w : OnWay(x, w, srv, in, out)
  BY <1>1 DEF Sound, Useless
<1>3. y # NoXact /\ ~Ended(y)
  BY DEF NoXact, Ended
<1>4. Settled(y, srv, in, out)
  BY <1>1, <1>3 DEF Settled
<1>5. Runs(y)
  BY <1>1 DEF Runs, Receives, Same
<1>6. Way(y, w, in)
  BY <1>2, WaySame DEF OnWay
<1>7. Owed(y, w[Len(in)].off, Coming(in)) = Owed(x, w[Len(in)].off, Coming(in))
  BY DEF Owed, EndOf, Reissued, Same
<1>8. ASSUME srv.open
      PROVE  Served(y, out \o Owed(y, w[Len(in)].off, Coming(in)), w[Len(in)], srv) /\ Waits(y, srv, in, out)
  <2>1. Served(x, out \o Owed(y, w[Len(in)].off, Coming(in)), w[Len(in)], srv)
    BY <1>2, <1>7, <1>8 DEF OnWay
  <2>2. Served(y, out \o Owed(y, w[Len(in)].off, Coming(in)), w[Len(in)], srv)
    BY <2>1, ServedSame
  <2> QED BY <2>2, <1>2, <1>8 DEF OnWay, Waits
<1>9. OnWay(y, w, srv, in, out)
  BY <1>6, <1>8 DEF OnWay
<1> QED BY <1>1, <1>3, <1>4, <1>5, <1>9 DEF Sound

\* An instruction that has sent nothing.
New(x) ==
  /\ IsXact(x) /\ InOrder(x.cmds) /\ x.state = "Sending" /\ x.op = "standard_sent" /\ x.fatal = "None"
  /\ x.last = [of |-> 0, from |-> P0, to |-> P0] /\ IsList(x.messages) /\ Rest(x, x.messages, 1, 0)

\* A new instruction is sound when the one before it has left nothing behind.
LEMMA Fresh ==
  ASSUME NEW x, New(x), NEW srv, NEW in, IsList(in), NEW out, IsList(out), NEW rid, rid # 0, NEW op,
         srv.reset => ~srv.open, \A i \in 1 .. Len(in) : in[i].k = "FATAL" => ~srv.open /\ i = Len(in),
         \/ Quiet(in) /\ (srv.open => srv.mode = "idle" /\ AllJunk(out))
         \/ ~srv.open /\ srv.reset /\ op = "complete"
  PROVE  Sound(x, srv, in, out, rid, op)
<1>0. PICK s : s = x.cmds
  OBVIOUS
<1>1. /\ IsXact(x) /\ InOrder(s) /\ x.state = "Sending" /\ x.op = "standard_sent" /\ x.fatal = "None"
      /\ x.last.of = 0 /\ x.last.to = P0 /\ IsList(x.messages) /\ Rest(x, x.messages, 1, 0)
  BY <1>0 DEF New
<1>2. /\ s \in Seq(Commands) /\ Len(s) \in Nat \ {0} /\ s[1] # "L" /\ s[1] \in DOMAIN Hook
  <2>1. s \in Seq(Commands) /\ Len(s) \in Nat \ {0} /\ s[1] # "L"
    BY <1>1, OrderFacts
  <2> QED BY <2>1 DEF Commands
<1>3. P0 \in Places(s) /\ P0.off = 1 /\ P0 = At(1, 1)
  <2>1. 1 \in 1 .. Len(Hook[s[1]])
    BY <1>2, FirstRow
  <2> QED BY <2>1, <1>2 DEF Places, Positions, P0, At
<1>4. Begins(x)
  BY <1>1 DEF Begins
<1>5. Runs(x)
  BY <1>0, <1>1, <1>2, <1>3, <1>4 DEF Runs
<1>6. x # NoXact /\ ~Ended(x)
  BY <1>1 DEF NoXact, Ended
<1>7. Settled(x, srv, in, out)
  BY <1>1, <1>6 DEF Settled
<1>8. CASE ~srv.open /\ srv.reset /\ op = "complete"
  BY <1>1, <1>4, <1>5, <1>7, <1>8 DEF Sound, Useless
<1>9. CASE Quiet(in) /\ (srv.open => srv.mode = "idle" /\ AllJunk(out))
  <2>1. PICK w : w = [i \in 0 .. Len(in) |-> P0]
    OBVIOUS
  <2>2. Len(in) \in Nat /\ Len(out) \in Nat
    BY ListFacts
  <2>3. Way(x, w, in)
    <3>1. w \in [0 .. Len(in) -> Places(s)] /\ w[0] = P0
      BY <2>1, <2>2, <1>3
    <3>2. ASSUME NEW i \in 1 .. Len(in) PROVE Leads(x, w[i - 1], in[i], w[i])
      <4>1. w[i] = P0 /\ w[i - 1] = P0
        BY <2>1, <2>2
      <4> QED BY <4>1, <1>9 DEF Leads, Quiet
    <3> QED BY <3>1, <3>2, <1>0, <1>1 DEF Way
  <2>4. ~Coming(in)
    BY <1>9 DEF Coming, Quiet
  <2>5. ASSUME srv.open PROVE Served(x, out \o x.messages, P0, srv)
    <3>1. PICK ms : ms = x.messages
      OBVIOUS
    <3>2. IsList(ms) /\ Rest(x, ms, 1, 0)
      BY <3>1, <1>1
    <3>3. PICK pipe : pipe = out \o ms
      OBVIOUS
    <3>4. /\ IsList(pipe) /\ Len(pipe) = Len(out) + Len(ms)
          /\ \A i \in 1 .. Len(out) : pipe[i] = out[i]
          /\ \A i \in 1 .. Len(ms) : pipe[Len(out) + i] = ms[i]
      <4>1. IsList(ms)
        BY <3>2
      <4> QED BY <4>1, <3>3, Joined
    <3>5. Len(ms) = Len(s) /\ \A i \in 1 .. Len(ms) : ms[i].k = s[i] /\ ms[i].id = x.id /\ ms[i].at = i
      <4>1. Len(ms) \in Nat
        BY <3>2, ListFacts
      <4>2. Len(ms) - 0 = Len(s) + 1 - 1
        BY <3>2, <1>0 DEF Rest
      <4>3. ASSUME NEW i \in 1 .. Len(ms) PROVE ms[i].k = s[i] /\ ms[i].id = x.id /\ ms[i].at = i
        <5>1. i \in (0 + 1) .. Len(ms) /\ 1 + i - 0 - 1 = i
          OBVIOUS
        <5>2. ms[i].k = x.cmds[1 + i - 0 - 1] /\ ms[i].id = x.id /\ ms[i].at = 1 + i - 0 - 1
          BY <3>2, <5>1 DEF Rest
        <5> QED BY <5>1, <5>2, <1>0
      <4> QED BY <4>1, <4>2, <4>3, <1>2
    <3>6. ASSUME NEW i \in (Len(out) + 1) .. Len(pipe)
          PROVE  pipe[i].k = s[1 + i - Len(out) - 1] /\ pipe[i].id = x.id /\ pipe[i].at = 1 + i - Len(out) - 1
      <4>1. PICK j : j = i - Len(out)
        OBVIOUS
      <4>2. j \in 1 .. Len(ms) /\ Len(out) + j = i /\ 1 + i - Len(out) - 1 = j
        BY <2>2, <3>4, <3>5, <1>2, <4>1
      <4>3. pipe[i] = ms[j]
        BY <3>4, <4>2
      <4> QED BY <4>2, <4>3, <3>5
    <3>7. Rest(x, pipe, 1, Len(out))
      <4>1. Len(pipe) - Len(out) = Len(s) + 1 - 1
        BY <2>2, <3>4, <3>5, <1>2
      <4> QED BY <4>1, <3>6, <1>0 DEF Rest
    <3>8. NextCmd(s, 0) = 1
      BY <1>2, NextIs
    <3>9. PICK n : n = Len(out)
      OBVIOUS
    <3>10. n \in 0 .. Len(pipe)
      BY <3>9, <2>2, <3>4, <3>5, <1>2
    <3>11. \A i \in 1 .. n : pipe[i].k \in Junk
      BY <3>4, <3>9, <1>9, <2>5 DEF AllJunk
    <3>12. PICK j : j = 1
      OBVIOUS
    <3>13. j \in 1 .. Len(x.cmds) + 1 /\ Rest(x, pipe, j, n) /\ P0 = At(NextCmd(x.cmds, j - 1), 1)
      <4>1. j - 1 = 0
        BY <3>12
      <4> QED BY <4>1, <3>7, <3>8, <3>9, <3>12, <1>0, <1>2, <1>3
    <3>14. ServedIdle(x, pipe, P0)
      BY <3>10, <3>11, <3>13 DEF ServedIdle
    <3> QED BY <3>1, <3>3, <3>14, <1>9, <2>5 DEF Served
  <2>6. w[Len(in)] = P0 /\ Owed(x, w[Len(in)].off, Coming(in)) = x.messages
    BY <2>1, <2>2, <1>1 DEF Owed, Closes
  <2>7. OnWay(x, w, srv, in, out)
    BY <2>3, <2>4, <2>5, <2>6 DEF OnWay, Waits
  <2>8. x.last.of # rid
    BY <1>1
  <2> QED BY <2>7, <2>8, <1>5, <1>7 DEF Sound
<1> QED BY <1>8, <1>9

\* Instruction makes a new instruction.
LEMMA InstructionIs ==
  ASSUME NEW id, NEW s, InOrder(s), NEW x, x = Instruction(id, s)
  PROVE  New(x) /\ x.id = id /\ x.cmds = s
<1>1. x = Xact(id, s, "Sending", "standard_sent", Tagged(id, s, s), [of |-> 0, from |-> P0, to |-> P0],
               0, <<>>, {}, "None")
  BY DEF Instruction, Xact
<1>2. PICK t : t = Tagged(id, s, s)
  OBVIOUS
<1>3. s \in Seq(Commands) /\ Len(s) \in Nat
  BY OrderFacts
<1>4. Tags(t, id, s, s)
  <2>1. Len(s) \in Nat
    BY <1>3
  <2> QED BY <1>2, <2>1, TaggedIs
<1>5. PICK l : l = [of |-> 0, from |-> P0, to |-> P0]
  OBVIOUS
<1>6. x = Xact(id, s, "Sending", "standard_sent", t, l, 0, <<>>, {}, "None")
  BY <1>1, <1>2, <1>5
<1>7. /\ IsXact(x) /\ x.id = id /\ x.cmds = s /\ x.state = "Sending" /\ x.op = "standard_sent" /\ x.fatal = "None"
      /\ x.last = l /\ x.messages = t
  BY <1>6 DEF IsXact, Xact
<1>8. Rest(x, t, 1, 0)
  <2>1. Len(t) - 0 = Len(x.cmds) + 1 - 1
    BY <1>3, <1>4, <1>7 DEF Tags
  <2>2. ASSUME NEW i \in (0 + 1) .. Len(t)
        PROVE  t[i].k = x.cmds[1 + i - 0 - 1] /\ t[i].id = x.id /\ t[i].at = 1 + i - 0 - 1
    <3>1. i \in 1 .. Len(s) /\ 1 + i - 0 - 1 = i /\ Len(s) - Len(s) + i = i
      BY <1>3, <1>4 DEF Tags
    <3>2. t[i].k = s[i] /\ t[i].id = id /\ t[i].at = Len(s) - Len(s) + i
      BY <3>1, <1>4 DEF Tags
    <3> QED BY <3>1, <3>2, <1>7
  <2> QED BY <2>1, <2>2 DEF Rest
<1> QED BY <1>4, <1>5, <1>7, <1>8 DEF New, Tags

\* The transaction that takes the trash g out, from an instruction that does nothing with it.
Emptying(z, g) ==
  [z EXCEPT !.messages = [i \in DOMAIN @ |-> IF i > Len(g) THEN @[i] ELSE [@[i] EXCEPT !.no = g[i]]]]

\* So does the transaction that closes what was dropped.
LEMMA TrashIs ==
  ASSUME NEW id, NEW g, IsList(g), g # <<>>, NEW z, z = Instruction(id, [i \in 1 .. Len(g) |-> "X"] \o <<"S">>),
         NEW x, x = Emptying(z, g)
  PROVE  New(x)
<1> DEFINE a == [i \in 1 .. Len(g) |-> "X"]
           s == a \o <<"S">>
<1>1. Len(g) \in Nat \ {0}
  BY ListFacts
<1>2. s \in Seq({"X", "S"}) /\ Len(s) = Len(g) + 1 /\ \A i \in 1 .. Len(s) : s[i] = IF i = Len(s) THEN "S" ELSE "X"
  <2>1. a \in Seq({"X"}) /\ Len(a) = Len(g)
    BY <1>1
  <2>2. \A i \in 1 .. Len(g) : a[i] = "X"
    OBVIOUS
  <2> HIDE DEF a
  <2> QED BY <2>1, <2>2, <1>1
<1>3. z = Instruction(id, s)
  OBVIOUS
<1> HIDE DEF s
<1>4. InOrder(s)
  <2>1. s \in Seq({"P", "B", "D", "X", "E", "L", "S"}) /\ s # <<>> /\ s[1] # "L"
    BY <1>1, <1>2
  <2>2. \A i \in 1 .. Len(s) : s[i] = "S" <=> i = Len(s)
    BY <1>2
  <2>3. \A i \in 1 .. Len(s), j \in 1 .. Len(s) : i < j /\ s[i] = "E" => s[j] \in {"L", "S"}
    BY <1>2
  <2> QED BY <2>1, <2>2, <2>3 DEF InOrder
<1>5. New(z) /\ z.cmds = s
  BY <1>3, <1>4, InstructionIs
<1>6. PICK t : t = z.messages
  OBVIOUS
<1>7. IsList(t) /\ IsXact(z) /\ Len(t) \in Nat /\ DOMAIN t = 1 .. Len(t) /\ Rest(z, t, 1, 0)
  <2>1. IsList(t)
    BY <1>5, <1>6 DEF New
  <2>2. Len(t) \in Nat /\ DOMAIN t = 1 .. Len(t)
    BY <2>1, ListFacts
  <2> QED BY <2>1, <2>2, <1>5, <1>6 DEF New
<1>8. t = Tagged(id, s, s)
  BY <1>3, <1>6 DEF Instruction
<1>9. \A i \in 1 .. Len(s) : t[i] = [k |-> s[i], id |-> id, at |-> Len(s) - Len(s) + i, no |-> 0]
  BY <1>8 DEF Tagged
<1>10. Len(t) = Len(s)
  <2>1. Len(t) - 0 = Len(z.cmds) + 1 - 1
    BY <1>7 DEF Rest
  <2>2. PICK c : c = z.cmds
    OBVIOUS
  <2>3. c = s
    BY <1>5, <2>2
  <2>4. Len(c) \in Nat /\ Len(t) \in Nat
    BY <1>1, <1>2, <1>7, <2>3
  <2>5. Len(t) - 0 = Len(c) + 1 - 1
    BY <2>1, <2>2
  <2>6. Len(t) = Len(c)
    BY <2>4, <2>5
  <2> QED BY <2>3, <2>6
<1> DEFINE f(i) == IF i > Len(g) THEN t[i] ELSE [t[i] EXCEPT !.no = g[i]]
           u == [i \in 1 .. Len(t) |-> f(i)]
           R == {f(i) : i \in 1 .. Len(t)}
<1>11. x = [z EXCEPT !.messages = u]
  BY <1>6, <1>7 DEF Emptying
<1>12. \A i \in 1 .. Len(t) : f(i) \in R
  OBVIOUS
<1>13. ASSUME NEW i \in 1 .. Len(t)
       PROVE  f(i).k = t[i].k /\ f(i).id = t[i].id /\ f(i).at = t[i].at
  <2>1. PICK c : c = s[i]
    OBVIOUS
  <2>2. PICK n : n = Len(s) - Len(s) + i
    OBVIOUS
  <2>3. t[i] = [k |-> c, id |-> id, at |-> n, no |-> 0]
    BY <1>9, <1>10, <2>1, <2>2
  <2>4. PICK h : h = g[i]
    OBVIOUS
  <2>5. [t[i] EXCEPT !.no = h] = [k |-> c, id |-> id, at |-> n, no |-> h]
    BY <2>3
  <2> QED BY <2>3, <2>4, <2>5
<1> HIDE DEF f, R
<1>14. IsList(u) /\ Len(u) = Len(t) /\ \A i \in 1 .. Len(t) : u[i] = f(i)
  <2>1. u \in Seq(R) /\ Len(u) = Len(t)
    BY <1>7, <1>12
  <2>2. IsList(u)
    BY <2>1, Listed
  <2> QED BY <2>1, <2>2
<1> HIDE DEF u
<1>15. x = Xact(z.id, z.cmds, z.state, z.op, u, z.last, z.stored, z.rows, z.asyncs, z.fatal)
  <2>1. IsXact(z)
    BY <1>7
  <2>2. PICK v : v = u
    OBVIOUS
  <2>3. [z EXCEPT !.messages = v] = Xact(z.id, z.cmds, z.state, z.op, v, z.last, z.stored, z.rows, z.asyncs, z.fatal)
    <3>1. z = Xact(z.id, z.cmds, z.state, z.op, z.messages, z.last, z.stored, z.rows, z.asyncs, z.fatal)
      BY <2>1 DEF IsXact
    <3> QED BY <3>1 DEF Xact
  <2> QED BY <2>2, <2>3, <1>11
<1>16. /\ IsXact(x) /\ Same(z, x) /\ x.state = z.state /\ x.op = z.op /\ x.fatal = z.fatal
       /\ x.last = z.last /\ x.messages = u
  <2>1. IsXact(z)
    BY <1>7
  <2> QED BY <2>1, <1>15, SMTT(40) DEF IsXact, Xact, Same
<1>17. Rest(x, u, 1, 0)
  <2>1. Len(u) = Len(t) /\ Len(t) \in Nat /\ x.id = z.id /\ x.cmds = z.cmds
    BY <1>7, <1>14, <1>16 DEF Same
  <2>2. ASSUME NEW i \in (0 + 1) .. Len(u)
        PROVE  u[i].k = x.cmds[1 + i - 0 - 1] /\ u[i].id = x.id /\ u[i].at = 1 + i - 0 - 1
    <3>1. i \in 1 .. Len(t) /\ i \in (0 + 1) .. Len(t)
      BY <2>1
    <3>2. u[i].k = t[i].k /\ u[i].id = t[i].id /\ u[i].at = t[i].at
      BY <3>1, <1>13, <1>14
    <3>3. t[i].k = z.cmds[1 + i - 0 - 1] /\ t[i].id = z.id /\ t[i].at = 1 + i - 0 - 1
      BY <3>1, <1>7 DEF Rest
    <3> QED BY <3>2, <3>3, <2>1
  <2> QED BY <2>1, <2>2, <1>7 DEF Rest
<1> QED BY <1>5, <1>14, <1>16, <1>17 DEF New, Same

\* The instruction after an exception of the notice hook.
Abandoned(x, f, t) == [x EXCEPT !.fatal = f, !.op = "standard_put", !.asyncs = t]

\* An exception leaves the notice hook in the middle of a chunk.
LEMMA Hooked ==
  ASSUME NEW x, NEW srv, NEW in, NEW out, NEW rid, NEW op, NEW op2, Sound(x, srv, in, out, rid, op),
         x # NoXact, x.state = "Receiving", IsList(in), NEW r, r.id = rid, NEW n, n \in 1 .. Len(in),
         \A i \in 1 .. n : r.msgs[i] = in[i], NEW a, a = PutAll(x, r, n), a.end = "no", a.n = n,
         NEW t, NEW f, f = a.fatal, NEW y, y = Abandoned(x, f, t)
  PROVE  Sound(y, srv, in, out, rid, op2) /\ y # NoXact /\ y.state # "Complete"
<1>1. IsXact(x) /\ Runs(x) /\ x.last.of # rid /\ Settled(x, srv, in, out)
  BY DEF Sound, Settled
<1>2. PICK w : OnWay(x, w, srv, in, out)
  BY <1>1 DEF Sound, Useless
<1>3. f \in {x.fatal, "No"}
  <2>1. LoopAt(x, w, in, n, a)
    <3>1. IsXact(x)
      BY <1>1
    <3>2. InOrder(x.cmds) /\ x.last.to.off <= Len(x.cmds) /\ Way(x, w, in)
      BY <1>1, <1>2 DEF Runs, OnWay
    <3>3. n \in 0 .. Len(in) /\ n \in Nat
      BY ListFacts
    <3> QED BY <3>1, <3>2, <3>3, <1>1, Walk
  <2> QED BY <2>1 DEF LoopAt
<1> DEFINE z == [x EXCEPT !.fatal = f]
           v == [z EXCEPT !.op = "standard_put"]
<1>4. y = [v EXCEPT !.asyncs = t]
  BY DEF Abandoned
<1>5. z = Xact(x.id, x.cmds, x.state, x.op, x.messages, x.last, x.stored, x.rows, x.asyncs, f)
  <2>1. IsXact(x)
    BY <1>1
  <2>2. PICK v1 : v1 = f
    OBVIOUS
  <2>3. [x EXCEPT !.fatal = v1]
          = Xact(x.id, x.cmds, x.state, x.op, x.messages, x.last, x.stored, x.rows, x.asyncs, v1)
    BY <2>1, Replaces, ZenonT(60)
  <2> QED BY <2>2, <2>3
<1> HIDE DEF z
<1>6. v = Xact(x.id, x.cmds, x.state, "standard_put", x.messages, x.last, x.stored, x.rows, x.asyncs, f)
  BY <1>5 DEF Xact
<1> HIDE DEF v
<1>7. y = Xact(x.id, x.cmds, x.state, "standard_put", x.messages, x.last, x.stored, x.rows, t, f)
  BY <1>4, <1>6 DEF Xact
<1>8. /\ IsXact(y) /\ Same(x, y) /\ y.state = "Receiving" /\ y.op = "standard_put" /\ y.messages = x.messages
      /\ y.last = x.last /\ y.fatal = f
  BY <1>1, <1>3, <1>7 DEF IsXact, Xact, Same
<1>9. y.fatal = "Yes" => ~srv.open /\ (srv.reset \/ in = <<>>)
  BY <1>1, <1>3, <1>8 DEF Settled
<1>10. IsXact(y) /\ Same(x, y)
  BY <1>8
<1>11. y.state = "Receiving" /\ y.op = "standard_put" /\ y.messages = x.messages /\ y.last = x.last
  BY <1>8
<1> QED BY <1>9, <1>10, <1>11, Recast

\* Everything has been read from a connection that is closed.
LEMMA Closed ==
  ASSUME NEW x, NEW srv, NEW in, NEW out, NEW rid, NEW op, NEW op2, Sound(x, srv, in, out, rid, op),
         x # NoXact, x.state = "Receiving", in = <<>>, ~srv.open,
         NEW y, y = [x EXCEPT !.fatal = "Yes", !.op = "standard_put"]
  PROVE  /\ Sound(y, srv, in, out, rid, op2) /\ y # NoXact /\ y.state # "Complete"
         /\ Sound(Dead(x), srv, in, out, rid, op2) /\ Dead(x) # NoXact /\ Dead(x).fatal = "Yes"
<1>1. IsXact(x) /\ Settled(x, srv, in, out)
  BY DEF Sound, Settled
<1>2. IsXact(x)
  BY <1>1
<1> DEFINE z == [x EXCEPT !.fatal = "Yes"]
<1>3. y = [z EXCEPT !.op = "standard_put"]
  OBVIOUS
<1>4. z = Xact(x.id, x.cmds, x.state, x.op, x.messages, x.last, x.stored, x.rows, x.asyncs, "Yes")
  BY <1>2, Replaces, ZenonT(60)
<1> HIDE DEF z
<1>5. y = Xact(x.id, x.cmds, x.state, "standard_put", x.messages, x.last, x.stored, x.rows, x.asyncs, "Yes")
  BY <1>3, <1>4 DEF Xact
<1>6. /\ IsXact(y) /\ Same(x, y) /\ y.state = "Receiving" /\ y.op = "standard_put" /\ y.messages = x.messages
      /\ y.last = x.last /\ y.fatal = "Yes"
  BY <1>1, <1>5 DEF IsXact, Xact, Same
<1>7. Sound(y, srv, in, out, rid, op2) /\ y # NoXact /\ y.state # "Complete"
  BY <1>6, Recast
<1>8. PICK d : d = Dead(x)
  OBVIOUS
<1>9. IsXact(d) /\ d.state = "Complete" /\ d.fatal = "Yes"
  BY <1>2, <1>8, DeadIs
<1>10. d # NoXact
  BY <1>9 DEF NoXact
<1>11. Sound(d, srv, in, out, rid, op2)
  BY <1>9, <1>1, Failing DEF Settled
<1> QED BY <1>7, <1>8, <1>9, <1>10, <1>11

-----------------------------------------------------------------------------
(* The client supplies the data of a COPY, and ends it.                    *)

\* A pipe that ends with e messages of data and with what ends the COPY of the command at o.
Closing(x, out, e, pipe, o) ==
  /\ IsList(pipe) /\ Len(pipe) = Len(out) + e + 1 + Len(x.cmds) - o
  /\ \A i \in 1 .. Len(out) : pipe[i] = out[i]
  /\ \A i \in (Len(out) + 1) .. (Len(out) + e) : pipe[i].k = "data" /\ pipe[i].id = x.id /\ pipe[i].at = o
  /\ pipe[Len(out) + e + 1].k \in {"done", "fail"} /\ pipe[Len(out) + e + 1].id = x.id
  /\ pipe[Len(out) + e + 1].at = o
  /\ \A i \in (Len(out) + e + 2) .. Len(pipe) :
       /\ pipe[i].k = x.cmds[o + i - (Len(out) + e + 1)] /\ pipe[i].id = x.id
       /\ pipe[i].at = o + i - (Len(out) + e + 1)

\* Another ending of the COPY changes nothing of what follows it.
LEMMA RestEnds ==
  ASSUME NEW x, InOrder(x.cmds), NEW out, IsList(out), NEW o \in 1 .. Len(x.cmds), NEW d \in Nat, NEW e \in Nat,
         NEW a, Closing(x, out, d, a, o), NEW b, Closing(x, out, e, b, o),
         NEW n \in 0 .. Len(a), NEW j \in 1 .. Len(x.cmds) + 1, Rest(x, a, j, n)
  PROVE  /\ n >= Len(out) + d + 1 /\ n + e - d \in 0 .. Len(b) /\ Rest(x, b, j, n + e - d)
<1> DEFINE N == Len(x.cmds)
           L == Len(out)
           la == Len(a)
           lb == Len(b)
           c == L + d + 1
           h == L + e + 1
           q == n + e - d
<1>0. /\ N \in Nat \ {0} /\ L \in Nat /\ o \in 1 .. N /\ j \in 1 .. N + 1 /\ n \in 0 .. la
      /\ \A i \in 1 .. N : x.cmds[i] \notin {"done", "fail"}
  <2>1. N \in Nat \ {0} /\ \A i \in 1 .. N : x.cmds[i] \in {"Q", "P", "B", "D", "X", "E", "L", "S"}
    BY OrderFacts
  <2> QED BY <2>1, ListFacts
<1>1. /\ la = c + N - o /\ lb = h + N - o /\ la - n = N + 1 - j
      /\ la \in Nat /\ lb \in Nat
  <2>1. la \in Nat /\ lb \in Nat
    BY ListFacts DEF Closing
  <2>2. la = L + d + 1 + N - o /\ lb = L + e + 1 + N - o /\ la - n = N + 1 - j
    BY DEF Closing, Rest
  <2> QED BY <1>0, <2>1, <2>2
<1>R. \A i \in (n + 1) .. la : a[i].k = x.cmds[j + i - n - 1] /\ a[i].id = x.id /\ a[i].at = j + i - n - 1
  BY DEF Rest
<1>A. /\ a[c].k \in {"done", "fail"}
      /\ \A i \in (L + d + 2) .. la : a[i].k = x.cmds[o + i - c] /\ a[i].at = o + i - c
  BY DEF Closing
<1>B. \A i \in (L + e + 2) .. lb : b[i].k = x.cmds[o + i - h] /\ b[i].id = x.id /\ b[i].at = o + i - h
  BY DEF Closing
<1> HIDE DEF N, L, la, lb
<1>2. n >= c
  <2>1. SUFFICES ASSUME n < c PROVE FALSE
    BY <1>0
  <2>2. c \in (n + 1) .. la /\ j + c - n - 1 \in 1 .. N
    BY <2>1, <1>0, <1>1
  <2>3. a[c].k = x.cmds[j + c - n - 1]
    BY <2>2, <1>R
  <2> QED BY <2>2, <2>3, <1>0, <1>A
<1>3. lb - q = N + 1 - j
  BY <1>0, <1>1
<1>4. ASSUME NEW i \in (q + 1) .. lb
      PROVE  b[i].k = x.cmds[j + i - q - 1] /\ b[i].id = x.id /\ b[i].at = j + i - q - 1
  <2>1. PICK l : l = i - e + d
    OBVIOUS
  <2>2. PICK m : m = o + i - h
    OBVIOUS
  <2>3. /\ l \in (n + 1) .. la /\ l \in (L + d + 2) .. la /\ i \in (L + e + 2) .. lb
        /\ j + l - n - 1 = j + i - q - 1 /\ o + l - c = m /\ o + i - h = m
    BY <2>1, <2>2, <1>0, <1>1, <1>2, <1>3
  <2>4. a[l].k = x.cmds[j + l - n - 1] /\ a[l].at = j + l - n - 1
    BY <2>3, <1>R
  <2>5. a[l].k = x.cmds[o + l - c] /\ a[l].at = o + l - c
    BY <2>3, <1>A
  <2>6. b[i].k = x.cmds[o + i - h] /\ b[i].id = x.id /\ b[i].at = o + i - h
    BY <2>3, <1>B
  <2> QED BY <2>3, <2>4, <2>5, <2>6
<1>5. q \in 0 .. lb
  <2>1. j \in Int /\ j <= N + 1 /\ N \in Int /\ L \in Int /\ L >= 0 /\ n \in Int
    BY <1>0
  <2>2. lb - q = N + 1 - j /\ n >= c /\ lb \in Nat
    BY <1>1, <1>2, <1>3
  <2> QED BY <2>1, <2>2
<1> QED BY <1>2, <1>3, <1>4, <1>5 DEF Rest, L, lb, N

\* How much data there is on the way and how it ends are the same to the session.
LEMMA AnyEnd ==
  ASSUME NEW x, InOrder(x.cmds), NEW out, IsList(out), NEW o \in 1 .. Len(x.cmds), NEW d \in Nat, NEW e \in Nat,
         NEW a, Closing(x, out, d, a, o), NEW b, Closing(x, out, e, b, o),
         NEW p, NEW srv, Served(x, a, p, srv)
  PROVE  Served(x, b, p, srv)
<1> DEFINE N == Len(x.cmds)
           L == Len(out)
           la == Len(a)
           lb == Len(b)
           c == L + d + 1
           h == L + e + 1
<1>0. /\ N \in Nat \ {0} /\ L \in Nat /\ la = L + d + 1 + N - o /\ lb = L + e + 1 + N - o
      /\ la \in Nat /\ lb \in Nat /\ o \in 1 .. N
  <2>1. N \in Nat \ {0} /\ o \in 1 .. N
    BY OrderFacts
  <2>2. la \in Nat /\ lb \in Nat /\ L \in Nat
    BY ListFacts DEF Closing
  <2>3. la = L + d + 1 + N - o /\ lb = L + e + 1 + N - o
    BY DEF Closing
  <2> QED BY <2>1, <2>2, <2>3
<1>A. /\ \A i \in 1 .. L : a[i] = out[i]
      /\ \A i \in (L + 1) .. (L + d) : a[i].k = "data"
      /\ a[c].k \in {"done", "fail"} /\ a[c].at = o
      /\ \A i \in (L + d + 2) .. la : a[i].k = x.cmds[o + i - c]
  BY DEF Closing
<1>B. /\ \A i \in 1 .. L : b[i] = out[i]
      /\ \A i \in (L + 1) .. (L + e) : b[i].k = "data" /\ b[i].id = x.id /\ b[i].at = o
      /\ b[h].k \in {"done", "fail"} /\ b[h].id = x.id /\ b[h].at = o
      /\ \A i \in (L + e + 2) .. lb : b[i].k = x.cmds[o + i - h]
  BY DEF Closing
<1>C. ASSUME NEW n \in 0 .. la, NEW j \in 1 .. N + 1, Rest(x, a, j, n)
      PROVE  n >= c /\ n + e - d \in 0 .. lb /\ Rest(x, b, j, n + e - d)
  BY <1>C, RestEnds
<1>D. \A i \in 1 .. N : x.cmds[i] \in {"Q", "P", "B", "D", "X", "E", "L", "S"}
  BY OrderFacts
<1> HIDE DEF N, L, la, lb
<1>1. ASSUME NEW n \in 0 .. la, NEW j \in 1 .. N + 1, Rest(x, a, j, n), \A i \in 1 .. n : a[i].k \in Junk
      PROVE  /\ n + e - d \in 0 .. lb /\ Rest(x, b, j, n + e - d)
             /\ \A i \in 1 .. n + e - d : b[i].k \in Junk
  <2>1. n >= L + d + 1 /\ n + e - d \in 0 .. lb /\ Rest(x, b, j, n + e - d)
    BY <1>1, <1>C
  <2>2. ASSUME NEW i \in 1 .. n + e - d PROVE b[i].k \in Junk
    <3>1. CASE i <= L
      <4>1. i \in 1 .. L /\ i \in 1 .. n
        BY <3>1, <2>1, <1>0
      <4> QED BY <4>1, <1>1, <1>A, <1>B
    <3>2. CASE i > L /\ i <= L + e
      <4>1. i \in (L + 1) .. (L + e)
        BY <3>2, <1>0, <2>1
      <4> QED BY <4>1, <1>B DEF Junk
    <3>3. CASE i = L + e + 1
      BY <3>3, <1>B DEF Junk
    <3>4. CASE i > L + e + 1
      <4>1. PICK l : l = i - e + d
        OBVIOUS
      <4>2. PICK m : m = o + i - (L + e + 1)
        OBVIOUS
      <4>3. /\ l \in 1 .. n /\ l \in (L + d + 2) .. la /\ i \in (L + e + 2) .. lb
            /\ o + l - (L + d + 1) = m
        BY <4>1, <4>2, <3>4, <2>1, <1>0
      <4>4. a[l].k = x.cmds[m]
        BY <4>3, <1>A
      <4>5. b[i].k = x.cmds[m]
        BY <4>2, <4>3, <1>B
      <4> QED BY <4>3, <4>4, <4>5, <1>1
    <3>5. i \in Int
      BY <2>1
    <3> QED BY <3>1, <3>2, <3>3, <3>4, <3>5, <1>0
  <2> QED BY <2>1, <2>2
<1>2. ASSUME ServedIdle(x, a, p) PROVE ServedIdle(x, b, p)
  <2>1. PICK n \in 0 .. la, j \in 1 .. N + 1 :
          /\ \A i \in 1 .. n : a[i].k \in Junk
          /\ Rest(x, a, j, n)
          /\ p = At(NextCmd(x.cmds, j - 1), 1)
    BY <1>2 DEF ServedIdle, N, la, lb
  <2>2. PICK q : q = n + e - d
    OBVIOUS
  <2>3. q \in 0 .. lb /\ Rest(x, b, j, q) /\ \A i \in 1 .. q : b[i].k \in Junk
    BY <1>1, <2>1, <2>2
  <2> QED BY <2>1, <2>3 DEF ServedIdle, N, la, lb
<1>3. ASSUME ServedIgnoring(x, a, p) PROVE ServedIgnoring(x, b, p)
  <2>1. PICK n \in 0 .. la, j \in 1 .. N :
          /\ \A i \in 1 .. n : a[i].k \in Junk
          /\ Rest(x, a, j, n)
          /\ p = At(N, 1) /\ x.cmds[N] = "S"
    BY <1>3 DEF ServedIgnoring, N, la, lb
  <2>2. PICK q : q = n + e - d
    OBVIOUS
  <2>3. j \in 1 .. N + 1
    BY <1>0
  <2>4. q \in 0 .. lb /\ Rest(x, b, j, q) /\ \A i \in 1 .. q : b[i].k \in Junk
    BY <1>1, <2>1, <2>2, <2>3
  <2> QED BY <2>1, <2>4 DEF ServedIgnoring, N, la, lb
<1>4. ASSUME ServedCopying(x, a, p, srv.simple) PROVE ServedCopying(x, b, p, srv.simple)
  <2>1. PICK g \in 0 .. la, n \in 0 .. la :
          /\ g < n
          /\ \A i \in 1 .. g : a[i].k \in {"L", "S"}
          /\ \A i \in (g + 1) .. (n - 1) : a[i].k = "data" /\ a[i].id = x.id /\ a[i].at = p.off
          /\ a[n].k \in {"done", "fail"} /\ a[n].id = x.id /\ a[n].at = p.off
          /\ Rest(x, a, p.off + 1, n)
          /\ p.off \in 1 .. N
          /\ \/ srv.simple /\ x.cmds[p.off] = "Q" /\ p = At(p.off, 2)
             \/ ~srv.simple /\ x.cmds[p.off] = "E" /\ p = At(p.off, 4)
    BY <1>4 DEF ServedCopying, N, la, lb
  <2>0. g \in 0 .. la /\ n \in 0 .. la /\ g < n /\ p.off \in 1 .. N
    BY <2>1
  <2>2. PICK q : q = L + e + 1
    OBVIOUS
  <2>3. PICK j : j = p.off + 1
    OBVIOUS
  <2>4. n >= L + d + 1 /\ Rest(x, b, j, n + e - d)
    <3>1. j \in 1 .. N + 1
      BY <2>0, <2>3, <1>0
    <3>2. Rest(x, a, j, n)
      BY <2>1, <2>3
    <3> QED BY <3>1, <3>2, <1>C
  <2>5. n = L + d + 1
    <3>1. SUFFICES ASSUME n > L + d + 1 PROVE FALSE
      BY <2>4, <1>0
    <3>2. PICK m : m = o + n - (L + d + 1)
      OBVIOUS
    <3>3. n \in (L + d + 2) .. la /\ m \in 1 .. N
      BY <3>1, <3>2, <1>0, <2>0
    <3>4. a[n].k = x.cmds[m]
      BY <3>2, <3>3, <1>A
    <3>5. x.cmds[m] \in {"Q", "P", "B", "D", "X", "E", "L", "S"}
      BY <3>3, <1>D
    <3> QED BY <3>4, <3>5, <2>1
  <2>6. p.off = o
    BY <2>1, <2>5, <1>A
  <2>7. g <= L
    <3>1. SUFFICES ASSUME g > L PROVE FALSE
      BY <1>0, <2>0
    <3>2. L + 1 \in 1 .. g /\ L + 1 \in (L + 1) .. (L + d)
      BY <3>1, <2>1, <2>5, <1>0
    <3>3. a[L + 1].k \in {"L", "S"}
      BY <3>2, <2>1
    <3>4. a[L + 1].k = "data"
      BY <3>2, <1>A
    <3> QED BY <3>3, <3>4
  <2>8. g \in 0 .. lb /\ q \in 0 .. lb /\ g < q /\ q = n + e - d
    BY <2>1, <2>2, <2>5, <2>7, <1>0
  <2>9. \A i \in 1 .. L : b[i] = a[i]
    BY <1>A, <1>B
  <2>10. ASSUME NEW i \in 1 .. g PROVE b[i].k \in {"L", "S"}
    <3>1. i \in 1 .. L
      BY <2>0, <2>7, <1>0
    <3> QED BY <3>1, <2>1, <2>9
  <2>11. ASSUME NEW i \in (g + 1) .. (q - 1) PROVE b[i].k = "data" /\ b[i].id = x.id /\ b[i].at = p.off
    <3>1. CASE i <= L
      <4>1. i \in (g + 1) .. (n - 1) /\ i \in 1 .. L
        BY <3>1, <2>5, <2>1, <1>0
      <4> QED BY <4>1, <2>1, <2>9
    <3>2. CASE i > L
      <4>1. i \in (L + 1) .. (L + e)
        BY <3>2, <2>1, <2>2, <1>0
      <4> QED BY <4>1, <2>6, <1>B
    <3> QED BY <3>1, <3>2, <1>0, <2>1
  <2>12. b[q].k \in {"done", "fail"} /\ b[q].id = x.id /\ b[q].at = p.off
    BY <2>2, <2>6, <1>B
  <2>13. Rest(x, b, p.off + 1, q)
    BY <2>3, <2>4, <2>8
  <2> QED BY <2>1, <2>8, <2>10, <2>11, <2>12, <2>13 DEF ServedCopying, N, la, lb
<1> QED BY <1>2, <1>3, <1>4 DEF Served

\* Either end of the COPY closes it.
LEMMA EndClosing ==
  ASSUME NEW x, InOrder(x.cmds), NEW o \in 1 .. Len(x.cmds), NEW k \in {"done", "fail"}, NEW e, e = Ending(x, k, o),
         NEW out, IsList(out)
  PROVE  Closing(x, out, 0, out \o e, o)
<1> DEFINE N == Len(x.cmds)
           L == Len(out)
           pipe == out \o e
<1>0. N \in Nat \ {0} /\ L \in Nat /\ o \in 1 .. N
  <2>1. N \in Nat \ {0}
    BY OrderFacts
  <2> QED BY <2>1, ListFacts
<1>1. /\ IsList(e) /\ Len(e) = N - o + 1
      /\ e[1].k = k /\ e[1].id = x.id /\ e[1].at = o
      /\ \A i \in 1 .. N - o : e[i + 1].k = x.cmds[o + i] /\ e[i + 1].id = x.id /\ e[i + 1].at = o + i
  <2>1. IsEnding(e, x, k, o)
    BY EndingIs
  <2> QED BY <2>1 DEF IsEnding
<1>2. /\ IsList(pipe) /\ Len(pipe) = L + Len(e)
      /\ \A i \in 1 .. L : pipe[i] = out[i]
      /\ \A i \in 1 .. Len(e) : pipe[L + i] = e[i]
  <2>1. IsList(e)
    BY <1>1
  <2> QED BY <2>1, Joined
<1> HIDE DEF N, L, pipe
<1>3. Len(e) \in Nat /\ Len(pipe) = L + 1 + N - o /\ 1 \in 1 .. Len(e)
  BY <1>0, <1>1, <1>2
<1>4. pipe[L + 1] = e[1]
  BY <1>2, <1>3
<1>5. ASSUME NEW i \in (L + 2) .. Len(pipe)
      PROVE  /\ pipe[i].k = x.cmds[o + i - (L + 1)] /\ pipe[i].id = x.id
             /\ pipe[i].at = o + i - (L + 1)
  <2>1. PICK m : m = i - (L + 1)
    OBVIOUS
  <2>2. m \in 1 .. N - o /\ m + 1 \in 1 .. Len(e) /\ L + (m + 1) = i /\ o + m = o + i - (L + 1)
    BY <2>1, <1>0, <1>1, <1>3
  <2>3. pipe[i] = e[m + 1]
    BY <2>2, <1>2
  <2>4. e[m + 1].k = x.cmds[o + m] /\ e[m + 1].id = x.id /\ e[m + 1].at = o + m
    BY <2>2, <1>1
  <2> QED BY <2>2, <2>3, <2>4
<1>6. L + 0 + 1 = L + 1 /\ L + 0 + 2 = L + 2 /\ (L + 1) .. (L + 0) = {} /\ Len(pipe) = L + 0 + 1 + N - o
  BY <1>0, <1>3
<1>7. /\ \A i \in (L + 1) .. (L + 0) : pipe[i].k = "data" /\ pipe[i].id = x.id /\ pipe[i].at = o
      /\ pipe[L + 0 + 1].k \in {"done", "fail"} /\ pipe[L + 0 + 1].id = x.id /\ pipe[L + 0 + 1].at = o
      /\ \A i \in (L + 0 + 2) .. Len(pipe) :
           /\ pipe[i].k = x.cmds[o + i - (L + 0 + 1)] /\ pipe[i].id = x.id
           /\ pipe[i].at = o + i - (L + 0 + 1)
  BY <1>1, <1>4, <1>5, <1>6
<1> QED BY <1>2, <1>6, <1>7 DEF Closing, N, L, pipe

\* One more message of data before the end.
LEMMA DataClosing ==
  ASSUME NEW x, InOrder(x.cmds), NEW o \in 1 .. Len(x.cmds), NEW e, e = Ending(x, "fail", o),
         NEW out, IsList(out), NEW m, m.k = "data", m.id = x.id, m.at = o
  PROVE  Closing(x, out, 1, out \o (<<m>> \o e), o)
<1>1. PICK d : d = <<m>>
  OBVIOUS
<1>2. IsList(d) /\ Len(d) = 1 /\ d[1] = m
  BY <1>1, JoinOne
<1>3. IsList(e)
  BY EndingIs DEF IsEnding
<1>4. PICK more : more = out \o d
  OBVIOUS
<1>5. /\ IsList(more) /\ Len(more) = Len(out) + 1
      /\ \A i \in 1 .. Len(out) : more[i] = out[i]
      /\ more[Len(out) + 1] = m
  <2>1. IsList(d)
    BY <1>2
  <2>2. /\ IsList(more) /\ Len(more) = Len(out) + Len(d)
        /\ \A i \in 1 .. Len(out) : more[i] = out[i]
        /\ \A i \in 1 .. Len(d) : more[Len(out) + i] = d[i]
    BY <2>1, <1>4, Joined
  <2> QED BY <2>2, <1>2
<1>6. PICK pipe : pipe = more \o e
  OBVIOUS
<1>7. pipe = out \o (d \o e)
  <2>1. IsList(d)
    BY <1>2
  <2>2. (out \o d) \o e = out \o (d \o e)
    BY <2>1, <1>3, JoinMore
  <2> QED BY <2>2, <1>4, <1>6
<1>8. Closing(x, more, 0, pipe, o)
  <2>1. IsList(more)
    BY <1>5
  <2> QED BY <2>1, <1>6, EndClosing
<1>9. Len(out) \in Nat /\ Len(more) = Len(out) + 1
  BY <1>5, ListFacts
<1>10. PICK L : L = Len(out)
  OBVIOUS
<1>11. L \in Nat /\ Len(more) = L + 1 /\ Len(more) + 0 = L + 1 /\ Len(more) + 0 + 1 = L + 1 + 1 /\ Len(more) + 0 + 2 = L + 1 + 2
  BY <1>9, <1>10
<1>12. /\ IsList(pipe) /\ Len(pipe) = L + 1 + 1 + Len(x.cmds) - o
       /\ \A i \in 1 .. L + 1 : pipe[i] = more[i]
       /\ pipe[L + 1 + 1].k \in {"done", "fail"} /\ pipe[L + 1 + 1].id = x.id /\ pipe[L + 1 + 1].at = o
       /\ \A i \in (L + 1 + 2) .. Len(pipe) :
            /\ pipe[i].k = x.cmds[o + i - (L + 1 + 1)] /\ pipe[i].id = x.id
            /\ pipe[i].at = o + i - (L + 1 + 1)
  BY <1>8, <1>11 DEF Closing
<1>13. \A i \in 1 .. L : pipe[i] = out[i]
  BY <1>5, <1>10, <1>11, <1>12
<1>14. \A i \in (L + 1) .. (L + 1) : pipe[i].k = "data" /\ pipe[i].id = x.id /\ pipe[i].at = o
  <2>1. pipe[L + 1] = m
    BY <1>5, <1>10, <1>11, <1>12
  <2> QED BY <2>1, <1>11
<1>15. Closing(x, out, 1, pipe, o)
  BY <1>10, <1>12, <1>13, <1>14 DEF Closing
<1> QED BY <1>1, <1>7, <1>15

\* What an instruction that sends the data of a COPY will still send.
LEMMA SupplyClosing ==
  ASSUME NEW x, Runs(x), x.state = "Sending", Supplies(x), NEW out, IsList(out), NEW at, NEW coming
  PROVE  \E e \in Nat : Closing(x, out, e, out \o Owed(x, at, coming), x.last.to.off)
<1>0. PICK o : o = x.last.to.off
  OBVIOUS
<1>1. InOrder(x.cmds) /\ o \in 1 .. Len(x.cmds)
  BY <1>0 DEF Runs, Places
<1>2. PICK f : f = EndOf(x, o)
  OBVIOUS
<1>3. f = Ending(x, "fail", o)
  BY <1>2, EndsWith
<1>4. IsList(f)
  BY <1>1, <1>3, EndingIs DEF IsEnding
<1>5. CASE x.messages = <<>>
  <2>1. Owed(x, at, coming) = <<>> \o f
    BY <1>0, <1>2, <1>5 DEF Owed, Closes, Supplies
  <2>2. <<>> \o f = f
    BY <1>4, JoinNone
  <2>3. Closing(x, out, 0, out \o f, o)
    BY <1>1, <1>3, EndClosing
  <2> QED BY <2>1, <2>2, <2>3, <1>0
<1>6. CASE x.messages = <<DataOf(x)>>
  <2>1. PICK m : m = DataOf(x)
    OBVIOUS
  <2>2. m.k = "data" /\ m.id = x.id /\ m.at = o
    BY <2>1, <1>0 DEF DataOf
  <2>3. PICK d : d = x.messages
    OBVIOUS
  <2>4. d # <<>> /\ Head(d) = m /\ d = <<m>>
    <3>1. d = <<m>>
      BY <2>1, <2>3, <1>6
    <3> QED BY <3>1
  <2>5. ~Closes(x)
    BY <2>2, <2>3, <2>4 DEF Closes, Supplies
  <2>6. Owed(x, at, coming) = <<m>> \o f
    BY <2>3, <2>4, <2>5, <1>0, <1>2 DEF Owed
  <2>7. Closing(x, out, 1, out \o (<<m>> \o f), o)
    BY <2>2, <1>1, <1>3, DataClosing
  <2> QED BY <2>6, <2>7, <1>0
<1>7. ASSUME NEW k \in {"done", "fail"}, x.messages = CopySequence(x, k)
      PROVE  \E e \in Nat : Closing(x, out, e, out \o Owed(x, at, coming), o)
  <2>1. PICK e : e = x.messages
    OBVIOUS
  <2>2. e = Ending(x, k, o)
    BY <2>1, <1>0, <1>7, EndsWith
  <2>3. e # <<>> /\ Head(e).k = k
    <3>1. e # <<>> /\ Head(e) = e[1] /\ e[1].k = k
      BY <2>2, <1>1, EndingIs DEF IsEnding
    <3> QED BY <3>1
  <2>4. Owed(x, at, coming) = e
    BY <2>1, <2>3 DEF Owed, Closes
  <2>5. Closing(x, out, 0, out \o e, o)
    BY <2>2, <1>1, EndClosing
  <2> QED BY <2>4, <2>5
<1> QED BY <1>0, <1>5, <1>6, <1>7 DEF Supplies

\* The copy manager sets the messages of a COPY FROM STDIN.
LEMMA Supplying ==
  ASSUME NEW x, NEW srv, NEW in, NEW out, NEW rid, NEW op, NEW op2, Sound(x, srv, in, out, rid, op),
         x # NoXact, x.state = "Sending", x.op = "sent_from_stdin", IsList(out),
         NEW ms, ms = <<DataOf(x)>> \/ ms = CopySequence(x, "done"), NEW y, y = [x EXCEPT !.messages = ms]
  PROVE  Sound(y, srv, in, out, rid, op2) /\ y # NoXact
<1>1. IsXact(x) /\ Runs(x) /\ x.last.of # rid /\ Settled(x, srv, in, out) /\ Supplies(x)
  BY DEF Sound, Settled, Runs, Begins
<1>2. PICK w : OnWay(x, w, srv, in, out)
  BY <1>1 DEF Sound, Useless, Begins
<1>3. y = Xact(x.id, x.cmds, x.state, x.op, ms, x.last, x.stored, x.rows, x.asyncs, x.fatal)
  <2>1. IsXact(x)
    BY <1>1
  <2> QED BY <2>1, Replaces
<1>4. /\ IsXact(y) /\ Same(x, y) /\ y.state = "Sending" /\ y.op = "sent_from_stdin" /\ y.messages = ms
      /\ y.last = x.last /\ y.fatal = x.fatal
  BY <1>1, <1>3 DEF IsXact, Xact, Same
<1>5. PICK o : o = x.last.to.off
  OBVIOUS
<1>6. InOrder(x.cmds) /\ o \in 1 .. Len(x.cmds)
  BY <1>1, <1>5 DEF Runs, Places
<1>7. IsList(ms)
  <2>1. CASE ms = <<DataOf(x)>>
    BY <2>1, JoinOne
  <2>2. CASE ms = CopySequence(x, "done")
    <3>1. ms = Ending(x, "done", o)
      BY <2>2, <1>5, EndsWith
    <3> QED BY <3>1, <1>6, EndingIs DEF IsEnding
  <2> QED BY <2>1, <2>2
<1>8. DataOf(y) = DataOf(x) /\ CopySequence(y, "done") = CopySequence(x, "done")
  BY <1>4 DEF DataOf, CopySequence, Reissued, Same
<1>9. Supplies(y)
  BY <1>1, <1>4, <1>8 DEF Supplies, Same
<1>10. Runs(y)
  BY <1>1, <1>4, <1>7, <1>9 DEF Runs, Same
<1>11. y # NoXact /\ ~Ended(y) /\ x # NoXact
  BY <1>1, <1>4 DEF IsXact, Xact, NoXact, Ended
<1>12. Settled(y, srv, in, out)
  BY <1>1, <1>4, <1>11 DEF Settled
<1>13. Way(y, w, in)
  BY <1>2, <1>4, WaySame DEF OnWay
<1>14. ASSUME srv.open
       PROVE  Served(y, out \o Owed(y, w[Len(in)].off, Coming(in)), w[Len(in)], srv) /\ Waits(y, srv, in, out)
  <2>1. PICK p : p = w[Len(in)]
    OBVIOUS
  <2>2. PICK a : a = out \o Owed(x, p.off, Coming(in))
    OBVIOUS
  <2>3. PICK b : b = out \o Owed(y, p.off, Coming(in))
    OBVIOUS
  <2>4. Served(x, a, p, srv)
    BY <2>1, <2>2, <1>2, <1>14 DEF OnWay
  <2>5. PICK d \in Nat : Closing(x, out, d, a, o)
    BY <2>2, <1>1, <1>5, SupplyClosing
  <2>6. \E e \in Nat : Closing(y, out, e, b, o)
    <3>1. y.last.to.off = o
      BY <1>4, <1>5
    <3>2. Runs(y) /\ y.state = "Sending" /\ Supplies(y)
      BY <1>4, <1>9, <1>10
    <3>3. \E e \in Nat : Closing(y, out, e, b, y.last.to.off)
      BY <2>3, <3>2, SupplyClosing
    <3> QED BY <3>1, <3>3
  <2>7. PICK e \in Nat : Closing(x, out, e, b, o)
    BY <2>6, <1>4 DEF Closing, Same
  <2>8. Served(x, b, p, srv)
    BY <2>4, <2>5, <2>7, <1>6, AnyEnd
  <2>9. Served(y, b, p, srv)
    BY <2>8, <1>4, ServedSame
  <2>10. ~Coming(in)
    BY <1>2, <1>14 DEF OnWay, Waits
  <2> QED BY <2>1, <2>3, <2>9, <2>10 DEF Waits
<1>15. OnWay(y, w, srv, in, out)
  BY <1>13, <1>14 DEF OnWay
<1> QED BY <1>1, <1>4, <1>10, <1>11, <1>12, <1>15 DEF Sound

-----------------------------------------------------------------------------
(* Receiving a chunk.                                                      *)

\* Nothing but notices after the first n messages; an instruction that is over after n; a session with
\* nothing to answer.
Silent(ms, n) == \A i \in (n + 1) .. Len(ms) : ms[i].k \in {"A", "FATAL"}
Over(x, w, n) == w[n].off = Len(x.cmds) + 1
Drained(srv, out) == srv.open => srv.mode = "idle" /\ AllJunk(out)

\* When the last command has been answered nothing of the instruction is on its way.
LEMMA AllAnswered ==
  ASSUME NEW x, NEW w, NEW srv, NEW in, IsList(in), NEW out, IsList(out), InOrder(x.cmds), x.state = "Receiving",
         OnWay(x, w, srv, in, out), NEW n \in 1 .. Len(in), Over(x, w, n)
  PROVE  Silent(in, n) /\ Drained(srv, out)
<1> DEFINE N == Len(x.cmds)
<1>O. w[n].off = N + 1
  BY DEF Over
<1>0. N \in Nat \ {0} /\ Len(in) \in Nat /\ Way(x, w, in) /\ x.cmds[N] # "L"
  BY OrderFacts, ListFacts DEF OnWay
<1>1. Still(x, w, in, n, Len(in))
  BY <1>0, <1>O DEF Still, Leads
<1>2. \A j \in n .. Len(in) : w[j] = w[n]
  <2>1. n \in 0 .. Len(in) /\ Len(in) \in n .. Len(in)
    BY <1>0
  <2> QED BY <2>1, <1>0, <1>1, Stays
<1>3. ASSUME NEW i \in (n + 1) .. Len(in) PROVE in[i].k \in {"A", "FATAL"}
  <2>1. i \in 1 .. Len(in) /\ i - 1 \in n .. Len(in)
    BY <1>0
  <2>2. Leads(x, w[i - 1], in[i], w[i]) /\ w[i - 1] = w[n]
    BY <2>1, <1>0, <1>2 DEF Way
  <2> QED BY <2>2, <1>0, <1>O DEF Leads
<1>4. ASSUME srv.open PROVE srv.mode = "idle" /\ AllJunk(out)
  <2>1. PICK p : p = w[Len(in)]
    OBVIOUS
  <2>2. PICK o : o = Owed(x, p.off, Coming(in))
    OBVIOUS
  <2>3. PICK pipe : pipe = out \o o
    OBVIOUS
  <2>4. p.off = N + 1
    BY <1>0, <1>O, <1>2, <2>1
  <2>5. Served(x, pipe, p, srv) /\ Waits(x, srv, in, out)
    BY <1>4, <2>1, <2>2, <2>3 DEF OnWay
  <2>6. srv.mode # "copyin"
    <3>1. SUFFICES ASSUME ServedCopying(x, pipe, p, srv.simple) PROVE FALSE
      BY <2>5 DEF Served
    <3>2. p.off \in 1 .. N
      BY <3>1 DEF ServedCopying
    <3> QED BY <3>2, <2>4, <1>0
  <2>7. srv.mode # "ignore"
    <3>1. SUFFICES ASSUME ServedIgnoring(x, pipe, p) PROVE FALSE
      BY <2>5 DEF Served
    <3>2. p = At(N, 1)
      BY <3>1 DEF ServedIgnoring
    <3> QED BY <3>2, <2>4, <1>0 DEF At
  <2>8. srv.mode = "idle" /\ ServedIdle(x, pipe, p)
    BY <2>5, <2>6, <2>7 DEF Served
  <2>9. PICK l \in 0 .. Len(pipe), j \in 1 .. N + 1 :
          /\ \A i \in 1 .. l : pipe[i].k \in Junk
          /\ Rest(x, pipe, j, l)
          /\ p = At(NextCmd(x.cmds, j - 1), 1)
    BY <2>8 DEF ServedIdle
  <2>10. NextCmd(x.cmds, j - 1) = N + 1
    BY <2>9, <2>4 DEF At
  <2>11. j = N + 1
    <3>1. SUFFICES ASSUME j # N + 1 PROVE FALSE
      OBVIOUS
    <3>2. PICK q : q = j - 1
      OBVIOUS
    <3>3. q \in 0 .. N /\ N \in Nat /\ N \in (q + 1) .. N
      BY <3>1, <3>2, <1>0
    <3>4. \A i \in (q + 1) .. (NextCmd(x.cmds, q) - 1) : x.cmds[i] = "L"
      BY <3>3, NextUp
    <3>5. NextCmd(x.cmds, q) - 1 = N
      BY <3>2, <2>10, <1>0
    <3> QED BY <3>3, <3>4, <3>5, <1>0
  <2>12. ~Coming(in)
    BY <2>5, <2>6 DEF Waits
  <2>13. o = <<>>
    BY <2>2, <2>12 DEF Owed
  <2>14. pipe = out
    BY <2>3, <2>13, JoinNone
  <2>15. Len(out) = l
    <3>1. Len(out) - l = N + 1 - j
      BY <2>9, <2>14 DEF Rest
    <3>2. Len(out) \in Nat
      BY ListFacts
    <3> QED BY <3>1, <3>2, <2>9, <2>11, <1>0
  <2> QED BY <2>8, <2>9, <2>14, <2>15 DEF AllJunk
<1> QED BY <1>3, <1>4 DEF Silent, Drained

\* r: a chunk, a first part of what is on its way; in2: what is left when p.a.n of it have been taken.
Handed(x, srv, in, out, rid, op, r, p, in2, rid2) ==
  /\ Sound(x, srv, in, out, rid, op) /\ x # NoXact /\ x.state = "Receiving" /\ IsList(in) /\ IsList(out)
  /\ r.id = rid /\ Len(r.msgs) \in 1 .. Len(in) /\ (\A i \in 1 .. Len(r.msgs) : r.msgs[i] = in[i]) /\ p = Put(x, r)
  /\ rid2 # rid /\ IsList(in2) /\ Len(in2) = Len(in) - p.a.n /\ \A i \in 1 .. Len(in2) : in2[i] = in[p.a.n + i]

\* WireReceive: the instruction after a chunk is sound with what is left in flight.
LEMMA Receiving ==
  ASSUME NEW x, NEW srv, NEW in, NEW out, NEW rid, NEW op, NEW r, NEW p, NEW in2, NEW rid2,
         Handed(x, srv, in, out, rid, op, r, p, in2, rid2), NEW op2
  PROVE  Sound(p.x, srv, in2, out, rid2, op2) /\ p.x # NoXact
<1>a. PICK u : u = Len(r.msgs)
  OBVIOUS
<1>b. PICK n : n = p.a.n
  OBVIOUS
<1>c. /\ Sound(x, srv, in, out, rid, op) /\ x # NoXact /\ x.state = "Receiving" /\ IsList(in) /\ IsList(out)
      /\ r.id = rid /\ u \in 1 .. Len(in) /\ (\A i \in 1 .. u : r.msgs[i] = in[i]) /\ p = Put(x, r)
      /\ rid2 # rid /\ IsList(in2) /\ Len(in2) = Len(in) - n /\ \A i \in 1 .. Len(in2) : in2[i] = in[n + i]
  BY <1>a, <1>b DEF Handed
<1> USE <1>a, <1>b, <1>c
<1>1. IsXact(x) /\ Runs(x) /\ x.last.of # rid /\ Settled(x, srv, in, out)
  BY DEF Sound, Settled
<1>2. PICK w : OnWay(x, w, srv, in, out)
  BY <1>1 DEF Sound, Useless
<1>3. Way(x, w, in) /\ r.id # x.last.of /\ IsXact(x) /\ Runs(x)
  BY <1>1, <1>2 DEF OnWay
<1>4. n \in 1 .. u /\ Outcome(x, w, in, r.id, n, p.x)
  <2>1. Chunked(x, w, in, r)
    BY <1>3 DEF Chunked
  <2>2. Processed(x, w, in, r, p)
    BY <2>1, PutOutcome
  <2> QED BY <2>2 DEF Processed
<1>5. PICK y : y = p.x
  OBVIOUS
<1>6. IsXact(y) /\ Same(x, y) /\ y # NoXact
  BY <1>4, <1>5 DEF Outcome, IsXact, Xact, NoXact
<1>7. Len(in) \in Nat /\ Len(in2) \in Nat /\ n \in 1 .. Len(in) /\ in # <<>>
  BY <1>4, ListFacts
<1>8. InOrder(x.cmds)
  BY <1>3 DEF Runs
<1>9. (srv.reset => ~srv.open) /\ \A i \in 1 .. Len(in2) : in2[i].k = "FATAL" => ~srv.open /\ i = Len(in2)
  <2>1. ASSUME NEW i \in 1 .. Len(in2), in2[i].k = "FATAL" PROVE ~srv.open /\ i = Len(in2)
    <3>1. n + i \in 1 .. Len(in) /\ in2[i] = in[n + i]
      BY <1>7, SMTT(40)
    <3> QED BY <3>1, <2>1, <1>1, <1>7 DEF Settled
  <2> QED BY <2>1, <1>1 DEF Settled
<1>10. CASE y.state = "Complete" /\ y.fatal = "Yes" /\ in[n].k = "FATAL"
  <2>1. ~srv.open /\ n = Len(in)
    BY <1>1, <1>7, <1>10 DEF Settled
  <2>2. Len(in2) = 0
    BY <2>1, <1>7
  <2>3. in2 = <<>>
    BY <2>2, ListFacts
  <2> QED BY <2>1, <2>3, <1>5, <1>6, <1>9, <1>10, Failing
<1>11. CASE y.state = "Complete" /\ y.fatal \in {x.fatal, "No"} /\ w[n].off = Len(x.cmds) + 1
  <2>1. CASE y.fatal = "Yes"
    <3>1. ~srv.open /\ srv.reset
      BY <2>1, <1>1, <1>7, <1>11 DEF Settled
    <3> QED BY <3>1, <2>1, <1>5, <1>6, <1>9, <1>11, Failing
  <2>2. CASE y.fatal # "Yes"
    <3>1. /\ \A i \in (n + 1) .. Len(in) : in[i].k \in {"A", "FATAL"}
          /\ srv.open => srv.mode = "idle" /\ AllJunk(out)
      <4>1. n \in 1 .. Len(in) /\ Over(x, w, n)
        BY <1>7, <1>11 DEF Over
      <4>2. Silent(in, n) /\ Drained(srv, out)
        BY <4>1, <1>2, <1>8, AllAnswered
      <4> QED BY <4>2 DEF Silent, Drained
    <3>2. ASSUME NEW i \in 1 .. Len(in2) PROVE in2[i].k \in {"A", "FATAL"}
      <4>1. n + i \in (n + 1) .. Len(in)
        BY <1>7
      <4> QED BY <4>1, <3>1
    <3>3. Settled(y, srv, in2, out)
      BY <3>1, <3>2, <2>2, <1>6, <1>9 DEF Settled, Quiet
    <3> QED BY <3>3, <1>5, <1>6, <1>11 DEF Sound
  <2> QED BY <2>1, <2>2
<1>12. CASE /\ y.state \in {"Receiving", "Sending"} /\ y.fatal \in {x.fatal, "No"}
            /\ y.last.to = w[n] /\ y.last.of = r.id /\ Runs(y)
            /\ y.state = "Sending" =>
                 y.op = "sent_from_stdin" /\ y.messages = <<>> /\ \E l \in 1 .. n : in[l].k = "G"
            /\ (\E l \in 1 .. n : in[l].k = "G" /\ \A j \in (l + 1) .. n : in[j].k = "A") => y.state = "Sending"
  <2>1. Settled(y, srv, in2, out)
    <3>1. ~Ended(y)
      BY <1>6, <1>12 DEF Ended
    <3>2. y.fatal = "Yes" => ~srv.open /\ srv.reset
      BY <1>1, <1>7, <1>12 DEF Settled
    <3> QED BY <3>1, <3>2, <1>6, <1>9 DEF Settled
  <2>2. PICK v : v = [i \in 0 .. Len(in2) |-> w[n + i]]
    OBVIOUS
  <2>3. Way(y, v, in2) /\ v[Len(in2)] = w[Len(in)]
    <3>1. w \in [0 .. Len(in) -> Places(x.cmds)] /\ \A i \in 1 .. Len(in) : Leads(x, w[i - 1], in[i], w[i])
      BY <1>3 DEF Way
    <3>2. v \in [0 .. Len(in2) -> Places(x.cmds)] /\ v[0] = w[n] /\ v[Len(in2)] = w[Len(in)]
      <4>1. \A i \in 0 .. Len(in2) : n + i \in 0 .. Len(in)
        BY <1>7
      <4>2. 0 \in 0 .. Len(in2) /\ Len(in2) \in 0 .. Len(in2) /\ n + 0 = n /\ n + Len(in2) = Len(in)
        BY <1>7
      <4>3. \A i \in 0 .. Len(in2) : w[n + i] \in Places(x.cmds)
        BY <3>1, <4>1
      <4>4. v \in [0 .. Len(in2) -> Places(x.cmds)]
        BY <2>2, <4>3
      <4>5. v[0] = w[n + 0] /\ v[Len(in2)] = w[n + Len(in2)]
        BY <2>2, <4>2
      <4> QED BY <4>2, <4>4, <4>5
    <3>3. ASSUME NEW i \in 1 .. Len(in2) PROVE Leads(x, v[i - 1], in2[i], v[i])
      <4>1. PICK j : j = n + i
        OBVIOUS
      <4>2. j \in 1 .. Len(in) /\ n + (i - 1) = j - 1 /\ i - 1 \in 0 .. Len(in2) /\ i \in 0 .. Len(in2)
        BY <4>1, <1>7, SMTT(40)
      <4>3. v[i - 1] = w[j - 1] /\ v[i] = w[j] /\ in2[i] = in[j]
        BY <2>2, <4>1, <4>2
      <4> QED BY <4>2, <4>3, <3>1
    <3>4. \A i \in 1 .. Len(in2) : Leads(y, v[i - 1], in2[i], v[i])
      BY <3>3, <1>6 DEF Same, Leads
    <3> QED BY <3>2, <3>4, <1>6, <1>12 DEF Way, Same
  <2>4. ASSUME srv.open
        PROVE  Served(y, out \o Owed(y, v[Len(in2)].off, Coming(in2)), v[Len(in2)], srv) /\ Waits(y, srv, in2, out)
    <3>1. PICK q : q = w[Len(in)]
      OBVIOUS
    <3>2. Served(x, out \o Owed(x, q.off, Coming(in)), q, srv) /\ Waits(x, srv, in, out)
      BY <2>4, <3>1, <1>2 DEF OnWay
    <3>3. Coming(in2) => Coming(in)
      <4>1. ASSUME NEW i \in 1 .. Len(in2), in2[i].k = "G" PROVE Coming(in)
        <5>1. n + i \in 1 .. Len(in)
          BY <1>7
        <5> QED BY <5>1, <4>1 DEF Coming
      <4> QED BY <4>1 DEF Coming
    <3>4. CASE y.state = "Receiving"
      <4>1. Coming(in) => Coming(in2)
        <5>1. ASSUME NEW l \in 1 .. Len(in), in[l].k = "G" PROVE Coming(in2)
          <6>1. \A j \in (l + 1) .. Len(in) : in[j].k = "A"
            BY <5>1, <3>2 DEF Waits, Coming
          <6>2. l > n
            <7>1. SUFFICES ASSUME l <= n PROVE FALSE
              BY <1>7
            <7>2. l \in 1 .. n /\ \A j \in (l + 1) .. n : in[j].k = "A"
              BY <7>1, <6>1, <1>7
            <7> QED BY <7>2, <5>1, <1>12, <3>4
          <6>3. PICK i : i = l - n
            OBVIOUS
          <6>4. i \in 1 .. Len(in2) /\ n + i = l
            BY <6>2, <6>3, <1>7
          <6>5. in2[i].k = "G"
            BY <6>4, <5>1
          <6> QED BY <6>4, <6>5 DEF Coming
        <5> QED BY <5>1 DEF Coming
      <4>2. Owed(y, q.off, Coming(in2)) = Owed(x, q.off, Coming(in))
        BY <3>3, <3>4, <4>1, <1>6 DEF Owed, EndOf, Reissued, Same
      <4>3. Served(x, out \o Owed(y, q.off, Coming(in2)), q, srv)
        BY <3>2, <4>2
      <4>4. Served(y, out \o Owed(y, q.off, Coming(in2)), q, srv)
        BY <4>3, <1>6, ServedSame
      <4>5. ASSUME Coming(in2) PROVE \A l \in 1 .. Len(in2) : in2[l].k = "G" => \A j \in (l + 1) .. Len(in2) : in2[j].k = "A"
        <5>1. ASSUME NEW l \in 1 .. Len(in2), in2[l].k = "G", NEW j \in (l + 1) .. Len(in2) PROVE in2[j].k = "A"
          <6>1. n + l \in 1 .. Len(in) /\ n + j \in ((n + l) + 1) .. Len(in) /\ j \in 1 .. Len(in2)
            BY <1>7, SMTT(40)
          <6>2. in[n + l].k = "G" /\ in2[j] = in[n + j]
            BY <5>1, <6>1
          <6> QED BY <6>1, <6>2, <3>2, <3>3, <4>5 DEF Waits
        <5> QED BY <5>1
      <4>6. Waits(y, srv, in2, out)
        BY <3>2, <3>3, <3>4, <4>5 DEF Waits
      <4> QED BY <4>4, <4>6, <2>3, <3>1
    <3>5. CASE y.state = "Sending"
      <4>1. PICK l \in 1 .. n : in[l].k = "G"
        BY <3>5, <1>12
      <4>2. l \in 1 .. Len(in) /\ Coming(in)
        BY <4>1, <1>7 DEF Coming
      <4>3. \A j \in (l + 1) .. Len(in) : in[j].k = "A"
        BY <4>1, <4>2, <3>2 DEF Waits
      <4>4. \A j \in (n + 1) .. Len(in) : in[j].k = "A"
        BY <4>1, <4>3, <1>7
      <4>5. Still(x, w, in, n, Len(in))
        <5>1. ASSUME NEW j \in (n + 1) .. Len(in), NEW s, Leads(x, w[n], in[j], s) PROVE s = w[n]
          <6>1. in[j].k = "A"
            BY <4>4
          <6>2. w[n].off <= Len(x.cmds) => "A" \notin DOMAIN Expected(x.cmds, w[n])
            <7>1. SUFFICES ASSUME w[n].off <= Len(x.cmds) PROVE "A" \notin DOMAIN Expected(x.cmds, w[n])
              OBVIOUS
            <7>2. w[n] \in Places(x.cmds)
              BY <1>3, <1>7 DEF Way
            <7>3. PICK e : e = w[n]
              OBVIOUS
            <7>4. PICK c : c = x.cmds[e.off]
              OBVIOUS
            <7>5. c \in DOMAIN Hook /\ e.step \in 1 .. Len(Hook[c])
              BY <7>1, <7>2, <7>3, <7>4 DEF Places
            <7>6. "A" \notin DOMAIN Hook[c][e.step]
              BY <7>5, Rows
            <7> QED BY <7>3, <7>4, <7>6 DEF Expected
          <6> QED BY <5>1, <6>1, <6>2 DEF Leads
        <5> QED BY <5>1 DEF Still
      <4>6. w[Len(in)] = w[n]
        <5>1. n \in 0 .. Len(in) /\ Len(in) \in n .. Len(in)
          BY <1>7
        <5>2. \A j \in n .. Len(in) : w[j] = w[n]
          <6>1. Way(x, w, in)
            BY <1>3
          <6>2. PICK e : e = Len(in)
            OBVIOUS
          <6>3. Still(x, w, in, n, e) /\ e \in n .. Len(in) /\ n \in 0 .. Len(in)
            BY <4>5, <5>1, <6>2
          <6>4. \A j \in n .. e : w[j] = w[n]
            BY <6>1, <6>3, Stays
          <6> QED BY <6>2, <6>4
        <5> QED BY <5>1, <5>2
      <4>7. ~Coming(in2)
        <5>1. ASSUME NEW i \in 1 .. Len(in2) PROVE in2[i].k # "G"
          <6>1. n + i \in (n + 1) .. Len(in)
            BY <1>7
          <6> QED BY <6>1, <4>4
        <5> QED BY <5>1 DEF Coming
      <4>8. PICK e : e = EndOf(x, q.off)
        OBVIOUS
      <4>9. Owed(x, q.off, Coming(in)) = e
        BY <4>2, <4>8 DEF Owed
      <4>10. y.last.to.off = q.off /\ EndOf(y, q.off) = e
        BY <3>1, <4>6, <4>8, <1>6, <1>12 DEF EndOf, Reissued, Same
      <4>11. Owed(y, q.off, Coming(in2)) = <<>> \o e
        BY <3>5, <4>10, <1>12 DEF Owed, Closes
      <4>12. <<>> \o e = e
        <5>1. PICK o : o = q.off
          OBVIOUS
        <5>2. o \in 1 .. Len(x.cmds)
          <6>1. y.last.to.off \in 1 .. Len(y.cmds)
            BY <1>12 DEF Runs, Places
          <6> QED BY <6>1, <4>10, <5>1, <1>6 DEF Same
        <5>3. e = Ending(x, "fail", o)
          BY <4>8, <5>1, EndsWith
        <5>4. IsList(e)
          BY <5>2, <5>3, <1>8, EndingIs DEF IsEnding
        <5> QED BY <5>4, JoinNone
      <4>13. Served(x, out \o Owed(y, q.off, Coming(in2)), q, srv)
        BY <3>2, <4>9, <4>11, <4>12
      <4>14. Served(y, out \o Owed(y, q.off, Coming(in2)), q, srv)
        BY <4>13, <1>6, ServedSame
      <4> QED BY <4>7, <4>14, <2>3, <3>1 DEF Waits
    <3> QED BY <3>4, <3>5, <1>12
  <2>5. OnWay(y, v, srv, in2, out)
    BY <2>3, <2>4 DEF OnWay
  <2>6. y.last.of # rid2
    BY <1>12
  <2> QED BY <2>1, <2>5, <2>6, <1>5, <1>6, <1>12 DEF Sound
<1> QED BY <1>4, <1>5, <1>10, <1>11, <1>12 DEF Outcome

-----------------------------------------------------------------------------
(* The answers of the session, as steps through the hook table.            *)

\* Kinds of answers to the command at a place, and where they lead x.
Token(x, k, at) == [k |-> k, id |-> x.id, at |-> at]

\* The positions that answers ks to the command at lead through, from p to q.
Trail(x, v, p, ks, at, q) ==
  /\ v \in [0 .. Len(ks) -> Places(x.cmds)] /\ v[0] = p /\ v[Len(ks)] = q
  /\ \A i \in 1 .. Len(ks) : Leads(x, v[i - 1], Token(x, ks[i], at), v[i])
Steps(x, p, ks, at, q) == IsList(ks) /\ \E v : Trail(x, v, p, ks, at, q)

\* No answer leads nowhere.
LEMMA StepsNone ==
  ASSUME NEW x, NEW p \in Places(x.cmds), NEW at
  PROVE  Steps(x, p, <<>>, at, p)
<1>1. PICK ks : ks = <<>>
  OBVIOUS
<1>2. IsList(ks) /\ Len(ks) = 0
  BY <1>1 DEF IsList, ToSet
<1>3. PICK v : v = [i \in 0 .. 0 |-> p]
  OBVIOUS
<1>4. v \in [0 .. Len(ks) -> Places(x.cmds)] /\ v[0] = p /\ v[Len(ks)] = p
  BY <1>2, <1>3
<1>5. Trail(x, v, p, ks, at, p)
  BY <1>2, <1>4 DEF Trail
<1> QED BY <1>1, <1>2, <1>5 DEF Steps

\* One answer.
LEMMA StepsOne ==
  ASSUME NEW x, InOrder(x.cmds), NEW p \in Places(x.cmds), NEW k, NEW at, NEW q, Leads(x, p, Token(x, k, at), q)
  PROVE  Steps(x, p, <<k>>, at, q)
<1>1. PICK ks : ks = <<k>>
  OBVIOUS
<1>2. IsList(ks) /\ Len(ks) = 1 /\ ks[1] = k
  BY <1>1, JoinOne
<1>3. q \in Places(x.cmds)
  BY LeadsTo
<1>4. PICK v : v = [i \in 0 .. 1 |-> IF i = 0 THEN p ELSE q]
  OBVIOUS
<1>5. v \in [0 .. Len(ks) -> Places(x.cmds)] /\ v[0] = p /\ v[Len(ks)] = q /\ v[1] = q
  BY <1>2, <1>3, <1>4
<1>6. ASSUME NEW i \in 1 .. Len(ks) PROVE Leads(x, v[i - 1], Token(x, ks[i], at), v[i])
  <2>1. i = 1 /\ i - 1 = 0
    BY <1>2
  <2> QED BY <2>1, <1>2, <1>5
<1>7. Trail(x, v, p, ks, at, q)
  BY <1>5, <1>6 DEF Trail
<1> QED BY <1>1, <1>2, <1>7 DEF Steps

\* One list of answers after another.
LEMMA StepsJoin ==
  ASSUME NEW x, NEW p, NEW q, NEW r, NEW a, NEW b, NEW at, Steps(x, p, a, at, q), Steps(x, q, b, at, r)
  PROVE  Steps(x, p, a \o b, at, r)
<1>1. PICK v : Trail(x, v, p, a, at, q)
  BY DEF Steps
<1>2. PICK u : Trail(x, u, q, b, at, r)
  BY DEF Steps
<1>3. IsList(a) /\ IsList(b)
  BY DEF Steps
<1>4. PICK c : c = a \o b
  OBVIOUS
<1>5. PICK m : m = Len(a)
  OBVIOUS
<1>6. PICK n : n = Len(b)
  OBVIOUS
<1>7. m \in Nat /\ n \in Nat
  BY <1>3, <1>5, <1>6, ListFacts
<1>8. IsList(c) /\ Len(c) = m + n /\ (\A i \in 1 .. m : c[i] = a[i]) /\ \A i \in 1 .. n : c[m + i] = b[i]
  BY <1>3, <1>4, <1>5, <1>6, Joined
<1>9. PICK w : w = [i \in 0 .. Len(c) |-> IF i <= m THEN v[i] ELSE u[i - m]]
  OBVIOUS
<1>10. /\ v \in [0 .. m -> Places(x.cmds)] /\ v[0] = p /\ v[m] = q
       /\ \A i \in 1 .. m : Leads(x, v[i - 1], Token(x, a[i], at), v[i])
  BY <1>1, <1>5 DEF Trail
<1>11. /\ u \in [0 .. n -> Places(x.cmds)] /\ u[0] = q /\ u[n] = r
       /\ \A i \in 1 .. n : Leads(x, u[i - 1], Token(x, b[i], at), u[i])
  BY <1>2, <1>6 DEF Trail
<1>12. \A i \in 0 .. m : w[i] = v[i]
  BY <1>7, <1>8, <1>9
<1>13. ASSUME NEW i \in 0 .. n PROVE w[m + i] = u[i]
  <2>1. CASE i = 0
    <3>1. m + i = m /\ m \in 0 .. m
      BY <2>1, <1>7
    <3> QED BY <3>1, <2>1, <1>10, <1>11, <1>12
  <2>2. CASE i # 0
    <3>1. m + i \in 0 .. Len(c) /\ ~(m + i <= m) /\ (m + i) - m = i
      BY <2>2, <1>7, <1>8
    <3> QED BY <3>1, <1>9
  <2> QED BY <2>1, <2>2
<1>14. w \in [0 .. Len(c) -> Places(x.cmds)]
  <2>1. ASSUME NEW i \in 0 .. Len(c) PROVE w[i] \in Places(x.cmds)
    <3>1. CASE i <= m
      <4>1. i \in 0 .. m
        BY <3>1
      <4> QED BY <4>1, <1>10, <1>12
    <3>2. CASE ~(i <= m)
      <4>1. PICK j : j = i - m
        OBVIOUS
      <4>2. j \in 0 .. n /\ m + j = i
        BY <3>2, <4>1, <1>7, <1>8
      <4> QED BY <4>2, <1>11, <1>13
    <3> QED BY <3>1, <3>2
  <2> QED BY <2>1, <1>9
<1>15. w[0] = p /\ w[Len(c)] = r
  <2>1. 0 \in 0 .. m /\ n \in 0 .. n
    BY <1>7
  <2> QED BY <2>1, <1>8, <1>10, <1>11, <1>12, <1>13
<1>16. ASSUME NEW i \in 1 .. Len(c) PROVE Leads(x, w[i - 1], Token(x, c[i], at), w[i])
  <2>1. CASE i <= m
    <3>1. i \in 1 .. m /\ i \in 0 .. m /\ i - 1 \in 0 .. m
      BY <2>1, <1>7
    <3> QED BY <3>1, <1>8, <1>10, <1>12
  <2>2. CASE ~(i <= m)
    <3>1. PICK j : j = i - m
      OBVIOUS
    <3>2. j \in 1 .. n /\ j \in 0 .. n /\ j - 1 \in 0 .. n /\ m + j = i /\ m + (j - 1) = i - 1
      BY <2>2, <3>1, <1>7, <1>8
    <3>3. w[i] = u[j] /\ w[i - 1] = u[j - 1] /\ c[i] = b[j]
      BY <3>2, <1>8, <1>13
    <3> QED BY <3>2, <3>3, <1>11
  <2> QED BY <2>1, <2>2
<1>17. Trail(x, w, p, c, at, r)
  BY <1>14, <1>15, <1>16 DEF Trail
<1> QED BY <1>4, <1>8, <1>17 DEF Steps

\* A repeated answer.
LEMMA RepIs ==
  ASSUME NEW n \in Nat, NEW k
  PROVE  IsList(Rep(n, k)) /\ Len(Rep(n, k)) = n /\ \A i \in 1 .. n : Rep(n, k)[i] = k
<1>1. PICK r : r = [i \in 1 .. n |-> k]
  OBVIOUS
<1>2. r \in Seq({k}) /\ Len(r) = n /\ \A i \in 1 .. n : r[i] = k
  BY <1>1
<1>3. IsList(r)
  BY <1>2, Listed
<1> QED BY <1>1, <1>2, <1>3 DEF Rep

\* Any number of an answer that leaves the position.
LEMMA StepsRep ==
  ASSUME NEW x, NEW p \in Places(x.cmds), NEW k, NEW at, Leads(x, p, Token(x, k, at), p), NEW n \in Nat
  PROVE  Steps(x, p, Rep(n, k), at, p)
<1>1. PICK ks : ks = Rep(n, k)
  OBVIOUS
<1>2. IsList(ks) /\ Len(ks) = n /\ \A i \in 1 .. n : ks[i] = k
  BY <1>1, RepIs
<1>3. PICK v : v = [i \in 0 .. n |-> p]
  OBVIOUS
<1>4. /\ v \in [0 .. Len(ks) -> Places(x.cmds)] /\ v[0] = p /\ v[Len(ks)] = p
  BY <1>2, <1>3
<1>5. ASSUME NEW i \in 1 .. Len(ks) PROVE Leads(x, v[i - 1], Token(x, ks[i], at), v[i])
  BY <1>2, <1>3
<1>6. Trail(x, v, p, ks, at, p)
  BY <1>4, <1>5 DEF Trail
<1> QED BY <1>1, <1>2, <1>6 DEF Steps

\* The way goes on to q.
Reaches(x, in2, q) == \E u : Way(x, u, in2) /\ u[Len(in2)] = q

\* The way of what is on its way already, and of what is answered after it.
LEMMA Longer ==
  ASSUME NEW x, NEW w, NEW a, IsList(a), Way(x, w, a), NEW m, m.id = x.id, NEW ks, NEW q,
         Steps(x, w[Len(a)], ks, m.at, q), NEW n
  PROVE  Reaches(x, a \o Reply(m, ks, n), q)
<1>1. PICK b : b = Reply(m, ks, n)
  OBVIOUS
<1>2. IsList(ks) /\ Len(ks) \in Nat
  BY ListFacts DEF Steps
<1> DEFINE M(i) == [k |-> ks[i], id |-> m.id, at |-> m.at,
                    no |-> n + Len(SelectSeq(SubSeq(ks, 1, i), LAMBDA k : k \in {"D", "d"}))]
           R == {M(i) : i \in 1 .. Len(ks)}
<1>3. b = [i \in 1 .. Len(ks) |-> M(i)]
  BY <1>1 DEF Reply
<1>4. \A i \in 1 .. Len(ks) : M(i).k = ks[i] /\ M(i).id = m.id /\ M(i).at = m.at
  OBVIOUS
<1>5. \A i \in 1 .. Len(ks) : M(i) \in R
  OBVIOUS
<1> HIDE DEF M, R
<1>6. b \in Seq(R) /\ Len(b) = Len(ks) /\ \A i \in 1 .. Len(ks) : b[i] = M(i)
  BY <1>2, <1>3, <1>5
<1>7. IsList(b)
  BY <1>6, Listed
<1>8. PICK v : Trail(x, v, w[Len(a)], ks, m.at, q)
  BY DEF Steps
<1>9. PICK c : c = a \o b
  OBVIOUS
<1>10. PICK g : g = Len(a)
  OBVIOUS
<1>11. PICK h : h = Len(ks)
  OBVIOUS
<1>12. g \in Nat /\ h \in Nat
  BY <1>2, <1>10, <1>11, ListFacts
<1>13. /\ IsList(c) /\ Len(c) = g + h /\ (\A i \in 1 .. g : c[i] = a[i])
       /\ \A i \in 1 .. h : c[g + i].k = ks[i] /\ c[g + i].id = x.id /\ c[g + i].at = m.at
  <2>1. /\ IsList(c) /\ Len(c) = g + Len(b) /\ (\A i \in 1 .. g : c[i] = a[i])
        /\ \A i \in 1 .. Len(b) : c[g + i] = b[i]
    BY <1>7, <1>9, <1>10, Joined
  <2> QED BY <2>1, <1>4, <1>6, <1>11
<1>14. PICK u : u = [i \in 0 .. Len(c) |-> IF i <= g THEN w[i] ELSE v[i - g]]
  OBVIOUS
<1>15. /\ w \in [0 .. g -> Places(x.cmds)] /\ w[0] = x.last.to
       /\ \A i \in 1 .. g : Leads(x, w[i - 1], a[i], w[i])
  BY <1>10 DEF Way
<1>16. /\ v \in [0 .. h -> Places(x.cmds)] /\ v[0] = w[g] /\ v[h] = q
       /\ \A i \in 1 .. h : Leads(x, v[i - 1], Token(x, ks[i], m.at), v[i])
  BY <1>8, <1>10, <1>11 DEF Trail
<1>17. \A i \in 0 .. g : u[i] = w[i]
  BY <1>12, <1>13, <1>14
<1>18. ASSUME NEW i \in 0 .. h PROVE u[g + i] = v[i]
  <2>1. CASE i = 0
    <3>1. g + i = g /\ g \in 0 .. g
      BY <2>1, <1>12
    <3> QED BY <3>1, <2>1, <1>16, <1>17
  <2>2. CASE i # 0
    <3>1. g + i \in 0 .. Len(c) /\ ~(g + i <= g) /\ (g + i) - g = i
      BY <2>2, <1>12, <1>13
    <3> QED BY <3>1, <1>14
  <2> QED BY <2>1, <2>2
<1>19. u \in [0 .. Len(c) -> Places(x.cmds)]
  <2>1. ASSUME NEW i \in 0 .. Len(c) PROVE u[i] \in Places(x.cmds)
    <3>1. CASE i <= g
      <4>1. i \in 0 .. g
        BY <3>1
      <4> QED BY <4>1, <1>15, <1>17
    <3>2. CASE ~(i <= g)
      <4>1. PICK j : j = i - g
        OBVIOUS
      <4>2. j \in 0 .. h /\ g + j = i
        BY <3>2, <4>1, <1>12, <1>13
      <4> QED BY <4>2, <1>16, <1>18
    <3> QED BY <3>1, <3>2
  <2> QED BY <2>1, <1>14
<1>20. u[0] = x.last.to /\ u[Len(c)] = q
  <2>1. 0 \in 0 .. g /\ h \in 0 .. h
    BY <1>12
  <2> QED BY <2>1, <1>13, <1>15, <1>16, <1>17, <1>18
<1>21. ASSUME NEW i \in 1 .. Len(c) PROVE Leads(x, u[i - 1], c[i], u[i])
  <2>1. CASE i <= g
    <3>1. i \in 1 .. g /\ i \in 0 .. g /\ i - 1 \in 0 .. g
      BY <2>1, <1>12
    <3> QED BY <3>1, <1>13, <1>15, <1>17
  <2>2. CASE ~(i <= g)
    <3>1. PICK j : j = i - g
      OBVIOUS
    <3>2. j \in 1 .. h /\ j \in 0 .. h /\ j - 1 \in 0 .. h /\ g + j = i /\ g + (j - 1) = i - 1
      BY <2>2, <3>1, <1>12, <1>13
    <3>3. u[i] = v[j] /\ u[i - 1] = v[j - 1] /\ c[i].k = ks[j] /\ c[i].id = x.id /\ c[i].at = m.at
      BY <3>2, <1>13, <1>18
    <3>4. Leads(x, v[j - 1], Token(x, ks[j], m.at), v[j])
      BY <3>2, <1>16
    <3>5. Leads(x, v[j - 1], c[i], v[j])
      BY <3>3, <3>4 DEF Leads, Token
    <3> QED BY <3>3, <3>5
  <2> QED BY <2>1, <2>2
<1>22. Way(x, u, c)
  BY <1>19, <1>20, <1>21 DEF Way
<1> QED BY <1>1, <1>9, <1>20, <1>22 DEF Reaches

\* The rows of a simple query.
LEMMA HookQ ==
  /\ \A k \in {"T", "I", "C", "H", "G", "Z"} : k \in DOMAIN Hook["Q"][1]
  /\ Hook["Q"][1]["T"] = 4 /\ Hook["Q"][1]["I"] = 1 /\ Hook["Q"][1]["C"] = 1
  /\ Hook["Q"][1]["H"] = 3 /\ Hook["Q"][1]["G"] = 2 /\ Hook["Q"][1]["Z"] = 0
  /\ "C" \in DOMAIN Hook["Q"][2] /\ Hook["Q"][2]["C"] = 1
  /\ \A k \in {"d", "c"} : k \in DOMAIN Hook["Q"][3]
  /\ Hook["Q"][3]["d"] = 3 /\ Hook["Q"][3]["c"] = 2
  /\ \A k \in {"D", "C", "Z"} : k \in DOMAIN Hook["Q"][4]
  /\ Hook["Q"][4]["D"] = 4 /\ Hook["Q"][4]["C"] = 1 /\ Hook["Q"][4]["Z"] = 0
BY DEF Hook

\* The rows of Execute.
LEMMA HookE ==
  /\ \A k \in {"D", "H", "G", "I", "C"} : k \in DOMAIN Hook["E"][1]
  /\ Hook["E"][1]["D"] = 2 /\ Hook["E"][1]["H"] = 3 /\ Hook["E"][1]["G"] = 4
  /\ Hook["E"][1]["I"] = 0 /\ Hook["E"][1]["C"] = 0
  /\ \A k \in {"D", "s", "C"} : k \in DOMAIN Hook["E"][2]
  /\ Hook["E"][2]["D"] = 2 /\ Hook["E"][2]["s"] = 0 /\ Hook["E"][2]["C"] = 0
  /\ \A k \in {"d", "c"} : k \in DOMAIN Hook["E"][3]
  /\ Hook["E"][3]["d"] = 3 /\ Hook["E"][3]["c"] = 4
  /\ "C" \in DOMAIN Hook["E"][4] /\ Hook["E"][4]["C"] = 0
BY DEF Hook

\* The rows of the other commands.
LEMMA HookOne ==
  /\ "p" \in DOMAIN Hook["P"][1] /\ Hook["P"][1]["p"] = 0
  /\ "b" \in DOMAIN Hook["B"][1] /\ Hook["B"][1]["b"] = 0
  /\ "x" \in DOMAIN Hook["X"][1] /\ Hook["X"][1]["x"] = 0
  /\ "Z" \in DOMAIN Hook["S"][1] /\ Hook["S"][1]["Z"] = 0
  /\ \A k \in {"t", "T"} : k \in DOMAIN Hook["D"][1]
  /\ Hook["D"][1]["t"] = 2 /\ Hook["D"][1]["T"] = 0
  /\ \A k \in {"n", "T"} : k \in DOMAIN Hook["D"][2]
  /\ Hook["D"][2]["n"] = 0 /\ Hook["D"][2]["T"] = 0
BY DEF Hook

\* A place of the command at o.
Spot(x, c, o, s) ==
  /\ InOrder(x.cmds) /\ o \in 1 .. Len(x.cmds) /\ x.cmds[o] = c /\ c \in DOMAIN Hook /\ s \in 1 .. Len(Hook[c])

\* Each entry of the hook table, and an error, is a step.
LEMMA Onward ==
  ASSUME NEW x, NEW c, NEW o, NEW s, Spot(x, c, o, s), NEW k
  PROVE  /\ At(o, s) \in Places(x.cmds)
         /\ k \in DOMAIN Hook[c][s] =>
              Steps(x, At(o, s), <<k>>, o, IF Hook[c][s][k] = 0 THEN At(NextCmd(x.cmds, o), 1)
                                           ELSE At(o, Hook[c][s][k]))
         /\ Steps(x, At(o, s), <<"ERROR">>, o, At(SyncOf(x.cmds, o), 1))
<1>1. InOrder(x.cmds) /\ o \in 1 .. Len(x.cmds) /\ x.cmds[o] = c /\ c \in DOMAIN Hook /\ s \in 1 .. Len(Hook[c])
  BY DEF Spot
<1>2. Len(x.cmds) \in Nat /\ s \in 1 .. 4
  <2>1. s \in 1 .. 4
    BY <1>1, Rows
  <2> QED BY <2>1, <1>1, OrderFacts
<1>3. PICK p : p = At(o, s)
  OBVIOUS
<1>4. p.off = o /\ p.step = s /\ p \in Places(x.cmds)
  BY <1>1, <1>2, <1>3 DEF At, Places, Positions
<1>5. ASSUME k \in DOMAIN Hook[c][s]
      PROVE  Steps(x, p, <<k>>, o, IF Hook[c][s][k] = 0 THEN At(NextCmd(x.cmds, o), 1) ELSE At(o, Hook[c][s][k]))
  <2>1. PICK q : q = IF Hook[c][s][k] = 0 THEN At(NextCmd(x.cmds, o), 1) ELSE At(o, Hook[c][s][k])
    OBVIOUS
  <2>2. PICK m : m = Token(x, k, o)
    OBVIOUS
  <2>3. m.k = k /\ m.id = x.id /\ m.at = o
    BY <2>2 DEF Token
  <2>4. Expected(x.cmds, p) = Hook[c][s]
    BY <1>1, <1>4 DEF Expected
  <2>5. Leads(x, p, m, q)
    BY <2>1, <2>3, <2>4, <1>1, <1>2, <1>4, <1>5 DEF Leads
  <2> QED BY <2>1, <2>2, <2>5, <1>1, <1>4, StepsOne
<1>6. Steps(x, p, <<"ERROR">>, o, At(SyncOf(x.cmds, o), 1))
  <2>1. PICK q : q = At(SyncOf(x.cmds, o), 1)
    OBVIOUS
  <2>2. PICK m : m = Token(x, "ERROR", o)
    OBVIOUS
  <2>3. m.k = "ERROR" /\ m.id = x.id
    BY <2>2 DEF Token
  <2>4. Leads(x, p, m, q)
    BY <2>1, <2>3, <1>1, <1>2, <1>4 DEF Leads
  <2> QED BY <2>1, <2>2, <2>4, <1>1, <1>4, StepsOne
<1> QED BY <1>3, <1>4, <1>5, <1>6

\* Any number of an answer whose entry leads to its own row.
LEMMA OnwardRep ==
  ASSUME NEW x, NEW c, NEW o, NEW s, Spot(x, c, o, s), NEW k, k \in DOMAIN Hook[c][s], Hook[c][s][k] = s, NEW n \in Nat
  PROVE  Steps(x, At(o, s), Rep(n, k), o, At(o, s))
<1>1. InOrder(x.cmds) /\ o \in 1 .. Len(x.cmds) /\ x.cmds[o] = c /\ c \in DOMAIN Hook /\ s \in 1 .. Len(Hook[c])
  BY DEF Spot
<1>2. PICK p : p = At(o, s)
  OBVIOUS
<1>3. p \in Places(x.cmds)
  BY <1>2, Onward
<1>4. p.off = o /\ p.step = s /\ Len(x.cmds) \in Nat /\ s # 0
  <2>1. s \in 1 .. 4
    BY <1>1, Rows
  <2> QED BY <2>1, <1>1, <1>2, OrderFacts DEF At
<1>5. PICK m : m = Token(x, k, o)
  OBVIOUS
<1>6. m.k = k /\ m.id = x.id /\ m.at = o
  BY <1>5 DEF Token
<1>7. Expected(x.cmds, p) = Hook[c][s]
  BY <1>1, <1>4 DEF Expected
<1>8. Leads(x, p, m, p)
  BY <1>1, <1>2, <1>4, <1>6, <1>7 DEF Leads
<1> QED BY <1>2, <1>3, <1>5, <1>8, StepsRep
\* Answers, and the beginnings of some, that neither start the sending of a COPY nor end the connection.
Plain(ks) == \A i \in 1 .. Len(ks) : ks[i] \notin {"G", "FATAL"}

\* Steps without the beginning of a COPY; with e as their last.
Part(x, p, ks, at, q) == Steps(x, p, ks, at, q) /\ Plain(ks)
Leg(x, p, ks, at, q, e) == Part(x, p, ks, at, q) /\ ks # <<>> /\ Last(ks) = e

\* One answer as a leg.
LEMMA LegOne ==
  ASSUME NEW x, NEW c, NEW o, NEW s, Spot(x, c, o, s), NEW k, k \notin {"G", "FATAL"}
  PROVE  /\ k \in DOMAIN Hook[c][s] /\ Hook[c][s][k] = 0 => Leg(x, At(o, s), <<k>>, o, At(NextCmd(x.cmds, o), 1), k)
         /\ \A t : k \in DOMAIN Hook[c][s] /\ Hook[c][s][k] = t /\ t # 0 => Leg(x, At(o, s), <<k>>, o, At(o, t), k)
         /\ k = "ERROR" => Leg(x, At(o, s), <<k>>, o, At(SyncOf(x.cmds, o), 1), k)
<1>1. PICK ks : ks = <<k>>
  OBVIOUS
<1>2. Plain(ks) /\ ks # <<>> /\ Last(ks) = k
  BY <1>1 DEF Plain, Last
<1>3. /\ k \in DOMAIN Hook[c][s] =>
              Steps(x, At(o, s), ks, o, IF Hook[c][s][k] = 0 THEN At(NextCmd(x.cmds, o), 1)
                                        ELSE At(o, Hook[c][s][k]))
      /\ k = "ERROR" => Steps(x, At(o, s), ks, o, At(SyncOf(x.cmds, o), 1))
  BY <1>1, Onward
<1>4. k \in DOMAIN Hook[c][s] /\ Hook[c][s][k] = 0 => Leg(x, At(o, s), ks, o, At(NextCmd(x.cmds, o), 1), k)
  BY <1>2, <1>3 DEF Leg, Part
<1>5. ASSUME NEW t, k \in DOMAIN Hook[c][s], Hook[c][s][k] = t, t # 0 PROVE Leg(x, At(o, s), ks, o, At(o, t), k)
  BY <1>2, <1>3, <1>5 DEF Leg, Part
<1>6. k = "ERROR" => Leg(x, At(o, s), ks, o, At(SyncOf(x.cmds, o), 1), k)
  BY <1>2, <1>3 DEF Leg, Part
<1> QED BY <1>1, <1>4, <1>5, <1>6

\* Any number of an answer as a part.
LEMMA PartRep ==
  ASSUME NEW x, NEW c, NEW o, NEW s, Spot(x, c, o, s), NEW k, k \notin {"G", "FATAL"},
         k \in DOMAIN Hook[c][s], Hook[c][s][k] = s, NEW n \in Nat
  PROVE  Part(x, At(o, s), Rep(n, k), o, At(o, s))
<1>1. Steps(x, At(o, s), Rep(n, k), o, At(o, s))
  BY OnwardRep
<1>2. PICK ks : ks = Rep(n, k)
  OBVIOUS
<1>3. Len(ks) = n /\ \A i \in 1 .. n : ks[i] = k
  BY <1>2, RepIs
<1>4. Plain(ks)
  BY <1>3 DEF Plain
<1> QED BY <1>1, <1>2, <1>4 DEF Part

\* One part after another.
LEMMA PartJoin ==
  ASSUME NEW x, NEW p, NEW q, NEW r, NEW a, NEW b, NEW at, Part(x, p, a, at, q), Part(x, q, b, at, r)
  PROVE  Part(x, p, a \o b, at, r)
<1>1. Steps(x, p, a, at, q) /\ Steps(x, q, b, at, r) /\ Plain(a) /\ Plain(b)
  BY DEF Part
<1>2. IsList(a) /\ IsList(b)
  BY <1>1 DEF Steps
<1>3. PICK c : c = a \o b
  OBVIOUS
<1>4. PICK m : m = Len(a)
  OBVIOUS
<1>5. PICK n : n = Len(b)
  OBVIOUS
<1>6. m \in Nat /\ n \in Nat
  BY <1>2, <1>4, <1>5, ListFacts
<1>7. Len(c) = m + n /\ (\A i \in 1 .. m : c[i] = a[i]) /\ \A i \in 1 .. n : c[m + i] = b[i]
  BY <1>2, <1>3, <1>4, <1>5, Joined
<1>8. ASSUME NEW i \in 1 .. Len(c) PROVE c[i] \notin {"G", "FATAL"}
  <2>1. CASE i <= m
    <3>1. i \in 1 .. m
      BY <2>1
    <3> QED BY <3>1, <1>1, <1>4, <1>7 DEF Plain
  <2>2. CASE ~(i <= m)
    <3>1. PICK j : j = i - m
      OBVIOUS
    <3>2. j \in 1 .. n /\ m + j = i
      BY <3>1, <2>2, <1>6, <1>7
    <3> QED BY <3>2, <1>1, <1>5, <1>7 DEF Plain
  <2> QED BY <2>1, <2>2
<1>9. Plain(c)
  BY <1>8 DEF Plain
<1>10. Steps(x, p, a \o b, at, r)
  BY <1>1, StepsJoin
<1> QED BY <1>3, <1>9, <1>10 DEF Part

\* A leg after a part.
LEMMA LegJoin ==
  ASSUME NEW x, NEW p, NEW q, NEW r, NEW a, NEW b, NEW at, NEW e, Part(x, p, a, at, q), Leg(x, q, b, at, r, e)
  PROVE  Leg(x, p, a \o b, at, r, e)
<1>1. Part(x, q, b, at, r) /\ b # <<>> /\ Last(b) = e
  BY DEF Leg
<1>2. IsList(a) /\ IsList(b)
  BY <1>1 DEF Steps, Part
<1>3. PICK c : c = a \o b
  OBVIOUS
<1>4. PICK m : m = Len(a)
  OBVIOUS
<1>5. PICK n : n = Len(b)
  OBVIOUS
<1>6. m \in Nat /\ n \in Nat /\ n # 0
  BY <1>1, <1>2, <1>4, <1>5, ListFacts
<1>7. IsList(c) /\ Len(c) = m + n /\ \A i \in 1 .. n : c[m + i] = b[i]
  BY <1>2, <1>3, <1>4, <1>5, Joined
<1>8. c # <<>>
  BY <1>6, <1>7, ListFacts
<1>9. Last(c) = c[m + n] /\ Last(b) = b[n]
  BY <1>5, <1>7 DEF Last
<1>10. n \in 1 .. n
  BY <1>6
<1>11. Last(c) = e
  BY <1>1, <1>7, <1>9, <1>10
<1>12. Part(x, p, a \o b, at, r)
  BY <1>1, PartJoin
<1> QED BY <1>3, <1>8, <1>11, <1>12 DEF Leg

\* Two answers, and one more.
LEMMA PairIs ==
  ASSUME NEW a, NEW b
  PROVE  <<a, b>> = <<a>> \o <<b>> /\ \A s : IsList(s) => Append(s, a) = s \o <<a>>
<1>1. <<a, b>> = <<a>> \o <<b>>
  <2>1. PICK s : s = <<a>>
    OBVIOUS
  <2>2. PICK t : t = <<b>>
    OBVIOUS
  <2>3. PICK u : u = <<a, b>>
    OBVIOUS
  <2>4. s \in Seq({a, b}) /\ t \in Seq({a, b}) /\ u \in Seq({a, b})
    BY <2>1, <2>2, <2>3
  <2>5. Len(s) = 1 /\ Len(t) = 1 /\ Len(u) = 2 /\ s[1] = a /\ t[1] = b /\ u[1] = a /\ u[2] = b
    BY <2>1, <2>2, <2>3
  <2>6. u = s \o t
    <3>1. IsList(s) /\ IsList(t) /\ IsList(u)
      BY <2>4, Listed
    <3>2. PICK v : v = s \o t
      OBVIOUS
    <3>3. /\ IsList(v) /\ Len(v) = Len(s) + Len(t)
          /\ \A i \in 1 .. Len(s) : v[i] = s[i]
          /\ \A i \in 1 .. Len(t) : v[Len(s) + i] = t[i]
      BY <3>1, <3>2, Joined
    <3>4. v[1] = a /\ v[2] = b /\ Len(v) = 2
      BY <3>3, <2>5
    <3>5. u = v
      BY <3>1, <3>3, <3>4, <2>5, SameLists
    <3> QED BY <3>2, <3>5
  <2> QED BY <2>1, <2>2, <2>3, <2>6
<1>2. ASSUME NEW s, IsList(s) PROVE Append(s, a) = s \o <<a>>
  <2>1. PICK T : T = ToSet(s) \cup {a}
    OBVIOUS
  <2>2. s \in Seq(T) /\ a \in T
    BY <1>2, <2>1 DEF IsList
  <2> QED BY <2>2
<1> QED BY <1>1, <1>2

\* n more of what there is one of.
LEMMA RepMore ==
  ASSUME NEW n \in Nat, NEW k
  PROVE  /\ n = 0 => Rep(n, k) = <<>>
         /\ n # 0 => Rep(n, k) = <<k>> \o Rep(n - 1, k)
<1>1. CASE n = 0
  BY <1>1 DEF Rep
<1>2. CASE n # 0
  <2>1. PICK m : m = n - 1
    OBVIOUS
  <2>2. m \in Nat /\ n = m + 1
    BY <2>1, <1>2
  <2>3. PICK r : r = Rep(m, k)
    OBVIOUS
  <2>4. IsList(r) /\ Len(r) = m /\ \A i \in 1 .. m : r[i] = k
    BY <2>2, <2>3, RepIs
  <2>5. PICK one : one = <<k>>
    OBVIOUS
  <2>6. IsList(one) /\ Len(one) = 1 /\ one[1] = k
    BY <2>5, JoinOne
  <2>7. PICK s : s = one \o r
    OBVIOUS
  <2>8. IsList(s) /\ Len(s) = 1 + m /\ s[1] = k /\ \A i \in 1 .. m : s[1 + i] = k
    <3>1. IsList(one) /\ IsList(r)
      BY <2>4, <2>6
    <3>2. /\ IsList(s) /\ Len(s) = Len(one) + Len(r)
          /\ \A i \in 1 .. Len(one) : s[i] = one[i]
          /\ \A i \in 1 .. Len(r) : s[Len(one) + i] = r[i]
      BY <3>1, <2>7, Joined
    <3> QED BY <3>2, <2>4, <2>6
  <2>9. PICK t : t = Rep(n, k)
    OBVIOUS
  <2>10. IsList(t) /\ Len(t) = n /\ \A i \in 1 .. n : t[i] = k
    BY <2>9, RepIs
  <2>11. ASSUME NEW i \in 1 .. Len(t) PROVE t[i] = s[i]
    <3>1. CASE i = 1
      BY <3>1, <2>8, <2>10
    <3>2. CASE i # 1
      <4>1. PICK j : j = i - 1
        OBVIOUS
      <4>2. j \in 1 .. m /\ 1 + j = i /\ i \in 1 .. n
        BY <4>1, <3>2, <2>2, <2>10
      <4> QED BY <4>2, <2>8, <2>10
    <3> QED BY <3>1, <3>2
  <2>12. Len(t) = Len(s)
    BY <2>2, <2>8, <2>10
  <2>13. t = s
    BY <2>8, <2>10, <2>11, <2>12, SameLists
  <2> QED BY <1>2, <2>1, <2>3, <2>5, <2>7, <2>9, <2>13
<1> QED BY <1>1, <1>2

\* The kinds of answers to Execute: rows to their end, rows up to the limit, COPY lines.
IsRows(ks) == \E n \in Nat, e \in {"C", "ERROR"} : ks = Rep(n, "D") \o <<e>>
IsPaused(ks) == \E n \in Nat \ {0} : ks = Rep(n, "D") \o <<"s">>
IsStream(ks) ==
  \E n \in Nat : ks = <<"H">> \o Rep(n, "d") \o <<"c", "C">> \/ ks = <<"H">> \o Rep(n, "d") \o <<"ERROR">>

\* All the answers.
LEMMA AnswersAre ==
  /\ \A ks \in Answers["Q"] :
       \/ \E r : ks = <<"T">> \o r /\ IsRows(r)
       \/ IsStream(ks)
       \/ ks \in {<<"ERROR">>, <<"C">>, <<"I">>, <<"C", "C">>, <<"G">>}
  /\ \A ks \in Answers["E"] : IsRows(ks) \/ IsPaused(ks) \/ IsStream(ks) \/ ks \in {<<"I">>, <<"G">>}
  /\ Answers["P"] = {<<"p">>, <<"ERROR">>} /\ Answers["B"] = {<<"b">>, <<"ERROR">>} /\ Answers["X"] = {<<"x">>}
  /\ Answers["D"] = {<<"t", "T">>, <<"t", "n">>, <<"T">>, <<"ERROR">>}
  /\ DOMAIN Answers = {"Q", "F", "P", "B", "D", "X", "E"}
<1>1. RowCounts \subseteq Nat
  BY WireBounds
<1>2. \A ks \in RowSets : IsRows(ks)
  BY <1>1 DEF RowSets, IsRows
<1>3. \A ks \in Streams : IsStream(ks)
  BY <1>1 DEF Streams, IsStream
<1>4. \A ks \in {Rep(n, "D") \o <<"s">> : n \in RowCounts \ {0}} : IsPaused(ks)
  BY <1>1 DEF IsPaused
<1> DEFINE Paused == {Rep(n, "D") \o <<"s">> : n \in RowCounts \ {0}}
           Shown == {<<"T">> \o r : r \in RowSets}
<1>5. Answers["E"] = RowSets \cup {<<"I">>, <<"G">>} \cup Streams \cup Paused
  BY DEF Answers
<1>6. Answers["Q"] = Shown \cup Streams \cup {<<"ERROR">>} \cup {<<"C">>, <<"I">>, <<"C", "C">>, <<"G">>}
  BY DEF Answers, Failed
<1>7. \A ks \in Shown : \E r : ks = <<"T">> \o r /\ IsRows(r)
  BY <1>2
<1>8. \A ks \in Paused : IsPaused(ks)
  BY <1>4
<1> HIDE DEF Paused, Shown
<1>9. /\ Answers["P"] = {<<"p">>, <<"ERROR">>} /\ Answers["B"] = {<<"b">>, <<"ERROR">>} /\ Answers["X"] = {<<"x">>}
      /\ Answers["D"] = {<<"t", "T">>, <<"t", "n">>, <<"T">>, <<"ERROR">>}
      /\ DOMAIN Answers = {"Q", "F", "P", "B", "D", "X", "E"}
  BY DEF Answers, Failed
<1> QED BY <1>2, <1>3, <1>5, <1>6, <1>7, <1>8, <1>9

\* Where the answers to a request of the extended protocol lead.
Gives(x, o, ks) ==
  \/ ks = <<"G">> /\ x.cmds[o] = "E" /\ Steps(x, At(o, 1), ks, o, At(o, 4))
  \/ Leg(x, At(o, 1), ks, o, At(Len(x.cmds), 1), "ERROR")
  \/ \E e : e \notin {"ERROR", "G"} /\ Leg(x, At(o, 1), ks, o, At(NextCmd(x.cmds, o), 1), e)

\* An error at a command of the extended protocol; its other rows.
LEMMA SpotIs ==
  ASSUME NEW x, NEW c, NEW o, NEW s, Spot(x, c, o, s), c # "Q"
  PROVE  /\ Leg(x, At(o, s), <<"ERROR">>, o, At(Len(x.cmds), 1), "ERROR")
         /\ \A t : t \in 1 .. Len(Hook[c]) => Spot(x, c, o, t)
<1>1. SyncOf(x.cmds, o) = Len(x.cmds)
  BY DEF Spot, SyncOf, Simple
<1>2. Leg(x, At(o, s), <<"ERROR">>, o, At(SyncOf(x.cmds, o), 1), "ERROR")
  BY LegOne
<1> QED BY <1>1, <1>2 DEF Spot

\* COPY lines.
LEMMA StreamGives ==
  ASSUME NEW x, NEW o, Spot(x, "E", o, 1), NEW ks, IsStream(ks)
  PROVE  Gives(x, o, ks)
<1>1. Len(Hook["E"]) = 4
  BY DEF Hook
<1>2. Spot(x, "E", o, 3) /\ Spot(x, "E", o, 4)
  BY <1>1 DEF Spot
<1>3. PICK n \in Nat : ks = <<"H">> \o Rep(n, "d") \o <<"c", "C">> \/ ks = <<"H">> \o Rep(n, "d") \o <<"ERROR">>
  BY DEF IsStream
<1>4. Leg(x, At(o, 1), <<"H">>, o, At(o, 3), "H")
  BY HookE, LegOne
<1>5. Part(x, At(o, 3), Rep(n, "d"), o, At(o, 3))
  BY <1>2, HookE, PartRep
<1>6. Leg(x, At(o, 3), <<"c">>, o, At(o, 4), "c")
  BY <1>2, HookE, LegOne
<1>7. Leg(x, At(o, 4), <<"C">>, o, At(NextCmd(x.cmds, o), 1), "C")
  BY <1>2, HookE, LegOne
<1>8. Leg(x, At(o, 3), <<"ERROR">>, o, At(Len(x.cmds), 1), "ERROR")
  BY <1>2, SpotIs
<1>9. Part(x, At(o, 1), <<"H">> \o Rep(n, "d"), o, At(o, 3))
  <2>1. Part(x, At(o, 1), <<"H">>, o, At(o, 3))
    BY <1>4 DEF Leg
  <2> QED BY <2>1, <1>5, PartJoin
<1>10. Leg(x, At(o, 3), <<"c">> \o <<"C">>, o, At(NextCmd(x.cmds, o), 1), "C")
  <2>1. Part(x, At(o, 3), <<"c">>, o, At(o, 4))
    BY <1>6 DEF Leg
  <2> QED BY <2>1, <1>7, LegJoin
<1>11. Leg(x, At(o, 3), <<"c", "C">>, o, At(NextCmd(x.cmds, o), 1), "C")
  BY <1>10, PairIs
<1>12. Leg(x, At(o, 1), <<"H">> \o Rep(n, "d") \o <<"c", "C">>, o, At(NextCmd(x.cmds, o), 1), "C")
  BY <1>9, <1>11, LegJoin
<1>13. Leg(x, At(o, 1), <<"H">> \o Rep(n, "d") \o <<"ERROR">>, o, At(Len(x.cmds), 1), "ERROR")
  BY <1>9, <1>8, LegJoin
<1> QED BY <1>3, <1>12, <1>13 DEF Gives

\* Rows.
LEMMA RowsGive ==
  ASSUME NEW x, NEW o, Spot(x, "E", o, 1), NEW ks, IsRows(ks) \/ IsPaused(ks)
  PROVE  Gives(x, o, ks)
<1>1. Len(Hook["E"]) = 4
  BY DEF Hook
<1>2. Spot(x, "E", o, 2)
  BY <1>1 DEF Spot
<1>3. PICK n \in Nat, e \in {"C", "ERROR", "s"} : ks = Rep(n, "D") \o <<e>> /\ (e = "s" => n # 0)
  BY DEF IsRows, IsPaused
<1>4. CASE n = 0
  <2>1. IsList(<<e>>)
    BY JoinOne
  <2>2. ks = <<e>>
    BY <1>3, <1>4, <2>1, RepMore, JoinNone
  <2>3. e = "C" => Leg(x, At(o, 1), <<e>>, o, At(NextCmd(x.cmds, o), 1), e)
    BY HookE, LegOne
  <2>4. e = "ERROR" => Leg(x, At(o, 1), <<e>>, o, At(Len(x.cmds), 1), "ERROR")
    BY SpotIs
  <2> QED BY <1>3, <1>4, <2>2, <2>3, <2>4 DEF Gives
<1>5. CASE n # 0
  <2>1. Rep(n, "D") = <<"D">> \o Rep(n - 1, "D") /\ n - 1 \in Nat
    <3>1. Rep(n, "D") = <<"D">> \o Rep(n - 1, "D")
      BY <1>5, RepMore
    <3> QED BY <3>1, <1>5
  <2>2. Leg(x, At(o, 1), <<"D">>, o, At(o, 2), "D")
    BY HookE, LegOne
  <2>3. Part(x, At(o, 2), Rep(n - 1, "D"), o, At(o, 2))
    BY <2>1, <1>2, HookE, PartRep
  <2>4. Part(x, At(o, 1), Rep(n, "D"), o, At(o, 2))
    <3>1. Part(x, At(o, 1), <<"D">>, o, At(o, 2))
      BY <2>2 DEF Leg
    <3> QED BY <3>1, <2>1, <2>3, PartJoin
  <2>5. e \in {"C", "s"} => Leg(x, At(o, 2), <<e>>, o, At(NextCmd(x.cmds, o), 1), e)
    BY <1>2, HookE, LegOne
  <2>6. e = "ERROR" => Leg(x, At(o, 2), <<e>>, o, At(Len(x.cmds), 1), e)
    BY <1>2, SpotIs
  <2>7. e \in {"C", "s"} => Leg(x, At(o, 1), Rep(n, "D") \o <<e>>, o, At(NextCmd(x.cmds, o), 1), e)
    BY <2>4, <2>5, LegJoin
  <2>8. e = "ERROR" => Leg(x, At(o, 1), Rep(n, "D") \o <<e>>, o, At(Len(x.cmds), 1), e)
    BY <2>4, <2>6, LegJoin
  <2>9. e \in {"C", "s"} => Gives(x, o, ks)
    BY <2>7, <1>3 DEF Gives
  <2>10. e = "ERROR" => Gives(x, o, ks)
    BY <2>8, <1>3 DEF Gives
  <2> QED BY <2>9, <2>10
<1> QED BY <1>4, <1>5

\* Each answer to a command of the extended protocol.
LEMMA AnswerGives ==
  ASSUME NEW x, NEW c, NEW o, Spot(x, c, o, 1), c \in DOMAIN Answers, c \notin {"Q", "F"}, NEW ks \in Answers[c]
  PROVE  Gives(x, o, ks)
<1>0. PICK next : next = At(NextCmd(x.cmds, o), 1)
  OBVIOUS
<1>1. ks = <<"ERROR">> => Gives(x, o, ks)
  <2>1. Leg(x, At(o, 1), <<"ERROR">>, o, At(Len(x.cmds), 1), "ERROR")
    BY SpotIs
  <2> QED BY <2>1 DEF Gives
<1>2. CASE c = "P"
  <2>1. Leg(x, At(o, 1), <<"p">>, o, next, "p")
    BY <1>0, <1>2, HookOne, LegOne
  <2> QED BY <2>1, <1>0, <1>1, <1>2, AnswersAre DEF Gives
<1>3. CASE c = "B"
  <2>1. Leg(x, At(o, 1), <<"b">>, o, next, "b")
    BY <1>0, <1>3, HookOne, LegOne
  <2> QED BY <2>1, <1>0, <1>1, <1>3, AnswersAre DEF Gives
<1>4. CASE c = "X"
  <2>1. Leg(x, At(o, 1), <<"x">>, o, next, "x")
    BY <1>0, <1>4, HookOne, LegOne
  <2> QED BY <2>1, <1>0, <1>1, <1>4, AnswersAre DEF Gives
<1>5. CASE c = "D"
  <2>1. Spot(x, "D", o, 1) /\ Spot(x, "D", o, 2)
    <3>1. Len(Hook["D"]) = 2
      BY DEF Hook
    <3> QED BY <3>1, <1>5 DEF Spot
  <2>2. Leg(x, At(o, 1), <<"T">>, o, next, "T")
    BY <2>1, <1>0, HookOne, LegOne
  <2>3. Leg(x, At(o, 1), <<"t">>, o, At(o, 2), "t")
    BY <2>1, HookOne, LegOne
  <2>4. Leg(x, At(o, 2), <<"T">>, o, next, "T")
    BY <2>1, <1>0, HookOne, LegOne
  <2>5. Leg(x, At(o, 2), <<"n">>, o, next, "n")
    BY <2>1, <1>0, HookOne, LegOne
  <2>6. Part(x, At(o, 1), <<"t">>, o, At(o, 2))
    BY <2>3 DEF Leg
  <2>7. Leg(x, At(o, 1), <<"t">> \o <<"T">>, o, next, "T")
    BY <2>6, <2>4, LegJoin
  <2>8. Leg(x, At(o, 1), <<"t">> \o <<"n">>, o, next, "n")
    BY <2>6, <2>5, LegJoin
  <2>9. <<"t", "T">> = <<"t">> \o <<"T">> /\ <<"t", "n">> = <<"t">> \o <<"n">>
    BY PairIs
  <2>10. ks = <<"t", "T">> => Gives(x, o, ks)
    BY <2>7, <2>9, <1>0 DEF Gives
  <2>11. ks = <<"t", "n">> => Gives(x, o, ks)
    BY <2>8, <2>9, <1>0 DEF Gives
  <2>12. ks = <<"T">> => Gives(x, o, ks)
    BY <2>2, <1>0 DEF Gives
  <2> QED BY <2>10, <2>11, <2>12, <1>1, <1>5, AnswersAre
<1>6. CASE c = "E"
  <2>1. Spot(x, "E", o, 1)
    BY <1>6
  <2>2. IsRows(ks) \/ IsPaused(ks) \/ IsStream(ks) \/ ks \in {<<"I">>, <<"G">>}
    BY <1>6, AnswersAre
  <2>3. Leg(x, At(o, 1), <<"I">>, o, next, "I")
    BY <2>1, <1>0, HookE, LegOne
  <2>4. Steps(x, At(o, 1), <<"G">>, o, At(o, 4))
    BY <2>1, HookE, Onward
  <2>5. ks = <<"I">> => Gives(x, o, ks)
    BY <2>3, <1>0 DEF Gives
  <2>6. ks = <<"G">> => Gives(x, o, ks)
    BY <2>1, <2>4 DEF Gives, Spot
  <2> QED BY <2>1, <2>2, <2>5, <2>6, RowsGive, StreamGives
<1> QED BY <1>2, <1>3, <1>4, <1>5, <1>6, AnswersAre
\* Where the answers to a simple query lead, until Ready ends them.
GivesSimply(x, o, ks) ==
  \/ ks = <<"G">> /\ Steps(x, At(o, 1), ks, o, At(o, 2))
  \/ \E e : e # "G" /\ Leg(x, At(o, 1), ks, o, At(o, 1), e)

\* The rows of a simple query; an error leads to its first.
LEMMA SimpleSpots ==
  ASSUME NEW x, NEW o, Spot(x, "Q", o, 1)
  PROVE  /\ Spot(x, "Q", o, 2) /\ Spot(x, "Q", o, 3) /\ Spot(x, "Q", o, 4)
         /\ \A s \in 1 .. 4 : Leg(x, At(o, s), <<"ERROR">>, o, At(o, 1), "ERROR")
<1>1. Len(Hook["Q"]) = 4
  BY DEF Hook
<1>2. \A s \in 1 .. 4 : Spot(x, "Q", o, s)
  BY <1>1 DEF Spot
<1>3. SyncOf(x.cmds, o) = o
  BY DEF Spot, SyncOf, Simple
<1>4. ASSUME NEW s \in 1 .. 4 PROVE Leg(x, At(o, s), <<"ERROR">>, o, At(o, 1), "ERROR")
  <2>1. Spot(x, "Q", o, s)
    BY <1>2
  <2>2. Leg(x, At(o, s), <<"ERROR">>, o, At(SyncOf(x.cmds, o), 1), "ERROR")
    BY <2>1, LegOne
  <2> QED BY <2>2, <1>3
<1> QED BY <1>2, <1>4

\* COPY lines in a simple query.
LEMMA StreamGivesSimply ==
  ASSUME NEW x, NEW o, Spot(x, "Q", o, 1), NEW ks, IsStream(ks)
  PROVE  GivesSimply(x, o, ks)
<1>2. Spot(x, "Q", o, 2) /\ Spot(x, "Q", o, 3)
  BY SimpleSpots
<1>3. PICK n \in Nat : ks = <<"H">> \o Rep(n, "d") \o <<"c", "C">> \/ ks = <<"H">> \o Rep(n, "d") \o <<"ERROR">>
  BY DEF IsStream
<1>4. Leg(x, At(o, 1), <<"H">>, o, At(o, 3), "H")
  BY HookQ, LegOne
<1>5. Part(x, At(o, 3), Rep(n, "d"), o, At(o, 3))
  BY <1>2, HookQ, PartRep
<1>6. Leg(x, At(o, 3), <<"c">>, o, At(o, 2), "c")
  BY <1>2, HookQ, LegOne
<1>7. Leg(x, At(o, 2), <<"C">>, o, At(o, 1), "C")
  BY <1>2, HookQ, LegOne
<1>8. Leg(x, At(o, 3), <<"ERROR">>, o, At(o, 1), "ERROR")
  BY SimpleSpots
<1>9. Part(x, At(o, 1), <<"H">> \o Rep(n, "d"), o, At(o, 3))
  <2>1. Part(x, At(o, 1), <<"H">>, o, At(o, 3))
    BY <1>4 DEF Leg
  <2> QED BY <2>1, <1>5, PartJoin
<1>10. Leg(x, At(o, 3), <<"c">> \o <<"C">>, o, At(o, 1), "C")
  <2>1. Part(x, At(o, 3), <<"c">>, o, At(o, 2))
    BY <1>6 DEF Leg
  <2> QED BY <2>1, <1>7, LegJoin
<1>11. Leg(x, At(o, 3), <<"c", "C">>, o, At(o, 1), "C")
  BY <1>10, PairIs
<1>12. Leg(x, At(o, 1), <<"H">> \o Rep(n, "d") \o <<"c", "C">>, o, At(o, 1), "C")
  BY <1>9, <1>11, LegJoin
<1>13. Leg(x, At(o, 1), <<"H">> \o Rep(n, "d") \o <<"ERROR">>, o, At(o, 1), "ERROR")
  BY <1>9, <1>8, LegJoin
<1>14. ks = <<"H">> \o Rep(n, "d") \o <<"c", "C">> => GivesSimply(x, o, ks)
  BY <1>12 DEF GivesSimply
<1>15. ks = <<"H">> \o Rep(n, "d") \o <<"ERROR">> => GivesSimply(x, o, ks)
  BY <1>13 DEF GivesSimply
<1> QED BY <1>3, <1>14, <1>15

\* Rows in a simple query.
LEMMA RowsGiveSimply ==
  ASSUME NEW x, NEW o, Spot(x, "Q", o, 1), NEW r, IsRows(r)
  PROVE  GivesSimply(x, o, <<"T">> \o r)
<1>1. Spot(x, "Q", o, 4)
  BY SimpleSpots
<1>2. PICK n \in Nat, e \in {"C", "ERROR"} : r = Rep(n, "D") \o <<e>>
  BY DEF IsRows
<1>3. Leg(x, At(o, 1), <<"T">>, o, At(o, 4), "T")
  BY HookQ, LegOne
<1>4. Part(x, At(o, 4), Rep(n, "D"), o, At(o, 4))
  BY <1>1, HookQ, PartRep
<1>5. Leg(x, At(o, 4), <<"C">>, o, At(o, 1), "C")
  BY <1>1, HookQ, LegOne
<1>6. Leg(x, At(o, 4), <<"ERROR">>, o, At(o, 1), "ERROR")
  BY SimpleSpots
<1>7. Leg(x, At(o, 4), <<e>>, o, At(o, 1), e)
  BY <1>5, <1>6
<1>8. Leg(x, At(o, 4), r, o, At(o, 1), e)
  BY <1>2, <1>4, <1>7, LegJoin
<1>9. Part(x, At(o, 1), <<"T">>, o, At(o, 4))
  BY <1>3 DEF Leg
<1>10. Leg(x, At(o, 1), <<"T">> \o r, o, At(o, 1), e)
  BY <1>8, <1>9, LegJoin
<1> QED BY <1>10 DEF GivesSimply

\* Each answer to a simple query.
LEMMA AnswerGivesSimply ==
  ASSUME NEW x, NEW o, Spot(x, "Q", o, 1), NEW ks \in Answers["Q"]
  PROVE  GivesSimply(x, o, ks)
<1>1. Leg(x, At(o, 1), <<"ERROR">>, o, At(o, 1), "ERROR")
  BY SimpleSpots
<1>2. Leg(x, At(o, 1), <<"C">>, o, At(o, 1), "C")
  BY HookQ, LegOne
<1>3. Leg(x, At(o, 1), <<"I">>, o, At(o, 1), "I")
  BY HookQ, LegOne
<1>4. Part(x, At(o, 1), <<"C">>, o, At(o, 1))
  BY <1>2 DEF Leg
<1>5. Leg(x, At(o, 1), <<"C">> \o <<"C">>, o, At(o, 1), "C")
  BY <1>2, <1>4, LegJoin
<1>6. Leg(x, At(o, 1), <<"C", "C">>, o, At(o, 1), "C")
  BY <1>5, PairIs
<1>7. Steps(x, At(o, 1), <<"G">>, o, At(o, 2))
  BY HookQ, Onward
<1>8. ks = <<"ERROR">> => GivesSimply(x, o, ks)
  BY <1>1 DEF GivesSimply
<1>9. ks = <<"C">> => GivesSimply(x, o, ks)
  BY <1>2 DEF GivesSimply
<1>10. ks = <<"I">> => GivesSimply(x, o, ks)
  BY <1>3 DEF GivesSimply
<1>11. ks = <<"C", "C">> => GivesSimply(x, o, ks)
  BY <1>6 DEF GivesSimply
<1>12. ks = <<"G">> => GivesSimply(x, o, ks)
  BY <1>7 DEF GivesSimply
<1>13. \/ \E r : ks = <<"T">> \o r /\ IsRows(r)
       \/ IsStream(ks)
       \/ ks \in {<<"ERROR">>, <<"C">>, <<"I">>, <<"C", "C">>, <<"G">>}
  BY AnswersAre
<1> QED BY <1>8, <1>9, <1>10, <1>11, <1>12, <1>13, RowsGiveSimply, StreamGivesSimply

\* Ready ends what answers a simple query.
LEMMA ReadyEnds ==
  ASSUME NEW x, NEW o, Spot(x, "Q", o, 1), NEW s, NEW ks, NEW e, Leg(x, At(o, s), ks, o, At(o, 1), e)
  PROVE  Leg(x, At(o, s), Append(ks, "Z"), o, At(NextCmd(x.cmds, o), 1), "Z")
<1>1. Leg(x, At(o, 1), <<"Z">>, o, At(NextCmd(x.cmds, o), 1), "Z")
  BY HookQ, LegOne
<1>2. Part(x, At(o, s), ks, o, At(o, 1)) /\ IsList(ks)
  BY DEF Leg, Part, Steps
<1>3. Leg(x, At(o, s), ks \o <<"Z">>, o, At(NextCmd(x.cmds, o), 1), "Z")
  BY <1>1, <1>2, LegJoin
<1>4. Append(ks, "Z") = ks \o <<"Z">>
  BY <1>2, PairIs
<1> QED BY <1>3, <1>4

\* What ends a COPY, answered.
LEMMA CopyGives ==
  ASSUME NEW x, NEW o
  PROVE  /\ Spot(x, "E", o, 1) =>
              /\ Leg(x, At(o, 4), <<"C">>, o, At(NextCmd(x.cmds, o), 1), "C")
              /\ Leg(x, At(o, 4), <<"ERROR">>, o, At(Len(x.cmds), 1), "ERROR")
         /\ Spot(x, "Q", o, 1) =>
              /\ Leg(x, At(o, 2), <<"C", "Z">>, o, At(NextCmd(x.cmds, o), 1), "Z")
              /\ Leg(x, At(o, 2), <<"ERROR", "Z">>, o, At(NextCmd(x.cmds, o), 1), "Z")
<1>1. ASSUME Spot(x, "E", o, 1)
      PROVE  /\ Leg(x, At(o, 4), <<"C">>, o, At(NextCmd(x.cmds, o), 1), "C")
             /\ Leg(x, At(o, 4), <<"ERROR">>, o, At(Len(x.cmds), 1), "ERROR")
  <2>1. Len(Hook["E"]) = 4
    BY DEF Hook
  <2>2. Spot(x, "E", o, 4)
    BY <1>1, <2>1 DEF Spot
  <2>3. Leg(x, At(o, 4), <<"C">>, o, At(NextCmd(x.cmds, o), 1), "C")
    BY <2>2, HookE, LegOne
  <2>4. Leg(x, At(o, 4), <<"ERROR">>, o, At(Len(x.cmds), 1), "ERROR")
    BY <2>2, SpotIs
  <2> QED BY <2>3, <2>4
<1>2. ASSUME Spot(x, "Q", o, 1)
      PROVE  /\ Leg(x, At(o, 2), <<"C", "Z">>, o, At(NextCmd(x.cmds, o), 1), "Z")
             /\ Leg(x, At(o, 2), <<"ERROR", "Z">>, o, At(NextCmd(x.cmds, o), 1), "Z")
  <2>1. Spot(x, "Q", o, 2) /\ Leg(x, At(o, 2), <<"ERROR">>, o, At(o, 1), "ERROR")
    BY <1>2, SimpleSpots
  <2>2. Leg(x, At(o, 2), <<"C">>, o, At(o, 1), "C")
    BY <2>1, HookQ, LegOne
  <2>3. Append(<<"C">>, "Z") = <<"C", "Z">> /\ Append(<<"ERROR">>, "Z") = <<"ERROR", "Z">>
    <3>1. IsList(<<"C">>) /\ IsList(<<"ERROR">>)
      BY JoinOne
    <3>2. Append(<<"C">>, "Z") = <<"C">> \o <<"Z">> /\ Append(<<"ERROR">>, "Z") = <<"ERROR">> \o <<"Z">>
      BY <3>1, PairIs
    <3>3. <<"C", "Z">> = <<"C">> \o <<"Z">> /\ <<"ERROR", "Z">> = <<"ERROR">> \o <<"Z">>
      BY PairIs
    <3> QED BY <3>2, <3>3
  <2>4. Leg(x, At(o, 2), Append(<<"C">>, "Z"), o, At(NextCmd(x.cmds, o), 1), "Z")
    BY <1>2, <2>2, ReadyEnds
  <2>5. Leg(x, At(o, 2), Append(<<"ERROR">>, "Z"), o, At(NextCmd(x.cmds, o), 1), "Z")
    BY <1>2, <2>1, ReadyEnds
  <2> QED BY <2>3, <2>4, <2>5
<1> QED BY <1>1, <1>2

\* Ready ends Sync.
LEMMA SyncGives ==
  ASSUME NEW x, NEW o, Spot(x, "S", o, 1)
  PROVE  Leg(x, At(o, 1), <<"Z">>, o, At(NextCmd(x.cmds, o), 1), "Z")
BY HookOne, LegOne

-----------------------------------------------------------------------------
(* The next request on its way.                                            *)

\* b: the list a without its first element.
Behead(a, b) ==
  /\ IsList(a) /\ Len(a) # 0 /\ IsList(b) /\ Len(b) = Len(a) - 1
  /\ \A i \in 1 .. Len(b) : b[i] = a[i + 1]

\* a begins with the command at j, and b has the others.
Starts(x, a, b, j) ==
  /\ j \in 1 .. Len(x.cmds) /\ a[1].k = x.cmds[j] /\ a[1].id = x.id /\ a[1].at = j /\ Rest(x, b, j + 1, 0)

\* What is left of the commands when the first message is taken.
LEMMA RestTail ==
  ASSUME NEW x, NEW a, NEW b, Behead(a, b), NEW N, N = Len(x.cmds), N \in Nat, NEW j \in 1 .. N + 1
  PROVE  /\ \A n \in 1 .. Len(a) : Rest(x, a, j, n) => Rest(x, b, j, n - 1) /\ n - 1 \in 0 .. Len(b)
         /\ Rest(x, a, j, 0) => Starts(x, a, b, j)
<1>1. PICK la : la = Len(a)
  OBVIOUS
<1>2. PICK lb : lb = Len(b)
  OBVIOUS
<1>3. la \in Nat /\ lb \in Nat /\ lb = la - 1 /\ \A i \in 1 .. lb : b[i] = a[i + 1]
  BY <1>1, <1>2, ListFacts DEF Behead
<1>4. ASSUME NEW n \in 1 .. la, Rest(x, a, j, n) PROVE Rest(x, b, j, n - 1)
  <2>1. PICK n1 : n1 = n - 1
    OBVIOUS
  <2>2. /\ la - n = N + 1 - j
        /\ \A i \in (n + 1) .. la : a[i].k = x.cmds[j + i - n - 1] /\ a[i].id = x.id /\ a[i].at = j + i - n - 1
    BY <1>1, <1>4 DEF Rest
  <2>3. lb - n1 = N + 1 - j
    BY <2>1, <2>2, <1>3
  <2>4. ASSUME NEW i \in (n1 + 1) .. lb
        PROVE  b[i].k = x.cmds[j + i - n1 - 1] /\ b[i].id = x.id /\ b[i].at = j + i - n1 - 1
    <3>1. PICK h : h = i + 1
      OBVIOUS
    <3>2. h \in (n + 1) .. la /\ j + h - n - 1 = j + i - n1 - 1 /\ i \in 1 .. lb
      BY <3>1, <2>1, <1>3
    <3>3. b[i] = a[h]
      BY <3>1, <3>2, <1>3
    <3> QED BY <3>2, <3>3, <2>2
  <2>5. Rest(x, b, j, n1)
    BY <2>3, <2>4, <1>2 DEF Rest
  <2> QED BY <2>1, <2>5
<1>5. ASSUME Rest(x, a, j, 0)
      PROVE  Starts(x, a, b, j)
  <2>1. la - 0 = N + 1 - j
    BY <1>1, <1>5 DEF Rest
  <2>2. la = N + 1 - j
    BY <2>1, <1>3
  <2>3. ASSUME NEW i \in 1 .. la PROVE a[i].k = x.cmds[j + i - 1] /\ a[i].id = x.id /\ a[i].at = j + i - 1
    <3>1. i \in (0 + 1) .. la /\ j + i - 0 - 1 = j + i - 1
      BY <1>3
    <3> QED BY <3>1, <1>1, <1>5 DEF Rest
  <2>4. j \in 1 .. N /\ 1 \in 1 .. la /\ j + 1 - 1 = j
    BY <2>2, <1>3, <1>1 DEF Behead
  <2>5. a[1].k = x.cmds[j] /\ a[1].id = x.id /\ a[1].at = j
    BY <2>3, <2>4
  <2>6. PICK j1 : j1 = j + 1
    OBVIOUS
  <2>7. ASSUME NEW i \in (0 + 1) .. lb
        PROVE  b[i].k = x.cmds[j1 + i - 0 - 1] /\ b[i].id = x.id /\ b[i].at = j1 + i - 0 - 1
    <3>1. PICK h : h = i + 1
      OBVIOUS
    <3>2. h \in 1 .. la /\ j + h - 1 = j1 + i - 0 - 1 /\ i \in 1 .. lb
      BY <3>1, <2>6, <1>3
    <3>3. b[i] = a[h]
      BY <3>1, <3>2, <1>3
    <3> QED BY <3>2, <3>3, <2>3
  <2>8. lb - 0 = N + 1 - j1
    <3>1. PICK M : M = N
      OBVIOUS
    <3>2. M \in Nat /\ j \in Int /\ la \in Nat /\ lb = la - 1
      BY <3>1, <1>3
    <3>3. la = M + 1 - j
      BY <2>2, <3>1
    <3>4. lb - 0 = M + 1 - j1
      BY <3>2, <3>3, <2>6
    <3> QED BY <3>1, <3>4
  <2>9. Rest(x, b, j1, 0)
    BY <2>7, <2>8, <1>2 DEF Rest
  <2> QED BY <2>4, <2>5, <2>6, <2>9 DEF Starts
<1>6. \A n \in 1 .. la : n - 1 \in 0 .. lb
  BY <1>3
<1> QED BY <1>1, <1>2, <1>4, <1>5, <1>6

\* A message that a session which is not copying drops: data left over, Flush, and anything
\* while it waits for Sync.
LEMMA Drops ==
  ASSUME NEW x, InOrder(x.cmds), NEW a, NEW b, Behead(a, b), NEW p, NEW srv, Served(x, a, p, srv), srv.mode # "copyin",
         a[1].k # "S", srv.mode = "ignore" \/ a[1].k \in Junk \/ a[1].k = "L"
  PROVE  Served(x, b, p, srv)
<1>1. PICK N : N = Len(x.cmds)
  OBVIOUS
<1>2. PICK s : s = x.cmds
  OBVIOUS
<1>3. /\ N \in Nat \ {0} /\ \A i \in 1 .. N : s[i] \notin Junk
  BY <1>1, <1>2, OrderFacts DEF Junk
<1>4. Len(a) \in Nat /\ Len(b) \in Nat /\ Len(b) = Len(a) - 1 /\ \A i \in 1 .. Len(b) : b[i] = a[i + 1]
  BY ListFacts DEF Behead
<1>5. CASE srv.mode = "idle"
  <2>1. ServedIdle(x, a, p)
    BY <1>5 DEF Served
  <2>2. PICK n \in 0 .. Len(a), j \in 1 .. N + 1 :
          /\ \A i \in 1 .. n : a[i].k \in Junk
          /\ Rest(x, a, j, n)
          /\ p = At(NextCmd(s, j - 1), 1)
    BY <2>1, <1>1, <1>2 DEF ServedIdle
  <2>3. CASE n = 0
    <3>1. j \in 1 .. N /\ a[1].k = s[j] /\ Rest(x, b, j + 1, 0)
      <4>1. Rest(x, a, j, 0) /\ N \in Nat
        BY <2>2, <2>3, <1>3
      <4>2. Starts(x, a, b, j)
        BY <4>1, <1>1, RestTail
      <4> QED BY <4>2, <1>1, <1>2 DEF Starts
    <3>2. s[j] = "L" /\ j \in 1 .. N
      BY <3>1, <1>3, <1>5
    <3>3. PICK j1 : j1 = j + 1
      OBVIOUS
    <3>4. j1 \in 1 .. N + 1 /\ j1 - 1 = j
      BY <3>2, <3>3, <1>3
    <3>5. NextCmd(s, j - 1) = NextCmd(s, j)
      <4>1. PICK k : k = NextCmd(s, j)
        OBVIOUS
      <4>2. j \in 0 .. N /\ N \in Nat /\ N = Len(s)
        BY <3>2, <1>1, <1>2, <1>3
      <4>3. k \in (j + 1) .. (N + 1) /\ (k = N + 1 \/ s[k] # "L") /\ \A i \in (j + 1) .. (k - 1) : s[i] = "L"
        BY <4>1, <4>2, NextUp
      <4>4. PICK j0 : j0 = j - 1
        OBVIOUS
      <4>5. j0 \in 0 .. N /\ k \in (j0 + 1) .. (N + 1)
        BY <4>3, <4>4, <3>2, <1>3
      <4>6. \A i \in (j0 + 1) .. (k - 1) : i = j \/ i \in (j + 1) .. (k - 1)
        BY <4>3, <4>4, <3>2, <1>3
      <4>7. \A i \in (j0 + 1) .. (k - 1) : s[i] = "L"
        BY <4>3, <4>6, <3>2
      <4>8. NextCmd(s, j0) = k
        BY <4>2, <4>3, <4>5, <4>7, NextIs
      <4> QED BY <4>1, <4>4, <4>8
    <3>6. Rest(x, b, j1, 0) /\ p = At(NextCmd(s, j1 - 1), 1) /\ 0 \in 0 .. Len(b)
      BY <3>1, <3>3, <3>4, <3>5, <2>2, <1>4
    <3>7. ServedIdle(x, b, p)
      BY <3>4, <3>6, <1>1, <1>2 DEF ServedIdle
    <3> QED BY <3>7, <1>5 DEF Served
  <2>4. CASE n # 0
    <3>1. PICK n1 : n1 = n - 1
      OBVIOUS
    <3>2. n \in 1 .. Len(a) /\ N \in Nat
      BY <2>4, <1>3, <1>4
    <3>3. Rest(x, b, j, n1) /\ n1 \in 0 .. Len(b)
      BY <3>1, <3>2, <2>2, <1>1, RestTail
    <3>4. \A i \in 1 .. n1 : i \in 1 .. Len(b) /\ i + 1 \in 1 .. n
      BY <3>1, <3>2, <3>3, <1>4
    <3>5. \A i \in 1 .. n1 : b[i].k \in Junk
      BY <3>4, <2>2, <1>4
    <3>6. ServedIdle(x, b, p)
      BY <3>3, <3>5, <2>2, <1>1, <1>2 DEF ServedIdle
    <3> QED BY <3>6, <1>5 DEF Served
  <2> QED BY <2>3, <2>4
<1>6. CASE srv.mode = "ignore"
  <2>1. ServedIgnoring(x, a, p)
    BY <1>6 DEF Served
  <2>2. PICK n \in 0 .. Len(a), j \in 1 .. N :
          /\ \A i \in 1 .. n : a[i].k \in Junk
          /\ Rest(x, a, j, n)
          /\ p = At(N, 1) /\ s[N] = "S"
    BY <2>1, <1>1, <1>2 DEF ServedIgnoring
  <2>0. j \in 1 .. N + 1
    BY <1>3
  <2>3. CASE n = 0
    <3>1. j \in 1 .. N /\ a[1].k = s[j] /\ Rest(x, b, j + 1, 0)
      <4>1. Rest(x, a, j, 0) /\ N \in Nat
        BY <2>2, <2>3, <1>3
      <4>2. Starts(x, a, b, j)
        BY <4>1, <2>0, <1>1, RestTail
      <4> QED BY <4>2, <1>1, <1>2 DEF Starts
    <3>2. j # N
      BY <3>1, <2>2
    <3>3. PICK j1 : j1 = j + 1
      OBVIOUS
    <3>4. j1 \in 1 .. N
      BY <3>2, <3>3, <1>3
    <3>6. Rest(x, b, j1, 0) /\ 0 \in 0 .. Len(b)
      BY <3>1, <3>3, <1>4
    <3>7. ServedIgnoring(x, b, p)
      BY <3>4, <3>6, <2>2, <1>1, <1>2 DEF ServedIgnoring
    <3> QED BY <3>7, <1>6 DEF Served
  <2>4. CASE n # 0
    <3>1. PICK n1 : n1 = n - 1
      OBVIOUS
    <3>2. n \in 1 .. Len(a) /\ N \in Nat
      BY <2>4, <1>3, <1>4
    <3>3. Rest(x, b, j, n1) /\ n1 \in 0 .. Len(b)
      BY <3>1, <3>2, <2>0, <2>2, <1>1, RestTail
    <3>4. \A i \in 1 .. n1 : i \in 1 .. Len(b) /\ i + 1 \in 1 .. n
      BY <3>1, <3>2, <3>3, <1>4
    <3>5. \A i \in 1 .. n1 : b[i].k \in Junk
      BY <3>4, <2>2, <1>4
    <3>6. ServedIgnoring(x, b, p)
      BY <3>3, <3>5, <2>2, <1>1, <1>2 DEF ServedIgnoring
    <3> QED BY <3>6, <1>6 DEF Served
  <2> QED BY <2>3, <2>4
<1> QED BY <1>5, <1>6 DEF Served

\* m is the command at j, and the session has reached it.
Reached(x, m, j, p) == Spot(x, m.k, j, 1) /\ p = At(j, 1) /\ m.id = x.id /\ m.at = j

\* After the command at j the session is at the next one, or ignores it.
LEMMA CommandNext ==
  ASSUME NEW x, NEW c, NEW j, Spot(x, c, j, 1), NEW b, IsList(b), Rest(x, b, j + 1, 0)
  PROVE  /\ ServedIdle(x, b, At(NextCmd(x.cmds, j), 1))
         /\ c \notin {"Q", "S"} => ServedIgnoring(x, b, At(Len(x.cmds), 1))
<1>1. PICK N : N = Len(x.cmds)
  OBVIOUS
<1>2. PICK s : s = x.cmds
  OBVIOUS
<1>3. InOrder(s) /\ j \in 1 .. N /\ s[j] = c
  BY <1>1, <1>2 DEF Spot
<1>4. N \in Nat \ {0} /\ (c # "Q" => s[N] = "S")
  BY <1>1, <1>2, <1>3, OrderFacts
<1>5. PICK j1 : j1 = j + 1
  OBVIOUS
<1>6. j1 \in 1 .. N + 1 /\ j1 - 1 = j /\ (j # N => j1 \in 1 .. N)
  BY <1>3, <1>4, <1>5
<1>7. 0 \in 0 .. Len(b) /\ \A i \in 1 .. 0 : b[i].k \in Junk
  BY ListFacts
<1>8. ServedIdle(x, b, At(NextCmd(x.cmds, j), 1))
  BY <1>1, <1>5, <1>6, <1>7 DEF ServedIdle
<1>9. ASSUME c \notin {"Q", "S"} PROVE ServedIgnoring(x, b, At(Len(x.cmds), 1))
  <2>1. s[N] = "S" /\ j # N
    BY <1>3, <1>4, <1>9
  <2>2. j1 \in 1 .. N
    BY <2>1, <1>6
  <2> QED BY <2>1, <2>2, <1>1, <1>2, <1>5, <1>7 DEF ServedIgnoring
<1> QED BY <1>8, <1>9

\* The next message is no left-over.
LEMMA NotJunk ==
  ASSUME NEW a, NEW n \in Nat, \A i \in 1 .. n : a[i].k \in Junk, a[1].k \notin Junk
  PROVE  n = 0
<1>1. CASE n # 0
  <2>1. 1 \in 1 .. n
    BY <1>1
  <2> QED BY <2>1
<1> QED BY <1>1

\* The next Sync is the one the position is at.
LEMMA TakesSync ==
  ASSUME NEW x, InOrder(x.cmds), NEW a, NEW b, Behead(a, b), NEW p, NEW srv, Served(x, a, p, srv), srv.mode # "copyin",
         a[1].k = "S"
  PROVE  \E j : Reached(x, a[1], j, p) /\ ServedIdle(x, b, At(NextCmd(x.cmds, j), 1))
<1>1. PICK N : N = Len(x.cmds)
  OBVIOUS
<1>2. PICK s : s = x.cmds
  OBVIOUS
<1>3. N \in Nat \ {0} /\ (\A i \in 1 .. N : s[i] = "S" => i = N) /\ IsList(b) /\ a[1].k \notin Junk
  BY <1>1, <1>2, OrderFacts DEF Behead, Junk
<1>4. Len(a) \in Nat
  BY ListFacts DEF Behead
<1>5. CASE srv.mode = "idle"
  <2>1. ServedIdle(x, a, p)
    BY <1>5 DEF Served
  <2>2. PICK n \in 0 .. Len(a), j \in 1 .. N + 1 :
          /\ \A i \in 1 .. n : a[i].k \in Junk
          /\ Rest(x, a, j, n)
          /\ p = At(NextCmd(s, j - 1), 1)
    BY <2>1, <1>1, <1>2 DEF ServedIdle
  <2>3. n = 0
    BY <2>2, <1>3, <1>4, NotJunk
  <2>4. Starts(x, a, b, j)
    <3>1. Rest(x, a, j, 0) /\ N \in Nat
      BY <2>2, <2>3, <1>3
    <3> QED BY <3>1, <1>1, RestTail
  <2>5. j \in 1 .. N /\ s[j] = "S" /\ a[1].id = x.id /\ a[1].at = j /\ Rest(x, b, j + 1, 0)
    BY <2>4, <1>1, <1>2 DEF Starts
  <2>6. p = At(j, 1)
    <3>1. PICK j0 : j0 = j - 1
      OBVIOUS
    <3>2. j0 \in 0 .. N /\ j \in (j0 + 1) .. (N + 1) /\ \A i \in (j0 + 1) .. (j - 1) : s[i] = "L"
      BY <3>1, <2>5, <1>3
    <3>3. s[j] # "L" /\ N \in Nat
      BY <2>5, <1>3
    <3>4. NextCmd(s, j0) = j
      BY <3>2, <3>3, <1>1, <1>2, NextIs
    <3> QED BY <3>1, <3>4, <2>2
  <2>7. Spot(x, "S", j, 1)
    <3>1. "S" \in DOMAIN Hook
      BY DEF Hook
    <3>2. 1 \in 1 .. Len(Hook["S"])
      BY <3>1, FirstRow
    <3> QED BY <3>1, <3>2, <2>5, <1>1, <1>2 DEF Spot
  <2>8. ServedIdle(x, b, At(NextCmd(x.cmds, j), 1))
    BY <2>5, <2>7, <1>3, CommandNext
  <2> QED BY <2>5, <2>6, <2>7, <2>8 DEF Reached
<1>6. CASE srv.mode = "ignore"
  <2>1. ServedIgnoring(x, a, p)
    BY <1>6 DEF Served
  <2>2. PICK n \in 0 .. Len(a), j \in 1 .. N :
          /\ \A i \in 1 .. n : a[i].k \in Junk
          /\ Rest(x, a, j, n)
          /\ p = At(N, 1) /\ s[N] = "S"
    BY <2>1, <1>1, <1>2 DEF ServedIgnoring
  <2>3. n = 0
    BY <2>2, <1>3, <1>4, NotJunk
  <2>4. Starts(x, a, b, j)
    <3>1. Rest(x, a, j, 0) /\ N \in Nat /\ j \in 1 .. N + 1
      BY <2>2, <2>3, <1>3
    <3> QED BY <3>1, <1>1, RestTail
  <2>5. j \in 1 .. N /\ s[j] = "S" /\ a[1].id = x.id /\ a[1].at = j /\ Rest(x, b, j + 1, 0)
    BY <2>4, <1>1, <1>2 DEF Starts
  <2>6. p = At(j, 1)
    BY <2>2, <2>5, <1>3
  <2>7. Spot(x, "S", j, 1)
    <3>1. "S" \in DOMAIN Hook
      BY DEF Hook
    <3>2. 1 \in 1 .. Len(Hook["S"])
      BY <3>1, FirstRow
    <3> QED BY <3>1, <3>2, <2>5, <1>1, <1>2 DEF Spot
  <2>8. ServedIdle(x, b, At(NextCmd(x.cmds, j), 1))
    BY <2>5, <2>7, <1>3, CommandNext
  <2> QED BY <2>5, <2>6, <2>7, <2>8 DEF Reached
<1> QED BY <1>5, <1>6 DEF Served

\* The next command is the one the position is at.
LEMMA TakesCommand ==
  ASSUME NEW x, InOrder(x.cmds), NEW a, NEW b, Behead(a, b), NEW p, NEW srv, Served(x, a, p, srv), srv.mode = "idle",
         a[1].k \in DOMAIN Answers
  PROVE  \E j : Reached(x, a[1], j, p) /\ Rest(x, a, j, 0) /\ Rest(x, b, j + 1, 0)
<1>1. PICK N : N = Len(x.cmds)
  OBVIOUS
<1>2. PICK s : s = x.cmds
  OBVIOUS
<1>3. N \in Nat \ {0} /\ a[1].k \notin Junk /\ a[1].k \in DOMAIN Hook /\ a[1].k # "L"
  BY <1>1, <1>2, OrderFacts, AnswersAre DEF Junk, Hook
<1>4. Len(a) \in Nat
  BY ListFacts DEF Behead
<1>5. ServedIdle(x, a, p)
  BY DEF Served
<1>6. PICK n \in 0 .. Len(a), j \in 1 .. N + 1 :
          /\ \A i \in 1 .. n : a[i].k \in Junk
          /\ Rest(x, a, j, n)
          /\ p = At(NextCmd(s, j - 1), 1)
  BY <1>5, <1>1, <1>2 DEF ServedIdle
<1>7. n = 0
  BY <1>6, <1>3, <1>4, NotJunk
<1>8. Rest(x, a, j, 0) /\ Starts(x, a, b, j)
  <2>1. Rest(x, a, j, 0) /\ N \in Nat
    BY <1>6, <1>7, <1>3
  <2> QED BY <2>1, <1>1, RestTail
<1>9. j \in 1 .. N /\ s[j] = a[1].k /\ a[1].id = x.id /\ a[1].at = j /\ Rest(x, b, j + 1, 0)
  BY <1>8, <1>1, <1>2 DEF Starts
<1>10. p = At(j, 1)
  <2>1. PICK j0 : j0 = j - 1
    OBVIOUS
  <2>2. j0 \in 0 .. N /\ j \in (j0 + 1) .. (N + 1) /\ \A i \in (j0 + 1) .. (j - 1) : s[i] = "L"
    BY <2>1, <1>9, <1>3
  <2>3. s[j] # "L" /\ N \in Nat
    BY <1>9, <1>3
  <2>4. NextCmd(s, j0) = j
    BY <2>2, <2>3, <1>1, <1>2, NextIs
  <2> QED BY <2>1, <2>4, <1>6
<1>11. Spot(x, a[1].k, j, 1)
  <2>1. 1 \in 1 .. Len(Hook[a[1].k])
    BY <1>3, FirstRow
  <2> QED BY <2>1, <1>3, <1>9, <1>1, <1>2 DEF Spot
<1> QED BY <1>8, <1>9, <1>10, <1>11 DEF Reached
\* The pipe of a session that copies: b requests it drops, data up to n - 1, and the end at n.
Copying(x, a, p, simple, b, n) ==
  /\ b < n
  /\ \A i \in 1 .. b : a[i].k \in {"L", "S"}
  /\ \A i \in (b + 1) .. (n - 1) : a[i].k = "data" /\ a[i].id = x.id /\ a[i].at = p.off
  /\ a[n].k \in {"done", "fail"} /\ a[n].id = x.id /\ a[n].at = p.off
  /\ Rest(x, a, p.off + 1, n)
  /\ p.off \in 1 .. Len(x.cmds)
  /\ \/ simple /\ x.cmds[p.off] = "Q" /\ p = At(p.off, 2)
     \/ ~simple /\ x.cmds[p.off] = "E" /\ p = At(p.off, 4)

\* ServedCopying with its two places named.
LEMMA CopyingIs ==
  ASSUME NEW x, NEW a, NEW p, NEW simple
  PROVE  ServedCopying(x, a, p, simple) <=> \E b \in 0 .. Len(a), n \in 0 .. Len(a) : Copying(x, a, p, simple, b, n)
BY DEF ServedCopying, Copying

\* In a COPY the session drops Flush and Sync, and takes data.
LEMMA CopyDrops ==
  ASSUME NEW x, InOrder(x.cmds), NEW a, NEW c, Behead(a, c), NEW p, NEW simple, ServedCopying(x, a, p, simple),
         a[1].k \in {"S", "L", "data"}
  PROVE  ServedCopying(x, c, p, simple)
<1>1. PICK b \in 0 .. Len(a), n \in 0 .. Len(a) : Copying(x, a, p, simple, b, n)
  BY CopyingIs
<1>2. PICK la : la = Len(a)
  OBVIOUS
<1>3. PICK lc : lc = Len(c)
  OBVIOUS
<1>4. la \in Nat /\ lc = la - 1 /\ lc \in Nat /\ \A i \in 1 .. lc : c[i] = a[i + 1]
  BY <1>2, <1>3, ListFacts DEF Behead
<1>5. PICK o : o = p.off
  OBVIOUS
<1>6. PICK N : N = Len(x.cmds)
  OBVIOUS
<1>7. o \in 1 .. N /\ N \in Nat /\ o + 1 \in 1 .. N + 1
  <2>1. N \in Nat
    BY <1>6, OrderFacts
  <2> QED BY <2>1, <1>1, <1>5, <1>6 DEF Copying
<1>8. /\ b < n
      /\ \A i \in 1 .. b : a[i].k \in {"L", "S"}
      /\ \A i \in (b + 1) .. (n - 1) : a[i].k = "data" /\ a[i].id = x.id /\ a[i].at = o
      /\ a[n].k \in {"done", "fail"} /\ a[n].id = x.id /\ a[n].at = o
      /\ Rest(x, a, o + 1, n)
      /\ \/ simple /\ x.cmds[o] = "Q" /\ p = At(o, 2)
         \/ ~simple /\ x.cmds[o] = "E" /\ p = At(o, 4)
  BY <1>1, <1>5 DEF Copying
<1>9. b \in 0 .. la /\ n \in 1 .. la /\ n # 1
  BY <1>2, <1>4, <1>8
<1>10. PICK d : d = IF b = 0 THEN 0 ELSE b - 1
  OBVIOUS
<1>11. PICK e : e = n - 1
  OBVIOUS
<1>12. d \in 0 .. lc /\ e \in 1 .. lc /\ d < e /\ e + 1 = n
  BY <1>4, <1>8, <1>9, <1>10, <1>11
<1>13. Rest(x, c, o + 1, e)
  <2>1. n \in 1 .. Len(a) /\ Rest(x, a, o + 1, n) /\ N = Len(x.cmds) /\ N \in Nat
    BY <1>2, <1>6, <1>7, <1>8, <1>9
  <2>2. PICK o1 : o1 = o + 1
    OBVIOUS
  <2>3. Rest(x, a, o1, n) /\ o1 \in 1 .. N + 1
    BY <2>1, <2>2, <1>7
  <2>4. Rest(x, c, o1, n - 1)
    BY <2>1, <2>3, RestTail
  <2> QED BY <2>2, <2>4, <1>11
<1>14. \A i \in 1 .. d : c[i].k \in {"L", "S"}
  <2>1. \A i \in 1 .. d : i \in 1 .. lc /\ i + 1 \in 1 .. b
    BY <1>4, <1>9, <1>10, <1>12
  <2> QED BY <2>1, <1>4, <1>8
<1>15. \A i \in (d + 1) .. (e - 1) : c[i].k = "data" /\ c[i].id = x.id /\ c[i].at = o
  <2>1. \A i \in (d + 1) .. (e - 1) : i \in 1 .. lc /\ i + 1 \in (b + 1) .. (n - 1)
    BY <1>4, <1>9, <1>10, <1>11, <1>12
  <2> QED BY <2>1, <1>4, <1>8
<1>16. c[e] = a[n]
  BY <1>4, <1>12
<1>17. Copying(x, c, p, simple, d, e)
  BY <1>5, <1>6, <1>7, <1>8, <1>12, <1>13, <1>14, <1>15, <1>16 DEF Copying
<1>18. d \in 0 .. Len(c) /\ e \in 0 .. Len(c)
  BY <1>3, <1>4, <1>12
<1> QED BY <1>17, <1>18, CopyingIs

\* A message that ends a COPY, or fails it.
LEMMA TakesEnd ==
  ASSUME NEW x, InOrder(x.cmds), NEW a, NEW c, Behead(a, c), NEW p, NEW simple, ServedCopying(x, a, p, simple),
         a[1].k \notin {"S", "L"}
  PROVE  /\ a[1].id = x.id /\ a[1].at = p.off
         /\ Spot(x, IF simple THEN "Q" ELSE "E", p.off, 1) /\ p = At(p.off, IF simple THEN 2 ELSE 4)
         /\ a[1].k = "done" \/ simple => ServedIdle(x, c, At(NextCmd(x.cmds, p.off), 1))
         /\ ~simple => ServedIgnoring(x, c, At(Len(x.cmds), 1))
<1>1. PICK b \in 0 .. Len(a), n \in 0 .. Len(a) : Copying(x, a, p, simple, b, n)
  BY CopyingIs
<1>2. PICK la : la = Len(a)
  OBVIOUS
<1>3. PICK lc : lc = Len(c)
  OBVIOUS
<1>4. la \in Nat /\ lc = la - 1 /\ lc \in Nat /\ \A i \in 1 .. lc : c[i] = a[i + 1]
  BY <1>2, <1>3, ListFacts DEF Behead
<1>5. PICK o : o = p.off
  OBVIOUS
<1>6. PICK N : N = Len(x.cmds)
  OBVIOUS
<1>7. o \in 1 .. N /\ N \in Nat /\ o + 1 \in 1 .. N + 1
  <2>1. N \in Nat
    BY <1>6, OrderFacts
  <2> QED BY <2>1, <1>1, <1>5, <1>6 DEF Copying
<1>8. /\ b < n
      /\ \A i \in 1 .. b : a[i].k \in {"L", "S"}
      /\ \A i \in (b + 1) .. (n - 1) : a[i].k = "data" /\ a[i].id = x.id /\ a[i].at = o
      /\ a[n].k \in {"done", "fail"} /\ a[n].id = x.id /\ a[n].at = o
      /\ Rest(x, a, o + 1, n)
      /\ \/ simple /\ x.cmds[o] = "Q" /\ p = At(o, 2)
         \/ ~simple /\ x.cmds[o] = "E" /\ p = At(o, 4)
  BY <1>1, <1>5 DEF Copying
<1>9. b \in 0 .. la /\ n \in 1 .. la
  BY <1>2, <1>4, <1>8
<1>10. b = 0
  <2>1. CASE b # 0
    <3>1. 1 \in 1 .. b
      BY <2>1, <1>9
    <3> QED BY <3>1, <1>8
  <2> QED BY <2>1
<1>11. a[1].id = x.id /\ a[1].at = o
  <2>1. CASE n = 1
    BY <2>1, <1>8
  <2>2. CASE n # 1
    <3>1. 1 \in (b + 1) .. (n - 1)
      BY <2>2, <1>9, <1>10
    <3> QED BY <3>1, <1>8
  <2> QED BY <2>1, <2>2
<1>12. Spot(x, IF simple THEN "Q" ELSE "E", o, 1) /\ p = At(o, IF simple THEN 2 ELSE 4)
  <2>1. "Q" \in DOMAIN Hook /\ "E" \in DOMAIN Hook
    BY DEF Hook
  <2>2. 1 \in 1 .. Len(Hook["Q"]) /\ 1 \in 1 .. Len(Hook["E"])
    BY <2>1, FirstRow
  <2>3. simple => x.cmds[o] = "Q" /\ p = At(o, 2)
    BY <1>8
  <2>4. ~simple => x.cmds[o] = "E" /\ p = At(o, 4)
    BY <1>8
  <2>5. o \in 1 .. Len(x.cmds)
    BY <1>6, <1>7
  <2>6. CASE simple
    BY <2>1, <2>2, <2>3, <2>5, <2>6 DEF Spot
  <2>7. CASE ~simple
    BY <2>1, <2>2, <2>4, <2>5, <2>7 DEF Spot
  <2> QED BY <2>6, <2>7
<1>13. PICK e : e = n - 1
  OBVIOUS
<1>14. e \in 0 .. lc /\ e + 1 = n
  BY <1>4, <1>9, <1>13
<1>15. PICK o1 : o1 = o + 1
  OBVIOUS
<1>16. Rest(x, c, o1, e)
  <2>1. n \in 1 .. Len(a) /\ N = Len(x.cmds) /\ N \in Nat
    BY <1>2, <1>6, <1>7, <1>9
  <2>3. Rest(x, a, o1, n) /\ o1 \in 1 .. N + 1
    BY <1>15, <1>7, <1>8
  <2>4. Rest(x, c, o1, n - 1)
    BY <2>1, <2>3, RestTail
  <2> QED BY <2>4, <1>13
<1>17. \A i \in 1 .. e : c[i].k = "data" \/ c[i].k \in {"done", "fail"}
  <2>1. \A i \in 1 .. e : i \in 1 .. lc /\ (i + 1 \in (b + 1) .. (n - 1) \/ i + 1 = n)
    BY <1>4, <1>9, <1>10, <1>14
  <2> QED BY <2>1, <1>4, <1>8
<1>18. \A i \in 1 .. e : c[i].k \in Junk
  BY <1>17 DEF Junk
<1>19. e \in 0 .. Len(c) /\ o1 \in 1 .. N + 1 /\ o1 - 1 = o
  BY <1>3, <1>7, <1>14, <1>15
<1>20. ServedIdle(x, c, At(NextCmd(x.cmds, o), 1))
  BY <1>6, <1>16, <1>18, <1>19 DEF ServedIdle
<1>21. ASSUME ~simple PROVE ServedIgnoring(x, c, At(Len(x.cmds), 1))
  <2>1. x.cmds[o] = "E" /\ o \in 1 .. N
    BY <1>7, <1>8, <1>21
  <2>2. x.cmds[N] = "S"
    BY <2>1, <1>6, OrderFacts
  <2>3. o1 \in 1 .. N
    BY <2>1, <2>2, <1>7, <1>15
  <2> QED BY <2>2, <2>3, <1>6, <1>16, <1>18, <1>19 DEF ServedIgnoring
<1> QED BY <1>5, <1>11, <1>12, <1>20, <1>21

-----------------------------------------------------------------------------
(* The session answers a request of an instruction.                        *)

\* What is owed is a list.
LEMMA OwedList ==
  ASSUME NEW x, Runs(x), x.state \in {"Sending", "Receiving"}, NEW o, NEW coming,
         x.state = "Receiving" /\ coming => o \in 1 .. Len(x.cmds)
  PROVE  IsList(Owed(x, o, coming))
<1>1. InOrder(x.cmds) /\ IsList(x.messages) /\ IsList(<<>>)
  BY ListFacts DEF Runs, IsList, ToSet
<1>2. \A l \in 1 .. Len(x.cmds) : IsList(EndOf(x, l))
  <2>1. TAKE l \in 1 .. Len(x.cmds)
  <2>2. PICK e : e = EndOf(x, l)
    OBVIOUS
  <2>3. e = Ending(x, "fail", l)
    BY <2>2, EndsWith
  <2>4. IsEnding(e, x, "fail", l)
    BY <2>3, <1>1, EndingIs
  <2> QED BY <2>2, <2>4 DEF IsEnding
<1>3. CASE x.state = "Receiving"
  BY <1>1, <1>2, <1>3 DEF Owed
<1>4. CASE x.state = "Sending" /\ Closes(x)
  BY <1>1, <1>4 DEF Owed
<1>5. CASE x.state = "Sending" /\ ~Closes(x)
  <2>1. PICK e : e = EndOf(x, x.last.to.off)
    OBVIOUS
  <2>2. x.last.to.off \in 1 .. Len(x.cmds)
    BY DEF Runs, Places
  <2>3. IsList(e)
    BY <2>1, <2>2, <1>2
  <2>4. IsList(x.messages \o e)
    BY <2>3, <1>1, Joined
  <2> QED BY <2>1, <2>4, <1>5 DEF Owed
<1> QED BY <1>3, <1>4, <1>5

\* Taking the next message off what is on its way and owed.
LEMMA BeheadPipe ==
  ASSUME NEW out, IsList(out), out # <<>>, NEW ow, IsList(ow)
  PROVE  /\ Behead(out \o ow, Tail(out) \o ow) /\ (out \o ow)[1] = Head(out) /\ IsList(Tail(out))
         /\ Len(Tail(out)) = Len(out) - 1 /\ \A i \in 1 .. Len(Tail(out)) : i + 1 \in 1 .. Len(out) /\ Tail(out)[i] = out[i + 1]
<1>1. PICK lo : lo = Len(out)
  OBVIOUS
<1>2. PICK lw : lw = Len(ow)
  OBVIOUS
<1>3. PICK t : t = Tail(out)
  OBVIOUS
<1>4. /\ lo \in Nat \ {0} /\ lw \in Nat /\ Head(out) = out[1] /\ IsList(t) /\ Len(t) = lo - 1
      /\ \A i \in 1 .. lo - 1 : t[i] = out[i + 1]
  BY <1>1, <1>2, <1>3, ListFacts
<1>5. PICK a : a = out \o ow
  OBVIOUS
<1>6. PICK b : b = t \o ow
  OBVIOUS
<1>7. IsList(a) /\ Len(a) = lo + lw /\ (\A i \in 1 .. lo : a[i] = out[i]) /\ \A i \in 1 .. lw : a[lo + i] = ow[i]
  BY <1>1, <1>2, <1>5, Joined
<1>8. /\ IsList(b) /\ Len(b) = (lo - 1) + lw /\ (\A i \in 1 .. lo - 1 : b[i] = t[i])
      /\ \A i \in 1 .. lw : b[(lo - 1) + i] = ow[i]
  <2>1. IsList(t)
    BY <1>4
  <2>2. /\ IsList(b) /\ Len(b) = Len(t) + lw /\ (\A i \in 1 .. Len(t) : b[i] = t[i])
        /\ \A i \in 1 .. lw : b[Len(t) + i] = ow[i]
    BY <2>1, <1>2, <1>6, Joined
  <2> QED BY <2>2, <1>4
<1>9. Len(a) # 0 /\ Len(b) = Len(a) - 1 /\ a[1] = out[1]
  <2>1. lo + lw # 0 /\ (lo - 1) + lw = (lo + lw) - 1 /\ 1 \in 1 .. lo
    BY <1>4
  <2> QED BY <2>1, <1>7, <1>8
<1>10. ASSUME NEW i \in 1 .. Len(b) PROVE b[i] = a[i + 1]
  <2>1. CASE i <= lo - 1
    <3>1. i \in 1 .. lo - 1 /\ i + 1 \in 1 .. lo
      BY <2>1, <1>4
    <3> QED BY <3>1, <1>4, <1>7, <1>8
  <2>2. CASE ~(i <= lo - 1)
    <3>1. PICK j : j = i - (lo - 1)
      OBVIOUS
    <3>2. j \in 1 .. lw /\ (lo - 1) + j = i /\ lo + j = i + 1
      BY <2>2, <3>1, <1>4, <1>8
    <3> QED BY <3>2, <1>7, <1>8
  <2> QED BY <2>1, <2>2
<1>11. \A i \in 1 .. lo - 1 : i + 1 \in 1 .. lo
  BY <1>4
<1>12. Behead(a, b)
  BY <1>7, <1>8, <1>9, <1>10 DEF Behead
<1> QED BY <1>1, <1>3, <1>4, <1>5, <1>6, <1>9, <1>11, <1>12

\* The pipe of a session that has something to read.
Piped(x, w, srv, in, out, ow) ==
  /\ ow = Owed(x, w[Len(in)].off, Coming(in)) /\ IsList(ow)
  /\ Served(x, out \o ow, w[Len(in)], srv) /\ Waits(x, srv, in, out)
  /\ Behead(out \o ow, Tail(out) \o ow) /\ (out \o ow)[1] = Head(out) /\ IsList(Tail(out))

\* What a running instruction has on its way and owes.
LEMMA PipeIs ==
  ASSUME NEW x, Runs(x), x.state \in {"Sending", "Receiving"}, NEW w, NEW srv, NEW in, NEW out, OnWay(x, w, srv, in, out),
         srv.open, IsList(out), out # <<>>
  PROVE  \E ow : Piped(x, w, srv, in, out, ow)
<1>1. PICK p : p = w[Len(in)]
  OBVIOUS
<1>2. PICK ow : ow = Owed(x, p.off, Coming(in))
  OBVIOUS
<1>3. Served(x, out \o ow, p, srv) /\ Waits(x, srv, in, out)
  BY <1>1, <1>2 DEF OnWay
<1>4. ASSUME Coming(in) PROVE p.off \in 1 .. Len(x.cmds)
  <2>1. ServedCopying(x, out \o ow, p, srv.simple)
    BY <1>3, <1>4 DEF Served, Waits
  <2> QED BY <2>1 DEF ServedCopying
<1>5. IsList(ow)
  BY <1>2, <1>4, OwedList
<1>6. Behead(out \o ow, Tail(out) \o ow) /\ (out \o ow)[1] = Head(out) /\ IsList(Tail(out))
  BY <1>5, BeheadPipe
<1> QED BY <1>1, <1>2, <1>3, <1>5, <1>6 DEF Piped

\* A request that changes nothing is taken off the pipe.
LEMMA Dropped ==
  ASSUME NEW x, NEW w, NEW srv, NEW in, NEW out, NEW ow, Piped(x, w, srv, in, out, ow), OnWay(x, w, srv, in, out),
         Served(x, Tail(out) \o ow, w[Len(in)], srv), IsList(out), out # <<>>
  PROVE  OnWay(x, w, srv, in, Tail(out))
<1>1. PICK t : t = Tail(out)
  OBVIOUS
<1>2. \A i \in 1 .. Len(t) : i + 1 \in 1 .. Len(out) /\ t[i] = out[i + 1]
  BY <1>1, BeheadPipe DEF Piped
<1>3. Waits(x, srv, in, t)
  <2>1. (\A i \in 1 .. Len(out) : out[i].k \in {"L", "S"}) => \A i \in 1 .. Len(t) : t[i].k \in {"L", "S"}
    BY <1>2
  <2> QED BY <2>1 DEF Waits, Piped
<1>4. Way(x, w, in)
  BY DEF OnWay
<1>5. Served(x, t \o Owed(x, w[Len(in)].off, Coming(in)), w[Len(in)], srv)
  BY <1>1 DEF Piped
<1> QED BY <1>1, <1>3, <1>4, <1>5 DEF OnWay

\* Nothing that has been answered is sent again: the session reads a command only when all of them
\* have been sent.
LEMMA AllSent ==
  ASSUME NEW x, Runs(x), x.state = "Sending", NEW out, IsList(out), out # <<>>, NEW at, NEW coming,
         NEW j \in 1 .. Len(x.cmds) + 1, Rest(x, out \o Owed(x, at, coming), j, 0)
  PROVE  FALSE
<1>1. PICK N : N = Len(x.cmds)
  OBVIOUS
<1>2. InOrder(x.cmds) /\ N \in Nat /\ IsList(x.messages) /\ Len(out) \in Nat /\ Len(out) # 0
  BY <1>1, ListFacts, OrderFacts DEF Runs
<1>3. CASE Begins(x)
  <2>1. PICK ms : ms = x.messages
    OBVIOUS
  <2>2. Owed(x, at, coming) = ms
    BY <2>1, <1>3 DEF Owed, Closes, Begins
  <2>3. Rest(x, ms, 1, 0)
    BY <2>1, <1>3 DEF Begins
  <2>4. Len(ms) - 0 = N + 1 - 1 /\ Len(ms) \in Nat
    BY <2>1, <2>3, <1>1, <1>2, ListFacts DEF Rest
  <2>5. PICK pipe : pipe = out \o ms
    OBVIOUS
  <2>6. Len(pipe) = Len(out) + Len(ms)
    BY <2>1, <2>5, <1>2, Joined
  <2>7. Len(pipe) - 0 = N + 1 - j
    BY <2>2, <2>5, <1>1 DEF Rest
  <2>8. PICK lp : lp = Len(pipe)
    OBVIOUS
  <2>9. PICK lm : lm = Len(ms)
    OBVIOUS
  <2>10. PICK lo : lo = Len(out)
    OBVIOUS
  <2>11. PICK M : M = N
    OBVIOUS
  <2>12. M \in Nat /\ lm \in Nat /\ lo \in Nat \ {0} /\ j \in 1 .. M + 1
    BY <2>4, <2>9, <2>10, <2>11, <1>1, <1>2
  <2>13. lp = lo + lm /\ lm = M /\ lp - 0 = M + 1 - j
    BY <2>4, <2>6, <2>7, <2>8, <2>9, <2>10, <2>11, <1>2
  <2> QED BY <2>12, <2>13
<1>4. CASE Supplies(x)
  <2>1. PICK o : o = x.last.to.off
    OBVIOUS
  <2>2. o \in 1 .. Len(x.cmds)
    BY <2>1 DEF Runs, Places
  <2>3. PICK pipe : pipe = out \o Owed(x, at, coming)
    OBVIOUS
  <2>4. PICK e \in Nat : Closing(x, out, e, pipe, o)
    BY <2>1, <2>3, <1>4, SupplyClosing
  <2>5. 0 \in 0 .. Len(pipe)
    <3>1. IsList(pipe)
      BY <2>4 DEF Closing
    <3> QED BY <3>1, ListFacts
  <2>6. Rest(x, pipe, j, 0)
    BY <2>3
  <2>7. 0 >= Len(out) + e + 1
    BY <2>2, <2>4, <2>5, <2>6, <1>2, RestEnds
  <2> QED BY <2>7, <1>2
<1> QED BY <1>3, <1>4 DEF Runs

\* The session copies: it reads what was sent past the message that started the COPY, then what
\* ends it and is still owed.
LEMMA CopyBegins ==
  ASSUME NEW x, InOrder(x.cmds), NEW o \in 1 .. Len(x.cmds), NEW out, IsList(out),
         \A i \in 1 .. Len(out) : out[i].k \in {"L", "S"}, NEW simple \in BOOLEAN,
         x.cmds[o] = IF simple THEN "Q" ELSE "E"
  PROVE  ServedCopying(x, out \o EndOf(x, o), At(o, IF simple THEN 2 ELSE 4), simple)
<1>1. PICK e : e = EndOf(x, o)
  OBVIOUS
<1>2. e = Ending(x, "fail", o)
  BY <1>1, EndsWith
<1>3. PICK a : a = out \o e
  OBVIOUS
<1>4. Closing(x, out, 0, a, o)
  BY <1>2, <1>3, EndClosing
<1>5. PICK b : b = Len(out)
  OBVIOUS
<1>6. PICK n : n = b + 1
  OBVIOUS
<1>7. PICK N : N = Len(x.cmds)
  OBVIOUS
<1>8. PICK la : la = Len(a)
  OBVIOUS
<1>9. b \in Nat /\ N \in Nat /\ o \in 1 .. N
  BY <1>5, <1>7, ListFacts, OrderFacts
<1>10. la = b + 0 + 1 + N - o
  BY <1>4, <1>5, <1>7, <1>8 DEF Closing
<1>11. la = n + (N - o) /\ n = b + 1 /\ la \in Nat /\ n \in 0 .. la /\ b \in 0 .. la
  BY <1>6, <1>9, <1>10
<1>12. PICK p : p = At(o, IF simple THEN 2 ELSE 4)
  OBVIOUS
<1>13. p.off = o
  BY <1>12 DEF At
<1>14. \A i \in 1 .. b : a[i].k \in {"L", "S"}
  BY <1>4, <1>5 DEF Closing
<1>15. a[n].k \in {"done", "fail"} /\ a[n].id = x.id /\ a[n].at = o
  <2>1. b + 0 + 1 = n
    BY <1>6, <1>9
  <2> QED BY <2>1, <1>4, <1>5 DEF Closing
<1>16. Rest(x, a, o + 1, n)
  <2>1. PICK o1 : o1 = o + 1
    OBVIOUS
  <2>2. PICK M : M = N
    OBVIOUS
  <2>3. la - n = M + 1 - o1
    BY <2>1, <2>2, <1>9, <1>11
  <2>4. ASSUME NEW i \in (n + 1) .. la
        PROVE  a[i].k = x.cmds[o1 + i - n - 1] /\ a[i].id = x.id /\ a[i].at = o1 + i - n - 1
    <3>1. i \in (b + 0 + 2) .. la /\ o + i - (b + 0 + 1) = o1 + i - n - 1
      BY <2>1, <1>9, <1>11
    <3>2. a[i].k = x.cmds[o + i - (b + 0 + 1)] /\ a[i].id = x.id /\ a[i].at = o + i - (b + 0 + 1)
      BY <3>1, <1>4, <1>5, <1>8 DEF Closing
    <3> QED BY <3>1, <3>2
  <2> QED BY <2>1, <2>2, <2>3, <2>4, <1>7, <1>8 DEF Rest
<1>17. \A i \in (b + 1) .. (n - 1) : FALSE
  BY <1>9, <1>11
<1>18. Copying(x, a, p, simple, b, n)
  <2>1. b < n /\ o \in 1 .. Len(x.cmds)
    BY <1>9, <1>11
  <2>2. \/ simple /\ x.cmds[o] = "Q" /\ p = At(o, 2)
        \/ ~simple /\ x.cmds[o] = "E" /\ p = At(o, 4)
    <3>1. CASE simple
      BY <3>1, <1>12
    <3>2. CASE ~simple
      BY <3>2, <1>12
    <3> QED BY <3>1, <3>2
  <2> QED BY <2>1, <2>2, <1>13, <1>14, <1>15, <1>16, <1>17 DEF Copying
<1>19. b \in 0 .. Len(a) /\ n \in 0 .. Len(a)
  BY <1>8, <1>11
<1>20. ServedCopying(x, a, p, simple)
  BY <1>18, <1>19, CopyingIs
<1> QED BY <1>1, <1>3, <1>12, <1>20
\* What is on its way to the driver after a reply of the kinds ks.
Followed(in, ks, in2) ==
  /\ IsList(in2) /\ Len(in2) = Len(in) + Len(ks) /\ (\A i \in 1 .. Len(in) : in2[i] = in[i])
  /\ \A i \in 1 .. Len(ks) : in2[Len(in) + i].k = ks[i]

\* An answer joins what is in flight.
LEMMA ReplyIs ==
  ASSUME NEW m, NEW ks, IsList(ks), NEW n, NEW in, IsList(in)
  PROVE  Followed(in, ks, in \o Reply(m, ks, n)) /\ IsList(Reply(m, ks, n))
<1>1. PICK b : b = Reply(m, ks, n)
  OBVIOUS
<1>2. Len(ks) \in Nat
  BY ListFacts
<1> DEFINE M(i) == [k |-> ks[i], id |-> m.id, at |-> m.at,
                    no |-> n + Len(SelectSeq(SubSeq(ks, 1, i), LAMBDA k : k \in {"D", "d"}))]
           R == {M(i) : i \in 1 .. Len(ks)}
<1>3. b = [i \in 1 .. Len(ks) |-> M(i)]
  BY <1>1 DEF Reply
<1>4. \A i \in 1 .. Len(ks) : M(i).k = ks[i]
  OBVIOUS
<1>5. \A i \in 1 .. Len(ks) : M(i) \in R
  OBVIOUS
<1> HIDE DEF M, R
<1>6. b \in Seq(R) /\ Len(b) = Len(ks) /\ \A i \in 1 .. Len(ks) : b[i] = M(i)
  BY <1>2, <1>3, <1>5
<1>7. IsList(b)
  BY <1>6, Listed
<1>8. PICK c : c = in \o b
  OBVIOUS
<1>9. IsList(c) /\ Len(c) = Len(in) + Len(b) /\ (\A i \in 1 .. Len(in) : c[i] = in[i])
      /\ \A i \in 1 .. Len(b) : c[Len(in) + i] = b[i]
  BY <1>7, <1>8, Joined
<1>10. Followed(in, ks, c)
  BY <1>4, <1>6, <1>9 DEF Followed
<1> QED BY <1>1, <1>7, <1>8, <1>10

\* A session that answers has no beginning of a COPY on its way.
LEMMA NoneComing ==
  ASSUME NEW x, NEW srv, NEW in, NEW out, Waits(x, srv, in, out), IsList(out), out # <<>>,
         srv.mode = "copyin" => Head(out).k \notin {"S", "L"}
  PROVE  ~Coming(in)
<1>1. out[1] = Head(out) /\ 1 \in 1 .. Len(out)
  <2>1. Len(out) \in Nat /\ Len(out) # 0 /\ out[1] = Head(out)
    BY ListFacts
  <2> QED BY <2>1
<1> QED BY <1>1 DEF Waits

\* The session answers a request without waiting for data.
LEMMA Replied ==
  ASSUME NEW x, NEW w, NEW srv, NEW in, NEW out, NEW ow, Piped(x, w, srv, in, out, ow), OnWay(x, w, srv, in, out),
         IsList(in), IsList(out), out # <<>>, NEW m, m = Head(out), m.id = x.id,
         srv.mode = "copyin" => m.k \notin {"S", "L"}, NEW ks, NEW q, Part(x, w[Len(in)], ks, m.at, q),
         NEW srv2, Served(x, Tail(out) \o ow, q, srv2), NEW n
  PROVE  \E u : OnWay(x, u, srv2, in \o Reply(m, ks, n), Tail(out))
<1>1. PICK in2 : in2 = in \o Reply(m, ks, n)
  OBVIOUS
<1>2. Way(x, w, in) /\ Steps(x, w[Len(in)], ks, m.at, q) /\ Plain(ks) /\ IsList(ks)
  BY DEF OnWay, Part, Steps
<1>3. Reaches(x, in2, q)
  <2>1. Way(x, w, in)
    BY <1>2
  <2>2. Reaches(x, in \o Reply(m, ks, n), q)
    BY <1>2, <2>1, Longer
  <2> QED BY <1>1, <2>2
<1>4. PICK u : Way(x, u, in2) /\ u[Len(in2)] = q
  BY <1>3 DEF Reaches
<1>5. Followed(in, ks, in2)
  BY <1>1, <1>2, ReplyIs
<1>6. ~Coming(in)
  BY NoneComing DEF Piped
<1>7. ~Coming(in2)
  <2>1. PICK li : li = Len(in)
    OBVIOUS
  <2>2. PICK lk : lk = Len(ks)
    OBVIOUS
  <2>3. li \in Nat /\ lk \in Nat
    BY <2>1, <2>2, <1>2, ListFacts
  <2>4. ASSUME NEW i \in 1 .. Len(in2) PROVE in2[i].k # "G"
    <3>1. CASE i <= li
      <4>1. i \in 1 .. li
        BY <3>1
      <4> QED BY <4>1, <2>1, <1>5, <1>6 DEF Followed, Coming
    <3>2. CASE ~(i <= li)
      <4>1. PICK j : j = i - li
        OBVIOUS
      <4>2. Len(in2) = li + lk
        BY <2>1, <2>2, <1>5 DEF Followed
      <4>3. j \in 1 .. lk /\ li + j = i
        BY <3>2, <4>1, <4>2, <2>3
      <4>4. in2[i].k = ks[j] /\ ks[j] # "G"
        BY <4>3, <2>1, <2>2, <1>2, <1>5 DEF Followed, Plain
      <4> QED BY <4>4
    <3> QED BY <3>1, <3>2
  <2> QED BY <2>4 DEF Coming
<1>8. Owed(x, q.off, Coming(in2)) = ow
  <2>1. ow = Owed(x, w[Len(in)].off, Coming(in))
    BY DEF Piped
  <2> QED BY <2>1, <1>6, <1>7 DEF Owed
<1>9. Served(x, Tail(out) \o Owed(x, u[Len(in2)].off, Coming(in2)), u[Len(in2)], srv2)
  BY <1>4, <1>8
<1>10. Waits(x, srv2, in2, Tail(out))
  BY <1>7 DEF Waits
<1>11. OnWay(x, u, srv2, in2, Tail(out))
  BY <1>4, <1>9, <1>10 DEF OnWay
<1> QED BY <1>1, <1>11

\* The session asks for the data of a COPY.
LEMMA Started ==
  ASSUME NEW x, Runs(x), x.state \in {"Sending", "Receiving"},
         NEW w, NEW srv, NEW in, NEW out, NEW ow, Piped(x, w, srv, in, out, ow), OnWay(x, w, srv, in, out),
         srv.mode = "idle", IsList(in), IsList(out), out # <<>>, NEW m, m = Head(out), NEW o, Reached(x, m, o, w[Len(in)]),
         m.k \in {"Q", "E"}, Rest(x, out \o ow, o, 0), Rest(x, Tail(out) \o ow, o + 1, 0),
         NEW q, q = At(o, IF m.k = "Q" THEN 2 ELSE 4), Steps(x, w[Len(in)], <<"G">>, m.at, q),
         NEW srv2, srv2.mode = "copyin", srv2.simple \in BOOLEAN, srv2.simple <=> m.k = "Q", NEW n
  PROVE  \E u : OnWay(x, u, srv2, in \o Reply(m, <<"G">>, n), Tail(out))
<1>1. PICK in2 : in2 = in \o Reply(m, <<"G">>, n)
  OBVIOUS
<1>2. Way(x, w, in) /\ InOrder(x.cmds) /\ m.id = x.id
  BY DEF OnWay, Runs, Reached
<1>3. Reaches(x, in2, q)
  <2>1. Way(x, w, in)
    BY <1>2
  <2>2. Reaches(x, in \o Reply(m, <<"G">>, n), q)
    BY <1>2, <2>1, Longer
  <2> QED BY <1>1, <2>2
<1>4. PICK u : Way(x, u, in2) /\ u[Len(in2)] = q
  BY <1>3 DEF Reaches
<1>5. PICK ks : ks = <<"G">>
  OBVIOUS
<1>6. IsList(ks) /\ Len(ks) = 1 /\ ks[1] = "G"
  BY <1>5, JoinOne
<1>7. Followed(in, ks, in2)
  BY <1>1, <1>5, <1>6, ReplyIs
<1>8. ~Coming(in)
  <2>1. Waits(x, srv, in, out) /\ srv.mode # "copyin"
    BY DEF Piped
  <2> QED BY <2>1 DEF Waits
<1>9. o \in 1 .. Len(x.cmds) /\ x.cmds[o] = m.k
  BY DEF Reached, Spot
<1>10. PICK N : N = Len(x.cmds)
  OBVIOUS
<1>11. N \in Nat
  BY <1>2, <1>10, OrderFacts
<1>12. x.state = "Receiving"
  <2>1. SUFFICES ASSUME x.state = "Sending" PROVE FALSE
    OBVIOUS
  <2>2. o \in 1 .. Len(x.cmds) + 1
    BY <1>9, <1>10, <1>11
  <2>3. Rest(x, out \o Owed(x, w[Len(in)].off, Coming(in)), o, 0)
    BY DEF Piped
  <2> QED BY <2>1, <2>2, <2>3, AllSent
<1>13. PICK t : t = Tail(out)
  OBVIOUS
<1>14. IsList(t) /\ Tail(out) \o ow = t
  <2>1. ow = <<>>
    BY <1>8, <1>12 DEF Piped, Owed
  <2>2. IsList(t)
    BY <1>13 DEF Piped
  <2> QED BY <2>1, <2>2, <1>13, JoinNone
<1>15. ASSUME NEW i \in 1 .. Len(t) PROVE t[i].k \in {"L", "S"}
  <2>1. Rest(x, t, o + 1, 0)
    BY <1>14
  <2>2. PICK lt : lt = Len(t)
    OBVIOUS
  <2>3. lt \in Nat
    BY <2>2, <1>14, ListFacts
  <2>4. lt - 0 = N + 1 - (o + 1) /\ t[i].k = x.cmds[(o + 1) + i - 0 - 1]
    <3>1. i \in (0 + 1) .. Len(t)
      OBVIOUS
    <3> QED BY <3>1, <2>1, <2>2, <1>10 DEF Rest
  <2>5. PICK M : M = N
    OBVIOUS
  <2>6. M \in Nat /\ o \in 1 .. M /\ i \in 1 .. lt /\ lt - 0 = M + 1 - (o + 1)
    BY <2>2, <2>4, <2>5, <1>9, <1>10, <1>11
  <2>7. o < o + i /\ o + i \in 1 .. M /\ M # 1 /\ (o + 1) + i - 0 - 1 = o + i
    BY <2>3, <2>6
  <2>8. x.cmds[o] = "E"
    <3>1. x.cmds[o] = "Q" => Len(x.cmds) = 1
      BY <1>2, <1>9, OrderFacts
    <3> QED BY <3>1, <2>5, <2>7, <1>9, <1>10
  <2>9. \A e, j \in 1 .. Len(x.cmds) : e < j /\ x.cmds[e] = "E" => x.cmds[j] \in {"L", "S"}
    BY <1>2, OrderFacts
  <2>10. x.cmds[o + i] \in {"L", "S"}
    <3>1. PICK j : j = o + i
      OBVIOUS
    <3>2. o \in 1 .. Len(x.cmds) /\ j \in 1 .. Len(x.cmds) /\ o < j
      BY <3>1, <2>5, <2>7, <1>9, <1>10
    <3> QED BY <3>1, <3>2, <2>8, <2>9
  <2> QED BY <2>4, <2>7, <2>10
<1>16. ServedCopying(x, t \o EndOf(x, o), q, srv2.simple)
  <2>1. x.cmds[o] = IF srv2.simple THEN "Q" ELSE "E"
    BY <1>9
  <2>2. ServedCopying(x, t \o EndOf(x, o), At(o, IF srv2.simple THEN 2 ELSE 4), srv2.simple)
    BY <2>1, <1>2, <1>9, <1>14, <1>15, CopyBegins
  <2>3. q = At(o, IF srv2.simple THEN 2 ELSE 4)
    BY DEF At
  <2> QED BY <2>2, <2>3
<1>17. q.off = o
  BY DEF At
<1>18. PICK g : g = Len(in) + 1
  OBVIOUS
<1>19. Len(in) \in Nat /\ g \in 1 .. Len(in2) /\ Len(in2) = g /\ in2[g].k = "G"
  <2>1. Len(in) \in Nat
    BY ListFacts
  <2>2. Len(in2) = Len(in) + 1
    BY <1>6, <1>7 DEF Followed
  <2>3. 1 \in 1 .. Len(ks) /\ in2[Len(in) + 1].k = "G"
    BY <1>6, <1>7 DEF Followed
  <2> QED BY <2>1, <2>2, <2>3, <1>18
<1>20. Coming(in2)
  BY <1>19 DEF Coming
<1>21. Owed(x, q.off, Coming(in2)) = EndOf(x, o)
  BY <1>12, <1>17, <1>20 DEF Owed
<1>22. Served(x, t \o Owed(x, u[Len(in2)].off, Coming(in2)), u[Len(in2)], srv2)
  BY <1>4, <1>16, <1>21 DEF Served
<1>23. ASSUME NEW l \in 1 .. Len(in2), in2[l].k = "G", NEW j \in (l + 1) .. Len(in2) PROVE in2[j].k = "A"
  <2>1. l \in 1 .. Len(in)
    BY <1>18, <1>19, <1>23
  <2>2. in2[l] = in[l]
    BY <2>1, <1>7 DEF Followed
  <2> QED BY <2>1, <2>2, <1>8, <1>23 DEF Coming
<1>24. Waits(x, srv2, in2, t)
  BY <1>12, <1>15, <1>23 DEF Waits
<1>25. OnWay(x, u, srv2, in2, t)
  BY <1>4, <1>22, <1>24 DEF OnWay
<1> QED BY <1>1, <1>13, <1>25
\* How the session answers m: with messages ks, after which it is in mode.
Sends(srv, m, ks, mode) ==
  \/ /\ srv.mode = "idle" /\ m.k \in DOMAIN Answers
     /\ \E a \in Answers[m.k] :
          \/ Last(a) = "G" /\ ks = a /\ mode = "copyin"
          \/ Last(a) # "G" /\ m.k \in {"Q", "F"} /\ ks = Append(a, "Z") /\ mode = "idle"
          \/ /\ Last(a) # "G" /\ m.k \notin {"Q", "F"} /\ ks = a
             /\ mode = IF Last(a) = "ERROR" THEN "ignore" ELSE "idle"
  \/ srv.mode # "copyin" /\ m.k = "S" /\ ks = <<"Z">> /\ mode = "idle"
  \/ srv.mode = "copyin" /\ m.k = "done" /\ ks = (IF srv.simple THEN <<"C", "Z">> ELSE <<"C">>) /\ mode = "idle"
  \/ /\ srv.mode = "copyin" /\ m.k \notin {"S", "L"}
     /\ ks = (IF srv.simple THEN <<"ERROR", "Z">> ELSE <<"ERROR">>)
     /\ mode = IF srv.simple THEN "idle" ELSE "ignore"

\* The session after its answer.
Becomes(srv, m, srv2, mode) ==
  /\ srv2.open /\ ~srv2.reset /\ srv2.mode = mode /\ srv2.simple \in BOOLEAN
  /\ srv2.simple <=> IF srv.mode = "copyin" THEN srv.simple ELSE m.k \in {"Q", "F"}

\* Where an answer leads that does not start a COPY.
Onwards(x, w, srv2, in, out, ow, m, ks) ==
  m.id = x.id /\ \E q : Part(x, w[Len(in)], ks, m.at, q) /\ Served(x, Tail(out) \o ow, q, srv2)

\* Served, for the modes idle and ignore.
LEMMA ServedIn ==
  ASSUME NEW x, NEW a, NEW q, NEW srv
  PROVE  /\ srv.mode = "idle" /\ ServedIdle(x, a, q) => Served(x, a, q, srv)
         /\ srv.mode = "ignore" /\ ServedIgnoring(x, a, q) => Served(x, a, q, srv)
BY DEF Served

\* A command is answered without data asked for.
LEMMA CommandOnwards ==
  ASSUME NEW x, InOrder(x.cmds), NEW w, NEW srv, NEW in, NEW out, NEW ow, Piped(x, w, srv, in, out, ow),
         srv.mode = "idle", NEW m, m = Head(out), m.k \in DOMAIN Answers, NEW a \in Answers[m.k], Last(a) # "G",
         NEW ks, NEW srv2,
         \/ m.k \in {"Q", "F"} /\ ks = Append(a, "Z") /\ srv2.mode = "idle"
         \/ m.k \notin {"Q", "F"} /\ ks = a /\ srv2.mode = IF Last(a) = "ERROR" THEN "ignore" ELSE "idle"
  PROVE  Onwards(x, w, srv2, in, out, ow, m, ks)
<1>1. PICK p : p = w[Len(in)]
  OBVIOUS
<1>2. PICK pipe : pipe = out \o ow
  OBVIOUS
<1>3. PICK b : b = Tail(out) \o ow
  OBVIOUS
<1>4. Behead(pipe, b) /\ pipe[1] = m /\ Served(x, pipe, p, srv)
  BY <1>1, <1>2, <1>3 DEF Piped
<1>5. PICK o : Reached(x, m, o, p) /\ Rest(x, b, o + 1, 0)
  <2>1. pipe[1].k \in DOMAIN Answers
    BY <1>4
  <2>2. \E j : Reached(x, pipe[1], j, p) /\ Rest(x, pipe, j, 0) /\ Rest(x, b, j + 1, 0)
    BY <2>1, <1>4, TakesCommand
  <2> QED BY <2>2, <1>4
<1>6. Spot(x, m.k, o, 1) /\ p = At(o, 1) /\ m.id = x.id /\ m.at = o /\ IsList(b)
  BY <1>4, <1>5 DEF Reached, Behead
<1>7. ServedIdle(x, b, At(NextCmd(x.cmds, o), 1))
  BY <1>5, <1>6, CommandNext
<1>8. CASE m.k \in {"Q", "F"}
  <2>1. m.k = "Q"
    <3>1. m.k # "F"
      BY <1>6, OrderFacts DEF Spot
    <3> QED BY <3>1, <1>8
  <2>2. GivesSimply(x, o, a)
    BY <2>1, <1>6, AnswerGivesSimply
  <2>3. PICK e : Leg(x, At(o, 1), a, o, At(o, 1), e)
    <3>1. a # <<"G">>
      BY DEF Last
    <3> QED BY <3>1, <2>2 DEF GivesSimply
  <2>4. Leg(x, At(o, 1), Append(a, "Z"), o, At(NextCmd(x.cmds, o), 1), "Z")
    BY <2>1, <2>3, <1>6, ReadyEnds
  <2>5. Part(x, p, ks, m.at, At(NextCmd(x.cmds, o), 1))
    BY <2>4, <1>6, <1>8 DEF Leg
  <2>6. Served(x, b, At(NextCmd(x.cmds, o), 1), srv2)
    BY <1>7, <1>8, ServedIn
  <2> QED BY <2>5, <2>6, <1>1, <1>3, <1>6 DEF Onwards
<1>9. CASE m.k \notin {"Q", "F"}
  <2>1. Gives(x, o, a)
    BY <1>6, <1>9, AnswerGives
  <2>2. a # <<"G">>
    BY DEF Last
  <2>3. CASE Leg(x, At(o, 1), a, o, At(Len(x.cmds), 1), "ERROR")
    <3>1. Part(x, p, ks, m.at, At(Len(x.cmds), 1)) /\ srv2.mode = "ignore"
      BY <2>3, <1>6, <1>9 DEF Leg
    <3>2. m.k \notin {"Q", "S"}
      BY <1>9, AnswersAre
    <3>3. ServedIgnoring(x, b, At(Len(x.cmds), 1))
      BY <3>2, <1>5, <1>6, CommandNext
    <3>4. Served(x, b, At(Len(x.cmds), 1), srv2)
      BY <3>1, <3>3, ServedIn
    <3> QED BY <3>1, <3>4, <1>1, <1>3, <1>6 DEF Onwards
  <2>4. ASSUME NEW e, e \notin {"ERROR", "G"}, Leg(x, At(o, 1), a, o, At(NextCmd(x.cmds, o), 1), e)
        PROVE  Onwards(x, w, srv2, in, out, ow, m, ks)
    <3>1. Part(x, p, ks, m.at, At(NextCmd(x.cmds, o), 1)) /\ srv2.mode = "idle"
      BY <2>4, <1>6, <1>9 DEF Leg
    <3>2. Served(x, b, At(NextCmd(x.cmds, o), 1), srv2)
      BY <3>1, <1>7, ServedIn
    <3> QED BY <3>1, <3>2, <1>1, <1>3, <1>6 DEF Onwards
  <2> QED BY <2>1, <2>2, <2>3, <2>4 DEF Gives
<1> QED BY <1>8, <1>9

\* The answer to Sync.
LEMMA SyncOnwards ==
  ASSUME NEW x, InOrder(x.cmds), NEW w, NEW srv, NEW in, NEW out, NEW ow, Piped(x, w, srv, in, out, ow),
         srv.mode # "copyin", NEW m, m = Head(out), m.k = "S", NEW ks, ks = <<"Z">>, NEW srv2, srv2.mode = "idle"
  PROVE  Onwards(x, w, srv2, in, out, ow, m, ks)
<1>1. PICK p : p = w[Len(in)]
  OBVIOUS
<1>2. PICK pipe : pipe = out \o ow
  OBVIOUS
<1>3. PICK b : b = Tail(out) \o ow
  OBVIOUS
<1>4. Behead(pipe, b) /\ pipe[1] = m /\ Served(x, pipe, p, srv)
  BY <1>1, <1>2, <1>3 DEF Piped
<1>5. PICK o : Reached(x, m, o, p) /\ ServedIdle(x, b, At(NextCmd(x.cmds, o), 1))
  <2>1. pipe[1].k = "S"
    BY <1>4
  <2>2. \E j : Reached(x, pipe[1], j, p) /\ ServedIdle(x, b, At(NextCmd(x.cmds, j), 1))
    BY <2>1, <1>4, TakesSync
  <2> QED BY <2>2, <1>4
<1>6. Spot(x, "S", o, 1) /\ p = At(o, 1) /\ m.id = x.id /\ m.at = o
  BY <1>5 DEF Reached
<1>7. Leg(x, At(o, 1), <<"Z">>, o, At(NextCmd(x.cmds, o), 1), "Z")
  BY <1>6, SyncGives
<1>8. Part(x, p, ks, m.at, At(NextCmd(x.cmds, o), 1))
  BY <1>6, <1>7 DEF Leg
<1>9. Served(x, b, At(NextCmd(x.cmds, o), 1), srv2)
  BY <1>5, ServedIn
<1> QED BY <1>1, <1>3, <1>6, <1>8, <1>9 DEF Onwards

\* The answer to the end of a COPY.
LEMMA EndOnwards ==
  ASSUME NEW x, InOrder(x.cmds), NEW w, NEW srv, NEW in, NEW out, NEW ow, Piped(x, w, srv, in, out, ow),
         srv.mode = "copyin", NEW m, m = Head(out), m.k \notin {"S", "L"}, NEW ks, NEW srv2,
         \/ m.k = "done" /\ ks = (IF srv.simple THEN <<"C", "Z">> ELSE <<"C">>) /\ srv2.mode = "idle"
         \/ /\ ks = (IF srv.simple THEN <<"ERROR", "Z">> ELSE <<"ERROR">>)
            /\ srv2.mode = IF srv.simple THEN "idle" ELSE "ignore"
  PROVE  Onwards(x, w, srv2, in, out, ow, m, ks)
<1>1. PICK p : p = w[Len(in)]
  OBVIOUS
<1>2. PICK pipe : pipe = out \o ow
  OBVIOUS
<1>3. PICK b : b = Tail(out) \o ow
  OBVIOUS
<1>4. Behead(pipe, b) /\ pipe[1] = m /\ ServedCopying(x, pipe, p, srv.simple)
  BY <1>1, <1>2, <1>3 DEF Piped, Served
<1>5. PICK o : o = p.off
  OBVIOUS
<1>6. PICK simple : simple = srv.simple
  OBVIOUS
<1>7. /\ m.id = x.id /\ m.at = o
      /\ Spot(x, IF simple THEN "Q" ELSE "E", o, 1) /\ p = At(o, IF simple THEN 2 ELSE 4)
      /\ m.k = "done" \/ simple => ServedIdle(x, b, At(NextCmd(x.cmds, o), 1))
      /\ ~simple => ServedIgnoring(x, b, At(Len(x.cmds), 1))
  <2>1. pipe[1].k \notin {"S", "L"} /\ ServedCopying(x, pipe, p, simple)
    BY <1>4, <1>6
  <2> QED BY <2>1, <1>4, <1>5, TakesEnd
<1>8. CASE simple
  <2>1. Spot(x, "Q", o, 1) /\ p = At(o, 2)
    BY <1>7, <1>8
  <2>2. /\ Leg(x, p, <<"C", "Z">>, o, At(NextCmd(x.cmds, o), 1), "Z")
        /\ Leg(x, p, <<"ERROR", "Z">>, o, At(NextCmd(x.cmds, o), 1), "Z")
    BY <2>1, CopyGives
  <2>3. srv2.mode = "idle" /\ (ks = <<"C", "Z">> \/ ks = <<"ERROR", "Z">>)
    BY <1>6, <1>8
  <2>4. Part(x, p, ks, m.at, At(NextCmd(x.cmds, o), 1))
    BY <2>2, <2>3, <1>7 DEF Leg
  <2>5. Served(x, b, At(NextCmd(x.cmds, o), 1), srv2)
    BY <2>3, <1>7, <1>8, ServedIn
  <2> QED BY <2>4, <2>5, <1>1, <1>3, <1>7 DEF Onwards
<1>9. CASE ~simple
  <2>1. Spot(x, "E", o, 1) /\ p = At(o, 4)
    BY <1>7, <1>9
  <2>2. /\ Leg(x, p, <<"C">>, o, At(NextCmd(x.cmds, o), 1), "C")
        /\ Leg(x, p, <<"ERROR">>, o, At(Len(x.cmds), 1), "ERROR")
    BY <2>1, CopyGives
  <2>3. CASE m.k = "done" /\ ks = <<"C">> /\ srv2.mode = "idle"
    <3>1. Part(x, p, ks, m.at, At(NextCmd(x.cmds, o), 1))
      BY <2>2, <2>3, <1>7 DEF Leg
    <3>2. Served(x, b, At(NextCmd(x.cmds, o), 1), srv2)
      BY <2>3, <1>7, ServedIn
    <3> QED BY <3>1, <3>2, <1>1, <1>3, <1>7 DEF Onwards
  <2>4. CASE ks = <<"ERROR">> /\ srv2.mode = "ignore"
    <3>1. Part(x, p, ks, m.at, At(Len(x.cmds), 1))
      BY <2>2, <2>4, <1>7 DEF Leg
    <3>2. Served(x, b, At(Len(x.cmds), 1), srv2)
      BY <2>4, <1>7, <1>9, ServedIn
    <3> QED BY <3>1, <3>2, <1>1, <1>3, <1>7 DEF Onwards
  <2> QED BY <2>3, <2>4, <1>6, <1>9
<1> QED BY <1>8, <1>9

\* The way goes on through the answer; an answer that is not the end of the session.
Extended(x, srv, in, out) == \E u : OnWay(x, u, srv, in, out)
NoEnd(ks) == IsList(ks) /\ \A i \in 1 .. Len(ks) : ks[i] # "FATAL"

\* The answer that starts a COPY FROM STDIN.
LEMMA CopyAsked ==
  ASSUME NEW x, Runs(x), x.state \in {"Sending", "Receiving"},
         NEW w, NEW srv, NEW in, NEW out, NEW ow, Piped(x, w, srv, in, out, ow), OnWay(x, w, srv, in, out),
         srv.mode = "idle", IsList(in), IsList(out), out # <<>>, NEW m, m = Head(out), m.k \in DOMAIN Answers,
         NEW ks \in Answers[m.k], Last(ks) = "G", NEW srv2, Becomes(srv, m, srv2, "copyin"), NEW n
  PROVE  Extended(x, srv2, in \o Reply(m, ks, n), Tail(out)) /\ NoEnd(ks)
<1>1. PICK p : p = w[Len(in)]
  OBVIOUS
<1>2. PICK pipe : pipe = out \o ow
  OBVIOUS
<1>3. PICK b : b = Tail(out) \o ow
  OBVIOUS
<1>4. Behead(pipe, b) /\ pipe[1] = m /\ Served(x, pipe, p, srv) /\ InOrder(x.cmds)
  BY <1>1, <1>2, <1>3 DEF Piped, Runs
<1>5. PICK o : Reached(x, m, o, p) /\ Rest(x, pipe, o, 0) /\ Rest(x, b, o + 1, 0)
  <2>1. pipe[1].k \in DOMAIN Answers
    BY <1>4
  <2>2. \E j : Reached(x, pipe[1], j, p) /\ Rest(x, pipe, j, 0) /\ Rest(x, b, j + 1, 0)
    BY <2>1, <1>4, TakesCommand
  <2> QED BY <2>2, <1>4
<1>6. Spot(x, m.k, o, 1) /\ p = At(o, 1) /\ m.id = x.id /\ m.at = o
  BY <1>5 DEF Reached
<1>7. m.k # "F"
  BY <1>6, OrderFacts DEF Spot
<1>8. ks = <<"G">> /\ m.k \in {"Q", "E"} /\ Steps(x, p, ks, m.at, At(o, IF m.k = "Q" THEN 2 ELSE 4))
  <2>1. CASE m.k = "Q"
    <3>1. GivesSimply(x, o, ks)
      BY <2>1, <1>6, AnswerGivesSimply
    <3>2. ks = <<"G">> /\ Steps(x, At(o, 1), ks, o, At(o, 2))
      BY <3>1 DEF GivesSimply, Leg
    <3> QED BY <3>2, <2>1, <1>6
  <2>2. CASE m.k # "Q"
    <3>1. Gives(x, o, ks)
      BY <2>2, <1>6, <1>7, AnswerGives
    <3>2. ks = <<"G">> /\ x.cmds[o] = "E" /\ Steps(x, At(o, 1), ks, o, At(o, 4))
      BY <3>1 DEF Gives, Leg
    <3>3. m.k = "E"
      BY <3>2, <1>6 DEF Spot
    <3> QED BY <3>2, <3>3, <1>6
  <2> QED BY <2>1, <2>2
<1>9. srv2.mode = "copyin" /\ srv2.simple \in BOOLEAN /\ (srv2.simple <=> m.k = "Q")
  BY <1>8 DEF Becomes
<1>10. PICK q : q = At(o, IF m.k = "Q" THEN 2 ELSE 4)
  OBVIOUS
<1>11. \E u : OnWay(x, u, srv2, in \o Reply(m, <<"G">>, n), Tail(out))
  <2>1. /\ Reached(x, m, o, w[Len(in)]) /\ Rest(x, out \o ow, o, 0) /\ Rest(x, Tail(out) \o ow, o + 1, 0)
        /\ Steps(x, w[Len(in)], <<"G">>, m.at, q)
    BY <1>1, <1>2, <1>3, <1>5, <1>8, <1>10
  <2> QED BY <2>1, <1>8, <1>9, <1>10, Started
<1>12. NoEnd(ks)
  <2>1. IsList(<<"G">>) /\ Len(<<"G">>) = 1 /\ <<"G">>[1] = "G"
    BY JoinOne
  <2>2. IsList(ks) /\ Len(ks) = 1 /\ ks[1] = "G"
    BY <2>1, <1>8
  <2> QED BY <2>2 DEF NoEnd
<1> QED BY <1>8, <1>11, <1>12 DEF Extended

\* The way goes on through an answer without a COPY.
LEMMA OnwardsExtend ==
  ASSUME NEW x, NEW w, NEW srv, NEW in, NEW out, NEW ow, Piped(x, w, srv, in, out, ow), OnWay(x, w, srv, in, out),
         IsList(in), IsList(out), out # <<>>, NEW m, m = Head(out),
         srv.mode = "copyin" => m.k \notin {"S", "L"}, NEW ks, NEW srv2, Onwards(x, w, srv2, in, out, ow, m, ks), NEW n
  PROVE  Extended(x, srv2, in \o Reply(m, ks, n), Tail(out)) /\ NoEnd(ks)
<1>1. PICK q : Part(x, w[Len(in)], ks, m.at, q) /\ Served(x, Tail(out) \o ow, q, srv2)
  BY DEF Onwards
<1>2. m.id = x.id
  BY DEF Onwards
<1>3. \E u : OnWay(x, u, srv2, in \o Reply(m, ks, n), Tail(out))
  BY <1>1, <1>2, Replied
<1>4. NoEnd(ks)
  BY <1>1 DEF NoEnd, Part, Plain, Steps
<1> QED BY <1>3, <1>4 DEF Extended

\* While nothing has failed, an instruction that has ended leaves nothing to be answered.
LEMMA Unanswered ==
  ASSUME NEW x, NEW srv, NEW in, NEW out, Settled(x, srv, in, out), srv.open, x = NoXact \/ x.state = "Complete",
         IsList(out), out # <<>>
  PROVE  Ended(x) /\ srv.mode = "idle" /\ Head(out).k \in Junk
<1>1. Ended(x)
  BY DEF Settled, Ended
<1>2. srv.mode = "idle" /\ AllJunk(out)
  BY <1>1 DEF Settled
<1>3. 1 \in 1 .. Len(out) /\ Head(out) = out[1]
  <2>1. Len(out) \in Nat /\ Len(out) # 0 /\ Head(out) = out[1]
    BY ListFacts
  <2> QED BY <2>1
<1> QED BY <1>1, <1>2, <1>3 DEF AllJunk

\* SessionAnswer: an answer keeps the connection sound.
LEMMA Answered ==
  ASSUME NEW x, NEW srv, NEW in, NEW out, NEW rid, NEW op, Sound(x, srv, in, out, rid, op), srv.open,
         IsList(in), IsList(out), out # <<>>, NEW m, m = Head(out), NEW ks, NEW mode, Sends(srv, m, ks, mode),
         NEW srv2, Becomes(srv, m, srv2, mode), NEW n
  PROVE  Sound(x, srv2, in \o Reply(m, ks, n), Tail(out), rid, op) /\ IsList(ks)
<1>1. Settled(x, srv, in, out) /\ ~srv.reset
  BY DEF Sound, Settled
<1>2. x # NoXact /\ x.state # "Complete"
  <2>1. SUFFICES ASSUME x = NoXact \/ x.state = "Complete" PROVE FALSE
    OBVIOUS
  <2>2. srv.mode = "idle" /\ m.k \in Junk
    BY <2>1, <1>1, Unanswered
  <2> QED BY <2>2, AnswersAre DEF Sends, Junk
<1>3. Runs(x) /\ x.last.of # rid /\ IsXact(x) /\ x.state \in {"Sending", "Receiving"} /\ InOrder(x.cmds)
  BY <1>1, <1>2 DEF Sound, Settled, IsXact, Runs
<1>4. PICK w : OnWay(x, w, srv, in, out)
  BY <1>1, <1>2 DEF Sound, Useless
<1>5. PICK ow : Piped(x, w, srv, in, out, ow)
  BY <1>3, <1>4, PipeIs
<1>6. PICK in2 : in2 = in \o Reply(m, ks, n)
  OBVIOUS
<1>7. Extended(x, srv2, in2, Tail(out)) /\ NoEnd(ks)
  <2>0. srv2.mode = mode
    BY DEF Becomes
  <2>1. CASE srv.mode = "idle" /\ m.k \in DOMAIN Answers /\ ks \in Answers[m.k] /\ Last(ks) = "G" /\ mode = "copyin"
    BY <2>1, <1>3, <1>4, <1>5, <1>6, CopyAsked
  <2>2. ASSUME srv.mode = "idle", m.k \in DOMAIN Answers, NEW a \in Answers[m.k], Last(a) # "G",
               \/ m.k \in {"Q", "F"} /\ ks = Append(a, "Z") /\ mode = "idle"
               \/ m.k \notin {"Q", "F"} /\ ks = a /\ mode = IF Last(a) = "ERROR" THEN "ignore" ELSE "idle"
        PROVE  Extended(x, srv2, in2, Tail(out)) /\ NoEnd(ks)
    <3>1. Onwards(x, w, srv2, in, out, ow, m, ks)
      BY <2>0, <2>2, <1>3, <1>5, CommandOnwards
    <3> QED BY <3>1, <2>2, <1>4, <1>5, <1>6, OnwardsExtend
  <2>3. CASE srv.mode # "copyin" /\ m.k = "S" /\ ks = <<"Z">> /\ mode = "idle"
    <3>1. Onwards(x, w, srv2, in, out, ow, m, ks)
      BY <2>0, <2>3, <1>3, <1>5, SyncOnwards
    <3> QED BY <3>1, <2>3, <1>4, <1>5, <1>6, OnwardsExtend
  <2>4. CASE /\ srv.mode = "copyin" /\ m.k \notin {"S", "L"}
             /\ \/ m.k = "done" /\ ks = (IF srv.simple THEN <<"C", "Z">> ELSE <<"C">>) /\ mode = "idle"
                \/ /\ ks = (IF srv.simple THEN <<"ERROR", "Z">> ELSE <<"ERROR">>)
                   /\ mode = IF srv.simple THEN "idle" ELSE "ignore"
    <3>1. Onwards(x, w, srv2, in, out, ow, m, ks)
      BY <2>0, <2>4, <1>3, <1>5, EndOnwards
    <3> QED BY <3>1, <2>4, <1>4, <1>5, <1>6, OnwardsExtend
  <2>5. \/ /\ srv.mode = "idle" /\ m.k \in DOMAIN Answers
           /\ \E a \in Answers[m.k] :
                \/ Last(a) = "G" /\ ks = a /\ mode = "copyin"
                \/ Last(a) # "G" /\ m.k \in {"Q", "F"} /\ ks = Append(a, "Z") /\ mode = "idle"
                \/ /\ Last(a) # "G" /\ m.k \notin {"Q", "F"} /\ ks = a
                   /\ mode = IF Last(a) = "ERROR" THEN "ignore" ELSE "idle"
        \/ srv.mode # "copyin" /\ m.k = "S" /\ ks = <<"Z">> /\ mode = "idle"
        \/ srv.mode = "copyin" /\ m.k = "done" /\ ks = (IF srv.simple THEN <<"C", "Z">> ELSE <<"C">>) /\ mode = "idle"
        \/ /\ srv.mode = "copyin" /\ m.k \notin {"S", "L"}
           /\ ks = (IF srv.simple THEN <<"ERROR", "Z">> ELSE <<"ERROR">>)
           /\ mode = IF srv.simple THEN "idle" ELSE "ignore"
    BY DEF Sends
  <2>6. CASE srv.mode = "copyin" /\ m.k = "done" /\ ks = (IF srv.simple THEN <<"C", "Z">> ELSE <<"C">>) /\ mode = "idle"
    BY <2>4, <2>6
  <2>7. CASE /\ srv.mode = "copyin" /\ m.k \notin {"S", "L"}
             /\ ks = (IF srv.simple THEN <<"ERROR", "Z">> ELSE <<"ERROR">>)
             /\ mode = IF srv.simple THEN "idle" ELSE "ignore"
    BY <2>4, <2>7
  <2>8. CASE /\ srv.mode = "idle" /\ m.k \in DOMAIN Answers
             /\ \E a \in Answers[m.k] :
                  \/ Last(a) = "G" /\ ks = a /\ mode = "copyin"
                  \/ Last(a) # "G" /\ m.k \in {"Q", "F"} /\ ks = Append(a, "Z") /\ mode = "idle"
                  \/ /\ Last(a) # "G" /\ m.k \notin {"Q", "F"} /\ ks = a
                     /\ mode = IF Last(a) = "ERROR" THEN "ignore" ELSE "idle"
    <3>1. PICK a \in Answers[m.k] :
             \/ Last(a) = "G" /\ ks = a /\ mode = "copyin"
             \/ Last(a) # "G" /\ m.k \in {"Q", "F"} /\ ks = Append(a, "Z") /\ mode = "idle"
             \/ /\ Last(a) # "G" /\ m.k \notin {"Q", "F"} /\ ks = a
                /\ mode = IF Last(a) = "ERROR" THEN "ignore" ELSE "idle"
      BY <2>8
    <3>2. CASE Last(a) = "G" /\ ks = a /\ mode = "copyin"
      BY <3>2, <2>1, <2>8
    <3>3. CASE Last(a) # "G" /\ m.k \in {"Q", "F"} /\ ks = Append(a, "Z") /\ mode = "idle"
      BY <3>3, <2>2, <2>8
    <3>4. CASE /\ Last(a) # "G" /\ m.k \notin {"Q", "F"} /\ ks = a
               /\ mode = IF Last(a) = "ERROR" THEN "ignore" ELSE "idle"
      BY <3>4, <2>2, <2>8
    <3> QED BY <3>1, <3>2, <3>3, <3>4
  <2> QED BY <2>3, <2>5, <2>6, <2>7, <2>8
<1>8. ASSUME NEW i \in 1 .. Len(in2) PROVE in2[i].k # "FATAL"
  <2>1. IsList(ks) /\ \A j \in 1 .. Len(ks) : ks[j] # "FATAL"
    BY <1>7 DEF NoEnd
  <2>2. Followed(in, ks, in2)
    BY <2>1, <1>6, ReplyIs
  <2>3. Len(in) \in Nat /\ Len(ks) \in Nat /\ Len(in2) = Len(in) + Len(ks)
    BY <2>1, <2>2, ListFacts DEF Followed
  <2>4. CASE i <= Len(in)
    <3>1. i \in 1 .. Len(in)
      BY <2>4
    <3>2. in2[i] = in[i] /\ in[i].k # "FATAL"
      BY <3>1, <2>2, <1>1 DEF Followed, Settled
    <3> QED BY <3>2
  <2>5. CASE ~(i <= Len(in))
    <3>1. PICK j : j = i - Len(in)
      OBVIOUS
    <3>2. j \in 1 .. Len(ks) /\ Len(in) + j = i
      BY <3>1, <2>3, <2>5
    <3>3. in2[i].k = ks[j]
      BY <3>2, <2>2 DEF Followed
    <3> QED BY <3>2, <3>3, <2>1
  <2> QED BY <2>4, <2>5
<1>9. Settled(x, srv2, in2, Tail(out))
  <2>1. ~Ended(x) /\ srv2.open /\ ~srv2.reset
    BY <1>2 DEF Ended, Becomes
  <2>2. x.fatal # "Yes"
    BY <1>1, <1>2 DEF Settled
  <2> QED BY <2>1, <2>2, <1>3, <1>8 DEF Settled
<1>10. \E u : OnWay(x, u, srv2, in2, Tail(out))
  BY <1>7 DEF Extended
<1>11. IsList(ks)
  BY <1>7 DEF NoEnd
<1> QED BY <1>3, <1>6, <1>9, <1>10, <1>11 DEF Sound

-----------------------------------------------------------------------------
(* The session drops a request, sends a notice, and dies.                  *)

\* The session reads a request and says nothing.
Drop(srv, m) ==
  \/ srv.mode # "copyin" /\ m.k # "S" /\ (srv.mode = "ignore" \/ m.k \in Junk \/ m.k = "L")
  \/ srv.mode = "copyin" /\ m.k \in {"S", "L", "data"}

\* The tail of what is on its way.
LEMMA TailIs ==
  ASSUME NEW out, IsList(out), out # <<>>
  PROVE  /\ IsList(Tail(out)) /\ 1 \in 1 .. Len(out) /\ Head(out) = out[1]
         /\ \A i \in 1 .. Len(Tail(out)) : i + 1 \in 1 .. Len(out) /\ Tail(out)[i] = out[i + 1]
<1>1. PICK n : n = Len(out)
  OBVIOUS
<1>2. PICK t : t = Tail(out)
  OBVIOUS
<1>3. /\ n \in Nat /\ n # 0 /\ Head(out) = out[1] /\ IsList(t) /\ Len(t) = n - 1
      /\ \A i \in 1 .. n - 1 : t[i] = out[i + 1]
  BY <1>1, <1>2, ListFacts
<1>4. 1 \in 1 .. n /\ \A i \in 1 .. n - 1 : i + 1 \in 1 .. n
  BY <1>3
<1> QED BY <1>1, <1>2, <1>3, <1>4

\* SessionAnswer: so does dropping a request.
LEMMA Discarded ==
  ASSUME NEW x, NEW srv, NEW in, NEW out, NEW rid, NEW op, Sound(x, srv, in, out, rid, op), srv.open,
         IsList(out), out # <<>>, NEW m, m = Head(out), Drop(srv, m)
  PROVE  Sound(x, srv, in, Tail(out), rid, op)
<1>1. Settled(x, srv, in, out) /\ ~srv.reset
  BY DEF Sound, Settled
<1>2. PICK t : t = Tail(out)
  OBVIOUS
<1>3. IsList(t) /\ \A i \in 1 .. Len(t) : i + 1 \in 1 .. Len(out) /\ t[i] = out[i + 1]
  BY <1>2, TailIs
<1>4. AllJunk(out) => AllJunk(t)
  BY <1>3 DEF AllJunk
<1>5. Settled(x, srv, in, t)
  BY <1>1, <1>4 DEF Settled
<1>6. ASSUME x # NoXact, x.state # "Complete"
      PROVE  Runs(x) /\ x.last.of # rid /\ \E w : OnWay(x, w, srv, in, t)
  <2>1. Runs(x) /\ x.last.of # rid /\ IsXact(x) /\ x.state \in {"Sending", "Receiving"} /\ InOrder(x.cmds)
    BY <1>1, <1>6 DEF Sound, Settled, IsXact, Runs
  <2>2. PICK w : OnWay(x, w, srv, in, out)
    BY <1>1, <1>6 DEF Sound, Useless
  <2>3. PICK ow : Piped(x, w, srv, in, out, ow)
    BY <2>1, <2>2, PipeIs
  <2>4. PICK p : p = w[Len(in)]
    OBVIOUS
  <2>5. PICK a : a = out \o ow
    OBVIOUS
  <2>6. PICK b : b = t \o ow
    OBVIOUS
  <2>7. Behead(a, b) /\ a[1] = m /\ Served(x, a, p, srv)
    BY <2>3, <2>4, <2>5, <2>6, <1>2 DEF Piped
  <2>8. Served(x, b, p, srv)
    <3>1. CASE srv.mode # "copyin"
      BY <2>1, <2>7, <3>1, Drops DEF Drop
    <3>2. CASE srv.mode = "copyin"
      <4>1. a[1].k \in {"S", "L", "data"} /\ ServedCopying(x, a, p, srv.simple)
        BY <2>7, <3>2 DEF Drop, Served
      <4>2. ServedCopying(x, b, p, srv.simple)
        BY <4>1, <2>1, <2>7, CopyDrops
      <4> QED BY <4>2, <3>2 DEF Served
    <3> QED BY <3>1, <3>2
  <2>9. OnWay(x, w, srv, in, Tail(out))
    BY <2>2, <2>3, <2>4, <2>6, <2>8, <1>2, Dropped
  <2> QED BY <2>1, <2>9, <1>2
<1>7. Sound(x, srv, in, t, rid, op)
  BY <1>5, <1>6 DEF Sound
<1> QED BY <1>2, <1>7

\* A message that moves nothing arrives after all the others.
LEMMA WayOn ==
  ASSUME NEW x, NEW w, NEW in, IsList(in), Way(x, w, in), NEW m, m.k \in {"A", "FATAL"}
  PROVE  \E u : Way(x, u, in \o <<m>>) /\ u[Len(in \o <<m>>)] = w[Len(in)]
<1>1. PICK in2 : in2 = in \o <<m>>
  OBVIOUS
<1>2. PICK n : n = Len(in)
  OBVIOUS
<1>3. n \in Nat /\ IsList(in2) /\ Len(in2) = n + 1 /\ (\A i \in 1 .. n : in2[i] = in[i]) /\ in2[n + 1] = m
  <2>1. PICK b : b = <<m>>
    OBVIOUS
  <2>2. IsList(b) /\ Len(b) = 1 /\ b[1] = m
    BY <2>1, JoinOne
  <2>3. /\ IsList(in2) /\ Len(in2) = Len(in) + Len(b) /\ (\A i \in 1 .. Len(in) : in2[i] = in[i])
        /\ \A i \in 1 .. Len(b) : in2[Len(in) + i] = b[i]
    BY <2>1, <2>2, <1>1, Joined
  <2>4. n \in Nat /\ 1 \in 1 .. Len(b)
    BY <2>2, <1>2, ListFacts
  <2> QED BY <2>2, <2>3, <2>4, <1>2
<1>4. PICK u : u = [i \in 0 .. n + 1 |-> IF i = n + 1 THEN w[n] ELSE w[i]]
  OBVIOUS
<1>5. /\ w \in [0 .. n -> Places(x.cmds)] /\ w[0] = x.last.to
      /\ \A i \in 1 .. n : Leads(x, w[i - 1], in[i], w[i])
  BY <1>2 DEF Way
<1>6. u \in [0 .. n + 1 -> Places(x.cmds)]
  <2>1. ASSUME NEW i \in 0 .. n + 1 PROVE u[i] \in Places(x.cmds)
    <3>1. n \in 0 .. n /\ (i # n + 1 => i \in 0 .. n)
      BY <1>3
    <3> QED BY <3>1, <1>4, <1>5
  <2> QED BY <2>1, <1>4
<1>7. u[0] = x.last.to /\ u[n + 1] = w[n]
  <2>1. 0 \in 0 .. n + 1 /\ 0 # n + 1 /\ n + 1 \in 0 .. n + 1
    BY <1>3
  <2> QED BY <2>1, <1>4, <1>5
<1>8. ASSUME NEW i \in 1 .. n + 1 PROVE Leads(x, u[i - 1], in2[i], u[i])
  <2>1. CASE i = n + 1
    <3>1. i - 1 = n /\ n \in 0 .. n + 1 /\ n # n + 1
      BY <2>1, <1>3
    <3>2. u[i - 1] = w[n] /\ u[i] = w[n] /\ in2[i] = m
      BY <3>1, <2>1, <1>3, <1>4, <1>7
    <3> QED BY <3>2 DEF Leads
  <2>2. CASE i # n + 1
    <3>1. i \in 1 .. n /\ i \in 0 .. n + 1 /\ i - 1 \in 0 .. n + 1 /\ i - 1 # n + 1
      BY <2>2, <1>3
    <3>2. u[i] = w[i] /\ u[i - 1] = w[i - 1]
      BY <3>1, <2>2, <1>4
    <3> QED BY <3>1, <3>2, <1>3, <1>5
  <2> QED BY <2>1, <2>2
<1>9. Way(x, u, in2)
  BY <1>3, <1>6, <1>7, <1>8 DEF Way
<1> QED BY <1>1, <1>2, <1>3, <1>7, <1>9
\* in2: the list in and m after it.
Adds(in, in2, m) ==
  /\ IsList(in2) /\ Len(in) \in Nat /\ Len(in2) = Len(in) + 1
  /\ (\A i \in 1 .. Len(in) : in2[i] = in[i]) /\ in2[Len(in) + 1] = m
  /\ \A i \in 1 .. Len(in2) : i \in 1 .. Len(in) \/ i = Len(in) + 1

\* A message joins what is in flight.
LEMMA OneMore ==
  ASSUME NEW in, IsList(in), NEW m
  PROVE  Adds(in, in \o <<m>>, m)
<1>1. PICK in2 : in2 = in \o <<m>>
  OBVIOUS
<1>2. PICK n : n = Len(in)
  OBVIOUS
<1>3. PICK b : b = <<m>>
  OBVIOUS
<1>4. IsList(b) /\ Len(b) = 1 /\ b[1] = m
  BY <1>3, JoinOne
<1>9. IsList(b)
  BY <1>4
<1>5. /\ IsList(in2) /\ Len(in2) = Len(in) + Len(b) /\ (\A i \in 1 .. Len(in) : in2[i] = in[i])
      /\ \A i \in 1 .. Len(b) : in2[Len(in) + i] = b[i]
  <2>1. in2 = in \o b
    BY <1>1, <1>3
  <2> QED BY <2>1, <1>9, Joined
<1>6. n \in Nat /\ 1 \in 1 .. Len(b)
  BY <1>4, <1>2, ListFacts
<1>7. Len(in2) = n + 1 /\ in2[n + 1] = m
  BY <1>2, <1>4, <1>5, <1>6
<1>8. \A i \in 1 .. n + 1 : i \in 1 .. n \/ i = n + 1
  BY <1>6
<1> QED BY <1>1, <1>2, <1>5, <1>6, <1>7, <1>8 DEF Adds

\* A notice arrives.
LEMMA Noticed ==
  ASSUME NEW x, NEW srv, NEW in, NEW out, NEW rid, NEW op, Sound(x, srv, in, out, rid, op), srv.open,
         IsList(in), NEW m, m.k = "A"
  PROVE  Sound(x, srv, in \o <<m>>, out, rid, op)
<1>1. Settled(x, srv, in, out) /\ ~srv.reset
  BY DEF Sound, Settled
<1>2. PICK in2 : in2 = in \o <<m>>
  OBVIOUS
<1>3. PICK n : n = Len(in)
  OBVIOUS
<1>4. /\ IsList(in2) /\ n \in Nat /\ Len(in2) = n + 1 /\ (\A i \in 1 .. n : in2[i] = in[i]) /\ in2[n + 1] = m
      /\ \A i \in 1 .. Len(in2) : i \in 1 .. n \/ i = n + 1
  BY <1>2, <1>3, OneMore, ZenonT(60) DEF Adds
<1>5. Quiet(in) => Quiet(in2)
  BY <1>3, <1>4 DEF Quiet
<1>6. \A i \in 1 .. Len(in2) : in2[i].k # "FATAL"
  BY <1>1, <1>3, <1>4 DEF Settled
<1>7. x # NoXact => x.fatal # "Yes"
  BY <1>1 DEF Settled
<1>8. Settled(x, srv, in2, out)
  BY <1>1, <1>5, <1>6, <1>7 DEF Settled
<1>9. Coming(in2) <=> Coming(in)
  <2>1. n + 1 \in 1 .. Len(in2) /\ \A i \in 1 .. n : i \in 1 .. Len(in2)
    BY <1>4
  <2> QED BY <2>1, <1>3, <1>4 DEF Coming
<1>10. ASSUME x # NoXact, x.state # "Complete"
       PROVE  Runs(x) /\ x.last.of # rid /\ \E u : OnWay(x, u, srv, in2, out)
  <2>1. Runs(x) /\ x.last.of # rid
    BY <1>10 DEF Sound
  <2>2. PICK w : OnWay(x, w, srv, in, out)
    BY <1>1, <1>10 DEF Sound, Useless
  <2>3. Way(x, w, in)
    BY <2>2 DEF OnWay
  <2>4. PICK u : Way(x, u, in2) /\ u[Len(in2)] = w[Len(in)]
    BY <2>3, <1>2, WayOn
  <2>5. Served(x, out \o Owed(x, w[Len(in)].off, Coming(in)), w[Len(in)], srv) /\ Waits(x, srv, in, out)
    BY <2>2 DEF OnWay
  <2>6. Served(x, out \o Owed(x, u[Len(in2)].off, Coming(in2)), u[Len(in2)], srv)
    BY <2>4, <2>5, <1>9 DEF Owed
  <2>7. ASSUME Coming(in2), NEW l \in 1 .. Len(in2), in2[l].k = "G", NEW j \in (l + 1) .. Len(in2)
        PROVE  in2[j].k = "A"
    <3>1. l \in 1 .. n /\ in[l].k = "G"
      BY <2>7, <1>4
    <3>2. CASE j = n + 1
      BY <3>2, <1>4
    <3>3. CASE j # n + 1
      <4>1. j \in (l + 1) .. n /\ j \in 1 .. n
        BY <3>1, <3>3, <2>7, <1>4
      <4>2. in[j].k = "A"
        BY <4>1, <3>1, <2>5, <2>7, <1>3, <1>9 DEF Waits
      <4> QED BY <4>1, <4>2, <1>4
    <3> QED BY <3>2, <3>3
  <2>8. Waits(x, srv, in2, out)
    BY <2>5, <2>7, <1>9 DEF Waits
  <2>9. OnWay(x, u, srv, in2, out)
    BY <2>4, <2>6, <2>8 DEF OnWay
  <2> QED BY <2>1, <2>9
<1> QED BY <1>2, <1>8, <1>10 DEF Sound

\* The session is gone: nothing more is read, and its last message may be on its way.
LEMMA Gone ==
  ASSUME NEW x, NEW srv, NEW in, NEW out, NEW rid, NEW op, Sound(x, srv, in, out, rid, op), srv.open,
         IsList(in), NEW srv2, ~srv2.open, NEW m, m.k = "FATAL", NEW in2, in2 = in \/ in2 = in \o <<m>>
  PROVE  Sound(x, srv2, in2, <<>>, rid, op)
<1>1. Settled(x, srv, in, out) /\ ~srv.reset
  BY DEF Sound, Settled
<1>2. x # NoXact => IsXact(x) /\ x.fatal # "Yes"
  BY <1>1 DEF Settled
<1>3. PICK n : n = Len(in)
  OBVIOUS
<1>4. n \in Nat
  BY <1>3, ListFacts
<1>5. ASSUME x # NoXact, x.state # "Complete" PROVE Runs(x) /\ x.last.of # rid /\ \E w : OnWay(x, w, srv, in, out)
  BY <1>1, <1>5 DEF Sound, Useless
<1>6. CASE in2 = in
  <2>1. Ended(x) => Quiet(in2)
    BY <1>1, <1>6 DEF Settled
  <2>2. \A i \in 1 .. Len(in2) : in2[i].k # "FATAL"
    BY <1>1, <1>6 DEF Settled
  <2>3. Settled(x, srv2, in2, <<>>)
    BY <2>1, <2>2, <1>2 DEF Settled
  <2>4. ASSUME x # NoXact, x.state # "Complete" PROVE Runs(x) /\ x.last.of # rid /\ \E w : OnWay(x, w, srv2, in2, <<>>)
    BY <2>4, <1>5, <1>6 DEF OnWay
  <2> QED BY <2>3, <2>4 DEF Sound
<1>7. CASE in2 = in \o <<m>>
  <2>1. /\ IsList(in2) /\ Len(in2) = n + 1 /\ (\A i \in 1 .. n : in2[i] = in[i]) /\ in2[n + 1] = m
        /\ \A i \in 1 .. Len(in2) : i \in 1 .. n \/ i = n + 1
    <3>1. Adds(in, in2, m)
      BY <1>7, OneMore
    <3> QED BY <3>1, <1>3 DEF Adds
  <2>2. Ended(x) => Quiet(in2)
    BY <2>1, <1>1, <1>3 DEF Settled, Quiet
  <2>3. \A i \in 1 .. Len(in2) : in2[i].k = "FATAL" => i = Len(in2)
    BY <2>1, <1>1, <1>3 DEF Settled
  <2>4. Settled(x, srv2, in2, <<>>)
    BY <2>2, <2>3, <1>2 DEF Settled
  <2>5. ASSUME x # NoXact, x.state # "Complete" PROVE Runs(x) /\ x.last.of # rid /\ \E w : OnWay(x, w, srv2, in2, <<>>)
    <3>1. PICK w : OnWay(x, w, srv, in, out)
      BY <2>5, <1>5
    <3>2. Way(x, w, in)
      BY <3>1 DEF OnWay
    <3>3. PICK u : Way(x, u, in2)
      BY <3>2, <1>7, WayOn
    <3>4. OnWay(x, u, srv2, in2, <<>>)
      BY <3>3 DEF OnWay
    <3> QED BY <3>4, <2>5, <1>5
  <2> QED BY <2>4, <2>5 DEF Sound
<1> QED BY <1>6, <1>7

-----------------------------------------------------------------------------
(* The invariant of the specification, and each action.                    *)

\* The session and the log, field by field.
Server(open, reset, mode, simple, id, rows, closed) ==
  [open |-> open, reset |-> reset, mode |-> mode, simple |-> simple, id |-> id, rows |-> rows, closed |-> closed]
Logged(pushed, notices, data, faults, interrupts, trashed, told, stray, broke) ==
  [ pushed |-> pushed, notices |-> notices, data |-> data, faults |-> faults, interrupts |-> interrupts,
    trashed |-> trashed, told |-> told, stray |-> stray, broke |-> broke ]

\* A session, a log and a chunk that have all their fields.
IsServer(s) == s = Server(s.open, s.reset, s.mode, s.simple, s.id, s.rows, s.closed) /\ s.simple \in BOOLEAN
IsLog(l) ==
  l = Logged(l.pushed, l.notices, l.data, l.faults, l.interrupts, l.trashed, l.told, l.stray, l.broke)
IsRead(r) == r = [id |-> r.id, msgs |-> r.msgs] /\ r.id \in {1, 2} /\ IsList(r.msgs)

\* The parts of the inductive invariant: shapes, no fault so far, and Sound of the variables.
WireShape ==
  /\ IsRead(wRead) /\ IsList(wToSrv) /\ IsList(wToCli) /\ IsList(wGarbage)
  /\ IsServer(wSrv)
  /\ wCall.op \in {"push", "trash", "sync"} => New(wCall.next)
WireFaultless == IsLog(wLog) /\ ~wLog.stray /\ ~wLog.broke
WireSound == Sound(wXact, wSrv, InFlight, wToSrv, wRead.id, wCall.op)
WireInv == WireShape /\ WireFaultless /\ WireSound

\* The session with one field replaced.
LEMMA ServerChanges ==
  ASSUME NEW s, IsServer(s), NEW v
  PROVE  /\ [s EXCEPT !.open = v] = Server(v, s.reset, s.mode, s.simple, s.id, s.rows, s.closed)
         /\ [s EXCEPT !.reset = v] = Server(s.open, v, s.mode, s.simple, s.id, s.rows, s.closed)
BY DEF IsServer, Server

\* The log after an exception.
LEMMA LogChanges ==
  ASSUME NEW l, IsLog(l), ~l.stray, ~l.broke, NEW v, NEW u, NEW m, m = [l EXCEPT !.told = v, !.interrupts = u]
  PROVE  IsLog(m) /\ ~m.stray /\ ~m.broke
BY DEF IsLog, Logged

\* Sound, whichever method runs.
Always(x, srv, in, out, rid) == \A op : Sound(x, srv, in, out, rid, op)

\* The end of a step keeps what holds whichever method runs.
LEMMA Stepped ==
  ASSUME NEW x, x # NoXact, NEW srv, NEW in, NEW out, NEW rid, Always(x, srv, in, out, rid), AfterStep(x),
         WireShape
  PROVE  /\ Sound(wXact', srv, in, out, rid, wCall'.op)
         /\ wCall'.op \in {"push", "trash", "sync"} => New(wCall'.next)
<1>1. Sound(x, srv, in, out, rid, "idle") /\ Sound(x, srv, in, out, rid, wCall.op)
  BY DEF Always
<1>2. CASE wCall.op = "step"
  <2>1. wCall'.op = "idle"
    BY <1>2 DEF AfterStep, Idle
  <2>2. CASE x.state = "Complete" /\ x.fatal # "Yes"
    <3>1. Settled(x, srv, in, out) /\ Ended(x) /\ wXact' = NoXact
      BY <1>1, <1>2, <2>2 DEF Sound, Ended, AfterStep
    <3>2. Sound(NoXact, srv, in, out, rid, "idle")
      BY <3>1, NoneLeft
    <3> QED BY <3>1, <3>2, <2>1
  <2>3. CASE ~(x.state = "Complete" /\ x.fatal # "Yes")
    <3>1. wXact' = x
      BY <1>2, <2>3 DEF AfterStep
    <3> QED BY <3>1, <2>1, <1>1
  <2> QED BY <2>2, <2>3
<1>3. CASE wCall.op # "step"
  <2>1. wXact' = x /\ wCall' = wCall
    BY <1>3 DEF AfterStep
  <2> QED BY <2>1, <1>1 DEF WireShape
<1> QED BY <1>2, <1>3

\* What is in flight is a list.
LEMMA InFlightList ==
  ASSUME WireShape
  PROVE  IsList(InFlight) /\ IsList(wRead.msgs) /\ wRead.id \in {1, 2}
<1>1. IsList(wRead.msgs) /\ IsList(wToCli) /\ wRead.id \in {1, 2}
  BY DEF WireShape, IsRead
<1> QED BY <1>1, Joined DEF InFlight

\* Writing the messages.
LEMMA WriteKeeps ==
  ASSUME WireInv, WireWrite
  PROVE  WireInv'
<1> USE DEF WireInv
<1>1. /\ wXact # NoXact /\ wXact.state = "Sending" /\ wSrv.open /\ wToSrv' = wToSrv \o wXact.messages
      /\ AfterStep(Sent(wXact)) /\ UNCHANGED <<wRead, wGarbage, wToCli, wSrv, wLog, wOptimized>>
  BY DEF WireWrite, Running
<1>2. PICK y : y = Sent(wXact)
  OBVIOUS
<1>3. PICK in : in = InFlight
  OBVIOUS
<1>4. Sound(wXact, wSrv, in, wToSrv, wRead.id, wCall.op)
  BY <1>3 DEF WireSound
<1>5. IsList(wToSrv)
  BY DEF WireShape
<1>6. Always(y, wSrv, in, wToSrv', wRead.id) /\ y # NoXact
  BY <1>1, <1>2, <1>4, <1>5, Writing DEF Always
<1>7. AfterStep(y)
  BY <1>1, <1>2
<1>8. /\ Sound(wXact', wSrv, in, wToSrv', wRead.id, wCall'.op)
      /\ wCall'.op \in {"push", "trash", "sync"} => New(wCall'.next)
  BY <1>6, <1>7, Stepped
<1>9. IsList(wToSrv')
  <2>1. Runs(wXact)
    BY <1>1, <1>4 DEF Sound
  <2>2. IsList(wXact.messages)
    BY <2>1 DEF Runs
  <2> QED BY <2>2, <1>1, <1>5, Joined
<1>10. WireShape'
  BY <1>1, <1>8, <1>9 DEF WireShape
<1>11. WireSound'
  BY <1>1, <1>3, <1>8 DEF WireSound, InFlight
<1> QED BY <1>1, <1>10, <1>11 DEF WireFaultless

\* Writing them to a peer that is gone.
LEMMA WriteLostKeeps ==
  ASSUME WireInv, WireWriteLost
  PROVE  WireInv'
<1> USE DEF WireInv
<1>1. /\ wXact # NoXact /\ wXact.state = "Sending" /\ ~wSrv.open
      /\ UNCHANGED <<wRead, wGarbage, wToSrv, wToCli, wOptimized, wLog>>
  BY DEF WireWriteLost, Running
<1>2. PICK failed \in {wSrv.reset, TRUE} :
        LET x == IF ~failed THEN Sent(wXact)
                 ELSE IF wCall.op = "step" THEN Sent(Dead(wXact)) ELSE Dead(wXact)
        IN AfterStep(x) /\ wSrv' = [wSrv EXCEPT !.reset = failed]
  BY DEF WireWriteLost
<1>3. PICK x : x = IF ~failed THEN Sent(wXact)
                    ELSE IF wCall.op = "step" THEN Sent(Dead(wXact)) ELSE Dead(wXact)
  OBVIOUS
<1>4. /\ failed \in {wSrv.reset, TRUE}
      /\ x = (IF ~failed THEN Sent(wXact)
               ELSE IF wCall.op = "step" THEN Sent(Dead(wXact)) ELSE Dead(wXact))
      /\ AfterStep(x) /\ wSrv' = [wSrv EXCEPT !.reset = failed]
  BY <1>2, <1>3
<1>5. PICK in : in = InFlight
  OBVIOUS
<1>6. Sound(wXact, wSrv, in, wToSrv, wRead.id, wCall.op)
  BY <1>5 DEF WireSound
<1>7. IsServer(wSrv)
  BY DEF WireShape
<1>8. wSrv' = Server(wSrv.open, failed, wSrv.mode, wSrv.simple, wSrv.id, wSrv.rows, wSrv.closed)
  BY <1>4, <1>7, ServerChanges
<1>9. IsServer(wSrv') /\ ~wSrv'.open
  BY <1>1, <1>7, <1>8 DEF IsServer, Server
<1>10. Always(x, wSrv', in, wToSrv, wRead.id) /\ x # NoXact
  <2>1. CASE ~failed
    <3>1. failed = wSrv.reset /\ ~wSrv.reset
      BY <2>1, <1>4
    <3>2. wSrv' = wSrv
      BY <3>1, <1>7, <1>8 DEF IsServer
    <3>3. x = Sent(wXact)
      BY <2>1, <1>4
    <3> QED BY <3>1, <3>2, <3>3, <1>1, <1>6, Losing DEF Always
  <2>2. CASE failed
    <3>1. wSrv'.reset
      BY <2>2, <1>8 DEF Server
    <3>2. PICK d : d = Dead(wXact)
      OBVIOUS
    <3>3. PICK s : s = Sent(d)
      OBVIOUS
    <3>4. \A op2 : /\ Sound(Dead(wXact), wSrv', in, wToSrv, wRead.id, op2) /\ Dead(wXact) # NoXact
                   /\ wCall.op # "complete" => /\ Sound(Sent(Dead(wXact)), wSrv', in, wToSrv, wRead.id, op2)
                                               /\ Sent(Dead(wXact)) # NoXact
      BY <3>1, <1>1, <1>6, <1>9, Resetting
    <3>5. \A op2 : /\ Sound(d, wSrv', in, wToSrv, wRead.id, op2) /\ d # NoXact
                   /\ wCall.op # "complete" => Sound(s, wSrv', in, wToSrv, wRead.id, op2) /\ s # NoXact
      BY <3>2, <3>3, <3>4
    <3>6. x = IF wCall.op = "step" THEN s ELSE d
      BY <2>2, <3>2, <3>3, <1>4
    <3> QED BY <3>5, <3>6 DEF Always
  <2> QED BY <2>1, <2>2
<1>11. /\ Sound(wXact', wSrv', in, wToSrv, wRead.id, wCall'.op)
       /\ wCall'.op \in {"push", "trash", "sync"} => New(wCall'.next)
  BY <1>4, <1>10, Stepped
<1>12. WireShape'
  BY <1>1, <1>9, <1>11 DEF WireShape
<1>13. WireSound'
  BY <1>1, <1>5, <1>11 DEF WireSound, InFlight
<1> QED BY <1>1, <1>12, <1>13 DEF WireFaultless

\* Reading the end of the stream.
LEMMA EofKeeps ==
  ASSUME WireInv, WireEof
  PROVE  WireInv'
<1> USE DEF WireInv
<1>1. /\ wXact # NoXact /\ wXact.state = "Receiving" /\ ~wSrv.open /\ wRead.msgs = <<>> /\ wToCli = <<>>
      /\ UNCHANGED <<wRead, wGarbage, wToSrv, wToCli, wSrv, wOptimized, wLog>>
  BY DEF WireEof, Running
<1>2. PICK in : in = InFlight
  OBVIOUS
<1>3. Sound(wXact, wSrv, in, wToSrv, wRead.id, wCall.op)
  BY <1>2 DEF WireSound
<1>4. in = <<>>
  BY <1>1, <1>2 DEF InFlight
<1>5. PICK y : y = [wXact EXCEPT !.fatal = "Yes", !.op = "standard_put"]
  OBVIOUS
<1>6. PICK d : d = Dead(wXact)
  OBVIOUS
<1>7. PICK x : (x = y \/ x = d) /\ AfterStep(x)
  BY <1>5, <1>6, Zenon DEF WireEof
<1>8. Always(x, wSrv, in, wToSrv, wRead.id) /\ x # NoXact
  <2>1. \A op2 : /\ Sound(y, wSrv, in, wToSrv, wRead.id, op2) /\ y # NoXact
                 /\ Sound(Dead(wXact), wSrv, in, wToSrv, wRead.id, op2) /\ Dead(wXact) # NoXact
    BY <1>1, <1>3, <1>4, <1>5, Closed, ZenonT(60)
  <2>2. \A op2 : Sound(d, wSrv, in, wToSrv, wRead.id, op2) /\ d # NoXact
    BY <2>1, <1>6
  <2> QED BY <2>1, <2>2, <1>7 DEF Always
<1>9. /\ Sound(wXact', wSrv, in, wToSrv, wRead.id, wCall'.op)
      /\ wCall'.op \in {"push", "trash", "sync"} => New(wCall'.next)
  BY <1>7, <1>8, Stepped
<1>10. WireShape'
  BY <1>1, <1>9 DEF WireShape
<1>11. WireSound'
  BY <1>1, <1>2, <1>9 DEF WireSound, InFlight
<1> QED BY <1>1, <1>10, <1>11 DEF WireFaultless
\* r: a chunk to be processed, a first part of what is on its way.
ChunkOf(r) ==
  /\ r.id = wRead.id /\ r = [id |-> r.id, msgs |-> r.msgs] /\ IsList(r.msgs) /\ IsList(Taken(r))
  /\ InFlight = r.msgs \o Taken(r)
  /\ Len(r.msgs) \in 1 .. Len(InFlight) /\ \A i \in 1 .. Len(r.msgs) : r.msgs[i] = InFlight[i]

\* A list is its two parts joined.
LEMMA CutTwo ==
  ASSUME NEW a, IsList(a), NEW n \in 0 .. Len(a)
  PROVE  SubSeq(a, 1, n) \o SubSeq(a, n + 1, Len(a)) = a
<1>1. PICK b : b = SubSeq(a, 1, n)
  OBVIOUS
<1>2. PICK c : c = SubSeq(a, n + 1, Len(a))
  OBVIOUS
<1>3. /\ IsList(b) /\ Len(b) = n /\ (\A i \in 1 .. n : b[i] = a[i])
      /\ IsList(c) /\ Len(c) = Len(a) - n /\ \A i \in 1 .. Len(a) - n : c[i] = a[n + i]
  BY <1>1, <1>2, Beginning
<1>4. IsList(b) /\ IsList(c)
  BY <1>3
<1>5. PICK d : d = b \o c
  OBVIOUS
<1>6. /\ IsList(d) /\ Len(d) = Len(b) + Len(c) /\ (\A i \in 1 .. Len(b) : d[i] = b[i])
      /\ \A i \in 1 .. Len(c) : d[Len(b) + i] = c[i]
  BY <1>4, <1>5, Joined
<1>7. PICK la : la = Len(a)
  OBVIOUS
<1>8. la \in Nat /\ n \in 0 .. la
  BY <1>7, ListFacts
<1>9. Len(d) = la
  BY <1>3, <1>6, <1>7, <1>8
<1>10. ASSUME NEW i \in 1 .. la PROVE d[i] = a[i]
  <2>1. CASE i <= n
    <3>1. i \in 1 .. n
      BY <2>1, <1>8
    <3> QED BY <3>1, <1>3, <1>6
  <2>2. CASE ~(i <= n)
    <3>1. PICK j : j = i - n
      OBVIOUS
    <3>2. j \in 1 .. la - n /\ n + j = i
      BY <2>2, <3>1, <1>8
    <3>3. d[n + j] = c[j] /\ c[j] = a[n + j]
      BY <3>2, <1>3, <1>6, <1>7
    <3> QED BY <3>2, <3>3
  <2> QED BY <2>1, <2>2
<1>11. IsList(d)
  BY <1>6
<1>12. d = a
  BY <1>7, <1>9, <1>10, <1>11, SameLists
<1> QED BY <1>1, <1>2, <1>5, <1>12

\* The chunk the receive step works on.
LEMMA ChunkIs ==
  ASSUME WireShape, NEW r \in Chunks
  PROVE  ChunkOf(r)
<1>1. IsList(wRead.msgs) /\ IsList(wToCli) /\ wRead = [id |-> wRead.id, msgs |-> wRead.msgs]
  BY DEF WireShape, IsRead
<1>2. r.id = wRead.id /\ r = [id |-> r.id, msgs |-> r.msgs] /\ IsList(r.msgs) /\ IsList(Taken(r)) /\ InFlight = r.msgs \o Taken(r)
      /\ Len(r.msgs) \in Nat /\ Len(r.msgs) # 0
  <2>1. CASE wRead.msgs # <<>>
    <3>1. r = wRead /\ Taken(r) = wToCli
      BY <2>1 DEF Chunks, Taken
    <3>2. Len(wRead.msgs) \in Nat /\ Len(wRead.msgs) # 0
      BY <2>1, <1>1, ListFacts
    <3> QED BY <3>1, <3>2, <1>1 DEF InFlight
  <2>2. CASE wRead.msgs = <<>>
    <3>1. PICK n \in 1 .. Len(wToCli) : r = [id |-> wRead.id, msgs |-> SubSeq(wToCli, 1, n)]
      BY <2>2 DEF Chunks
    <3>2. n \in 0 .. Len(wToCli) /\ n # 0
      OBVIOUS
    <3>3. /\ IsList(SubSeq(wToCli, 1, n)) /\ Len(SubSeq(wToCli, 1, n)) = n
          /\ IsList(SubSeq(wToCli, n + 1, Len(wToCli)))
          /\ SubSeq(wToCli, 1, n) \o SubSeq(wToCli, n + 1, Len(wToCli)) = wToCli
      BY <3>2, <1>1, Beginning, CutTwo
    <3>4. Taken(r) = SubSeq(wToCli, Len(r.msgs) + 1, Len(wToCli)) /\ InFlight = wToCli
      <4>1. <<>> \o wToCli = wToCli
        BY <1>1, JoinNone
      <4> QED BY <4>1, <2>2 DEF Taken, InFlight
    <3>5. r.id = wRead.id /\ r.msgs = SubSeq(wToCli, 1, n) /\ r = [id |-> r.id, msgs |-> r.msgs]
      BY <3>1
    <3>6. Taken(r) = SubSeq(wToCli, n + 1, Len(wToCli)) /\ Len(r.msgs) = n
      BY <3>3, <3>4, <3>5
    <3>7. n \in Nat
      BY <3>2
    <3> QED BY <3>2, <3>3, <3>4, <3>5, <3>6, <3>7
  <2> QED BY <2>1, <2>2
<1>3. IsList(r.msgs) /\ IsList(Taken(r))
  BY <1>2
<1>4. PICK t : t = Taken(r)
  OBVIOUS
<1>5. PICK ms : ms = r.msgs
  OBVIOUS
<1>6. /\ Len(InFlight) = Len(ms) + Len(t) /\ (\A i \in 1 .. Len(ms) : InFlight[i] = ms[i]) /\ Len(t) \in Nat
  <2>1. IsList(ms) /\ IsList(t) /\ InFlight = ms \o t
    BY <1>2, <1>4, <1>5
  <2> QED BY <2>1, Joined, ListFacts
<1>7. Len(ms) \in 1 .. Len(InFlight)
  <2>1. PICK a : a = Len(ms)
    OBVIOUS
  <2>2. PICK b : b = Len(t)
    OBVIOUS
  <2>3. a \in Nat /\ a # 0 /\ b \in Nat /\ Len(InFlight) = a + b
    BY <2>1, <2>2, <1>2, <1>5, <1>6
  <2> QED BY <2>1, <2>3
<1> QED BY <1>2, <1>5, <1>6, <1>7 DEF ChunkOf

\* What is left in flight after n of its messages.
LEMMA LeftOver ==
  ASSUME NEW r, ChunkOf(r), NEW n \in 1 .. Len(r.msgs), NEW in2, in2 = Unread(r, n) \o Taken(r)
  PROVE  /\ IsList(Unread(r, n)) /\ IsList(Taken(r)) /\ IsList(in2) /\ Len(in2) = Len(InFlight) - n
         /\ \A i \in 1 .. Len(in2) : in2[i] = InFlight[n + i]
<1>1. PICK a : a = r.msgs
  OBVIOUS
<1>2. PICK b : b = Unread(r, n)
  OBVIOUS
<1>3. PICK t : t = Taken(r)
  OBVIOUS
<1>4. PICK in : in = InFlight
  OBVIOUS
<1>5. IsList(a) /\ IsList(t) /\ in = a \o t
  BY <1>1, <1>3, <1>4 DEF ChunkOf
<1>6. PICK la : la = Len(a)
  OBVIOUS
<1>7. PICK lt : lt = Len(t)
  OBVIOUS
<1>8. la \in Nat /\ lt \in Nat /\ n \in 1 .. la /\ n \in 0 .. la
  BY <1>1, <1>5, <1>6, <1>7, ListFacts
<1>9. /\ Len(in) = la + lt /\ (\A i \in 1 .. la : in[i] = a[i]) /\ \A i \in 1 .. lt : in[la + i] = t[i]
  BY <1>5, <1>6, <1>7, Joined
<1>10. IsList(b) /\ Len(b) = la - n /\ \A i \in 1 .. la - n : b[i] = a[n + i]
  BY <1>1, <1>2, <1>5, <1>6, <1>8, Beginning DEF Unread
<1>11. IsList(b) /\ in2 = b \o t
  BY <1>2, <1>3, <1>10
<1>12. /\ IsList(in2) /\ Len(in2) = Len(b) + lt /\ (\A i \in 1 .. Len(b) : in2[i] = b[i])
       /\ \A i \in 1 .. lt : in2[Len(b) + i] = t[i]
  BY <1>5, <1>7, <1>11, Joined
<1>13. Len(in2) = Len(in) - n
  BY <1>8, <1>9, <1>10, <1>12
<1>14. ASSUME NEW i \in 1 .. Len(in2) PROVE in2[i] = in[n + i]
  <2>1. CASE i <= la - n
    <3>1. i \in 1 .. la - n /\ n + i \in 1 .. la
      BY <2>1, <1>8
    <3> QED BY <3>1, <1>9, <1>10, <1>12
  <2>2. CASE ~(i <= la - n)
    <3>1. PICK j : j = i - (la - n)
      OBVIOUS
    <3>2. j \in 1 .. lt /\ (la - n) + j = i /\ la + j = n + i
      BY <2>2, <3>1, <1>8, <1>10, <1>12
    <3> QED BY <3>2, <1>9, <1>10, <1>12, ZenonT(60)
  <2> QED BY <2>1, <2>2
<1> QED BY <1>2, <1>3, <1>4, <1>5, <1>11, <1>12, <1>13, <1>14

\* Receiving, whichever method runs.
LEMMA HandedOn ==
  ASSUME NEW x, NEW srv, NEW in, NEW out, NEW rid, NEW op, NEW r, NEW p, NEW in2, NEW rid2,
         Handed(x, srv, in, out, rid, op, r, p, in2, rid2)
  PROVE  Always(p.x, srv, in2, out, rid2) /\ p.x # NoXact
BY Receiving DEF Always

\* Receiving a chunk.
LEMMA ReceiveKeeps ==
  ASSUME WireInv, WireReceive
  PROVE  WireInv'
<1> USE DEF WireInv
<1>1. wXact # NoXact /\ wXact.state = "Receiving" /\ UNCHANGED <<wGarbage, wToSrv, wSrv, wOptimized>>
  BY DEF WireReceive, Running
<1>2. PICK r, p :
        /\ r \in Chunks /\ p = Put(wXact, r)
        /\ wRead' = [id |-> 3 - r.id, msgs |-> Unread(r, p.a.n)]
        /\ wToCli' = Taken(r) /\ AfterStep(p.x)
        /\ wLog' = [wLog EXCEPT !.told = wLog.told \cup ToSet(p.a.told), !.stray = wLog.stray \/ p.a.stray,
                                !.broke = wLog.broke \/ p.a.broke]
  BY ZenonT(60) DEF WireReceive
<1>3. ChunkOf(r)
  BY <1>2, ChunkIs
<1>4. PICK in : in = InFlight
  OBVIOUS
<1>5. Sound(wXact, wSrv, in, wToSrv, wRead.id, wCall.op) /\ IsList(in) /\ IsList(wToSrv) /\ wRead.id \in {1, 2}
  BY <1>4, InFlightList DEF WireSound, WireShape
<1>6. r.id = wRead.id /\ Len(r.msgs) \in 1 .. Len(in) /\ \A i \in 1 .. Len(r.msgs) : r.msgs[i] = in[i]
  BY <1>3, <1>4 DEF ChunkOf
<1>7. PICK w : OnWay(wXact, w, wSrv, in, wToSrv)
  BY <1>1, <1>5 DEF Sound, Useless
<1>8. Chunked(wXact, w, in, r)
  <2>1. IsXact(wXact) /\ Runs(wXact) /\ wXact.last.of # wRead.id
    BY <1>1, <1>5 DEF Sound, Settled
  <2>2. Way(wXact, w, in)
    BY <1>7 DEF OnWay
  <2> QED BY <2>1, <2>2, <1>1, <1>5, <1>6 DEF Chunked
<1>9. Processed(wXact, w, in, r, p)
  BY <1>2, <1>8, PutOutcome
<1>10. PICK n : n = p.a.n
  OBVIOUS
<1>11. n \in 1 .. Len(r.msgs) /\ ~p.a.stray /\ ~p.a.broke
  BY <1>9, <1>10 DEF Processed
<1>12. PICK in2 : in2 = Unread(r, n) \o Taken(r)
  OBVIOUS
<1>13. /\ IsList(Unread(r, n)) /\ IsList(Taken(r)) /\ IsList(in2) /\ Len(in2) = Len(in) - n
       /\ \A i \in 1 .. Len(in2) : in2[i] = in[n + i]
  BY <1>3, <1>4, <1>11, <1>12, LeftOver, ZenonT(60)
<1>14. PICK rid2 : rid2 = 3 - r.id
  OBVIOUS
<1>15. rid2 \in {1, 2} /\ rid2 # wRead.id
  BY <1>5, <1>6, <1>14
<1>16. Always(p.x, wSrv, in2, wToSrv, rid2) /\ p.x # NoXact
  <2>1. p = Put(wXact, r) /\ r.id = wRead.id
    BY <1>2, <1>6
  <2>2. Handed(wXact, wSrv, in, wToSrv, wRead.id, wCall.op, r, p, in2, rid2)
    BY <2>1, <1>1, <1>5, <1>6, <1>10, <1>13, <1>15 DEF Handed
  <2> QED BY <2>2, HandedOn
<1>17. /\ Sound(wXact', wSrv, in2, wToSrv, rid2, wCall'.op)
       /\ wCall'.op \in {"push", "trash", "sync"} => New(wCall'.next)
  BY <1>2, <1>16, Stepped
<1>18. wRead' = [id |-> rid2, msgs |-> Unread(r, n)] /\ wRead'.id = rid2 /\ wRead'.msgs = Unread(r, n)
  BY <1>2, <1>10, <1>14
<1>19. WireShape'
  <2>1. IsRead(wRead')
    BY <1>13, <1>15, <1>18 DEF IsRead
  <2> QED BY <2>1, <1>1, <1>2, <1>13, <1>17 DEF WireShape
<1>20. WireSound'
  <2>1. InFlight' = in2
    BY <1>2, <1>12, <1>18 DEF InFlight
  <2> QED BY <2>1, <1>1, <1>17, <1>18 DEF WireSound
<1>21. WireFaultless'
  BY <1>2, <1>11 DEF WireFaultless, IsLog, Logged
<1> QED BY <1>19, <1>20, <1>21

\* An exception of the notice hook.
LEMMA InterruptKeeps ==
  ASSUME WireInv, WireInterrupt, InterruptPoints \subseteq {"hook"}
  PROVE  WireInv'
<1> USE DEF WireInv
<1>1. wXact # NoXact /\ wXact.state = "Receiving" /\ UNCHANGED <<wGarbage, wToSrv, wSrv, wOptimized>>
  BY DEF WireInterrupt, Running
<1>2. PICK r \in Chunks, where \in InterruptPoints :
        /\ wRead' = r /\ wToCli' = Taken(r) /\ wCall' = Idle
        /\ \/ /\ where = "hook"
              /\ \E n \in 1..Len(r.msgs) : \E a \in {PutAll(wXact, r, n)} :
                   /\ r.msgs[n].k = "A" /\ a.end = "no" /\ a.n = n
                   /\ a.told # <<>> /\ Last(a.told) = r.msgs[n].no
                   /\ wXact' = [wXact EXCEPT !.fatal = a.fatal, !.op = "standard_put",
                                  !.asyncs = a.kept \cup ToSet(Front(a.told))]
                   /\ wLog' = [wLog EXCEPT !.told = wLog.told \cup ToSet(a.told), !.interrupts = 1]
           \/ where = "return"
  BY DEF WireInterrupt
<1>3. PICK n, a, f, t :
        /\ n \in 1..Len(r.msgs) /\ a = PutAll(wXact, r, n) /\ a.end = "no" /\ a.n = n /\ f = a.fatal
        /\ wXact' = Abandoned(wXact, f, t)
        /\ \E v, u : wLog' = [wLog EXCEPT !.told = v, !.interrupts = u]
  <2>1. where # "return"
    OBVIOUS
  <2>6. PICK n \in 1..Len(r.msgs) : \E a \in {PutAll(wXact, r, n)} :
          /\ a.end = "no" /\ a.n = n
          /\ wXact' = [wXact EXCEPT !.fatal = a.fatal, !.op = "standard_put",
                         !.asyncs = a.kept \cup ToSet(Front(a.told))]
          /\ wLog' = [wLog EXCEPT !.told = wLog.told \cup ToSet(a.told), !.interrupts = 1]
    BY <2>1, <1>2, Zenon
  <2>2. PICK a \in {PutAll(wXact, r, n)} :
          /\ a.end = "no" /\ a.n = n
          /\ wXact' = [wXact EXCEPT !.fatal = a.fatal, !.op = "standard_put",
                         !.asyncs = a.kept \cup ToSet(Front(a.told))]
          /\ wLog' = [wLog EXCEPT !.told = wLog.told \cup ToSet(a.told), !.interrupts = 1]
    BY <2>6, Zenon
  <2>3. wXact' = Abandoned(wXact, a.fatal, a.kept \cup ToSet(Front(a.told)))
    BY <2>2, Zenon DEF Abandoned
  <2>4. \E v, u : wLog' = [wLog EXCEPT !.told = v, !.interrupts = u]
    BY <2>2, Zenon
  <2>5. a = PutAll(wXact, r, n) /\ a.end = "no" /\ a.n = n
    BY <2>2
  <2> QED BY <2>3, <2>4, <2>5, Zenon
<1>4. ChunkOf(r)
  BY <1>2, ChunkIs
<1>5. PICK in : in = InFlight
  OBVIOUS
<1>6. Sound(wXact, wSrv, in, wToSrv, wRead.id, wCall.op) /\ IsList(in) /\ wRead.id \in {1, 2}
  BY <1>5, InFlightList DEF WireSound
<1>7. /\ r.id = wRead.id /\ r = [id |-> r.id, msgs |-> r.msgs] /\ IsList(r.msgs) /\ IsList(Taken(r))
      /\ in = r.msgs \o Taken(r)
      /\ Len(r.msgs) \in 1 .. Len(in) /\ \A i \in 1 .. Len(r.msgs) : r.msgs[i] = in[i]
  BY <1>4, <1>5 DEF ChunkOf
<1>8. PICK y : y = Abandoned(wXact, f, t)
  OBVIOUS
<1>9. Sound(y, wSrv, in, wToSrv, wRead.id, "idle")
  <2>1. n \in 1 .. Len(in) /\ \A i \in 1 .. n : r.msgs[i] = in[i]
    BY <1>3, <1>7
  <2>2. IsList(in) /\ r.id = wRead.id /\ a = PutAll(wXact, r, n) /\ a.end = "no" /\ a.n = n /\ f = a.fatal
    BY <1>3, <1>6, <1>7
  <2> QED BY <2>1, <2>2, <1>1, <1>6, <1>8, Hooked
<1>10. wXact' = y /\ wCall'.op = "idle"
  BY <1>2, <1>3, <1>8 DEF Idle
<1>11. InFlight' = in
  BY <1>2, <1>7 DEF InFlight
<1>12. WireSound'
  BY <1>1, <1>2, <1>7, <1>9, <1>10, <1>11 DEF WireSound
<1>13. IsRead(wRead')
  BY <1>2, <1>6, <1>7 DEF IsRead
<1>14. WireShape'
  BY <1>1, <1>2, <1>7, <1>10, <1>13 DEF WireShape
<1>15. WireFaultless'
  <2>1. PICK v, u : wLog' = [wLog EXCEPT !.told = v, !.interrupts = u]
    BY <1>3
  <2>2. IsLog(wLog) /\ ~wLog.stray /\ ~wLog.broke
    BY DEF WireFaultless
  <2> QED BY <2>1, <2>2, LogChanges DEF WireFaultless
<1> QED BY <1>12, <1>14, <1>15

\* The connection is ready for a new instruction.
Ready(x, srv, in, out, op) ==
  \/ Quiet(in) /\ (srv.open => srv.mode = "idle" /\ AllJunk(out))
  \/ ~srv.open /\ srv.reset /\ op = "complete"

\* It is when the last one is over, or complete() was called.
LEMMA ReadyIs ==
  ASSUME NEW x, NEW srv, NEW in, NEW out, Settled(x, srv, in, out), x = NoXact \/ x.state = "Complete"
  PROVE  Ready(x, srv, in, out, "complete") /\ \A op : Ended(x) => Ready(x, srv, in, out, op)
<1>1. Ended(x) => Quiet(in) /\ (srv.open => srv.mode = "idle" /\ AllJunk(out))
  BY DEF Settled
<1>2. CASE Ended(x)
  BY <1>1, <1>2 DEF Ready
<1>3. CASE ~Ended(x)
  <2>1. ~srv.open /\ (srv.reset \/ in = <<>>)
    BY <1>3 DEF Settled, Ended
  <2>2. in = <<>> => Quiet(in)
    BY DEF Quiet
  <2> QED BY <2>1, <2>2, <1>3 DEF Ready
<1> QED BY <1>2, <1>3

\* Fresh, for a connection that is ready.
LEMMA FreshIs ==
  ASSUME NEW y, NEW srv, NEW in, NEW out, Settled(y, srv, in, out), IsList(in), IsList(out),
         NEW x, New(x), NEW op, Ready(y, srv, in, out, op), NEW rid \in {1, 2}
  PROVE  Sound(x, srv, in, out, rid, op)
<1>1. (srv.reset => ~srv.open) /\ \A i \in 1 .. Len(in) : in[i].k = "FATAL" => ~srv.open /\ i = Len(in)
  BY DEF Settled
<1>2. rid # 0
  OBVIOUS
<1>3. \/ Quiet(in) /\ (srv.open => srv.mode = "idle" /\ AllJunk(out))
      \/ ~srv.open /\ srv.reset /\ op = "complete"
  BY DEF Ready
<1> QED BY <1>1, <1>2, <1>3, Fresh

\* TrashOut makes a new instruction.
LEMMA TrashOutIs ==
  ASSUME NEW id, NEW g, IsList(g), g # <<>>
  PROVE  New(TrashOut(id, g))
<1>1. PICK z : z = Instruction(id, [i \in 1 .. Len(g) |-> "X"] \o <<"S">>)
  OBVIOUS
<1>2. TrashOut(id, g) = Emptying(Instruction(id, [i \in 1 .. Len(g) |-> "X"] \o <<"S">>), g)
  BY Zenon DEF TrashOut, Emptying
<1>3. TrashOut(id, g) = Emptying(z, g)
  BY <1>1, <1>2, Zenon
<1> QED BY <1>1, <1>3, TrashIs

\* The end of complete().
LEMMA CompletedKeeps ==
  ASSUME WireInv, WireCompleted
  PROVE  WireInv'
<1> USE DEF WireInv
<1>1. /\ wCall.op \in Looping /\ (wXact = NoXact \/ wXact.state = "Complete")
      /\ UNCHANGED <<wRead, wToSrv, wToCli, wSrv, wOptimized>>
  BY DEF WireCompleted
<1> DEFINE free == wXact = NoXact \/ wXact.fatal # "Yes"
<1>2. \/ /\ wXact' = (IF free THEN NoXact ELSE wXact) /\ wCall' = Idle /\ UNCHANGED <<wGarbage, wLog>>
      \/ /\ wCall.op = "sync" /\ wXact' = wCall.next /\ wCall' = [op |-> "complete", next |-> NoXact]
         /\ UNCHANGED <<wGarbage, wLog>>
      \/ /\ wCall.op = "push" /\ free /\ wGarbage # <<>> /\ wXact' = TrashOut(wLog.pushed + 1, wGarbage)
         /\ wGarbage' = <<>> /\ wCall' = [wCall EXCEPT !.op = "trash"]
         /\ wLog' = [wLog EXCEPT !.pushed = wLog.pushed + 1]
      \/ /\ wCall.op \in {"push", "trash"} /\ free /\ wXact' = wCall.next /\ wCall' = [op |-> "step", next |-> NoXact]
         /\ UNCHANGED <<wGarbage, wLog>>
  BY DEF WireCompleted, Looping
<1>3. PICK in : in = InFlight
  OBVIOUS
<1>4. /\ Sound(wXact, wSrv, in, wToSrv, wRead.id, wCall.op) /\ IsList(in) /\ wRead.id \in {1, 2} /\ IsList(wToSrv)
      /\ IsList(wGarbage)
  BY <1>3, InFlightList DEF WireSound, WireShape
<1>5. Settled(wXact, wSrv, in, wToSrv)
  BY <1>4 DEF Sound
<1>6. InFlight' = in
  BY <1>1, <1>3 DEF InFlight
<1>7. free => Ended(wXact)
  BY <1>1 DEF Ended
<1>8. Ready(wXact, wSrv, in, wToSrv, "complete") /\ \A op : free => Ready(wXact, wSrv, in, wToSrv, op)
  BY <1>1, <1>5, <1>7, ReadyIs
<1> HIDE DEF free
<1>9. CASE /\ wXact' = (IF free THEN NoXact ELSE wXact) /\ wCall' = Idle /\ UNCHANGED <<wGarbage, wLog>>
  <2>1. wCall'.op = "idle"
    BY <1>9 DEF Idle
  <2>2. Sound(wXact', wSrv, in, wToSrv, wRead.id, "idle")
    <3>1. CASE free
      BY <3>1, <1>5, <1>7, <1>9, NoneLeft
    <3>2. CASE ~free
      <4>1. wXact.state # "Sending"
        BY <3>2, <1>1 DEF free
      <4>2. Sound(wXact, wSrv, in, wToSrv, wRead.id, "idle")
        BY <4>1, <1>4, OtherOp
      <4> QED BY <4>2, <3>2, <1>9
    <3> QED BY <3>1, <3>2
  <2>3. WireShape'
    BY <2>1, <1>1, <1>9 DEF WireShape
  <2> QED BY <2>1, <2>2, <2>3, <1>1, <1>6, <1>9 DEF WireSound, WireFaultless
<1>10. CASE /\ wCall.op = "sync" /\ wXact' = wCall.next /\ wCall' = [op |-> "complete", next |-> NoXact]
            /\ UNCHANGED <<wGarbage, wLog>>
  <2>1. wCall'.op = "complete" /\ New(wCall.next)
    BY <1>10 DEF WireShape
  <2>2. Sound(wXact', wSrv, in, wToSrv, wRead.id, "complete")
    BY <2>1, <1>4, <1>5, <1>8, <1>10, FreshIs
  <2>3. WireShape'
    BY <2>1, <1>1, <1>10 DEF WireShape
  <2> QED BY <2>1, <2>2, <2>3, <1>1, <1>6, <1>10 DEF WireSound, WireFaultless
<1>11. CASE /\ wCall.op = "push" /\ free /\ wGarbage # <<>> /\ wXact' = TrashOut(wLog.pushed + 1, wGarbage)
            /\ wGarbage' = <<>> /\ wCall' = [wCall EXCEPT !.op = "trash"]
            /\ wLog' = [wLog EXCEPT !.pushed = wLog.pushed + 1]
  <2>1. New(wXact')
    BY <1>4, <1>11, TrashOutIs
  <2>2. wCall'.op = "trash" /\ New(wCall'.next)
    BY <1>11 DEF WireShape
  <2>3. Sound(wXact', wSrv, in, wToSrv, wRead.id, "trash")
    BY <2>1, <1>4, <1>5, <1>8, <1>11, FreshIs
  <2>4. IsList(<<>>)
    BY <1>4, JoinNone
  <2>5. WireShape'
    BY <2>2, <2>4, <1>1, <1>11 DEF WireShape
  <2>6. WireFaultless'
    BY <1>11 DEF WireFaultless, IsLog, Logged
  <2> QED BY <2>2, <2>3, <2>5, <2>6, <1>1, <1>6 DEF WireSound
<1>12. CASE /\ wCall.op \in {"push", "trash"} /\ free /\ wXact' = wCall.next /\ wCall' = [op |-> "step", next |-> NoXact]
            /\ UNCHANGED <<wGarbage, wLog>>
  <2>1. wCall'.op = "step" /\ New(wCall.next)
    BY <1>12 DEF WireShape
  <2>2. Sound(wXact', wSrv, in, wToSrv, wRead.id, "step")
    BY <2>1, <1>4, <1>5, <1>8, <1>12, FreshIs
  <2>3. WireShape'
    BY <2>1, <1>1, <1>12 DEF WireShape
  <2> QED BY <2>1, <2>2, <2>3, <1>1, <1>6, <1>12 DEF WireSound, WireFaultless
<1> QED BY <1>2, <1>9, <1>10, <1>11, <1>12

\* A Sync alone is in order.
LEMMA SyncInOrder == InOrder(<<"S">>)
<1>1. PICK s : s = <<"S">>
  OBVIOUS
<1>2. s \in Seq({"P", "B", "D", "X", "E", "L", "S"}) /\ s # <<>> /\ Len(s) = 1 /\ s[1] = "S"
  BY <1>1
<1>3. InOrder(s)
  BY <1>2 DEF InOrder
<1> QED BY <1>1, <1>3

\* Every instruction the driver pushes is in order.
ScriptsInOrder == \A s \in Scripts : InOrder(s)

\* Calling push, synchronize, complete or step.
LEMMA CallKeeps ==
  ASSUME WireInv, WirePush \/ WireSynchronize \/ WireComplete \/ WireStep, ScriptsInOrder
  PROVE  WireInv'
<1> USE DEF WireInv
<1>1. /\ wCall.op = "idle" /\ UNCHANGED <<wXact, wRead, wGarbage, wToSrv, wToCli, wSrv, wOptimized>>
      /\ wLog' = wLog \/ wLog' = [wLog EXCEPT !.pushed = wLog.pushed + 1]
  BY DEF WirePush, WireSynchronize, WireComplete, WireStep, Idle
<1>2. wCall'.op \in {"push", "trash", "sync"} => New(wCall'.next)
  <2>1. CASE WirePush
    <3>1. PICK s \in Scripts : wCall' = [op |-> "push", next |-> Instruction(wLog.pushed + 1, s)]
      BY <2>1 DEF WirePush
    <3>2. New(wCall'.next)
      <4>1. InOrder(s)
        BY DEF ScriptsInOrder
      <4>2. wCall'.next = Instruction(wLog.pushed + 1, s)
        BY <3>1
      <4> QED BY <4>1, <4>2, InstructionIs
    <3> QED BY <3>2
  <2>2. CASE WireSynchronize
    <3>1. PICK s : s = <<"S">>
      OBVIOUS
    <3>2. wCall'.next = Instruction(wLog.pushed + 1, s) /\ InOrder(s)
      BY <2>2, <3>1, SyncInOrder DEF WireSynchronize
    <3>3. New(wCall'.next)
      BY <3>2, InstructionIs
    <3> QED BY <3>3
  <2>3. CASE WireComplete
    BY <2>3 DEF WireComplete
  <2>4. CASE WireStep
    BY <2>4 DEF WireStep
  <2> QED BY <2>1, <2>2, <2>3, <2>4
<1>3. PICK in : in = InFlight
  OBVIOUS
<1>4. Sound(wXact, wSrv, in, wToSrv, wRead.id, wCall.op)
  BY <1>3 DEF WireSound
<1>5. Sound(wXact, wSrv, in, wToSrv, wRead.id, wCall'.op)
  <2>1. wCall.op # "complete"
    BY <1>1
  <2> QED BY <2>1, <1>4, OtherOp
<1>6. WireFaultless'
  BY <1>1 DEF WireFaultless, IsLog, Logged
<1> QED BY <1>1, <1>2, <1>3, <1>5, <1>6 DEF WireShape, WireSound, InFlight

\* Supplying the data of a COPY.
LEMMA SupplyKeeps ==
  ASSUME WireInv, WireSupply
  PROVE  WireInv'
<1> USE DEF WireInv
<1>1. /\ wXact # NoXact /\ wXact.state = "Sending" /\ wXact.op = "sent_from_stdin"
      /\ wCall' = [op |-> "step", next |-> NoXact]
      /\ UNCHANGED <<wRead, wGarbage, wToSrv, wToCli, wSrv, wOptimized>>
      /\ wLog' = wLog \/ wLog' = [wLog EXCEPT !.data = wLog.data + 1]
  BY DEF WireSupply
<1>2. PICK ms : (ms = <<DataOf(wXact)>> \/ ms = CopySequence(wXact, "done"))
                /\ wXact' = [wXact EXCEPT !.messages = ms]
  BY Zenon DEF WireSupply, DataOf
<1>3. PICK in : in = InFlight
  OBVIOUS
<1>4. Sound(wXact, wSrv, in, wToSrv, wRead.id, wCall.op) /\ IsList(wToSrv)
  BY <1>3 DEF WireSound, WireShape
<1>5. PICK y : y = [wXact EXCEPT !.messages = ms]
  OBVIOUS
<1>6. wXact' = y
  BY <1>2, <1>5, Zenon
<1>7. Sound(y, wSrv, in, wToSrv, wRead.id, "step")
  BY <1>1, <1>2, <1>4, <1>5, Supplying
<1>8. WireFaultless'
  BY <1>1 DEF WireFaultless, IsLog, Logged
<1>9. wCall'.op = "step"
  BY <1>1
<1> QED BY <1>1, <1>3, <1>6, <1>7, <1>8, <1>9 DEF WireShape, WireSound, InFlight

\* Dropping a statement or a cursor.
LEMMA TrashKeeps ==
  ASSUME WireInv, WireTrash
  PROVE  WireInv'
<1> USE DEF WireInv
<1>1. PICK n : /\ wGarbage' = Append(wGarbage, n) /\ wLog' = [wLog EXCEPT !.trashed = wLog.trashed \cup {n}]
               /\ UNCHANGED <<wXact, wCall, wRead, wToSrv, wToCli, wSrv, wOptimized>>
  BY DEF WireTrash
<1>2. IsList(wGarbage')
  <2>1. wGarbage \in Seq(ToSet(wGarbage) \cup {n})
    BY DEF WireShape, IsList
  <2>2. Append(wGarbage, n) \in Seq(ToSet(wGarbage) \cup {n})
    BY <2>1
  <2> QED BY <2>2, <1>1, Listed
<1>3. WireFaultless'
  BY <1>1 DEF WireFaultless, IsLog, Logged
<1> QED BY <1>1, <1>2, <1>3 DEF WireShape, WireSound, InFlight

\* A message that joins the second of two lists.
LEMMA FlightGrows ==
  ASSUME NEW a, IsList(a), NEW b, IsList(b), NEW m
  PROVE  (a \o b) \o <<m>> = a \o (b \o <<m>>)
<1>1. PICK c : c = <<m>>
  OBVIOUS
<1>2. IsList(c)
  BY <1>1, JoinOne
<1>3. (a \o b) \o c = a \o (b \o c)
  BY <1>2, JoinMore
<1> QED BY <1>1, <1>3

\* A notice.
LEMMA NoticeKeeps ==
  ASSUME WireInv, SessionNotice
  PROVE  WireInv'
<1> USE DEF WireInv
<1>1. PICK m : m = [k |-> "A", id |-> 0, at |-> 0, no |-> wLog.notices + 1]
  OBVIOUS
<1>2. /\ wSrv.open /\ wToCli' = Append(wToCli, m) /\ wLog' = [wLog EXCEPT !.notices = wLog.notices + 1]
      /\ UNCHANGED <<wXact, wCall, wRead, wGarbage, wToSrv, wSrv, wOptimized>>
  BY <1>1 DEF SessionNotice
<1>3. IsList(wToCli) /\ IsList(wRead.msgs) /\ IsList(<<m>>)
  BY JoinOne DEF WireShape, IsRead
<1>4. wToCli' = wToCli \o <<m>>
  <2>1. wToCli \in Seq(ToSet(wToCli) \cup {m})
    BY <1>3 DEF IsList
  <2>2. Append(wToCli, m) = wToCli \o <<m>>
    BY <2>1
  <2> QED BY <2>2, <1>2
<1>5. IsList(wToCli')
  <2>1. IsList(wToCli \o <<m>>)
    BY <1>3, Joined
  <2> QED BY <2>1, <1>4
<1>6. PICK in : in = InFlight
  OBVIOUS
<1>7. Sound(wXact, wSrv, in, wToSrv, wRead.id, wCall.op) /\ IsList(in)
  BY <1>6, InFlightList DEF WireSound
<1>8. InFlight' = in \o <<m>>
  <2>1. IsList(wRead.msgs)
    BY <1>3
  <2>3. PICK a : a = wRead.msgs
    OBVIOUS
  <2>4. PICK b : b = wToCli
    OBVIOUS
  <2>5. IsList(a) /\ IsList(b)
    BY <2>1, <2>3, <2>4, <1>3
  <2>6. (a \o b) \o <<m>> = a \o (b \o <<m>>)
    BY <2>5, FlightGrows
  <2>2. (wRead.msgs \o wToCli) \o <<m>> = wRead.msgs \o (wToCli \o <<m>>)
    BY <2>3, <2>4, <2>6
  <2> QED BY <2>2, <1>2, <1>4, <1>6 DEF InFlight
<1>9. Sound(wXact, wSrv, in \o <<m>>, wToSrv, wRead.id, wCall.op)
  <2>1. m.k = "A"
    BY <1>1
  <2> QED BY <2>1, <1>2, <1>7, Noticed
<1>10. WireFaultless'
  BY <1>2 DEF WireFaultless, IsLog, Logged
<1> QED BY <1>2, <1>5, <1>8, <1>9, <1>10 DEF WireShape, WireSound

\* The death of the session.
LEMMA DiesKeeps ==
  ASSUME WireInv, SessionDies
  PROVE  WireInv'
<1> USE DEF WireInv
<1>1. PICK o : o = [id |-> 0, at |-> 0]
  OBVIOUS
<1>2. PICK ks \in {<<>>, <<"FATAL">>} :
        /\ wSrv.open /\ wSrv' = [wSrv EXCEPT !.open = FALSE] /\ wToSrv' = <<>>
        /\ wToCli' = wToCli \o Reply(o, ks, 0)
        /\ wLog' = [wLog EXCEPT !.faults = wLog.faults + 1]
        /\ UNCHANGED <<wXact, wCall, wRead, wGarbage, wOptimized>>
  BY <1>1 DEF SessionDies
<1>3. IsList(wToCli) /\ IsList(wRead.msgs) /\ IsServer(wSrv)
  BY DEF WireShape, IsRead
<1>4. \E m : m.k = "FATAL" /\ (wToCli' = wToCli \/ wToCli' = wToCli \o <<m>>)
  <2>1. PICK c : c = wToCli \o Reply(o, ks, 0)
    OBVIOUS
  <2>2. Len(wToCli) \in Nat
    BY <1>3, ListFacts
  <2>3. CASE ks = <<>>
    <3>1. IsList(ks) /\ Len(ks) = 0
      BY <2>3 DEF IsList, ToSet
    <3>2. Followed(wToCli, ks, c)
      BY <3>1, <2>1, <1>3, ReplyIs
    <3>3. IsList(c) /\ Len(c) = Len(wToCli) /\ \A i \in 1 .. Len(c) : wToCli[i] = c[i]
      BY <3>1, <3>2, <2>2 DEF Followed
    <3>4. wToCli = c
      BY <3>3, <1>3, SameLists
    <3>5. PICK m : m = [k |-> "FATAL"]
      OBVIOUS
    <3> QED BY <3>4, <3>5, <2>1, <1>2
  <2>4. CASE ks = <<"FATAL">>
    <3>1. IsList(ks) /\ Len(ks) = 1 /\ ks[1] = "FATAL"
      BY <2>4, JoinOne
    <3>2. Followed(wToCli, ks, c)
      BY <3>1, <2>1, <1>3, ReplyIs
    <3>3. PICK m : m = c[Len(wToCli) + 1]
      OBVIOUS
    <3>4. IsList(c) /\ Len(c) = Len(wToCli) + 1 /\ (\A i \in 1 .. Len(wToCli) : c[i] = wToCli[i]) /\ m.k = "FATAL"
      <4>1. 1 \in 1 .. Len(ks)
        BY <3>1
      <4> QED BY <4>1, <3>1, <3>2, <3>3 DEF Followed
    <3>5. PICK d : d = wToCli \o <<m>>
      OBVIOUS
    <3>6. Adds(wToCli, d, m)
      BY <3>5, <1>3, OneMore
    <3>7. IsList(d) /\ Len(c) = Len(d) /\ \A i \in 1 .. Len(c) : c[i] = d[i]
      BY <3>3, <3>4, <3>6 DEF Adds
    <3>8. IsList(c)
      BY <3>4
    <3>9. c = d
      BY <3>7, <3>8, SameLists
    <3> QED BY <3>4, <3>5, <3>9, <2>1, <1>2
  <2> QED BY <2>3, <2>4
<1>5. PICK m : m.k = "FATAL" /\ (wToCli' = wToCli \/ wToCli' = wToCli \o <<m>>)
  BY <1>4
<1>6. PICK in : in = InFlight
  OBVIOUS
<1>7. Sound(wXact, wSrv, in, wToSrv, wRead.id, wCall.op) /\ IsList(in)
  BY <1>6, InFlightList DEF WireSound
<1>8. IsList(<<m>>)
  BY JoinOne
<1>9. InFlight' = in \/ InFlight' = in \o <<m>>
  <2>1. IsList(wRead.msgs)
    BY <1>3
  <2>3. PICK a : a = wRead.msgs
    OBVIOUS
  <2>4. PICK b : b = wToCli
    OBVIOUS
  <2>5. IsList(a) /\ IsList(b)
    BY <2>1, <2>3, <2>4, <1>3
  <2>6. (a \o b) \o <<m>> = a \o (b \o <<m>>)
    BY <2>5, FlightGrows
  <2>2. (wRead.msgs \o wToCli) \o <<m>> = wRead.msgs \o (wToCli \o <<m>>)
    BY <2>3, <2>4, <2>6
  <2> QED BY <2>2, <1>2, <1>5, <1>6 DEF InFlight
<1>10. IsList(wToCli')
  <2>1. IsList(wToCli \o <<m>>)
    BY <1>3, <1>8, Joined
  <2> QED BY <2>1, <1>3, <1>5
<1>11. IsServer(wSrv') /\ ~wSrv'.open
  <2>1. wSrv' = Server(FALSE, wSrv.reset, wSrv.mode, wSrv.simple, wSrv.id, wSrv.rows, wSrv.closed)
    BY <1>2, <1>3, ServerChanges
  <2> QED BY <2>1, <1>3 DEF IsServer, Server
<1>12. PICK in2 : in2 = InFlight'
  OBVIOUS
<1>13. Sound(wXact, wSrv', in2, <<>>, wRead.id, wCall.op)
  <2>1. m.k = "FATAL" /\ (in2 = in \/ in2 = in \o <<m>>)
    BY <1>5, <1>9, <1>12
  <2> QED BY <2>1, <1>2, <1>7, <1>11, Gone
<1>14. WireFaultless'
  BY <1>2 DEF WireFaultless, IsLog, Logged
<1>15. IsList(<<>>)
  BY <1>3, JoinNone
<1> QED BY <1>2, <1>10, <1>11, <1>12, <1>13, <1>14, <1>15 DEF WireShape, WireSound

\* What the session does with the next request: drop it, or send an answer.
LEMMA AnswerIs ==
  ASSUME SessionAnswer, ~CopyInTimeouts, NEW m, m = Head(wToSrv)
  PROVE  /\ wSrv.open /\ wToSrv # <<>> /\ wToSrv' = Tail(wToSrv)
         /\ UNCHANGED <<wXact, wCall, wRead, wGarbage, wOptimized, wLog>>
         /\ \/ Drop(wSrv, m) /\ UNCHANGED <<wToCli, wSrv>>
            \/ \E ks, mode : Sends(wSrv, m, ks, mode) /\ Says(m, ks, mode)
<1>1. /\ wSrv.open /\ wToSrv # <<>> /\ wToSrv' = Tail(wToSrv)
      /\ UNCHANGED <<wXact, wCall, wRead, wGarbage, wOptimized, wLog>>
  BY Zenon DEF SessionAnswer
<1>2. \/ /\ wSrv.mode = "idle" /\ m.k \in DOMAIN Answers
         /\ \E ks \in Answers[m.k] :
              \/ Last(ks) = "G" /\ Says(m, ks, "copyin")
              \/ Last(ks) # "G" /\ m.k \in {"Q", "F"} /\ Says(m, Append(ks, "Z"), "idle")
              \/ /\ Last(ks) # "G" /\ m.k \notin {"Q", "F"}
                 /\ Says(m, ks, IF Last(ks) = "ERROR" THEN "ignore" ELSE "idle")
      \/ wSrv.mode # "copyin" /\ m.k = "S" /\ Says(m, <<"Z">>, "idle")
      \/ /\ wSrv.mode # "copyin" /\ m.k # "S"
         /\ wSrv.mode = "ignore" \/ m.k \in Junk \/ m.k = "L"
         /\ UNCHANGED <<wToCli, wSrv>>
      \/ wSrv.mode = "copyin" /\ m.k \in {"S", "L", "data"} /\ UNCHANGED <<wToCli, wSrv>>
      \/ /\ wSrv.mode = "copyin" /\ m.k = "done"
         /\ Says(m, IF wSrv.simple THEN <<"C", "Z">> ELSE <<"C">>, "idle")
      \/ wSrv.mode = "copyin" /\ m.k \notin {"S", "L"} /\ FailsCopy(m)
  BY Zenon DEF SessionAnswer, Junk
<1>3. CASE \E ks, mode : Sends(wSrv, m, ks, mode) /\ Says(m, ks, mode)
  BY <1>1, <1>3
<1>4. CASE wSrv.mode = "idle" /\ m.k \in DOMAIN Answers
  <2>1. ASSUME NEW a \in Answers[m.k], Last(a) = "G", Says(m, a, "copyin")
        PROVE  \E ks, mode : Sends(wSrv, m, ks, mode) /\ Says(m, ks, mode)
    BY <2>1, <1>4 DEF Sends
  <2>2. ASSUME NEW a \in Answers[m.k], Last(a) # "G", m.k \in {"Q", "F"}, Says(m, Append(a, "Z"), "idle")
        PROVE  \E ks, mode : Sends(wSrv, m, ks, mode) /\ Says(m, ks, mode)
    BY <2>2, <1>4 DEF Sends
  <2>3. ASSUME NEW a \in Answers[m.k], Last(a) # "G", m.k \notin {"Q", "F"},
               Says(m, a, IF Last(a) = "ERROR" THEN "ignore" ELSE "idle")
        PROVE  \E ks, mode : Sends(wSrv, m, ks, mode) /\ Says(m, ks, mode)
    BY <2>3, <1>4 DEF Sends
  <2>4. m.k = "S" => Sends(wSrv, m, <<"Z">>, "idle")
    BY <1>4 DEF Sends
  <2> QED BY <2>1, <2>2, <2>3, <2>4, <1>1, <1>2, <1>4 DEF Drop
<1>5. CASE wSrv.mode # "copyin"
  <2>1. m.k = "S" => Sends(wSrv, m, <<"Z">>, "idle")
    BY <1>5 DEF Sends
  <2> QED BY <2>1, <1>1, <1>2, <1>4, <1>5 DEF Drop
<1>6. CASE wSrv.mode = "copyin"
  <2>1. PICK ks : ks = IF wSrv.simple THEN <<"C", "Z">> ELSE <<"C">>
    OBVIOUS
  <2>2. m.k = "done" => Sends(wSrv, m, ks, "idle")
    BY <2>1, <1>6 DEF Sends
  <2>3. PICK es : es = IF wSrv.simple THEN <<"ERROR", "Z">> ELSE <<"ERROR">>
    OBVIOUS
  <2>4. PICK mode : mode = IF wSrv.simple THEN "idle" ELSE "ignore"
    OBVIOUS
  <2>5. m.k \notin {"S", "L"} => Sends(wSrv, m, es, mode)
    BY <2>3, <2>4, <1>6 DEF Sends
  <2>6. FailsCopy(m) => Says(m, es, mode)
    BY <2>3, <2>4 DEF FailsCopy
  <2> QED BY <2>1, <2>2, <2>5, <2>6, <1>1, <1>2, <1>6 DEF Drop
<1> QED BY <1>5, <1>6

\* An answer and the session after it.
LEMMA SaysIs ==
  ASSUME NEW m, NEW ks, NEW mode, Says(m, ks, mode), IsServer(wSrv)
  PROVE  \E n : /\ wToCli' = wToCli \o Reply(m, ks, n)
                /\ IsServer(wSrv') /\ (wSrv.open /\ ~wSrv.reset => Becomes(wSrv, m, wSrv', mode))
<1>1. PICK n : n = IF wSrv.id = m.id THEN wSrv.rows ELSE 0
  OBVIOUS
<1>2. PICK simple : simple = IF wSrv.mode = "copyin" THEN wSrv.simple ELSE m.k \in {"Q", "F"}
  OBVIOUS
<1>3. PICK rows, closed : wSrv' = [wSrv EXCEPT !.mode = mode, !.id = m.id, !.simple = simple, !.rows = rows, !.closed = closed]
  BY <1>2, Zenon DEF Says
<1>4. wToCli' = wToCli \o Reply(m, ks, n)
  BY <1>1, Zenon DEF Says
<1>5. wSrv' = Server(wSrv.open, wSrv.reset, mode, simple, m.id, rows, closed)
  BY <1>3 DEF IsServer, Server
<1>6. simple \in BOOLEAN
  <2>1. wSrv.simple \in BOOLEAN
    BY DEF IsServer
  <2>2. CASE wSrv.mode = "copyin"
    BY <2>1, <2>2, <1>2, Zenon
  <2>3. CASE wSrv.mode # "copyin"
    <3>1. CASE m.k \in {"Q", "F"}
      BY <2>3, <3>1, <1>2, Zenon
    <3>2. CASE m.k \notin {"Q", "F"}
      <4>1. simple = (m.k \in {"Q", "F"})
        BY <2>3, <1>2, Zenon
      <4>2. (m.k \in {"Q", "F"}) = FALSE
        BY <3>2
      <4> QED BY <4>1, <4>2, Zenon
    <3> QED BY <3>1, <3>2
  <2> QED BY <2>2, <2>3
<1>7. IsServer(wSrv')
  BY <1>5, <1>6 DEF IsServer, Server
<1>8. simple <=> IF wSrv.mode = "copyin" THEN wSrv.simple ELSE m.k \in {"Q", "F"}
  BY <1>2
<1>9. wSrv'.open = wSrv.open /\ wSrv'.reset = wSrv.reset /\ wSrv'.mode = mode /\ wSrv'.simple = simple
  BY <1>5 DEF Server
<1> QED BY <1>4, <1>6, <1>7, <1>8, <1>9 DEF Becomes

\* The answer to the next request.
LEMMA AnswerKeeps ==
  ASSUME WireInv, SessionAnswer, ~CopyInTimeouts
  PROVE  WireInv'
<1> USE DEF WireInv
<1>1. PICK m : m = Head(wToSrv)
  OBVIOUS
<1>2. /\ wSrv.open /\ wToSrv # <<>> /\ wToSrv' = Tail(wToSrv)
      /\ UNCHANGED <<wXact, wCall, wRead, wGarbage, wOptimized, wLog>>
      /\ \/ Drop(wSrv, m) /\ UNCHANGED <<wToCli, wSrv>>
         \/ \E ks, mode : Sends(wSrv, m, ks, mode) /\ Says(m, ks, mode)
  BY <1>1, AnswerIs
<1>3. PICK in : in = InFlight
  OBVIOUS
<1>4. Sound(wXact, wSrv, in, wToSrv, wRead.id, wCall.op) /\ IsList(in) /\ IsList(wToSrv) /\ IsServer(wSrv)
      /\ IsList(wRead.msgs) /\ IsList(wToCli) /\ ~wSrv.reset
  BY <1>2, <1>3, InFlightList DEF WireSound, WireShape, Sound, Settled
<1>5. IsList(wToSrv')
  BY <1>2, <1>4, TailIs
<1>6. CASE Drop(wSrv, m) /\ UNCHANGED <<wToCli, wSrv>>
  <2>1. Sound(wXact, wSrv, in, wToSrv', wRead.id, wCall.op)
    BY <1>1, <1>2, <1>4, <1>6, Discarded
  <2> QED BY <2>1, <1>2, <1>3, <1>5, <1>6 DEF WireShape, WireSound, WireFaultless, InFlight
<1>7. ASSUME NEW ks, NEW mode, Sends(wSrv, m, ks, mode), Says(m, ks, mode)
      PROVE  WireInv'
  <2>1. PICK n : /\ wToCli' = wToCli \o Reply(m, ks, n)
                 /\ IsServer(wSrv') /\ (wSrv.open /\ ~wSrv.reset => Becomes(wSrv, m, wSrv', mode))
    BY <1>4, <1>7, SaysIs
  <2>2. IsServer(wSrv') /\ Becomes(wSrv, m, wSrv', mode)
    BY <2>1, <1>2, <1>4
  <2>3. Sound(wXact, wSrv', in \o Reply(m, ks, n), wToSrv', wRead.id, wCall.op) /\ IsList(ks)
    BY <2>2, <1>1, <1>2, <1>4, <1>7, Answered
  <2>4. IsList(ks)
    BY <2>3
  <2>5. PICK b : b = Reply(m, ks, n)
    OBVIOUS
  <2>6. IsList(b)
    BY <2>4, <2>5, <1>4, ReplyIs
  <2>7. IsList(wToCli') /\ wToCli' = wToCli \o b
    BY <2>1, <2>5, <2>6, <1>4, Joined
  <2>8. InFlight' = in \o b
    <3>1. PICK a : a = wRead.msgs
      OBVIOUS
    <3>2. PICK c : c = wToCli
      OBVIOUS
    <3>3. IsList(a) /\ IsList(c)
      BY <3>1, <3>2, <1>4
    <3>4. (a \o c) \o b = a \o (c \o b)
      BY <3>3, <2>6, JoinMore
    <3> QED BY <3>1, <3>2, <3>4, <2>7, <1>2, <1>3 DEF InFlight
  <2> QED BY <2>2, <2>3, <2>5, <2>7, <2>8, <1>2, <1>5 DEF WireShape, WireSound, WireFaultless
<1> QED BY <1>2, <1>6, <1>7

-----------------------------------------------------------------------------
(* The theorem.                                                            *)

\* It holds at the start.
LEMMA BeginsInv ==
  ASSUME WireInit
  PROVE  WireInv
<1>1. /\ wXact = NoXact /\ wCall.op = "idle" /\ wGarbage = <<>> /\ wRead = [id |-> 1, msgs |-> <<>>]
      /\ wToSrv = <<>> /\ wToCli = <<>>
  BY DEF WireInit, Idle
<1>2. IsList(<<>>)
  <2>1. <<>> \in Seq({})
    OBVIOUS
  <2> QED BY <2>1, Listed
<1>3. WireShape
  <2>1. IsServer(wSrv)
    BY DEF WireInit, IsServer, Server
  <2> QED BY <1>1, <1>2, <2>1 DEF WireShape, IsRead
<1>4. WireFaultless
  BY DEF WireInit, WireFaultless, IsLog, Logged
<1>5. InFlight = <<>>
  BY <1>1 DEF InFlight
<1>6. wSrv.open /\ ~wSrv.reset /\ wSrv.mode = "idle"
  BY DEF WireInit
<1>7. WireSound
  BY <1>1, <1>5, <1>6 DEF WireSound, Sound, Settled, Quiet, AllJunk
<1> QED BY <1>3, <1>4, <1>7 DEF WireInv

\* Every step keeps it.
LEMMA WireKept ==
  ASSUME WireInv, [WireNext]_wireVars, ScriptsInOrder, InterruptPoints \subseteq {"hook"}, ~CopyInTimeouts
  PROVE  WireInv'
<1>1. CASE WireWrite
  BY <1>1, WriteKeeps
<1>2. CASE WireWriteLost
  BY <1>2, WriteLostKeeps
<1>3. CASE WireReceive
  BY <1>3, ReceiveKeeps
<1>4. CASE WireEof
  BY <1>4, EofKeeps
<1>5. CASE WireCompleted
  BY <1>5, CompletedKeeps
<1>6. CASE WireInterrupt
  BY <1>6, InterruptKeeps
<1>7. CASE WirePush \/ WireSynchronize \/ WireComplete \/ WireStep
  BY <1>7, CallKeeps
<1>8. CASE WireSupply
  BY <1>8, SupplyKeeps
<1>9. CASE WireTrash
  BY <1>9, TrashKeeps
<1>10. CASE SessionAnswer
  BY <1>10, AnswerKeeps
<1>11. CASE SessionNotice
  BY <1>11, NoticeKeeps
<1>12. CASE SessionDies
  BY <1>12, DiesKeeps
<1>13. CASE UNCHANGED wireVars
  BY <1>13 DEF wireVars, WireInv, WireShape, WireFaultless, WireSound, InFlight
<1> QED BY <1>1, <1>2, <1>3, <1>4, <1>5, <1>6, <1>7, <1>8, <1>9, <1>10, <1>11, <1>12, <1>13 DEF WireNext, WireClient

\* It implies InStep.
LEMMA KeepsInStep ==
  ASSUME WireInv
  PROVE  InStep
<1> USE DEF WireInv
<1>1. ~wLog.stray /\ ~wLog.broke
  BY DEF WireFaultless
<1>2. PICK in : in = InFlight
  OBVIOUS
<1>3. IsList(in) /\ IsList(wToSrv)
  BY <1>2, InFlightList DEF WireShape
<1>4. ASSUME wSrv.open, wXact = NoXact \/ (wXact.state = "Complete" /\ wXact.fatal # "Yes")
      PROVE  /\ wSrv.mode = "idle"
             /\ \A m \in ToSet(wToSrv) : m.k \in {"data", "done", "fail"}
             /\ \A m \in ToSet(in) : m.k \in {"A", "FATAL"}
  <2>1. Quiet(in) /\ wSrv.mode = "idle" /\ AllJunk(wToSrv)
    BY <1>2, <1>4 DEF WireSound, Sound, Settled, Ended
  <2>2. DOMAIN in = 1 .. Len(in) /\ DOMAIN wToSrv = 1 .. Len(wToSrv)
    BY <1>3, ListFacts
  <2> QED BY <2>1, <2>2 DEF Quiet, AllJunk, Junk, ToSet
<1> QED BY <1>1, <1>2, <1>4 DEF InStep

\* It implies NoStandoff: a receiving instruction with nothing in flight and nothing on its way owes the
\* session nothing, so that it would have been answered to its end.
LEMMA KeepsGoing ==
  ASSUME WireInv
  PROVE  NoStandoff
<1> USE DEF WireInv
<1> SUFFICES ASSUME wSrv.open, wXact # NoXact, wXact.state = "Receiving", wToSrv = <<>>, InFlight = <<>>
             PROVE  FALSE
  BY DEF NoStandoff
<1>1. PICK x : x = wXact
  OBVIOUS
<1>2. Sound(x, wSrv, <<>>, <<>>, wRead.id, wCall.op)
  BY <1>1 DEF WireSound
<1>3. Runs(x) /\ (Useless(x, wSrv, wCall.op) \/ \E w : OnWay(x, w, wSrv, <<>>, <<>>))
  BY <1>1, <1>2 DEF Sound
<1>4. PICK w : OnWay(x, w, wSrv, <<>>, <<>>)
  BY <1>1, <1>3 DEF Useless
<1>5. PICK p : p = w[0]
  OBVIOUS
<1>6. p = x.last.to /\ p.off <= Len(x.cmds) /\ p \in Places(x.cmds) /\ InOrder(x.cmds)
  BY <1>3, <1>4, <1>5 DEF OnWay, Way, Runs
<1>7. Served(x, <<>>, p, wSrv)
  <2>1. ~Coming(<<>>)
    BY DEF Coming
  <2>2. Owed(x, w[0].off, Coming(<<>>)) = <<>>
    BY <1>1, <2>1 DEF Owed
  <2>3. Served(x, <<>> \o Owed(x, w[Len(<<>>)].off, Coming(<<>>)), w[Len(<<>>)], wSrv)
    BY <1>4 DEF OnWay
  <2>4. Len(<<>>) = 0
    OBVIOUS
  <2> QED BY <2>2, <2>3, <2>4, <1>5
<1>8. PICK N : N = Len(x.cmds)
  OBVIOUS
<1>9. N \in Nat
  BY <1>6, <1>8, OrderFacts
<1>10. CASE wSrv.mode = "idle"
  <2>1. ServedIdle(x, <<>>, p)
    BY <1>7, <1>10 DEF Served
  <2>2. PICK n \in 0 .. 0, j \in 1 .. N + 1 : Rest(x, <<>>, j, n) /\ p = At(NextCmd(x.cmds, j - 1), 1)
    BY <2>1, <1>8 DEF ServedIdle
  <2>3. Len(<<>>) - n = N + 1 - j
    BY <2>2, <1>8 DEF Rest
  <2>4. j = N + 1
    BY <2>2, <2>3, <1>9
  <2>5. NextCmd(x.cmds, N) \in (N + 1) .. (N + 1)
    BY <1>8, <1>9, NextUp
  <2>6. p.off = N + 1
    BY <2>2, <2>4, <2>5, <1>9 DEF At
  <2> QED BY <2>6, <1>6, <1>8, <1>9
<1>11. CASE wSrv.mode = "ignore"
  <2>1. ServedIgnoring(x, <<>>, p)
    BY <1>7, <1>11 DEF Served
  <2>2. PICK n \in 0 .. 0, j \in 1 .. N : Rest(x, <<>>, j, n)
    BY <2>1, <1>8 DEF ServedIgnoring
  <2>3. Len(<<>>) - n = N + 1 - j
    BY <2>2, <1>8 DEF Rest
  <2> QED BY <2>2, <2>3, <1>9
<1>12. CASE wSrv.mode = "copyin"
  <2>1. ServedCopying(x, <<>>, p, wSrv.simple)
    BY <1>7, <1>12 DEF Served
  <2>2. PICK b \in 0 .. 0, n \in 0 .. 0 : b < n
    BY <2>1 DEF ServedCopying
  <2> QED BY <2>2
<1> QED BY <1>7, <1>10, <1>11, <1>12 DEF Served

\* The invariant of the specification.  The instructions pushed have no answered command between an
\* Execute, which the session may answer with COPY, and their Sync; only the notice hook raises; the
\* session waits for the data of a COPY.
LEMMA WireInvariant ==
  ASSUME ScriptsInOrder, InterruptPoints \subseteq {"hook"}, ~CopyInTimeouts
  PROVE  WireSpec => []WireInv
<1>1. WireInit => WireInv
  BY BeginsInv
<1>2. WireInv /\ [WireNext]_wireVars => WireInv'
  BY WireKept
<1> QED BY <1>1, <1>2, PTL DEF WireSpec

\* InStep, for any number of instructions, rows, notices, dropped names and deaths, any chunks, and
\* either reading of rows: no answer is taken for the answer of another request, no protocol violation is
\* seen, and an instruction that ended without being fatal leaves nothing of it on the wire
\* (Instruction of xact3.py, Connection of client3.py).
THEOREM InStepTheorem ==
  ASSUME ScriptsInOrder, InterruptPoints \subseteq {"hook"}, ~CopyInTimeouts
  PROVE  WireSpec => []InStep
<1>1. WireInv => InStep
  BY KeepsInStep
<1> QED BY <1>1, WireInvariant, PTL

\* NoStandoff, likewise: client and session never wait for each other with nothing on the wire, since
\* what ends a COPY re-issues the commands after it (xact3.Instruction.sent_from_stdin).
THEOREM NoStandoffTheorem ==
  ASSUME ScriptsInOrder, InterruptPoints \subseteq {"hook"}, ~CopyInTimeouts
  PROVE  WireSpec => []NoStandoff
<1>1. WireInv => NoStandoff
  BY KeepsGoing
<1> QED BY <1>1, WireInvariant, PTL
=============================================================================
