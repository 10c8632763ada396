---------------------------- MODULE Stage2Proofs ----------------------------
(***************************************************************************)
(* Proofs about Stage2 for any number of CPUs, realms and granules, any    *)
(* number of entries of a table and any level of the root: the types, the  *)
(* tables' reference counts, that each table hangs below one entry, and    *)
(* that a granule is the memory of one page of one realm.                  *)
(*                                                                         *)
(* The invariant (Safe) gives each table in use its place: a realm, the    *)
(* first page it is for, and its level.  The tables are seen (View) as if  *)
(* the breaks before makes in progress had not begun, so that only the     *)
(* step that completes a break changes the tree.                           *)
(***************************************************************************)
EXTENDS Stage2, FiniteSetTheorems, TLAPS

---------------------------------------------------------------------------
(* Walks, and the numbers they use *)

Below(t, i, l) == IF t # None /\ IsTable(At(t, i, l - 1), l - 1) THEN At(t, i, l - 1).pa
                  ELSE None

LEMMA TableAtDef ==
  ASSUME NEW r, NEW i
  PROVE  /\ TableAt(r, i)[StartLevel] = r
         /\ \A l \in Levels : l # StartLevel =>
              TableAt(r, i)[l] = Below(TableAt(r, i)[l - 1], i, l)
<1> DEFINE S == StartLevel
           t1 == Below(r, i, S + 1)
           t2 == Below(t1, i, S + 2)
           t3 == Below(t2, i, S + 3)
           W == [l \in Levels |-> IF l = S THEN r ELSE IF l = S + 1 THEN t1
                                  ELSE IF l = S + 2 THEN t2 ELSE t3]
           F(T) == [l \in Levels |-> IF l = StartLevel THEN r ELSE Below(T[l - 1], i, l)]
<1>1. S \in 0 .. 2 /\ Levels = S .. 3
  BY Stage2Assumption DEF Levels, RTT_PAGE_LEVEL
<1> HIDE DEF t1, t2, t3, S
<1>2. W = F(W)
  <2>1. \A l \in Levels : W[l] = F(W)[l]
    <3> SUFFICES ASSUME NEW l \in Levels PROVE W[l] = F(W)[l]
      OBVIOUS
    <3>1. CASE l = S
      BY <3>1 DEF S
    <3>2. CASE l = S + 1
      BY <3>2, <1>1 DEF S, t1
    <3>3. CASE l = S + 2
      BY <3>3, <1>1 DEF S, t2
    <3>4. CASE l = S + 3
      BY <3>4, <1>1 DEF S, t3
    <3> QED BY <1>1, <3>1, <3>2, <3>3, <3>4
  <2> QED BY <2>1
<1>3. TableAt(r, i) = F(TableAt(r, i))
  BY <1>2 DEF TableAt, Below
<1> QED BY <1>3, <1>1 DEF S

---------------------------------------------------------------------------
LEMMA EPositive == E \in Nat /\ E >= 2
  BY Stage2Assumption

LEMMA ModRange ==
  ASSUME NEW a \in Int, NEW n \in Nat, n > 0
  PROVE  a % n \in 0 .. n - 1 /\ a \div n \in Int /\ a = n * (a \div n) + (a % n)
OBVIOUS

LEMMA ProductPositive ==
  ASSUME NEW a \in Nat, NEW b \in Nat, a > 0, b > 0
  PROVE  a * b \in Nat /\ a * b > 0
OBVIOUS

LEMMA PagesAre ==
  /\ Pages(3) = 1 /\ Pages(2) = E /\ Pages(1) = E * E /\ Pages(0) = E * E * E
  /\ \A l \in 0 .. 3 : Pages(l) \in Nat /\ Pages(l) > 0
<1>1. Pages(3) = 1 /\ Pages(2) = E /\ Pages(1) = E * E /\ Pages(0) = E * E * E
  BY DEF Pages
<1>2. E > 0 /\ E * E \in Nat /\ E * E > 0
  BY EPositive, ProductPositive
<1>3. E * E * E \in Nat /\ E * E * E > 0
  BY <1>2, EPositive, ProductPositive
<1>4. 0 .. 3 = {0, 1, 2, 3}
  OBVIOUS
<1> QED BY <1>1, <1>2, <1>3, <1>4, EPositive

LEMMA LevelsAre == Levels \subseteq 0 .. 3 /\ StartLevel \in Levels /\ 3 \in Levels /\ 2 \in Levels
  BY Stage2Assumption DEF Levels, RTT_PAGE_LEVEL

LEMMA LevelIs ==
  ASSUME NEW l \in Levels
  PROVE  l \in Int /\ l \in 0 .. 3 /\ (l < 3 => l \in 0 .. 2) /\ (l = 3 \/ l < 3)
BY LevelsAre

LEMMA IndexIsSlot ==
  ASSUME NEW i \in Int, NEW l \in Levels
  PROVE  Index(i, l) \in Slots
<1>1. PICK p \in Nat : p = Pages(l) /\ p > 0
  BY PagesAre, LevelsAre
<1>2. PICK q \in Int : q = i \div p
  BY <1>1, ModRange
<1>3. q % E \in 0 .. E - 1
  BY EPositive, ModRange
<1> QED BY <1>1, <1>2, <1>3 DEF Index, Slots

LEMMA AlignPage ==
  ASSUME NEW a \in Int
  PROVE  Align(a, 3) = a /\ (a % E = 0 => Align(a, 2) = a)
<1>1. a % 1 = 0
  OBVIOUS
<1>2. a % E \in Int
  BY EPositive, ModRange
<1> QED BY <1>1, <1>2, PagesAre DEF Align

LEMMA Multiples ==
  ASSUME NEW n \in Nat, NEW p \in Int, NEW q \in Int, p < q
  PROVE  n * p + n <= n * q
<1>1. PICK d \in Nat : q = p + 1 + d
  <2>1. q - p - 1 \in Nat /\ q = p + 1 + (q - p - 1)
    OBVIOUS
  <2> QED BY <2>1
<1>2. n * q = n * p + n + n * d
  BY <1>1
<1>3. n * d \in Nat
  OBVIOUS
<1>4. n * p \in Int
  OBVIOUS
<1> QED BY <1>2, <1>3, <1>4

LEMMA Division ==
  ASSUME NEW n \in Nat, n > 0, NEW q \in Int, NEW r \in 0 .. n - 1, NEW a \in Int,
         a = n * q + r
  PROVE  a \div n = q /\ a % n = r
<1>1. PICK x \in Int, y \in 0 .. n - 1 : x = a \div n /\ y = a % n /\ a = n * x + y
  BY ModRange
<1>2. n * q \in Int /\ n * x \in Int
  OBVIOUS
<1>3. ~(x < q)
  <2>1. x < q => n * x + n <= n * q
    BY Multiples
  <2> QED BY <1>1, <1>2, <2>1
<1>4. ~(q < x)
  <2>1. q < x => n * q + n <= n * x
    BY Multiples
  <2> QED BY <1>1, <1>2, <2>1
<1>5. x = q
  BY <1>3, <1>4
<1>6. y = r
  BY <1>1, <1>2, <1>5
<1> QED BY <1>1, <1>5, <1>6

LEMMA NoRemainder ==
  ASSUME NEW n \in Nat, n > 0, NEW q \in Nat
  PROVE  (n * q) % n = 0
<1>1. PICK a \in Nat : a = n * q
  OBVIOUS
<1>2. PICK r \in 0 .. n - 1 : r = a % n
  BY ModRange
<1>3. \A z \in 0 .. n - 1 : a = n * q + z => a % n = z
  BY <1>1, Division
<1>4. 0 \in 0 .. n - 1 /\ a = n * q + 0
  BY <1>1
<1> QED BY <1>1, <1>3, <1>4

LEMMA Quotient ==
  ASSUME NEW a \in Nat, NEW n \in Nat, n > 0
  PROVE  \E q \in Nat, r \in 0 .. n - 1 : a = n * q + r
<1>1. PICK q \in Int : q = a \div n
  BY ModRange
<1>2. PICK r \in 0 .. n - 1 : r = a % n
  BY ModRange
<1>3. a = n * q + r
  BY <1>1, <1>2, ModRange
<1>4. q >= 0
  <2>1. q < 0 => n * q + n <= n * 0
    BY Multiples
  <2>2. n * q \in Int /\ n * 0 = 0
    OBVIOUS
  <2> QED BY <1>3, <2>1, <2>2
<1> QED BY <1>3, <1>4

LEMMA PagesStep ==
  ASSUME NEW l \in 0 .. 2
  PROVE  Pages(l) = Pages(l + 1) * E
<1>1. l \in {0, 1, 2}
  OBVIOUS
<1>2. CASE l = 0
  BY <1>2, PagesAre, EPositive
<1>3. CASE l = 1
  BY <1>3, PagesAre, EPositive
<1>4. CASE l = 2
  BY <1>4, PagesAre, EPositive
<1> QED BY <1>1, <1>2, <1>3, <1>4

(* The part of an address above the table at level l of a walk *)
Base(i, l) == IF l = StartLevel THEN 0 ELSE Align(i, l - 1)

LEMMA Digits ==
  ASSUME NEW P \in Nat, P > 0, NEW i \in Nat
  PROVE  \E q \in Nat, k \in Slots, o \in 0 .. P - 1 : i = (P * E) * q + P * k + o
<1>1. E \in Nat /\ E > 0
  BY EPositive
<1>2. PICK x \in Nat, o \in 0 .. P - 1 : i = P * x + o
  BY Quotient
<1>3. PICK q \in Nat, k \in 0 .. E - 1 : x = E * q + k
  BY <1>1, Quotient
<1>4. i = (P * E) * q + P * k + o
  BY <1>1, <1>2, <1>3
<1> QED BY <1>4 DEF Slots

(* The page at which entry k of a table for the pages from b begins *)
Start(b, k, l) == b + k * Pages(l)

LEMMA Multiple ==
  ASSUME NEW n \in Nat, n > 0, NEW a \in Nat, a % n = 0
  PROVE  \E q \in Nat : a = n * q
<1>1. PICK q \in Nat, r \in 0 .. n - 1 : a = n * q + r
  BY Quotient
<1>2. r = 0
  BY <1>1, Division
<1>3. n * q \in Int
  OBVIOUS
<1> QED BY <1>1, <1>2, <1>3

LEMMA TablePages ==
  ASSUME NEW l \in Levels
  PROVE  \E P \in Nat : /\ P > 0 /\ P = Pages(l)
                        /\ l = StartLevel => NumIpas = P * E
                        /\ l # StartLevel => /\ l - 1 \in Levels /\ Pages(l - 1) = P * E
                                             /\ \E m \in Nat : NumIpas = (P * E) * m
<1>1. PICK P \in Nat : P > 0 /\ P = Pages(l)
  BY PagesAre, LevelsAre
<1>2. E \in Nat /\ E > 0 /\ StartLevel \in 0 .. 2 /\ Levels = StartLevel .. 3
  BY EPositive, Stage2Assumption DEF Levels, RTT_PAGE_LEVEL
<1>3. CASE l = StartLevel
  <2>1. NumIpas = P * E
    BY <1>1, <1>2, <1>3 DEF NumIpas
  <2> QED BY <1>1, <1>3, <2>1
<1>4. CASE l # StartLevel
  <2>1. l - 1 \in 0 .. 2 /\ l - 1 \in Levels
    BY <1>2, <1>4
  <2>2. Pages(l - 1) = P * E
    BY <1>1, <1>2, <2>1, PagesStep
  <2>3. \E m \in Nat : NumIpas = Pages(l - 1) * m
    <3>1. \/ StartLevel = l - 1
          \/ StartLevel = 0 /\ l - 1 = 1
          \/ StartLevel = 0 /\ l - 1 = 2
          \/ StartLevel = 1 /\ l - 1 = 2
      <4>1. PICK x \in 0 .. 2 : x = StartLevel
        BY <1>2
      <4>2. l \in x + 1 .. 3
        BY <4>1, <1>2, <1>4
      <4> QED BY <4>1, <4>2
    <3>2. Pages(l - 1) \in Nat
      BY <2>1, PagesAre
    <3>3. CASE StartLevel = l - 1
      <4>1. NumIpas = Pages(l - 1) * E
        BY <3>3, <3>2, <1>2 DEF NumIpas
      <4> QED BY <4>1, <1>2
    <3>4. CASE StartLevel = 0 /\ l - 1 = 1
      <4>1. NumIpas = Pages(l - 1) * (E * E)
        BY <3>4, PagesAre, <1>2 DEF NumIpas
      <4> QED BY <4>1, <1>2
    <3>5. CASE StartLevel = 0 /\ l - 1 = 2
      <4>1. NumIpas = Pages(l - 1) * (E * E * E)
        BY <3>5, PagesAre, <1>2 DEF NumIpas
      <4> QED BY <4>1, <1>2
    <3>6. CASE StartLevel = 1 /\ l - 1 = 2
      <4>1. NumIpas = Pages(l - 1) * (E * E)
        BY <3>6, PagesAre, <1>2 DEF NumIpas
      <4> QED BY <4>1, <1>2
    <3> QED BY <3>1, <3>3, <3>4, <3>5, <3>6
  <2> QED BY <1>1, <1>4, <2>1, <2>2, <2>3
<1> QED BY <1>3, <1>4

(* The address i is o pages above the first of entry k, in the q-th table *)
(* of E entries of P pages each                                           *)
Digit(P, N, q, k, o, x, y, i) ==
  /\ P \in Nat /\ P > 0 /\ N = P * E /\ N \in Nat /\ N > 0
  /\ q \in Nat /\ k \in 0 .. E - 1 /\ o \in 0 .. P - 1
  /\ x \in Nat /\ x = P * k /\ y \in Nat /\ y = N * q
  /\ i \in Nat /\ i = y + x + o

LEMMA RadixN ==
  ASSUME NEW P, NEW N, NEW q, NEW k, NEW o, NEW x, NEW y, NEW i,
         Digit(P, N, q, k, o, x, y, i)
  PROVE  i % P = o /\ (i \div P) % E = k /\ i % N = x + o /\ y % N = 0 /\ x + P <= N
<1>1. E \in Nat /\ E > 0
  BY EPositive
<1>2. /\ P \in Nat /\ P > 0 /\ N \in Nat /\ N > 0
      /\ q \in Nat /\ k \in 0 .. E - 1 /\ o \in 0 .. P - 1
      /\ x \in Nat /\ y \in Nat /\ i \in Nat /\ i = y + x + o
  BY DEF Digit
<1>3. N = P * E /\ x = P * k /\ y = N * q
  BY DEF Digit
<1>4. x + P <= N
  BY <1>1, <1>2, <1>3, Multiples
<1>5. i % N = x + o
  <2>1. \A z \in 0 .. N - 1 : i = N * q + z => i % N = z
    BY <1>2, Division
  <2>2. x + o \in 0 .. N - 1
    BY <1>2, <1>4
  <2>3. i = N * q + (x + o)
    BY <1>2, <1>3
  <2> QED BY <2>1, <2>2, <2>3
<1>6. y % N = 0
  BY <1>2, <1>3, NoRemainder
<1>7. PICK w \in Nat : w = E * q + k
  BY <1>1, <1>2
<1>8. i = P * w + o
  <2>1. P * w = y + x
    BY <1>1, <1>2, <1>3, <1>7
  <2> QED BY <2>1, <1>2
<1>9. i % P = o /\ i \div P = w
  BY <1>2, <1>7, <1>8, Division
<1>10. w % E = k
  BY <1>1, <1>2, <1>7, Division
<1> QED BY <1>4, <1>5, <1>6, <1>9, <1>10

(* Entry k of a table for the pages from b is the entry of the pages that *)
(* are at most Pages(l) - 1 above the first of its own.                   *)
LEMMA SpotAt ==
  ASSUME NEW l \in Levels, NEW b \in Ipas, Base(b, l) = b, NEW k \in Slots,
         NEW o \in 0 .. Pages(l) - 1, NEW i, i = Start(b, k, l) + o
  PROVE  /\ i \in Ipas /\ Align(i, l) = Start(b, k, l) /\ Base(i, l) = b
         /\ Index(i, l) = k /\ Start(b, k, l) \in Nat
<1>1. PICK P \in Nat : /\ P > 0 /\ P = Pages(l)
                       /\ l = StartLevel => NumIpas = P * E
                       /\ l # StartLevel => /\ l - 1 \in Levels /\ Pages(l - 1) = P * E
                                            /\ \E m \in Nat : NumIpas = (P * E) * m
  BY TablePages
<1>2. PICK N \in Nat : N = P * E /\ N > 0
  BY EPositive, <1>1, ProductPositive
<1>3. k \in 0 .. E - 1 /\ b \in Nat /\ o \in 0 .. P - 1 /\ E \in Nat
  BY EPositive, <1>1 DEF Ipas, Slots
<1>4. PICK q \in Nat : b = N * q /\ (l = StartLevel => q = 0)
  <2>1. CASE l = StartLevel
    BY <2>1, <1>2 DEF Base
  <2>2. CASE l # StartLevel
    <3>1. PICK r \in 0 .. N - 1 : r = b % N
      BY <1>2, <1>3, ModRange
    <3>2. b - r = b
      BY <3>1, <2>2, <1>1, <1>2 DEF Base, Align
    <3>3. b % N = 0
      BY <3>1, <3>2, <1>3
    <3> QED BY <3>3, <1>2, <1>3, Multiple, <2>2
  <2> QED BY <2>1, <2>2
<1>5. PICK x \in Nat : x = P * k
  BY <1>3
<1>6. Start(b, k, l) = b + x /\ i = b + x + o /\ i \in Nat
  BY <1>1, <1>3, <1>5 DEF Start
<1>7. i % P = o /\ (i \div P) % E = k /\ i % N = x + o /\ x + P <= N
  <2>1. b = N * q /\ x = P * k /\ N = P * E
    BY <1>2, <1>4, <1>5
  <2>2. Digit(P, N, q, k, o, x, b, i)
    BY <1>1, <1>2, <1>3, <1>4, <1>5, <1>6, <2>1 DEF Digit
  <2> QED BY <2>2, RadixN
<1>8. Align(i, l) = Start(b, k, l) /\ Index(i, l) = k
  BY <1>1, <1>3, <1>5, <1>6, <1>7 DEF Align, Index
<1>9. Base(i, l) = b
  <2>1. CASE l = StartLevel
    BY <2>1, <1>2, <1>4 DEF Base
  <2>2. CASE l # StartLevel
    <3>1. Base(i, l) = i - (i % N)
      BY <2>2, <1>1, <1>2 DEF Base, Align
    <3> QED BY <3>1, <1>3, <1>5, <1>6, <1>7
  <2> QED BY <2>1, <2>2
<1>10. i \in Ipas
  <2>1. CASE l = StartLevel
    <3>1. b = 0 /\ NumIpas = N
      BY <2>1, <1>1, <1>2, <1>4
    <3> QED BY <3>1, <1>3, <1>5, <1>6, <1>7 DEF Ipas
  <2>2. CASE l # StartLevel
    <3>1. PICK m \in Nat : NumIpas = N * m
      BY <1>1, <1>2, <2>2
    <3>2. PICK z \in Nat : z = N * m
      OBVIOUS
    <3>3. q < m
      <4>1. m < q => N * m + N <= N * q
        BY Multiples
      <4>2. b < z
        BY <3>1, <3>2 DEF Ipas
      <4>3. q = m => b = z
        BY <1>4, <3>2
      <4> QED BY <4>1, <4>2, <4>3, <1>2, <1>3, <1>4, <3>2
    <3>4. b + N <= z
      <4>1. N * q + N <= N * m
        BY <3>3, Multiples
      <4> QED BY <4>1, <1>4, <3>2
    <3> QED BY <3>1, <3>2, <3>4, <1>2, <1>3, <1>5, <1>6, <1>7 DEF Ipas
  <2> QED BY <2>1, <2>2
<1> QED BY <1>3, <1>5, <1>6, <1>8, <1>9, <1>10

LEMMA BlockOf ==
  ASSUME NEW l \in Levels, NEW i \in Ipas
  PROVE  /\ Index(i, l) \in Slots /\ Base(i, l) \in Ipas /\ Base(Base(i, l), l) = Base(i, l)
         /\ Align(i, l) = Start(Base(i, l), Index(i, l), l)
         /\ i - Align(i, l) \in 0 .. Pages(l) - 1 /\ Align(i, l) \in Nat
<1>1. PICK P \in Nat : /\ P > 0 /\ P = Pages(l)
                       /\ l = StartLevel => NumIpas = P * E
                       /\ l # StartLevel => Pages(l - 1) = P * E
  BY TablePages
<1>2. PICK N \in Nat : N = P * E /\ N > 0
  BY EPositive, <1>1, ProductPositive
<1>3. i \in Nat /\ i < NumIpas
  <2>1. NumIpas \in Int
    BY LevelsAre, PagesAre, EPositive DEF NumIpas
  <2> QED BY <2>1 DEF Ipas
<1>4. PICK q \in Nat, k \in Slots, o \in 0 .. P - 1 : i = (P * E) * q + P * k + o
  BY <1>1, <1>3, Digits
<1>5. k \in Nat
  BY <1>4 DEF Slots
<1>6. PICK x \in Nat, y \in Nat : x = P * k /\ y = N * q
  BY <1>2, <1>5
<1>7. i = y + x + o
  BY <1>2, <1>4, <1>6
<1>8. i % P = o /\ (i \div P) % E = k /\ i % N = x + o /\ y % N = 0
  <2>1. k \in 0 .. E - 1
    BY <1>4 DEF Slots
  <2>2. Digit(P, N, q, k, o, x, y, i)
    BY <1>1, <1>2, <1>3, <1>4, <1>6, <1>7, <2>1 DEF Digit
  <2> QED BY <2>2, RadixN
<1>9. Base(i, l) = y /\ Base(y, l) = y
  <2>1. CASE l = StartLevel
    <3>1. N * 0 = 0 /\ (q > 0 => N * 0 + N <= N * q)
      BY <1>2, Multiples
    <3>2. i < N
      BY <1>1, <1>2, <1>3, <2>1
    <3>3. q = 0
      BY <3>1, <3>2, <1>2, <1>3, <1>4, <1>6, <1>7
    <3>4. y = 0
      BY <3>1, <3>3, <1>6
    <3> QED BY <3>4, <2>1 DEF Base
  <2>2. CASE l # StartLevel
    <3>1. Base(i, l) = i - (i % N) /\ Base(y, l) = y - (y % N)
      BY <2>2, <1>1, <1>2 DEF Base, Align
    <3> QED BY <3>1, <1>4, <1>6, <1>7, <1>8
  <2> QED BY <2>1, <2>2
<1>10. y \in Ipas /\ i - o = y + x /\ y + x \in Nat /\ i - (y + x) = o
  <2>1. o \in Nat /\ y <= i
    BY <1>1, <1>4, <1>6, <1>7
  <2>2. y \in Ipas
    <3>1. NumIpas \in Int
      BY LevelsAre, PagesAre, EPositive DEF NumIpas
    <3> QED BY <3>1, <1>3, <1>6, <2>1 DEF Ipas
  <2> QED BY <1>6, <1>7, <2>1, <2>2
<1>11. Align(i, l) = y + x /\ Index(i, l) = k /\ Start(y, k, l) = y + x
  <2>1. k * P = x
    BY <1>1, <1>5, <1>6
  <2> QED BY <1>1, <1>8, <1>10, <2>1 DEF Align, Index, Start
<1> QED BY <1>1, <1>4, <1>9, <1>10, <1>11

LEMMA ChildBase ==
  ASSUME NEW l \in Levels, l < 3, NEW b \in Ipas, Base(b, l) = b, NEW k \in Slots
  PROVE  /\ l + 1 \in Levels /\ Start(b, k, l) \in Ipas
         /\ Base(Start(b, k, l), l + 1) = Start(b, k, l)
<1>1. l + 1 \in Levels /\ l + 1 # StartLevel /\ (l + 1) - 1 = l
  BY Stage2Assumption DEF Levels, RTT_PAGE_LEVEL
<1>2. 0 \in 0 .. Pages(l) - 1
  <2>1. Pages(l) \in Nat /\ Pages(l) > 0
    BY PagesAre, LevelsAre
  <2> QED BY <2>1
<1>3. PICK i : i = Start(b, k, l) + 0
  OBVIOUS
<1>4. i \in Ipas /\ Align(i, l) = Start(b, k, l) /\ Start(b, k, l) \in Nat
  BY <1>2, <1>3, SpotAt
<1>5. i = Start(b, k, l)
  BY <1>3, <1>4
<1> QED BY <1>1, <1>4, <1>5 DEF Base

---------------------------------------------------------------------------
(* The trees.  p gives the table t its place: it is table for the pages   *)
(* from p[t].base of realm p[t].r, at level p[t].lvl.  V is the tables'   *)
(* entries as they are but for the breaks in progress, G the state of the *)
(* granules, D the granules that DATA_DESTROY is about to give back.      *)
Places == [r : Tables, base : Ipas, lvl : Levels]
Used(G) == Realms \cup {g \in Granules : G[g] = "RTT"}
Child(x, k) == [r |-> x.r, base |-> Start(x.base, k, x.lvl), lvl |-> x.lvl + 1]
Last(x, k) == Start(x.base, k, x.lvl) + Pages(x.lvl) - 1

(* The memory an entry e at level l maps, or will *)
Mem(e, l) == IF e.ns \/ e.pa = None \/ IsTable(e, l) THEN {} ELSE e.pa .. e.pa + Pages(l) - 1

(* The entries that the commands write at level l *)
Good(e, l) ==
  /\ e \in Entries
  /\ \/ e.desc = 0 /\ ~e.ns /\ e.hipas \in {"UNASSIGNED", "DESTROYED"} /\ e.pa = None
     \/ /\ e.desc = 0 /\ ~e.ns /\ e.hipas = "ASSIGNED" /\ e.pa \in Granules
        /\ l \in {2, 3} /\ Aligned(e.pa, l)
     \/ e.desc = 3 /\ ~e.ns /\ e.pa \in Granules
     \/ e.desc = LeafDesc(l) /\ e.ns /\ l \in {2, 3}

Points(V, p, t, k) == IsTable(V[t][k], p[t].lvl)
Holds(V, p, t, k)  == Mem(V[t][k], p[t].lvl)

TreeTyped(V, G, p) ==
  /\ V \in [Tables -> [Slots -> Entries]]
  /\ G \in [Granules -> {"DELEGATED", "RTT", "DATA"}]
  /\ p \in [Tables -> Places]
PlacesGood(G, p) ==
  /\ \A r \in Realms : p[r].r = r /\ p[r].base = 0 /\ p[r].lvl = StartLevel
  /\ \A t \in Used(G) : p[t].r \in Realms /\ Base(p[t].base, p[t].lvl) = p[t].base
PlacesDiffer(G, p) == \A t, u \in Used(G) : p[t] = p[u] => t = u
EntriesGood(V, G, p) == \A t \in Used(G), k \in Slots : Good(V[t][k], p[t].lvl)
ChildrenPlaced(V, G, p) ==
  \A t \in Used(G), k \in Slots : Points(V, p, t, k) =>
    LET g == V[t][k].pa IN g \in Granules /\ G[g] = "RTT" /\ p[g] = Child(p[t], k)
ParentsExist(V, G, p) ==
  \A g \in Granules : G[g] = "RTT" =>
    \E t \in Used(G), k \in Slots : Points(V, p, t, k) /\ V[t][k].pa = g
Shape(V, G, p) ==
  /\ TreeTyped(V, G, p) /\ PlacesGood(G, p) /\ PlacesDiffer(G, p)
  /\ EntriesGood(V, G, p) /\ ChildrenPlaced(V, G, p) /\ ParentsExist(V, G, p)

MemoryIsData(V, G, p, D) ==
  \A t \in Used(G), k \in Slots : \A g \in Holds(V, p, t, k) :
    g \in Granules /\ G[g] = "DATA" /\ g \notin D /\ InPar(Last(p[t], k))
MemoryDiffers(V, G, p) ==
  \A t, u \in Used(G), k, j \in Slots : \A g \in Holds(V, p, t, k) :
    g \in Holds(V, p, u, j) => t = u /\ k = j
DataIsMemory(V, G, p, D) ==
  \A g \in Granules : G[g] = "DATA" =>
    g \in D \/ \E t \in Used(G), k \in Slots : g \in Holds(V, p, t, k)
DyingIsData(G, D) == \A g \in D : g \in Granules /\ G[g] = "DATA"
Memory(V, G, p, D) ==
  /\ MemoryIsData(V, G, p, D) /\ MemoryDiffers(V, G, p)
  /\ DataIsMemory(V, G, p, D) /\ DyingIsData(G, D)

---------------------------------------------------------------------------
(* W is V with entry k of table t written anew, and neither the old nor    *)
(* the new entry is a table's.                                             *)
Put(V, W, G, p, t, k) ==
  /\ W \in [Tables -> [Slots -> Entries]]
  /\ t \in Used(G) /\ k \in Slots
  /\ \A u \in Tables, j \in Slots : (u = t /\ j = k) \/ W[u][j] = V[u][j]
  /\ ~Points(V, p, t, k) /\ ~Points(W, p, t, k)
  /\ Good(W[t][k], p[t].lvl)

(* The same granules are tables. *)
SameTables(G, H) ==
  /\ H \in [Granules -> {"DELEGATED", "RTT", "DATA"}]
  /\ \A g \in Granules : G[g] = "RTT" <=> H[g] = "RTT"

LEMMA UsedAreTables ==
  ASSUME NEW G
  PROVE  Used(G) \subseteq Tables
BY DEF Used, Tables

LEMMA PutShape ==
  ASSUME NEW V, NEW W, NEW G, NEW H, NEW p, NEW t, NEW k,
         Shape(V, G, p), Put(V, W, G, p, t, k), SameTables(G, H)
  PROVE  Shape(W, H, p) /\ Used(H) = Used(G)
<1>1. Used(H) = Used(G)
  BY DEF Used, SameTables
<1>2. \A u \in Used(G), j \in Slots : (u = t /\ j = k) \/ W[u][j] = V[u][j]
  BY UsedAreTables DEF Put
<1>3. \A u \in Used(G), j \in Slots : Points(W, p, u, j) <=> Points(V, p, u, j)
  BY <1>2 DEF Put, Points
<1>4. TreeTyped(W, H, p)
  BY DEF Shape, TreeTyped, Put, SameTables
<1>5. PlacesGood(H, p) /\ PlacesDiffer(H, p)
  BY <1>1 DEF Shape, PlacesGood, PlacesDiffer
<1>6. EntriesGood(W, H, p)
  BY <1>1, <1>2 DEF Shape, EntriesGood, Put
<1>7. ChildrenPlaced(W, H, p)
  BY <1>1, <1>2, <1>3 DEF Shape, ChildrenPlaced, Put, SameTables
<1>8. ParentsExist(W, H, p)
  <2> SUFFICES ASSUME NEW g \in Granules, H[g] = "RTT"
               PROVE  \E u \in Used(H), j \in Slots : Points(W, p, u, j) /\ W[u][j].pa = g
    BY DEF ParentsExist
  <2>1. PICK u \in Used(G), j \in Slots : Points(V, p, u, j) /\ V[u][j].pa = g
    BY DEF Shape, ParentsExist, SameTables
  <2> QED BY <1>1, <1>2, <1>3, <2>1 DEF Put
<1> QED BY <1>1, <1>4, <1>5, <1>6, <1>7, <1>8 DEF Shape

LEMMA PutHolds ==
  ASSUME NEW V, NEW W, NEW G, NEW p, NEW t, NEW k, Put(V, W, G, p, t, k)
  PROVE  /\ t \in Used(G) /\ k \in Slots
         /\ \A u \in Used(G), j \in Slots :
              (u = t /\ j = k) \/ Holds(W, p, u, j) = Holds(V, p, u, j)
BY UsedAreTables DEF Put, Holds

LEMMA PutSame ==
  ASSUME NEW V, NEW W, NEW G, NEW p, NEW D, NEW t, NEW k,
         Shape(V, G, p), Memory(V, G, p, D), Put(V, W, G, p, t, k),
         Holds(W, p, t, k) = Holds(V, p, t, k)
  PROVE  Shape(W, G, p) /\ Memory(W, G, p, D)
<1>1. \A u \in Used(G), j \in Slots : Holds(W, p, u, j) = Holds(V, p, u, j)
  BY PutHolds
<1>2. SameTables(G, G)
  BY DEF SameTables, Shape, TreeTyped
<1>3. Memory(W, G, p, D)
  BY <1>1 DEF Memory, MemoryIsData, MemoryDiffers, DataIsMemory
<1> QED BY <1>2, <1>3, PutShape

(* Granule g becomes the memory of the entry. *)
LEMMA PutMemory ==
  ASSUME NEW V, NEW W, NEW G, NEW p, NEW D, NEW t, NEW k, NEW g \in Granules,
         Shape(V, G, p), Memory(V, G, p, D), Put(V, W, G, p, t, k),
         Holds(V, p, t, k) = {}, Holds(W, p, t, k) = {g}, InPar(Last(p[t], k)),
         G[g] = "DELEGATED"
  PROVE  LET H == [G EXCEPT ![g] = "DATA"] IN Shape(W, H, p) /\ Memory(W, H, p, D)
<1> DEFINE H == [G EXCEPT ![g] = "DATA"]
<1>1. H[g] = "DATA" /\ \A x \in Granules : x # g => H[x] = G[x]
  BY DEF Shape, TreeTyped
<1>2. SameTables(G, H)
  BY <1>1 DEF SameTables, Shape, TreeTyped
<1> HIDE DEF H
<1>3. Shape(W, H, p) /\ Used(H) = Used(G)
  BY <1>2, PutShape
<1>4. \A u \in Used(G), j \in Slots :
        (u = t /\ j = k) \/ (Holds(W, p, u, j) = Holds(V, p, u, j) /\ g \notin Holds(V, p, u, j))
  BY PutHolds DEF Memory, MemoryIsData
<1>5. t \in Used(G) /\ k \in Slots /\ g \notin D
  BY PutHolds DEF Memory, DyingIsData
<1>6. MemoryIsData(W, H, p, D)
  BY <1>1, <1>3, <1>4, <1>5 DEF Memory, MemoryIsData
<1>7. MemoryDiffers(W, H, p)
  BY <1>3, <1>4, <1>5 DEF Memory, MemoryDiffers
<1>8. DataIsMemory(W, H, p, D)
  <2> SUFFICES ASSUME NEW x \in Granules, H[x] = "DATA", x \notin D
               PROVE  \E u \in Used(H), j \in Slots : x \in Holds(W, p, u, j)
    BY DEF DataIsMemory
  <2>1. CASE x = g
    BY <2>1, <1>3, <1>5
  <2>2. CASE x # g
    <3>1. PICK u \in Used(G), j \in Slots : x \in Holds(V, p, u, j)
      BY <2>2, <1>1 DEF Memory, DataIsMemory
    <3> QED BY <3>1, <1>3, <1>4
  <2> QED BY <2>1, <2>2
<1>9. DyingIsData(H, D)
  BY <1>1 DEF Memory, DyingIsData
<1> QED BY <1>3, <1>6, <1>7, <1>8, <1>9 DEF Memory, H

(* The entry gives up the granule g, which is to be freed. *)
LEMMA PutDying ==
  ASSUME NEW V, NEW W, NEW G, NEW p, NEW D, NEW t, NEW k, NEW g,
         Shape(V, G, p), Memory(V, G, p, D), Put(V, W, G, p, t, k),
         Holds(V, p, t, k) = {g}, Holds(W, p, t, k) = {}
  PROVE  Shape(W, G, p) /\ Memory(W, G, p, D \cup {g}) /\ g \notin D /\ g \in Granules
         /\ G[g] = "DATA"
<1>1. SameTables(G, G)
  BY DEF SameTables, Shape, TreeTyped
<1>2. Shape(W, G, p)
  BY <1>1, PutShape
<1>3. t \in Used(G) /\ k \in Slots
  BY PutHolds
<1>4. \A u \in Used(G), j \in Slots :
        (u = t /\ j = k) \/ (Holds(W, p, u, j) = Holds(V, p, u, j) /\ g \notin Holds(V, p, u, j))
  BY PutHolds, <1>3 DEF Memory, MemoryDiffers
<1>5. g \in Granules /\ G[g] = "DATA" /\ g \notin D
  BY <1>3 DEF Memory, MemoryIsData
<1>6. MemoryIsData(W, G, p, D \cup {g})
  BY <1>4 DEF Memory, MemoryIsData
<1>7. MemoryDiffers(W, G, p)
  BY <1>4 DEF Memory, MemoryDiffers
<1>8. DataIsMemory(W, G, p, D \cup {g})
  BY <1>4 DEF Memory, DataIsMemory
<1>9. DyingIsData(G, D \cup {g})
  BY <1>5 DEF Memory, DyingIsData
<1> QED BY <1>2, <1>5, <1>6, <1>7, <1>8, <1>9 DEF Memory

(* Granule g gets the state s. *)
Becomes(G, H, g, s) == H = [G EXCEPT ![g] = s]

LEMMA FreeDying ==
  ASSUME NEW V, NEW G, NEW p, NEW D, NEW g \in D, Shape(V, G, p), Memory(V, G, p, D),
         NEW H, Becomes(G, H, g, "DELEGATED")
  PROVE  Shape(V, H, p) /\ Memory(V, H, p, D \ {g})
<1>1. g \in Granules /\ G[g] = "DATA"
  BY DEF Memory, DyingIsData
<1>2. H[g] = "DELEGATED" /\ (\A x \in Granules : x # g => H[x] = G[x])
      /\ H \in [Granules -> {"DELEGATED", "RTT", "DATA"}]
  BY <1>1 DEF Shape, TreeTyped, Becomes
<1>3. Used(H) = Used(G)
  BY <1>1, <1>2 DEF Used
<1>4. Shape(V, H, p)
  BY <1>1, <1>2, <1>3 DEF Shape, TreeTyped, PlacesGood, PlacesDiffer, EntriesGood, ChildrenPlaced,
                    ParentsExist
<1>5. MemoryIsData(V, H, p, D \ {g})
  BY <1>2, <1>3 DEF Memory, MemoryIsData
<1>6. MemoryDiffers(V, H, p)
  BY <1>3 DEF Memory, MemoryDiffers
<1>7. DataIsMemory(V, H, p, D \ {g})
  BY <1>2, <1>3 DEF Memory, DataIsMemory
<1>8. DyingIsData(H, D \ {g})
  BY <1>2 DEF Memory, DyingIsData
<1> QED BY <1>4, <1>5, <1>6, <1>7, <1>8 DEF Memory

LEMMA ChildInjective ==
  ASSUME NEW x \in Places, NEW y \in Places, NEW j \in Slots, NEW k \in Slots,
         Base(x.base, x.lvl) = x.base, Base(y.base, y.lvl) = y.base, Child(x, j) = Child(y, k)
  PROVE  x = y /\ j = k
<1>1. x.r = y.r /\ x.lvl = y.lvl /\ Start(x.base, j, x.lvl) = Start(y.base, k, y.lvl)
  <2>1. x.lvl \in Levels /\ y.lvl \in Levels
    BY DEF Places
  <2>2. x.lvl \in Int /\ y.lvl \in Int
    BY <2>1, LevelIs
  <2> QED BY <2>2 DEF Child
<1>2. 0 \in 0 .. Pages(x.lvl) - 1
  <2>1. Pages(x.lvl) \in Nat /\ Pages(x.lvl) > 0
    BY PagesAre, LevelsAre DEF Places
  <2> QED BY <2>1
<1>3. PICK i : i = Start(x.base, j, x.lvl) + 0
  OBVIOUS
<1>4. Base(i, x.lvl) = x.base /\ Index(i, x.lvl) = j
  BY <1>2, <1>3, SpotAt DEF Places
<1>5. i = Start(y.base, k, y.lvl) + 0
  BY <1>1, <1>3
<1>6. Base(i, y.lvl) = y.base /\ Index(i, y.lvl) = k
  BY <1>1, <1>2, <1>5, SpotAt DEF Places
<1> QED BY <1>1, <1>4, <1>6 DEF Places

LEMMA ChildIsPlace ==
  ASSUME NEW x \in Places, NEW k \in Slots, x.lvl < 3, Base(x.base, x.lvl) = x.base
  PROVE  LET y == Child(x, k)
         IN  y \in Places /\ Base(y.base, y.lvl) = y.base /\ y.lvl # StartLevel /\ y.lvl # x.lvl
<1>1. x.lvl \in Int /\ x.lvl >= StartLevel
  BY Stage2Assumption DEF Places, Levels, RTT_PAGE_LEVEL
<1>2. x.lvl + 1 # StartLevel /\ x.lvl + 1 # x.lvl
  BY <1>1, Stage2Assumption
<1> QED BY <1>2, ChildBase DEF Places, Child

LEMMA LastOfChild ==
  ASSUME NEW x \in Places, NEW k \in Slots, NEW j \in Slots, x.lvl < 3,
         Base(x.base, x.lvl) = x.base, InPar(Last(x, k))
  PROVE  InPar(Last(Child(x, k), j))
<1>1. PICK P \in Nat : P > 0 /\ P = Pages(x.lvl + 1) /\ Pages(x.lvl) = P * E
  <2>1. x.lvl \in Levels
    BY DEF Places
  <2>2. x.lvl \in 0 .. 2
    BY <2>1, LevelIs
  <2>3. x.lvl + 1 \in 0 .. 3
    BY <2>2
  <2> QED BY <2>2, <2>3, PagesStep, PagesAre
<1>2. PICK N \in Nat : N = P * E
  BY <1>1, EPositive
<1>3. j * P + P <= N /\ j * P \in Nat
  <2>1. j \in 0 .. E - 1 /\ E \in Nat
    BY EPositive DEF Slots
  <2>2. P * j + P <= P * E
    BY <2>1, Multiples
  <2>3. P * j = j * P /\ j * P \in Nat
    BY <2>1
  <2> QED BY <2>2, <2>3, <1>2
<1>4. PICK z \in Nat : z = j * P
  BY <1>3
<1>5. PICK s \in Nat : s = Start(x.base, k, x.lvl)
  BY ChildBase DEF Places, Ipas
<1>6. Last(Child(x, k), j) = s + z + P - 1
  BY <1>1, <1>4, <1>5 DEF Last, Child, Start
<1>7. Last(x, k) = s + N - 1
  BY <1>1, <1>2, <1>5 DEF Last
<1>8. NumIpas \in Int
  BY LevelsAre, PagesAre, EPositive DEF NumIpas
<1> QED BY <1>3, <1>4, <1>6, <1>7, <1>8 DEF InPar

LEMMA LastIsLastOfChild ==
  ASSUME NEW x \in Places, NEW k \in Slots, x.lvl = 2, Base(x.base, x.lvl) = x.base
  PROVE  Last(Child(x, k), E - 1) = Last(x, k)
<1>1. PICK s \in Nat : s = Start(x.base, k, x.lvl)
  <2>1. x.base \in Ipas /\ x.lvl \in Levels /\ x.lvl < 3
    BY DEF Places
  <2>2. Start(x.base, k, x.lvl) \in Ipas
    BY <2>1, ChildBase
  <2> QED BY <2>2 DEF Ipas
<1>2. Pages(x.lvl + 1) = 1 /\ Pages(x.lvl) = E
  BY PagesAre
<1>3. Last(Child(x, k), E - 1) = s + (E - 1) * 1 + 1 - 1 /\ Last(x, k) = s + E - 1
  BY <1>1, <1>2 DEF Last, Child, Start
<1> QED BY <1>3, EPositive

LEMMA TableEntry ==
  ASSUME NEW g \in Granules, NEW l, l < 3
  PROVE  /\ CreateTable(g) \in Entries /\ CreateTable(g).pa = g
         /\ IsTable(CreateTable(g), l) /\ Good(CreateTable(g), l) /\ Mem(CreateTable(g), l) = {}
BY DEF CreateTable, Mapping, Entries, IsTable, Good, Mem, S2TTE_L012_TABLE, RTT_PAGE_LEVEL,
       S2TTE_Lx_INVALID, S2TTE_L012_BLOCK, S2TTE_L3_PAGE, Ripas

(* Table g is at place x. *)
PlacedAt(p, q, g, x) == q = [p EXCEPT ![g] = x]

(* The entry is split: its memory is that of the new table g. *)
Split(V, W, G, p, t, k, g) ==
  /\ W \in [Tables -> [Slots -> Entries]]
  /\ t \in Used(G) /\ k \in Slots /\ p[t].lvl < 3
  /\ g \in Granules /\ G[g] = "DELEGATED"
  /\ \A u \in Tables, j \in Slots : (u = t /\ j = k) \/ u = g \/ W[u][j] = V[u][j]
  /\ ~Points(V, p, t, k) /\ W[t][k] = CreateTable(g)
  /\ \A j \in Slots : Good(W[g][j], p[t].lvl + 1) /\ ~IsTable(W[g][j], p[t].lvl + 1)
  /\ \A x \in Holds(V, p, t, k) : \E j \in Slots : x \in Mem(W[g][j], p[t].lvl + 1)
  /\ \A j \in Slots : \A x \in Mem(W[g][j], p[t].lvl + 1) :
       /\ x \in Holds(V, p, t, k)
       /\ \A i \in Slots : x \in Mem(W[g][i], p[t].lvl + 1) => i = j

LEMMA SplitTree ==
  ASSUME NEW V, NEW W, NEW G, NEW p, NEW D, NEW t, NEW k, NEW g,
         Shape(V, G, p), Memory(V, G, p, D), Split(V, W, G, p, t, k, g),
         NEW H, Becomes(G, H, g, "RTT"), NEW q, PlacedAt(p, q, g, Child(p[t], k))
  PROVE  Shape(W, H, q) /\ Memory(W, H, q, D) /\ Used(H) = Used(G) \cup {g}
<1> DEFINE l == p[t].lvl
<1>1. /\ t \in Used(G) /\ k \in Slots /\ l < 3 /\ g \in Granules /\ G[g] = "DELEGATED"
      /\ t \in Tables /\ g \in Tables
  BY UsedAreTables DEF Split, Tables
<1>2. /\ H \in [Granules -> {"DELEGATED", "RTT", "DATA"}]
      /\ H[g] = "RTT" /\ \A x \in Granules : x # g => H[x] = G[x]
  BY <1>1 DEF Shape, TreeTyped, Becomes
<1>3. g \notin Used(G) /\ g \notin Realms
  BY <1>1, Stage2Assumption DEF Used, Granules
<1>4. Used(H) = Used(G) \cup {g}
  BY <1>1, <1>2, <1>3 DEF Used
<1>5. p[t] \in Places /\ Base(p[t].base, l) = p[t].base
  BY <1>1 DEF Shape, TreeTyped, PlacesGood
<1>6. PICK y \in Places : /\ y = Child(p[t], k) /\ Base(y.base, y.lvl) = y.base
                          /\ y.lvl # StartLevel /\ y.lvl = l + 1 /\ y.r = p[t].r
  BY <1>1, <1>5, ChildIsPlace DEF Child
<1>7. q \in [Tables -> Places] /\ q[g] = y /\ \A u \in Used(G) : q[u] = p[u]
  BY <1>1, <1>3, <1>6, UsedAreTables DEF Shape, TreeTyped, PlacedAt
<1>8. \A u \in Used(G), j \in Slots :
        \/ u = t /\ j = k
        \/ /\ W[u][j] = V[u][j] /\ (Points(W, q, u, j) <=> Points(V, p, u, j))
           /\ Holds(W, q, u, j) = Holds(V, p, u, j)
  BY <1>3, <1>7, UsedAreTables DEF Split, Points, Holds
<1>9. /\ W[t][k] = CreateTable(g) /\ W[t][k].pa = g /\ Points(W, q, t, k)
      /\ Holds(W, q, t, k) = {} /\ Good(W[t][k], q[t].lvl)
  BY <1>1, <1>7, TableEntry DEF Split, Points, Holds
<1>10. \A j \in Slots : /\ Good(W[g][j], q[g].lvl) /\ ~Points(W, q, g, j)
                        /\ Holds(W, q, g, j) = Mem(W[g][j], l + 1)
  BY <1>6, <1>7 DEF Split, Points, Holds
<1>11. TreeTyped(W, H, q)
  BY <1>2, <1>7 DEF TreeTyped, Split
<1>12. PlacesGood(H, q)
  <2>1. y.r \in Realms
    BY <1>1, <1>6 DEF Shape, PlacesGood
  <2>2. Realms \subseteq Used(G)
    BY DEF Used
  <2> QED BY <1>4, <1>6, <1>7, <2>1, <2>2 DEF Shape, PlacesGood
<1>13. PlacesDiffer(H, q)
  <2>1. ASSUME NEW u \in Used(G), p[u] = y
        PROVE  FALSE
    <3>1. u \notin Realms
      BY <1>6, <2>1 DEF Shape, PlacesGood
    <3>2. u \in Granules /\ G[u] = "RTT"
      BY <3>1 DEF Used
    <3>3. PICK v \in Used(G), j \in Slots : Points(V, p, v, j) /\ V[v][j].pa = u
      BY <3>2 DEF Shape, ParentsExist
    <3>4. p[u] = Child(p[v], j)
      BY <3>3 DEF Shape, ChildrenPlaced
    <3>5. p[v] \in Places /\ Base(p[v].base, p[v].lvl) = p[v].base
      BY UsedAreTables DEF Shape, TreeTyped, PlacesGood
    <3>6. p[v] = p[t] /\ j = k
      <4>1. Child(p[v], j) = Child(p[t], k)
        BY <1>6, <2>1, <3>4
      <4> QED BY <4>1, <1>1, <1>5, <3>5, ChildInjective
    <3>7. v = t
      BY <1>1, <3>6 DEF Shape, PlacesDiffer
    <3> QED BY <3>3, <3>6, <3>7 DEF Split
  <2> QED BY <1>4, <1>7, <2>1 DEF Shape, PlacesDiffer
<1>14. EntriesGood(W, H, q)
  BY <1>4, <1>7, <1>8, <1>9, <1>10 DEF EntriesGood, Shape
<1>15. ChildrenPlaced(W, H, q)
  <2> SUFFICES ASSUME NEW u \in Used(G), NEW j \in Slots, Points(W, q, u, j)
               PROVE  LET x == W[u][j].pa
                      IN  x \in Granules /\ H[x] = "RTT" /\ q[x] = Child(q[u], j)
    BY <1>4, <1>10 DEF ChildrenPlaced
  <2>1. CASE u = t /\ j = k
    BY <2>1, <1>1, <1>2, <1>6, <1>7, <1>9
  <2>2. CASE ~(u = t /\ j = k)
    <3>1. W[u][j] = V[u][j] /\ Points(V, p, u, j)
      BY <2>2, <1>8
    <3>2. PICK x \in Granules : x = V[u][j].pa /\ G[x] = "RTT" /\ p[x] = Child(p[u], j)
      BY <3>1 DEF Shape, ChildrenPlaced
    <3>3. x \in Used(G) /\ x # g
      BY <3>2, <1>1 DEF Used
    <3> QED BY <3>1, <3>2, <3>3, <1>2, <1>7
  <2> QED BY <2>1, <2>2
<1>16. ParentsExist(W, H, q)
  <2> SUFFICES ASSUME NEW x \in Granules, H[x] = "RTT"
               PROVE  \E u \in Used(H), j \in Slots : Points(W, q, u, j) /\ W[u][j].pa = x
    BY DEF ParentsExist
  <2>1. CASE x = g
    BY <2>1, <1>1, <1>4, <1>9
  <2>2. CASE x # g
    <3>1. PICK u \in Used(G), j \in Slots : Points(V, p, u, j) /\ V[u][j].pa = x
      BY <2>2, <1>2 DEF Shape, ParentsExist
    <3>2. ~(u = t /\ j = k)
      BY <3>1 DEF Split
    <3> QED BY <3>1, <3>2, <1>4, <1>8
  <2> QED BY <2>1, <2>2
<1>17. MemoryIsData(W, H, q, D)
  <2> SUFFICES ASSUME NEW u \in Used(H), NEW j \in Slots, NEW x \in Holds(W, q, u, j)
               PROVE  x \in Granules /\ H[x] = "DATA" /\ x \notin D /\ InPar(Last(q[u], j))
    BY DEF MemoryIsData
  <2>1. CASE u = g
    <3>1. x \in Holds(V, p, t, k)
      BY <2>1, <1>10 DEF Split
    <3>2. x \in Granules /\ G[x] = "DATA" /\ x \notin D /\ InPar(Last(p[t], k))
      BY <3>1, <1>1 DEF Memory, MemoryIsData
    <3>3. InPar(Last(q[u], j))
      BY <2>1, <3>2, <1>1, <1>5, <1>6, <1>7, LastOfChild
    <3> QED BY <3>2, <3>3, <1>1, <1>2
  <2>2. CASE u # g
    <3>1. u \in Used(G) /\ ~(u = t /\ j = k)
      BY <2>2, <1>4, <1>9
    <3>2. x \in Holds(V, p, u, j) /\ q[u] = p[u]
      BY <3>1, <1>7, <1>8
    <3> QED BY <3>1, <3>2, <1>1, <1>2 DEF Memory, MemoryIsData
  <2> QED BY <2>1, <2>2
<1>18. MemoryDiffers(W, H, q)
  <2> SUFFICES ASSUME NEW u \in Used(H), NEW v \in Used(H), NEW i \in Slots, NEW j \in Slots,
                      NEW x \in Holds(W, q, u, i), x \in Holds(W, q, v, j)
               PROVE  u = v /\ i = j
    BY DEF MemoryDiffers
  <2>1. \A w \in Used(G), m \in Slots : x \in Holds(W, q, w, m) =>
          x \in Holds(V, p, w, m) /\ ~(w = t /\ m = k)
    BY <1>8, <1>9
  <2>2. \A m \in Slots : x \in Holds(W, q, g, m) => x \in Holds(V, p, t, k)
    BY <1>10 DEF Split
  <2>3. \A w, z \in Used(G), m, n \in Slots :
          x \in Holds(V, p, w, m) /\ x \in Holds(V, p, z, n) => w = z /\ m = n
    BY DEF Memory, MemoryDiffers
  <2>4. CASE u = g /\ v = g
    <3>1. x \in Mem(W[g][i], p[t].lvl + 1) /\ x \in Mem(W[g][j], p[t].lvl + 1)
      BY <2>4, <1>10
    <3> QED BY <3>1, <2>4 DEF Split
  <2>5. CASE u = g /\ v # g
    BY <2>5, <2>1, <2>2, <2>3, <1>1, <1>4
  <2>6. CASE u # g /\ v = g
    BY <2>6, <2>1, <2>2, <2>3, <1>1, <1>4
  <2>7. CASE u # g /\ v # g
    BY <2>7, <2>1, <2>3, <1>4
  <2> QED BY <2>4, <2>5, <2>6, <2>7
<1>19. DataIsMemory(W, H, q, D)
  <2> SUFFICES ASSUME NEW x \in Granules, H[x] = "DATA", x \notin D
               PROVE  \E u \in Used(H), j \in Slots : x \in Holds(W, q, u, j)
    BY DEF DataIsMemory
  <2>1. PICK u \in Used(G), j \in Slots : x \in Holds(V, p, u, j)
    BY <1>2 DEF Memory, DataIsMemory
  <2>2. CASE u = t /\ j = k
    <3>1. PICK i \in Slots : x \in Mem(W[g][i], l + 1)
      BY <2>1, <2>2 DEF Split
    <3> QED BY <3>1, <1>4, <1>10
  <2>3. CASE ~(u = t /\ j = k)
    BY <2>1, <2>3, <1>4, <1>8
  <2> QED BY <2>2, <2>3
<1>20. DyingIsData(H, D)
  BY <1>1, <1>2 DEF Memory, DyingIsData
<1> QED BY <1>4, <1>11, <1>12, <1>13, <1>14, <1>15, <1>16, <1>17, <1>18, <1>19, <1>20
        DEF Shape, Memory

(* The table g goes, and the entry has what was its memory. *)
Merge(V, W, G, p, t, k, g) ==
  /\ W \in [Tables -> [Slots -> Entries]]
  /\ t \in Used(G) /\ k \in Slots
  /\ \A u \in Tables, j \in Slots : (u = t /\ j = k) \/ u = g \/ W[u][j] = V[u][j]
  /\ Points(V, p, t, k) /\ V[t][k].pa = g /\ ~Points(W, p, t, k) /\ Good(W[t][k], p[t].lvl)
  /\ \A j \in Slots : ~Points(V, p, g, j)
  /\ Holds(W, p, t, k) # {} => InPar(Last(p[t], k))
  /\ \A x \in Holds(W, p, t, k) : \E j \in Slots : x \in Holds(V, p, g, j)
  /\ \A j \in Slots : \A x \in Holds(V, p, g, j) : x \in Holds(W, p, t, k)

LEMMA MergeTree ==
  ASSUME NEW V, NEW W, NEW G, NEW p, NEW D, NEW t, NEW k, NEW g,
         Shape(V, G, p), Memory(V, G, p, D), Merge(V, W, G, p, t, k, g),
         NEW H, Becomes(G, H, g, "DELEGATED")
  PROVE  /\ Shape(W, H, p) /\ Memory(W, H, p, D)
         /\ Used(H) = Used(G) \ {g} /\ g \in Granules /\ g # t
<1>1. /\ t \in Used(G) /\ k \in Slots /\ g \in Granules /\ G[g] = "RTT"
      /\ p[g] = Child(p[t], k) /\ g \in Used(G)
  BY DEF Merge, Shape, ChildrenPlaced, Used
<1>2. /\ H \in [Granules -> {"DELEGATED", "RTT", "DATA"}]
      /\ H[g] = "DELEGATED" /\ \A x \in Granules : x # g => H[x] = G[x]
  BY <1>1 DEF Shape, TreeTyped, Becomes
<1>3. g \notin Realms
  BY <1>1, Stage2Assumption DEF Granules
<1>4. Used(H) = Used(G) \ {g} /\ Used(H) \subseteq Used(G)
  BY <1>1, <1>2, <1>3 DEF Used
<1>5. \A u \in Used(G) : p[u] \in Places /\ Base(p[u].base, p[u].lvl) = p[u].base
  BY UsedAreTables DEF Shape, TreeTyped, PlacesGood
<1>6. t # g
  <2>1. p[t].lvl \in Int /\ p[g].lvl = p[t].lvl + 1
    BY <1>1, <1>5, LevelIs DEF Child, Places
  <2> QED BY <2>1
<1>7. \A u \in Used(H), j \in Slots :
        \/ u = t /\ j = k
        \/ /\ W[u][j] = V[u][j] /\ (Points(W, p, u, j) <=> Points(V, p, u, j))
           /\ Holds(W, p, u, j) = Holds(V, p, u, j)
  BY <1>4, UsedAreTables DEF Merge, Points, Holds
<1>8. t \in Used(H)
  BY <1>1, <1>4, <1>6
<1>9. \A u \in Used(G), j \in Slots : Points(V, p, u, j) /\ V[u][j].pa = g => u = t /\ j = k
  <2> SUFFICES ASSUME NEW u \in Used(G), NEW j \in Slots, Points(V, p, u, j), V[u][j].pa = g
               PROVE  u = t /\ j = k
    OBVIOUS
  <2>1. Child(p[u], j) = Child(p[t], k)
    BY <1>1 DEF Shape, ChildrenPlaced
  <2>2. p[u] = p[t] /\ j = k
    BY <2>1, <1>1, <1>5, ChildInjective
  <2> QED BY <2>2, <1>1 DEF Shape, PlacesDiffer
<1>10. TreeTyped(W, H, p) /\ PlacesGood(H, p) /\ PlacesDiffer(H, p)
  BY <1>2, <1>4 DEF Shape, TreeTyped, PlacesGood, PlacesDiffer, Merge
<1>11. EntriesGood(W, H, p)
  BY <1>4, <1>7 DEF EntriesGood, Shape, Merge
<1>12. ChildrenPlaced(W, H, p)
  <2> SUFFICES ASSUME NEW u \in Used(H), NEW j \in Slots, Points(W, p, u, j)
               PROVE  LET x == W[u][j].pa
                      IN  x \in Granules /\ H[x] = "RTT" /\ p[x] = Child(p[u], j)
    BY DEF ChildrenPlaced
  <2>1. ~(u = t /\ j = k)
    BY DEF Merge
  <2>2. W[u][j] = V[u][j] /\ Points(V, p, u, j) /\ u \in Used(G)
    BY <2>1, <1>4, <1>7
  <2>3. V[u][j].pa # g
    BY <2>1, <2>2, <1>9
  <2> QED BY <2>2, <2>3, <1>2 DEF Shape, ChildrenPlaced
<1>13. ParentsExist(W, H, p)
  <2> SUFFICES ASSUME NEW x \in Granules, H[x] = "RTT"
               PROVE  \E u \in Used(H), j \in Slots : Points(W, p, u, j) /\ W[u][j].pa = x
    BY DEF ParentsExist
  <2>1. x # g
    BY <1>2
  <2>2. PICK u \in Used(G), j \in Slots : Points(V, p, u, j) /\ V[u][j].pa = x
    BY <2>1, <1>2 DEF Shape, ParentsExist
  <2>3. u # g /\ ~(u = t /\ j = k)
    BY <2>1, <2>2 DEF Merge
  <2> QED BY <2>2, <2>3, <1>4, <1>7
<1>14. \A u \in Used(H), j \in Slots : \A x \in Holds(W, p, u, j) :
         \/ ~(u = t /\ j = k) /\ x \in Holds(V, p, u, j)
         \/ u = t /\ j = k /\ \E i \in Slots : x \in Holds(V, p, g, i)
  BY <1>7 DEF Merge
<1>15. MemoryIsData(W, H, p, D)
  <2> SUFFICES ASSUME NEW u \in Used(H), NEW j \in Slots, NEW x \in Holds(W, p, u, j)
               PROVE  x \in Granules /\ H[x] = "DATA" /\ x \notin D /\ InPar(Last(p[u], j))
    BY DEF MemoryIsData
  <2>1. PICK v \in Used(G), i \in Slots : x \in Holds(V, p, v, i)
    BY <1>1, <1>4, <1>14
  <2>2. x \in Granules /\ G[x] = "DATA" /\ x \notin D
    BY <2>1 DEF Memory, MemoryIsData
  <2>3. H[x] = "DATA"
    BY <2>2, <1>1, <1>2
  <2>4. InPar(Last(p[u], j))
    BY <1>4, <1>14 DEF Memory, MemoryIsData, Merge
  <2> QED BY <2>2, <2>3, <2>4
<1>16. MemoryDiffers(W, H, p)
  <2> SUFFICES ASSUME NEW u \in Used(H), NEW v \in Used(H), NEW i \in Slots, NEW j \in Slots,
                      NEW x \in Holds(W, p, u, i), x \in Holds(W, p, v, j)
               PROVE  u = v /\ i = j
    BY DEF MemoryDiffers
  <2>1. \A w, z \in Used(G), m, n \in Slots :
          x \in Holds(V, p, w, m) /\ x \in Holds(V, p, z, n) => w = z /\ m = n
    BY DEF Memory, MemoryDiffers
  <2>2. g \in Used(G) /\ u \in Used(G) /\ v \in Used(G) /\ u # g /\ v # g
    BY <1>1, <1>4
  <2>3. CASE u = t /\ i = k /\ v = t /\ j = k
    BY <2>3
  <2>4. CASE u = t /\ i = k /\ ~(v = t /\ j = k)
    BY <2>1, <2>2, <2>4, <1>14
  <2>5. CASE ~(u = t /\ i = k) /\ v = t /\ j = k
    BY <2>1, <2>2, <2>5, <1>14
  <2>6. CASE ~(u = t /\ i = k) /\ ~(v = t /\ j = k)
    BY <2>1, <2>2, <2>6, <1>14
  <2> QED BY <2>3, <2>4, <2>5, <2>6
<1>17. DataIsMemory(W, H, p, D)
  <2> SUFFICES ASSUME NEW x \in Granules, H[x] = "DATA", x \notin D
               PROVE  \E u \in Used(H), j \in Slots : x \in Holds(W, p, u, j)
    BY DEF DataIsMemory
  <2>1. PICK u \in Used(G), j \in Slots : x \in Holds(V, p, u, j)
    BY <1>2 DEF Memory, DataIsMemory
  <2>2. CASE u = g
    <3>1. x \in Holds(W, p, t, k)
      BY <2>1, <2>2 DEF Merge
    <3> QED BY <3>1, <1>1, <1>8
  <2>3. CASE u # g /\ u = t /\ j = k
    BY <2>1, <2>3 DEF Merge, Holds, Points, Mem
  <2>4. CASE u # g /\ ~(u = t /\ j = k)
    BY <2>1, <2>4, <1>4, <1>7
  <2> QED BY <2>2, <2>3, <2>4
<1>18. DyingIsData(H, D)
  BY <1>1, <1>2 DEF Memory, DyingIsData
<1> QED BY <1>1, <1>4, <1>6, <1>10, <1>11, <1>12, <1>13, <1>15, <1>16, <1>17, <1>18
        DEF Shape, Memory

---------------------------------------------------------------------------
(* Counting the live entries of a table *)
LiveCount(tb) == Cardinality({k \in Slots : Live(tb[k])})
LiveNum(e) == IF Live(e) THEN 1 ELSE 0

LEMMA SlotsFinite == IsFiniteSet(Slots) /\ Cardinality(Slots) = E
<1>1. 0 \in Int /\ E - 1 \in Int /\ E >= 2 /\ E \in Nat
  BY EPositive
<1> QED BY <1>1, FS_Interval DEF Slots

LEMMA LiveCountIs ==
  ASSUME NEW tb
  PROVE  /\ IsFiniteSet({k \in Slots : Live(tb[k])})
         /\ LiveCount(tb) \in 0 .. E
         /\ LiveCount(tb) = 0 <=> \A k \in Slots : ~Live(tb[k])
         /\ LiveCount(tb) = E <=> \A k \in Slots : Live(tb[k])
<1> DEFINE S == {k \in Slots : Live(tb[k])}
<1>1. S \subseteq Slots
  OBVIOUS
<1>2. /\ IsFiniteSet(S) /\ Cardinality(S) <= Cardinality(Slots)
      /\ Cardinality(S) = Cardinality(Slots) => S = Slots
  BY <1>1, SlotsFinite, FS_Subset
<1>3. Cardinality(S) \in Nat
  BY <1>2, FS_CardinalityType
<1>4. Cardinality(S) = 0 <=> S = {}
  BY <1>2, FS_EmptySet
<1>5. LiveCount(tb) = Cardinality(S)
  BY DEF LiveCount
<1>6. LiveCount(tb) \in 0 .. E
  BY <1>2, <1>3, <1>5, SlotsFinite, EPositive
<1>7. LiveCount(tb) = E <=> S = Slots
  BY <1>2, <1>5, SlotsFinite
<1> QED BY <1>2, <1>4, <1>5, <1>6, <1>7

LEMMA LiveCountPut ==
  ASSUME NEW tb, NEW tb2, NEW k \in Slots, \A j \in Slots : j = k \/ tb2[j] = tb[j]
  PROVE  LiveCount(tb2) = LiveCount(tb) + LiveNum(tb2[k]) - LiveNum(tb[k])
<1> DEFINE S == {j \in Slots : Live(tb[j])}
           Z == {j \in Slots : Live(tb2[j])}
<1>1. IsFiniteSet(S) /\ IsFiniteSet(Z)
  BY LiveCountIs
<1>2. LiveCount(tb) = Cardinality(S) /\ LiveCount(tb2) = Cardinality(Z)
  BY DEF LiveCount
<1>3. Cardinality(S) \in Nat /\ Cardinality(Z) \in Nat
  BY <1>1, FS_CardinalityType
<1>4. CASE Live(tb2[k]) <=> Live(tb[k])
  <2>1. S = Z
    BY <1>4
  <2>2. LiveNum(tb2[k]) = LiveNum(tb[k]) /\ LiveNum(tb[k]) \in Int
    BY <1>4 DEF LiveNum
  <2> QED BY <2>1, <2>2, <1>2, <1>3
<1>5. CASE Live(tb2[k]) /\ ~Live(tb[k])
  <2>1. Z = S \cup {k} /\ k \notin S
    BY <1>5
  <2>2. Cardinality(Z) = Cardinality(S) + 1
    BY <2>1, <1>1, FS_AddElement
  <2> QED BY <2>2, <1>2, <1>3, <1>5 DEF LiveNum
<1>6. CASE ~Live(tb2[k]) /\ Live(tb[k])
  <2>1. Z = S \ {k} /\ k \in S
    BY <1>6
  <2>2. Cardinality(Z) = Cardinality(S) - 1
    BY <2>1, <1>1, FS_RemoveElement
  <2> QED BY <2>2, <1>2, <1>3, <1>6 DEF LiveNum
<1> QED BY <1>4, <1>5, <1>6

---------------------------------------------------------------------------
(* The commands in progress.  F is the CPUs' frames, T the tables as the   *)
(* MMU sees them, R the reference counts.                                  *)
Frames == [pc : {"idle", "tlbi", "make", "free", "ripas", "stuck"},
           r : Realms \cup {None}, rd : Realms \cup {None}, llt : Tables \cup {None},
           idx : Slots, sub : Granules \cup {None}, old : Entries \cup {None},
           new : Entries \cup {None}, span : SUBSET Int,
           then : {"idle", "make", "free"}, gs : {"none", "RTT", "DELEGATED"}]

Locks(fr) == {fr.llt, fr.sub} \ {None}
LocksDiffer(F) == \A c, d \in Cpus : c # d => Locks(F[c]) \cap Locks(F[d]) = {}
Unlocked(F, t) == \A c \in Cpus : t \notin Locks(F[c])
Dying(F) == {F[c].sub : c \in {d \in Cpus : F[d].then = "free"}}

BreakAt(fr, t, k) == fr.then = "make" /\ fr.llt = t /\ fr.idx = k
ViewAt(T, F, t, k) ==
  IF \E c \in Cpus : BreakAt(F[c], t, k)
  THEN F[CHOOSE c \in Cpus : BreakAt(F[c], t, k)].old
  ELSE T[t][k]
View(T, F) == [t \in Tables |-> [k \in Slots |-> ViewAt(T, F, t, k)]]

(* A break: table sub is cut off, and its memory is the new entry's. *)
MakeOK(T, G, R, p, fr) ==
  LET l == p[fr.llt].lvl
  IN  /\ fr.pc \in {"tlbi", "make"} /\ fr.gs = "DELEGATED"
      /\ fr.llt \in Used(G) /\ l < 3
      /\ fr.sub \in Granules /\ G[fr.sub] = "RTT"
      /\ fr.old \in Entries /\ IsTable(fr.old, l) /\ fr.old.pa = fr.sub
      /\ T[fr.llt][fr.idx] = ZeroEntry
      /\ R[fr.sub] = 0 /\ R[fr.llt] = LiveCount(T[fr.llt]) + LiveNum(fr.new)
      /\ Good(fr.new, l) /\ ~IsTable(fr.new, l)
      /\ Mem(fr.new, l) # {} => InPar(Last(p[fr.llt], fr.idx))
      /\ \A j \in Slots : ~IsTable(T[fr.sub][j], l + 1)
      /\ \A x \in Mem(fr.new, l) : \E j \in Slots : x \in Mem(T[fr.sub][j], l + 1)
      /\ \A j \in Slots : \A x \in Mem(T[fr.sub][j], l + 1) : x \in Mem(fr.new, l)

(* DATA_DESTROY has changed the entry, and the reference is still there. *)
FreeOK(T, G, R, fr) ==
  /\ fr.pc \in {"tlbi", "free"}
  /\ fr.llt \in Used(G) /\ fr.sub \in Granules /\ G[fr.sub] = "DATA"
  /\ R[fr.llt] = LiveCount(T[fr.llt]) + 1 /\ LiveCount(T[fr.llt]) < E

FrameOK(T, G, R, p, fr) ==
  /\ fr.pc = "idle" => fr = IdleFrame
  /\ fr.llt # None => fr.llt \in Used(G)
  /\ fr.sub # None /\ fr.then # "free" => G[fr.sub] # "DATA"
  /\ fr.then = "idle" => fr.pc \in {"idle", "tlbi", "ripas", "stuck"}
  /\ fr.pc = "ripas" => fr.r \in Realms
  /\ fr.pc = "tlbi" => fr.r \in Realms
  /\ fr.pc \in {"ripas", "stuck"} => fr.then = "idle"
  /\ fr.then = "make" => MakeOK(T, G, R, p, fr)
  /\ fr.then = "free" => FreeOK(T, G, R, fr)

Typed(T, G, F, R) ==
  /\ T \in [Tables -> [Slots -> Entries]]
  /\ G \in [Granules -> {"DELEGATED", "RTT", "DATA"}]
  /\ F \in [Cpus -> Frames]
  /\ R \in [Tables -> Int]
Counted(T, G, F, R) ==
  \A t \in Used(G) : \/ R[t] = LiveCount(T[t])
                     \/ \E c \in Cpus : F[c].then # "idle" /\ t \in Locks(F[c])
UnusedZero(T, G, R) == \A g \in Granules : G[g] # "RTT" => R[g] = 0 /\ T[g] = ZeroTable
FramesOK(T, G, F, R, p) == \A c \in Cpus : FrameOK(T, G, R, p, F[c])

StateOK(T, G, F, R, p) ==
  /\ Typed(T, G, F, R)
  /\ Shape(View(T, F), G, p) /\ Memory(View(T, F), G, p, Dying(F))
  /\ LocksDiffer(F) /\ FramesOK(T, G, F, R, p)
  /\ Counted(T, G, F, R) /\ UnusedZero(T, G, R)

---------------------------------------------------------------------------
LEMMA NoneIsNoTable ==
  /\ None \notin Tables /\ None \notin Granules /\ None \notin Realms
  /\ Realms \cap Granules = {} /\ \A G : None \notin Used(G)
BY Stage2Assumption DEF Tables, Granules, Used

LEMMA ViewIs ==
  ASSUME NEW T, NEW F \in [Cpus -> Frames], LocksDiffer(F), NEW t \in Tables, NEW k \in Slots
  PROVE  /\ \A c \in Cpus : BreakAt(F[c], t, k) => ViewAt(T, F, t, k) = F[c].old
         /\ (\A c \in Cpus : ~BreakAt(F[c], t, k)) => ViewAt(T, F, t, k) = T[t][k]
         /\ View(T, F)[t][k] = ViewAt(T, F, t, k)
<1>1. ASSUME NEW c \in Cpus, BreakAt(F[c], t, k)
      PROVE  ViewAt(T, F, t, k) = F[c].old
  <2> DEFINE d == CHOOSE x \in Cpus : BreakAt(F[x], t, k)
  <2>1. d \in Cpus /\ BreakAt(F[d], t, k)
    BY <1>1
  <2>2. t \in Locks(F[d]) /\ t \in Locks(F[c])
    BY <1>1, <2>1, NoneIsNoTable DEF BreakAt, Locks
  <2>3. c = d
    BY <2>1, <2>2 DEF LocksDiffer
  <2> QED BY <1>1, <2>3 DEF ViewAt
<1>2. View(T, F)[t][k] = ViewAt(T, F, t, k)
  BY DEF View
<1> QED BY <1>1, <1>2 DEF ViewAt

LEMMA ViewUnlocked ==
  ASSUME NEW T, NEW F \in [Cpus -> Frames], LocksDiffer(F), NEW t \in Tables, Unlocked(F, t),
         NEW k \in Slots
  PROVE  View(T, F)[t][k] = T[t][k]
<1>1. \A c \in Cpus : ~BreakAt(F[c], t, k)
  BY NoneIsNoTable DEF BreakAt, Unlocked, Locks
<1> QED BY <1>1, ViewIs

(* The commands in progress that change a table are the same. *)
SameWork(F, H) ==
  \A c \in Cpus : \/ F[c].then = "idle" /\ H[c].then = "idle"
                  \/ /\ H[c].then = F[c].then /\ H[c].llt = F[c].llt /\ H[c].idx = F[c].idx
                     /\ H[c].sub = F[c].sub /\ H[c].old = F[c].old

LEMMA SameView ==
  ASSUME NEW T, NEW F \in [Cpus -> Frames], NEW H \in [Cpus -> Frames],
         LocksDiffer(F), LocksDiffer(H), SameWork(F, H)
  PROVE  View(T, H) = View(T, F) /\ Dying(H) = Dying(F)
<1>1. \A t, k : \A c \in Cpus : BreakAt(H[c], t, k) <=> BreakAt(F[c], t, k)
  BY DEF SameWork, BreakAt
<1>2. \A t \in Tables, k \in Slots : ViewAt(T, H, t, k) = ViewAt(T, F, t, k)
  <2> SUFFICES ASSUME NEW t \in Tables, NEW k \in Slots
               PROVE  ViewAt(T, H, t, k) = ViewAt(T, F, t, k)
    OBVIOUS
  <2>1. CASE \E c \in Cpus : BreakAt(F[c], t, k)
    <3>1. PICK c \in Cpus : BreakAt(F[c], t, k)
      BY <2>1
    <3>2. BreakAt(H[c], t, k) /\ H[c].old = F[c].old
      BY <3>1, <1>1 DEF SameWork, BreakAt
    <3>3. ViewAt(T, F, t, k) = F[c].old
      BY <3>1, ViewIs
    <3>4. ViewAt(T, H, t, k) = H[c].old
      BY <3>2, ViewIs
    <3> QED BY <3>2, <3>3, <3>4
  <2>2. CASE \A c \in Cpus : ~BreakAt(F[c], t, k)
    <3>1. \A c \in Cpus : ~BreakAt(H[c], t, k)
      BY <2>2, <1>1
    <3> QED BY <2>2, <3>1, ViewIs
  <2> QED BY <2>1, <2>2
<1>3. View(T, H) = View(T, F)
  BY <1>2 DEF View
<1>4. \A c \in Cpus : /\ H[c].then = "free" <=> F[c].then = "free"
                      /\ H[c].then = "free" => H[c].sub = F[c].sub
  BY DEF SameWork
<1>5. Dying(H) = Dying(F)
  BY <1>4 DEF Dying
<1> QED BY <1>3, <1>5

LEMMA FrameKept ==
  ASSUME NEW T, NEW G, NEW R, NEW p, NEW T2, NEW G2, NEW R2, NEW p2, NEW fr \in Frames,
         FrameOK(T, G, R, p, fr),
         \A x \in Locks(fr) : /\ T2[x] = T[x] /\ R2[x] = R[x] /\ p2[x] = p[x]
                              /\ x \in Used(G) => x \in Used(G2)
                              /\ x \in Granules => G2[x] = G[x]
  PROVE  FrameOK(T2, G2, R2, p2, fr)
<1>1. fr.llt # None => fr.llt \in Locks(fr)
  BY DEF Locks
<1>2. fr.sub # None => fr.sub \in Locks(fr) /\ fr.sub \in Granules
  BY DEF Locks, Frames
<1>3. fr.then = "make" => MakeOK(T2, G2, R2, p2, fr)
  <2> SUFFICES ASSUME fr.then = "make" PROVE MakeOK(T2, G2, R2, p2, fr)
    OBVIOUS
  <2>1. MakeOK(T, G, R, p, fr)
    BY DEF FrameOK
  <2>2. fr.llt # None /\ fr.sub # None
    BY <2>1, NoneIsNoTable DEF MakeOK
  <2>3. /\ T2[fr.llt] = T[fr.llt] /\ R2[fr.llt] = R[fr.llt] /\ p2[fr.llt] = p[fr.llt]
        /\ fr.llt \in Used(G2) /\ T2[fr.sub] = T[fr.sub] /\ R2[fr.sub] = R[fr.sub]
        /\ G2[fr.sub] = G[fr.sub]
    BY <1>1, <1>2, <2>1, <2>2 DEF MakeOK
  <2> QED BY <2>1, <2>3 DEF MakeOK
<1>4. fr.then = "free" => FreeOK(T2, G2, R2, fr)
  <2> SUFFICES ASSUME fr.then = "free" PROVE FreeOK(T2, G2, R2, fr)
    OBVIOUS
  <2>1. FreeOK(T, G, R, fr)
    BY DEF FrameOK
  <2>2. fr.llt # None /\ fr.sub # None
    BY <2>1, NoneIsNoTable DEF FreeOK
  <2> QED BY <1>1, <1>2, <2>1, <2>2 DEF FreeOK
<1>5. fr.llt # None => fr.llt \in Used(G2)
  BY <1>1 DEF FrameOK
<1>6. fr.sub # None /\ fr.then # "free" => G2[fr.sub] # "DATA"
  BY <1>2 DEF FrameOK
<1> QED BY <1>3, <1>4, <1>5, <1>6 DEF FrameOK

(* A step that changes no table, count or granule *)
LEMMA QuietStep ==
  ASSUME NEW T, NEW G, NEW F, NEW R, NEW p, NEW H \in [Cpus -> Frames], StateOK(T, G, F, R, p),
         SameWork(F, H), LocksDiffer(H), FramesOK(T, G, H, R, p)
  PROVE  StateOK(T, G, H, R, p)
<1>1. View(T, H) = View(T, F) /\ Dying(H) = Dying(F)
  BY SameView DEF StateOK, Typed
<1>2. Counted(T, G, H, R)
  <2>1. \A c \in Cpus : F[c].then # "idle" => H[c].then # "idle" /\ Locks(H[c]) = Locks(F[c])
    BY DEF SameWork, Locks
  <2> QED BY <2>1 DEF StateOK, Counted
<1> QED BY <1>1, <1>2 DEF StateOK, Typed

(* A command writes entry k of table t, which nobody has locked, and may   *)
(* take granules that nobody has locked from DELEGATED to DATA.            *)
Writes(T, T2, t, k) ==
  /\ T2 \in [Tables -> [Slots -> Entries]]
  /\ \A u \in Tables : u # t => T2[u] = T[u]
  /\ \A j \in Slots : j # k => T2[t][j] = T[t][j]

LEMMA ViewWrites ==
  ASSUME NEW T, NEW T2, NEW F \in [Cpus -> Frames], LocksDiffer(F), NEW t \in Tables,
         NEW k \in Slots, Unlocked(F, t), Writes(T, T2, t, k)
  PROVE  /\ \A u \in Tables, j \in Slots : (u = t /\ j = k) \/ View(T2, F)[u][j] = View(T, F)[u][j]
         /\ View(T2, F)[t][k] = T2[t][k] /\ View(T, F)[t][k] = T[t][k]
<1>1. \A u \in Tables, j \in Slots : (u = t /\ j = k) \/ T2[u][j] = T[u][j]
  BY DEF Writes
<1>2. \A u \in Tables, j \in Slots : (u = t /\ j = k) \/ View(T2, F)[u][j] = View(T, F)[u][j]
  BY <1>1, ViewIs
<1> QED BY <1>2, ViewUnlocked

LEMMA SameEntry ==
  ASSUME NEW T, NEW T2, NEW F \in [Cpus -> Frames], LocksDiffer(F)
  PROVE  \A u \in Tables, j \in Slots : T2[u][j] = T[u][j] => View(T2, F)[u][j] = View(T, F)[u][j]
<1>1. \A u \in Tables, j \in Slots : T2[u][j] = T[u][j] => ViewAt(T2, F, u, j) = ViewAt(T, F, u, j)
  BY DEF ViewAt
<1> QED BY <1>1 DEF View

LEMMA ViewTyped ==
  ASSUME NEW T \in [Tables -> [Slots -> Entries]], NEW F \in [Cpus -> Frames], LocksDiffer(F),
         \A c \in Cpus : F[c].then = "make" => F[c].old \in Entries
  PROVE  View(T, F) \in [Tables -> [Slots -> Entries]]
<1> SUFFICES ASSUME NEW t \in Tables, NEW k \in Slots
             PROVE  ViewAt(T, F, t, k) \in Entries
  BY DEF View
<1>1. CASE \E c \in Cpus : BreakAt(F[c], t, k)
  <2>1. PICK c \in Cpus : BreakAt(F[c], t, k)
    BY <1>1
  <2>2. ViewAt(T, F, t, k) = F[c].old /\ F[c].old \in Entries
    BY <2>1, ViewIs DEF BreakAt
  <2> QED BY <2>2
<1>2. CASE \A c \in Cpus : ~BreakAt(F[c], t, k)
  <2>1. ViewAt(T, F, t, k) = T[t][k]
    BY <1>2, ViewIs
  <2>2. T[t] \in [Slots -> Entries]
    OBVIOUS
  <2> QED BY <2>1, <2>2
<1> QED BY <1>1, <1>2

LEMMA OldIsEntry ==
  ASSUME NEW T, NEW G, NEW F, NEW R, NEW p, FramesOK(T, G, F, R, p)
  PROVE  \A c \in Cpus : F[c].then = "make" => F[c].old \in Entries
BY DEF FramesOK, FrameOK, MakeOK

LEMMA WriteStep ==
  ASSUME NEW T, NEW G, NEW F, NEW R, NEW p, StateOK(T, G, F, R, p),
         NEW t \in Used(G), NEW k \in Slots, NEW T2, Writes(T, T2, t, k), Unlocked(F, t),
         NEW R2 \in [Tables -> Int], R2[t] = R[t] + LiveNum(T2[t][k]) - LiveNum(T[t][k]),
         \A u \in Tables : u # t => R2[u] = R[u],
         NEW G2, SameTables(G, G2),
         \A g \in Granules : G2[g] = G[g] \/ Unlocked(F, g),
         Shape(View(T2, F), G2, p), Memory(View(T2, F), G2, p, Dying(F))
  PROVE  StateOK(T2, G2, F, R2, p)
<1>1. Used(G2) = Used(G) /\ t \in Tables
  BY UsedAreTables DEF SameTables, Used
<1>2. Typed(T2, G2, F, R2)
  BY DEF StateOK, Typed, Writes, SameTables
<1>3. FramesOK(T2, G2, F, R2, p)
  <2> SUFFICES ASSUME NEW c \in Cpus PROVE FrameOK(T2, G2, R2, p, F[c])
    BY DEF FramesOK
  <2>1. Locks(F[c]) \subseteq Tables
    BY DEF StateOK, Typed, Locks, Frames, Tables
  <2>2. \A x \in Locks(F[c]) : /\ T2[x] = T[x] /\ R2[x] = R[x]
                               /\ x \in Used(G) => x \in Used(G2)
                               /\ x \in Granules => G2[x] = G[x]
    BY <1>1, <2>1 DEF Writes, Unlocked
  <2> QED BY <2>2, FrameKept DEF StateOK, Typed, FramesOK
<1>4. Counted(T2, G2, F, R2)
  <2> SUFFICES ASSUME NEW u \in Used(G), \A c \in Cpus : ~(F[c].then # "idle" /\ u \in Locks(F[c]))
               PROVE  R2[u] = LiveCount(T2[u])
    BY <1>1 DEF Counted
  <2>1. R[u] = LiveCount(T[u]) /\ u \in Tables
    BY UsedAreTables DEF StateOK, Counted
  <2>2. CASE u = t
    <3>1. LiveCount(T2[t]) = LiveCount(T[t]) + LiveNum(T2[t][k]) - LiveNum(T[t][k])
      BY LiveCountPut DEF Writes
    <3> QED BY <3>1, <2>1, <2>2
  <2>3. CASE u # t
    BY <2>1, <2>3 DEF Writes
  <2> QED BY <2>2, <2>3
<1>5. UnusedZero(T2, G2, R2)
  <2> SUFFICES ASSUME NEW g \in Granules, G2[g] # "RTT"
               PROVE  R2[g] = 0 /\ T2[g] = ZeroTable
    BY DEF UnusedZero
  <2>1. G[g] # "RTT" /\ g \in Tables /\ g # t
    BY NoneIsNoTable DEF SameTables, Tables, Used
  <2> QED BY <2>1 DEF StateOK, UnusedZero, Writes
<1> QED BY <1>2, <1>3, <1>4, <1>5 DEF StateOK

---------------------------------------------------------------------------
(* The walks *)
SafeState(p) == StateOK(tbl, gstate, f, refs, p)

LEMMA ViewOfTable ==
  ASSUME NEW p, SafeState(p), NEW t \in Tables, NEW k \in Slots, NEW l, IsTable(tbl[t][k], l)
  PROVE  View(tbl, f)[t][k] = tbl[t][k]
<1>1. \A c \in Cpus : ~BreakAt(f[c], t, k)
  <2> SUFFICES ASSUME NEW c \in Cpus, BreakAt(f[c], t, k) PROVE FALSE
    OBVIOUS
  <2>1. tbl[t][k] = ZeroEntry
    BY DEF BreakAt, SafeState, StateOK, FramesOK, FrameOK, MakeOK
  <2> QED BY <2>1 DEF ZeroEntry, CreateUnassigned, Invalid, IsTable, S2TTE_Lx_INVALID,
                      S2TTE_L012_TABLE
<1> QED BY <1>1, ViewIs DEF SafeState, StateOK, Typed

PlaceOf(r, i, l) == [r |-> r, base |-> Base(i, l), lvl |-> l]

LEMMA ChildOfPlace ==
  ASSUME NEW r, NEW i \in Ipas, NEW l \in Levels, l # StartLevel
  PROVE  /\ l - 1 \in Levels /\ l - 1 < 3
         /\ Child(PlaceOf(r, i, l - 1), Index(i, l - 1)) = PlaceOf(r, i, l)
<1>1. l - 1 \in Levels /\ l - 1 < 3 /\ (l - 1) + 1 = l
  BY Stage2Assumption DEF Levels, RTT_PAGE_LEVEL
<1>2. Start(Base(i, l - 1), Index(i, l - 1), l - 1) = Base(i, l)
  BY <1>1, BlockOf DEF Base
<1> QED BY <1>1, <1>2 DEF Child, PlaceOf

LEMMA RootPlace ==
  ASSUME NEW V, NEW G, NEW p, Shape(V, G, p), NEW r \in Realms, NEW i
  PROVE  r \in Used(G) /\ p[r] = PlaceOf(r, i, StartLevel)
<1>1. r \in Used(G) /\ p[r] \in Places
  BY UsedAreTables DEF Used, Shape, TreeTyped
<1> QED BY <1>1 DEF Shape, PlacesGood, PlaceOf, Base, Places

LEMMA WalkPlaces ==
  ASSUME NEW p, SafeState(p), NEW r \in Realms, NEW i \in Ipas, NEW l \in Levels,
         TableAt(r, i)[l] # None
  PROVE  TableAt(r, i)[l] \in Used(gstate) /\ p[TableAt(r, i)[l]] = PlaceOf(r, i, l)
<1> DEFINE Q(m) == LET t == TableAt(r, i)[m]
                   IN  t # None => t \in Used(gstate) /\ p[t] = PlaceOf(r, i, m)
<1>1. Q(StartLevel)
  BY TableAtDef, RootPlace DEF SafeState, StateOK
<1>2. ASSUME NEW m \in Levels, m # StartLevel, Q(m - 1)
      PROVE  Q(m)
  <2> SUFFICES ASSUME TableAt(r, i)[m] # None
               PROVE  LET t == TableAt(r, i)[m] IN t \in Used(gstate) /\ p[t] = PlaceOf(r, i, m)
    OBVIOUS
  <2> DEFINE t == TableAt(r, i)[m - 1]
             k == Index(i, m - 1)
  <2>1. TableAt(r, i)[m] = Below(t, i, m)
    BY <1>2, TableAtDef
  <2>2. t # None /\ IsTable(tbl[t][k], m - 1) /\ TableAt(r, i)[m] = tbl[t][k].pa
    BY <2>1 DEF Below, At
  <2>3. t \in Used(gstate) /\ p[t] = PlaceOf(r, i, m - 1) /\ t \in Tables
    BY <1>2, <2>2, UsedAreTables
  <2>4. m - 1 \in Levels /\ Child(PlaceOf(r, i, m - 1), k) = PlaceOf(r, i, m)
    BY <1>2, ChildOfPlace
  <2>5. k \in Slots
    BY <2>4, BlockOf
  <2>6. View(tbl, f)[t][k] = tbl[t][k]
    BY <2>2, <2>3, <2>5, ViewOfTable
  <2>7. Points(View(tbl, f), p, t, k)
    BY <2>2, <2>3, <2>6 DEF Points, PlaceOf
  <2>8. tbl[t][k].pa \in Used(gstate) /\ p[tbl[t][k].pa] = Child(p[t], k)
    BY <2>3, <2>5, <2>6, <2>7 DEF SafeState, StateOK, Shape, ChildrenPlaced, Used
  <2> QED BY <2>2, <2>3, <2>4, <2>8
<1>3. \A m \in Levels : Q(m)
  <2> HIDE DEF Q
  <2>1. StartLevel \in 0 .. 2 /\ Levels = StartLevel .. 3
    BY Stage2Assumption DEF Levels, RTT_PAGE_LEVEL
  <2>2. StartLevel + 1 \in Levels => Q(StartLevel + 1)
    BY <1>1, <1>2, <2>1
  <2>3. StartLevel + 2 \in Levels => Q(StartLevel + 2)
    BY <2>2, <1>2, <2>1
  <2>4. StartLevel + 3 \in Levels => Q(StartLevel + 3)
    BY <2>3, <1>2, <2>1
  <2> QED BY <1>1, <2>1, <2>2, <2>3, <2>4
<1> QED BY <1>3

(* The table t in which a walk to level l for page i ends, and the entry *)
Spot(p, r, i, l, t, k) ==
  /\ t \in Used(gstate) /\ t \in Tables /\ k \in Slots /\ k = Index(i, l) /\ l \in Levels
  /\ p[t] = PlaceOf(r, i, l) /\ p[t].lvl = l /\ Unlocked(f, t)
  /\ Good(tbl[t][k], l) /\ View(tbl, f)[t][k] = tbl[t][k]
  /\ refs[t] = LiveCount(tbl[t])

LEMMA WalkSpot ==
  ASSUME NEW p, SafeState(p), NEW r \in Realms, NEW i \in Ipas, NEW l \in Levels, NEW t,
         t = TableAt(r, i)[l], t # None, Free(t)
  PROVE  Spot(p, r, i, l, t, Index(i, l))
<1>1. t \in Used(gstate) /\ t \in Tables /\ p[t] = PlaceOf(r, i, l) /\ p[t].lvl = l
  BY WalkPlaces, UsedAreTables DEF PlaceOf
<1>2. Index(i, l) \in Slots
  BY BlockOf
<1>3. Unlocked(f, t)
  BY DEF Free, Unlocked, Locks
<1>4. View(tbl, f)[t][Index(i, l)] = tbl[t][Index(i, l)]
  BY <1>1, <1>2, <1>3, ViewUnlocked DEF SafeState, StateOK, Typed
<1>5. Good(tbl[t][Index(i, l)], l)
  BY <1>1, <1>2, <1>4 DEF SafeState, StateOK, Shape, EntriesGood
<1>6. refs[t] = LiveCount(tbl[t])
  BY <1>1, <1>3 DEF SafeState, StateOK, Counted, Unlocked
<1> QED BY <1>1, <1>2, <1>3, <1>4, <1>5, <1>6 DEF Spot

---------------------------------------------------------------------------
(* What the entries of each kind hold *)
LEMMA DeadEntry ==
  ASSUME NEW e, NEW l \in Levels, Good(e, l), IsUnassigned(e) \/ IsDestroyed(e) \/ ~Live(e)
  PROVE  /\ Mem(e, l) = {} /\ ~Live(e) /\ ~IsTable(e, l) /\ e.pa = None
         /\ LiveNum(e) = 0 /\ e.desc = 0 /\ ~e.ns
BY DEF Good, Entries, IsUnassigned, IsDestroyed, IsAssigned, HasHipas, Live, Mem, IsTable, LiveNum,
       S2TTE_Lx_INVALID, S2TTE_L012_TABLE, S2TTE_L012_BLOCK, S2TTE_L3_PAGE, LeafDesc

LEMMA AssignedEntry ==
  ASSUME NEW e, NEW l \in Levels, Good(e, l), IsAssigned(e)
  PROVE  /\ l \in {2, 3} /\ e.pa \in Granules /\ Aligned(e.pa, l)
         /\ Mem(e, l) = e.pa .. e.pa + Pages(l) - 1 /\ Live(e) /\ LiveNum(e) = 1 /\ ~IsTable(e, l)
         /\ e.desc = 0 /\ ~e.ns
BY NoneIsNoTable
   DEF Good, Entries, IsAssigned, HasHipas, Live, Mem, IsTable, LiveNum,
       S2TTE_Lx_INVALID, S2TTE_L012_TABLE, S2TTE_L012_BLOCK, S2TTE_L3_PAGE, LeafDesc

LEMMA ValidEntry ==
  ASSUME NEW e, NEW l \in Levels, Good(e, l), IsValid(e, l)
  PROVE  /\ l = 3 /\ e.pa \in Granules /\ Mem(e, l) = {e.pa} /\ Live(e) /\ LiveNum(e) = 1
         /\ ~IsTable(e, l) /\ e.desc = 3
<1>1. l = 3 /\ e.desc = 3 /\ ~e.ns
  BY DEF Good, Entries, IsValid, Check, RTT_PAGE_LEVEL, S2TTE_L3_PAGE, S2TTE_BLOCK, S2TTE_ATTRS,
         S2TTE_L012_BLOCK, S2TTE_Lx_INVALID
<1>2. e.pa \in Granules /\ e.pa # None
  BY <1>1, NoneIsNoTable DEF Good
<1>3. e.pa .. e.pa + 1 - 1 = {e.pa}
  BY <1>2 DEF Granules
<1>4. Mem(e, l) = {e.pa}
  BY <1>1, <1>2, <1>3, PagesAre DEF Mem, IsTable, RTT_PAGE_LEVEL
<1> QED BY <1>1, <1>2, <1>4 DEF Live, LiveNum, IsTable, S2TTE_Lx_INVALID, RTT_PAGE_LEVEL

LEMMA NsEntry ==
  ASSUME NEW e, NEW l \in Levels, Good(e, l), e.ns
  PROVE  Mem(e, l) = {} /\ Live(e) /\ LiveNum(e) = 1 /\ ~IsTable(e, l)
BY DEF Good, Entries, Live, Mem, IsTable, LiveNum, S2TTE_Lx_INVALID, S2TTE_L012_TABLE,
       S2TTE_L012_BLOCK, S2TTE_L3_PAGE, LeafDesc, RTT_PAGE_LEVEL

LEMMA TableIsLive ==
  ASSUME NEW e, NEW l, IsTable(e, l)
  PROVE  Live(e) /\ LiveNum(e) = 1 /\ Mem(e, l) = {}
BY DEF IsTable, Live, LiveNum, Mem, S2TTE_Lx_INVALID, S2TTE_L012_TABLE

(* No block is recognised: a break never precedes RTT_CREATE. *)
LEMMA NoValidBlock ==
  ASSUME NEW e, NEW l \in Levels, Good(e, l), l < 3
  PROVE  ~IsValid(e, l) /\ ~IsValidNs(e, l)
BY LevelIs DEF Good, Entries, IsValid, IsValidNs, Check, RTT_PAGE_LEVEL, S2TTE_L3_PAGE, S2TTE_BLOCK,
         S2TTE_ATTRS, S2TTE_L012_BLOCK, S2TTE_Lx_INVALID

LEMMA NewEntries ==
  ASSUME NEW l \in Levels
  PROVE  /\ \A s \in Ripas : LET e == CreateUnassigned(s) IN Good(e, l) /\ ~Live(e)
         /\ Good(CreateDestroyed, l) /\ ~Live(CreateDestroyed)
         /\ Good(CreateInvalidNs, l) /\ ~Live(CreateInvalidNs)
         /\ Good(ZeroEntry, l) /\ ~Live(ZeroEntry)
         /\ \A g \in Granules : l \in {2, 3} /\ Aligned(g, l) =>
              LET e == CreateAssignedEmpty(g) IN Good(e, l) /\ IsAssigned(e) /\ e.pa = g
         /\ \A g \in Granules : l = 3 =>
              LET e == CreateValid(g, l) IN Good(e, l) /\ IsValid(e, l) /\ e.pa = g
         /\ \A pa \in NsPas : l \in {2, 3} =>
              LET e == CreateValidNs(pa, l) IN Good(e, l) /\ e.ns
BY DEF CreateUnassigned, CreateDestroyed, CreateInvalidNs, ZeroEntry, CreateAssignedEmpty, CreateValid,
       CreateValidNs, Invalid, Mapping, Good, Entries, Ripas, Live, IsAssigned, HasHipas, LeafDesc,
       RTT_PAGE_LEVEL, S2TTE_Lx_INVALID, S2TTE_L012_BLOCK, S2TTE_L3_PAGE, IsValid, Check

LEMMA RamEntry ==
  ASSUME NEW e, NEW l \in Levels, Good(e, l), ~IsTable(e, l)
  PROVE  LET n == SetRam(e) IN /\ Good(n, l) /\ ~IsTable(n, l) /\ Mem(n, l) = Mem(e, l)
                               /\ LiveNum(n) = LiveNum(e)
<1>1. SetRam(e) \in Entries
  BY DEF Good, SetRam, Entries, Ripas
<1>2. /\ SetRam(e).desc = e.desc /\ SetRam(e).hipas = e.hipas /\ SetRam(e).ns = e.ns
      /\ SetRam(e).pa = e.pa
  BY DEF Good, SetRam, Entries
<1> QED BY <1>1, <1>2 DEF Good, IsTable, Mem, LiveNum, Live, IsAssigned, HasHipas

---------------------------------------------------------------------------
(* The commands that write one entry *)
SpotWrite(p, r, i, l, t, k, e, T2) ==
  /\ Spot(p, r, i, l, t, k)
  /\ Good(e, l) /\ ~IsTable(e, l) /\ ~IsTable(tbl[t][k], l)
  /\ Writes(tbl, T2, t, k) /\ T2[t][k] = e

LEMMA SpotWriteIs ==
  ASSUME NEW p, SafeState(p), NEW r, NEW i, NEW l, NEW t, NEW k, Spot(p, r, i, l, t, k),
         NEW e, Good(e, l), ~IsTable(e, l), ~IsTable(tbl[t][k], l)
  PROVE  SpotWrite(p, r, i, l, t, k, e, [tbl EXCEPT ![t][k] = e])
<1>1. t \in Tables /\ k \in Slots /\ tbl \in [Tables -> [Slots -> Entries]] /\ e \in Entries
  BY DEF Spot, SafeState, StateOK, Typed, Good
<1>2. PICK T2 : T2 = [tbl EXCEPT ![t][k] = e]
  OBVIOUS
<1>3. Writes(tbl, T2, t, k) /\ T2[t][k] = e
  BY <1>1, <1>2 DEF Writes
<1> QED BY <1>2, <1>3 DEF SpotWrite

LEMMA SpotPut ==
  ASSUME NEW p, SafeState(p), NEW r, NEW i, NEW l, NEW t, NEW k, NEW e, NEW T2,
         SpotWrite(p, r, i, l, t, k, e, T2)
  PROVE  /\ Put(View(tbl, f), View(T2, f), gstate, p, t, k)
         /\ Holds(View(tbl, f), p, t, k) = Mem(tbl[t][k], l)
         /\ Holds(View(T2, f), p, t, k) = Mem(e, l)
<1>1. t \in Used(gstate) /\ t \in Tables /\ k \in Slots /\ p[t].lvl = l /\ Unlocked(f, t)
  BY DEF Spot, SpotWrite
<1>2. Writes(tbl, T2, t, k) /\ T2[t][k] = e
  BY DEF SpotWrite
<1>4. f \in [Cpus -> Frames] /\ LocksDiffer(f)
  BY DEF SafeState, StateOK, Typed
<1>5. /\ \A u \in Tables, j \in Slots :
           (u = t /\ j = k) \/ View(T2, f)[u][j] = View(tbl, f)[u][j]
      /\ View(T2, f)[t][k] = T2[t][k] /\ View(tbl, f)[t][k] = tbl[t][k]
  BY <1>1, <1>2, <1>4, ViewWrites
<1>6. View(T2, f) \in [Tables -> [Slots -> Entries]]
  <2>1. FramesOK(tbl, gstate, f, refs, p)
    BY DEF SafeState, StateOK
  <2>2. \A c \in Cpus : f[c].then = "make" => f[c].old \in Entries
    BY <2>1, OldIsEntry
  <2> QED BY <1>2, <1>4, <2>2, ViewTyped DEF Writes
<1>7. Put(View(tbl, f), View(T2, f), gstate, p, t, k)
  BY <1>1, <1>2, <1>5, <1>6 DEF Put, Points, SpotWrite
<1> QED BY <1>1, <1>2, <1>5, <1>7 DEF Holds

(* The reference count follows the entry. *)
CountFollows(t, a, e, R2) ==
  /\ R2 \in [Tables -> Int] /\ R2[t] = refs[t] + LiveNum(e) - LiveNum(a)
  /\ \A u \in Tables : u # t => R2[u] = refs[u]

LEMMA EntryWritten ==
  ASSUME NEW p, SafeState(p), NEW r, NEW i, NEW l, NEW t, NEW k, NEW e, NEW T2,
         SpotWrite(p, r, i, l, t, k, e, T2), NEW R2, CountFollows(t, tbl[t][k], e, R2),
         NEW G2, SameTables(gstate, G2), \A g \in Granules : G2[g] = gstate[g] \/ Unlocked(f, g),
         Shape(View(T2, f), G2, p), Memory(View(T2, f), G2, p, Dying(f))
  PROVE  StateOK(T2, G2, f, R2, p)
<1>1. StateOK(tbl, gstate, f, refs, p)
  BY DEF SafeState
<1>2. t \in Used(gstate) /\ k \in Slots /\ Unlocked(f, t) /\ Writes(tbl, T2, t, k) /\ T2[t][k] = e
  BY DEF Spot, SpotWrite
<1>3. /\ R2 \in [Tables -> Int] /\ R2[t] = refs[t] + LiveNum(T2[t][k]) - LiveNum(tbl[t][k])
      /\ \A u \in Tables : u # t => R2[u] = refs[u]
  BY <1>2 DEF CountFollows
<1> QED BY <1>1, <1>2, <1>3, WriteStep

LEMMA EntryRewritten ==
  ASSUME NEW p, SafeState(p), NEW r, NEW i, NEW l, NEW t, NEW k, NEW e, NEW T2,
         SpotWrite(p, r, i, l, t, k, e, T2), NEW R2, CountFollows(t, tbl[t][k], e, R2),
         Mem(e, l) = Mem(tbl[t][k], l)
  PROVE  StateOK(T2, gstate, f, R2, p)
<1>1. /\ Put(View(tbl, f), View(T2, f), gstate, p, t, k)
      /\ Holds(View(tbl, f), p, t, k) = Mem(tbl[t][k], l)
      /\ Holds(View(T2, f), p, t, k) = Mem(e, l)
  BY SpotPut
<1>2. Shape(View(tbl, f), gstate, p) /\ Memory(View(tbl, f), gstate, p, Dying(f))
  BY DEF SafeState, StateOK
<1>3. Shape(View(T2, f), gstate, p) /\ Memory(View(T2, f), gstate, p, Dying(f))
  BY <1>1, <1>2, PutSame
<1>4. SameTables(gstate, gstate)
  BY DEF SafeState, StateOK, Typed, SameTables
<1> QED BY <1>3, <1>4, EntryWritten

LEMMA LiveNumIs ==
  ASSUME NEW e
  PROVE  LiveNum(e) \in {0, 1} /\ (Live(e) => LiveNum(e) = 1) /\ (~Live(e) => LiveNum(e) = 0)
BY DEF LiveNum

LEMMA MapNsSafe ==
  ASSUME NEW p, SafeState(p), NEW r \in Realms, NEW l \in Levels, l \in MapLevels, NEW i \in Ipas,
         NEW pa \in NsPas, MapNs(r, i, l, pa)
  PROVE  SafeState(p)'
<1> DEFINE t == TableAt(r, i)[l]
           k == Index(i, l)
           e == CreateValidNs(pa, l)
<1>1. t # None /\ Free(t) /\ IsUnassigned(tbl[t][k])
  BY DEF MapNs, At
<1>2. Spot(p, r, i, l, t, k)
  BY <1>1, WalkSpot
<1> HIDE DEF t, k
<1>3. l \in {2, 3}
  BY LevelIs DEF MapLevels, RTT_MIN_BLOCK_LEVEL
<1>4. Good(e, l) /\ ~IsTable(e, l) /\ Mem(e, l) = {} /\ LiveNum(e) = 1
  BY <1>3, NewEntries, NsEntry
<1>5. ~IsTable(tbl[t][k], l) /\ Mem(tbl[t][k], l) = {} /\ LiveNum(tbl[t][k]) = 0
  BY <1>1, <1>2, DeadEntry DEF Spot
<1>6. tbl' = [tbl EXCEPT ![t][k] = e] /\ refs' = [refs EXCEPT ![t] = refs[t] + 1]
      /\ UNCHANGED <<gstate, f>>
  BY DEF MapNs, t, k
<1>7. CountFollows(t, tbl[t][k], e, refs')
  BY <1>2, <1>4, <1>5, <1>6 DEF Spot, SafeState, StateOK, Typed, CountFollows
<1>8. SpotWrite(p, r, i, l, t, k, e, tbl')
  BY <1>2, <1>4, <1>5, <1>6, SpotWriteIs
<1>9. StateOK(tbl', gstate, f, refs', p)
  BY <1>4, <1>5, <1>7, <1>8, EntryRewritten
<1> QED BY <1>6, <1>9 DEF SafeState

(* A command that is not yet, or no longer, at work on the tables *)
LEMMA CalmStep ==
  ASSUME NEW T, NEW G, NEW F, NEW R, NEW p, StateOK(T, G, F, R, p), NEW c \in Cpus,
         F[c].then = "idle", NEW nf \in Frames, nf.then = "idle",
         \A x \in Locks(nf) : Unlocked(F, x) \/ x \in Locks(F[c]), FrameOK(T, G, R, p, nf)
  PROVE  StateOK(T, G, [F EXCEPT ![c] = nf], R, p)
<1> DEFINE H == [F EXCEPT ![c] = nf]
<1>1. F \in [Cpus -> Frames]
  BY DEF StateOK, Typed
<1>2. H \in [Cpus -> Frames] /\ H[c] = nf /\ \A d \in Cpus : d # c => H[d] = F[d]
  BY <1>1
<1> HIDE DEF H
<1>3. SameWork(F, H)
  BY <1>2 DEF SameWork
<1>4. LocksDiffer(H)
  BY <1>2 DEF StateOK, LocksDiffer, Unlocked
<1>5. FramesOK(T, G, H, R, p)
  BY <1>2 DEF StateOK, FramesOK
<1>6. StateOK(T, G, H, R, p)
  BY <1>2, <1>3, <1>4, <1>5, QuietStep
<1> QED BY <1>6 DEF H

LEMMA IdleIsFrame ==
  ASSUME NEW T, NEW G, NEW R, NEW p
  PROVE  IdleFrame \in Frames /\ Locks(IdleFrame) = {} /\ FrameOK(T, G, R, p, IdleFrame)
         /\ IdleFrame.then = "idle"
<1>1. 0 \in Slots
  BY EPositive DEF Slots
<1> QED BY <1>1 DEF IdleFrame, Frames, Locks, FrameOK

(* The invalidation of one page, after which nothing is left to do *)
UnmapFrame(r, t, i) == [IdleFrame EXCEPT !.pc = "tlbi", !.r = r, !.llt = t, !.span = {i}]
EmptyFrame(r, t, i) ==
  [IdleFrame EXCEPT !.pc = "tlbi", !.r = r, !.rd = r, !.llt = t, !.span = {i}]
TlbiFrame(nf, r, t, i) == nf = UnmapFrame(r, t, i) \/ nf = EmptyFrame(r, t, i)

LEMMA TlbiIsFrame ==
  ASSUME NEW G, NEW r \in Realms, NEW t \in Used(G), NEW i \in Int, NEW nf, TlbiFrame(nf, r, t, i)
  PROVE  /\ nf \in Frames /\ Locks(nf) = {t} /\ nf.then = "idle"
         /\ \A T, R, p : FrameOK(T, G, R, p, nf)
<1>1. 0 \in Slots /\ t # None /\ t \in Tables
  BY EPositive, UsedAreTables, NoneIsNoTable DEF Slots
<1>2. CASE nf = UnmapFrame(r, t, i)
  BY <1>1, <1>2 DEF UnmapFrame, IdleFrame, Frames, Locks, FrameOK
<1>3. CASE nf = EmptyFrame(r, t, i)
  BY <1>1, <1>3 DEF EmptyFrame, IdleFrame, Frames, Locks, FrameOK
<1> QED BY <1>2, <1>3 DEF TlbiFrame

LEMMA UnmapNsSafe ==
  ASSUME NEW p, SafeState(p), NEW c \in Cpus, Idle(c), NEW r \in Realms, NEW l \in Levels,
         NEW i \in Ipas, UnmapNs(c, r, i, l)
  PROVE  SafeState(p)'
<1> DEFINE t == TableAt(r, i)[l]
           k == Index(i, l)
           e == CreateInvalidNs
           nf == UnmapFrame(r, t, i)
<1>1. t # None /\ Free(t) /\ IsValidNs(tbl[t][k], l)
  BY DEF UnmapNs, At
<1>2. Spot(p, r, i, l, t, k)
  BY <1>1, WalkSpot
<1>3. /\ tbl' = [tbl EXCEPT ![t][k] = e] /\ refs' = [refs EXCEPT ![t] = refs[t] - 1]
      /\ UNCHANGED gstate /\ f' = [f EXCEPT ![c] = nf]
  BY DEF UnmapNs, Become, UnmapFrame
<1> HIDE DEF t, k
<1>4. Good(e, l) /\ ~IsTable(e, l) /\ Mem(e, l) = {} /\ LiveNum(e) = 0
  BY NewEntries, DeadEntry
<1>5. ~IsTable(tbl[t][k], l) /\ Mem(tbl[t][k], l) = {} /\ LiveNum(tbl[t][k]) = 1
  BY <1>1, <1>2, NsEntry DEF Spot, IsValidNs, Check
<1>6. CountFollows(t, tbl[t][k], e, refs')
  BY <1>2, <1>3, <1>4, <1>5 DEF Spot, SafeState, StateOK, Typed, CountFollows
<1>7. SpotWrite(p, r, i, l, t, k, e, tbl')
  BY <1>2, <1>3, <1>4, <1>5, SpotWriteIs
<1>8. StateOK(tbl', gstate, f, refs', p)
  BY <1>4, <1>5, <1>6, <1>7, EntryRewritten
<1>9. /\ nf \in Frames /\ Locks(nf) = {t} /\ FrameOK(tbl', gstate, refs', p, nf) /\ nf.then = "idle"
      /\ Unlocked(f, t)
  <2>1. i \in Int /\ t \in Used(gstate) /\ Unlocked(f, t)
    BY <1>2 DEF Spot, Ipas
  <2>2. TlbiFrame(nf, r, t, i)
    BY DEF nf, TlbiFrame
  <2> QED BY <2>1, <2>2, TlbiIsFrame
<1>10. f[c].then = "idle"
  BY DEF Idle, SafeState, StateOK, FramesOK, FrameOK, IdleFrame
<1> HIDE DEF nf
<1>11. StateOK(tbl', gstate, [f EXCEPT ![c] = nf], refs', p)
  BY <1>8, <1>9, <1>10, CalmStep
<1> QED BY <1>3, <1>11 DEF SafeState

LEMMA InitRipasWriteSafe ==
  ASSUME NEW p, SafeState(p), NEW c \in Cpus, NEW l \in Levels, NEW i \in Ipas,
         InitRipasWrite(c, i, l)
  PROVE  SafeState(p)'
<1> DEFINE r == f[c].r
           t == TableAt(r, i)[l]
           k == Index(i, l)
           e == SetRam(tbl[t][k])
<1>1. t # None /\ Free(t) /\ IsUnassigned(tbl[t][k]) /\ f[c].pc = "ripas"
  BY DEF InitRipasWrite, At
<1>2. r \in Realms /\ f[c].then = "idle"
  BY <1>1 DEF SafeState, StateOK, FramesOK, FrameOK
<1>3. Spot(p, r, i, l, t, k)
  BY <1>1, <1>2, WalkSpot
<1>4. /\ tbl' = [tbl EXCEPT ![t][k] = e] /\ refs' = refs
      /\ UNCHANGED gstate /\ f' = [f EXCEPT ![c] = IdleFrame]
  BY DEF InitRipasWrite, At, Return, Become
<1> HIDE DEF t, k, r
<1>5. ~IsTable(tbl[t][k], l) /\ Good(tbl[t][k], l) /\ l \in Levels
  BY <1>1, <1>3, DeadEntry DEF Spot
<1>6. Good(e, l) /\ ~IsTable(e, l) /\ Mem(e, l) = Mem(tbl[t][k], l) /\ LiveNum(e) = LiveNum(tbl[t][k])
  BY <1>5, RamEntry
<1>7. CountFollows(t, tbl[t][k], e, refs')
  <2>1. LiveNum(tbl[t][k]) \in Int /\ refs[t] \in Int
    BY <1>3, LiveNumIs DEF Spot, SafeState, StateOK, Typed
  <2> QED BY <2>1, <1>4, <1>6 DEF SafeState, StateOK, Typed, CountFollows
<1>8. SpotWrite(p, r, i, l, t, k, e, tbl')
  BY <1>3, <1>4, <1>5, <1>6, SpotWriteIs
<1>9. StateOK(tbl', gstate, f, refs', p)
  BY <1>6, <1>7, <1>8, EntryRewritten
<1>10. StateOK(tbl', gstate, [f EXCEPT ![c] = IdleFrame], refs', p)
  BY <1>2, <1>9, IdleIsFrame, CalmStep
<1> QED BY <1>4, <1>10 DEF SafeState

(* The requests of the realms stay in their address space. *)
Requests(Q) == Q \in [Realms -> [addr : Nat, end : 0 .. NumIpas, ripas : Ripas]]
               /\ \A r \in Realms : Q[r].addr <= Q[r].end

LEMMA SetRipasSafe ==
  ASSUME NEW p, SafeState(p), Requests(req), NEW c \in Cpus, Idle(c), NEW r \in Realms,
         NEW l \in Levels, SetRipas(c, r, l)
  PROVE  SafeState(p)' /\ Requests(req)'
<1> DEFINE i == req[r].addr
           s == req[r].ripas
           t == TableAt(r, i)[l]
           k == Index(i, l)
           a == tbl[t][k]
           e == Updated(a, l, s)
           nf == EmptyFrame(r, t, i)
<1>1. i \in Ipas /\ Requests(req)'
  <2>1. PICK P \in Nat : P > 0 /\ P = Pages(l)
    BY PagesAre, LevelIs
  <2>2. i \in Nat /\ req[r].end \in 0 .. NumIpas /\ NumIpas \in Int
    BY LevelIs, LevelsAre, PagesAre, EPositive DEF Requests, NumIpas
  <2>3. i + P <= req[r].end
    BY <2>1 DEF SetRipas
  <2>4. i \in Ipas
    BY <2>1, <2>2, <2>3 DEF Ipas
  <2>5. req' = [req EXCEPT ![r].addr = i + P]
    BY <2>1 DEF SetRipas
  <2>6. Requests(req)'
    BY <2>1, <2>2, <2>3, <2>5 DEF Requests
  <2> QED BY <2>4, <2>6
<1>2. t # None /\ Free(t) /\ Updatable(a, l)
  BY DEF SetRipas, At
<1>3. Spot(p, r, i, l, t, k)
  BY <1>1, <1>2, WalkSpot
<1>4. /\ tbl' = [tbl EXCEPT ![t][k] = e] /\ refs' = refs /\ UNCHANGED gstate
      /\ f' = [f EXCEPT ![c] = nf] \/ f' = f
  BY DEF SetRipas, Become, At, EmptyFrame
<1> HIDE DEF t, k
<1>5. ~IsTable(a, l) /\ Good(a, l)
  BY <1>2, <1>3 DEF Spot, Updatable
<1>6. Good(e, l) /\ ~IsTable(e, l) /\ Mem(e, l) = Mem(a, l) /\ LiveNum(e) = LiveNum(a)
  <2>1. CASE IsValid(a, l) /\ s = "EMPTY"
    <3>1. l = 3 /\ a.pa \in Granules /\ Mem(a, l) = {a.pa} /\ LiveNum(a) = 1
      BY <2>1, <1>5, ValidEntry
    <3>2. e = CreateAssignedEmpty(a.pa)
      BY <2>1 DEF Updated
    <3>3. a.pa \in Int /\ Aligned(a.pa, l)
      BY <3>1, PagesAre DEF Granules, Aligned
    <3>4. Good(e, l) /\ IsAssigned(e) /\ e.pa = a.pa
      BY <3>1, <3>2, <3>3, NewEntries
    <3>5. Mem(e, l) = a.pa .. a.pa + 1 - 1 /\ LiveNum(e) = 1 /\ ~IsTable(e, l)
      BY <3>1, <3>4, AssignedEntry, PagesAre
    <3>6. a.pa .. a.pa + 1 - 1 = {a.pa}
      BY <3>3
    <3> QED BY <3>1, <3>4, <3>5, <3>6
  <2>2. CASE ~IsValid(a, l) /\ s = "RAM"
    <3>1. e = SetRam(a)
      BY <2>2 DEF Updated
    <3> QED BY <3>1, <1>5, RamEntry
  <2>3. CASE ~(IsValid(a, l) /\ s = "EMPTY") /\ ~(~IsValid(a, l) /\ s = "RAM")
    <3>1. e = a
      BY <2>3 DEF Updated
    <3> QED BY <3>1, <1>5
  <2> QED BY <2>1, <2>2, <2>3
<1> HIDE DEF e
<1>7. CountFollows(t, a, e, refs')
  <2>1. LiveNum(a) \in Int /\ refs[t] \in Int
    BY <1>3, LiveNumIs DEF Spot, SafeState, StateOK, Typed
  <2> QED BY <2>1, <1>4, <1>6 DEF SafeState, StateOK, Typed, CountFollows
<1>8. SpotWrite(p, r, i, l, t, k, e, tbl')
  BY <1>3, <1>4, <1>5, <1>6, SpotWriteIs
<1>9. StateOK(tbl', gstate, f, refs', p)
  BY <1>6, <1>7, <1>8, EntryRewritten
<1>10. StateOK(tbl', gstate, [f EXCEPT ![c] = nf], refs', p)
  <2>1. /\ nf \in Frames /\ Locks(nf) = {t} /\ FrameOK(tbl', gstate, refs', p, nf)
        /\ nf.then = "idle" /\ Unlocked(f, t)
    <3>1. i \in Int /\ t \in Used(gstate) /\ Unlocked(f, t)
      BY <1>1, <1>3 DEF Spot, Ipas
    <3> HIDE DEF i, nf
    <3>2. TlbiFrame(nf, r, t, i)
      BY DEF nf, TlbiFrame
    <3> QED BY <3>1, <3>2, TlbiIsFrame
  <2>2. f[c].then = "idle"
    BY DEF Idle, SafeState, StateOK, FramesOK, FrameOK, IdleFrame
  <2> HIDE DEF nf
  <2> QED BY <1>9, <2>1, <2>2, CalmStep
<1> HIDE DEF nf
<1> QED BY <1>1, <1>4, <1>9, <1>10 DEF SafeState

LEMMA LastOfSpot ==
  ASSUME NEW p, NEW r, NEW i \in Ipas, NEW l, NEW t, NEW k, Spot(p, r, i, l, t, k)
  PROVE  Last(p[t], k) = Align(i, l) + Pages(l) - 1
<1>1. l \in Levels /\ p[t] = PlaceOf(r, i, l) /\ k = Index(i, l)
  BY DEF Spot
<1>2. Align(i, l) = Start(Base(i, l), k, l)
  BY <1>1, BlockOf
<1> QED BY <1>1, <1>2 DEF Last, PlaceOf

LEMMA DataCreateSafe ==
  ASSUME NEW p, SafeState(p), NEW r \in Realms, NEW i \in Ipas, NEW g \in Granules,
         DataCreate(r, i, g)
  PROVE  SafeState(p)'
<1> DEFINE l == RTT_PAGE_LEVEL
           t == TableAt(r, i)[l]
           k == Index(i, l)
           a == tbl[t][k]
           e == IF a.ripas = "EMPTY" THEN CreateAssignedEmpty(g) ELSE CreateValid(g, l)
           H == [gstate EXCEPT ![g] = "DATA"]
<1>1. l = 3 /\ l \in Levels
  BY LevelsAre DEF RTT_PAGE_LEVEL
<1>2. /\ t # None /\ Free(t) /\ IsUnassigned(a) /\ InPar(i)
      /\ gstate[g] = "DELEGATED" /\ Unlocked(f, g)
  BY DEF DataCreate, At, Takable, Free, Unlocked, Locks
<1>3. Spot(p, r, i, l, t, k)
  BY <1>1, <1>2, WalkSpot
<1>4. /\ tbl' = [tbl EXCEPT ![t][k] = e] /\ refs' = [refs EXCEPT ![t] = refs[t] + 1]
      /\ gstate' = H /\ f' = f
  BY DEF DataCreate, At
<1> HIDE DEF t, k
<1>5. Good(e, l) /\ ~IsTable(e, l) /\ Mem(e, l) = {g} /\ LiveNum(e) = 1
  <2>1. g \in Int /\ Aligned(g, l) /\ g .. g + 1 - 1 = {g}
    BY <1>1, PagesAre DEF Granules, Aligned
  <2>2. CASE a.ripas = "EMPTY"
    <3>1. Good(e, l) /\ IsAssigned(e) /\ e.pa = g
      BY <1>1, <2>1, <2>2, NewEntries
    <3> QED BY <1>1, <2>1, <3>1, AssignedEntry, PagesAre
  <2>3. CASE a.ripas # "EMPTY"
    <3>1. Good(e, l) /\ IsValid(e, l) /\ e.pa = g
      BY <1>1, <2>3, NewEntries
    <3> QED BY <1>1, <3>1, ValidEntry
  <2> QED BY <2>2, <2>3
<1>6. ~IsTable(a, l) /\ Mem(a, l) = {} /\ LiveNum(a) = 0
  BY <1>1, <1>2, <1>3, DeadEntry DEF Spot
<1> HIDE DEF e
<1>7. CountFollows(t, a, e, refs')
  BY <1>3, <1>4, <1>5, <1>6 DEF Spot, SafeState, StateOK, Typed, CountFollows
<1>8. SpotWrite(p, r, i, l, t, k, e, tbl')
  BY <1>3, <1>4, <1>5, <1>6, SpotWriteIs
<1>9. InPar(Last(p[t], k))
  <2>1. Last(p[t], k) = Align(i, l) + 1 - 1 /\ i \in Int
    BY <1>1, <1>3, LastOfSpot, PagesAre DEF Ipas
  <2>2. Align(i, l) = i
    BY <1>1, <2>1, AlignPage
  <2> QED BY <1>2, <2>1, <2>2
<1>10. Shape(View(tbl', f), H, p) /\ Memory(View(tbl', f), H, p, Dying(f))
  <2>1. /\ Put(View(tbl, f), View(tbl', f), gstate, p, t, k)
        /\ Holds(View(tbl, f), p, t, k) = {} /\ Holds(View(tbl', f), p, t, k) = {g}
    BY <1>5, <1>6, <1>8, SpotPut
  <2>2. Shape(View(tbl, f), gstate, p) /\ Memory(View(tbl, f), gstate, p, Dying(f))
    BY DEF SafeState, StateOK
  <2> QED BY <1>2, <1>9, <2>1, <2>2, PutMemory
<1>11. SameTables(gstate, H) /\ \A x \in Granules : H[x] = gstate[x] \/ Unlocked(f, x)
  BY <1>2 DEF SafeState, StateOK, Typed, SameTables
<1> HIDE DEF H, a
<1>12. StateOK(tbl', H, f, refs', p)
  BY <1>7, <1>8, <1>10, <1>11, EntryWritten DEF a
<1> QED BY <1>4, <1>12 DEF SafeState

---------------------------------------------------------------------------
(* The steps that change no table *)
LEMMA StopsSafe ==
  ASSUME NEW p, SafeState(p), NEW c \in Cpus, Idle(c), NEW t \in Used(gstate), Unlocked(f, t),
         NEW g \in Granules \cup {None}, g # None => gstate[g] # "DATA" /\ Unlocked(f, g),
         Stops(c, t, g), UNCHANGED <<gstate, tbl, refs>>
  PROVE  SafeState(p)'
<1> DEFINE nf == [IdleFrame EXCEPT !.pc = "stuck", !.llt = t, !.sub = g]
<1>1. 0 \in Slots /\ t # None /\ t \in Tables
  BY EPositive, UsedAreTables, NoneIsNoTable DEF Slots
<1>2. /\ nf \in Frames /\ Locks(nf) = {t, g} \ {None} /\ nf.then = "idle"
      /\ FrameOK(tbl, gstate, refs, p, nf)
  BY <1>1 DEF IdleFrame, Frames, Locks, FrameOK
<1>3. f[c].then = "idle"
  BY DEF Idle, SafeState, StateOK, FramesOK, FrameOK, IdleFrame
<1>4. f' = [f EXCEPT ![c] = nf]
  BY DEF Stops, Become
<1>5. \A x \in Locks(nf) : Unlocked(f, x)
  BY <1>2
<1> HIDE DEF nf
<1>6. StateOK(tbl, gstate, [f EXCEPT ![c] = nf], refs, p)
  BY <1>2, <1>3, <1>5, CalmStep DEF SafeState
<1> QED BY <1>4, <1>6 DEF SafeState

LEMMA ReturnSafe ==
  ASSUME NEW p, SafeState(p), NEW c \in Cpus, f[c].then = "idle", Return(c),
         UNCHANGED <<gstate, tbl, refs>>
  PROVE  SafeState(p)'
<1>1. StateOK(tbl, gstate, [f EXCEPT ![c] = IdleFrame], refs, p)
  BY IdleIsFrame, CalmStep DEF SafeState
<1> QED BY <1>1 DEF SafeState, Return, Become

LEMMA InitRipasSafe ==
  ASSUME NEW p, SafeState(p), NEW c \in Cpus, Idle(c), NEW r \in Realms, InitRipas(c, r)
  PROVE  SafeState(p)'
<1> DEFINE nf == [IdleFrame EXCEPT !.pc = "ripas", !.r = r]
<1>1. 0 \in Slots
  BY EPositive DEF Slots
<1>2. /\ nf \in Frames /\ Locks(nf) = {} /\ nf.then = "idle" /\ FrameOK(tbl, gstate, refs, p, nf)
  BY <1>1 DEF IdleFrame, Frames, Locks, FrameOK
<1>3. f[c].then = "idle"
  BY DEF Idle, SafeState, StateOK, FramesOK, FrameOK, IdleFrame
<1>4. f' = [f EXCEPT ![c] = nf] /\ UNCHANGED <<gstate, tbl, refs>>
  BY DEF InitRipas, Become
<1> HIDE DEF nf
<1>5. StateOK(tbl, gstate, [f EXCEPT ![c] = nf], refs, p)
  BY <1>2, <1>3, CalmStep DEF SafeState
<1> QED BY <1>4, <1>5 DEF SafeState

LEMMA TlbiSafe ==
  ASSUME NEW p, SafeState(p), NEW c \in Cpus, Tlbi(c)
  PROVE  SafeState(p)'
<1>1. UNCHANGED <<gstate, tbl, refs>> /\ f[c].pc = "tlbi"
  BY DEF Tlbi
<1>2. CASE f[c].then = "idle"
  BY <1>1, <1>2, ReturnSafe DEF Tlbi
<1>3. CASE f[c].then # "idle"
  <2> DEFINE nf == [f[c] EXCEPT !.pc = f[c].then]
             H == [f EXCEPT ![c] = nf]
  <2>1. f \in [Cpus -> Frames] /\ f[c] \in Frames /\ f[c].then \in {"make", "free"}
    BY <1>3 DEF SafeState, StateOK, Typed, Frames
  <2>2. nf \in Frames /\ nf.pc = f[c].then
    BY <2>1 DEF Frames
  <2>3. /\ nf.r = f[c].r /\ nf.rd = f[c].rd /\ nf.llt = f[c].llt /\ nf.idx = f[c].idx
        /\ nf.sub = f[c].sub /\ nf.old = f[c].old /\ nf.new = f[c].new
        /\ nf.then = f[c].then /\ nf.gs = f[c].gs
    BY <2>1 DEF Frames
  <2> HIDE DEF nf
  <2>4. H \in [Cpus -> Frames] /\ H[c] = nf /\ \A d \in Cpus : d # c => H[d] = f[d]
    BY <2>1, <2>2
  <2>5. f' = H
    BY <1>3 DEF Tlbi, Become, nf
  <2> HIDE DEF H
  <2>6. Locks(nf) = Locks(f[c])
    BY <2>3 DEF Locks
  <2>7. LocksDiffer(H) /\ SameWork(f, H)
    BY <2>3, <2>4, <2>6 DEF SafeState, StateOK, LocksDiffer, SameWork
  <2>8. FrameOK(tbl, gstate, refs, p, f[c])
    BY DEF SafeState, StateOK, FramesOK
  <2>9. f[c].then = "make" => MakeOK(tbl, gstate, refs, p, nf)
    BY <2>2, <2>3, <2>8 DEF FrameOK, MakeOK
  <2>10. f[c].then = "free" => FreeOK(tbl, gstate, refs, nf)
    BY <2>2, <2>3, <2>8 DEF FrameOK, FreeOK
  <2>11. FrameOK(tbl, gstate, refs, p, nf)
    BY <2>1, <2>2, <2>3, <2>8, <2>9, <2>10 DEF FrameOK
  <2>12. FramesOK(tbl, gstate, H, refs, p)
    BY <2>4, <2>11 DEF SafeState, StateOK, FramesOK
  <2>13. StateOK(tbl, gstate, H, refs, p)
    BY <2>4, <2>7, <2>12, QuietStep DEF SafeState
  <2> QED BY <1>1, <2>5, <2>13 DEF SafeState
<1> QED BY <1>2, <1>3

---------------------------------------------------------------------------
(* Giving a table back *)
LEMMA WalkChild ==
  ASSUME NEW p, SafeState(p), NEW r \in Realms, NEW i \in Ipas, NEW l \in TableLevels,
         NEW t, t = TableAt(r, i)[l - 1], NEW g, g = TableAt(r, i)[l], g # None, Free(t), Free(g),
         NEW k, k = Index(i, l - 1)
  PROVE  /\ Spot(p, r, i, l - 1, t, k) /\ l \in Levels /\ l - 1 \in Levels /\ l - 1 < 3
         /\ IsTable(tbl[t][k], l - 1) /\ tbl[t][k].pa = g
         /\ g \in Granules /\ gstate[g] = "RTT" /\ Unlocked(f, g) /\ g # t
         /\ g \in Tables /\ g \in Used(gstate)
         /\ p[g].lvl = l /\ p[g] = Child(p[t], k) /\ refs[g] = LiveCount(tbl[g])
         /\ \A j \in Slots : Good(tbl[g][j], l) /\ View(tbl, f)[g][j] = tbl[g][j]
<1>1. l \in Levels /\ l # StartLevel /\ l - 1 \in Levels /\ l - 1 < 3 /\ (l - 1) + 1 = l
  BY Stage2Assumption DEF Levels, TableLevels, RTT_PAGE_LEVEL
<1>2. g = Below(t, i, l)
  BY <1>1, TableAtDef
<1>3. t # None /\ IsTable(tbl[t][k], l - 1) /\ tbl[t][k].pa = g
  BY <1>2 DEF Below, At
<1>4. Spot(p, r, i, l - 1, t, k)
  BY <1>1, <1>3, WalkSpot
<1>5. Points(View(tbl, f), p, t, k) /\ View(tbl, f)[t][k].pa = g
  BY <1>3, <1>4 DEF Spot, Points
<1>6. g \in Granules /\ gstate[g] = "RTT" /\ p[g] = Child(p[t], k)
  BY <1>4, <1>5 DEF Spot, SafeState, StateOK, Shape, ChildrenPlaced
<1>7. g \in Used(gstate) /\ g \in Tables
  BY <1>6 DEF Used, Tables
<1>8. p[g].lvl = l
  BY <1>1, <1>4, <1>6 DEF Child, Spot
<1>9. g # t
  BY <1>1, <1>4, <1>8, LevelIs DEF Spot
<1>10. Unlocked(f, g)
  BY DEF Free, Unlocked, Locks
<1>11. refs[g] = LiveCount(tbl[g])
  BY <1>7, <1>10 DEF SafeState, StateOK, Counted, Unlocked
<1>12. \A j \in Slots : Good(tbl[g][j], l) /\ View(tbl, f)[g][j] = tbl[g][j]
  <2>1. \A j \in Slots : View(tbl, f)[g][j] = tbl[g][j]
    BY <1>7, <1>10, ViewUnlocked DEF SafeState, StateOK, Typed
  <2> QED BY <1>7, <1>8, <2>1 DEF SafeState, StateOK, Shape, EntriesGood
<1> QED BY <1>1, <1>3, <1>4, <1>6, <1>7, <1>8, <1>9, <1>10, <1>11, <1>12

(* What the entry that replaces the table g below entry k of t must be *)
Replaces(p, l, t, k, g, new) ==
  /\ new \in Entries /\ Good(new, l) /\ ~IsTable(new, l)
  /\ Mem(new, l) # {} => InPar(Last(p[t], k))
  /\ \A j \in Slots : ~IsTable(tbl[g][j], l + 1)
  /\ \A x \in Mem(new, l) : \E j \in Slots : x \in Mem(tbl[g][j], l + 1)
  /\ \A j \in Slots : \A x \in Mem(tbl[g][j], l + 1) : x \in Mem(new, l)

BreakFrame(nf, r, t, k, g, new, span) ==
  nf = [IdleFrame EXCEPT !.pc = "tlbi", !.then = "make", !.r = r, !.llt = t, !.idx = k, !.sub = g,
                         !.old = tbl[t][k], !.new = new, !.span = span, !.gs = "DELEGATED"]

LEMMA BreakIsFrame ==
  ASSUME NEW r \in Realms, NEW t \in Tables, NEW k \in Slots, NEW g \in Granules, NEW new \in Entries,
         tbl[t][k] \in Entries, NEW span \in SUBSET Int, NEW nf,
         BreakFrame(nf, r, t, k, g, new, span)
  PROVE  /\ nf \in Frames /\ nf.pc = "tlbi" /\ nf.then = "make" /\ nf.r = r /\ nf.llt = t
         /\ nf.idx = k /\ nf.sub = g /\ nf.old = tbl[t][k] /\ nf.new = new /\ nf.gs = "DELEGATED"
         /\ Locks(nf) = {t, g}
<1>1. t # None /\ g # None
  BY NoneIsNoTable
<1>2. nf \in Frames /\ nf.llt = t /\ nf.sub = g
  BY DEF BreakFrame, IdleFrame, Frames
<1> QED BY <1>1, <1>2 DEF BreakFrame, IdleFrame, Locks

BreakWrites(T2, t, k) == T2 = [tbl EXCEPT ![t][k] = ZeroEntry]
BreakCounts(R2, t, g, new) ==
  /\ R2 \in [Tables -> Int] /\ R2[g] = 0 /\ R2[t] = refs[t] - 1 + LiveNum(new)
  /\ \A u \in Tables : u # t /\ u # g => R2[u] = refs[u]

LEMMA BreakSafe ==
  ASSUME NEW p, SafeState(p), NEW c \in Cpus, f[c].then = "idle", NEW r \in Realms, NEW i, NEW l, l < 3,
         NEW t, NEW k, Spot(p, r, i, l, t, k), IsTable(tbl[t][k], l),
         NEW g \in Granules, tbl[t][k].pa = g, gstate[g] = "RTT", Unlocked(f, g), g # t,
         NEW new, Replaces(p, l, t, k, g, new), NEW span \in SUBSET Int,
         NEW nf, BreakFrame(nf, r, t, k, g, new, span),
         NEW T2, BreakWrites(T2, t, k), NEW R2, BreakCounts(R2, t, g, new)
  PROVE  StateOK(T2, gstate, [f EXCEPT ![c] = nf], R2, p)
<1> DEFINE H == [f EXCEPT ![c] = nf]
<1>1. /\ t \in Used(gstate) /\ t \in Tables /\ k \in Slots /\ p[t].lvl = l /\ Unlocked(f, t)
      /\ View(tbl, f)[t][k] = tbl[t][k] /\ refs[t] = LiveCount(tbl[t]) /\ l \in Levels
  BY DEF Spot
<1>2. f \in [Cpus -> Frames] /\ tbl \in [Tables -> [Slots -> Entries]] /\ LocksDiffer(f)
  BY DEF SafeState, StateOK, Typed
<1>3. /\ nf \in Frames /\ nf.pc = "tlbi" /\ nf.then = "make" /\ nf.r = r /\ nf.llt = t
      /\ nf.idx = k /\ nf.sub = g /\ nf.old = tbl[t][k] /\ nf.new = new /\ nf.gs = "DELEGATED"
      /\ Locks(nf) = {t, g}
  BY <1>1, <1>2, BreakIsFrame DEF Replaces
<1>4. H \in [Cpus -> Frames] /\ H[c] = nf /\ \A d \in Cpus : d # c => H[d] = f[d]
  BY <1>2, <1>3
<1> HIDE DEF H
<1>5. /\ T2 \in [Tables -> [Slots -> Entries]] /\ T2[t][k] = ZeroEntry
      /\ \A u \in Tables : u # t => T2[u] = tbl[u]
      /\ \A j \in Slots : j # k => T2[t][j] = tbl[t][j]
  <2>1. ZeroEntry \in Entries
    BY <1>1, NewEntries DEF Good
  <2> QED BY <2>1, <1>1, <1>2 DEF BreakWrites
<1>6. LocksDiffer(H)
  BY <1>1, <1>3, <1>4 DEF SafeState, StateOK, LocksDiffer, Unlocked
<1>7. View(T2, H) = View(tbl, f) /\ Dying(H) = Dying(f)
  <2>1. \A u \in Tables, j \in Slots : ViewAt(T2, H, u, j) = ViewAt(tbl, f, u, j)
    <3> SUFFICES ASSUME NEW u \in Tables, NEW j \in Slots
                 PROVE  ViewAt(T2, H, u, j) = ViewAt(tbl, f, u, j)
      OBVIOUS
    <3>1. CASE u = t /\ j = k
      <4>1. BreakAt(H[c], t, k) /\ H[c].old = tbl[t][k]
        BY <1>3, <1>4 DEF BreakAt
      <4>2. ViewAt(T2, H, t, k) = H[c].old
        BY <1>1, <1>4, <1>6, <4>1, ViewIs
      <4>3. ViewAt(tbl, f, t, k) = tbl[t][k]
        BY <1>1, <1>2, ViewIs
      <4> QED BY <3>1, <4>1, <4>2, <4>3
    <3>2. CASE ~(u = t /\ j = k)
      <4>1. \A d \in Cpus : BreakAt(H[d], u, j) <=> BreakAt(f[d], u, j)
        BY <3>2, <1>3, <1>4 DEF BreakAt
      <4>2. CASE \E d \in Cpus : BreakAt(f[d], u, j)
        <5>1. PICK d \in Cpus : BreakAt(f[d], u, j)
          BY <4>2
        <5>2. BreakAt(H[d], u, j) /\ H[d] = f[d]
          BY <4>1, <5>1, <1>4 DEF BreakAt
        <5>3. ViewAt(T2, H, u, j) = H[d].old
          BY <5>2, <1>4, <1>6, ViewIs
        <5>4. ViewAt(tbl, f, u, j) = f[d].old
          BY <5>1, <1>2, ViewIs
        <5> QED BY <5>2, <5>3, <5>4
      <4>3. CASE \A d \in Cpus : ~BreakAt(f[d], u, j)
        <5>1. \A d \in Cpus : ~BreakAt(H[d], u, j)
          BY <4>1, <4>3
        <5>2. ViewAt(T2, H, u, j) = T2[u][j]
          BY <5>1, <1>4, <1>6, ViewIs
        <5>3. ViewAt(tbl, f, u, j) = tbl[u][j]
          BY <4>3, <1>2, ViewIs
        <5> QED BY <5>2, <5>3, <3>2, <1>5
      <4> QED BY <4>2, <4>3
    <3> QED BY <3>1, <3>2
  <2>2. View(T2, H) = View(tbl, f)
    BY <2>1 DEF View
  <2>3. \A d \in Cpus : /\ H[d].then = "free" <=> f[d].then = "free"
                        /\ H[d].then = "free" => H[d].sub = f[d].sub
    BY <1>3, <1>4
  <2>4. Dying(H) = Dying(f)
    BY <2>3 DEF Dying
  <2> QED BY <2>2, <2>4
<1>8. LiveCount(T2[t]) = LiveCount(tbl[t]) - 1
  <2>1. LiveNum(ZeroEntry) = 0 /\ LiveNum(tbl[t][k]) = 1
    BY <1>1, NewEntries, LiveNumIs, TableIsLive
  <2>2. \A j \in Slots : j = k \/ T2[t][j] = tbl[t][j]
    BY <1>5
  <2>3. LiveCount(T2[t]) = LiveCount(tbl[t]) + LiveNum(T2[t][k]) - LiveNum(tbl[t][k])
    BY <1>1, <2>2, LiveCountPut
  <2>4. LiveCount(tbl[t]) \in 0 .. E
    BY LiveCountIs
  <2> QED BY <2>1, <2>3, <2>4, <1>5
<1>9. FrameOK(T2, gstate, R2, p, nf)
  <2>1. g \in Tables /\ T2[g] = tbl[g] /\ tbl[t][k] \in Entries
    BY <1>1, <1>2, <1>5 DEF Tables
  <2>2. R2[t] = LiveCount(T2[t]) + LiveNum(new)
    BY <1>1, <1>8 DEF BreakCounts
  <2>3. MakeOK(T2, gstate, R2, p, nf)
    BY <1>1, <1>3, <1>5, <2>1, <2>2 DEF MakeOK, Replaces, BreakCounts
  <2> QED BY <1>1, <1>3, <2>3 DEF FrameOK
<1>10. FramesOK(T2, gstate, H, R2, p)
  <2> SUFFICES ASSUME NEW d \in Cpus, d # c PROVE FrameOK(T2, gstate, R2, p, f[d])
    BY <1>4, <1>9 DEF FramesOK
  <2>1. Locks(f[d]) \subseteq Tables /\ t \notin Locks(f[d]) /\ g \notin Locks(f[d])
    BY <1>1, <1>2 DEF Locks, Frames, Tables, Unlocked
  <2>2. \A x \in Locks(f[d]) : T2[x] = tbl[x] /\ R2[x] = refs[x]
    BY <1>5, <2>1 DEF BreakCounts
  <2>3. f[d] \in Frames /\ FrameOK(tbl, gstate, refs, p, f[d])
    BY <1>2 DEF SafeState, StateOK, FramesOK
  <2>4. \A x \in Locks(f[d]) : /\ T2[x] = tbl[x] /\ R2[x] = refs[x] /\ p[x] = p[x]
                               /\ x \in Used(gstate) => x \in Used(gstate)
                               /\ x \in Granules => gstate[x] = gstate[x]
    BY <2>2
  <2> QED BY <2>3, <2>4, FrameKept
<1>11. Counted(T2, gstate, H, R2)
  <2> SUFFICES ASSUME NEW u \in Used(gstate),
                      \A d \in Cpus : ~(H[d].then # "idle" /\ u \in Locks(H[d]))
               PROVE  R2[u] = LiveCount(T2[u])
    BY DEF Counted
  <2>1. u # t /\ u # g /\ u \in Tables
    BY <1>3, <1>4, UsedAreTables
  <2>2. \A d \in Cpus : ~(f[d].then # "idle" /\ u \in Locks(f[d]))
    BY <1>4
  <2> QED BY <2>1, <2>2, <1>5 DEF SafeState, StateOK, Counted, BreakCounts
<1>12. UnusedZero(T2, gstate, R2)
  <2> SUFFICES ASSUME NEW x \in Granules, gstate[x] # "RTT"
               PROVE  R2[x] = 0 /\ T2[x] = ZeroTable
    BY DEF UnusedZero
  <2>1. x \in Tables /\ x # t /\ x # g
    BY <1>1, NoneIsNoTable DEF Tables, Used
  <2> QED BY <2>1, <1>5 DEF SafeState, StateOK, UnusedZero, BreakCounts
<1>13. Typed(T2, gstate, H, R2)
  BY <1>4, <1>5 DEF SafeState, StateOK, Typed, BreakCounts
<1> QED BY <1>6, <1>7, <1>10, <1>11, <1>12, <1>13 DEF SafeState, StateOK, H

(* RMI_RTT_DESTROY: a table with no live entry maps nothing. *)
LEMMA DeadTable ==
  ASSUME NEW l \in Levels, NEW tb, LiveCount(tb) = 0, \A j \in Slots : Good(tb[j], l)
  PROVE  \A j \in Slots : ~IsTable(tb[j], l) /\ Mem(tb[j], l) = {}
<1>1. \A j \in Slots : ~Live(tb[j])
  BY LiveCountIs
<1> QED BY <1>1, DeadEntry

LEMMA ReplacesDead ==
  ASSUME NEW p, NEW l \in TableLevels, NEW t, NEW k, NEW g, LiveCount(tbl[g]) = 0,
         \A j \in Slots : Good(tbl[g][j], l), NEW new, Good(new, l - 1), ~Live(new)
  PROVE  Replaces(p, l - 1, t, k, g, new)
<1>1. l \in Levels /\ l - 1 \in Levels /\ (l - 1) + 1 = l
  BY Stage2Assumption DEF Levels, TableLevels, RTT_PAGE_LEVEL
<1>2. \A j \in Slots : ~IsTable(tbl[g][j], l) /\ Mem(tbl[g][j], l) = {}
  BY <1>1, DeadTable
<1>3. ~IsTable(new, l - 1) /\ Mem(new, l - 1) = {} /\ new \in Entries
  BY <1>1, DeadEntry DEF Good
<1> QED BY <1>1, <1>2, <1>3 DEF Replaces

LEMMA RttDestroySafe ==
  ASSUME NEW p, SafeState(p), NEW c \in Cpus, Idle(c), NEW r \in Realms, NEW i \in Ipas,
         NEW l \in TableLevels, RttDestroy(c, r, i, l)
  PROVE  SafeState(p)'
<1> DEFINE t == TableAt(r, i)[l - 1]
           g == TableAt(r, i)[l]
           k == Index(i, l - 1)
           new == IF InPar(i) THEN CreateDestroyed ELSE CreateInvalidNs
           nf == [IdleFrame EXCEPT !.pc = "tlbi", !.then = "make", !.r = r, !.llt = t, !.idx = k,
                                   !.sub = g, !.old = tbl[t][k], !.new = new, !.span = {i},
                                   !.gs = "DELEGATED"]
<1>1. g # None /\ Free(t) /\ Free(g) /\ refs[g] = 0
  BY DEF RttDestroy, Unused
<1>2. /\ tbl' = [tbl EXCEPT ![t][k] = ZeroEntry] /\ refs' = [refs EXCEPT ![t] = refs[t] - 1]
      /\ UNCHANGED gstate /\ f' = [f EXCEPT ![c] = nf]
  BY DEF RttDestroy, Breaks, Become, At
<1>3. BreakFrame(nf, r, t, k, g, new, {i}) /\ {i} \in SUBSET Int
  BY DEF BreakFrame, Ipas
<1>4. BreakWrites(tbl', t, k)
  BY <1>2 DEF BreakWrites
<1> HIDE DEF nf
<1>5. /\ Spot(p, r, i, l - 1, t, k) /\ l \in Levels /\ l - 1 \in Levels /\ l - 1 < 3
      /\ IsTable(tbl[t][k], l - 1) /\ tbl[t][k].pa = g
      /\ g \in Granules /\ gstate[g] = "RTT" /\ Unlocked(f, g) /\ g # t /\ g \in Tables
      /\ refs[g] = LiveCount(tbl[g]) /\ \A j \in Slots : Good(tbl[g][j], l)
  BY <1>1, WalkChild
<1>6. Good(new, l - 1) /\ ~Live(new)
  BY <1>5, NewEntries
<1> HIDE DEF t, g, k, new
<1>7. Replaces(p, l - 1, t, k, g, new)
  BY <1>1, <1>5, <1>6, ReplacesDead
<1>8. BreakCounts(refs', t, g, new)
  <2>1. LiveNum(new) = 0 /\ t \in Tables
    BY <1>5, <1>6, LiveNumIs DEF Spot
  <2> QED BY <2>1, <1>1, <1>2, <1>5 DEF BreakCounts, SafeState, StateOK, Typed
<1>9. f[c].then = "idle"
  BY DEF Idle, SafeState, StateOK, FramesOK, FrameOK, IdleFrame
<1>10. StateOK(tbl', gstate, [f EXCEPT ![c] = nf], refs', p)
  BY <1>3, <1>4, <1>5, <1>7, <1>8, <1>9, BreakSafe
<1> QED BY <1>2, <1>10 DEF SafeState

(* RMI_RTT_FOLD of a full table: its pages are consecutive. *)
FullTable(g) ==
  /\ \A j \in Slots : IsAssigned(tbl[g][j]) /\ tbl[g][j].pa = tbl[g][0].pa + j
  /\ tbl[g][0].pa % E = 0

LEMMA ReplacesFull ==
  ASSUME NEW p, SafeState(p), NEW t \in Used(gstate), NEW k \in Slots, NEW g \in Used(gstate),
         p[t].lvl = 2, p[g] = Child(p[t], k), \A j \in Slots : Good(tbl[g][j], 3),
         \A j \in Slots : View(tbl, f)[g][j] = tbl[g][j], FullTable(g),
         NEW new, new = CreateAssignedEmpty(tbl[g][0].pa)
  PROVE  Replaces(p, 2, t, k, g, new) /\ LiveNum(new) = 1
<1> DEFINE a == tbl[g][0].pa
<1>1. 0 \in Slots /\ E - 1 \in Slots /\ 2 \in Levels /\ 3 \in Levels /\ 2 + 1 = 3
  BY EPositive, LevelsAre DEF Slots
<1>2. a \in Granules /\ a \in Int
  BY <1>1, AssignedEntry DEF FullTable, Granules
<1>3. Aligned(a, 2)
  BY PagesAre DEF FullTable, Aligned
<1>4. Good(new, 2) /\ IsAssigned(new) /\ new.pa = a
  BY <1>1, <1>2, <1>3, NewEntries
<1>5. /\ Mem(new, 2) = a .. a + E - 1 /\ ~IsTable(new, 2) /\ LiveNum(new) = 1 /\ new \in Entries
  BY <1>1, <1>4, AssignedEntry, PagesAre DEF Good
<1>6. \A j \in Slots : ~IsTable(tbl[g][j], 3) /\ Mem(tbl[g][j], 3) = {a + j}
  <2> SUFFICES ASSUME NEW j \in Slots
               PROVE  ~IsTable(tbl[g][j], 3) /\ Mem(tbl[g][j], 3) = {a + j}
    OBVIOUS
  <2>1. Good(tbl[g][j], 3) /\ IsAssigned(tbl[g][j]) /\ tbl[g][j].pa = a + j
    BY DEF FullTable
  <2>2. /\ ~IsTable(tbl[g][j], 3)
        /\ Mem(tbl[g][j], 3) = tbl[g][j].pa .. tbl[g][j].pa + Pages(3) - 1
    BY <1>1, <2>1, AssignedEntry
  <2>3. \A b \in Int : b .. b + 1 - 1 = {b}
    OBVIOUS
  <2>4. a + j \in Int
    BY <1>2 DEF Slots
  <2> QED BY <2>1, <2>2, <2>3, <2>4, PagesAre
<1> HIDE DEF a
<1>7. InPar(Last(p[t], k))
  <2>1. p[g].lvl = 3
    BY <1>1 DEF Child
  <2>2. Mem(tbl[g][E - 1], 3) # {}
    BY <1>1, <1>6
  <2>3. Holds(View(tbl, f), p, g, E - 1) # {}
    BY <1>1, <2>1, <2>2 DEF Holds
  <2>4. InPar(Last(p[g], E - 1))
    BY <1>1, <2>3 DEF SafeState, StateOK, Memory, MemoryIsData
  <2>5. p[t] \in Places
    BY UsedAreTables DEF SafeState, StateOK, Shape, TreeTyped
  <2>6. Base(p[t].base, p[t].lvl) = p[t].base
    BY DEF SafeState, StateOK, Shape, PlacesGood
  <2>7. Last(p[g], E - 1) = Last(p[t], k)
    BY <2>5, <2>6, LastIsLastOfChild
  <2> QED BY <2>4, <2>7
<1>8. \A x \in a .. a + E - 1 : \E j \in Slots : x \in {a + j}
  <2> SUFFICES ASSUME NEW x \in a .. a + E - 1 PROVE \E j \in Slots : x \in {a + j}
    OBVIOUS
  <2>1. x - a \in Slots /\ x = a + (x - a)
    BY <1>2, EPositive DEF Slots
  <2> QED BY <2>1
<1>9. \A j \in Slots : \A x \in {a + j} : x \in a .. a + E - 1
  BY <1>2, EPositive DEF Slots
<1>10. \A j \in Slots : ~IsTable(tbl[g][j], 2 + 1) /\ Mem(tbl[g][j], 2 + 1) = {a + j}
  BY <1>1, <1>6
<1>11. /\ \A x \in Mem(new, 2) : \E j \in Slots : x \in Mem(tbl[g][j], 2 + 1)
       /\ \A j \in Slots : \A x \in Mem(tbl[g][j], 2 + 1) : x \in Mem(new, 2)
  <2>1. PICK M : M = [j \in Slots |-> {a + j}]
    OBVIOUS
  <2>2. \A j \in Slots : Mem(tbl[g][j], 2 + 1) = M[j] /\ M[j] = {a + j}
    BY <1>10, <2>1
  <2>3. Mem(new, 2) = a .. a + E - 1
    BY <1>5
  <2>4. \A x \in Mem(new, 2) : \E j \in Slots : x \in M[j]
    BY <1>8, <2>2, <2>3
  <2>5. \A j \in Slots : \A x \in M[j] : x \in Mem(new, 2)
    BY <1>9, <2>2, <2>3
  <2> QED BY <2>2, <2>4, <2>5
<1> QED BY <1>4, <1>5, <1>7, <1>10, <1>11 DEF Replaces

(* Why an assertion that does not fail leaves pages to be folded only when *)
(* they are assigned: s2tte_pa fails on a valid page.                      *)
LEMMA FoldsFull ==
  ASSUME NEW g, ~FoldFails(g, 3), refs[g] = E, \A j \in Slots : Good(tbl[g][j], 3),
         \A j \in Slots : Live(tbl[g][j])
  PROVE  FullTable(g) /\ \A e : Folded(tbl[g], e, 3) = CreateAssignedEmpty(tbl[g][0].pa)
<1>1. 0 \in Slots /\ 3 - 1 = 2 /\ 3 \in Levels
  BY EPositive, LevelsAre DEF Slots
<1>2. ~IsTable(tbl[g][0], 2) /\ (MapsAssigned(tbl[g], 3) \/ MapsValid(tbl[g], 3) \/ MapsValidNs(tbl[g], 3))
  BY <1>1 DEF FoldFails
<1>3. tbl[g][0].desc # 3
  BY <1>2 DEF IsTable, RTT_PAGE_LEVEL, S2TTE_L012_TABLE
<1>4. ~IsValid(tbl[g][0], 3) /\ ~IsValidNs(tbl[g][0], 3)
  BY <1>3 DEF IsValid, IsValidNs, Check, RTT_PAGE_LEVEL, RTT_MIN_BLOCK_LEVEL, S2TTE_L3_PAGE
<1>5. ~MapsValid(tbl[g], 3) /\ ~MapsValidNs(tbl[g], 3)
  BY <1>1, <1>4 DEF MapsValid, MapsValidNs, MapsBlock
<1>6. \A j \in Slots : IsAssigned(tbl[g][j])
  BY <1>2, <1>5 DEF MapsAssigned, MapsBlock
<1>7. \A j \in Slots : tbl[g][j].pa \in Int
  BY <1>1, <1>6, AssignedEntry DEF Granules
<1>8. \A j \in Slots : Align(tbl[g][j].pa, 3) = tbl[g][j].pa
  BY <1>7, AlignPage
<1>9. \A j \in Slots : tbl[g][j].pa = tbl[g][0].pa + j * Pages(3)
  BY <1>1, <1>2, <1>5, <1>8 DEF MapsAssigned, MapsBlock
<1>10. Aligned(tbl[g][0].pa, 2)
  BY <1>1, <1>2, <1>5, <1>8 DEF MapsAssigned, MapsBlock
<1>11. FullTable(g)
  <2>1. \A j \in Slots : tbl[g][j].pa = tbl[g][0].pa + j
    BY <1>9, PagesAre DEF Slots
  <2>2. tbl[g][0].pa % E = 0
    BY <1>10, PagesAre DEF Aligned
  <2> QED BY <1>6, <2>1, <2>2 DEF FullTable
<1>12. ~IsUniform(tbl[g])
  BY <1>1, DeadEntry DEF IsUniform
<1>13. Align(tbl[g][0].pa, 2) = tbl[g][0].pa
  BY <1>1, <1>7, <1>11, AlignPage DEF FullTable
<1>14. MapsAssigned(tbl[g], 3)
  BY <1>2, <1>5
<1>15. \A e : Folded(tbl[g], e, 3) = CreateAssignedEmpty(Align(tbl[g][0].pa, 2))
  BY <1>1, <1>5, <1>12, <1>14 DEF Folded
<1> QED BY <1>11, <1>13, <1>15

LEMMA FoldsDead ==
  ASSUME NEW l \in TableLevels, NEW tb, IsUniform(tb), \A j \in Slots : Good(tb[j], l)
  PROVE  /\ \A e : Folded(tb, e, l) = tb[0]
         /\ Good(tb[0], l - 1) /\ ~Live(tb[0])
<1>1. 0 \in Slots /\ l \in Levels /\ l - 1 \in Levels
  BY EPositive, Stage2Assumption DEF Slots, Levels, TableLevels, RTT_PAGE_LEVEL
<1>2. IsUnassigned(tb[0]) \/ IsDestroyed(tb[0])
  BY <1>1 DEF IsUniform
<1>3. ~Live(tb[0]) /\ tb[0].desc = 0 /\ ~tb[0].ns /\ tb[0].pa = None
  BY <1>1, <1>2, DeadEntry
<1>4. tb[0] \in Entries /\ tb[0].hipas \in {"UNASSIGNED", "DESTROYED"}
  BY <1>1, <1>2 DEF Good, IsUnassigned, IsDestroyed, HasHipas
<1>5. ~IsAssigned(tb[0]) /\ ~IsValid(tb[0], l) /\ ~IsValidNs(tb[0], l)
  BY <1>3 DEF Live, IsValid, IsValidNs, Check, S2TTE_L3_PAGE, S2TTE_BLOCK, S2TTE_ATTRS,
              S2TTE_L012_BLOCK
<1>6. ~MapsAssigned(tb, l) /\ ~MapsValid(tb, l) /\ ~MapsValidNs(tb, l)
  BY <1>1, <1>5 DEF MapsAssigned, MapsValid, MapsValidNs, MapsBlock
<1>7. \A e : Folded(tb, e, l) = tb[0]
  BY <1>6 DEF Folded
<1>8. Good(tb[0], l - 1)
  BY <1>3, <1>4 DEF Good
<1> QED BY <1>3, <1>7, <1>8

(* RTT_FOLD changes a table for which the assertions of a Debug build fail. *)
BadFold ==
  \E c \in Cpus, r \in Realms, l \in TableLevels, i \in Ipas :
    RttFold(c, r, i, l) /\ FoldFails(TableAt(r, i)[l], l)

LEMMA RttFoldSafe ==
  ASSUME NEW p, SafeState(p), ~BadFold, NEW c \in Cpus, Idle(c), NEW r \in Realms, NEW i \in Ipas,
         NEW l \in TableLevels, RttFold(c, r, i, l)
  PROVE  SafeState(p)'
<1> DEFINE t == TableAt(r, i)[l - 1]
           g == TableAt(r, i)[l]
           k == Index(i, l - 1)
           new == Folded(tbl[g], tbl[t][k], l)
           span == FoldSpan(new, i, l)
           nf == [IdleFrame EXCEPT !.pc = "tlbi", !.then = "make", !.r = r, !.llt = t, !.idx = k,
                                   !.sub = g, !.old = tbl[t][k], !.new = new, !.span = span,
                                   !.gs = "DELEGATED"]
<1>1. g # None /\ Free(t) /\ Free(g) /\ Foldable(g, l) /\ ~FoldFails(g, l)
  BY DEF RttFold, BadFold
<1>2. /\ tbl' = [tbl EXCEPT ![t][k] = ZeroEntry] /\ UNCHANGED gstate /\ f' = [f EXCEPT ![c] = nf]
      /\ refs' = IF refs[g] = 0 THEN [refs EXCEPT ![t] = refs[t] - 1]
                 ELSE [refs EXCEPT ![g] = refs[g] - E]
  BY DEF RttFold, Breaks, Become, At
<1>3. span \in SUBSET Int
  BY DEF FoldSpan, Ipas
<1> HIDE DEF span
<1>4. BreakFrame(nf, r, t, k, g, new, span)
  BY DEF BreakFrame
<1>5. BreakWrites(tbl', t, k)
  BY <1>2 DEF BreakWrites
<1> HIDE DEF nf
<1>6. /\ Spot(p, r, i, l - 1, t, k) /\ l \in Levels /\ l - 1 \in Levels /\ l - 1 < 3
      /\ IsTable(tbl[t][k], l - 1) /\ tbl[t][k].pa = g
      /\ g \in Granules /\ gstate[g] = "RTT" /\ Unlocked(f, g) /\ g # t /\ g \in Tables
      /\ g \in Used(gstate) /\ p[g] = Child(p[t], k)
      /\ refs[g] = LiveCount(tbl[g])
      /\ \A j \in Slots : Good(tbl[g][j], l) /\ View(tbl, f)[g][j] = tbl[g][j]
  BY <1>1, WalkChild
<1> HIDE DEF t, g, k
<1>7. Replaces(p, l - 1, t, k, g, new) /\ BreakCounts(refs', t, g, new)
  <2>0. refs \in [Tables -> Int] /\ t \in Tables /\ 0 \in Slots /\ E # 0
    BY <1>6, EPositive DEF Spot, SafeState, StateOK, Typed, Slots
  <2>1. CASE refs[g] = 0
    <3>1. IsUniform(tbl[g])
      BY <1>1, <2>0, <2>1 DEF Foldable
    <3>2. new = tbl[g][0] /\ Good(new, l - 1) /\ ~Live(new)
      BY <1>6, <3>1, FoldsDead
    <3> HIDE DEF new
    <3>3. Replaces(p, l - 1, t, k, g, new)
      BY <1>6, <2>1, <3>2, ReplacesDead
    <3>4. LiveNum(new) = 0
      BY <3>2, LiveNumIs
    <3> QED BY <1>2, <1>6, <2>0, <2>1, <3>3, <3>4 DEF BreakCounts
  <2>2. CASE refs[g] # 0
    <3>1. refs[g] = E /\ l = 3 /\ l - 1 = 2
      BY <1>1, <1>6, <2>2, LevelIs DEF Foldable, RTT_MIN_BLOCK_LEVEL
    <3>2. \A j \in Slots : Live(tbl[g][j])
      BY <1>6, <3>1, LiveCountIs
    <3>3. FullTable(g) /\ new = CreateAssignedEmpty(tbl[g][0].pa)
      BY <1>1, <1>6, <3>1, <3>2, FoldsFull
    <3> HIDE DEF new
    <3>4. t \in Used(gstate) /\ k \in Slots /\ p[t].lvl = 2
      BY <1>6, <3>1 DEF Spot
    <3>5. \A j \in Slots : Good(tbl[g][j], 3) /\ View(tbl, f)[g][j] = tbl[g][j]
      BY <1>6, <3>1
    <3>6. Replaces(p, 2, t, k, g, new) /\ LiveNum(new) = 1
      BY <1>6, <3>3, <3>4, <3>5, ReplacesFull
    <3> QED BY <1>2, <1>6, <2>0, <2>2, <3>1, <3>6 DEF BreakCounts
  <2> QED BY <2>1, <2>2
<1> HIDE DEF new
<1>8. f[c].then = "idle"
  BY DEF Idle, SafeState, StateOK, FramesOK, FrameOK, IdleFrame
<1>9. StateOK(tbl', gstate, [f EXCEPT ![c] = nf], refs', p)
  BY <1>3, <1>4, <1>5, <1>6, <1>7, <1>8, BreakSafe
<1> QED BY <1>2, <1>9 DEF SafeState

---------------------------------------------------------------------------
(* RMI_RTT_CREATE: the table tb at level l takes over from the entry e. *)
NewTable(e, l, tb) ==
  /\ tb \in [Slots -> Entries]
  /\ \A j \in Slots : Good(tb[j], l) /\ ~IsTable(tb[j], l)
  /\ \A x \in Mem(e, l - 1) : \E j \in Slots : x \in Mem(tb[j], l)
  /\ \A j \in Slots : \A x \in Mem(tb[j], l) :
       x \in Mem(e, l - 1) /\ \A i \in Slots : x \in Mem(tb[i], l) => i = j

SplitWrites(T2, t, k, g, tb) == T2 = [tbl EXCEPT ![g] = tb, ![t][k] = CreateTable(g)]
SplitCounts(R2, t, g, e, tb) ==
  /\ R2 \in [Tables -> Int] /\ R2[g] = LiveCount(tb) /\ R2[t] = refs[t] + 1 - LiveNum(e)
  /\ \A u \in Tables : u # t /\ u # g => R2[u] = refs[u]

LEMMA SplitSafe ==
  ASSUME NEW p, SafeState(p), NEW r \in Realms, NEW i, NEW l, NEW t, NEW k,
         Spot(p, r, i, l - 1, t, k), l \in Levels, l - 1 < 3, ~IsTable(tbl[t][k], l - 1),
         NEW g \in Granules, gstate[g] = "DELEGATED", Unlocked(f, g),
         NEW tb, NewTable(tbl[t][k], l, tb),
         NEW T2, SplitWrites(T2, t, k, g, tb), NEW R2, SplitCounts(R2, t, g, tbl[t][k], tb)
  PROVE  StateOK(T2, [gstate EXCEPT ![g] = "RTT"], f, R2, [p EXCEPT ![g] = Child(p[t], k)])
<1> DEFINE V == View(tbl, f)
           W == View(T2, f)
           G2 == [gstate EXCEPT ![g] = "RTT"]
           q == [p EXCEPT ![g] = Child(p[t], k)]
<1>1. /\ t \in Used(gstate) /\ t \in Tables /\ k \in Slots /\ p[t].lvl = l - 1 /\ Unlocked(f, t)
      /\ V[t][k] = tbl[t][k] /\ l - 1 \in Levels /\ (l - 1) + 1 = l
  BY LevelIs DEF Spot
<1>2. /\ f \in [Cpus -> Frames] /\ tbl \in [Tables -> [Slots -> Entries]] /\ LocksDiffer(f)
      /\ gstate \in [Granules -> {"DELEGATED", "RTT", "DATA"}] /\ p \in [Tables -> Places]
  BY DEF SafeState, StateOK, Typed, Shape, TreeTyped
<1>3. g \in Tables /\ g # t /\ g \notin Used(gstate)
  BY <1>1, NoneIsNoTable DEF Tables, Used
<1>4. /\ CreateTable(g) \in Entries /\ Live(CreateTable(g)) /\ LiveNum(CreateTable(g)) = 1
  BY <1>1, TableEntry, TableIsLive
<1>5. /\ T2 \in [Tables -> [Slots -> Entries]] /\ T2[t][k] = CreateTable(g) /\ T2[g] = tb
      /\ \A u \in Tables : u # t /\ u # g => T2[u] = tbl[u]
      /\ \A j \in Slots : j # k => T2[t][j] = tbl[t][j]
  BY <1>1, <1>2, <1>3, <1>4 DEF SplitWrites, NewTable
<1>6. /\ W \in [Tables -> [Slots -> Entries]]
      /\ \A u \in Tables, j \in Slots : (u = t /\ j = k) \/ u = g \/ W[u][j] = V[u][j]
      /\ W[t][k] = CreateTable(g) /\ \A j \in Slots : W[g][j] = tb[j]
  <2>1. FramesOK(tbl, gstate, f, refs, p)
    BY DEF SafeState, StateOK
  <2>2. \A c \in Cpus : f[c].then = "make" => f[c].old \in Entries
    BY <2>1, OldIsEntry
  <2>3. W \in [Tables -> [Slots -> Entries]]
    BY <1>2, <1>5, <2>2, ViewTyped
  <2>4. \A u \in Tables, j \in Slots : (u = t /\ j = k) \/ u = g \/ T2[u][j] = tbl[u][j]
    BY <1>5
  <2>5. \A u \in Tables, j \in Slots : (u = t /\ j = k) \/ u = g \/ W[u][j] = V[u][j]
    BY <1>2, <2>4, SameEntry
  <2>6. W[t][k] = T2[t][k] /\ \A j \in Slots : W[g][j] = T2[g][j]
    BY <1>1, <1>2, <1>3, ViewUnlocked
  <2> QED BY <2>3, <2>5, <2>6, <1>5
<1>7. Split(V, W, gstate, p, t, k, g)
  <2>1. Holds(V, p, t, k) = Mem(tbl[t][k], l - 1) /\ ~Points(V, p, t, k)
    BY <1>1 DEF Holds, Points
  <2>2. p[t].lvl < 3 /\ p[t].lvl + 1 = l
    BY <1>1
  <2>3. /\ \A j \in Slots : Good(W[g][j], l) /\ ~IsTable(W[g][j], l)
        /\ \A x \in Mem(tbl[t][k], l - 1) : \E j \in Slots : x \in Mem(W[g][j], l)
        /\ \A j \in Slots : \A x \in Mem(W[g][j], l) :
             x \in Mem(tbl[t][k], l - 1) /\ \A h \in Slots : x \in Mem(W[g][h], l) => h = j
    BY <1>6 DEF NewTable
  <2> HIDE DEF V, W
  <2> QED BY <1>1, <1>6, <2>1, <2>2, <2>3 DEF Split
<1> HIDE DEF V, W
<1>8. Shape(W, G2, q) /\ Memory(W, G2, q, Dying(f)) /\ Used(G2) = Used(gstate) \cup {g}
  <2>1. Shape(V, gstate, p) /\ Memory(V, gstate, p, Dying(f))
    BY DEF SafeState, StateOK, V
  <2>2. Becomes(gstate, G2, g, "RTT") /\ PlacedAt(p, q, g, Child(p[t], k))
    BY DEF Becomes, PlacedAt
  <2> HIDE DEF G2, q
  <2> QED BY <1>7, <2>1, <2>2, SplitTree
<1>9. /\ G2 \in [Granules -> {"DELEGATED", "RTT", "DATA"}] /\ G2[g] = "RTT"
      /\ \A x \in Granules : x # g => G2[x] = gstate[x]
      /\ \A u \in Tables : u # g => q[u] = p[u]
  BY <1>2, <1>3
<1> HIDE DEF G2, q
<1>10. Typed(T2, G2, f, R2)
  BY <1>2, <1>5, <1>9 DEF Typed, SplitCounts
<1>11. FramesOK(T2, G2, f, R2, q)
  <2> SUFFICES ASSUME NEW d \in Cpus PROVE FrameOK(T2, G2, R2, q, f[d])
    BY DEF FramesOK
  <2>1. Locks(f[d]) \subseteq Tables /\ t \notin Locks(f[d]) /\ g \notin Locks(f[d])
    BY <1>1, <1>2 DEF Locks, Frames, Tables, Unlocked
  <2>2. \A x \in Locks(f[d]) : /\ T2[x] = tbl[x] /\ R2[x] = refs[x] /\ q[x] = p[x]
                               /\ x \in Used(gstate) => x \in Used(G2)
                               /\ x \in Granules => G2[x] = gstate[x]
    BY <1>5, <1>8, <1>9, <2>1 DEF SplitCounts
  <2>3. f[d] \in Frames /\ FrameOK(tbl, gstate, refs, p, f[d])
    BY <1>2 DEF SafeState, StateOK, FramesOK
  <2> QED BY <2>2, <2>3, FrameKept
<1>12. Counted(T2, G2, f, R2)
  <2> SUFFICES ASSUME NEW u \in Used(G2), \A d \in Cpus : ~(f[d].then # "idle" /\ u \in Locks(f[d]))
               PROVE  R2[u] = LiveCount(T2[u])
    BY DEF Counted
  <2>1. CASE u = g
    BY <2>1, <1>5 DEF SplitCounts
  <2>2. CASE u = t
    <3>1. \A j \in Slots : j = k \/ T2[t][j] = tbl[t][j]
      BY <1>5
    <3>2. LiveCount(T2[t]) = LiveCount(tbl[t]) + LiveNum(T2[t][k]) - LiveNum(tbl[t][k])
      BY <1>1, <3>1, LiveCountPut
    <3>3. LiveCount(tbl[t]) \in 0 .. E /\ LiveNum(tbl[t][k]) \in {0, 1}
      BY LiveCountIs, LiveNumIs
    <3>4. refs[t] = LiveCount(tbl[t])
      BY DEF Spot
    <3> QED BY <3>2, <3>3, <3>4, <1>4, <1>5, <2>2 DEF SplitCounts
  <2>3. CASE u # g /\ u # t
    <3>1. u \in Used(gstate) /\ u \in Tables
      BY <1>8, <2>3, UsedAreTables
    <3> QED BY <3>1, <2>3, <1>5 DEF SafeState, StateOK, Counted, SplitCounts
  <2> QED BY <2>1, <2>2, <2>3
<1>13. UnusedZero(T2, G2, R2)
  <2> SUFFICES ASSUME NEW x \in Granules, G2[x] # "RTT"
               PROVE  R2[x] = 0 /\ T2[x] = ZeroTable
    BY DEF UnusedZero
  <2>1. x \in Tables /\ x # g /\ gstate[x] # "RTT"
    BY <1>9 DEF Tables
  <2>2. x # t
    BY <2>1, <1>1, NoneIsNoTable DEF Used
  <2> QED BY <2>1, <2>2, <1>5 DEF SafeState, StateOK, UnusedZero, SplitCounts
<1> QED BY <1>2, <1>8, <1>10, <1>11, <1>12, <1>13 DEF StateOK, W, G2, q

LEMMA UnfoldsDead ==
  ASSUME NEW l \in TableLevels, NEW e, Good(e, l - 1), IsUnassigned(e) \/ IsDestroyed(e)
  PROVE  NewTable(e, l, Unfolded(e, l)) /\ LiveCount(Unfolded(e, l)) = 0 /\ LiveNum(e) = 0
<1>1. l \in Levels /\ l - 1 \in Levels /\ l - 1 < 3
  BY Stage2Assumption DEF Levels, TableLevels, RTT_PAGE_LEVEL
<1>2. ~Live(e) /\ Mem(e, l - 1) = {} /\ LiveNum(e) = 0 /\ ~IsAssigned(e)
  BY <1>1, DeadEntry DEF Live
<1>3. ~IsValid(e, l - 1) /\ ~IsValidNs(e, l - 1)
  BY <1>1, NoValidBlock
<1>4. PICK x : Unfolded(e, l) = [k \in Slots |-> x] /\ Good(x, l) /\ ~Live(x)
  <2>1. CASE IsUnassigned(e)
    <3>1. ~IsDestroyed(e) /\ e.ripas \in Ripas
      BY <2>1 DEF IsUnassigned, IsDestroyed, HasHipas, Good, Entries
    <3>2. Unfolded(e, l) = Uniform(CreateUnassigned(e.ripas))
      BY <2>1, <3>1, <1>2, <1>3 DEF Unfolded
    <3>3. Good(CreateUnassigned(e.ripas), l) /\ ~Live(CreateUnassigned(e.ripas))
      BY <1>1, <3>1, NewEntries
    <3> QED BY <3>2, <3>3 DEF Uniform
  <2>2. CASE ~IsUnassigned(e) /\ IsDestroyed(e)
    <3>1. Unfolded(e, l) = Uniform(CreateDestroyed)
      BY <2>2, <1>2, <1>3 DEF Unfolded
    <3>2. Good(CreateDestroyed, l) /\ ~Live(CreateDestroyed)
      BY <1>1, NewEntries
    <3> QED BY <3>1, <3>2 DEF Uniform
  <2> QED BY <2>1, <2>2
<1>5. PICK tb : tb = Unfolded(e, l)
  OBVIOUS
<1>6. tb = [k \in Slots |-> x] /\ x \in Entries
  BY <1>4, <1>5 DEF Good
<1>7. \A j \in Slots : Good(tb[j], l) /\ ~Live(tb[j])
  BY <1>4, <1>6
<1>8. \A j \in Slots : Mem(tb[j], l) = {} /\ ~IsTable(tb[j], l)
  BY <1>1, <1>7, DeadEntry
<1>9. LiveCount(tb) = 0
  BY <1>7, LiveCountIs
<1>10. tb \in [Slots -> Entries]
  BY <1>6
<1> QED BY <1>2, <1>5, <1>7, <1>8, <1>9, <1>10 DEF NewTable

(* The pages of the table below an ASSIGNED entry are consecutive. *)
LEMMA UnfoldsAssigned ==
  ASSUME NEW l \in TableLevels, NEW e, Good(e, l - 1), IsAssigned(e)
  PROVE  /\ l = 3 /\ e.pa \in Granules /\ e.pa % E = 0
         /\ Unfolded(e, l) = [j \in Slots |-> CreateAssignedEmpty(e.pa + j)]
<1>1. l \in Levels /\ l - 1 \in Levels /\ l - 1 < 3 /\ l \in Int
  BY Stage2Assumption DEF Levels, TableLevels, RTT_PAGE_LEVEL
<1>2. l - 1 \in {2, 3} /\ e.pa \in Granules /\ Aligned(e.pa, l - 1)
  BY <1>1, AssignedEntry
<1>3. l = 3 /\ l - 1 = 2 /\ Pages(l) = 1 /\ Pages(l - 1) = E
  BY <1>1, <1>2, PagesAre
<1>4. e.pa \in Int /\ e.pa % E = 0 /\ Align(e.pa, l - 1) = e.pa
  BY <1>2, <1>3, AlignPage DEF Aligned, Granules
<1>5. Unfolded(e, l) = Consecutive(CreateAssignedEmpty(e.pa), l)
  <2>1. ~IsUnassigned(e) /\ ~IsDestroyed(e)
    BY DEF IsUnassigned, IsDestroyed, IsAssigned, HasHipas
  <2>2. ~IsValid(e, l - 1) /\ ~IsValidNs(e, l - 1)
    BY <1>1, NoValidBlock
  <2> QED BY <2>1, <2>2 DEF Unfolded
<1>6. PICK tb : tb = Unfolded(e, l)
  OBVIOUS
<1>7. CreateAssignedEmpty(e.pa).pa = e.pa
  BY DEF CreateAssignedEmpty, Invalid
<1>8. tb = [j \in Slots |-> [CreateAssignedEmpty(e.pa) EXCEPT !.pa = e.pa + j * 1]]
  BY <1>3, <1>4, <1>5, <1>6, <1>7 DEF Consecutive
<1>9. \A j \in Slots : tb[j] = CreateAssignedEmpty(e.pa + j)
  <2> SUFFICES ASSUME NEW j \in Slots PROVE tb[j] = CreateAssignedEmpty(e.pa + j)
    OBVIOUS
  <2>1. tb[j] = [CreateAssignedEmpty(e.pa) EXCEPT !.pa = e.pa + j * 1]
    BY <1>8
  <2>2. e.pa + j * 1 = e.pa + j
    BY <1>4 DEF Slots
  <2> QED BY <2>1, <2>2 DEF CreateAssignedEmpty, Invalid
<1>10. tb = [j \in Slots |-> CreateAssignedEmpty(e.pa + j)]
  BY <1>8, <1>9
<1> QED BY <1>2, <1>3, <1>4, <1>6, <1>10

LEMMA UnfoldsFull ==
  ASSUME NEW l \in TableLevels, NEW e, Good(e, l - 1), IsAssigned(e), Mem(e, l - 1) \subseteq Granules
  PROVE  NewTable(e, l, Unfolded(e, l)) /\ LiveCount(Unfolded(e, l)) = E /\ LiveNum(e) = 1
<1>1. l \in Levels /\ l - 1 \in Levels /\ l - 1 < 3 /\ l \in Int
  BY Stage2Assumption DEF Levels, TableLevels, RTT_PAGE_LEVEL
<1>2. /\ l - 1 \in {2, 3} /\ e.pa \in Granules /\ Live(e) /\ LiveNum(e) = 1
      /\ Mem(e, l - 1) = e.pa .. e.pa + Pages(l - 1) - 1
  BY <1>1, AssignedEntry
<1>3. l = 3 /\ l - 1 = 2 /\ Pages(l) = 1 /\ Pages(l - 1) = E
  BY <1>1, <1>2, PagesAre
<1>4. e.pa \in Int
  BY <1>2 DEF Granules
<1>5. \A j \in Slots : e.pa + j \in Granules /\ e.pa + j \in Mem(e, l - 1)
  BY <1>2, <1>3, <1>4, EPositive DEF Slots
<1>6. PICK tb : tb = Unfolded(e, l)
  OBVIOUS
<1>7. tb = [j \in Slots |-> CreateAssignedEmpty(e.pa + j)]
  BY <1>6, UnfoldsAssigned
<1>8. \A j \in Slots : tb[j] = CreateAssignedEmpty(e.pa + j)
  BY <1>7
<1>9. \A j \in Slots : /\ Good(tb[j], l) /\ IsAssigned(tb[j]) /\ tb[j].pa = e.pa + j
  <2>1. \A g \in Granules : Aligned(g, l)
    BY <1>3 DEF Aligned, Granules
  <2> QED BY <1>1, <1>3, <1>5, <1>8, <2>1, NewEntries
<1>10. \A j \in Slots : ~IsTable(tb[j], l) /\ Live(tb[j]) /\ Mem(tb[j], l) = {e.pa + j}
  <2>1. \A b \in Int : b .. b + 1 - 1 = {b}
    OBVIOUS
  <2> QED BY <1>1, <1>3, <1>5, <1>9, <2>1, AssignedEntry DEF Granules
<1>11. LiveCount(tb) = E
  BY <1>10, LiveCountIs
<1>12. tb \in [Slots -> Entries]
  <2>1. \A j \in Slots : tb[j] \in Entries
    BY <1>9 DEF Good
  <2> QED BY <1>7, <2>1
<1>13. \A x \in Mem(e, l - 1) : \E j \in Slots : x \in Mem(tb[j], l)
  <2> SUFFICES ASSUME NEW x \in Mem(e, l - 1) PROVE \E j \in Slots : x \in Mem(tb[j], l)
    OBVIOUS
  <2>1. x - e.pa \in Slots /\ x = e.pa + (x - e.pa)
    BY <1>2, <1>3, <1>4, EPositive DEF Slots
  <2> QED BY <2>1, <1>10
<1>14. \A j \in Slots : \A x \in Mem(tb[j], l) :
         x \in Mem(e, l - 1) /\ \A i \in Slots : x \in Mem(tb[i], l) => i = j
  <2>1. \A j, i \in Slots : e.pa + i = e.pa + j => i = j
    BY <1>4 DEF Slots
  <2> QED BY <2>1, <1>5, <1>10
<1> QED BY <1>2, <1>6, <1>9, <1>10, <1>11, <1>12, <1>13, <1>14 DEF NewTable

(* An entry of no known kind gets an empty table, and counts as before. *)
LEMMA UnfoldsUnknown ==
  ASSUME NEW l \in TableLevels, NEW e, Good(e, l - 1), ~IsTable(e, l - 1), ~Recognised(e, l - 1)
  PROVE  NewTable(e, l, Unfolded(e, l)) /\ LiveCount(Unfolded(e, l)) = 0 /\ LiveNum(e) = 1
<1>1. l \in Levels /\ l - 1 \in Levels /\ l - 1 < 3
  BY Stage2Assumption DEF Levels, TableLevels, RTT_PAGE_LEVEL
<1>2. ~IsUnassigned(e) /\ ~IsDestroyed(e) /\ ~IsAssigned(e)
  BY DEF Recognised
<1>3. ~IsValid(e, l - 1) /\ ~IsValidNs(e, l - 1)
  BY <1>1, NoValidBlock
<1>4. e.ns
  BY <1>1, <1>2 DEF Good, IsUnassigned, IsDestroyed, IsAssigned, HasHipas, IsTable, RTT_PAGE_LEVEL,
                    S2TTE_L012_TABLE, S2TTE_Lx_INVALID
<1>5. Mem(e, l - 1) = {} /\ LiveNum(e) = 1
  BY <1>1, <1>4, NsEntry
<1>6. PICK tb : tb = ZeroTable
  OBVIOUS
<1>7. Unfolded(e, l) = tb
  BY <1>2, <1>3, <1>6 DEF Unfolded
<1>8. Good(ZeroEntry, l) /\ ~Live(ZeroEntry)
  BY <1>1, NewEntries
<1>9. \A j \in Slots : Good(tb[j], l) /\ ~Live(tb[j])
  BY <1>6, <1>8 DEF ZeroTable
<1>10. \A j \in Slots : Mem(tb[j], l) = {} /\ ~IsTable(tb[j], l)
  BY <1>1, <1>9, DeadEntry
<1>11. LiveCount(tb) = 0
  BY <1>9, LiveCountIs
<1>12. tb \in [Slots -> Entries]
  BY <1>6, <1>8 DEF ZeroTable, Good
<1> QED BY <1>5, <1>7, <1>9, <1>10, <1>11, <1>12 DEF NewTable

LEMMA RttCreateSafe ==
  ASSUME NEW p, SafeState(p), NEW c \in Cpus, Idle(c), NEW r \in Realms, NEW i \in Ipas,
         NEW l \in TableLevels, NEW g \in Granules, RttCreate(c, r, i, l, g)
  PROVE  \E q : /\ SafeState(q)'
                /\ q = [p EXCEPT ![g] = Child(p[TableAt(r, i)[l - 1]], Index(i, l - 1))]
<1> DEFINE t == TableAt(r, i)[l - 1]
           k == Index(i, l - 1)
           e == tbl[t][k]
           tb == Unfolded(e, l)
<1>1. t # None /\ Free(t) /\ Takable(g) /\ ~IsTable(e, l - 1)
  BY DEF RttCreate, At
<1>2. l \in Levels /\ l - 1 \in Levels /\ l - 1 < 3
  BY Stage2Assumption DEF Levels, TableLevels, RTT_PAGE_LEVEL
<1>3. Spot(p, r, i, l - 1, t, k)
  BY <1>1, <1>2, WalkSpot
<1>4. ~IsValid(e, l - 1) /\ ~IsValidNs(e, l - 1) /\ Good(e, l - 1)
  BY <1>2, <1>3, NoValidBlock DEF Spot
<1>5. IsUnassigned(e) \/ IsDestroyed(e) \/ IsAssigned(e) <=> Recognised(e, l - 1)
  BY <1>1, <1>4 DEF Recognised
<1>6. /\ tbl' = [tbl EXCEPT ![g] = tb, ![t][k] = CreateTable(g)]
      /\ gstate' = [gstate EXCEPT ![g] = "RTT"] /\ UNCHANGED f
      /\ refs' = IF Recognised(e, l - 1) THEN Referenced(t, g, e) ELSE refs
  BY <1>1, <1>4 DEF RttCreate, At
<1> HIDE DEF t, k, e, tb
<1>7. gstate[g] = "DELEGATED" /\ Unlocked(f, g) /\ g # t /\ g \in Tables /\ t \in Tables /\ refs[g] = 0
  <2>1. gstate[g] = "DELEGATED" /\ Unlocked(f, g) /\ t \in Tables
    BY <1>1, <1>3 DEF Takable, Free, Unlocked, Locks, Spot
  <2>2. g \in Tables /\ g # t
    BY <2>1, <1>3, NoneIsNoTable DEF Spot, Used, Tables
  <2> QED BY <2>1, <2>2 DEF SafeState, StateOK, UnusedZero
<1>8. NewTable(e, l, tb) /\ SplitCounts(refs', t, g, e, tb)
  <2>0. refs \in [Tables -> Int]
    BY DEF SafeState, StateOK, Typed
  <2>1. CASE IsUnassigned(e) \/ IsDestroyed(e)
    <3>1. NewTable(e, l, tb) /\ LiveCount(tb) = 0 /\ LiveNum(e) = 0
      BY <2>1, <1>4, UnfoldsDead DEF tb
    <3>2. refs' = [refs EXCEPT ![t] = refs[t] + 1]
      BY <2>1, <1>5, <1>6 DEF Referenced
    <3> QED BY <2>0, <3>1, <3>2, <1>7 DEF SplitCounts
  <2>2. CASE ~(IsUnassigned(e) \/ IsDestroyed(e)) /\ IsAssigned(e)
    <3>1. Mem(e, l - 1) \subseteq Granules
      <4>1. Holds(View(tbl, f), p, t, k) = Mem(e, l - 1)
        BY <1>3 DEF Spot, Holds, e
      <4>2. t \in Used(gstate) /\ k \in Slots
        BY <1>3 DEF Spot
      <4> QED BY <4>1, <4>2 DEF SafeState, StateOK, Memory, MemoryIsData
    <3>2. NewTable(e, l, tb) /\ LiveCount(tb) = E /\ LiveNum(e) = 1
      BY <2>2, <3>1, <1>4, UnfoldsFull DEF tb
    <3>3. refs' = [refs EXCEPT ![g] = refs[g] + E]
      BY <2>2, <1>5, <1>6 DEF Referenced
    <3> QED BY <2>0, <3>2, <3>3, <1>7, EPositive DEF SplitCounts
  <2>3. CASE ~Recognised(e, l - 1)
    <3>1. NewTable(e, l, tb) /\ LiveCount(tb) = 0 /\ LiveNum(e) = 1
      BY <2>3, <1>1, <1>4, UnfoldsUnknown DEF tb
    <3>2. refs' = refs
      BY <2>3, <1>6
    <3> QED BY <2>0, <3>1, <3>2, <1>7 DEF SplitCounts
  <2> QED BY <2>1, <2>2, <2>3, <1>5
<1>9. SplitWrites(tbl', t, k, g, tb)
  BY <1>6 DEF SplitWrites
<1>10. StateOK(tbl', [gstate EXCEPT ![g] = "RTT"], f, refs', [p EXCEPT ![g] = Child(p[t], k)])
  BY <1>1, <1>2, <1>3, <1>7, <1>8, <1>9, SplitSafe DEF e
<1>11. StateOK(tbl', gstate', f', refs', [p EXCEPT ![g] = Child(p[t], k)])
  BY <1>6, <1>10
<1>12. PICK q : q = [p EXCEPT ![g] = Child(p[t], k)]
  OBVIOUS
<1>13. SafeState(q)'
  BY <1>11, <1>12 DEF SafeState
<1> QED BY <1>12, <1>13 DEF t, k

---------------------------------------------------------------------------
(* RMI_DATA_DESTROY *)
OneMoves(F, H, c) ==
  /\ F \in [Cpus -> Frames] /\ H \in [Cpus -> Frames] /\ LocksDiffer(F) /\ LocksDiffer(H)
  /\ c \in Cpus /\ \A d \in Cpus : d # c => H[d] = F[d]

LEMMA OthersView ==
  ASSUME NEW F, NEW H, NEW c, OneMoves(F, H, c)
  PROVE  \A T, T2 : \A u \in Tables, j \in Slots :
           T2[u][j] = T[u][j] /\ ~BreakAt(F[c], u, j) /\ ~BreakAt(H[c], u, j)
             => View(T2, H)[u][j] = View(T, F)[u][j]
<1> SUFFICES ASSUME NEW T, NEW T2, NEW u \in Tables, NEW j \in Slots, T2[u][j] = T[u][j],
                    ~BreakAt(F[c], u, j), ~BreakAt(H[c], u, j)
             PROVE  ViewAt(T2, H, u, j) = ViewAt(T, F, u, j)
  BY DEF View
<1> USE DEF OneMoves
<1>1. \A d \in Cpus : BreakAt(H[d], u, j) <=> BreakAt(F[d], u, j)
  OBVIOUS
<1>2. CASE \E d \in Cpus : BreakAt(F[d], u, j)
  <2>1. PICK d \in Cpus : BreakAt(F[d], u, j)
    BY <1>2
  <2>2. BreakAt(H[d], u, j) /\ H[d] = F[d]
    BY <1>1, <2>1
  <2>3. ViewAt(T2, H, u, j) = H[d].old
    BY <2>2, ViewIs
  <2>4. ViewAt(T, F, u, j) = F[d].old
    BY <2>1, ViewIs
  <2> QED BY <2>2, <2>3, <2>4
<1>3. CASE \A d \in Cpus : ~BreakAt(F[d], u, j)
  <2>1. \A d \in Cpus : ~BreakAt(H[d], u, j)
    BY <1>1, <1>3
  <2>2. ViewAt(T2, H, u, j) = T2[u][j]
    BY <2>1, ViewIs
  <2>3. ViewAt(T, F, u, j) = T[u][j]
    BY <1>3, ViewIs
  <2> QED BY <2>2, <2>3
<1> QED BY <1>2, <1>3

FreeFrame(nf, r, t, g, i, pc) ==
  nf = [IdleFrame EXCEPT !.pc = pc, !.then = "free", !.r = r, !.llt = t, !.sub = g, !.span = {i}]

LEMMA FreeIsFrame ==
  ASSUME NEW r \in Realms, NEW t \in Tables, NEW g \in Granules, NEW i \in Int,
         NEW pc \in {"tlbi", "free"}, NEW nf, FreeFrame(nf, r, t, g, i, pc)
  PROVE  /\ nf \in Frames /\ nf.pc = pc /\ nf.then = "free" /\ nf.r = r /\ nf.llt = t
         /\ nf.sub = g /\ Locks(nf) = {t, g}
<1>1. t # None /\ g # None /\ 0 \in Slots
  BY NoneIsNoTable, EPositive DEF Slots
<1>2. nf \in Frames /\ nf.llt = t /\ nf.sub = g
  BY <1>1 DEF FreeFrame, IdleFrame, Frames
<1> QED BY <1>1, <1>2 DEF FreeFrame, IdleFrame, Locks

(* A DATA granule is locked by nobody but a command about to free it. *)
LEMMA DataUnlocked ==
  ASSUME NEW p, SafeState(p), NEW g \in Granules, gstate[g] = "DATA", g \notin Dying(f)
  PROVE  Unlocked(f, g)
<1> SUFFICES ASSUME NEW d \in Cpus, g \in Locks(f[d]) PROVE FALSE
  BY DEF Unlocked
<1>1. FrameOK(tbl, gstate, refs, p, f[d])
  BY DEF SafeState, StateOK, FramesOK
<1>2. g # None /\ g \notin Used(gstate)
  BY NoneIsNoTable DEF Used
<1>3. CASE g = f[d].llt
  BY <1>1, <1>2, <1>3 DEF FrameOK
<1>4. CASE g = f[d].sub
  <2>1. f[d].then # "free"
    BY <1>4 DEF Dying
  <2> QED BY <1>1, <1>2, <1>4, <2>1 DEF FrameOK
<1> QED BY <1>3, <1>4 DEF Locks

GivesUp(t, k, e, g) ==
  Mem(tbl[t][k], 3) = {g} /\ Mem(e, 3) = {} /\ LiveNum(tbl[t][k]) = 1 /\ LiveNum(e) = 0

LEMMA DestroySafe ==
  ASSUME NEW p, SafeState(p), NEW c \in Cpus, f[c].then = "idle", NEW r \in Realms, NEW i \in Int,
         NEW t, NEW k, NEW e, NEW T2, SpotWrite(p, r, i, 3, t, k, e, T2),
         NEW g, GivesUp(t, k, e, g),
         NEW pc \in {"tlbi", "free"}, NEW nf, FreeFrame(nf, r, t, g, i, pc)
  PROVE  StateOK(T2, gstate, [f EXCEPT ![c] = nf], refs, p)
<1> DEFINE H == [f EXCEPT ![c] = nf]
<1>1. /\ t \in Used(gstate) /\ t \in Tables /\ k \in Slots /\ Unlocked(f, t)
      /\ refs[t] = LiveCount(tbl[t]) /\ Writes(tbl, T2, t, k) /\ T2[t][k] = e
  BY DEF Spot, SpotWrite
<1>2. f \in [Cpus -> Frames] /\ LocksDiffer(f) /\ T2 \in [Tables -> [Slots -> Entries]]
  BY <1>1 DEF SafeState, StateOK, Typed, Writes
<1>3. /\ Shape(View(T2, f), gstate, p) /\ Memory(View(T2, f), gstate, p, Dying(f) \cup {g})
      /\ g \notin Dying(f) /\ g \in Granules /\ gstate[g] = "DATA"
  <2>1. /\ Put(View(tbl, f), View(T2, f), gstate, p, t, k)
        /\ Holds(View(tbl, f), p, t, k) = {g} /\ Holds(View(T2, f), p, t, k) = {}
    BY SpotPut DEF GivesUp
  <2>2. Shape(View(tbl, f), gstate, p) /\ Memory(View(tbl, f), gstate, p, Dying(f))
    BY DEF SafeState, StateOK
  <2> QED BY <2>1, <2>2, PutDying
<1>4. Unlocked(f, g) /\ g # t
  BY <1>1, <1>3, DataUnlocked, NoneIsNoTable DEF Used
<1>5. /\ nf \in Frames /\ nf.pc = pc /\ nf.then = "free" /\ nf.r = r /\ nf.llt = t
      /\ nf.sub = g /\ Locks(nf) = {t, g}
  BY <1>1, <1>3, FreeIsFrame
<1>6. H \in [Cpus -> Frames] /\ H[c] = nf /\ \A d \in Cpus : d # c => H[d] = f[d]
  BY <1>2, <1>5
<1> HIDE DEF H
<1>7. LocksDiffer(H)
  BY <1>1, <1>4, <1>5, <1>6 DEF SafeState, StateOK, LocksDiffer, Unlocked
<1>8. View(T2, H) = View(T2, f) /\ Dying(H) = Dying(f) \cup {g}
  <2>1. \A u, j : ~BreakAt(f[c], u, j) /\ ~BreakAt(H[c], u, j)
    BY <1>5, <1>6 DEF BreakAt
  <2>2. OneMoves(f, H, c)
    BY <1>2, <1>6, <1>7 DEF OneMoves
  <2>3. \A u \in Tables, j \in Slots : View(T2, H)[u][j] = View(T2, f)[u][j]
    BY <2>1, <2>2, OthersView
  <2>4. View(T2, H) = View(T2, f)
    BY <2>3 DEF View
  <2>5. Dying(H) = Dying(f) \cup {g}
    BY <1>5, <1>6 DEF Dying
  <2> QED BY <2>4, <2>5
<1>9. FrameOK(T2, gstate, refs, p, nf)
  <2>1. \A j \in Slots : j = k \/ T2[t][j] = tbl[t][j]
    BY <1>1 DEF Writes
  <2>2. LiveCount(T2[t]) = LiveCount(tbl[t]) + LiveNum(T2[t][k]) - LiveNum(tbl[t][k])
    BY <1>1, <2>1, LiveCountPut
  <2>3. LiveCount(tbl[t]) \in 0 .. E
    BY LiveCountIs
  <2>4. refs[t] = LiveCount(T2[t]) + 1 /\ LiveCount(T2[t]) < E
    BY <1>1, <2>2, <2>3, EPositive DEF GivesUp
  <2>5. FreeOK(T2, gstate, refs, nf)
    BY <1>1, <1>3, <1>5, <2>4 DEF FreeOK
  <2> QED BY <1>1, <1>5, <2>5 DEF FrameOK
<1>10. FramesOK(T2, gstate, H, refs, p)
  <2> SUFFICES ASSUME NEW d \in Cpus, d # c PROVE FrameOK(T2, gstate, refs, p, f[d])
    BY <1>6, <1>9 DEF FramesOK
  <2>1. Locks(f[d]) \subseteq Tables /\ t \notin Locks(f[d])
    BY <1>1, <1>2 DEF Locks, Frames, Tables, Unlocked
  <2>2. \A x \in Locks(f[d]) : /\ T2[x] = tbl[x] /\ refs[x] = refs[x] /\ p[x] = p[x]
                               /\ x \in Used(gstate) => x \in Used(gstate)
                               /\ x \in Granules => gstate[x] = gstate[x]
    BY <1>1, <2>1 DEF Writes
  <2>3. f[d] \in Frames /\ FrameOK(tbl, gstate, refs, p, f[d])
    BY <1>2 DEF SafeState, StateOK, FramesOK
  <2> QED BY <2>2, <2>3, FrameKept
<1>11. Counted(T2, gstate, H, refs)
  <2> SUFFICES ASSUME NEW u \in Used(gstate),
                      \A d \in Cpus : ~(H[d].then # "idle" /\ u \in Locks(H[d]))
               PROVE  refs[u] = LiveCount(T2[u])
    BY DEF Counted
  <2>1. u # t /\ u \in Tables
    BY <1>5, <1>6, UsedAreTables
  <2>2. \A d \in Cpus : ~(f[d].then # "idle" /\ u \in Locks(f[d]))
    BY <1>6
  <2> QED BY <2>1, <2>2, <1>1 DEF SafeState, StateOK, Counted, Writes
<1>12. UnusedZero(T2, gstate, refs)
  <2> SUFFICES ASSUME NEW x \in Granules, gstate[x] # "RTT"
               PROVE  refs[x] = 0 /\ T2[x] = ZeroTable
    BY DEF UnusedZero
  <2>1. x \in Tables /\ x # t
    BY <1>1, NoneIsNoTable DEF Tables, Used
  <2> QED BY <2>1, <1>1 DEF SafeState, StateOK, UnusedZero, Writes
<1>13. Typed(T2, gstate, H, refs)
  BY <1>2, <1>6 DEF SafeState, StateOK, Typed
<1> QED BY <1>3, <1>7, <1>8, <1>10, <1>11, <1>12, <1>13 DEF StateOK, H

LEMMA DataDestroySafe ==
  ASSUME NEW p, SafeState(p), NEW c \in Cpus, Idle(c), NEW r \in Realms, NEW i \in Ipas,
         DataDestroy(c, r, i)
  PROVE  SafeState(p)'
<1> DEFINE l == RTT_PAGE_LEVEL
           t == TableAt(r, i)[l]
           k == Index(i, l)
           a == tbl[t][k]
           e == IF IsValid(a, l) THEN CreateDestroyed ELSE CreateUnassigned("EMPTY")
           pc == DestroyContinues(a)
           nf == [IdleFrame EXCEPT !.pc = pc, !.then = "free", !.r = r, !.llt = t, !.sub = a.pa,
                                   !.span = {i}]
<1>1. l = 3 /\ l \in Levels
  BY LevelsAre DEF RTT_PAGE_LEVEL
<1>2. t # None /\ Free(t) /\ (IsValid(a, l) \/ IsAssigned(a))
  BY DEF DataDestroy, At
<1>3. Spot(p, r, i, l, t, k)
  BY <1>1, <1>2, WalkSpot
<1>4. /\ tbl' = [tbl EXCEPT ![t][k] = e] /\ UNCHANGED <<gstate, refs>>
      /\ f' = [f EXCEPT ![c] = nf]
  BY DEF DataDestroy, Become, At
<1>5. FreeFrame(nf, r, t, a.pa, i, pc) /\ pc \in {"tlbi", "free"}
  BY DEF FreeFrame, DestroyContinues
<1> HIDE DEF nf, pc, t, k
<1>6. Good(e, l) /\ ~IsTable(e, l) /\ Mem(e, l) = {} /\ LiveNum(e) = 0
  <2>1. "EMPTY" \in Ripas
    BY DEF Ripas
  <2>2. Good(e, l) /\ ~Live(e)
    BY <1>1, <2>1, NewEntries
  <2> QED BY <1>1, <2>2, DeadEntry
<1>7. ~IsTable(a, l) /\ Mem(a, l) = {a.pa} /\ LiveNum(a) = 1
  <2>1. Good(a, l)
    BY <1>3 DEF Spot
  <2>2. CASE IsValid(a, l)
    BY <1>1, <2>1, <2>2, ValidEntry
  <2>3. CASE IsAssigned(a)
    <3>1. ~IsTable(a, l) /\ LiveNum(a) = 1 /\ a.pa \in Granules /\ Mem(a, l) = a.pa .. a.pa + Pages(l) - 1
      BY <1>1, <2>1, <2>3, AssignedEntry
    <3>2. a.pa .. a.pa + 1 - 1 = {a.pa}
      BY <3>1 DEF Granules
    <3> QED BY <1>1, <3>1, <3>2, PagesAre
  <2> QED BY <1>2, <2>2, <2>3
<1>8. SpotWrite(p, r, i, l, t, k, e, tbl')
  BY <1>3, <1>4, <1>6, <1>7, SpotWriteIs
<1>9. f[c].then = "idle"
  BY DEF Idle, SafeState, StateOK, FramesOK, FrameOK, IdleFrame
<1>10. i \in Int
  BY DEF Ipas
<1> HIDE DEF e
<1>11. PICK g : g = a.pa
  OBVIOUS
<1>12. /\ SpotWrite(p, r, i, 3, t, k, e, tbl') /\ GivesUp(t, k, e, g)
       /\ FreeFrame(nf, r, t, g, i, pc) /\ pc \in {"tlbi", "free"}
  BY <1>1, <1>5, <1>6, <1>7, <1>8, <1>11 DEF GivesUp
<1> HIDE DEF l, a
<1>13. StateOK(tbl', gstate, [f EXCEPT ![c] = nf], refs, p)
  BY <1>9, <1>10, <1>12, DestroySafe
<1> QED BY <1>4, <1>13 DEF SafeState

LEMMA DataFreeSafe ==
  ASSUME NEW p, SafeState(p), NEW c \in Cpus, DataFree(c)
  PROVE  SafeState(p)'
<1> DEFINE t == f[c].llt
           g == f[c].sub
           H == [f EXCEPT ![c] = IdleFrame]
           G2 == [gstate EXCEPT ![g] = "DELEGATED"]
           R2 == [refs EXCEPT ![t] = refs[t] - 1]
<1>1. f[c].pc = "free" /\ tbl' = tbl /\ gstate' = G2 /\ refs' = R2 /\ f' = H
  BY DEF DataFree, Return, Become
<1>2. /\ f \in [Cpus -> Frames] /\ LocksDiffer(f) /\ tbl \in [Tables -> [Slots -> Entries]]
      /\ gstate \in [Granules -> {"DELEGATED", "RTT", "DATA"}] /\ refs \in [Tables -> Int]
  BY DEF SafeState, StateOK, Typed
<1>3. /\ f[c].then = "free" /\ t \in Used(gstate) /\ g \in Granules /\ gstate[g] = "DATA"
      /\ refs[t] = LiveCount(tbl[t]) + 1
  <2>1. FrameOK(tbl, gstate, refs, p, f[c]) /\ f[c] \in Frames
    BY <1>2 DEF SafeState, StateOK, FramesOK
  <2>2. f[c].then \in {"idle", "make", "free"}
    BY <2>1 DEF Frames
  <2>3. f[c].then = "free"
    BY <1>1, <2>1, <2>2 DEF FrameOK, MakeOK
  <2> QED BY <2>1, <2>3 DEF FrameOK, FreeOK
<1>4. t \in Tables /\ g \in Tables /\ g # t /\ Locks(f[c]) = {t, g}
  BY <1>3, UsedAreTables, NoneIsNoTable DEF Tables, Used, Locks
<1>5. g \in Dying(f)
  BY <1>3 DEF Dying
<1>6. H \in [Cpus -> Frames] /\ H[c] = IdleFrame /\ \A d \in Cpus : d # c => H[d] = f[d]
  BY <1>2, IdleIsFrame
<1>7. /\ G2 \in [Granules -> {"DELEGATED", "RTT", "DATA"}] /\ G2[g] = "DELEGATED"
      /\ \A x \in Granules : x # g => G2[x] = gstate[x]
  BY <1>2, <1>3
<1>8. R2 \in [Tables -> Int] /\ R2[t] = LiveCount(tbl[t]) /\ \A u \in Tables : u # t => R2[u] = refs[u]
  <2>1. LiveCount(tbl[t]) \in 0 .. E
    BY LiveCountIs
  <2>2. R2[t] = refs[t] - 1 /\ R2 \in [Tables -> Int] /\ \A u \in Tables : u # t => R2[u] = refs[u]
    BY <1>2, <1>4
  <2> QED BY <2>1, <2>2, <1>3
<1>9. Becomes(gstate, G2, g, "DELEGATED")
  BY DEF Becomes
<1> HIDE DEF H, G2, R2, g, t
<1>10. IdleFrame.then = "idle" /\ Locks(IdleFrame) = {} /\ FrameOK(tbl, G2, R2, p, IdleFrame)
  BY IdleIsFrame
<1>11. LocksDiffer(H)
  BY <1>6, <1>10 DEF SafeState, StateOK, LocksDiffer
<1>12. \A d \in Cpus : d # c => t \notin Locks(f[d]) /\ g \notin Locks(f[d])
  BY <1>2, <1>4 DEF LocksDiffer
<1>13. View(tbl, H) = View(tbl, f) /\ Dying(H) = Dying(f) \ {g}
  <2>1. \A u, j : ~BreakAt(f[c], u, j) /\ ~BreakAt(H[c], u, j)
    BY <1>3, <1>6, <1>10 DEF BreakAt
  <2>2. OneMoves(f, H, c)
    BY <1>2, <1>6, <1>11 DEF OneMoves
  <2>3. \A u \in Tables, j \in Slots : View(tbl, H)[u][j] = View(tbl, f)[u][j]
    BY <2>1, <2>2, OthersView
  <2>4. View(tbl, H) = View(tbl, f)
    BY <2>3 DEF View
  <2>5. \A d \in Cpus : d # c => f[d].sub # g
    BY <1>4, <1>12, NoneIsNoTable DEF Locks
  <2>6. Dying(H) = Dying(f) \ {g}
    BY <1>3, <1>6, <1>10, <2>5 DEF Dying, g
  <2> QED BY <2>4, <2>6
<1>14. Shape(View(tbl, H), G2, p) /\ Memory(View(tbl, H), G2, p, Dying(H)) /\ Used(G2) = Used(gstate)
  <2>1. Shape(View(tbl, f), gstate, p) /\ Memory(View(tbl, f), gstate, p, Dying(f))
    BY DEF SafeState, StateOK
  <2>2. Shape(View(tbl, f), G2, p) /\ Memory(View(tbl, f), G2, p, Dying(f) \ {g})
    BY <1>5, <1>9, <2>1, FreeDying
  <2>3. Used(G2) = Used(gstate)
    BY <1>3, <1>7 DEF Used
  <2> QED BY <1>13, <2>2, <2>3
<1>15. FramesOK(tbl, G2, H, R2, p)
  <2> SUFFICES ASSUME NEW d \in Cpus, d # c PROVE FrameOK(tbl, G2, R2, p, f[d])
    BY <1>6, <1>10 DEF FramesOK
  <2>1. Locks(f[d]) \subseteq Tables
    BY <1>2 DEF Locks, Frames, Tables
  <2>2. \A x \in Locks(f[d]) : /\ tbl[x] = tbl[x] /\ R2[x] = refs[x] /\ p[x] = p[x]
                               /\ x \in Used(gstate) => x \in Used(G2)
                               /\ x \in Granules => G2[x] = gstate[x]
    BY <1>7, <1>8, <1>12, <1>14, <2>1
  <2>3. f[d] \in Frames /\ FrameOK(tbl, gstate, refs, p, f[d])
    BY <1>2 DEF SafeState, StateOK, FramesOK
  <2> QED BY <2>2, <2>3, FrameKept
<1>16. Counted(tbl, G2, H, R2)
  <2> SUFFICES ASSUME NEW u \in Used(G2), u # t,
                      \A d \in Cpus : ~(H[d].then # "idle" /\ u \in Locks(H[d]))
               PROVE  R2[u] = LiveCount(tbl[u])
    BY <1>8 DEF Counted
  <2>1. u \in Used(gstate) /\ u \in Tables /\ u # g
    BY <1>3, <1>14, NoneIsNoTable, UsedAreTables DEF Used
  <2>2. \A d \in Cpus : ~(f[d].then # "idle" /\ u \in Locks(f[d]))
    BY <1>4, <1>6, <2>1
  <2> QED BY <2>1, <2>2, <1>8 DEF SafeState, StateOK, Counted
<1>17. UnusedZero(tbl, G2, R2)
  <2> SUFFICES ASSUME NEW x \in Granules, G2[x] # "RTT"
               PROVE  R2[x] = 0 /\ tbl[x] = ZeroTable
    BY DEF UnusedZero
  <2>1. gstate[x] # "RTT" /\ x \in Tables
    BY <1>3, <1>7 DEF Tables
  <2>2. x # t
    BY <1>3, <2>1, NoneIsNoTable DEF Used
  <2> QED BY <2>1, <2>2, <1>8 DEF SafeState, StateOK, UnusedZero
<1>18. Typed(tbl, G2, H, R2)
  BY <1>2, <1>6, <1>7, <1>8 DEF Typed
<1>19. StateOK(tbl, G2, H, R2, p)
  BY <1>11, <1>14, <1>15, <1>16, <1>17, <1>18 DEF StateOK
<1> QED BY <1>1, <1>19 DEF SafeState

---------------------------------------------------------------------------
(* The end of a break before make: the table below the entry is given back. *)
MakeWrites(T2, t, k, g, new) ==
  /\ T2 \in [Tables -> [Slots -> Entries]] /\ T2[t][k] = new /\ T2[g] = ZeroTable
  /\ \A u \in Tables : u # t /\ u # g => T2[u] = tbl[u]
  /\ \A j \in Slots : j # k => T2[t][j] = tbl[t][j]

LEMMA MakeSafe ==
  ASSUME NEW p, SafeState(p), NEW c \in Cpus, Make(c)
  PROVE  SafeState(p)'
<1> DEFINE t == f[c].llt
           k == f[c].idx
           g == f[c].sub
           new == f[c].new
           l == p[t].lvl
           H == [f EXCEPT ![c] = IdleFrame]
           G2 == [gstate EXCEPT ![g] = "DELEGATED"]
           T2 == [tbl EXCEPT ![t][k] = new, ![g] = ZeroTable]
           V == View(tbl, f)
           W == View(T2, H)
<1>1. /\ f \in [Cpus -> Frames] /\ LocksDiffer(f) /\ tbl \in [Tables -> [Slots -> Entries]]
      /\ gstate \in [Granules -> {"DELEGATED", "RTT", "DATA"}] /\ refs \in [Tables -> Int]
      /\ p \in [Tables -> Places] /\ FrameOK(tbl, gstate, refs, p, f[c])
  BY DEF SafeState, StateOK, Typed, FramesOK, Shape, TreeTyped
<1>2. f[c].pc = "make" /\ f[c].then = "make" /\ MakeOK(tbl, gstate, refs, p, f[c])
  <2>1. f[c].pc = "make" /\ f[c].then \in {"idle", "make", "free"}
    BY <1>1 DEF Make, Frames
  <2>2. f[c].then = "make"
    BY <1>1, <2>1 DEF FrameOK, FreeOK
  <2> QED BY <1>1, <2>1, <2>2 DEF FrameOK
<1>3. /\ t \in Used(gstate) /\ k \in Slots /\ l < 3 /\ g \in Granules /\ gstate[g] = "RTT"
      /\ f[c].old \in Entries /\ IsTable(f[c].old, l) /\ f[c].old.pa = g /\ tbl[t][k] = ZeroEntry
      /\ refs[g] = 0 /\ refs[t] = LiveCount(tbl[t]) + LiveNum(new)
      /\ Good(new, l) /\ ~IsTable(new, l) /\ (Mem(new, l) # {} => InPar(Last(p[t], k)))
      /\ f[c].gs = "DELEGATED"
  BY <1>1, <1>2 DEF MakeOK, Frames
<1>4. /\ \A j \in Slots : ~IsTable(tbl[g][j], l + 1)
      /\ \A x \in Mem(new, l) : \E j \in Slots : x \in Mem(tbl[g][j], l + 1)
      /\ \A j \in Slots : \A x \in Mem(tbl[g][j], l + 1) : x \in Mem(new, l)
  BY <1>2 DEF MakeOK
<1>5. tbl' = T2 /\ gstate' = G2 /\ refs' = refs /\ f' = H
  BY <1>3 DEF Make, Return, Become
<1>6. t \in Tables /\ g \in Tables /\ l \in Levels /\ new \in Entries
  BY <1>1, <1>3, UsedAreTables DEF Tables, Places, Good
<1>7. BreakAt(f[c], t, k) /\ V[t][k] = f[c].old
  <2>1. BreakAt(f[c], t, k)
    BY <1>2 DEF BreakAt
  <2>2. ViewAt(tbl, f, t, k) = f[c].old /\ V[t][k] = ViewAt(tbl, f, t, k)
    BY <1>1, <1>3, <1>6, <2>1, ViewIs
  <2> QED BY <2>1, <2>2
<1>8. Points(V, p, t, k) /\ V[t][k].pa = g
  BY <1>3, <1>7 DEF Points
<1>9. p[g] = Child(p[t], k)
  BY <1>3, <1>8 DEF SafeState, StateOK, Shape, ChildrenPlaced
<1>10. g # t /\ p[g].lvl = l + 1
  BY <1>6, <1>9, LevelIs DEF Child
<1>11. Locks(f[c]) = {t, g}
  BY <1>6, NoneIsNoTable DEF Locks
<1>12. H \in [Cpus -> Frames] /\ H[c] = IdleFrame /\ \A d \in Cpus : d # c => H[d] = f[d]
  BY <1>1, IdleIsFrame
<1>13. /\ G2 \in [Granules -> {"DELEGATED", "RTT", "DATA"}] /\ G2[g] = "DELEGATED"
       /\ \A x \in Granules : x # g => G2[x] = gstate[x]
  BY <1>1, <1>3
<1>14. Becomes(gstate, G2, g, "DELEGATED")
  BY DEF Becomes
<1>15. MakeWrites(T2, t, k, g, new)
  <2>1. ZeroTable \in [Slots -> Entries]
    <3>1. ZeroEntry \in Entries
      BY <1>3, <1>1, <1>6, LevelsAre, NewEntries DEF Good
    <3> QED BY <3>1 DEF ZeroTable
  <2> QED BY <2>1, <1>1, <1>3, <1>6, <1>10 DEF MakeWrites
<1> HIDE DEF T2, H, G2
<1>16. IdleFrame.then = "idle" /\ Locks(IdleFrame) = {} /\ FrameOK(T2, G2, refs, p, IdleFrame)
  BY IdleIsFrame
<1>17. LocksDiffer(H)
  BY <1>12, <1>16 DEF SafeState, StateOK, LocksDiffer
<1>18. \A d \in Cpus : d # c => t \notin Locks(f[d]) /\ g \notin Locks(f[d])
  BY <1>1, <1>11 DEF LocksDiffer
<1>19. /\ \A u \in Tables, j \in Slots : (u = t /\ j = k) \/ u = g \/ W[u][j] = V[u][j]
       /\ W[t][k] = new /\ \A j \in Slots : V[g][j] = tbl[g][j]
       /\ W \in [Tables -> [Slots -> Entries]]
  <2>1. \A u, j : ~BreakAt(H[c], u, j) /\ (BreakAt(f[c], u, j) => u = t /\ j = k)
    BY <1>12, <1>16 DEF BreakAt
  <2>2. OneMoves(f, H, c)
    BY <1>1, <1>12, <1>17 DEF OneMoves
  <2>3. \A u \in Tables, j \in Slots :
          (u = t /\ j = k) \/ u = g \/ (T2[u][j] = tbl[u][j] /\ ~BreakAt(f[c], u, j))
    BY <1>15, <2>1 DEF MakeWrites
  <2>4. \A u \in Tables, j \in Slots : (u = t /\ j = k) \/ u = g \/ W[u][j] = V[u][j]
    BY <2>1, <2>2, <2>3, OthersView
  <2>5. Unlocked(H, t)
    BY <1>12, <1>16, <1>18 DEF Unlocked
  <2>6. W[t][k] = T2[t][k]
    BY <1>3, <1>6, <1>12, <1>17, <2>5, ViewUnlocked
  <2>7. \A j \in Slots : V[g][j] = tbl[g][j]
    <3> SUFFICES ASSUME NEW j \in Slots PROVE V[g][j] = tbl[g][j]
      OBVIOUS
    <3>1. \A d \in Cpus : ~BreakAt(f[d], g, j)
      BY <1>6, <1>10, <1>18, <2>1, NoneIsNoTable DEF BreakAt, Locks
    <3> QED BY <1>1, <1>6, <3>1, ViewIs
  <2>8. \A d \in Cpus : H[d].then = "make" => H[d].old \in Entries
    <3>1. \A d \in Cpus : f[d].then = "make" => f[d].old \in Entries
      BY OldIsEntry DEF SafeState, StateOK
    <3> QED BY <3>1, <1>12, <1>16
  <2>9. W \in [Tables -> [Slots -> Entries]]
    BY <1>12, <1>15, <1>17, <2>8, ViewTyped DEF MakeWrites
  <2> QED BY <2>4, <2>6, <2>7, <2>9, <1>15 DEF MakeWrites
<1> HIDE DEF V, W
<1>20. Merge(V, W, gstate, p, t, k, g)
  <2>1. ~Points(W, p, t, k) /\ Good(W[t][k], p[t].lvl) /\ Holds(W, p, t, k) = Mem(new, l)
    BY <1>3, <1>19 DEF Points, Holds
  <2>2. \A j \in Slots : ~Points(V, p, g, j) /\ Holds(V, p, g, j) = Mem(tbl[g][j], l + 1)
    BY <1>4, <1>10, <1>19 DEF Points, Holds
  <2>3. /\ \A x \in Holds(W, p, t, k) : \E j \in Slots : x \in Holds(V, p, g, j)
        /\ \A j \in Slots : \A x \in Holds(V, p, g, j) : x \in Holds(W, p, t, k)
    BY <1>4, <2>1, <2>2
  <2>4. Holds(W, p, t, k) # {} => InPar(Last(p[t], k))
    BY <1>3, <2>1
  <2> QED BY <1>3, <1>8, <1>19, <2>1, <2>2, <2>3, <2>4 DEF Merge
<1>21. Dying(H) = Dying(f)
  BY <1>2, <1>12, <1>16 DEF Dying
<1>22. Shape(W, G2, p) /\ Memory(W, G2, p, Dying(H)) /\ Used(G2) = Used(gstate) \ {g}
  <2>1. Shape(V, gstate, p) /\ Memory(V, gstate, p, Dying(f))
    BY DEF SafeState, StateOK, V
  <2> QED BY <1>14, <1>20, <1>21, <2>1, MergeTree
<1> HIDE DEF t, k, g, new, l
<1>23. FramesOK(T2, G2, H, refs, p)
  <2> SUFFICES ASSUME NEW d \in Cpus, d # c PROVE FrameOK(T2, G2, refs, p, f[d])
    BY <1>12, <1>16 DEF FramesOK
  <2>1. Locks(f[d]) \subseteq Tables
    BY <1>1 DEF Locks, Frames, Tables
  <2>2. \A x \in Locks(f[d]) : /\ T2[x] = tbl[x] /\ refs[x] = refs[x] /\ p[x] = p[x]
                               /\ x \in Used(gstate) => x \in Used(G2)
                               /\ x \in Granules => G2[x] = gstate[x]
    BY <1>13, <1>15, <1>18, <1>22, <2>1 DEF MakeWrites
  <2>3. f[d] \in Frames /\ FrameOK(tbl, gstate, refs, p, f[d])
    BY <1>1 DEF SafeState, StateOK, FramesOK
  <2> QED BY <2>2, <2>3, FrameKept
<1>24. Counted(T2, G2, H, refs)
  <2> SUFFICES ASSUME NEW u \in Used(G2), \A d \in Cpus : ~(H[d].then # "idle" /\ u \in Locks(H[d]))
               PROVE  refs[u] = LiveCount(T2[u])
    BY DEF Counted
  <2>1. u \in Used(gstate) /\ u # g /\ u \in Tables
    BY <1>22, UsedAreTables
  <2>2. CASE u = t
    <3>1. \A j \in Slots : j = k \/ T2[t][j] = tbl[t][j]
      BY <1>15 DEF MakeWrites
    <3>2. LiveCount(T2[t]) = LiveCount(tbl[t]) + LiveNum(T2[t][k]) - LiveNum(tbl[t][k])
      BY <1>3, <3>1, LiveCountPut
    <3>3. LiveNum(tbl[t][k]) = 0
      BY <1>3, LevelsAre, NewEntries, LiveNumIs
    <3>4. LiveCount(tbl[t]) \in 0 .. E /\ LiveNum(new) \in {0, 1}
      BY LiveCountIs, LiveNumIs
    <3> QED BY <1>3, <1>15, <2>2, <3>2, <3>3, <3>4 DEF MakeWrites
  <2>3. CASE u # t
    <3>1. \A d \in Cpus : ~(f[d].then # "idle" /\ u \in Locks(f[d]))
      BY <1>11, <1>12, <2>1, <2>3
    <3> QED BY <3>1, <2>1, <2>3, <1>15 DEF SafeState, StateOK, Counted, MakeWrites
  <2> QED BY <2>2, <2>3
<1>25. UnusedZero(T2, G2, refs)
  <2> SUFFICES ASSUME NEW x \in Granules, G2[x] # "RTT"
               PROVE  refs[x] = 0 /\ T2[x] = ZeroTable
    BY DEF UnusedZero
  <2>1. CASE x = g
    BY <1>3, <1>15, <2>1 DEF MakeWrites
  <2>2. CASE x # g
    <3>1. gstate[x] # "RTT" /\ x \in Tables
      BY <1>13, <2>2 DEF Tables
    <3>2. x # t
      BY <1>3, <3>1, NoneIsNoTable DEF Used
    <3> QED BY <3>1, <3>2, <2>2, <1>15 DEF SafeState, StateOK, UnusedZero, MakeWrites
  <2> QED BY <2>1, <2>2
<1>26. Typed(T2, G2, H, refs)
  BY <1>1, <1>12, <1>13, <1>15 DEF Typed, MakeWrites
<1>27. StateOK(T2, G2, H, refs, p)
  BY <1>17, <1>22, <1>23, <1>24, <1>25, <1>26 DEF StateOK, W
<1> QED BY <1>5, <1>27 DEF SafeState

---------------------------------------------------------------------------
(* The invariant *)
Safe == /\ \E p : SafeState(p)
        /\ Requests(req)
        /\ active \subseteq Realms

LEMMA InitSafe == Init => Safe
<1> SUFFICES ASSUME Init PROVE Safe
  OBVIOUS
<1> USE DEF Init
<1> DEFINE p == [t \in Tables |-> [r |-> t, base |-> 0, lvl |-> StartLevel]]
<1>1. NumIpas \in Nat /\ NumIpas > 0
  BY LevelsAre, PagesAre, EPositive, ProductPositive DEF NumIpas
<1>2. p \in [Tables -> Places] /\ Used(gstate) = Realms
  BY <1>1, LevelsAre DEF Places, Ipas, Used
<1>3. /\ IdleFrame \in Frames /\ Locks(IdleFrame) = {} /\ IdleFrame.then = "idle"
      /\ FramesOK(tbl, gstate, f, refs, p)
  BY IdleIsFrame DEF FramesOK
<1>4. LocksDiffer(f) /\ Dying(f) = {} /\ \A t, k : \A c \in Cpus : ~BreakAt(f[c], t, k)
  BY <1>3 DEF LocksDiffer, Dying, BreakAt
<1>5. \A l \in Levels : /\ Good(ZeroEntry, l) /\ ~Live(ZeroEntry) /\ Mem(ZeroEntry, l) = {}
                        /\ ~IsTable(ZeroEntry, l)
  BY NewEntries, DeadEntry
<1>6. ZeroTable \in [Slots -> Entries] /\ LiveCount(ZeroTable) = 0
  <2>1. ZeroEntry \in Entries
    BY <1>5, LevelsAre DEF Good
  <2>2. \A k \in Slots : ~Live(ZeroTable[k])
    BY <1>5, LevelsAre DEF ZeroTable
  <2> QED BY <2>1, <2>2, LiveCountIs DEF ZeroTable
<1>7. Typed(tbl, gstate, f, refs)
  BY <1>3, <1>6 DEF Typed
<1> DEFINE V == View(tbl, f)
<1>8. V \in [Tables -> [Slots -> Entries]] /\ \A t \in Tables, k \in Slots : V[t][k] = ZeroEntry
  <2>1. \A t \in Tables, k \in Slots : V[t][k] = ZeroEntry
    BY <1>4 DEF View, ViewAt, ZeroTable
  <2>2. ZeroEntry \in Entries
    BY <1>5, LevelsAre DEF Good
  <2> QED BY <2>1, <2>2 DEF View
<1> HIDE DEF V
<1>9. \A t \in Used(gstate) : t \in Tables /\ p[t].r = t /\ p[t].base = 0 /\ p[t].lvl = StartLevel
  BY UsedAreTables
<1>10. \A g \in Granules : gstate[g] = "DELEGATED"
  OBVIOUS
<1> HIDE DEF p, Init
<1>11. \A t \in Used(gstate), k \in Slots : ~Points(V, p, t, k) /\ Holds(V, p, t, k) = {}
                                            /\ Good(V[t][k], p[t].lvl)
  <2> SUFFICES ASSUME NEW t \in Used(gstate), NEW k \in Slots
               PROVE  ~Points(V, p, t, k) /\ Holds(V, p, t, k) = {} /\ Good(V[t][k], p[t].lvl)
    OBVIOUS
  <2>1. p[t].lvl = StartLevel /\ V[t][k] = ZeroEntry
    BY <1>8, <1>9
  <2>2. /\ Good(ZeroEntry, StartLevel) /\ Mem(ZeroEntry, StartLevel) = {}
        /\ ~IsTable(ZeroEntry, StartLevel)
    BY <1>5, LevelsAre
  <2> QED BY <2>1, <2>2 DEF Points, Holds
<1>12. Shape(V, gstate, p)
  <2>1. TreeTyped(V, gstate, p)
    BY <1>2, <1>8, <1>10 DEF TreeTyped, Init
  <2>2. PlacesGood(gstate, p) /\ PlacesDiffer(gstate, p)
    <3>1. \A t \in Used(gstate) : p[t].r = t /\ p[t].base = 0 /\ p[t].lvl = StartLevel
      BY <1>9
    <3>2. Base(0, StartLevel) = 0
      BY DEF Base
    <3> QED BY <1>2, <3>1, <3>2 DEF PlacesGood, PlacesDiffer
  <2>3. EntriesGood(V, gstate, p) /\ ChildrenPlaced(V, gstate, p) /\ ParentsExist(V, gstate, p)
    BY <1>10, <1>11 DEF EntriesGood, ChildrenPlaced, ParentsExist
  <2> QED BY <2>1, <2>2, <2>3 DEF Shape
<1>13. Memory(V, gstate, p, Dying(f))
  BY <1>4, <1>10, <1>11 DEF Memory, MemoryIsData, MemoryDiffers, DataIsMemory, DyingIsData
<1>14. Counted(tbl, gstate, f, refs) /\ UnusedZero(tbl, gstate, refs)
  BY <1>6, <1>9 DEF Counted, UnusedZero, Tables, Init
<1>15. SafeState(p)
  BY <1>3, <1>4, <1>7, <1>12, <1>13, <1>14 DEF SafeState, StateOK, V
<1>16. Requests(req)
  BY <1>1 DEF Requests, Ripas, Init
<1>17. active \subseteq Realms
  BY DEF Init
<1> QED BY <1>15, <1>16, <1>17 DEF Safe

(* What a step does, command by command *)
LEMMA TableCommandSafe ==
  ASSUME NEW p, SafeState(p), ~BadFold, NEW c \in Cpus, Idle(c), NEW r \in Realms, TableCommand(c, r)
  PROVE  \E q : SafeState(q)'
<1>1. PICK l \in TableLevels, i \in Ipas :
        \/ \E g \in Granules : RttCreate(c, r, i, l, g) \/ RttCreateAsserts(c, r, i, l, g)
        \/ RttFold(c, r, i, l) \/ RttFoldAsserts(c, r, i, l)
        \/ RttDestroy(c, r, i, l)
  BY DEF TableCommand
<1>2. l \in Levels /\ l - 1 \in Levels
  BY Stage2Assumption DEF Levels, TableLevels, RTT_PAGE_LEVEL
<1>3. CASE \E g \in Granules : RttCreate(c, r, i, l, g)
  BY <1>3, RttCreateSafe
<1>4. CASE \E g \in Granules : RttCreateAsserts(c, r, i, l, g)
  <2>1. PICK g \in Granules : RttCreateAsserts(c, r, i, l, g)
    BY <1>4
  <2>2. PICK t : t = TableAt(r, i)[l - 1]
    OBVIOUS
  <2>3. /\ t # None /\ Free(t) /\ Takable(g) /\ Stops(c, t, g) /\ UNCHANGED <<gstate, tbl, refs>>
    BY <2>1, <2>2 DEF RttCreateAsserts
  <2>4. t \in Used(gstate) /\ Unlocked(f, t)
    BY <1>2, <2>2, <2>3, WalkSpot DEF Spot
  <2>5. gstate[g] # "DATA" /\ Unlocked(f, g)
    BY <2>3 DEF Takable, Free, Unlocked, Locks
  <2>6. SafeState(p)'
    BY <2>3, <2>4, <2>5, StopsSafe
  <2> QED BY <2>6
<1>5. CASE RttFold(c, r, i, l)
  BY <1>5, RttFoldSafe
<1>6. CASE RttFoldAsserts(c, r, i, l)
  <2>1. PICK t, g : t = TableAt(r, i)[l - 1] /\ g = TableAt(r, i)[l]
    OBVIOUS
  <2>2. /\ g # None /\ Free(t) /\ Free(g) /\ Stops(c, t, g) /\ UNCHANGED <<gstate, tbl, refs>>
    BY <1>6, <2>1 DEF RttFoldAsserts
  <2>3. PICK k : k = Index(i, l - 1)
    OBVIOUS
  <2>4. Spot(p, r, i, l - 1, t, k) /\ g \in Granules /\ gstate[g] = "RTT" /\ Unlocked(f, g)
    BY <2>1, <2>2, <2>3, WalkChild
  <2>5. t \in Used(gstate) /\ Unlocked(f, t)
    BY <2>4 DEF Spot
  <2>6. SafeState(p)'
    BY <2>2, <2>4, <2>5, StopsSafe
  <2> QED BY <2>6
<1>7. CASE RttDestroy(c, r, i, l)
  BY <1>7, RttDestroySafe
<1> QED BY <1>1, <1>3, <1>4, <1>5, <1>6, <1>7

LEMMA EntryCommandSafe ==
  ASSUME NEW p, SafeState(p), NEW c \in Cpus, Idle(c), NEW r \in Realms, EntryCommand(c, r)
  PROVE  SafeState(p)'
<1>1. PICK l \in Levels, i \in Ipas :
        \/ l \in MapLevels /\ \E pa \in NsPas : MapNs(r, i, l, pa)
        \/ UnmapNs(c, r, i, l)
        \/ ReadEntryAsserts(c, r, i, l)
  BY DEF EntryCommand, Addresses
<1>2. CASE l \in MapLevels /\ \E pa \in NsPas : MapNs(r, i, l, pa)
  BY <1>2, MapNsSafe
<1>3. CASE UnmapNs(c, r, i, l)
  BY <1>3, UnmapNsSafe
<1>4. CASE ReadEntryAsserts(c, r, i, l)
  <2>1. PICK t : t = TableAt(r, i)[l]
    OBVIOUS
  <2>2. t # None /\ Free(t) /\ Stops(c, t, None) /\ UNCHANGED <<gstate, tbl, refs>>
    BY <1>4, <2>1 DEF ReadEntryAsserts
  <2>3. t \in Used(gstate) /\ Unlocked(f, t)
    BY <2>1, <2>2, WalkSpot DEF Spot
  <2> QED BY <2>2, <2>3, StopsSafe
<1> QED BY <1>1, <1>2, <1>3, <1>4

LEMMA WorkSafe ==
  ASSUME NEW p, SafeState(p), NEW c \in Cpus, Work(c)
  PROVE  SafeState(p)'
<1>1. CASE Tlbi(c)
  BY <1>1, TlbiSafe
<1>2. CASE Make(c)
  BY <1>2, MakeSafe
<1>3. CASE DataFree(c)
  BY <1>3, DataFreeSafe
<1>4. CASE InitRipasFails(c)
  <2>1. f[c].then = "idle"
    BY <1>4 DEF InitRipasFails, SafeState, StateOK, FramesOK, FrameOK
  <2> QED BY <1>4, <2>1, ReturnSafe DEF InitRipasFails
<1>5. CASE \E l \in Levels, i \in Ipas : InitRipasWrite(c, i, l)
  BY <1>5, InitRipasWriteSafe
<1> QED BY <1>1, <1>2, <1>3, <1>4, <1>5 DEF Work, Addresses

LEMMA PageCommandSafe ==
  ASSUME NEW p, SafeState(p), NEW c \in Cpus, Idle(c), NEW r \in Realms, PageCommand(c, r)
  PROVE  SafeState(p)'
BY DataDestroySafe, DataCreateSafe DEF PageCommand

LEMMA RealmSafe ==
  ASSUME NEW r \in Realms, Requests(req), Realm(r)
  PROVE  Requests(req)' /\ UNCHANGED <<gstate, tbl, refs, active, f>>
<1>1. CASE \E i \in Ipas : MmuReads(r, i)
  BY <1>1 DEF MmuReads, Requests
<1>2. CASE RealmResumes(r)
  <2>1. NumIpas \in Nat
    BY LevelsAre, PagesAre, EPositive DEF NumIpas
  <2> QED BY <1>2, <2>1 DEF RealmResumes, Requests, Ripas
<1>3. CASE \E a, b \in Ipas, s \in Ripas : a <= b /\ RealmAsks(r, a, b + 1, s)
  <2>1. PICK a \in Ipas, b \in Ipas, s \in Ripas : a <= b /\ RealmAsks(r, a, b + 1, s)
    BY <1>3
  <2>2. a \in Nat /\ b + 1 \in 0 .. NumIpas /\ a <= b + 1
    <3>1. NumIpas \in Nat
      BY LevelsAre, PagesAre, EPositive DEF NumIpas
    <3> QED BY <2>1, <3>1 DEF Ipas
  <2>3. req' = [req EXCEPT ![r] = [addr |-> a, end |-> b + 1, ripas |-> s]]
    BY <2>1 DEF RealmAsks
  <2> QED BY <2>1, <2>2, <2>3 DEF RealmAsks, Requests
<1> QED BY <1>1, <1>2, <1>3 DEF Realm

LEMMA SafeStutters == Safe /\ UNCHANGED vars => Safe'
BY DEF Safe, SafeState, Requests, vars

LEMMA NextSafe ==
  ASSUME Safe, [Next]_vars, ~BadFold
  PROVE  Safe'
<1> USE DEF Safe
<1>1. PICK p : SafeState(p)
  OBVIOUS
<1>2. CASE UNCHANGED <<gstate, tbl, refs, f>> /\ Requests(req)' /\ (active \subseteq Realms)'
  BY <1>1, <1>2 DEF SafeState
<1>3. CASE \E c \in Cpus : Work(c)
  <2>1. UNCHANGED <<active, req>>
    BY <1>3 DEF Work, Tlbi, Make, DataFree, InitRipasFails, InitRipasWrite
  <2> QED BY <1>1, <1>3, <2>1, WorkSafe DEF Requests
<1>4. CASE \E c \in Cpus, r \in Realms : Idle(c) /\ TableCommand(c, r)
  <2>1. UNCHANGED <<active, req>>
    <3>1. \A c, r, i, l, g :
            RttCreate(c, r, i, l, g) \/ RttCreateAsserts(c, r, i, l, g) => UNCHANGED <<active, req>>
      BY DEF RttCreate, RttCreateAsserts
    <3>2. \A c, r, i, l :
            RttFold(c, r, i, l) \/ RttFoldAsserts(c, r, i, l) => UNCHANGED <<active, req>>
      BY DEF RttFold, RttFoldAsserts
    <3>3. \A c, r, i, l : RttDestroy(c, r, i, l) => UNCHANGED <<active, req>>
      BY DEF RttDestroy
    <3> QED BY <1>4, <3>1, <3>2, <3>3 DEF TableCommand
  <2> QED BY <1>1, <1>4, <2>1, TableCommandSafe DEF Requests
<1>5. CASE \E c \in Cpus, r \in Realms : Idle(c) /\ EntryCommand(c, r)
  <2>1. UNCHANGED <<active, req>>
    <3>1. \A r, i, l, pa : MapNs(r, i, l, pa) => UNCHANGED <<active, req>>
      BY DEF MapNs
    <3>2. \A c, r, i, l :
            UnmapNs(c, r, i, l) \/ ReadEntryAsserts(c, r, i, l) => UNCHANGED <<active, req>>
      BY DEF UnmapNs, ReadEntryAsserts
    <3> QED BY <1>5, <3>1, <3>2 DEF EntryCommand
  <2> QED BY <1>1, <1>5, <2>1, EntryCommandSafe DEF Requests
<1>6. CASE \E c \in Cpus, r \in Realms : Idle(c) /\ PageCommand(c, r)
  <2>1. UNCHANGED <<active, req>>
    <3>1. \A r, i, g : DataCreate(r, i, g) => UNCHANGED <<active, req>>
      BY DEF DataCreate
    <3>2. \A c, r, i : DataDestroy(c, r, i) => UNCHANGED <<active, req>>
      BY DEF DataDestroy
    <3> QED BY <1>6, <3>1, <3>2 DEF PageCommand
  <2> QED BY <1>1, <1>6, <2>1, PageCommandSafe DEF Requests
<1>7. CASE \E c \in Cpus, r \in Realms : Idle(c) /\ InitRipas(c, r)
  <2>1. UNCHANGED <<active, req>>
    BY <1>7 DEF InitRipas
  <2> QED BY <1>1, <1>7, <2>1, InitRipasSafe DEF Requests
<1>8. CASE \E c \in Cpus, r \in Realms : Idle(c) /\ \E l \in Levels : SetRipas(c, r, l)
  <2>1. UNCHANGED active
    BY <1>8 DEF SetRipas
  <2> QED BY <1>1, <1>8, <2>1, SetRipasSafe
<1>9. CASE \E r \in Realms : Activate(r)
  BY <1>1, <1>9 DEF Activate, SafeState, Requests
<1>10. CASE \E r \in Realms : Realm(r)
  BY <1>1, <1>10, <1>2, RealmSafe
<1>11. CASE UNCHANGED vars
  BY <1>11, SafeStutters
<1> QED BY <1>3, <1>4, <1>5, <1>6, <1>7, <1>8, <1>9, <1>10, <1>11 DEF Next

(* A Debug build; or a Release build, as long as it folds no table that a   *)
(* Debug build would not.                                                  *)
FoldsFit == Asserts \/ [][~BadFold]_vars

LEMMA SafeCorrect == Spec /\ FoldsFit => []Safe
<1>1. Init => Safe
  BY InitSafe
<1>2. Safe /\ [Next]_vars /\ [~BadFold]_vars => Safe'
  <2>1. CASE UNCHANGED vars
    BY <2>1, SafeStutters
  <2> QED BY <2>1, NextSafe
<1>3. Asserts => (Spec => []Safe)
  <2> SUFFICES ASSUME Asserts PROVE Spec => []Safe
    OBVIOUS
  <2>1. ~BadFold
    <3> SUFFICES ASSUME NEW c \in Cpus, NEW r \in Realms, NEW l \in TableLevels, NEW i \in Ipas,
                        RttFold(c, r, i, l)
                 PROVE  ~FoldFails(TableAt(r, i)[l], l)
      BY DEF BadFold
    <3> DEFINE g == TableAt(r, i)[l]
    <3>1. Asserts => ~FoldFails(g, l)
      BY DEF RttFold
    <3> QED BY <3>1
  <2>2. Safe /\ [Next]_vars => Safe'
    BY <2>1, NextSafe
  <2> QED BY <1>1, <2>2, PTL DEF Spec
<1>4. Spec /\ [][~BadFold]_vars => []Safe
  BY <1>1, <1>2, PTL DEF Spec
<1> QED BY <1>3, <1>4, PTL DEF FoldsFit

LEMMA FreeIsUnlocked ==
  ASSUME NEW t \in Tables
  PROVE  Free(t) <=> Unlocked(f, t)
BY NoneIsNoTable DEF Free, Unlocked, Locks

(* A locked table's count is short of what it will be, or over it, by one. *)
LEMMA RefsBounded ==
  ASSUME NEW p, SafeState(p), NEW t \in Tables
  PROVE  refs[t] \in 0 .. E
<1>1. 0 \in 0 .. E
  BY EPositive
<1>2. CASE t \notin Used(gstate)
  <2>1. t \in Granules /\ gstate[t] # "RTT"
    BY <1>2 DEF Tables, Used
  <2> QED BY <2>1, <1>1 DEF SafeState, StateOK, UnusedZero
<1>3. CASE t \in Used(gstate) /\ refs[t] = LiveCount(tbl[t])
  BY <1>3, LiveCountIs
<1>4. ASSUME NEW c \in Cpus, t \in Used(gstate), f[c].then # "idle", t \in Locks(f[c])
      PROVE  refs[t] \in 0 .. E
  <2>1. f[c] \in Frames /\ FrameOK(tbl, gstate, refs, p, f[c])
    BY DEF SafeState, StateOK, Typed, FramesOK
  <2>2. f[c].then = "make" \/ f[c].then = "free"
    BY <1>4, <2>1 DEF Frames
  <2>3. t = f[c].llt \/ t = f[c].sub
    BY <1>4 DEF Locks
  <2>4. CASE f[c].then = "make"
    <3> DEFINE a == f[c].llt
    <3>1. /\ refs[f[c].sub] = 0 /\ refs[a] = LiveCount(tbl[a]) + LiveNum(f[c].new)
          /\ tbl[a][f[c].idx] = ZeroEntry
      BY <2>1, <2>4 DEF FrameOK, MakeOK
    <3>2. f[c].idx \in Slots /\ ~Live(ZeroEntry)
      BY <2>1, NewEntries, LevelsAre DEF Frames
    <3>3. LiveCount(tbl[a]) \in 0 .. E /\ LiveCount(tbl[a]) # E
      BY <3>1, <3>2, LiveCountIs
    <3>4. LiveNum(f[c].new) \in {0, 1}
      BY LiveNumIs
    <3>5. refs[a] \in 0 .. E
      BY <3>1, <3>3, <3>4, EPositive
    <3> QED BY <2>3, <3>1, <3>5, <1>1
  <2>5. CASE f[c].then = "free"
    <3> DEFINE a == f[c].llt
    <3>1. /\ refs[a] = LiveCount(tbl[a]) + 1 /\ LiveCount(tbl[a]) < E
          /\ f[c].sub \in Granules /\ gstate[f[c].sub] = "DATA"
      BY <2>1, <2>5 DEF FrameOK, FreeOK
    <3>2. t # f[c].sub
      BY <1>4, <3>1, NoneIsNoTable DEF Used
    <3>3. LiveCount(tbl[a]) \in 0 .. E
      BY LiveCountIs
    <3> QED BY <2>3, <3>1, <3>2, <3>3, EPositive
  <2> QED BY <2>2, <2>4, <2>5
<1> QED BY <1>2, <1>3, <1>4 DEF SafeState, StateOK, Counted

(* Reference counts stay between 0 and the size of a table, though          *)
(* RTT_CREATE and RTT_FOLD change them by the whole size, and the counter   *)
(* has no guard against wrapping; entries are ones the code creates.        *)
THEOREM TableTypesCorrect == Spec /\ FoldsFit => []TypeOK
<1>1. Safe => TypeOK
  <2> SUFFICES ASSUME Safe PROVE TypeOK
    OBVIOUS
  <2>1. PICK p : SafeState(p)
    BY DEF Safe
  <2>2. Typed(tbl, gstate, f, refs) /\ Requests(req) /\ active \subseteq Realms
    BY <2>1 DEF Safe, SafeState, StateOK
  <2>3. refs \in [Tables -> 0 .. E]
    BY <2>1, <2>2, RefsBounded DEF Typed
  <2>4. \A c \in Cpus : f[c].pc \in {"idle", "tlbi", "make", "free", "ripas", "stuck"}
    BY <2>2 DEF Typed, Frames
  <2>5. \A r \in Realms : req[r].addr \in 0 .. req[r].end
    BY <2>2 DEF Requests
  <2> QED BY <2>2, <2>3, <2>4, <2>5 DEF TypeOK, Typed
<1> QED BY <1>1, SafeCorrect, PTL

(* The count by which RTT_DESTROY and RTT_FOLD give a table back is that    *)
(* of its live entries, for every table no command is changing.             *)
THEOREM TableCountsCorrect == Spec /\ FoldsFit => []RefcountIsLive
<1>1. Safe => RefcountIsLive
  <2> SUFFICES ASSUME Safe, NEW t \in Tables, Free(t)
               PROVE  refs[t] = Cardinality({k \in Slots : Live(tbl[t][k])})
    BY DEF RefcountIsLive
  <2>1. PICK p : SafeState(p)
    BY DEF Safe
  <2>2. \A c \in Cpus : t \notin Locks(f[c])
    BY FreeIsUnlocked DEF Unlocked
  <2>3. CASE t \in Used(gstate)
    BY <2>1, <2>2, <2>3 DEF SafeState, StateOK, Counted, LiveCount
  <2>4. CASE t \notin Used(gstate)
    <3>1. refs[t] = 0 /\ tbl[t] = ZeroTable
      BY <2>1, <2>4 DEF SafeState, StateOK, UnusedZero, Tables, Used
    <3>2. \A k \in Slots : ~Live(tbl[t][k])
      BY <3>1, NewEntries, LevelsAre DEF ZeroTable
    <3> QED BY <3>1, <3>2, LiveCountIs DEF LiveCount
  <2> QED BY <2>3, <2>4
<1> QED BY <1>1, SafeCorrect, PTL

---------------------------------------------------------------------------
(* The walks that see a break as not begun: the entry at every level lies  *)
(* in the table that has its place, and every table is found in its place. *)
LEMMA EntryIs ==
  ASSUME NEW t \in Tables, NEW k \in Slots
  PROVE  Entry(t, k) = View(tbl, f)[t][k]
BY DEF Entry, Breaking, View, ViewAt, BreakAt

Under(e, i, l) == IF e # None /\ IsTable(e, l - 1) THEN Entry(e.pa, Index(i, l)) ELSE None

LEMMA EntryAtDef ==
  ASSUME NEW r, NEW i
  PROVE  /\ EntryAt(r, i)[StartLevel] = Entry(r, Index(i, StartLevel))
         /\ \A l \in Levels : l # StartLevel =>
              EntryAt(r, i)[l] = Under(EntryAt(r, i)[l - 1], i, l)
<1> DEFINE S == StartLevel
           e0 == Entry(r, Index(i, S))
           e1 == Under(e0, i, S + 1)
           e2 == Under(e1, i, S + 2)
           e3 == Under(e2, i, S + 3)
           W == [l \in Levels |-> IF l = S THEN e0 ELSE IF l = S + 1 THEN e1
                                  ELSE IF l = S + 2 THEN e2 ELSE e3]
           F(T) == [l \in Levels |-> IF l = StartLevel THEN Entry(r, Index(i, l))
                                     ELSE Under(T[l - 1], i, l)]
<1>1. S \in 0 .. 2 /\ Levels = S .. 3
  BY Stage2Assumption DEF Levels, RTT_PAGE_LEVEL
<1>2. e0 = Entry(r, Index(i, StartLevel))
  OBVIOUS
<1> HIDE DEF e0, e1, e2, e3, S
<1>3. W = F(W)
  <2>1. \A l \in Levels : W[l] = F(W)[l]
    <3> SUFFICES ASSUME NEW l \in Levels PROVE W[l] = F(W)[l]
      OBVIOUS
    <3>1. CASE l = S
      BY <3>1, <1>2 DEF S
    <3>2. CASE l = S + 1
      BY <3>2, <1>1 DEF S, e1
    <3>3. CASE l = S + 2
      BY <3>3, <1>1 DEF S, e2
    <3>4. CASE l = S + 3
      BY <3>4, <1>1 DEF S, e3
    <3> QED BY <1>1, <3>1, <3>2, <3>3, <3>4
  <2> QED BY <2>1
<1>4. EntryAt(r, i) = F(EntryAt(r, i))
  BY <1>3 DEF EntryAt, Under
<1> QED BY <1>4, <1>1 DEF S

(* What holds at the first level, and at one if at the one above it *)
LEMMA EveryLevel ==
  ASSUME NEW S \in SUBSET Levels, StartLevel \in S,
         \A m \in Levels : m # StartLevel /\ m - 1 \in S => m \in S
  PROVE  S = Levels
<1>1. StartLevel \in 0 .. 2 /\ Levels = StartLevel .. 3
  BY Stage2Assumption DEF Levels, RTT_PAGE_LEVEL
<1>2. StartLevel + 1 \in Levels => StartLevel + 1 \in S
  BY <1>1
<1>3. StartLevel + 2 \in Levels => StartLevel + 2 \in S
  BY <1>1, <1>2
<1>4. StartLevel + 3 \in Levels => StartLevel + 3 \in S
  BY <1>1, <1>3
<1>5. \A m \in Levels : m \in S
  <2>1. \A m \in StartLevel .. 3 : \/ m = StartLevel \/ m = StartLevel + 1
                                   \/ m = StartLevel + 2 \/ m = StartLevel + 3
    BY <1>1
  <2> QED BY <2>1, <1>1, <1>2, <1>3, <1>4
<1> QED BY <1>5

(* An entry of a used table *)
LEMMA UsedEntry ==
  ASSUME NEW p, SafeState(p), NEW t \in Used(gstate), NEW k \in Slots
  PROVE  LET V == View(tbl, f)
             e == Entry(t, k)
         IN  /\ t \in Tables /\ e = V[t][k] /\ e \in Entries /\ e # None /\ Good(e, p[t].lvl)
             /\ p[t] \in Places /\ p[t].r \in Realms /\ Base(p[t].base, p[t].lvl) = p[t].base
             /\ Mem(e, p[t].lvl) = Holds(V, p, t, k)
             /\ IsTable(e, p[t].lvl) <=> Points(V, p, t, k)
<1>1. t \in Tables
  BY UsedAreTables
<1>2. Entry(t, k) = View(tbl, f)[t][k]
  BY <1>1, EntryIs
<1>3. Good(Entry(t, k), p[t].lvl)
  BY <1>2 DEF SafeState, StateOK, Shape, EntriesGood
<1>4. Entry(t, k) \in Entries /\ Entry(t, k) # None
  BY <1>3, NoneAssumption DEF Good
<1>5. p[t] \in Places /\ p[t].r \in Realms /\ Base(p[t].base, p[t].lvl) = p[t].base
  BY <1>1 DEF SafeState, StateOK, Shape, TreeTyped, PlacesGood
<1> QED BY <1>1, <1>2, <1>3, <1>4, <1>5 DEF Holds, Points

Path(p, r, i, l, t) ==
  t \in Used(gstate) /\ p[t] = PlaceOf(r, i, l) /\ EntryAt(r, i)[l] = Entry(t, Index(i, l))

LEMMA EntriesPlaced ==
  ASSUME NEW p, SafeState(p), NEW r \in Realms, NEW i \in Ipas, NEW l \in Levels,
         EntryAt(r, i)[l] # None
  PROVE  \E t : Path(p, r, i, l, t)
<1> DEFINE W == EntryAt(r, i)
           S == {m \in Levels : W[m] # None => \E t : Path(p, r, i, m, t)}
<1>1. StartLevel \in S
  <2>1. r \in Used(gstate) /\ p[r] = PlaceOf(r, i, StartLevel)
    BY RootPlace DEF SafeState, StateOK
  <2> QED BY <2>1, EntryAtDef, LevelsAre DEF Path
<1>2. ASSUME NEW m \in Levels, m # StartLevel, m - 1 \in S
      PROVE  m \in S
  <2> SUFFICES ASSUME W[m] # None PROVE \E t : Path(p, r, i, m, t)
    OBVIOUS
  <2>1. W[m - 1] # None /\ IsTable(W[m - 1], m - 1) /\ W[m] = Entry(W[m - 1].pa, Index(i, m))
    BY <1>2, EntryAtDef DEF Under
  <2>2. PICK t : Path(p, r, i, m - 1, t)
    BY <1>2, <2>1
  <2>3. PICK k : k = Index(i, m - 1)
    OBVIOUS
  <2>4. m - 1 \in Levels /\ Child(PlaceOf(r, i, m - 1), k) = PlaceOf(r, i, m)
    BY <1>2, <2>3, ChildOfPlace
  <2>5. k \in Slots
    BY <2>3, <2>4, BlockOf
  <2>6. t \in Used(gstate) /\ p[t] = PlaceOf(r, i, m - 1) /\ W[m - 1] = Entry(t, k)
    BY <2>2, <2>3 DEF Path
  <2>7. p[t].lvl = m - 1
    BY <2>6 DEF PlaceOf
  <2>8. Points(View(tbl, f), p, t, k) /\ W[m - 1] = View(tbl, f)[t][k]
    BY <2>1, <2>5, <2>6, <2>7, UsedEntry
  <2>9. W[m - 1].pa \in Used(gstate) /\ p[W[m - 1].pa] = Child(p[t], k)
    BY <2>5, <2>6, <2>8 DEF SafeState, StateOK, Shape, ChildrenPlaced, Used
  <2> QED BY <2>1, <2>4, <2>6, <2>9 DEF Path
<1>3. S = Levels
  <2> HIDE DEF W
  <2>1. S \subseteq Levels
    OBVIOUS
  <2> HIDE DEF S
  <2> QED BY <1>1, <1>2, <2>1, EveryLevel
<1> QED BY <1>3

LEMMA TablesFound ==
  ASSUME NEW p, SafeState(p), NEW r \in Realms, NEW i \in Ipas, NEW l \in Levels,
         NEW t \in Used(gstate), p[t] = PlaceOf(r, i, l)
  PROVE  Path(p, r, i, l, t)
<1> DEFINE Q(m) == \A u \in Used(gstate) : p[u] = PlaceOf(r, i, m) => Path(p, r, i, m, u)
           S == {m \in Levels : Q(m)}
<1>1. StartLevel \in S
  <2> SUFFICES ASSUME NEW u \in Used(gstate), p[u] = PlaceOf(r, i, StartLevel)
               PROVE  Path(p, r, i, StartLevel, u)
    BY LevelsAre
  <2>1. r \in Used(gstate) /\ p[r] = PlaceOf(r, i, StartLevel)
    BY RootPlace DEF SafeState, StateOK
  <2>2. u = r
    BY <2>1 DEF SafeState, StateOK, Shape, PlacesDiffer
  <2> QED BY <2>1, <2>2, EntryAtDef DEF Path
<1>2. ASSUME NEW m \in Levels, m # StartLevel, m - 1 \in S
      PROVE  m \in S
  <2> SUFFICES ASSUME NEW g \in Used(gstate), p[g] = PlaceOf(r, i, m)
               PROVE  Path(p, r, i, m, g)
    OBVIOUS
  <2>1. p[g].lvl = m
    BY DEF PlaceOf
  <2>2. g \in Granules /\ gstate[g] = "RTT"
    BY <2>1, <1>2 DEF Used, SafeState, StateOK, Shape, PlacesGood
  <2>3. PICK u \in Used(gstate), k \in Slots :
          Points(View(tbl, f), p, u, k) /\ View(tbl, f)[u][k].pa = g
    BY <2>2 DEF SafeState, StateOK, Shape, ParentsExist
  <2>4. p[g] = Child(p[u], k)
    BY <2>3 DEF SafeState, StateOK, Shape, ChildrenPlaced
  <2>5. PICK x : x = PlaceOf(r, i, m - 1)
    OBVIOUS
  <2>6. PICK j : j = Index(i, m - 1)
    OBVIOUS
  <2>7. m - 1 \in Levels /\ Child(x, j) = PlaceOf(r, i, m)
    BY <1>2, <2>5, <2>6, ChildOfPlace
  <2>8. j \in Slots /\ x \in Places /\ Base(x.base, x.lvl) = x.base
    BY <2>5, <2>6, <2>7, BlockOf DEF PlaceOf, Places, Tables
  <2>9. p[u] \in Places /\ Base(p[u].base, p[u].lvl) = p[u].base
    BY UsedEntry
  <2>10. p[u] = x /\ k = j
    BY <2>4, <2>7, <2>8, <2>9, ChildInjective
  <2>11. Path(p, r, i, m - 1, u)
    BY <1>2, <2>5, <2>10
  <2>12. EntryAt(r, i)[m - 1] = Entry(u, k) /\ p[u].lvl = m - 1
    BY <2>5, <2>6, <2>10, <2>11 DEF Path, PlaceOf
  <2>13. Entry(u, k) # None /\ IsTable(Entry(u, k), m - 1) /\ Entry(u, k).pa = g
    BY <2>3, <2>12, UsedEntry
  <2>14. EntryAt(r, i)[m] = Entry(g, Index(i, m))
    BY <1>2, <2>12, <2>13, EntryAtDef DEF Under
  <2> QED BY <2>14 DEF Path
<1>3. S = Levels
  <2> HIDE DEF Q
  <2>1. S \subseteq Levels
    OBVIOUS
  <2> HIDE DEF S
  <2> QED BY <1>1, <1>2, <2>1, EveryLevel
<1> QED BY <1>3

(* Every table has one spot, and where an entry points to a table it is    *)
(* that one's.                                                             *)
LEMMA SpotPlaced ==
  ASSUME NEW p, SafeState(p), NEW g, NEW r \in Realms, NEW i \in Ipas, NEW l \in Levels,
         PointsTo(r, i, l, g)
  PROVE  \E t \in Used(gstate), k \in Slots :
           /\ Points(View(tbl, f), p, t, k) /\ View(tbl, f)[t][k].pa = g
           /\ p[t].r = r /\ p[t].lvl = l /\ i = Start(p[t].base, k, l)
<1>1. /\ Aligned(i, l) /\ EntryAt(r, i)[l] # None /\ IsTable(EntryAt(r, i)[l], l)
      /\ EntryAt(r, i)[l].pa = g
  BY DEF PointsTo
<1>2. PICK t : Path(p, r, i, l, t)
  BY <1>1, EntriesPlaced
<1>3. PICK k \in Slots : k = Index(i, l)
  BY BlockOf
<1>4. t \in Used(gstate) /\ p[t] = PlaceOf(r, i, l) /\ EntryAt(r, i)[l] = Entry(t, k)
  BY <1>2, <1>3 DEF Path
<1>5. p[t].r = r /\ p[t].lvl = l /\ p[t].base = Base(i, l)
  BY <1>4 DEF PlaceOf
<1>6. Align(i, l) = Start(Base(i, l), k, l)
  BY <1>3, BlockOf
<1>7. Align(i, l) = i
  <2>1. i % Pages(l) = 0 /\ i \in Int
    BY <1>1 DEF Aligned, Ipas
  <2> QED BY <2>1 DEF Align
<1>8. Points(View(tbl, f), p, t, k) /\ View(tbl, f)[t][k].pa = g
  BY <1>1, <1>4, <1>5, UsedEntry
<1> QED BY <1>4, <1>5, <1>6, <1>7, <1>8

LEMMA SpotOfEntry ==
  ASSUME NEW p, SafeState(p), NEW t \in Used(gstate), NEW k \in Slots,
         NEW r, r = p[t].r, NEW l, l = p[t].lvl, NEW o \in 0 .. Pages(l) - 1,
         NEW i, i = Start(p[t].base, k, l) + o
  PROVE  /\ r \in Realms /\ l \in Levels /\ i \in Ipas /\ Align(i, l) = Start(p[t].base, k, l)
         /\ EntryAt(r, i)[l] = Entry(t, k) /\ Align(i, l) \in Nat
<1>1. p[t] \in Places /\ p[t].r \in Realms /\ Base(p[t].base, l) = p[t].base
  BY UsedEntry
<1>2. PICK b \in Ipas : b = p[t].base /\ Base(b, l) = b
  BY <1>1 DEF Places
<1>3. r \in Realms /\ l \in Levels
  BY <1>1 DEF Places
<1>4. /\ i \in Ipas /\ Align(i, l) = Start(b, k, l) /\ Base(i, l) = b
      /\ Index(i, l) = k /\ Start(b, k, l) \in Nat
  BY <1>2, <1>3, SpotAt
<1>5. p[t] = PlaceOf(r, i, l)
  BY <1>1, <1>2, <1>4 DEF Places, PlaceOf
<1>6. Path(p, r, i, l, t)
  BY <1>3, <1>4, <1>5, TablesFound
<1> QED BY <1>2, <1>3, <1>4, <1>6 DEF Path

LEMMA OneSpot ==
  ASSUME NEW p, SafeState(p), NEW g \in Granules, gstate[g] = "RTT"
  PROVE  \E s : Spots(g) = {s}
<1> DEFINE V == View(tbl, f)
<1>1. PICK t \in Used(gstate), k \in Slots : Points(V, p, t, k) /\ V[t][k].pa = g
  BY DEF SafeState, StateOK, Shape, ParentsExist
<1>2. PICK l : l = p[t].lvl
  OBVIOUS
<1>3. PICK r : r = p[t].r
  OBVIOUS
<1>4. l \in Levels /\ p[t] \in Places /\ Base(p[t].base, p[t].lvl) = p[t].base
  BY <1>2, UsedEntry DEF Places
<1>5. PICK i : i = Start(p[t].base, k, l) + 0
  OBVIOUS
<1>6. 0 \in 0 .. Pages(l) - 1
  BY <1>4, PagesAre, LevelsAre
<1>7. /\ r \in Realms /\ i \in Ipas /\ Align(i, l) = Start(p[t].base, k, l)
      /\ EntryAt(r, i)[l] = Entry(t, k) /\ Align(i, l) \in Nat
  BY <1>2, <1>3, <1>5, <1>6, SpotOfEntry
<1>8. i = Start(p[t].base, k, l) /\ Aligned(i, l)
  <2>1. i = Align(i, l)
    BY <1>5, <1>7
  <2>2. i % Pages(l) \in Int /\ i \in Int
    <3>1. Pages(l) \in Nat /\ Pages(l) > 0 /\ i \in Int
      BY <1>4, <1>7, PagesAre, LevelsAre DEF Ipas
    <3> QED BY <3>1, ModRange
  <2> QED BY <1>7, <2>1, <2>2 DEF Align, Aligned
<1>9. PointsTo(r, i, l, g)
  BY <1>1, <1>2, <1>7, <1>8, UsedEntry DEF PointsTo
<1>10. ASSUME NEW q \in Realms, NEW j \in Ipas, NEW m \in Levels, PointsTo(q, j, m, g)
       PROVE  q = r /\ j = i /\ m = l
  <2>1. PICK u \in Used(gstate), h \in Slots :
           /\ Points(V, p, u, h) /\ V[u][h].pa = g
           /\ p[u].r = q /\ p[u].lvl = m /\ j = Start(p[u].base, h, m)
    BY <1>10, SpotPlaced
  <2>2. p[g] = Child(p[t], k) /\ p[g] = Child(p[u], h)
    BY <1>1, <2>1 DEF SafeState, StateOK, Shape, ChildrenPlaced
  <2>3. p[u] \in Places /\ Base(p[u].base, p[u].lvl) = p[u].base
    BY UsedEntry
  <2>4. p[t] = p[u] /\ k = h
    <3>1. PICK x \in Places : x = p[t] /\ Base(x.base, x.lvl) = x.base
      BY <1>4
    <3>2. PICK y \in Places : y = p[u] /\ Base(y.base, y.lvl) = y.base
      BY <2>3
    <3>3. Child(x, k) = Child(y, h)
      BY <2>2, <3>1, <3>2
    <3>4. x = y /\ k = h
      BY <3>1, <3>2, <3>3, ChildInjective
    <3> QED BY <3>1, <3>2, <3>4
  <2> QED BY <1>2, <1>3, <1>8, <2>1, <2>4
<1>11. Spots(g) = {<<r, i, l>>}
  <2>1. <<r, i, l>> \in Spots(g)
    BY <1>4, <1>7, <1>9 DEF Spots
  <2>2. \A s \in Spots(g) : s = <<r, i, l>>
    <3> SUFFICES ASSUME NEW s \in Spots(g) PROVE s = <<r, i, l>>
      OBVIOUS
    <3>1. s \in Realms \X Ipas \X Levels /\ PointsTo(s[1], s[2], s[3], g)
      BY DEF Spots
    <3>2. s = <<s[1], s[2], s[3]>> /\ s[1] \in Realms /\ s[2] \in Ipas /\ s[3] \in Levels
      BY <3>1
    <3>3. s[1] = r /\ s[2] = i /\ s[3] = l
      BY <1>10, <3>1, <3>2
    <3> QED BY <3>2, <3>3
  <2> QED BY <2>1, <2>2
<1> QED BY <1>11

(* A granule in the state RTT is the table of one entry of one realm, and   *)
(* none points to any other granule: RTT_CREATE, RTT_FOLD and RTT_DESTROY   *)
(* on several CPUs neither share a table nor lose one.                      *)
THEOREM TablesPlacedOnce == Spec /\ FoldsFit => []TableEntriesPointToTables
<1>1. Safe => TableEntriesPointToTables
  <2> SUFFICES ASSUME Safe, NEW g \in Granules
               PROVE  /\ gstate[g] # "RTT" => Spots(g) = {}
                      /\ gstate[g] = "RTT" => Cardinality(Spots(g)) = 1
    BY DEF TableEntriesPointToTables
  <2>1. PICK p : SafeState(p)
    BY DEF Safe
  <2>2. ASSUME gstate[g] # "RTT" PROVE Spots(g) = {}
    <3> SUFFICES ASSUME NEW s \in Spots(g) PROVE FALSE
      OBVIOUS
    <3>1. s[1] \in Realms /\ s[2] \in Ipas /\ s[3] \in Levels /\ PointsTo(s[1], s[2], s[3], g)
      BY DEF Spots
    <3>2. PICK t \in Used(gstate), k \in Slots :
            Points(View(tbl, f), p, t, k) /\ View(tbl, f)[t][k].pa = g
      BY <2>1, <3>1, SpotPlaced
    <3> QED BY <2>1, <2>2, <3>2 DEF SafeState, StateOK, Shape, ChildrenPlaced
  <2>3. ASSUME gstate[g] = "RTT" PROVE Cardinality(Spots(g)) = 1
    <3>1. PICK s : Spots(g) = {s}
      BY <2>1, <2>3, OneSpot
    <3> QED BY <3>1, FS_Singleton
  <2> QED BY <2>2, <2>3
<1> QED BY <1>1, SafeCorrect, PTL

---------------------------------------------------------------------------
(* The walk for a page ends in one entry, which decides it. *)
Ends(r, i, l) == EntryAt(r, i)[l] # None /\ ~IsTable(EntryAt(r, i)[l], l)

LEMMA BelowEnd ==
  ASSUME NEW r, NEW i, NEW l \in Levels, Ends(r, i, l), NEW m \in Levels, m > l
  PROVE  EntryAt(r, i)[m] = None
<1> DEFINE W == EntryAt(r, i)
<1>1. StartLevel \in 0 .. 2 /\ Levels = StartLevel .. 3
  BY Stage2Assumption DEF Levels, RTT_PAGE_LEVEL
<1>2. \A n \in Levels : n # StartLevel => W[n] = Under(W[n - 1], i, n)
  BY EntryAtDef
<1> HIDE DEF W
<1>3. l + 1 \in Levels => W[l + 1] = None
  BY <1>1, <1>2 DEF Ends, Under, W
<1>4. \A n \in Levels : n > l /\ n + 1 \in Levels /\ W[n] = None => W[n + 1] = None
  BY <1>1, <1>2 DEF Under
<1>5. l + 2 \in Levels => W[l + 2] = None
  BY <1>1, <1>3, <1>4
<1>6. l + 3 \in Levels => W[l + 3] = None
  BY <1>1, <1>4, <1>5
<1>7. m = l + 1 \/ m = l + 2 \/ m = l + 3
  BY <1>1
<1> QED BY <1>3, <1>5, <1>6, <1>7 DEF W

LEMMA SomeEnd ==
  ASSUME NEW p, SafeState(p), NEW r \in Realms, NEW i \in Ipas
  PROVE  \E l \in Levels : Ends(r, i, l)
<1> SUFFICES ASSUME \A l \in Levels : ~Ends(r, i, l) PROVE FALSE
  OBVIOUS
<1> DEFINE S == {l \in Levels : EntryAt(r, i)[l] # None}
<1>1. StartLevel \in S
  <2>1. r \in Used(gstate) /\ Index(i, StartLevel) \in Slots
    BY RootPlace, BlockOf, LevelsAre DEF SafeState, StateOK
  <2> QED BY <2>1, UsedEntry, EntryAtDef, LevelsAre
<1>2. ASSUME NEW m \in Levels, m # StartLevel, m - 1 \in S
      PROVE  m \in S
  <2>1. EntryAt(r, i)[m - 1] # None /\ IsTable(EntryAt(r, i)[m - 1], m - 1)
    BY <1>2 DEF Ends
  <2>2. PICK t : Path(p, r, i, m - 1, t)
    BY <1>2, <2>1, EntriesPlaced
  <2>3. PICK k : k = Index(i, m - 1)
    OBVIOUS
  <2>4. k \in Slots /\ m - 1 \in Levels
    BY <1>2, <2>3, BlockOf
  <2>5. t \in Used(gstate) /\ p[t].lvl = m - 1 /\ EntryAt(r, i)[m - 1] = Entry(t, k)
    BY <2>2, <2>3 DEF Path, PlaceOf
  <2>6. PICK g : g = Entry(t, k).pa
    OBVIOUS
  <2>7. g \in Used(gstate)
    <3>1. Points(View(tbl, f), p, t, k) /\ View(tbl, f)[t][k].pa = g
      BY <2>1, <2>4, <2>5, <2>6, UsedEntry
    <3> QED BY <2>4, <2>5, <3>1 DEF SafeState, StateOK, Shape, ChildrenPlaced, Used
  <2>8. EntryAt(r, i)[m] = Entry(g, Index(i, m))
    BY <1>2, <2>1, <2>5, <2>6, EntryAtDef DEF Under
  <2>9. Index(i, m) \in Slots
    BY BlockOf
  <2> QED BY <2>7, <2>8, <2>9, UsedEntry
<1>3. S = Levels
  <2>1. S \subseteq Levels
    OBVIOUS
  <2> HIDE DEF S
  <2> QED BY <1>1, <1>2, <2>1, EveryLevel
<1>4. 3 \in Levels /\ EntryAt(r, i)[3] # None
  BY <1>3, LevelsAre
<1> QED BY <1>4 DEF Ends, IsTable, RTT_PAGE_LEVEL

LEMMA LeafIs ==
  ASSUME NEW r, NEW i, NEW l \in Levels, Ends(r, i, l)
  PROVE  Leaf(r, i) = [lvl |-> l, e |-> EntryAt(r, i)[l]]
<1> DEFINE W == EntryAt(r, i)
           X == {[lvl |-> m, e |-> W[m]] : m \in Levels}
           y == [lvl |-> l, e |-> W[l]]
<1>1. y \in X /\ y.e # None /\ ~IsTable(y.e, y.lvl)
  BY DEF Ends
<1>2. ASSUME NEW x \in X, x.e # None, ~IsTable(x.e, x.lvl) PROVE x = y
  <2>1. PICK m \in Levels : x = [lvl |-> m, e |-> W[m]]
    OBVIOUS
  <2>2. Ends(r, i, m)
    BY <1>2, <2>1 DEF Ends
  <2>3. m \in Int /\ l \in Int
    BY LevelIs
  <2>4. ~(m > l) /\ ~(l > m)
    BY <2>2, BelowEnd DEF Ends
  <2>5. m = l
    BY <2>3, <2>4
  <2> QED BY <2>1, <2>5
<1>3. Leaf(r, i) = CHOOSE x \in X : x.e # None /\ ~IsTable(x.e, x.lvl)
  BY DEF Leaf
<1> HIDE DEF X, y
<1>4. Leaf(r, i) = y
  BY <1>1, <1>2, <1>3
<1> QED BY <1>4 DEF y

(* Page i of realm r lies in entry k of table t, o pages from its start. *)
Decides(p, r, i, t, k, l, o) ==
  /\ t \in Used(gstate) /\ k \in Slots /\ l \in Levels /\ o \in 0 .. Pages(l) - 1
  /\ p[t].r = r /\ p[t].lvl = l /\ i = Start(p[t].base, k, l) + o
  /\ Leaf(r, i) = [lvl |-> l, e |-> Entry(t, k)] /\ ~IsTable(Entry(t, k), l)

LEMMA PageDecided ==
  ASSUME NEW p, SafeState(p), NEW r \in Realms, NEW i \in Ipas
  PROVE  \E t, k, l, o : Decides(p, r, i, t, k, l, o) /\ o = i - Align(i, l)
<1>1. PICK l \in Levels : Ends(r, i, l)
  BY SomeEnd
<1>2. PICK t : Path(p, r, i, l, t)
  BY <1>1, EntriesPlaced DEF Ends
<1>3. PICK k \in Slots : k = Index(i, l)
  BY BlockOf
<1>4. PICK o : o = i - Align(i, l)
  OBVIOUS
<1>5. /\ t \in Used(gstate) /\ p[t].r = r /\ p[t].lvl = l /\ p[t].base = Base(i, l)
      /\ EntryAt(r, i)[l] = Entry(t, k)
  BY <1>2, <1>3 DEF Path, PlaceOf
<1>6. o \in 0 .. Pages(l) - 1 /\ Align(i, l) = Start(Base(i, l), k, l) /\ Align(i, l) \in Nat
  BY <1>3, <1>4, BlockOf
<1>7. i = Start(p[t].base, k, l) + o
  <2>1. i \in Int
    BY DEF Ipas
  <2>2. i = Align(i, l) + o
    BY <2>1, <1>4, <1>6
  <2> QED BY <2>2, <1>5, <1>6
<1>8. Leaf(r, i) = [lvl |-> l, e |-> Entry(t, k)] /\ ~IsTable(Entry(t, k), l)
  BY <1>1, <1>5, LeafIs DEF Ends
<1> QED BY <1>4, <1>5, <1>6, <1>7, <1>8 DEF Decides

LEMMA EntryDecides ==
  ASSUME NEW p, SafeState(p), NEW t \in Used(gstate), NEW k \in Slots,
         NEW l, l = p[t].lvl, ~IsTable(Entry(t, k), l), NEW o \in 0 .. Pages(l) - 1
  PROVE  \E r \in Realms, i \in Ipas : Decides(p, r, i, t, k, l, o) /\ o = i - Align(i, l)
<1>1. PICK r : r = p[t].r
  OBVIOUS
<1>2. PICK i : i = Start(p[t].base, k, l) + o
  OBVIOUS
<1>3. /\ r \in Realms /\ l \in Levels /\ i \in Ipas /\ Align(i, l) = Start(p[t].base, k, l)
      /\ EntryAt(r, i)[l] = Entry(t, k) /\ Align(i, l) \in Nat
  BY <1>1, <1>2, SpotOfEntry
<1>4. Ends(r, i, l)
  BY <1>3, UsedEntry DEF Ends
<1>5. Leaf(r, i) = [lvl |-> l, e |-> Entry(t, k)]
  BY <1>3, <1>4, LeafIs
<1>6. o = i - Align(i, l)
  <2>1. o \in Int /\ i \in Int
    BY <1>3, PagesAre, LevelsAre DEF Ipas
  <2> QED BY <2>1, <1>2, <1>3
<1> QED BY <1>1, <1>2, <1>3, <1>5, <1>6 DEF Decides

(* The entry of a page with memory holds it. *)
LEMMA MemoryHeld ==
  ASSUME NEW p, SafeState(p), NEW r \in Realms, NEW i \in Ipas, NEW t, NEW k, NEW l, NEW o,
         Decides(p, r, i, t, k, l, o), o = i - Align(i, l), HasMemory(r, i)
  PROVE  /\ MemoryAt(r, i) = Entry(t, k).pa + o /\ Entry(t, k).pa \in Nat
         /\ MemoryAt(r, i) \in Holds(View(tbl, f), p, t, k) /\ InPar(i)
         /\ gstate[MemoryAt(r, i)] = "DATA"
<1> DEFINE e == Entry(t, k)
<1>1. /\ t \in Used(gstate) /\ k \in Slots /\ l \in Levels /\ o \in 0 .. Pages(l) - 1
      /\ p[t].lvl = l /\ i = Start(p[t].base, k, l) + o
      /\ Leaf(r, i) = [lvl |-> l, e |-> e] /\ ~IsTable(e, l)
  BY DEF Decides
<1>2. ~e.ns /\ e.pa # None /\ MemoryAt(r, i) = e.pa + o
  BY <1>1 DEF HasMemory, MemoryAt
<1>3. Good(e, l) /\ Mem(e, l) = Holds(View(tbl, f), p, t, k) /\ p[t] \in Places
  BY <1>1, UsedEntry
<1>4. e.pa \in Nat
  BY <1>2, <1>3 DEF Good, Granules
<1>5. Pages(l) \in Nat /\ o \in Int
  BY <1>1, PagesAre, LevelsAre
<1>6. MemoryAt(r, i) \in Holds(View(tbl, f), p, t, k)
  <2>1. Mem(e, l) = e.pa .. e.pa + Pages(l) - 1
    BY <1>1, <1>2 DEF Mem
  <2>2. e.pa + o \in e.pa .. e.pa + Pages(l) - 1
    BY <1>1, <1>4, <1>5
  <2> QED BY <1>2, <1>3, <2>1, <2>2
<1>7. gstate[MemoryAt(r, i)] = "DATA" /\ InPar(Last(p[t], k))
  BY <1>1, <1>6 DEF SafeState, StateOK, Memory, MemoryIsData
<1>8. InPar(i)
  <2>1. PICK a \in Nat : a = Start(p[t].base, k, l)
    BY <1>1, SpotOfEntry
  <2>2. i = a + o /\ Last(p[t], k) = a + Pages(l) - 1
    BY <1>1, <2>1 DEF Last
  <2>3. NumIpas \in Int
    BY LevelsAre, PagesAre, EPositive, ProductPositive DEF NumIpas
  <2> QED BY <1>1, <1>5, <1>7, <2>1, <2>2, <2>3 DEF InPar
<1> QED BY <1>2, <1>4, <1>6, <1>7, <1>8

LEMMA OnePageOfMemory ==
  ASSUME NEW p, SafeState(p), NEW r \in Realms, NEW i \in Ipas, HasMemory(r, i),
         NEW q \in Realms, NEW j \in Ipas, HasMemory(q, j), MemoryAt(q, j) = MemoryAt(r, i)
  PROVE  q = r /\ j = i
<1>1. PICK t, k, l, o : Decides(p, r, i, t, k, l, o) /\ o = i - Align(i, l)
  BY PageDecided
<1>2. PICK u, h, m, n : Decides(p, q, j, u, h, m, n) /\ n = j - Align(j, m)
  BY PageDecided
<1>3. /\ MemoryAt(r, i) = Entry(t, k).pa + o /\ Entry(t, k).pa \in Nat
      /\ MemoryAt(r, i) \in Holds(View(tbl, f), p, t, k)
  BY <1>1, MemoryHeld
<1>4. /\ MemoryAt(q, j) = Entry(u, h).pa + n
      /\ MemoryAt(q, j) \in Holds(View(tbl, f), p, u, h)
  BY <1>2, MemoryHeld
<1>5. /\ t \in Used(gstate) /\ k \in Slots /\ l \in Levels /\ o \in 0 .. Pages(l) - 1
      /\ p[t].r = r /\ p[t].lvl = l /\ i = Start(p[t].base, k, l) + o
  BY <1>1 DEF Decides
<1>6. /\ u \in Used(gstate) /\ h \in Slots /\ m \in Levels /\ n \in 0 .. Pages(m) - 1
      /\ p[u].r = q /\ p[u].lvl = m /\ j = Start(p[u].base, h, m) + n
  BY <1>2 DEF Decides
<1>7. u = t /\ h = k
  BY <1>3, <1>4, <1>5, <1>6 DEF SafeState, StateOK, Memory, MemoryDiffers
<1>8. o \in Int /\ n \in Int
  BY <1>5, <1>6, PagesAre, LevelsAre
<1>9. o = n
  BY <1>3, <1>4, <1>7, <1>8
<1> QED BY <1>5, <1>6, <1>7, <1>9

LEMMA DataFound ==
  ASSUME NEW p, SafeState(p), NEW g \in Granules, gstate[g] = "DATA", g \notin Dying(f)
  PROVE  \E r \in Realms, i \in Ipas : HasMemory(r, i) /\ MemoryAt(r, i) = g
<1>1. PICK t \in Used(gstate), k \in Slots : g \in Holds(View(tbl, f), p, t, k)
  BY DEF SafeState, StateOK, Memory, DataIsMemory
<1>2. PICK l : l = p[t].lvl
  OBVIOUS
<1>3. PICK e : e = Entry(t, k)
  OBVIOUS
<1>4. g \in Mem(e, l) /\ Good(e, l) /\ l \in Levels
  BY <1>1, <1>2, <1>3, UsedEntry DEF Places
<1>5. ~e.ns /\ e.pa # None /\ ~IsTable(e, l) /\ g \in e.pa .. e.pa + Pages(l) - 1
  BY <1>4 DEF Mem
<1>6. e.pa \in Nat /\ Pages(l) \in Nat /\ g \in Int
  BY <1>4, <1>5, PagesAre, LevelsAre DEF Good, Granules
<1>7. PICK o \in 0 .. Pages(l) - 1 : g = e.pa + o
  <2>1. g - e.pa \in 0 .. Pages(l) - 1 /\ g = e.pa + (g - e.pa)
    BY <1>5, <1>6
  <2> QED BY <2>1
<1>8. PICK r \in Realms, i \in Ipas : Decides(p, r, i, t, k, l, o) /\ o = i - Align(i, l)
  BY <1>2, <1>3, <1>5, EntryDecides
<1>9. Leaf(r, i) = [lvl |-> l, e |-> e]
  BY <1>3, <1>8 DEF Decides
<1> QED BY <1>5, <1>7, <1>8, <1>9 DEF HasMemory, MemoryAt

(* A granule in the state DATA is memory of one page of one realm, in the   *)
(* protected half, or DATA_DESTROY is about to free it: however pages are   *)
(* folded into blocks, split again, emptied and given back.                 *)
THEOREM MemoryMappedOnce == Spec /\ FoldsFit => []DataMappedOnce
<1>1. Safe => DataMappedOnce
  <2> SUFFICES ASSUME Safe PROVE DataMappedOnce
    OBVIOUS
  <2>1. PICK p : SafeState(p)
    BY DEF Safe
  <2>2. ASSUME NEW r \in Realms, NEW i \in Ipas, HasMemory(r, i)
        PROVE  InPar(i) /\ gstate[MemoryAt(r, i)] = "DATA"
    <3>1. PICK t, k, l, o : Decides(p, r, i, t, k, l, o) /\ o = i - Align(i, l)
      BY <2>1, PageDecided
    <3> QED BY <2>1, <2>2, <3>1, MemoryHeld
  <2>3. ASSUME NEW r \in Realms, NEW i \in Ipas, HasMemory(r, i),
               NEW q \in Realms, NEW j \in Ipas, <<q, j>> # <<r, i>>, HasMemory(q, j)
        PROVE  MemoryAt(q, j) # MemoryAt(r, i)
    BY <2>1, <2>3, OnePageOfMemory
  <2>4. ASSUME NEW g \in Granules, gstate[g] = "DATA"
        PROVE  \/ \E r \in Realms, i \in Ipas : HasMemory(r, i) /\ MemoryAt(r, i) = g
               \/ \E c \in Cpus : f[c].pc \in {"tlbi", "free"} /\ f[c].sub = g
    <3>1. CASE g \notin Dying(f)
      BY <2>1, <2>4, <3>1, DataFound
    <3>2. CASE g \in Dying(f)
      <4>1. PICK c \in Cpus : f[c].then = "free" /\ f[c].sub = g
        BY <3>2 DEF Dying
      <4>2. f[c].pc \in {"tlbi", "free"}
        BY <2>1, <4>1 DEF SafeState, StateOK, FramesOK, FrameOK, FreeOK
      <4> QED BY <4>1, <4>2
    <3> QED BY <3>1, <3>2
  <2> QED BY <2>2, <2>3, <2>4 DEF DataMappedOnce
<1> QED BY <1>1, SafeCorrect, PTL

=============================================================================
