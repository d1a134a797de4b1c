----------------------------- MODULE Heap_proofs -----------------------------
(* kmalloc and kfree keep the page tables sound and their own records exact,   *)
(* for every number of levels, entries, frames, buckets and slots: first the   *)
(* tables, as far as a walk sees them, then the page allocator, the lists, the *)
(* small blocks, the runs of pages, and at the end the properties of Heap.     *)
EXTENDS Heap, FiniteSetTheorems, SequenceTheorems, WellFoundedInduction, TLAPS

-----------------------------------------------------------------------------
(* Numbers *)

\* A set of numbers has a least one.
LEMMA Least ==
  ASSUME NEW S \in SUBSET Nat, S # {}
  PROVE  \E m \in S : \A n \in S : m <= n
<1>. DEFINE R == StrictSubsetOrdering(Nat)
            F == FiniteSubsetsOf(Nat)
            T == {0..n : n \in S}
<1>1. IsWellFoundedOn(R, F)
  BY FS_StrictSubsetOrderingWellFounded
<1>2. T \subseteq F
  <2>1. \A n \in S : 0..n \in SUBSET Nat /\ IsFiniteSet(0..n)
    BY FS_Interval
  <2>. QED BY <2>1 DEF FiniteSubsetsOf
<1>3. T # {}
  OBVIOUS
<1>4. PICK x \in T : \A y \in T : <<y, x>> \notin R
  <2>. HIDE DEF R, F, T
  <2>. QED BY <1>1, <1>2, <1>3, WFMin
<1>5. PICK m \in S : x = 0..m
  OBVIOUS
<1>6. ASSUME NEW n \in S, n < m PROVE FALSE
  <2>1. 0..n \in T
    OBVIOUS
  <2>2. m \in 0..m /\ m \notin 0..n /\ 0..n \subseteq 0..m
    BY <1>6
  <2>3. 0..n \in F /\ 0..m \in F
    BY <1>2, <1>5, <2>1
  <2>4. <<0..n, x>> \in R
    BY <1>5, <2>2, <2>3 DEF StrictSubsetOrdering, FiniteSubsetsOf
  <2>. QED BY <1>4, <2>1, <2>4
<1>. QED BY <1>6

\* Induction, over a set.
LEMMA SetInduction ==
  ASSUME NEW S, 0 \in S, \A n \in Nat : n \in S => n + 1 \in S
  PROVE  Nat \subseteq S
<1>. SUFFICES ASSUME Nat \ S # {} PROVE FALSE
  OBVIOUS
<1>1. PICK m \in Nat \ S : \A n \in Nat \ S : m <= n
  BY Least
<1>2. m # 0 /\ m - 1 \in Nat
  BY <1>1
<1>3. m - 1 \in S
  BY <1>1, <1>2
<1>. QED BY <1>2, <1>3

\* Division with remainder.
LEMMA Division ==
  ASSUME NEW a \in Nat, NEW b \in Nat \ {0}
  PROVE  /\ (a \div b) \in Nat /\ (a % b) \in 0..(b - 1)
         /\ a = ((a \div b) * b) + (a % b)
  OBVIOUS

\* Quotient and remainder are the only ones.
LEMMA DivisionUnique ==
  ASSUME NEW a \in Nat, NEW b \in Nat \ {0}, NEW q \in Nat, NEW r \in 0..(b - 1),
         a = (q * b) + r
  PROVE  (a \div b) = q /\ (a % b) = r
<1>. DEFINE x == a \div b
            y == a % b
<1>1. x \in Nat /\ y \in 0..(b - 1) /\ a = (x * b) + y
  BY Division
<1>. HIDE DEF x, y
<1>2. (x - q) * b = r - y
  BY <1>1
<1>3. ASSUME x > q PROVE FALSE
  <2>1. (x - q) * b >= b
    BY <1>1, <1>3
  <2>. QED BY <1>1, <1>2, <2>1
<1>4. ASSUME x < q PROVE FALSE
  <2>1. (q - x) * b >= b
    BY <1>1, <1>4
  <2>2. (q - x) * b = y - r
    BY <1>1
  <2>. QED BY <1>1, <2>1, <2>2
<1>5. x = q
  BY <1>1, <1>3, <1>4
<1>6. y = r
  BY <1>1, <1>5
<1>. QED BY <1>5, <1>6 DEF x, y

\* Dividing by a product is dividing twice.
LEMMA DivisionTwice ==
  ASSUME NEW a \in Nat, NEW b \in Nat \ {0}, NEW c \in Nat \ {0}
  PROVE  (a \div (b * c)) = ((a \div c) \div b)
<1>. DEFINE x == a \div c
            y == a % c
            q == x \div b
            r == x % b
<1>1. x \in Nat /\ y \in 0..(c - 1) /\ a = (x * c) + y
  BY Division
<1>2. q \in Nat /\ r \in 0..(b - 1) /\ x = (q * b) + r
  <2>. HIDE DEF x
  <2>. QED BY <1>1, Division
<1>. HIDE DEF x, y, q, r
<1>3. a = (((q * b) + r) * c) + y
  BY <1>1, <1>2
<1>4. ((q * b) + r) * c = (q * (b * c)) + (r * c)
  BY <1>1, <1>2
<1>5. r * c \in Nat /\ r * c <= (b - 1) * c /\ (b - 1) * c = (b * c) - c
  BY <1>2
<1>6. b * c \in Nat \ {0}
  OBVIOUS
<1>. DEFINE d == b * c
            z == r * c
<1>7. d \in Nat \ {0} /\ z \in Nat /\ z <= d - c
  BY <1>5, <1>6
<1>8. a = (q * d) + z + y
  BY <1>3, <1>4
<1>. HIDE DEF d, z
<1>9. z + y \in 0..(d - 1)
  BY <1>1, <1>7
<1>10. a = (q * d) + (z + y)
  <2>1. q * d \in Nat
    BY <1>2, <1>7
  <2>. QED BY <1>8, <2>1, <1>7, <1>1
<1>11. (a \div d) = q
  BY <1>2, <1>7, <1>9, <1>10, DivisionUnique
<1>. QED BY <1>11 DEF d, q, x

-----------------------------------------------------------------------------
(* Pages: Width is defined for every level. *)

\* The width of a level is defined by the one below.
LEMMA WidthFacts ==
  /\ Width[0] = 1
  /\ \A n \in Nat : Width[n + 1] = Entries * Width[n]
  /\ \A n \in Nat : Width[n] \in Nat \ {0}
<1>. DEFINE G(g, n) == g = [i \in 0..n |-> IF i = 0 THEN 1 ELSE Entries * g[i - 1]]
            S == {n \in Nat : \E g : G(g, n)}
            F(s) == [n \in Nat |-> IF n = 0 THEN 1 ELSE Entries * s[n - 1]]
<1>0. 0 \in S
  <2>. DEFINE g == [i \in 0..0 |-> 1]
  <2>1. g = [i \in 0..0 |-> IF i = 0 THEN 1 ELSE Entries * g[i - 1]]
    OBVIOUS
  <2>. QED BY <2>1
<1>1. ASSUME NEW n \in Nat, n \in S PROVE n + 1 \in S
  <2>1. PICK h : G(h, n)
    BY <1>1
  <2>. DEFINE g == [i \in 0..n + 1 |-> IF i <= n THEN h[i] ELSE Entries * h[n]]
  <2>2. ASSUME NEW i \in 0..n + 1
        PROVE  g[i] = IF i = 0 THEN 1 ELSE Entries * g[i - 1]
    <3>1. CASE i <= n
      BY <2>1, <3>1
    <3>2. CASE i = n + 1
      BY <2>1, <3>2
    <3>. QED BY <3>1, <3>2
  <2>3. G(g, n + 1)
    BY <2>2
  <2>. HIDE DEF G, g
  <2>. QED BY <2>3
<1>2. Nat \subseteq S
  <2>. HIDE DEF S
  <2>. QED BY <1>0, <1>1, SetInduction
<1>3. ASSUME NEW n \in Nat, NEW g, NEW k \in Nat, NEW h, G(g, n), G(h, k), n <= k
      PROVE  g[n] = h[n]
  <2>. DEFINE T == {i \in Nat : i <= n => g[i] = h[i]}
  <2>1. \A i \in 0..n : g[i] = IF i = 0 THEN 1 ELSE Entries * g[i - 1]
    BY <1>3
  <2>2. \A i \in 0..k : h[i] = IF i = 0 THEN 1 ELSE Entries * h[i - 1]
    BY <1>3
  <2>. HIDE DEF G
  <2>3. 0 \in T
    BY <2>1, <2>2, <1>3
  <2>4. ASSUME NEW i \in Nat, i \in T PROVE i + 1 \in T
    BY <2>1, <2>2, <2>4, <1>3
  <2>5. Nat \subseteq T
    <3>. HIDE DEF T
    <3>. QED BY <2>3, <2>4, SetInduction
  <2>. QED BY <2>5
<1>. DEFINE H(n) == CHOOSE g : G(g, n)
            f == [n \in Nat |-> H(n)[n]]
<1>4. \A n \in Nat : G(H(n), n)
  <2>. HIDE DEF G
  <2>. QED BY <1>2
<1>5. \A n \in Nat : \A i \in 0..n : H(n)[i] = f[i]
  <2>1. ASSUME NEW n \in Nat, NEW i \in 0..n PROVE H(n)[i] = f[i]
    <3>. HIDE DEF G, H
    <3>1. i \in Nat /\ G(H(n), n) /\ G(H(i), i) /\ i <= n
      BY <1>4
    <3>2. H(i)[i] = H(n)[i]
      BY <1>3, <3>1
    <3>. QED BY <3>1, <3>2
  <2>. HIDE DEF H, f
  <2>. QED BY <2>1
<1>6. f = F(f)
  <2>1. ASSUME NEW n \in Nat PROVE f[n] = IF n = 0 THEN 1 ELSE Entries * f[n - 1]
    <3>1. H(n)[n] = IF n = 0 THEN 1 ELSE Entries * H(n)[n - 1]
      <4>1. n \in 0..n
        OBVIOUS
      <4>. HIDE DEF H
      <4>. QED BY <1>4, <4>1
    <3>. HIDE DEF H, G
    <3>2. H(n)[n] = f[n] /\ (n # 0 => H(n)[n - 1] = f[n - 1])
      BY <1>5
    <3>. HIDE DEF f
    <3>. QED BY <3>1, <3>2
  <2>. HIDE DEF H
  <2>. QED BY <2>1
<1>. DEFINE w == CHOOSE s : s = F(s)
<1>7. w = F(w)
  <2>. HIDE DEF F, f
  <2>. QED BY <1>6
<1>8. Width = w
  BY DEF Width
<1>9. \A n \in Nat : Width[n] = IF n = 0 THEN 1 ELSE Entries * Width[n - 1]
  <2>. HIDE DEF w
  <2>. QED BY <1>7, <1>8
<1>. HIDE DEF w
<1>10. Width[0] = 1 /\ \A n \in Nat : Width[n + 1] = Entries * Width[n]
  BY <1>9
<1>. DEFINE P == {n \in Nat : Width[n] \in Nat \ {0}}
<1>11. \A n \in Nat : n \in P => n + 1 \in P
  BY <1>10, PageTablesAssumption
<1>12. Nat \subseteq P
  <2>1. 0 \in P
    BY <1>10
  <2>. HIDE DEF P
  <2>. QED BY <2>1, <1>11, SetInduction
<1>. QED BY <1>10, <1>12

\* The pages below an entry of a level make up whole groups of every lower level.
LEMMA WidthMultiple ==
  ASSUME NEW l \in 0..Levels
  PROVE  \E k \in Nat : Width[Levels] = k * Width[l]
<1>. DEFINE S == {n \in Nat : \E k \in Nat : Width[l + n] = k * Width[l]}
<1>1. l \in Nat /\ Width[l] \in Nat /\ Levels \in Nat /\ Entries \in Nat
  BY WidthFacts, PageTablesAssumption
<1>2. 0 \in S
  <2>1. l + 0 = l /\ Width[l] = 1 * Width[l]
    BY <1>1
  <2>. QED BY <2>1
<1>3. ASSUME NEW n \in Nat, n \in S PROVE n + 1 \in S
  <2>1. PICK k \in Nat : Width[l + n] = k * Width[l]
    BY <1>3
  <2>2. Width[l + (n + 1)] = Entries * Width[l + n]
    <3>1. l + n \in Nat /\ (l + n) + 1 = l + (n + 1)
      BY <1>1
    <3>. QED BY <3>1, WidthFacts
  <2>. DEFINE w == Width[l]
              u == Width[l + (n + 1)]
  <2>3. u = Entries * (k * w) /\ w \in Nat
    BY <2>1, <2>2, <1>1
  <2>. HIDE DEF w, u
  <2>4. u = (Entries * k) * w /\ Entries * k \in Nat
    BY <2>3, <1>1
  <2>5. \E j \in Nat : u = j * w
    BY <2>4
  <2>. QED BY <2>5 DEF u, w
<1>4. Nat \subseteq S
  <2>. HIDE DEF S
  <2>. QED BY <1>2, <1>3, SetInduction
<1>5. Levels - l \in S /\ l + (Levels - l) = Levels
  <2>1. Levels - l \in Nat /\ l + (Levels - l) = Levels
    BY <1>1
  <2>. HIDE DEF S
  <2>. QED BY <2>1, <1>4
<1>. QED BY <1>5

\* Where a page lies among those of a level.
Prefix(p, l) == p \div Width[l]

Level == 1..Levels

\* A page's index in a table is a digit of the page.
LEMMA PrefixFacts ==
  ASSUME NEW p \in Page
  PROVE  /\ Prefix(p, 0) = p
         /\ Prefix(p, Levels) = 0
         /\ \A l \in 0..Levels : Prefix(p, l) \in Nat
         /\ \A l \in Level : Offset(p, l) \in Indices
         /\ \A l \in Level : Prefix(p, l - 1) = (Prefix(p, l) * Entries) + Offset(p, l)
<1>. USE PageTablesAssumption
<1>0. p \in Nat /\ p < Width[Levels]
  BY WidthFacts DEF Page
<1>1. Prefix(p, 0) = p
  BY WidthFacts, <1>0 DEF Prefix
<1>2. Prefix(p, Levels) = 0
  <2>1. p = (0 * Width[Levels]) + p /\ p \in 0..(Width[Levels] - 1) /\ Width[Levels] \in Nat \ {0}
    BY WidthFacts, <1>0
  <2>. QED BY <2>1, <1>0, DivisionUnique DEF Prefix
<1>3. \A l \in 0..Levels : Prefix(p, l) \in Nat
  <2>1. ASSUME NEW l \in 0..Levels PROVE (p \div Width[l]) \in Nat
    <3>1. Width[l] \in Nat \ {0}
      BY WidthFacts
    <3>. QED BY <1>0, <3>1, Division
  <2>. QED BY <2>1 DEF Prefix
<1>4. ASSUME NEW l \in Level
      PROVE  Offset(p, l) \in Indices /\ Prefix(p, l - 1) = (Prefix(p, l) * Entries) + Offset(p, l)
  <2>1. l - 1 \in Nat /\ (l - 1) + 1 = l
    BY DEF Level
  <2>2. Width[l] = Entries * Width[l - 1] /\ Width[l - 1] \in Nat \ {0}
    BY WidthFacts, <2>1
  <2>3. Prefix(p, l) = (Prefix(p, l - 1) \div Entries)
    BY <2>2, <1>0, DivisionTwice DEF Prefix
  <2>4. Prefix(p, l - 1) \in Nat
    BY <1>3, <2>1 DEF Level
  <2>5. Offset(p, l) = (Prefix(p, l - 1) % Entries)
    BY DEF Offset, Prefix
  <2>. QED BY <2>3, <2>4, <2>5, Division DEF Indices
<1>. QED BY <1>1, <1>2, <1>3, <1>4

\* Two pages lie together at a level when they do so above, and have one index there.
LEMMA PrefixStep ==
  ASSUME NEW p \in Page, NEW q \in Page, NEW l \in Level
  PROVE  Prefix(p, l - 1) = Prefix(q, l - 1) <=> (Prefix(p, l) = Prefix(q, l) /\ Offset(p, l) = Offset(q, l))
<1>. DEFINE a == Prefix(p, l)
            b == Prefix(q, l)
            i == Offset(p, l)
            j == Offset(q, l)
            x == Prefix(p, l - 1)
            y == Prefix(q, l - 1)
<1>1. a \in Nat /\ b \in Nat /\ i \in 0..(Entries - 1) /\ j \in 0..(Entries - 1)
  BY PrefixFacts DEF Level, Indices
<1>2. x = (a * Entries) + i /\ y = (b * Entries) + j
  BY PrefixFacts
<1>3. x = y => a = b /\ i = j
  <2>1. x \in Nat /\ y \in Nat
    BY <1>1, <1>2, PageTablesAssumption
  <2>. HIDE DEF x, y, a, b, i, j
  <2>2. (x \div Entries) = a /\ (x % Entries) = i
    BY <1>1, <1>2, <2>1, DivisionUnique, PageTablesAssumption
  <2>3. (y \div Entries) = b /\ (y % Entries) = j
    BY <1>1, <1>2, <2>1, DivisionUnique, PageTablesAssumption
  <2>. QED BY <2>2, <2>3
<1>. QED BY <1>2, <1>3

\* A page that is the first of those below an entry.
IsFirst(p, l) == p = Prefix(p, l) * Width[l]

\* Its neighbour below entry i of the next table.
LEMMA Neighbour ==
  ASSUME NEW p \in Page, NEW l \in Level, NEW i \in Indices, IsFirst(p, l)
  PROVE  LET q == p + (i * Width[l - 1])
         IN  /\ q \in Page /\ IsFirst(q, l - 1)
             /\ Prefix(q, l) = Prefix(p, l) /\ Offset(q, l) = i
<1>. USE PageTablesAssumption
<1>. DEFINE q == p + (i * Width[l - 1])
            w == Width[l - 1]
            a == Prefix(p, l)
<1>1. l - 1 \in Nat /\ (l - 1) + 1 = l /\ l \in Nat
  BY DEF Level
<1>2. Width[l] = Entries * w /\ w \in Nat \ {0} /\ Width[l] \in Nat \ {0}
  BY WidthFacts, <1>1
<1>3. a \in Nat
  BY PrefixFacts DEF Level
<1>4. p = a * (Entries * w)
  BY <1>2 DEF IsFirst
<1>5. i \in Nat /\ i < Entries
  BY DEF Indices
<1>6. q = ((a * Entries) + i) * w
  <2>. HIDE DEF a, w
  <2>. QED BY <1>2, <1>3, <1>4, <1>5 DEF w
<1>7. q = (a * (Entries * w)) + (i * w)
  BY <1>4
<1>8. i * w \in 0..((Entries * w) - 1)
  <2>. HIDE DEF w
  <2>1. i * w <= (Entries - 1) * w /\ (Entries - 1) * w = (Entries * w) - w
    BY <1>2, <1>5
  <2>. QED BY <2>1, <1>2, <1>5
<1>9. q \in Nat
  <2>. HIDE DEF w, a, q
  <2>. QED BY <1>6, <1>5, <1>2, <1>3
<1>10. Prefix(q, l) = a
  <2>. HIDE DEF w, a, q
  <2>. QED BY <1>2, <1>3, <1>7, <1>8, <1>9, DivisionUnique DEF Prefix
<1>11. Prefix(q, l - 1) = (a * Entries) + i
  <2>. HIDE DEF a, q
  <2>1. (a * Entries) + i \in Nat /\ q = (((a * Entries) + i) * w) + 0 /\ 0 \in 0..(w - 1)
    BY <1>6, <1>2, <1>3, <1>5
  <2>. QED BY <2>1, <1>2, <1>9, DivisionUnique DEF Prefix
<1>12. Offset(q, l) = i
  <2>1. Offset(q, l) = (Prefix(q, l - 1) % Entries)
    BY DEF Offset, Prefix
  <2>2. (a * Entries) + i \in Nat
    BY <1>3, <1>5
  <2>3. (((a * Entries) + i) % Entries) = i
    <3>. HIDE DEF a, q
    <3>. QED BY <2>2, <1>3, <1>5, DivisionUnique
  <2>. QED BY <2>1, <2>3, <1>11
<1>13. IsFirst(q, l - 1)
  <2>. HIDE DEF q
  <2>. QED BY <1>6, <1>11 DEF IsFirst
<1>14. q < Width[Levels]
  <2>. DEFINE v == Width[l]
  <2>1. PICK k \in Nat : Width[Levels] = k * v
    BY WidthMultiple DEF Level
  <2>2. p < Width[Levels] /\ p = a * v
    BY WidthFacts DEF Page, IsFirst
  <2>3. v \in Nat \ {0}
    BY <1>2
  <2>4. q <= (a * v) + (v - 1)
    BY <1>7, <1>8, <1>2, <1>3, <2>3
  <2>. HIDE DEF a, v, q
  <2>5. a < k
    BY <2>1, <2>2, <2>3, <1>3
  <2>6. (a + 1) * v <= k * v /\ (a + 1) * v = (a * v) + v
    BY <2>3, <2>5, <1>3
  <2>. QED BY <2>1, <2>3, <2>4, <2>6, <1>3, <1>9
<1>. HIDE DEF q
<1>15. q \in Page
  BY <1>9, <1>14, <1>2, WidthFacts DEF Page
<1>. QED BY <1>10, <1>12, <1>13, <1>15 DEF q

-----------------------------------------------------------------------------
(* Walks *)

\* What is behind an entry, -1 behind an absent one.
Target(e) == IF e.present THEN e.frame ELSE -1
Cell(m, t, i) == m.tables[t][i]
Behind(m, t, i) == IF t = -1 THEN -1 ELSE Target(Cell(m, t, i))

\* The tables on the way to a page, and at level 0 the frame behind it.
Walk(m, p, l) == IF l > 0 THEN Path(m, p)[l] ELSE Behind(m, Path(m, p)[1], Offset(p, 1))

EntryAt(m, p, l) == Cell(m, Walk(m, p, l), Offset(p, l))

\* The tables on the way to a page are defined by the one above.
LEMMA PathFacts ==
  ASSUME NEW m, NEW p
  PROVE  /\ Path(m, p)[Levels] = Root
         /\ \A l \in 1..(Levels - 1) :
              Path(m, p)[l] = Behind(m, Path(m, p)[l + 1], Offset(p, l + 1))
<1>. USE PageTablesAssumption
<1>. DEFINE G(g, n) == g = [l \in (Levels - n)..Levels |->
                              IF l = Levels THEN Root ELSE Behind(m, g[l + 1], Offset(p, l + 1))]
            S == {n \in Nat : n < Levels => \E g : G(g, n)}
            F(s) == [l \in 1..Levels |->
                       IF l = Levels THEN Root ELSE Behind(m, s[l + 1], Offset(p, l + 1))]
            s == CHOOSE f : f = F(f)
<1>1. 0 \in S
  <2>. DEFINE g == [l \in (Levels - 0)..Levels |-> Root]
  <2>1. G(g, 0)
    OBVIOUS
  <2>. HIDE DEF G, g
  <2>. QED BY <2>1
<1>2. ASSUME NEW n \in Nat, n \in S PROVE n + 1 \in S
  <2>. SUFFICES ASSUME n + 1 < Levels PROVE \E g : G(g, n + 1)
    <3>. HIDE DEF G
    <3>. QED OBVIOUS
  <2>1. n < Levels /\ Levels - n \in 1..Levels /\ Levels - n = (Levels - (n + 1)) + 1
    OBVIOUS
  <2>2. PICK h : G(h, n)
    <3>. HIDE DEF G
    <3>. QED BY <1>2, <2>1
  <2>. DEFINE b == Levels - (n + 1)
              g == [l \in b..Levels |->
                      IF l = b THEN Behind(m, h[b + 1], Offset(p, b + 1)) ELSE h[l]]
  <2>3. ASSUME NEW l \in b..Levels
        PROVE  g[l] = IF l = Levels THEN Root ELSE Behind(m, g[l + 1], Offset(p, l + 1))
    <3>1. CASE l = b
      <4>1. l # Levels /\ b + 1 \in b..Levels /\ b + 1 # b
        BY <2>1, <3>1
      <4>. QED BY <3>1, <4>1
    <3>2. CASE l # b
      <4>1. l \in (Levels - n)..Levels
        BY <2>1, <3>2
      <4>2. l = Levels \/ (l + 1 \in b..Levels /\ l + 1 # b)
        BY <2>1
      <4>. QED BY <2>2, <3>2, <4>1, <4>2
    <3>. QED BY <3>1, <3>2
  <2>4. G(g, n + 1)
    BY <2>3
  <2>. HIDE DEF G, g
  <2>. QED BY <2>4
<1>3. Nat \subseteq S
  <2>. HIDE DEF S
  <2>. QED BY <1>1, <1>2, SetInduction
<1>4. PICK g : G(g, Levels - 1)
  <2>1. Levels - 1 \in Nat /\ Levels - 1 < Levels
    OBVIOUS
  <2>. HIDE DEF G
  <2>. QED BY <1>3, <2>1
<1>5. g = F(g)
  <2>1. Levels - (Levels - 1) = 1
    OBVIOUS
  <2>. QED BY <1>4, <2>1
<1>6. s = F(s)
  <2>. HIDE DEF F
  <2>. QED BY <1>5
<1>7. Path(m, p) = s
  BY DEF Path, Behind, Target, Cell
<1>. HIDE DEF s
<1>8. \A l \in 1..Levels : s[l] = IF l = Levels THEN Root ELSE Behind(m, s[l + 1], Offset(p, l + 1))
  BY <1>6
<1>. QED BY <1>7, <1>8

\* So is a walk.
LEMMA WalkFacts ==
  ASSUME NEW m, NEW p
  PROVE  /\ Walk(m, p, Levels) = Root
         /\ \A l \in Level : Walk(m, p, l - 1) = Behind(m, Walk(m, p, l), Offset(p, l))
<1>. USE PageTablesAssumption
<1>1. Walk(m, p, Levels) = Root
  BY PathFacts DEF Walk
<1>2. ASSUME NEW l \in Level
      PROVE  Walk(m, p, l - 1) = Behind(m, Walk(m, p, l), Offset(p, l))
  <2>1. CASE l = 1
    BY <2>1 DEF Walk
  <2>2. CASE l # 1
    <3>1. l - 1 \in 1..(Levels - 1) /\ (l - 1) + 1 = l /\ l - 1 > 0 /\ l > 0
      BY <2>2 DEF Level
    <3>2. Path(m, p)[l - 1] = Behind(m, Path(m, p)[(l - 1) + 1], Offset(p, (l - 1) + 1))
      BY PathFacts, <3>1
    <3>. QED BY <3>1, <3>2 DEF Walk
  <2>. QED BY <2>1, <2>2
<1>. QED BY <1>1, <1>2

\* A walk is the only one that follows the entries.
LEMMA WalkUnique ==
  ASSUME NEW m, NEW p, NEW V, V[Levels] = Root,
         \A l \in Level : V[l - 1] = Behind(m, V[l], Offset(p, l))
  PROVE  \A l \in 0..Levels : Walk(m, p, l) = V[l]
<1>. USE PageTablesAssumption
<1>. DEFINE S == {n \in Nat : n <= Levels => Walk(m, p, Levels - n) = V[Levels - n]}
<1>1. 0 \in S
  BY WalkFacts
<1>2. ASSUME NEW n \in Nat, n \in S PROVE n + 1 \in S
  <2>. SUFFICES ASSUME n + 1 <= Levels
                PROVE  Walk(m, p, Levels - (n + 1)) = V[Levels - (n + 1)]
    OBVIOUS
  <2>1. Levels - n \in Level /\ (Levels - n) - 1 = Levels - (n + 1) /\ n <= Levels
    BY DEF Level
  <2>2. Walk(m, p, Levels - n) = V[Levels - n]
    BY <1>2, <2>1
  <2>3. Walk(m, p, (Levels - n) - 1) = Behind(m, Walk(m, p, Levels - n), Offset(p, Levels - n))
    BY <2>1, WalkFacts
  <2>4. V[(Levels - n) - 1] = Behind(m, V[Levels - n], Offset(p, Levels - n))
    BY <2>1
  <2>. QED BY <2>1, <2>2, <2>3, <2>4
<1>3. Nat \subseteq S
  <2>. HIDE DEF S
  <2>. QED BY <1>1, <1>2, SetInduction
<1>4. ASSUME NEW l \in 0..Levels PROVE Walk(m, p, l) = V[l]
  <2>1. Levels - l \in Nat /\ Levels - l <= Levels /\ Levels - (Levels - l) = l
    OBVIOUS
  <2>. QED BY <1>3, <2>1
<1>. QED BY <1>4

\* Pages that lie together have the tables above in common.
LEMMA WalkTogether ==
  ASSUME NEW m, NEW p \in Page, NEW q \in Page, NEW l \in 0..Levels,
         Prefix(p, l) = Prefix(q, l)
  PROVE  \A k \in l..Levels : Walk(m, p, k) = Walk(m, q, k) /\ Prefix(p, k) = Prefix(q, k)
<1>. USE PageTablesAssumption
<1>. DEFINE T == {n \in Nat : l + n <= Levels => Prefix(p, l + n) = Prefix(q, l + n)}
<1>1. 0 \in T
  <2>1. l + 0 = l
    OBVIOUS
  <2>. QED BY <2>1
<1>2. ASSUME NEW n \in Nat, n \in T PROVE n + 1 \in T
  <2>. SUFFICES ASSUME l + (n + 1) <= Levels PROVE Prefix(p, l + (n + 1)) = Prefix(q, l + (n + 1))
    OBVIOUS
  <2>1. l + (n + 1) \in Level /\ (l + (n + 1)) - 1 = l + n /\ l + n <= Levels
    BY DEF Level
  <2>2. Prefix(p, l + n) = Prefix(q, l + n)
    BY <1>2, <2>1
  <2>. QED BY <2>1, <2>2, PrefixStep
<1>3. Nat \subseteq T
  <2>. HIDE DEF T
  <2>. QED BY <1>1, <1>2, SetInduction
<1>4. ASSUME NEW k \in l..Levels PROVE Prefix(p, k) = Prefix(q, k)
  <2>1. k - l \in Nat /\ l + (k - l) = k /\ k <= Levels
    OBVIOUS
  <2>. QED BY <1>3, <2>1
<1>. DEFINE S == {n \in Nat : n <= Levels - l => Walk(m, p, Levels - n) = Walk(m, q, Levels - n)}
<1>5. 0 \in S
  BY WalkFacts
<1>6. ASSUME NEW n \in Nat, n \in S PROVE n + 1 \in S
  <2>. SUFFICES ASSUME n + 1 <= Levels - l
                PROVE  Walk(m, p, Levels - (n + 1)) = Walk(m, q, Levels - (n + 1))
    OBVIOUS
  <2>1. /\ Levels - n \in Level /\ (Levels - n) - 1 = Levels - (n + 1) /\ n <= Levels - l
        /\ (Levels - n) - 1 \in l..Levels
    BY DEF Level
  <2>2. Walk(m, p, Levels - n) = Walk(m, q, Levels - n)
    BY <1>6, <2>1
  <2>3. Offset(p, Levels - n) = Offset(q, Levels - n)
    BY <1>4, <2>1, PrefixStep
  <2>. QED BY <2>1, <2>2, <2>3, WalkFacts
<1>7. Nat \subseteq S
  <2>. HIDE DEF S
  <2>. QED BY <1>5, <1>6, SetInduction
<1>8. ASSUME NEW k \in l..Levels PROVE Walk(m, p, k) = Walk(m, q, k)
  <2>1. Levels - k \in Nat /\ Levels - k <= Levels - l /\ Levels - (Levels - k) = k
    OBVIOUS
  <2>. QED BY <1>7, <2>1
<1>. QED BY <1>4, <1>8

\* Nothing is behind a missing table.
LEMMA WalkMissing ==
  ASSUME NEW m, NEW p, NEW l \in 0..Levels, Walk(m, p, l) = -1
  PROVE  \A k \in 0..l : Walk(m, p, k) = -1
<1>. USE PageTablesAssumption
<1>. DEFINE S == {n \in Nat : n <= l => Walk(m, p, l - n) = -1}
<1>1. 0 \in S
  OBVIOUS
<1>2. ASSUME NEW n \in Nat, n \in S PROVE n + 1 \in S
  <2>. SUFFICES ASSUME n + 1 <= l PROVE Walk(m, p, l - (n + 1)) = -1
    OBVIOUS
  <2>1. l - n \in Level /\ (l - n) - 1 = l - (n + 1) /\ n <= l
    BY DEF Level
  <2>2. Walk(m, p, l - n) = -1
    BY <1>2, <2>1
  <2>. QED BY <2>1, <2>2, WalkFacts DEF Behind
<1>3. Nat \subseteq S
  <2>. HIDE DEF S
  <2>. QED BY <1>1, <1>2, SetInduction
<1>4. ASSUME NEW k \in 0..l PROVE Walk(m, p, k) = -1
  <2>1. l - k \in Nat /\ l - k <= l /\ l - (l - k) = k
    OBVIOUS
  <2>. QED BY <1>3, <2>1
<1>. QED BY <1>4

-----------------------------------------------------------------------------
(* Sound memories *)

\* The heap gives no right to user code.
Entry == [present : BOOLEAN, frame : Frames, write : BOOLEAN, user : {FALSE}, full : BOOLEAN]
IsTable(table) == table \in [Indices -> Entry]

IsMemory(m) ==
  /\ m = [tables |-> m.tables, taken |-> m.taken, cursor |-> m.cursor, dirty |-> m.dirty,
          kernel |-> m.kernel]
  /\ DOMAIN m.tables \subseteq Frames
  /\ \A t \in DOMAIN m.tables : IsTable(m.tables[t])
  /\ m.taken \subseteq Frames /\ m.cursor \in Frames
  /\ m.dirty \subseteq Frames /\ 0 \in m.dirty
  /\ m.kernel \in {"running", "halted", "corrupt"}

\* Every walk ends at a table of the memory.
Reached(m) == \A p \in Page : \A l \in Level : Walk(m, p, l) \in DOMAIN m.tables \cup {-1}

\* A frame is behind pages that lie together, and at one level.
Separate(m) ==
  \A p, q \in Page : \A k, l \in 0..Levels :
    Walk(m, p, k) # -1 /\ Walk(m, p, k) = Walk(m, q, l) => k = l /\ Prefix(p, k) = Prefix(q, l)

\* The allocator has them all, but for frame 0.
Counted(m) == \A p \in Page : \A l \in 0..Levels : Walk(m, p, l) \in m.taken \cup {0, -1}

\* Every entry on a walk is the kernel's.
Kernels(e) == e.write /\ ~e.user
Granted(m) ==
  \A p \in Page : \A l \in Level :
    Walk(m, p, l - 1) # -1 => Kernels(EntryAt(m, p, l))

\* A mapped page of the searched windows is noted as full, so it is not taken twice.
Full(e) == e.full
Windowed(p) == Offset(p, Levels) \in PageWindow \cup SmallWindow
Noted(m) == \A p \in Page : Windowed(p) /\ Walk(m, p, 0) # -1 => Full(EntryAt(m, p, 1))

Sound(m) == IsMemory(m) /\ Reached(m) /\ Separate(m) /\ Counted(m) /\ Granted(m) /\ Noted(m)

\* n is m with e in place of one entry, as far as m's walks see it.
Edited(m, n, t, i, e) ==
  /\ n.tables[t] = [m.tables[t] EXCEPT ![i] = e]
  /\ \A q \in Page : \A k \in Level :
       Walk(m, q, k) \notin {t, -1} => n.tables[Walk(m, q, k)] = m.tables[Walk(m, q, k)]

\* The levels, from the last to the top.
LEMMA LevelFacts ==
  /\ Levels \in Nat \ {0} /\ Level \subseteq Nat /\ Level \subseteq 0..Levels
  /\ 1 \in Level /\ Levels \in Level /\ 0 \in 0..Levels
  /\ \A l \in Level : l > 0 /\ l - 1 \in 0..Levels /\ l - 1 # l /\ (l # 1 => l - 1 \in Level)
  /\ \A l \in 0..Levels : l = 0 \/ l \in Level
BY PageTablesAssumption DEF Level

\* Where a walk is, there is a table of entries.
LEMMA TableAt ==
  ASSUME NEW m, Sound(m), NEW p \in Page, NEW l \in Level, Walk(m, p, l) # -1
  PROVE  /\ Walk(m, p, l) \in DOMAIN m.tables /\ Walk(m, p, l) \in Frames
         /\ m.tables[Walk(m, p, l)] \in [Indices -> Entry]
         /\ Offset(p, l) \in Indices /\ EntryAt(m, p, l) \in Entry
         /\ Walk(m, p, l - 1) = Target(EntryAt(m, p, l))
<1>1. Walk(m, p, l) \in DOMAIN m.tables
  BY DEF Sound, Reached
<1>2. m.tables[Walk(m, p, l)] \in [Indices -> Entry] /\ Walk(m, p, l) \in Frames
  BY <1>1 DEF Sound, IsMemory, IsTable
<1>3. Offset(p, l) \in Indices
  BY PrefixFacts
<1>4. Walk(m, p, l - 1) = Behind(m, Walk(m, p, l), Offset(p, l))
  BY WalkFacts
<1>. QED BY <1>1, <1>2, <1>3, <1>4 DEF Behind, EntryAt, Cell

\* A walk ends at frames or at nothing.
LEMMA WalkType ==
  ASSUME NEW m, Sound(m), NEW p \in Page, NEW l \in 0..Levels
  PROVE  Walk(m, p, l) \in Frames \cup {-1}
<1>1. CASE l \in Level
  BY <1>1, TableAt
<1>2. CASE l = 0
  <2>1. 1 \in Level /\ 1 - 1 = 0
    BY LevelFacts
  <2>2. CASE Walk(m, p, 1) = -1
    BY <2>1, <2>2, WalkMissing, LevelFacts, <1>2
  <2>3. CASE Walk(m, p, 1) # -1
    <3>1. EntryAt(m, p, 1) \in Entry /\ Walk(m, p, 0) = Target(EntryAt(m, p, 1))
      BY <2>1, <2>3, TableAt
    <3>. QED BY <3>1, <1>2 DEF Entry, Target
  <2>. QED BY <2>2, <2>3
<1>. QED BY <1>1, <1>2, LevelFacts

\* An edit is seen by the walks of the pages below the entry alone.
LEMMA EditedElsewhere ==
  ASSUME NEW m, Sound(m), NEW n, NEW p \in Page, NEW l \in Level, NEW e,
         Walk(m, p, l) # -1, Edited(m, n, Walk(m, p, l), Offset(p, l), e),
         NEW q \in Page, NEW k \in Level,
         k # l \/ Prefix(q, l - 1) # Prefix(p, l - 1)
  PROVE  /\ Behind(n, Walk(m, q, k), Offset(q, k)) = Behind(m, Walk(m, q, k), Offset(q, k))
         /\ Walk(m, q, k) # -1 =>
              Cell(n, Walk(m, q, k), Offset(q, k)) = Cell(m, Walk(m, q, k), Offset(q, k))
<1>. DEFINE t == Walk(m, p, l)
            u == Walk(m, q, k)
<1>1. m.tables[t] \in [Indices -> Entry] /\ Offset(p, l) \in Indices
  BY TableAt
<1>2. ASSUME u # -1
      PROVE  Cell(n, u, Offset(q, k)) = Cell(m, u, Offset(q, k))
  <2>1. CASE u # t
    BY <1>2, <2>1 DEF Edited, Cell
  <2>2. CASE u = t
    <3>1. k = l /\ Prefix(q, l) = Prefix(p, l)
      BY <2>2, <1>2, LevelFacts DEF Sound, Separate
    <3>2. Offset(q, l) # Offset(p, l)
      BY <3>1, PrefixStep
    <3>3. Offset(q, l) \in Indices
      BY PrefixFacts
    <3>. QED BY <2>2, <3>1, <3>2, <3>3, <1>1 DEF Edited, Cell
  <2>. QED BY <2>1, <2>2
<1>. QED BY <1>2 DEF Behind

\* The entry that was edited.
LEMMA EditedThere ==
  ASSUME NEW m, Sound(m), NEW n, NEW p \in Page, NEW l \in Level, NEW e,
         Walk(m, p, l) # -1, Edited(m, n, Walk(m, p, l), Offset(p, l), e),
         NEW q \in Page, Prefix(q, l - 1) = Prefix(p, l - 1)
  PROVE  /\ Walk(m, q, l) = Walk(m, p, l)
         /\ Behind(n, Walk(m, q, l), Offset(q, l)) = Target(e)
         /\ Cell(n, Walk(m, q, l), Offset(q, l)) = e
<1>. DEFINE t == Walk(m, p, l)
<1>1. m.tables[t] \in [Indices -> Entry] /\ Offset(p, l) \in Indices
  BY TableAt
<1>2. Prefix(q, l) = Prefix(p, l) /\ Offset(q, l) = Offset(p, l)
  BY PrefixStep
<1>3. Walk(m, q, l) = t
  BY <1>2, WalkTogether, LevelFacts
<1>. QED BY <1>1, <1>2, <1>3 DEF Behind, Edited, Cell

\* The pages below one entry, and the levels below it.
Beneath(q, k, p, l) == k < l /\ Prefix(q, l - 1) = Prefix(p, l - 1)

\* An entry that keeps its frame keeps every walk.
LEMMA WalkTouched ==
  ASSUME NEW m, Sound(m), NEW n, NEW p \in Page, NEW l \in Level, NEW e,
         Walk(m, p, l) # -1, Edited(m, n, Walk(m, p, l), Offset(p, l), e),
         Walk(m, p, l - 1) = Target(e)
  PROVE  \A q \in Page : \A k \in 0..Levels : Walk(n, q, k) = Walk(m, q, k)
<1>1. ASSUME NEW q \in Page, NEW k \in Level
      PROVE  Walk(m, q, k - 1) = Behind(n, Walk(m, q, k), Offset(q, k))
  <2>1. Walk(m, q, k - 1) = Behind(m, Walk(m, q, k), Offset(q, k))
    BY WalkFacts
  <2>2. CASE k = l /\ Prefix(q, l - 1) = Prefix(p, l - 1)
    <3>1. Walk(m, q, l - 1) = Walk(m, p, l - 1)
      BY <2>2, WalkTogether, LevelFacts
    <3>0. Prefix(q, l - 1) = Prefix(p, l - 1)
      BY <2>2
    <3>2. Behind(n, Walk(m, q, l), Offset(q, l)) = Target(e)
      BY <3>0, EditedThere
    <3>. QED BY <2>2, <3>1, <3>2
  <2>3. CASE k # l \/ Prefix(q, l - 1) # Prefix(p, l - 1)
    BY <2>1, <2>3, EditedElsewhere
  <2>. QED BY <2>2, <2>3
<1>2. ASSUME NEW q \in Page
      PROVE  \A k \in 0..Levels : Walk(n, q, k) = Walk(m, q, k)
  <2>. DEFINE V == [k \in 0..Levels |-> Walk(m, q, k)]
  <2>1. V[Levels] = Root
    BY WalkFacts, LevelFacts
  <2>2. \A k \in Level : V[k - 1] = Behind(n, V[k], Offset(q, k))
    BY <1>1, LevelFacts
  <2>. HIDE DEF V
  <2>3. \A k \in 0..Levels : Walk(n, q, k) = V[k]
    BY <2>1, <2>2, WalkUnique
  <2>. QED BY <2>3 DEF V
<1>. QED BY <1>2

\* Clearing an entry cuts off everything below it.
LEMMA WalkCut ==
  ASSUME NEW m, Sound(m), NEW n, NEW p \in Page, NEW l \in Level, NEW e,
         Walk(m, p, l) # -1, Edited(m, n, Walk(m, p, l), Offset(p, l), e), Target(e) = -1
  PROVE  \A q \in Page : \A k \in 0..Levels :
           Walk(n, q, k) = IF Beneath(q, k, p, l) THEN -1 ELSE Walk(m, q, k)
<1>. DEFINE W(q, k) == IF Beneath(q, k, p, l) THEN -1 ELSE Walk(m, q, k)
<1>1. ASSUME NEW q \in Page, NEW k \in Level
      PROVE  W(q, k - 1) = Behind(n, W(q, k), Offset(q, k))
  <2>1. Walk(m, q, k - 1) = Behind(m, Walk(m, q, k), Offset(q, k))
    BY WalkFacts
  <2>2. CASE Prefix(q, l - 1) # Prefix(p, l - 1)
    BY <2>1, <2>2, EditedElsewhere DEF Beneath
  <2>3. CASE Prefix(q, l - 1) = Prefix(p, l - 1) /\ k = l
    <3>1. Beneath(q, k - 1, p, l) /\ ~Beneath(q, k, p, l)
      BY <2>3, LevelFacts DEF Beneath
    <3>0. Prefix(q, l - 1) = Prefix(p, l - 1)
      BY <2>3
    <3>2. Behind(n, Walk(m, q, l), Offset(q, l)) = Target(e)
      BY <3>0, EditedThere
    <3>. QED BY <2>3, <3>1, <3>2
  <2>4. CASE Prefix(q, l - 1) = Prefix(p, l - 1) /\ k < l
    <3>1. Beneath(q, k - 1, p, l) /\ Beneath(q, k, p, l)
      BY <2>4, LevelFacts DEF Beneath
    <3>. QED BY <3>1 DEF Behind
  <2>5. CASE Prefix(q, l - 1) = Prefix(p, l - 1) /\ k > l
    <3>1. ~Beneath(q, k - 1, p, l) /\ ~Beneath(q, k, p, l) /\ k # l
      BY <2>5, LevelFacts DEF Beneath
    <3>2. Behind(n, Walk(m, q, k), Offset(q, k)) = Behind(m, Walk(m, q, k), Offset(q, k))
      <4>. k # l
        BY <3>1
      <4>. QED BY EditedElsewhere
    <3>. QED BY <2>1, <3>1, <3>2
  <2>6. k = l \/ k < l \/ k > l
    BY LevelFacts
  <2>. QED BY <2>2, <2>3, <2>4, <2>5, <2>6
<1>2. ASSUME NEW q \in Page
      PROVE  \A k \in 0..Levels : Walk(n, q, k) = W(q, k)
  <2>. DEFINE V == [k \in 0..Levels |-> W(q, k)]
  <2>1. V[Levels] = Root
    BY WalkFacts, LevelFacts DEF Beneath, Level
  <2>2. \A k \in Level : V[k - 1] = Behind(n, V[k], Offset(q, k))
    <3>. HIDE DEF W
    <3>. QED BY <1>1, LevelFacts
  <2>. HIDE DEF V
  <2>3. \A k \in 0..Levels : Walk(n, q, k) = V[k]
    BY <2>1, <2>2, WalkUnique
  <2>. HIDE DEF W
  <2>. QED BY <2>3 DEF V
<1>. QED BY <1>2

Emptied(n, f) == n.tables[f] = EmptyTable

\* What the walks of n have behind them when the entry was cleared, and when it got f.
CutOff(m, n, p, l) ==
  \A q \in Page : \A k \in 0..Levels :
    Walk(n, q, k) = IF Beneath(q, k, p, l) THEN -1 ELSE Walk(m, q, k)
Linked(m, n, p, l, f) ==
  \A q \in Page : \A k \in 0..Levels :
    Walk(n, q, k) = IF Beneath(q, k, p, l) /\ k = l - 1 THEN f ELSE Walk(m, q, k)

\* A frame behind an absent entry is behind the pages below it, and nothing behind it.
LEMMA WalkLinked ==
  ASSUME NEW m, Sound(m), NEW n, NEW p \in Page, NEW l \in Level, NEW e,
         Walk(m, p, l) # -1, Edited(m, n, Walk(m, p, l), Offset(p, l), e), NEW f, Target(e) = f,
         Walk(m, p, l - 1) = -1, f # -1, l = 1 \/ Emptied(n, f)
  PROVE  \A q \in Page : \A k \in 0..Levels :
           Walk(n, q, k) = IF Beneath(q, k, p, l) /\ k = l - 1 THEN f ELSE Walk(m, q, k)
<1>. DEFINE W(q, k) == IF Beneath(q, k, p, l) /\ k = l - 1 THEN f ELSE Walk(m, q, k)
<1>0. ASSUME NEW q \in Page, NEW k \in 0..Levels, Beneath(q, k, p, l)
      PROVE  Walk(m, q, k) = -1
  <2>1. Walk(m, q, l - 1) = -1
    BY <1>0, WalkTogether, LevelFacts DEF Beneath
  <2>2. k \in 0..(l - 1)
    BY <1>0 DEF Beneath, Level
  <2>. QED BY <2>1, <2>2, WalkMissing, LevelFacts
<1>1. ASSUME NEW q \in Page, NEW k \in Level
      PROVE  W(q, k - 1) = Behind(n, W(q, k), Offset(q, k))
  <2>1. Walk(m, q, k - 1) = Behind(m, Walk(m, q, k), Offset(q, k))
    BY WalkFacts
  <2>2. CASE Prefix(q, l - 1) # Prefix(p, l - 1)
    BY <2>1, <2>2, EditedElsewhere DEF Beneath
  <2>3. CASE Prefix(q, l - 1) = Prefix(p, l - 1) /\ k = l
    <3>1. Beneath(q, k - 1, p, l) /\ ~Beneath(q, k, p, l)
      BY <2>3, LevelFacts DEF Beneath
    <3>0. Prefix(q, l - 1) = Prefix(p, l - 1)
      BY <2>3
    <3>2. Behind(n, Walk(m, q, l), Offset(q, l)) = Target(e)
      BY <3>0, EditedThere
    <3>. QED BY <2>3, <3>1, <3>2
  <2>4. CASE Prefix(q, l - 1) = Prefix(p, l - 1) /\ k < l
    <3>1. Beneath(q, k - 1, p, l) /\ Beneath(q, k, p, l) /\ k - 1 # l - 1 /\ k - 1 \in 0..Levels
      BY <2>4, LevelFacts DEF Beneath
    <3>2. W(q, k - 1) = -1
      BY <3>1, <1>0
    <3>3. CASE k = l - 1
      <4>1. Offset(q, k) \in Indices /\ l # 1
        BY <3>3, PrefixFacts, LevelFacts
      <4>. QED BY <3>1, <3>2, <3>3, <4>1 DEF Behind, Cell, Target, Emptied, EmptyTable, Blank
    <3>4. CASE k # l - 1
      BY <3>1, <3>2, <3>4, <1>0, LevelFacts DEF Behind
    <3>. QED BY <3>3, <3>4
  <2>5. CASE Prefix(q, l - 1) = Prefix(p, l - 1) /\ k > l
    <3>1. ~Beneath(q, k - 1, p, l) /\ ~Beneath(q, k, p, l) /\ k # l
      BY <2>5, LevelFacts DEF Beneath
    <3>2. Behind(n, Walk(m, q, k), Offset(q, k)) = Behind(m, Walk(m, q, k), Offset(q, k))
      <4>. k # l
        BY <3>1
      <4>. QED BY EditedElsewhere
    <3>. QED BY <2>1, <3>1, <3>2
  <2>6. k = l \/ k < l \/ k > l
    BY LevelFacts
  <2>. QED BY <2>2, <2>3, <2>4, <2>5, <2>6
<1>2. ASSUME NEW q \in Page
      PROVE  \A k \in 0..Levels : Walk(n, q, k) = W(q, k)
  <2>. DEFINE V == [k \in 0..Levels |-> W(q, k)]
  <2>1. V[Levels] = Root
    BY WalkFacts, LevelFacts DEF Beneath, Level
  <2>2. \A k \in Level : V[k - 1] = Behind(n, V[k], Offset(q, k))
    <3>. HIDE DEF W
    <3>. QED BY <1>1, LevelFacts
  <2>. HIDE DEF V
  <2>3. \A k \in 0..Levels : Walk(n, q, k) = V[k]
    BY <2>1, <2>2, WalkUnique
  <2>. HIDE DEF W
  <2>. QED BY <2>3 DEF V
<1>. QED BY <1>2

\* The entries that an edit leaves alone.
LEMMA EntryElsewhere ==
  ASSUME NEW m, Sound(m), NEW n, NEW p \in Page, NEW l \in Level, NEW e,
         Walk(m, p, l) # -1, Edited(m, n, Walk(m, p, l), Offset(p, l), e),
         NEW q \in Page, NEW k \in Level, k # l \/ Prefix(q, l - 1) # Prefix(p, l - 1),
         Walk(m, q, k) # -1, Walk(n, q, k) = Walk(m, q, k)
  PROVE  EntryAt(n, q, k) = EntryAt(m, q, k)
BY EditedElsewhere, SMTT(30) DEF EntryAt

\* The edited entry, on the walk of a page below it.
LEMMA EntryThere ==
  ASSUME NEW m, Sound(m), NEW n, NEW p \in Page, NEW l \in Level, NEW e,
         Walk(m, p, l) # -1, Edited(m, n, Walk(m, p, l), Offset(p, l), e),
         NEW q \in Page, Prefix(q, l - 1) = Prefix(p, l - 1),
         Walk(n, q, l) = Walk(m, q, l)
  PROVE  EntryAt(n, q, l) = e
BY EditedThere DEF EntryAt

\* An entry that leads where it led keeps a memory sound.
LEMMA SoundTouched ==
  ASSUME NEW m, Sound(m), NEW n, NEW p \in Page, NEW l \in Level, NEW e,
         Walk(m, p, l) # -1, Edited(m, n, Walk(m, p, l), Offset(p, l), e),
         Target(e) = Walk(m, p, l - 1), Target(e) # -1 => Kernels(e),
         l = 1 /\ Full(EntryAt(m, p, l)) => Full(e),
         IsMemory(n), DOMAIN m.tables \subseteq DOMAIN n.tables, m.taken \subseteq n.taken \cup {0}
  PROVE  Sound(n) /\ \A q \in Page : \A k \in 0..Levels : Walk(n, q, k) = Walk(m, q, k)
<1>1. \A q \in Page : \A k \in 0..Levels : Walk(n, q, k) = Walk(m, q, k)
  BY WalkTouched
<1>2. Reached(n)
  BY <1>1, LevelFacts DEF Sound, Reached
<1>3. Separate(n)
  BY <1>1 DEF Sound, Separate
<1>4. Counted(n)
  BY <1>1 DEF Sound, Counted
<1>5. ASSUME NEW q \in Page, NEW k \in Level, Walk(n, q, k - 1) # -1
      PROVE  Kernels(EntryAt(n, q, k))
  <2>1. Walk(n, q, k) = Walk(m, q, k) /\ Walk(n, q, k - 1) = Walk(m, q, k - 1)
    BY <1>1, LevelFacts
  <2>2. Walk(m, q, k) # -1
    BY <1>5, <2>1, WalkFacts DEF Behind
  <2>3. CASE k # l \/ Prefix(q, l - 1) # Prefix(p, l - 1)
    <3>1. EntryAt(n, q, k) = EntryAt(m, q, k)
      BY <2>1, <2>2, <2>3, EntryElsewhere
    <3>. QED BY <3>1, <2>1, <1>5 DEF Sound, Granted
  <2>4. CASE k = l /\ Prefix(q, l - 1) = Prefix(p, l - 1)
    <3>1. EntryAt(n, q, l) = e
      BY <2>1, <2>4, EntryThere
    <3>2. Walk(m, q, l - 1) = Walk(m, p, l - 1)
      BY <2>4, WalkTogether, LevelFacts
    <3>. QED BY <3>1, <3>2, <2>1, <2>4, <1>5
  <2>. QED BY <2>3, <2>4
<1>6. ASSUME NEW q \in Page, Windowed(q), Walk(n, q, 0) # -1
      PROVE  Full(EntryAt(n, q, 1))
  <2>0. 1 \in Level /\ 1 \in 0..Levels /\ 0 \in 0..Levels /\ 1 - 1 = 0
    BY LevelFacts
  <2>1. Walk(n, q, 1) = Walk(m, q, 1) /\ Walk(n, q, 0) = Walk(m, q, 0)
    BY <1>1, <2>0
  <2>2. Walk(m, q, 1) # -1
    BY <1>6, <2>0, <2>1, WalkFacts DEF Behind
  <2>3. Full(EntryAt(m, q, 1))
    BY <1>6, <2>1 DEF Sound, Noted
  <2>4. CASE 1 # l \/ Prefix(q, l - 1) # Prefix(p, l - 1)
    <3>1. EntryAt(n, q, 1) = EntryAt(m, q, 1)
      BY <2>0, <2>1, <2>2, <2>4, EntryElsewhere
    <3>. QED BY <3>1, <2>3
  <2>5. CASE l = 1 /\ Prefix(q, l - 1) = Prefix(p, l - 1)
    <3>1. p = q
      BY <2>5, PrefixFacts
    <3>2. EntryAt(n, q, l) = e
      BY <2>1, <2>5, EntryThere
    <3>. QED BY <3>1, <3>2, <2>3, <2>5
  <2>. QED BY <2>4, <2>5
<1>. QED BY <1>1, <1>2, <1>3, <1>4, <1>5, <1>6 DEF Sound, Granted, Noted

\* So does one that leads nowhere any more.
LEMMA SoundCut ==
  ASSUME NEW m, Sound(m), NEW n, NEW p \in Page, NEW l \in Level, NEW e,
         Walk(m, p, l) # -1, Edited(m, n, Walk(m, p, l), Offset(p, l), e), Target(e) = -1,
         IsMemory(n), DOMAIN m.tables \subseteq DOMAIN n.tables,
         m.taken \subseteq n.taken \cup {0, Walk(m, p, l - 1)}
  PROVE  Sound(n) /\ CutOff(m, n, p, l)
<1>1. \A q \in Page : \A k \in 0..Levels :
              Walk(n, q, k) = IF Beneath(q, k, p, l) THEN -1 ELSE Walk(m, q, k)
  BY WalkCut
<1>2. Reached(n)
  BY <1>1, LevelFacts DEF Sound, Reached
<1>3. Separate(n)
  BY <1>1 DEF Sound, Separate
<1>4. ASSUME NEW q \in Page, NEW k \in 0..Levels
      PROVE  Walk(n, q, k) \in n.taken \cup {0, -1}
  <2>1. CASE Beneath(q, k, p, l)
    BY <1>1, <2>1
  <2>2. CASE ~Beneath(q, k, p, l)
    <3>1. Walk(n, q, k) = Walk(m, q, k) /\ Walk(m, q, k) \in m.taken \cup {0, -1}
      BY <1>1, <2>2 DEF Sound, Counted
    <3>2. ASSUME Walk(m, q, k) # -1, Walk(m, q, k) = Walk(m, p, l - 1) PROVE FALSE
      <4>1. k = l - 1 /\ Prefix(q, k) = Prefix(p, l - 1)
        BY <3>2, LevelFacts DEF Sound, Separate
      <4>2. k < l
        BY <4>1, LevelFacts
      <4>. QED BY <4>1, <4>2, <2>2 DEF Beneath
    <3>. QED BY <3>1, <3>2
  <2>. QED BY <2>1, <2>2
<1>5. ASSUME NEW q \in Page, NEW k \in Level, Walk(n, q, k - 1) # -1
      PROVE  /\ EntryAt(n, q, k) = EntryAt(m, q, k)
             /\ Walk(m, q, k - 1) # -1
  <2>1. ~Beneath(q, k - 1, p, l) /\ Walk(n, q, k - 1) = Walk(m, q, k - 1)
    BY <1>1, <1>5, LevelFacts
  <2>2. Walk(m, q, k) # -1 /\ Walk(n, q, k) # -1
    BY <1>5, <2>1, WalkFacts DEF Behind
  <2>3. Walk(n, q, k) = Walk(m, q, k)
    BY <1>1, <2>2, LevelFacts
  <2>4. k # l \/ Prefix(q, l - 1) # Prefix(p, l - 1)
    BY <2>1, LevelFacts DEF Beneath
  <2>. QED BY <2>1, <2>2, <2>3, <2>4, <1>5, EntryElsewhere
<1>6. Granted(n)
  BY <1>5 DEF Sound, Granted
<1>7. ASSUME NEW q \in Page, Windowed(q), Walk(n, q, 0) # -1
      PROVE  Full(EntryAt(n, q, 1))
  <2>0. 1 \in Level /\ 1 - 1 = 0
    BY LevelFacts
  <2>1. EntryAt(n, q, 1) = EntryAt(m, q, 1) /\ Walk(m, q, 0) # -1
    BY <1>5, <1>7, <2>0
  <2>. QED BY <1>7, <2>1 DEF Sound, Noted
<1>. QED BY <1>1, <1>2, <1>3, <1>4, <1>6, <1>7 DEF Sound, Counted, Noted, CutOff

\* A frame that no walk passes.
Unused(m, f) == \A q \in Page : \A k \in 0..Levels : Walk(m, q, k) # f

\* So does one that leads to a frame no walk passed.
LEMMA SoundLinked ==
  ASSUME NEW m, Sound(m), NEW n, NEW p \in Page, NEW l \in Level, NEW e, NEW f,
         Walk(m, p, l) # -1, Edited(m, n, Walk(m, p, l), Offset(p, l), e), Target(e) = f,
         Walk(m, p, l - 1) = -1, f # -1, Kernels(e), Unused(m, f), f \in n.taken,
         l = 1 \/ (f \in DOMAIN n.tables /\ Emptied(n, f)),
         l = 1 /\ Windowed(p) => Full(e),
         IsMemory(n), DOMAIN m.tables \subseteq DOMAIN n.tables, m.taken \subseteq n.taken \cup {0}
  PROVE  Sound(n) /\ Linked(m, n, p, l, f)
<1>1. \A q \in Page : \A k \in 0..Levels :
              Walk(n, q, k) = IF Beneath(q, k, p, l) /\ k = l - 1 THEN f ELSE Walk(m, q, k)
  BY WalkLinked
<1>2. ASSUME NEW q \in Page, NEW k \in Level
      PROVE  Walk(n, q, k) \in DOMAIN n.tables \cup {-1}
  <2>1. Walk(m, q, k) \in DOMAIN m.tables \cup {-1}
    BY DEF Sound, Reached
  <2>2. k = l - 1 => l # 1
    BY LevelFacts
  <2>3. (Walk(n, q, k) = f /\ k = l - 1) \/ Walk(n, q, k) = Walk(m, q, k)
    BY <1>1, LevelFacts
  <2>. QED BY <2>1, <2>2, <2>3
<1>3. ASSUME NEW a \in Page, NEW b \in Page, NEW j \in 0..Levels, NEW k \in 0..Levels,
             Walk(n, a, j) # -1, Walk(n, a, j) = Walk(n, b, k)
      PROVE  j = k /\ Prefix(a, j) = Prefix(b, k)
  <2>1. CASE Beneath(a, j, p, l) /\ j = l - 1
    <3>1. Walk(n, a, j) = f
      BY <1>1, <2>1
    <3>2. Beneath(b, k, p, l) /\ k = l - 1
      BY <1>1, <1>3, <3>1 DEF Unused
    <3>3. Prefix(a, j) = Prefix(p, l - 1) /\ Prefix(b, k) = Prefix(p, l - 1)
      BY <2>1, <3>2 DEF Beneath
    <3>. QED BY <2>1, <3>2, <3>3
  <2>2. CASE ~(Beneath(a, j, p, l) /\ j = l - 1)
    <3>1. Walk(n, a, j) = Walk(m, a, j)
      BY <1>1, <2>2
    <3>2. Walk(n, b, k) = Walk(m, b, k)
      BY <1>1, <1>3, <3>1 DEF Unused
    <3>3. Walk(m, a, j) # -1 /\ Walk(m, a, j) = Walk(m, b, k) /\ Separate(m)
      BY <3>1, <3>2, <1>3 DEF Sound
    <3>. QED BY <3>3 DEF Separate
  <2>. QED BY <2>1, <2>2
<1>4. Counted(n)
  BY <1>1 DEF Sound, Counted
<1>5. ASSUME NEW q \in Page, NEW k \in Level, Walk(n, q, k - 1) # -1
      PROVE  \/ EntryAt(n, q, k) = EntryAt(m, q, k) /\ Walk(m, q, k - 1) # -1
             \/ EntryAt(n, q, k) = e /\ k = l /\ Prefix(q, l - 1) = Prefix(p, l - 1)
  <2>1. CASE k = l /\ Prefix(q, l - 1) = Prefix(p, l - 1)
    <3>1. ~(k = l - 1)
      BY <2>1, LevelFacts
    <3>2. Walk(n, q, l) = Walk(m, q, l)
      BY <1>1, <2>1, <3>1, LevelFacts
    <3>. QED BY <2>1, <3>2, EntryThere
  <2>2. CASE k # l \/ Prefix(q, l - 1) # Prefix(p, l - 1)
    <3>1. ~(Beneath(q, k - 1, p, l) /\ k - 1 = l - 1)
      BY <2>2, LevelFacts DEF Beneath
    <3>2. Walk(n, q, k - 1) = Walk(m, q, k - 1)
      BY <1>1, <3>1, LevelFacts
    <3>3. Walk(m, q, k) # -1
      BY <1>5, <3>2, WalkFacts DEF Behind
    <3>4. ~(Beneath(q, k, p, l) /\ k = l - 1)
      <4>. SUFFICES ASSUME Prefix(q, l - 1) = Prefix(p, l - 1), k = l - 1 PROVE FALSE
        BY DEF Beneath
      <4>1. Walk(m, q, l - 1) = Walk(m, p, l - 1)
        BY WalkTogether, LevelFacts
      <4>. QED BY <4>1, <3>3
    <3>5. Walk(n, q, k) = Walk(m, q, k)
      BY <1>1, <3>4, LevelFacts
    <3>6. EntryAt(n, q, k) = EntryAt(m, q, k)
      BY <2>2, <3>3, <3>5, EntryElsewhere
    <3>. QED BY <3>2, <3>6, <1>5
  <2>. QED BY <2>1, <2>2
<1>6. Granted(n)
  BY <1>5 DEF Sound, Granted
<1>7. ASSUME NEW q \in Page, Windowed(q), Walk(n, q, 0) # -1
      PROVE  Full(EntryAt(n, q, 1))
  <2>0. 1 \in Level /\ 1 - 1 = 0
    BY LevelFacts
  <2>1. CASE EntryAt(n, q, 1) = EntryAt(m, q, 1) /\ Walk(m, q, 0) # -1
    BY <1>7, <2>1 DEF Sound, Noted
  <2>2. CASE EntryAt(n, q, 1) = e /\ 1 = l /\ Prefix(q, l - 1) = Prefix(p, l - 1)
    <3>1. q = p
      BY <2>2, PrefixFacts
    <3>. QED BY <2>2, <3>1, <1>7
  <2>. QED BY <2>0, <2>1, <2>2, <1>5, <1>7
<1>. QED BY <1>1, <1>2, <1>3, <1>4, <1>6, <1>7 DEF Sound, Reached, Separate, Noted, Linked

-----------------------------------------------------------------------------
(* Frames *)

\* What the processor makes of a page of a sound memory.
Mapping(f) == IF f = -1 THEN Unmapped ELSE [frame |-> f, write |-> TRUE, user |-> FALSE]

\* What the processor makes of a page is what its walk ends at.
LEMMA TranslateFacts ==
  ASSUME NEW m, Sound(m), NEW p \in Page
  PROVE  Translate(m, p) = Mapping(Walk(m, p, 0))
<1>0. 1 \in Level /\ 1 - 1 = 0 /\ 0 \in 0..Levels /\ 1 \in 0..Levels
  BY LevelFacts
<1>1. Path(m, p)[1] = Walk(m, p, 1)
  BY DEF Walk
<1>2. Leaf(m, p) = EntryAt(m, p, 1)
  BY <1>1 DEF Leaf, EntryAt, Cell
<1>3. Walk(m, p, 0) = IF Walk(m, p, 1) = -1 THEN -1 ELSE Target(EntryAt(m, p, 1))
  BY <1>0, WalkFacts DEF Behind, EntryAt
<1>4. CASE Walk(m, p, 1) = -1
  BY <1>1, <1>3, <1>4 DEF Translate, Mapping
<1>5. CASE Walk(m, p, 1) # -1
  <2>. DEFINE E(l) == m.tables[Path(m, p)[l]][Offset(p, l)]
  <2>1. EntryAt(m, p, 1) \in Entry
    BY <1>0, <1>5, TableAt
  <2>2. CASE ~EntryAt(m, p, 1).present
    BY <1>1, <1>2, <1>3, <2>2 DEF Translate, Mapping, Target
  <2>3. CASE EntryAt(m, p, 1).present
    <3>1. Walk(m, p, 0) = EntryAt(m, p, 1).frame /\ Walk(m, p, 0) # -1
      BY <1>3, <1>5, <2>1, <2>3 DEF Target, Entry, Frames
    <3>2. ASSUME NEW l \in 1..Levels PROVE E(l).write = TRUE /\ E(l).user = FALSE
      <4>1. l \in Level /\ l > 0
        BY DEF Level
      <4>2. Walk(m, p, l - 1) # -1 /\ Walk(m, p, l) # -1
        <5>1. 0 \in 0..l /\ 0 \in 0..(l - 1) /\ l \in 0..Levels /\ l - 1 \in 0..Levels
          BY PageTablesAssumption
        <5>. QED BY <3>1, <5>1, WalkMissing
      <4>3. Kernels(EntryAt(m, p, l)) /\ EntryAt(m, p, l) \in Entry
        BY <4>1, <4>2, TableAt DEF Sound, Granted
      <4>4. E(l) = EntryAt(m, p, l)
        BY <4>1 DEF EntryAt, Cell, Walk
      <4>. QED BY <4>3, <4>4 DEF Kernels, Entry
    <3>. HIDE DEF E
    <3>3. (\A l \in 1..Levels : E(l).write) = TRUE
      BY <3>2
    <3>4. (\A l \in 1..Levels : E(l).user) = FALSE
      <4>1. 1 \in 1..Levels
        BY PageTablesAssumption
      <4>. QED BY <3>2, <4>1
    <3>5. Translate(m, p) = [frame |-> Leaf(m, p).frame, write |-> \A l \in 1..Levels : E(l).write,
                             user |-> \A l \in 1..Levels : E(l).user]
      BY <1>1, <1>2, <1>5, <2>3 DEF Translate, E
    <3>. QED BY <3>1, <3>3, <3>4, <3>5, <1>2 DEF Mapping
  <2>. QED BY <2>2, <2>3
<1>. QED BY <1>4, <1>5

\* Frames in use are taken, but for frame 0.
LEMMA InUseFacts ==
  ASSUME NEW m, Sound(m)
  PROVE  /\ InUse(m) \subseteq m.taken \cup {0, -1}
         /\ \A f : f \notin InUse(m) /\ f # -1 => Unused(m, f)
<1>1. \A p \in Page : \A l \in 1..Levels : Path(m, p)[l] = Walk(m, p, l)
  BY DEF Walk
<1>2. \A p \in Page : Translate(m, p).frame = Walk(m, p, 0)
  BY TranslateFacts DEF Mapping, Unmapped
<1>3. \A p \in Page : \A l \in 0..Levels : Walk(m, p, l) \in m.taken \cup {0, -1}
  BY DEF Sound, Counted
<1>4. ASSUME NEW f \in InUse(m) PROVE f \in m.taken \cup {0, -1}
  <2>1. CASE \E p \in Page : \E l \in 1..Levels : f = Path(m, p)[l]
    <3>1. PICK p \in Page, l \in 1..Levels : f = Path(m, p)[l]
      BY <2>1
    <3>2. l \in 0..Levels /\ f = Walk(m, p, l)
      BY <1>1, <3>1, PageTablesAssumption
    <3>. QED BY <1>3, <3>2
  <2>2. CASE \E p \in Page : f = Translate(m, p).frame
    BY <1>2, <1>3, <2>2, LevelFacts
  <2>. QED BY <1>4, <2>1, <2>2 DEF InUse
<1>5. ASSUME NEW f, f \notin InUse(m), f # -1, NEW q \in Page, NEW k \in 0..Levels
      PROVE  Walk(m, q, k) # f
  <2>1. CASE k = 0
    BY <1>2, <1>5, <2>1 DEF InUse
  <2>2. CASE k # 0
    <3>1. k \in 1..Levels
      BY <2>2
    <3>. QED BY <1>1, <1>5, <3>1 DEF InUse
  <2>. QED BY <2>1, <2>2
<1>. QED BY <1>4, <1>5 DEF Unused

\* The frame that the allocator takes next is free.
LEMMA NextFrameFacts ==
  ASSUME NEW m, IsMemory(m), ~NoFrame(m)
  PROVE  NextFrame(m) \in Frames /\ NextFrame(m) \notin m.taken /\ NextFrame(m) # -1
<1>1. Ahead(m) \in SUBSET Nat /\ Ahead(m) # {}
  BY DEF NoFrame, Ahead
<1>. DEFINE d == CHOOSE d \in Ahead(m) : \A e \in Ahead(m) : d <= e
<1>2. d \in Ahead(m)
  <2>1. \E x \in Ahead(m) : \A e \in Ahead(m) : x <= e
    BY <1>1, Least
  <2>. QED BY <2>1
<1>3. NextFrame(m) = (m.cursor + d) % FrameCount
  BY DEF NextFrame
<1>. HIDE DEF d
<1>4. m.cursor + d \in Nat
  BY <1>2 DEF Ahead, IsMemory, Frames
<1>5. (m.cursor + d) % FrameCount \in 0..(FrameCount - 1)
  <2>. DEFINE s == m.cursor + d
  <2>1. s \in Nat
    BY <1>4
  <2>. HIDE DEF s
  <2>2. (s % FrameCount) \in 0..(FrameCount - 1)
    BY <2>1, Division, PageTablesAssumption
  <2>. QED BY <2>2 DEF s
<1>6. (m.cursor + d) % FrameCount \notin m.taken
  BY <1>2 DEF Ahead
<1>. QED BY <1>3, <1>5, <1>6 DEF Frames

\* The same tables make the same walks.
LEMMA WalkSame ==
  ASSUME NEW m, NEW n, n.tables = m.tables
  PROVE  \A p : \A l \in 0..Levels : Walk(n, p, l) = Walk(m, p, l)
<1>1. \A t, i : Behind(n, t, i) = Behind(m, t, i)
  BY DEF Behind, Cell
<1>2. ASSUME NEW p PROVE \A l \in 0..Levels : Walk(n, p, l) = Walk(m, p, l)
  <2>. DEFINE V == [l \in 0..Levels |-> Walk(m, p, l)]
  <2>1. V[Levels] = Root
    BY WalkFacts, LevelFacts
  <2>2. \A l \in Level : V[l - 1] = Behind(n, V[l], Offset(p, l))
    BY <1>1, WalkFacts, LevelFacts
  <2>. HIDE DEF V
  <2>3. \A l \in 0..Levels : Walk(n, p, l) = V[l]
    BY <2>1, <2>2, WalkUnique
  <2>. QED BY <2>3 DEF V
<1>. QED BY <1>2

SameWalks(m, n) == \A q \in Page : \A k \in 0..Levels : Walk(n, q, k) = Walk(m, q, k)

\* Tables that stay the same stay sound.
LEMMA SoundSame ==
  ASSUME NEW m, Sound(m), NEW n, IsMemory(n), n.tables = m.tables, m.taken \subseteq n.taken \cup {0}
  PROVE  Sound(n) /\ SameWalks(m, n)
<1>1. \A p \in Page : \A l \in 0..Levels : Walk(n, p, l) = Walk(m, p, l)
  BY WalkSame
<1>2. \A p \in Page : \A l \in Level : EntryAt(n, p, l) = EntryAt(m, p, l)
  <2>1. \A t, i : Cell(n, t, i) = Cell(m, t, i)
    BY DEF Cell
  <2>. QED BY <1>1, <2>1, LevelFacts DEF EntryAt
<1>3. Reached(n)
  BY <1>1, LevelFacts DEF Sound, Reached
<1>4. Separate(n)
  BY <1>1 DEF Sound, Separate
<1>5. Counted(n)
  BY <1>1 DEF Sound, Counted
<1>6. Granted(n)
  BY <1>1, <1>2, LevelFacts DEF Sound, Granted
<1>7. Noted(n)
  BY <1>1, <1>2, LevelFacts DEF Sound, Noted
<1>. QED BY <1>1, <1>3, <1>4, <1>5, <1>6, <1>7 DEF Sound, SameWalks

\* What an allocator's step leaves alone.
LEMMA StopFacts ==
  ASSUME NEW m, IsMemory(m)
  PROVE  /\ IsMemory(Halt(m)) /\ Halt(m).tables = m.tables /\ Halt(m).taken = m.taken
         /\ Halt(m).kernel = "halted"
         /\ IsMemory(Corrupt(m)) /\ Corrupt(m).tables = m.tables /\ Corrupt(m).taken = m.taken
         /\ Corrupt(m).kernel = "corrupt"
BY DEF IsMemory, Halt, Corrupt

\* A kernel that stops leaves its tables as they are.
LEMMA StopSound ==
  ASSUME NEW m, Sound(m)
  PROVE  /\ Sound(Halt(m)) /\ SameWalks(m, Halt(m)) /\ Halt(m).kernel = "halted"
         /\ Sound(Corrupt(m)) /\ SameWalks(m, Corrupt(m)) /\ Corrupt(m).kernel = "corrupt"
<1>1. IsMemory(m)
  BY DEF Sound
<1>2. Sound(Halt(m)) /\ SameWalks(m, Halt(m))
  <2>. DEFINE n == Halt(m)
  <2>1. IsMemory(n) /\ n.tables = m.tables /\ m.taken \subseteq n.taken \cup {0}
    BY <1>1, StopFacts
  <2>. HIDE DEF n
  <2>2. Sound(n) /\ SameWalks(m, n)
    BY <2>1, SoundSame
  <2>. QED BY <2>2 DEF n
<1>3. Sound(Corrupt(m)) /\ SameWalks(m, Corrupt(m))
  <2>. DEFINE n == Corrupt(m)
  <2>1. IsMemory(n) /\ n.tables = m.tables /\ m.taken \subseteq n.taken \cup {0}
    BY <1>1, StopFacts
  <2>. HIDE DEF n
  <2>2. Sound(n) /\ SameWalks(m, n)
    BY <2>1, SoundSame
  <2>. QED BY <2>2 DEF n
<1>. QED BY <1>1, <1>2, <1>3, StopFacts

\* A frame more is taken.
FrameTaken(m, f, n) == n = [m EXCEPT !.taken = @ \cup {f}, !.cursor = f]
LEMMA TakenFacts ==
  ASSUME NEW m, IsMemory(m), NEW f \in Frames, NEW n, FrameTaken(m, f, n)
  PROVE  /\ IsMemory(n) /\ n.tables = m.tables /\ n.kernel = m.kernel /\ n.dirty = m.dirty
         /\ n.taken = m.taken \cup {f}
<1>1. n = [tables |-> m.tables, taken |-> m.taken \cup {f}, cursor |-> f, dirty |-> m.dirty,
           kernel |-> m.kernel]
  BY DEF IsMemory, FrameTaken
<1>2. n.tables = m.tables /\ n.kernel = m.kernel /\ n.dirty = m.dirty /\ n.cursor = f
      /\ n.taken = m.taken \cup {f}
  BY <1>1
<1>3. n = [tables |-> n.tables, taken |-> n.taken, cursor |-> n.cursor, dirty |-> n.dirty,
           kernel |-> n.kernel]
  BY <1>1, <1>2
<1>. QED BY <1>2, <1>3 DEF IsMemory

\* The frame taken was free and behind nothing, or the kernel is corrupt.
LEMMA TakeFrameFacts ==
  ASSUME NEW m, Sound(m), ~NoFrame(m)
  PROVE  /\ Sound(TakeFrame(m)) /\ SameWalks(m, TakeFrame(m))
         /\ TakeFrame(m).tables = m.tables /\ TakeFrame(m).dirty = m.dirty
         /\ \/ TakeFrame(m).kernel = "corrupt"
            \/ /\ TakeFrame(m).kernel = m.kernel /\ Unused(m, NextFrame(m))
               /\ TakeFrame(m).taken = m.taken \cup {NextFrame(m)}
<1>0. IsMemory(m)
  BY DEF Sound
<1>1. NextFrame(m) \in Frames /\ NextFrame(m) # -1
  BY <1>0, NextFrameFacts
<1>2. CASE NextFrame(m) \in InUse(m)
  <2>1. TakeFrame(m) = Corrupt(m)
    BY <1>2 DEF TakeFrame
  <2>2. Corrupt(m).dirty = m.dirty /\ Corrupt(m).tables = m.tables
    BY <1>0 DEF IsMemory, Corrupt
  <2>. QED BY <2>1, <2>2, StopSound
<1>3. CASE NextFrame(m) \notin InUse(m)
  <2>1. PICK f : f = NextFrame(m)
    OBVIOUS
  <2>2. f \in Frames
    BY <1>1, <2>1
  <2>3. FrameTaken(m, f, TakeFrame(m))
    BY <1>3, <2>1 DEF TakeFrame, FrameTaken
  <2>4. PICK n : n = TakeFrame(m)
    OBVIOUS
  <2>5. /\ IsMemory(n) /\ n.tables = m.tables /\ n.kernel = m.kernel /\ n.dirty = m.dirty
        /\ n.taken = m.taken \cup {f}
    BY <1>0, <2>2, <2>3, <2>4, TakenFacts
  <2>6. Sound(n) /\ SameWalks(m, n)
    BY <2>5, SoundSame
  <2>7. Unused(m, NextFrame(m))
    BY <1>1, <1>3, InUseFacts
  <2>. QED BY <2>1, <2>4, <2>5, <2>6, <2>7
<1>. QED BY <1>2, <1>3

-----------------------------------------------------------------------------
(* Edits *)

\* What an entry does not hold.
SameRest(m, n) ==
  n.taken = m.taken /\ n.kernel = m.kernel /\ n.dirty = m.dirty /\ DOMAIN n.tables = DOMAIN m.tables

Replaced(m, n, t, i, e) ==
  /\ n.tables[t] = [m.tables[t] EXCEPT ![i] = e]
  /\ \A u \in DOMAIN m.tables : u # t => n.tables[u] = m.tables[u]

\* An entry of a table is replaced.
LEMMA SetEntryFacts ==
  ASSUME NEW m, IsMemory(m), NEW t \in DOMAIN m.tables, NEW i \in Indices, NEW e \in Entry,
         NEW n, n = SetEntry(m, t, i, e)
  PROVE  IsMemory(n) /\ SameRest(m, n) /\ Replaced(m, n, t, i, e)
<1>. DEFINE table == [m.tables[t] EXCEPT ![i] = e]
            T == [m.tables EXCEPT ![t] = table]
<1>0. m.tables[t] \in [Indices -> Entry]
  BY DEF IsMemory, IsTable
<1>1. table \in [Indices -> Entry]
  BY <1>0
<1>2. n = [tables |-> T, taken |-> m.taken, cursor |-> m.cursor, dirty |-> m.dirty,
           kernel |-> m.kernel]
  BY DEF SetEntry, IsMemory
<1>3. DOMAIN T = DOMAIN m.tables /\ T[t] = table /\ \A u \in DOMAIN m.tables : u # t => T[u] = m.tables[u]
  OBVIOUS
<1>. HIDE DEF table, T
<1>5. n.tables = T /\ n.taken = m.taken /\ n.cursor = m.cursor /\ n.dirty = m.dirty
      /\ n.kernel = m.kernel
  BY <1>2
<1>6. n = [tables |-> n.tables, taken |-> n.taken, cursor |-> n.cursor, dirty |-> n.dirty,
           kernel |-> n.kernel]
  BY <1>2, <1>5
<1>7. \A u \in DOMAIN T : IsTable(T[u])
  BY <1>1, <1>3 DEF IsMemory, IsTable
<1>8. IsMemory(n)
  BY <1>3, <1>5, <1>6, <1>7 DEF IsMemory
<1>9. SameRest(m, n)
  BY <1>3, <1>5 DEF SameRest
<1>. QED BY <1>3, <1>5, <1>8, <1>9 DEF table, Replaced

\* For the walks that is an edit.
LEMMA ReplacedEdited ==
  ASSUME NEW m, Sound(m), NEW n, NEW t, NEW i, NEW e, Replaced(m, n, t, i, e)
  PROVE  Edited(m, n, t, i, e)
<1>1. \A q \in Page : \A k \in Level : Walk(m, q, k) # -1 => Walk(m, q, k) \in DOMAIN m.tables
  BY TableAt
<1>. QED BY <1>1 DEF Replaced, Edited

\* An entry replaced twice.
LEMMA ReplacedTwice ==
  ASSUME NEW m, NEW n, NEW r, NEW t \in DOMAIN m.tables, NEW i \in Indices, NEW e, NEW g,
         IsTable(m.tables[t]), DOMAIN n.tables = DOMAIN m.tables,
         Replaced(m, n, t, i, e), Replaced(n, r, t, i, g)
  PROVE  Cell(n, t, i) = e /\ Replaced(m, r, t, i, g)
BY DEF Replaced, IsTable, Cell

\* An entry put behind the walk of a page.
LEMMA PutFacts ==
  ASSUME NEW m, Sound(m), NEW p \in Page, NEW l \in Level, Walk(m, p, l) # -1,
         NEW e \in Entry, NEW n, n = SetEntry(m, Walk(m, p, l), Offset(p, l), e)
  PROVE  IsMemory(n) /\ SameRest(m, n) /\ Edited(m, n, Walk(m, p, l), Offset(p, l), e)
<1>. DEFINE t == Walk(m, p, l)
            i == Offset(p, l)
<1>1. t \in DOMAIN m.tables /\ i \in Indices
  BY TableAt
<1>2. IsMemory(m)
  BY DEF Sound
<1>3. n = SetEntry(m, t, i, e)
  OBVIOUS
<1>. HIDE DEF t, i
<1>4. IsMemory(n) /\ SameRest(m, n) /\ Replaced(m, n, t, i, e)
  BY <1>1, <1>2, <1>3, SetEntryFacts
<1>5. Edited(m, n, t, i, e)
  BY <1>4, ReplacedEdited
<1>. QED BY <1>4, <1>5 DEF t, i

Attached(x, n, f) == n = [x EXCEPT !.tables = With(@, f, EmptyTable)]

\* The same, with an empty table put into a frame that no walk passes.
LEMMA AttachFacts ==
  ASSUME NEW m, Sound(m), NEW p \in Page, NEW l \in Level, Walk(m, p, l) # -1,
         NEW e \in Entry, NEW f \in Frames, Unused(m, f), NEW x, NEW n,
         x = SetEntry(m, Walk(m, p, l), Offset(p, l), e), Attached(x, n, f)
  PROVE  /\ IsMemory(n) /\ Edited(m, n, Walk(m, p, l), Offset(p, l), e)
         /\ Emptied(n, f) /\ f \in DOMAIN n.tables /\ DOMAIN m.tables \subseteq DOMAIN n.tables
         /\ n.taken = m.taken /\ n.kernel = m.kernel /\ n.dirty = m.dirty
<1>. DEFINE t == Walk(m, p, l)
            i == Offset(p, l)
<1>1. x = SetEntry(m, t, i, e)
  OBVIOUS
<1>2. IsMemory(x) /\ SameRest(m, x) /\ Edited(m, x, t, i, e)
  BY <1>1, PutFacts
<1>3. n = [x EXCEPT !.tables = With(@, f, EmptyTable)]
  BY DEF Attached
<1>4. PICK T : T = With(x.tables, f, EmptyTable)
  OBVIOUS
<1>5. /\ DOMAIN T = DOMAIN x.tables \cup {f} /\ T[f] = EmptyTable
      /\ \A u \in DOMAIN x.tables : u # f => T[u] = x.tables[u]
  BY <1>4 DEF With
<1>6. t # f /\ t \in DOMAIN m.tables
  BY TableAt, LevelFacts DEF Unused
<1>7. \A q \in Page : \A k \in Level :
        Walk(m, q, k) # -1 => Walk(m, q, k) \in DOMAIN m.tables /\ Walk(m, q, k) # f
  BY TableAt, LevelFacts DEF Unused
<1>8. EmptyTable \in [Indices -> Entry]
  BY PageTablesAssumption DEF EmptyTable, Blank, Entry, Frames
<1>. HIDE DEF t, i
<1>9. n = [tables |-> T, taken |-> x.taken, cursor |-> x.cursor, dirty |-> x.dirty,
           kernel |-> x.kernel]
  BY <1>2, <1>3, <1>4 DEF IsMemory
<1>10. n.tables = T /\ n.taken = x.taken /\ n.cursor = x.cursor /\ n.dirty = x.dirty
       /\ n.kernel = x.kernel
  BY <1>9
<1>11. n = [tables |-> n.tables, taken |-> n.taken, cursor |-> n.cursor, dirty |-> n.dirty,
            kernel |-> n.kernel]
  BY <1>9, <1>10
<1>12. \A u \in DOMAIN T : IsTable(T[u])
  BY <1>2, <1>5, <1>8 DEF IsMemory, IsTable
<1>13. IsMemory(n)
  BY <1>2, <1>5, <1>10, <1>11, <1>12 DEF IsMemory
<1>14. DOMAIN m.tables = DOMAIN x.tables /\ x.taken = m.taken /\ x.kernel = m.kernel /\ x.dirty = m.dirty
  BY <1>2 DEF SameRest
<1>15. n.tables[t] = x.tables[t]
  BY <1>5, <1>6, <1>10, <1>14
<1>16. \A q \in Page : \A k \in Level :
         Walk(m, q, k) # -1 => n.tables[Walk(m, q, k)] = x.tables[Walk(m, q, k)]
  BY <1>5, <1>7, <1>10, <1>14
<1>17. Edited(m, n, t, i, e)
  BY <1>2, <1>15, <1>16 DEF Edited
<1>. QED BY <1>5, <1>10, <1>13, <1>14, <1>17 DEF t, i, Emptied

\* A frame goes back to the allocator.
LEMMA GiveFacts ==
  ASSUME NEW m, IsMemory(m), NEW f \in Frames, NEW n, n = GiveFrame(m, f)
  PROVE  /\ IsMemory(n) /\ n.tables = m.tables /\ n.kernel = m.kernel
         /\ n.taken = m.taken \ {f} /\ n.dirty = m.dirty \cup {f}
<1>1. n = [tables |-> m.tables, taken |-> m.taken \ {f}, cursor |-> m.cursor,
           dirty |-> m.dirty \cup {f}, kernel |-> m.kernel]
  BY DEF IsMemory, GiveFrame
<1>2. /\ n.tables = m.tables /\ n.kernel = m.kernel /\ n.cursor = m.cursor
      /\ n.taken = m.taken \ {f} /\ n.dirty = m.dirty \cup {f}
  BY <1>1
<1>3. n = [tables |-> n.tables, taken |-> n.taken, cursor |-> n.cursor, dirty |-> n.dirty,
           kernel |-> n.kernel]
  BY <1>1, <1>2
<1>. QED BY <1>2, <1>3 DEF IsMemory

\* Frame 0 goes back: nothing is lost.
LEMMA GiveZero ==
  ASSUME NEW m, Sound(m)
  PROVE  Sound(GiveFrame(m, 0)) /\ SameWalks(m, GiveFrame(m, 0)) /\ GiveFrame(m, 0).kernel = m.kernel
         /\ GiveFrame(m, 0).tables = m.tables
<1>1. PICK n : n = GiveFrame(m, 0)
  OBVIOUS
<1>2. 0 \in Frames /\ IsMemory(m)
  BY PageTablesAssumption DEF Frames, Sound
<1>3. IsMemory(n) /\ n.tables = m.tables /\ n.kernel = m.kernel /\ n.taken = m.taken \ {0}
  BY <1>1, <1>2, GiveFacts
<1>4. m.taken \subseteq n.taken \cup {0}
  BY <1>3
<1>5. Sound(n) /\ SameWalks(m, n)
  BY <1>3, <1>4, SoundSame
<1>. QED BY <1>1, <1>3, <1>5

\* An entry of a walk keeps what is behind it.
LEMMA PutTouched ==
  ASSUME NEW m, Sound(m), NEW p \in Page, NEW l \in Level, Walk(m, p, l) # -1, NEW e \in Entry,
         Target(e) = Walk(m, p, l - 1), Target(e) # -1 => Kernels(e),
         l = 1 /\ Full(EntryAt(m, p, l)) => Full(e),
         NEW n, n = SetEntry(m, Walk(m, p, l), Offset(p, l), e)
  PROVE  Sound(n) /\ SameWalks(m, n) /\ SameRest(m, n)
<1>1. IsMemory(n) /\ SameRest(m, n) /\ Edited(m, n, Walk(m, p, l), Offset(p, l), e)
  BY PutFacts
<1>2. DOMAIN m.tables \subseteq DOMAIN n.tables /\ m.taken \subseteq n.taken \cup {0}
  BY <1>1 DEF SameRest
<1>3. Sound(n) /\ \A q \in Page : \A k \in 0..Levels : Walk(n, q, k) = Walk(m, q, k)
  BY <1>1, <1>2, SoundTouched
<1>. QED BY <1>1, <1>3 DEF SameWalks

\* An entry of a walk is cleared.
LEMMA PutCut ==
  ASSUME NEW m, Sound(m), NEW p \in Page, NEW l \in Level, Walk(m, p, l) # -1, NEW e \in Entry,
         Target(e) = -1, NEW n, n = SetEntry(m, Walk(m, p, l), Offset(p, l), e)
  PROVE  Sound(n) /\ SameRest(m, n) /\ CutOff(m, n, p, l)
<1>1. IsMemory(n) /\ SameRest(m, n) /\ Edited(m, n, Walk(m, p, l), Offset(p, l), e)
  BY PutFacts
<1>2. DOMAIN m.tables \subseteq DOMAIN n.tables /\ m.taken \subseteq n.taken \cup {0, Walk(m, p, l - 1)}
  BY <1>1 DEF SameRest
<1>. QED BY <1>1, <1>2, SoundCut

\* Walks stay the same over two steps.
LEMMA SameWalksTrans ==
  ASSUME NEW a, NEW b, NEW c, SameWalks(a, b), SameWalks(b, c)
  PROVE  SameWalks(a, c)
BY DEF SameWalks

-----------------------------------------------------------------------------
(* AllocPage *)

\* A table is put behind an absent entry: the pages below it stay unmapped.
LEMMA PopulateAbove ==
  ASSUME NEW m, Sound(m), NEW p \in Page, NEW l \in Level, l # 1, Walk(m, p, l) # -1,
         Walk(m, p, l - 1) = -1, ~NoFrame(m),
         NEW n, n = Populate(m, Walk(m, p, l), Offset(p, l), l)
  PROVE  /\ Sound(n)
         /\ \A q \in Page : \A k \in 0..Levels : k = 0 \/ k >= l => Walk(n, q, k) = Walk(m, q, k)
         /\ n.kernel = "running" => Walk(n, p, l - 1) # -1
<1>. DEFINE t == Walk(m, p, l)
            i == Offset(p, l)
            f == NextFrame(m)
<1>1. PICK a : a = TakeFrame(m)
  OBVIOUS
<1>2. IsMemory(m)
  BY DEF Sound
<1>3. f \in Frames /\ f # -1
  BY <1>2, NextFrameFacts
<1>4. /\ Sound(a) /\ SameWalks(m, a)
      /\ \/ a.kernel = "corrupt"
         \/ /\ a.kernel = m.kernel /\ Unused(m, f)
            /\ a.taken = m.taken \cup {f}
  BY <1>1, TakeFrameFacts
<1>5. CASE a.kernel # "running"
  <2>1. n = a
    BY <1>1, <1>5 DEF Populate
  <2>. QED BY <1>4, <1>5, <2>1 DEF SameWalks
<1>6. CASE a.kernel = "running" /\ f \in m.dirty
  <2>1. n = Corrupt(m)
    BY <1>1, <1>6 DEF Populate
  <2>. QED BY <2>1, StopSound DEF SameWalks
<1>7. CASE a.kernel = "running" /\ f \notin m.dirty
  <2>1. PICK e : e = [Blank EXCEPT !.present = TRUE, !.frame = f, !.write = TRUE]
    OBVIOUS
  <2>2. e \in Entry /\ Target(e) = f /\ Kernels(e)
    BY <1>3, <2>1 DEF Blank, Entry, Target, Kernels
  <2>0. PICK x : x = SetEntry(a, t, i, e)
    OBVIOUS
  <2>3. Attached(x, n, f)
    BY <1>1, <1>7, <2>0, <2>1 DEF Populate, Attached
  <2>4. Walk(a, p, l) = t /\ Walk(a, p, l - 1) = -1 /\ t # -1
    BY <1>4, LevelFacts DEF SameWalks
  <2>5. Unused(m, f) /\ a.taken = m.taken \cup {f}
    BY <1>4, <1>7
  <2>6. Unused(a, f)
    BY <1>4, <2>5 DEF Unused, SameWalks
  <2>. HIDE DEF f, t, i
  <2>7. x = SetEntry(a, Walk(a, p, l), Offset(p, l), e)
    BY <2>0, <2>4 DEF i
  <2>8. /\ IsMemory(n) /\ Edited(a, n, Walk(a, p, l), Offset(p, l), e)
        /\ Emptied(n, f) /\ f \in DOMAIN n.tables /\ DOMAIN a.tables \subseteq DOMAIN n.tables
        /\ n.taken = a.taken
    <3>1. Sound(a) /\ Walk(a, p, l) # -1 /\ e \in Entry /\ f \in Frames
      BY <1>3, <1>4, <2>2, <2>4
    <3>. QED BY <3>1, <2>3, <2>6, <2>7, AttachFacts
  <2>9. a.taken \subseteq n.taken \cup {0} /\ f \in n.taken
    BY <2>5, <2>8
  <2>10. Sound(n) /\ Linked(a, n, p, l, f)
    <3>1. Sound(a) /\ Walk(a, p, l) # -1 /\ Walk(a, p, l - 1) = -1 /\ Target(e) = f /\ f # -1
      BY <1>3, <1>4, <2>2, <2>4
    <3>2. Kernels(e) /\ (f \in DOMAIN n.tables /\ Emptied(n, f))
      BY <2>2, <2>8
    <3>. QED BY <3>1, <3>2, <2>6, <2>8, <2>9, SoundLinked
  <2>11. Walk(n, p, l - 1) = f
    BY <2>10, LevelFacts DEF Beneath, Linked
  <2>12. \A k \in 0..Levels : k = 0 \/ k >= l => k # l - 1
    BY LevelFacts
  <2>. QED BY <1>3, <1>4, <2>10, <2>11, <2>12 DEF SameWalks, Linked
<1>. QED BY <1>5, <1>6, <1>7

\* A frame is put behind a page, and the page is noted as full.
LEMMA PopulateLeaf ==
  ASSUME NEW m, Sound(m), NEW p \in Page, Walk(m, p, 1) # -1, Walk(m, p, 0) = -1, ~NoFrame(m),
         m.kernel = "running", NEW n, n = Populate(m, Walk(m, p, 1), Offset(p, 1), 1),
         NEW r, r = SetEntry(n, Walk(m, p, 1), Offset(p, 1),
                             [n.tables[Walk(m, p, 1)][Offset(p, 1)] EXCEPT !.full = TRUE])
  PROVE  /\ n.kernel # "running" => Sound(n) /\ SameWalks(m, n)
         /\ n.kernel = "running" =>
              /\ Sound(r) /\ r.kernel = "running" /\ Walk(r, p, 0) # -1
              /\ \A q \in Page : \A k \in 0..Levels :
                   k # 0 \/ q # p => Walk(r, q, k) = Walk(m, q, k)
<1>. DEFINE t == Walk(m, p, 1)
            i == Offset(p, 1)
            f == NextFrame(m)
<1>0. 1 \in Level /\ 1 - 1 = 0 /\ 0 \in 0..Levels /\ 1 \in 0..Levels
  BY LevelFacts
<1>1. PICK a : a = TakeFrame(m)
  OBVIOUS
<1>2. IsMemory(m)
  BY DEF Sound
<1>3. f \in Frames /\ f # -1
  BY <1>2, NextFrameFacts
<1>4. /\ Sound(a) /\ SameWalks(m, a)
      /\ \/ a.kernel = "corrupt"
         \/ /\ a.kernel = m.kernel /\ Unused(m, f)
            /\ a.taken = m.taken \cup {f}
  BY <1>1, TakeFrameFacts
<1>5. CASE a.kernel # "running"
  <2>1. n = a
    BY <1>1, <1>5 DEF Populate
  <2>. QED BY <1>4, <1>5, <2>1
<1>6. CASE a.kernel = "running"
  <2>1. PICK e : e = [Blank EXCEPT !.present = TRUE, !.frame = f, !.write = TRUE]
    OBVIOUS
  <2>2. e \in Entry
    BY <1>3, <2>1 DEF Blank, Entry
  <2>3. n = SetEntry(a, t, i, e)
    BY <1>1, <1>6, <2>1 DEF Populate
  <2>4. Walk(a, p, 1) = t /\ Walk(a, p, 0) = -1 /\ t # -1
    BY <1>0, <1>4 DEF SameWalks
  <2>5. Unused(m, f) /\ a.taken = m.taken \cup {f}
    BY <1>4, <1>6
  <2>6. Unused(a, f)
    BY <1>4, <2>5 DEF Unused, SameWalks
  <2>7. t \in DOMAIN a.tables /\ i \in Indices /\ IsMemory(a) /\ a.tables[t] \in [Indices -> Entry]
    BY <1>0, <1>4, <2>4, TableAt DEF Sound
  <2>. HIDE DEF f, t, i
  <2>8. IsMemory(n) /\ SameRest(a, n) /\ Replaced(a, n, t, i, e)
    BY <2>2, <2>3, <2>7, SetEntryFacts
  <2>10. PICK g : g = [n.tables[t][i] EXCEPT !.full = TRUE]
    OBVIOUS
  <2>12. r = SetEntry(n, t, i, g)
    BY <2>10 DEF t, i
  <2>13. t \in DOMAIN n.tables /\ DOMAIN n.tables = DOMAIN a.tables /\ IsTable(a.tables[t])
    BY <2>7, <2>8 DEF SameRest, IsTable
  <2>9. n.tables[t][i] = e
    BY <2>7, <2>8 DEF Replaced
  <2>27. g = [e EXCEPT !.full = TRUE]
    BY <2>9, <2>10
  <2>11. g \in Entry /\ Target(g) = f /\ Kernels(g) /\ Full(g)
    BY <1>3, <2>1, <2>27 DEF Blank, Entry, Target, Kernels, Full
  <2>14. IsMemory(r) /\ SameRest(n, r) /\ Replaced(n, r, t, i, g)
    <3>1. IsMemory(n) /\ i \in Indices /\ g \in Entry
      BY <2>7, <2>8, <2>11
    <3>. QED BY <3>1, <2>12, <2>13, SetEntryFacts
  <2>15. Replaced(a, r, t, i, g)
    BY <2>7, <2>8, <2>13, <2>14, ReplacedTwice
  <2>16. /\ DOMAIN r.tables = DOMAIN a.tables /\ r.taken = a.taken /\ r.kernel = a.kernel
         /\ n.kernel = a.kernel
    BY <2>8, <2>14 DEF SameRest
  <2>19. Edited(a, r, t, i, g)
    BY <1>4, <2>15, ReplacedEdited
  <2>17. PICK l : l = 1
    OBVIOUS
  <2>18. l \in Level /\ l - 1 = 0
    BY <1>0, <2>17
  <2>20. Edited(a, r, Walk(a, p, l), Offset(p, l), g)
    BY <2>4, <2>17, <2>19 DEF i
  <2>21. a.taken \subseteq r.taken \cup {0} /\ f \in r.taken /\ DOMAIN a.tables \subseteq DOMAIN r.tables
    BY <2>5, <2>16
  <2>22. Walk(a, p, l) # -1 /\ Walk(a, p, l - 1) = -1
    BY <2>4, <2>17, <2>18
  <2>23. Sound(r) /\ Linked(a, r, p, l, f)
    <3>1. Sound(a) /\ IsMemory(r) /\ l \in Level /\ f # -1
      BY <1>3, <1>4, <2>14, <2>18
    <3>2. l = 1 \/ (f \in DOMAIN r.tables /\ Emptied(r, f))
      BY <2>17
    <3>. QED BY <3>1, <3>2, <2>6, <2>11, <2>20, <2>21, <2>22, SoundLinked
  <2>24. \A q \in Page : \A k \in 0..Levels : Beneath(q, k, p, l) /\ k = l - 1 <=> k = 0 /\ q = p
    BY <1>0, <2>17, <2>18, PrefixFacts DEF Beneath
  <2>25. Walk(r, p, 0) = f
    BY <1>0, <2>23, <2>24 DEF Linked
  <2>26. \A q \in Page : \A k \in 0..Levels : k # 0 \/ q # p => Walk(r, q, k) = Walk(m, q, k)
    BY <1>4, <2>23, <2>24, ZenonT(60) DEF SameWalks, Linked
  <2>. QED BY <1>3, <1>6, <2>16, <2>23, <2>25, <2>26
<1>. QED BY <1>5, <1>6

\* The first of a set of numbers is its least.
LEMMA FirstFacts ==
  ASSUME NEW S \in SUBSET Nat, S # {}
  PROVE  First(S) \in S /\ \A j \in S : First(S) <= j
<1>1. \E x \in S : \A j \in S : x <= j
  BY Least
<1>. QED BY <1>1 DEF First

KeepsLeaves(m, n) == \A q \in Page : Walk(n, q, 0) = Walk(m, q, 0)
KeepsAbove(m, n, l) == \A q \in Page : \A k \in 0..Levels : k >= l => Walk(n, q, k) = Walk(m, q, k)

\* A record of malloc_traverse, and the page it has come to at a level.
IsWalk(w) ==
  w = [mem |-> w.mem, table |-> w.table, index |-> w.index, page |-> w.page, going |-> w.going]
  /\ w.going \in BOOLEAN
Stands(w, window, l) ==
  /\ w.mem.kernel = "running" /\ w.page \in Page /\ IsFirst(w.page, l)
  /\ Walk(w.mem, w.page, l) = w.table /\ w.table # -1
  /\ l # Levels => Offset(w.page, Levels) \in window

\* The indices searched at a level.
Searched(window, l) == IF l = Levels THEN window ELSE Indices

\* The entry it takes, for the first page below it.
Passed(m, p, l, t, i) == p \in Page /\ t # -1 /\ Walk(m, p, l) = t /\ Offset(p, l) = i

\* Where malloc_traverse comes to when it takes an entry.
LEMMA StepFacts ==
  ASSUME NEW w, Sound(w.mem), NEW window \in SUBSET Indices, NEW l \in Level,
         Stands(w, window, l), NEW i \in Searched(window, l),
         NEW q, q = w.page + (i * Width[l - 1])
  PROVE  /\ i \in Indices /\ q \in Page /\ IsFirst(q, l - 1)
         /\ Walk(w.mem, q, l) = w.table /\ Offset(q, l) = i /\ Offset(q, Levels) \in window
         /\ Walk(w.mem, q, l - 1) = Target(Cell(w.mem, w.table, i))
<1>1. i \in Indices
  BY DEF Searched
<1>2. w.page \in Page /\ IsFirst(w.page, l)
  BY DEF Stands
<1>3. q \in Page /\ IsFirst(q, l - 1) /\ Prefix(q, l) = Prefix(w.page, l) /\ Offset(q, l) = i
  BY <1>1, <1>2, Neighbour
<1>4. \A k \in l..Levels : Walk(w.mem, q, k) = Walk(w.mem, w.page, k) /\ Prefix(q, k) = Prefix(w.page, k)
  <2>1. l \in 0..Levels /\ Prefix(q, l) = Prefix(w.page, l)
    BY <1>3, LevelFacts
  <2>2. PICK m : m = w.mem
    OBVIOUS
  <2>3. PICK p : p = w.page
    OBVIOUS
  <2>4. \A k \in l..Levels : Walk(m, q, k) = Walk(m, p, k) /\ Prefix(q, k) = Prefix(p, k)
    BY <1>2, <1>3, <2>1, <2>3, WalkTogether
  <2>. QED BY <2>2, <2>3, <2>4
<1>5. l \in l..Levels
  BY DEF Level
<1>6. Walk(w.mem, q, l) = w.table
  BY <1>4, <1>5 DEF Stands
<1>7. Offset(q, Levels) \in window
  <2>1. CASE l = Levels
    BY <2>1, <1>3 DEF Searched
  <2>2. CASE l # Levels
    <3>1. Levels - 1 \in l..Levels /\ Levels \in Level
      BY <2>2, PageTablesAssumption DEF Level
    <3>2. Prefix(q, Levels - 1) = Prefix(w.page, Levels - 1)
      BY <3>1, <1>4
    <3>3. Offset(q, Levels) = Offset(w.page, Levels)
      BY <3>1, <3>2, <1>2, <1>3, PrefixStep
    <3>. QED BY <3>3, <2>2 DEF Stands
  <2>. QED BY <2>1, <2>2
<1>8. Walk(w.mem, q, l - 1) = Target(Cell(w.mem, w.table, i))
  <2>1. Walk(w.mem, q, l - 1) = Behind(w.mem, Walk(w.mem, q, l), Offset(q, l))
    BY WalkFacts
  <2>. QED BY <2>1, <1>3, <1>6 DEF Behind, Stands
<1>. QED BY <1>1, <1>3, <1>6, <1>7, <1>8

\* The entry taken is in the range, and absent or present and not full.
LEMMA CandidateFacts ==
  ASSUME NEW table, NEW range \in SUBSET Indices, Candidates(table, range) # {},
         NEW i, i = First(Candidates(table, range))
  PROVE  /\ i \in range
         /\ table[i].present => ~Full(table[i])
<1>1. Candidates(table, range) \in SUBSET Nat /\ Candidates(table, range) \subseteq range
  <2>1. Candidates(table, range) \subseteq range
    BY DEF Candidates
  <2>2. Indices \subseteq Nat
    BY DEF Indices
  <2>. QED BY <2>1, <2>2
<1>2. i \in Candidates(table, range)
  BY <1>1, FirstFacts
<1>. QED BY <1>1, <1>2 DEF Candidates, Full

\* malloc_traverse finds no entry to take.
LEMMA TurnStays ==
  ASSUME NEW w, IsWalk(w), NEW range, NEW l, NEW v, v = Turn(w, range, l),
         NEW table, table = w.mem.tables[w.table], NEW C, C = Candidates(table, range),
         NEW i, i = First(C), ~w.going \/ C = {} \/ (~table[i].present /\ NoFrame(w.mem))
  PROVE  IsWalk(v) /\ v.mem = w.mem /\ ~v.going
BY DEF Turn, IsWalk

\* The kernel stops when it fills the entry.
LEMMA TurnStops ==
  ASSUME NEW w, IsWalk(w), NEW range, NEW l, NEW v, v = Turn(w, range, l),
         NEW table, table = w.mem.tables[w.table], NEW C, C = Candidates(table, range),
         NEW i, i = First(C), ~(~w.going \/ C = {} \/ (~table[i].present /\ NoFrame(w.mem))),
         NEW m, m = IF table[i].present THEN w.mem ELSE Populate(w.mem, w.table, i, l),
         m.kernel # "running"
  PROVE  IsWalk(v) /\ v.mem = m /\ ~v.going
BY DEF Turn, IsWalk

\* An entry is noted as full.
FilledIn(m, t, i, n) == n = SetEntry(m, t, i, [m.tables[t][i] EXCEPT !.full = TRUE])

\* It takes the entry.
LEMMA TurnGoes ==
  ASSUME NEW w, IsWalk(w), NEW range, NEW l, NEW v, v = Turn(w, range, l),
         NEW table, table = w.mem.tables[w.table], NEW C, C = Candidates(table, range),
         NEW i, i = First(C), ~(~w.going \/ C = {} \/ (~table[i].present /\ NoFrame(w.mem))),
         NEW m, m = IF table[i].present THEN w.mem ELSE Populate(w.mem, w.table, i, l),
         m.kernel = "running", NEW e, e = m.tables[w.table][i]
  PROVE  /\ IsWalk(v) /\ v.going /\ v.index = i /\ v.page = w.page + (i * Width[l - 1])
         /\ v.table = e.frame
         /\ l # 1 => v.mem = m
         /\ l = 1 => FilledIn(m, w.table, i, v.mem)
BY DEF Turn, IsWalk, FilledIn

\* The same walks end at the same frames.
LEMMA KeepsSame ==
  ASSUME NEW m, NEW n, SameWalks(m, n)
  PROVE  KeepsLeaves(m, n) /\ \A l \in Nat : KeepsAbove(m, n, l)
BY LevelFacts DEF SameWalks, KeepsLeaves, KeepsAbove

\* A memory has its own walks.
LEMMA KeepsItself ==
  ASSUME NEW m
  PROVE  SameWalks(m, m) /\ KeepsLeaves(m, m) /\ \A l \in Nat : KeepsAbove(m, m, l)
BY DEF SameWalks, KeepsLeaves, KeepsAbove

\* One level down, above the last.
LEMMA TurnAbove ==
  ASSUME NEW w, IsWalk(w), Sound(w.mem), NEW window \in SUBSET Indices, NEW l \in Level, l # 1,
         w.going => Stands(w, window, l), NEW v, v = Turn(w, Searched(window, l), l)
  PROVE  /\ IsWalk(v) /\ Sound(v.mem) /\ KeepsLeaves(w.mem, v.mem) /\ KeepsAbove(w.mem, v.mem, l)
         /\ v.going => /\ w.going /\ Stands(v, window, l - 1)
                       /\ Passed(v.mem, v.page, l, w.table, v.index)
<1>. DEFINE range == Searched(window, l)
<1>0. l \in Nat /\ l \in 0..Levels /\ l - 1 \in Level /\ l >= l /\ l - 1 # Levels
  BY PageTablesAssumption DEF Level
<1>1. PICK a : a = w.mem
  OBVIOUS
<1>2. PICK table : table = w.mem.tables[w.table]
  OBVIOUS
<1>3. PICK C : C = Candidates(table, range)
  OBVIOUS
<1>4. PICK i : i = First(C)
  OBVIOUS
<1>5. PICK m : m = IF table[i].present THEN w.mem ELSE Populate(w.mem, w.table, i, l)
  OBVIOUS
<1>6. CASE ~w.going \/ C = {} \/ (~table[i].present /\ NoFrame(w.mem))
  <2>1. IsWalk(v) /\ v.mem = w.mem /\ ~v.going
    BY <1>2, <1>3, <1>4, <1>6, TurnStays
  <2>. QED BY <2>1, <1>0, KeepsItself
<1>7. CASE ~(~w.going \/ C = {} \/ (~table[i].present /\ NoFrame(w.mem)))
  <2>1. w.going /\ C # {} /\ Stands(w, window, l)
    BY <1>7
  <2>2. range \in SUBSET Indices
    BY DEF Searched
  <2>3. i \in range
    BY <1>3, <1>4, <2>1, <2>2, CandidateFacts
  <2>4. PICK q : q = w.page + (i * Width[l - 1])
    OBVIOUS
  <2>5. /\ i \in Indices /\ q \in Page /\ IsFirst(q, l - 1)
        /\ Walk(a, q, l) = w.table /\ Offset(q, l) = i /\ Offset(q, Levels) \in window
        /\ Walk(a, q, l - 1) = Target(Cell(a, w.table, i))
    BY <1>1, <2>1, <2>3, <2>4, StepFacts
  <2>6. table[i] = Cell(a, w.table, i)
    BY <1>1, <1>2 DEF Cell
  <2>7. w.table # -1 /\ a.kernel = "running"
    BY <1>1, <2>1 DEF Stands
  <2>8. /\ Sound(m) /\ KeepsLeaves(a, m) /\ KeepsAbove(a, m, l)
        /\ m.kernel = "running" => Walk(m, q, l - 1) # -1
    <3>1. CASE table[i].present
      <4>1. m = a
        BY <1>1, <1>5, <3>1
      <4>2. EntryAt(a, q, l) \in Entry /\ EntryAt(a, q, l) = table[i]
        BY <1>1, <2>5, <2>6, <2>7, TableAt DEF EntryAt
      <4>3. Walk(a, q, l - 1) # -1
        BY <2>5, <2>6, <3>1, <4>2 DEF Target, Entry, Frames
      <4>. QED BY <4>1, <4>3, <1>0, <1>1, KeepsItself
    <3>2. CASE ~table[i].present
      <4>1. Walk(a, q, l - 1) = -1 /\ ~NoFrame(a) /\ Sound(a) /\ Walk(a, q, l) # -1
        BY <1>1, <1>7, <2>5, <2>6, <2>7, <3>2 DEF Target
      <4>2. m = Populate(a, Walk(a, q, l), Offset(q, l), l)
        BY <1>1, <1>5, <2>5, <3>2
      <4>3. /\ Sound(m)
            /\ \A p \in Page : \A k \in 0..Levels : k = 0 \/ k >= l => Walk(m, p, k) = Walk(a, p, k)
            /\ m.kernel = "running" => Walk(m, q, l - 1) # -1
        BY <2>5, <4>1, <4>2, PopulateAbove
      <4>. QED BY <4>3, LevelFacts DEF KeepsLeaves, KeepsAbove
    <3>. QED BY <3>1, <3>2
  <2>9. CASE m.kernel # "running"
    <3>1. IsWalk(v) /\ v.mem = m /\ ~v.going
      BY <1>2, <1>3, <1>4, <1>5, <1>7, <2>9, TurnStops
    <3>. QED BY <3>1, <2>8, <1>1
  <2>10. CASE m.kernel = "running"
    <3>a. PICK e : e = m.tables[w.table][i]
      OBVIOUS
    <3>1. /\ IsWalk(v) /\ v.going /\ v.index = i /\ v.page = w.page + (i * Width[l - 1])
          /\ v.table = e.frame /\ (l # 1 => v.mem = m)
      BY <1>2, <1>3, <1>4, <1>5, <1>7, <2>10, <3>a, TurnGoes
    <3>2. v.mem = m /\ v.page = q
      BY <3>1, <2>4
    <3>3. Walk(m, q, l) = w.table
      BY <1>0, <2>5, <2>8 DEF KeepsAbove
    <3>4. Walk(m, q, l - 1) = Target(Cell(m, w.table, i)) /\ Walk(m, q, l - 1) # -1
      BY <2>5, <2>7, <2>8, <2>10, <3>3, WalkFacts DEF Behind
    <3>5. Cell(m, w.table, i).frame = Walk(m, q, l - 1)
      BY <3>4 DEF Target
    <3>6. v.table = Walk(m, q, l - 1)
      BY <3>1, <3>5, <3>a DEF Cell
    <3>7. Stands(v, window, l - 1)
      BY <2>5, <2>10, <3>2, <3>4, <3>6 DEF Stands
    <3>8. Passed(v.mem, v.page, l, w.table, v.index)
      BY <2>5, <2>7, <3>1, <3>2, <3>3 DEF Passed
    <3>. QED BY <1>1, <2>1, <2>8, <3>1, <3>2, <3>7, <3>8
  <2>. QED BY <2>9, <2>10
<1>. QED BY <1>6, <1>7

\* A page got a frame, and no other page changed.
Gained(m, n, p) ==
  /\ p \in Page /\ Walk(m, p, 0) = -1 /\ Walk(n, p, 0) # -1
  /\ \A q \in Page : q # p => Walk(n, q, 0) = Walk(m, q, 0)

\* It is one of the searched windows.
Gains(m, n, p) == Gained(m, n, p) /\ Windowed(p)

\* What is mapped is mapped before, or in a searched window.
Calm(m, n) == \A q \in Page : Walk(n, q, 0) # -1 => Walk(m, q, 0) # -1 \/ Windowed(q)

\* The last level: an unmapped page of the window, or nothing.
LEMMA TurnLeaf ==
  ASSUME NEW w, IsWalk(w), Sound(w.mem), NEW window \in {PageWindow, SmallWindow},
         w.going => Stands(w, window, 1), NEW v, v = Turn(w, Searched(window, 1), 1)
  PROVE  /\ IsWalk(v) /\ Sound(v.mem) /\ KeepsAbove(w.mem, v.mem, 1)
         /\ v.going => /\ w.going /\ v.mem.kernel = "running" /\ Gains(w.mem, v.mem, v.page)
         /\ ~v.going => KeepsLeaves(w.mem, v.mem)
<1>. DEFINE range == Searched(window, 1)
<1>0. 1 \in Level /\ 1 - 1 = 0 /\ 0 \in 0..Levels /\ 1 \in 0..Levels
  BY LevelFacts
<1>a. window \in SUBSET Indices
  BY HeapAssumption
<1>1. PICK a : a = w.mem
  OBVIOUS
<1>2. PICK table : table = w.mem.tables[w.table]
  OBVIOUS
<1>3. PICK C : C = Candidates(table, range)
  OBVIOUS
<1>4. PICK i : i = First(C)
  OBVIOUS
<1>5. PICK m : m = IF table[i].present THEN w.mem ELSE Populate(w.mem, w.table, i, 1)
  OBVIOUS
<1>6. CASE ~w.going \/ C = {} \/ (~table[i].present /\ NoFrame(w.mem))
  <2>1. IsWalk(v) /\ v.mem = w.mem /\ ~v.going
    BY <1>2, <1>3, <1>4, <1>6, TurnStays
  <2>. QED BY <2>1, KeepsItself
<1>7. CASE ~(~w.going \/ C = {} \/ (~table[i].present /\ NoFrame(w.mem)))
  <2>1. w.going /\ C # {} /\ Stands(w, window, 1)
    BY <1>7
  <2>2. range \in SUBSET Indices
    BY <1>a DEF Searched
  <2>3. i \in range /\ (table[i].present => ~Full(table[i]))
    BY <1>3, <1>4, <2>1, <2>2, CandidateFacts
  <2>4. PICK l : l = 1
    OBVIOUS
  <2>b. PICK q : q = w.page + (i * Width[l - 1])
    OBVIOUS
  <2>5. /\ i \in Indices /\ q \in Page
        /\ Walk(a, q, l) = w.table /\ Offset(q, l) = i /\ Offset(q, Levels) \in window
        /\ Walk(a, q, l - 1) = Target(Cell(a, w.table, i))
    <3>1. l \in Level /\ Stands(w, window, l) /\ i \in Searched(window, l)
      BY <1>0, <2>1, <2>3, <2>4
    <3>. QED BY <1>a, <1>1, <2>b, <3>1, StepFacts
  <2>c. /\ Walk(a, q, 1) = w.table /\ Offset(q, 1) = i
        /\ Walk(a, q, 0) = Target(Cell(a, w.table, i))
    BY <1>0, <2>4, <2>5
  <2>6. table[i] = Cell(a, w.table, i)
    BY <1>1, <1>2 DEF Cell
  <2>7. w.table # -1 /\ a.kernel = "running"
    BY <1>1, <2>1 DEF Stands
  <2>8. ~table[i].present
    <3>. SUFFICES ASSUME table[i].present PROVE FALSE
      OBVIOUS
    <3>1. EntryAt(a, q, 1) \in Entry /\ EntryAt(a, q, 1) = table[i]
      BY <1>0, <1>1, <2>5, <2>c, <2>6, <2>7, TableAt DEF EntryAt
    <3>2. Walk(a, q, 0) # -1
      BY <2>c, <2>6, <3>1 DEF Target, Entry, Frames
    <3>3. Windowed(q)
      BY <2>5 DEF Windowed
    <3>4. Full(EntryAt(a, q, 1))
      BY <1>1, <2>5, <3>2, <3>3 DEF Sound, Noted
    <3>. QED BY <2>3, <3>1, <3>4
  <2>9. Walk(a, q, 0) = -1 /\ ~NoFrame(a) /\ Sound(a) /\ Walk(a, q, 1) # -1
    BY <1>1, <1>7, <2>c, <2>6, <2>7, <2>8 DEF Target
  <2>10. m = Populate(a, Walk(a, q, 1), Offset(q, 1), 1)
    BY <1>1, <1>5, <2>c, <2>8
  <2>11. PICK r : r = SetEntry(m, Walk(a, q, 1), Offset(q, 1),
                               [m.tables[Walk(a, q, 1)][Offset(q, 1)] EXCEPT !.full = TRUE])
    OBVIOUS
  <2>12. /\ m.kernel # "running" => Sound(m) /\ SameWalks(a, m)
         /\ m.kernel = "running" =>
              /\ Sound(r) /\ r.kernel = "running" /\ Walk(r, q, 0) # -1
              /\ \A p \in Page : \A k \in 0..Levels :
                   k # 0 \/ p # q => Walk(r, p, k) = Walk(a, p, k)
    BY <2>5, <2>7, <2>9, <2>10, <2>11, PopulateLeaf
  <2>13. CASE m.kernel # "running"
    <3>1. IsWalk(v) /\ v.mem = m /\ ~v.going
      BY <1>2, <1>3, <1>4, <1>5, <1>7, <2>13, TurnStops
    <3>. QED BY <3>1, <2>12, <2>13, <1>1, KeepsSame
  <2>14. CASE m.kernel = "running"
    <3>a. PICK e : e = m.tables[w.table][i]
      OBVIOUS
    <3>1. /\ IsWalk(v) /\ v.going /\ v.index = i /\ v.page = w.page + (i * Width[l - 1])
          /\ v.table = e.frame /\ (l = 1 => FilledIn(m, w.table, i, v.mem))
      <4>1. v = Turn(w, Searched(window, l), l)
        BY <2>4
      <4>2. m = IF table[i].present THEN w.mem ELSE Populate(w.mem, w.table, i, l)
        BY <1>5, <2>4
      <4>. QED BY <1>2, <1>3, <1>4, <1>7, <2>4, <2>14, <3>a, <4>1, <4>2, TurnGoes
    <3>2. v.page = q
      BY <3>1, <2>4, <2>b
    <3>3. v.mem = r
      BY <3>1, <2>4, <2>c, <2>11 DEF FilledIn
    <3>4. KeepsAbove(a, r, 1)
      BY <2>12, <2>14 DEF KeepsAbove
    <3>6. Gained(a, r, q)
      BY <1>0, <2>5, <2>9, <2>12, <2>14 DEF Gained
    <3>5. Gains(a, r, q)
      BY <2>5, <3>6 DEF Gains, Windowed
    <3>. QED BY <1>1, <2>1, <2>12, <2>14, <3>1, <3>2, <3>3, <3>4, <3>5
  <2>. QED BY <2>13, <2>14
<1>. QED BY <1>6, <1>7

\* malloc_traverse: the walk down and the memories on the way back.
StartOf(m) == [mem |-> m, table |-> Root, index |-> 0, page |-> 0, going |-> TRUE]
DownOf(m, window) ==
  CHOOSE d : d = [l \in 0..Levels |->
    IF l = Levels THEN StartOf(m) ELSE Turn(d[l + 1], Searched(window, l + 1), l + 1)]
Back(u, d, l) == IF d[l - 1].going THEN Marked(u, d[l].table, d[l - 1].index) ELSE u
UpOf(d) == CHOOSE u : u = [l \in 1..Levels |-> IF l = 1 THEN d[0].mem ELSE Back(u[l - 1], d, l)]

\* The walk down is defined at every level.
LEMMA DownFacts ==
  ASSUME NEW m, NEW window
  PROVE  /\ DownOf(m, window)[Levels] = StartOf(m)
         /\ \A l \in 0..(Levels - 1) : DownOf(m, window)[l] = Turn(DownOf(m, window)[l + 1], Searched(window, l + 1), l + 1)
<1>. USE PageTablesAssumption
<1>. DEFINE G(g, n) == g = [l \in (Levels - n)..Levels |-> IF l = Levels THEN StartOf(m) ELSE Turn(g[l + 1], Searched(window, l + 1), l + 1)]
            S == {n \in Nat : \E g : G(g, n)}
            F(s) == [l \in 0..Levels |-> IF l = Levels THEN StartOf(m) ELSE Turn(s[l + 1], Searched(window, l + 1), l + 1)]
            s == CHOOSE f : f = F(f)
<1>1. 0 \in S
  <2>. DEFINE g == [l \in (Levels - 0)..Levels |-> StartOf(m)]
  <2>1. G(g, 0)
    OBVIOUS
  <2>. HIDE DEF G, g
  <2>. QED BY <2>1
<1>2. ASSUME NEW n \in Nat, n \in S PROVE n + 1 \in S
  <2>1. PICK h : G(h, n)
    BY <1>2
  <2>. DEFINE b == Levels - (n + 1)
              g == [l \in b..Levels |-> IF l = b THEN Turn(h[b + 1], Searched(window, b + 1), b + 1) ELSE h[l]]
  <2>2. ASSUME NEW l \in b..Levels
        PROVE  g[l] = IF l = Levels THEN StartOf(m) ELSE Turn(g[l + 1], Searched(window, l + 1), l + 1)
    <3>1. CASE l = b
      <4>1. l # Levels /\ b + 1 \in b..Levels /\ b + 1 # b
        BY <3>1
      <4>. QED BY <3>1, <4>1
    <3>2. CASE l # b
      <4>1. l \in (Levels - n)..Levels
        BY <3>2
      <4>2. l = Levels \/ (l + 1 \in b..Levels /\ l + 1 # b)
        OBVIOUS
      <4>. QED BY <2>1, <3>2, <4>1, <4>2
    <3>. QED BY <3>1, <3>2
  <2>3. G(g, n + 1)
    BY <2>2
  <2>. HIDE DEF G, g
  <2>. QED BY <2>3
<1>3. Nat \subseteq S
  <2>. HIDE DEF S
  <2>. QED BY <1>1, <1>2, SetInduction
<1>4. PICK g : G(g, Levels - 0)
  <2>1. Levels - 0 \in Nat
    OBVIOUS
  <2>. HIDE DEF G
  <2>. QED BY <1>3, <2>1
<1>5. g = F(g)
  <2>1. Levels - (Levels - 0) = 0
    OBVIOUS
  <2>. QED BY <1>4, <2>1
<1>6. s = F(s)
  <2>. HIDE DEF F
  <2>. QED BY <1>5
<1>7. DownOf(m, window) = s
  BY DEF DownOf
<1>. HIDE DEF s
<1>8. \A l \in 0..Levels : s[l] = IF l = Levels THEN StartOf(m) ELSE Turn(s[l + 1], Searched(window, l + 1), l + 1)
  BY <1>6
<1>. QED BY <1>7, <1>8

\* So is the way back.
LEMMA UpFacts ==
  ASSUME NEW d
  PROVE  /\ UpOf(d)[1] = d[0].mem
         /\ \A l \in 2..Levels : UpOf(d)[l] = Back(UpOf(d)[l - 1], d, l)
<1>. DEFINE G(g, n) == g = [l \in 1..(n + 1) |-> IF l = 1 THEN d[0].mem ELSE Back(g[l - 1], d, l)]
            S == {n \in Nat : \E g : G(g, n)}
            F(s) == [l \in 1..Levels |-> IF l = 1 THEN d[0].mem ELSE Back(s[l - 1], d, l)]
            s == CHOOSE f : f = F(f)
<1>0. Levels - 1 \in Nat /\ (Levels - 1) + 1 = Levels /\ 1 \in 1..Levels /\ \A l \in 2..Levels : l \in 1..Levels /\ l # 1
  BY PageTablesAssumption
<1>1. 0 \in S
  <2>. DEFINE g == [l \in 1..1 |-> d[0].mem]
  <2>1. G(g, 0)
    OBVIOUS
  <2>. HIDE DEF G, g
  <2>. QED BY <2>1
<1>2. ASSUME NEW n \in Nat, n \in S PROVE n + 1 \in S
  <2>1. PICK h : G(h, n)
    BY <1>2
  <2>. DEFINE b == (n + 1) + 1
              g == [l \in 1..b |-> IF l = b THEN Back(h[b - 1], d, b) ELSE h[l]]
  <2>2. ASSUME NEW l \in 1..b
        PROVE  g[l] = IF l = 1 THEN d[0].mem ELSE Back(g[l - 1], d, l)
    <3>1. CASE l = b
      <4>1. l # 1 /\ b - 1 \in 1..b /\ b - 1 # b
        BY <3>1
      <4>. QED BY <3>1, <4>1
    <3>2. CASE l # b
      <4>1. l \in 1..(n + 1)
        BY <3>2
      <4>2. l = 1 \/ (l - 1 \in 1..b /\ l - 1 # b)
        OBVIOUS
      <4>. QED BY <2>1, <3>2, <4>1, <4>2
    <3>. QED BY <3>1, <3>2
  <2>3. G(g, n + 1)
    BY <2>2
  <2>. HIDE DEF G, g
  <2>. QED BY <2>3
<1>3. Nat \subseteq S
  <2>. HIDE DEF S
  <2>. QED BY <1>1, <1>2, SetInduction
<1>4. PICK g : G(g, Levels - 1)
  <2>. HIDE DEF G
  <2>. QED BY <1>0, <1>3
<1>5. g = F(g)
  BY <1>0, <1>4
<1>6. s = F(s)
  <2>. HIDE DEF F
  <2>. QED BY <1>5
<1>7. UpOf(d) = s
  BY DEF UpOf
<1>. HIDE DEF s
<1>8. \A l \in 1..Levels : s[l] = IF l = 1 THEN d[0].mem ELSE Back(s[l - 1], d, l)
  BY <1>6
<1>. QED BY <1>0, <1>7, <1>8

\* malloc_traverse is its way down and its way back.
LEMMA AllocParts ==
  ASSUME NEW m, NEW window, NEW d, d = DownOf(m, window)
  PROVE  AllocPage(m, window) = [mem |-> UpOf(d)[Levels], page |-> IF d[0].going THEN d[0].page ELSE None]
BY DEF AllocPage, DownOf, UpOf, StartOf, Back, Searched

\* Noting a full table below an entry changes no walk.
LEMMA MarkedFacts ==
  ASSUME NEW m, Sound(m), NEW l \in Level, l # 1, NEW p, NEW t, NEW i, Passed(m, p, l, t, i),
         NEW n, n = Marked(m, t, i)
  PROVE  Sound(n) /\ SameWalks(m, n) /\ n.kernel = m.kernel
<1>1. p \in Page /\ t # -1 /\ Walk(m, p, l) = t /\ Offset(p, l) = i
  BY DEF Passed
<1>2. CASE m.kernel # "running"
  <2>1. n = m
    BY <1>2 DEF Marked
  <2>. QED BY <2>1, KeepsItself
<1>3. CASE m.kernel = "running"
  <2>1. PICK e : e = m.tables[t][i]
    OBVIOUS
  <2>2. PICK full \in BOOLEAN : full = (e.full \/ IsFull(m.tables[e.frame]))
    OBVIOUS
  <2>3. PICK g : g = [e EXCEPT !.full = full]
    OBVIOUS
  <2>4. n = SetEntry(m, t, i, g)
    BY <1>3, <2>1, <2>2, <2>3 DEF Marked
  <2>5. EntryAt(m, p, l) = e
    BY <1>1, <2>1 DEF EntryAt, Cell
  <2>6. e \in Entry /\ Walk(m, p, l - 1) = Target(e)
    BY <1>1, <2>5, TableAt
  <2>7. g \in Entry /\ Target(g) = Target(e) /\ (Kernels(e) => Kernels(g))
    BY <2>3, <2>6 DEF Entry, Target, Kernels
  <2>8. Target(g) # -1 => Kernels(g)
    BY <1>1, <2>5, <2>6, <2>7 DEF Sound, Granted
  <2>9. n = SetEntry(m, Walk(m, p, l), Offset(p, l), g)
    BY <1>1, <2>4
  <2>10. Walk(m, p, l) # -1 /\ Target(g) = Walk(m, p, l - 1)
    BY <1>1, <2>6, <2>7
  <2>11. Sound(n) /\ SameWalks(m, n) /\ SameRest(m, n)
    BY <1>1, <2>7, <2>8, <2>9, <2>10, PutTouched
  <2>. QED BY <2>11 DEF SameRest
<1>. QED BY <1>2, <1>3

\* The entries that malloc_traverse took above a level, in a memory.
Behold(m, d, l) ==
  \A j \in Level : j > l /\ d[j - 1].going => Passed(m, d[j - 1].page, j, d[j].table, d[j - 1].index)

\* What the way down passed stays where it was.
LEMMA BeholdKept ==
  ASSUME NEW m, NEW n, NEW d, NEW l \in 0..Levels, Behold(m, d, l), KeepsAbove(m, n, l)
  PROVE  Behold(n, d, l)
<1>1. ASSUME NEW j \in Level, j > l, d[j - 1].going
      PROVE  Passed(n, d[j - 1].page, j, d[j].table, d[j - 1].index)
  <2>1. Passed(m, d[j - 1].page, j, d[j].table, d[j - 1].index)
    BY <1>1 DEF Behold
  <2>2. j \in 0..Levels /\ j >= l
    BY <1>1, LevelFacts
  <2>. QED BY <2>1, <2>2 DEF Passed, KeepsAbove
<1>. QED BY <1>1 DEF Behold

\* The way down keeps the memory sound.
LEMMA DownSound ==
  ASSUME NEW m, Sound(m), m.kernel = "running", NEW window \in {PageWindow, SmallWindow},
         NEW d, d = DownOf(m, window)
  PROVE  /\ Sound(d[0].mem) /\ Behold(d[0].mem, d, 1)
         /\ d[0].going => d[0].mem.kernel = "running" /\ Gains(m, d[0].mem, d[0].page)
         /\ ~d[0].going => KeepsLeaves(m, d[0].mem)
<1>. DEFINE Good(l) == /\ IsWalk(d[l]) /\ Sound(d[l].mem) /\ KeepsLeaves(m, d[l].mem)
                       /\ d[l].going => Stands(d[l], window, l)
                       /\ Behold(d[l].mem, d, l)
            S == {n \in Nat : n < Levels => Good(Levels - n)}
<1>0. Levels \in Nat \ {0} /\ window \in SUBSET Indices
  BY PageTablesAssumption, HeapAssumption
<1>1. d[Levels] = StartOf(m) /\ \A l \in 0..(Levels - 1) : d[l] = Turn(d[l + 1], Searched(window, l + 1), l + 1)
  BY DownFacts
<1>2. Good(Levels)
  <2>1. PICK w : w = StartOf(m)
    OBVIOUS
  <2>2. IsWalk(w) /\ w.mem = m /\ w.table = Root /\ w.page = 0 /\ w.going = TRUE
    BY <2>1 DEF StartOf, IsWalk
  <2>3. 0 \in Page
    BY <1>0, WidthFacts DEF Page
  <2>4. IsFirst(0, Levels)
    <3>1. Prefix(0, Levels) = 0 /\ Width[Levels] \in Nat
      BY <1>0, <2>3, PrefixFacts, WidthFacts
    <3>. QED BY <3>1 DEF IsFirst
  <2>5. Walk(m, 0, Levels) = Root /\ Root # -1
    BY WalkFacts, PageTablesAssumption
  <2>6. Stands(w, window, Levels)
    BY <2>2, <2>3, <2>4, <2>5 DEF Stands
  <2>7. Behold(m, d, Levels)
    BY <1>0 DEF Behold, Level
  <2>. QED BY <1>1, <2>1, <2>2, <2>6, <2>7, KeepsItself
<1>3. 0 \in S
  <2>1. Levels - 0 = Levels
    BY <1>0
  <2>. HIDE DEF Good
  <2>. QED BY <1>2, <2>1
<1>4. ASSUME NEW n \in Nat, n \in S PROVE n + 1 \in S
  <2>. SUFFICES ASSUME n + 1 < Levels PROVE Good(Levels - (n + 1))
    <3>. HIDE DEF Good
    <3>. QED OBVIOUS
  <2>1. PICK l : l = Levels - n
    OBVIOUS
  <2>2. l \in Level /\ l # 1 /\ l - 1 = Levels - (n + 1) /\ l - 1 \in 0..(Levels - 1) /\ (l - 1) + 1 = l
        /\ n < Levels /\ l \in 0..Levels
    BY <1>0, <2>1 DEF Level
  <2>3. Good(l)
    <3>. HIDE DEF Good
    <3>. QED BY <1>4, <2>1, <2>2
  <2>4. PICK w : w = d[l]
    OBVIOUS
  <2>5. PICK v : v = d[l - 1]
    OBVIOUS
  <2>6. v = Turn(w, Searched(window, l), l)
    BY <1>1, <2>2, <2>4, <2>5
  <2>7. /\ IsWalk(w) /\ Sound(w.mem) /\ KeepsLeaves(m, w.mem)
        /\ w.going => Stands(w, window, l)
        /\ Behold(w.mem, d, l)
    BY <2>3, <2>4
  <2>8. /\ IsWalk(v) /\ Sound(v.mem) /\ KeepsLeaves(w.mem, v.mem) /\ KeepsAbove(w.mem, v.mem, l)
        /\ v.going => /\ w.going /\ Stands(v, window, l - 1)
                      /\ Passed(v.mem, v.page, l, w.table, v.index)
    BY <1>0, <2>2, <2>6, <2>7, TurnAbove
  <2>9. Behold(v.mem, d, l)
    <3>1. PICK a : a = w.mem
      OBVIOUS
    <3>2. PICK b : b = v.mem
      OBVIOUS
    <3>3. Behold(a, d, l) /\ KeepsAbove(a, b, l)
      BY <2>7, <2>8, <3>1, <3>2
    <3>4. Behold(b, d, l)
      BY <2>2, <3>3, BeholdKept
    <3>. QED BY <3>2, <3>4
  <2>10. Behold(v.mem, d, l - 1)
    <3>1. ASSUME NEW j \in Level, j > l - 1, d[j - 1].going
          PROVE  Passed(v.mem, d[j - 1].page, j, d[j].table, d[j - 1].index)
      <4>1. CASE j > l
        BY <2>9, <3>1, <4>1 DEF Behold
      <4>2. CASE j = l
        BY <2>4, <2>5, <2>8, <3>1, <4>2
      <4>3. j > l \/ j = l
        BY <2>2, <3>1 DEF Level
      <4>. QED BY <4>1, <4>2, <4>3
    <3>. QED BY <3>1 DEF Behold
  <2>11. KeepsLeaves(m, v.mem)
    BY <2>7, <2>8 DEF KeepsLeaves
  <2>. QED BY <2>2, <2>5, <2>8, <2>10, <2>11
<1>5. Nat \subseteq S
  <2>. HIDE DEF S
  <2>. QED BY <1>3, <1>4, SetInduction
<1>6. Good(1)
  <2>1. Levels - 1 \in Nat /\ Levels - 1 < Levels /\ Levels - (Levels - 1) = 1
    BY <1>0
  <2>. HIDE DEF Good
  <2>. QED BY <1>5, <2>1
<1>. PICK w : w = d[1]
  OBVIOUS
<1>. PICK v : v = d[0]
  OBVIOUS
<1>7. v = Turn(w, Searched(window, 1), 1)
  <2>1. 0 \in 0..(Levels - 1) /\ 0 + 1 = 1
    BY <1>0
  <2>. QED BY <1>1, <2>1
<1>8. /\ IsWalk(w) /\ Sound(w.mem) /\ KeepsLeaves(m, w.mem)
      /\ w.going => Stands(w, window, 1)
      /\ Behold(w.mem, d, 1)
  BY <1>6
<1>9. /\ IsWalk(v) /\ Sound(v.mem) /\ KeepsAbove(w.mem, v.mem, 1)
      /\ v.going => /\ w.going /\ v.mem.kernel = "running" /\ Gains(w.mem, v.mem, v.page)
      /\ ~v.going => KeepsLeaves(w.mem, v.mem)
  BY <1>7, <1>8, TurnLeaf
<1>10. Behold(v.mem, d, 1)
  <2>1. PICK a : a = w.mem
    OBVIOUS
  <2>2. PICK b : b = v.mem
    OBVIOUS
  <2>3. Behold(a, d, 1) /\ KeepsAbove(a, b, 1) /\ 1 \in 0..Levels
    BY <1>8, <1>9, <2>1, <2>2, LevelFacts
  <2>4. Behold(b, d, 1)
    BY <2>3, BeholdKept
  <2>. QED BY <2>2, <2>4
<1>11. v.going => Gains(m, v.mem, v.page)
  BY <1>8, <1>9 DEF Gains, Gained, KeepsLeaves
<1>12. ~v.going => KeepsLeaves(m, v.mem)
  BY <1>8, <1>9 DEF KeepsLeaves
<1>. QED BY <1>9, <1>10, <1>11, <1>12

\* malloc_traverse: a page of the window that was not mapped gets a frame, or none does.
LEMMA AllocPageFacts ==
  ASSUME NEW m, Sound(m), m.kernel = "running", NEW window \in {PageWindow, SmallWindow},
         NEW r, r = AllocPage(m, window)
  PROVE  /\ r = [mem |-> r.mem, page |-> r.page] /\ Sound(r.mem)
         /\ r.page # None => r.mem.kernel = "running" /\ Gains(m, r.mem, r.page)
         /\ r.page = None => KeepsLeaves(m, r.mem)
<1>. PICK d : d = DownOf(m, window)
  OBVIOUS
<1>. PICK u : u = UpOf(d)
  OBVIOUS
<1>. PICK a : a = d[0].mem
  OBVIOUS
<1>0. Levels \in Nat \ {0}
  BY PageTablesAssumption
<1>1. /\ Sound(a) /\ Behold(a, d, 1)
      /\ d[0].going => a.kernel = "running" /\ Gains(m, a, d[0].page)
      /\ ~d[0].going => KeepsLeaves(m, a)
  BY DownSound
<1>2. u[1] = a /\ \A l \in 2..Levels : u[l] = Back(u[l - 1], d, l)
  <2>1. \A l \in 1 + 1..Levels : u[l] = Back(u[l - 1], d, l)
    BY UpFacts
  <2>2. u[1] = d[0].mem
    BY UpFacts
  <2>. QED BY <2>1, <2>2
<1>. DEFINE Good(l) == Sound(u[l]) /\ SameWalks(a, u[l]) /\ u[l].kernel = a.kernel
            S == {n \in Nat : n < Levels => Good(n + 1)}
<1>3. 0 \in S
  <2>1. 0 + 1 = 1
    OBVIOUS
  <2>. QED BY <1>1, <1>2, <2>1, KeepsItself
<1>4. ASSUME NEW n \in Nat, n \in S PROVE n + 1 \in S
  <2>. SUFFICES ASSUME n + 1 < Levels PROVE Good((n + 1) + 1)
    <3>. HIDE DEF Good
    <3>. QED OBVIOUS
  <2>1. PICK l : l = (n + 1) + 1
    OBVIOUS
  <2>2. l \in Level /\ l # 1 /\ l - 1 = n + 1 /\ l \in 2..Levels /\ n < Levels /\ l > 1
        /\ l \in 0..Levels
    BY <1>0, <2>1 DEF Level
  <2>3. Good(l - 1)
    <3>. HIDE DEF Good
    <3>. QED BY <1>4, <2>2
  <2>4. PICK b : b = u[l - 1]
    OBVIOUS
  <2>5. PICK c : c = u[l]
    OBVIOUS
  <2>6. c = Back(b, d, l)
    BY <1>2, <2>2, <2>4, <2>5
  <2>7. Sound(b) /\ SameWalks(a, b) /\ b.kernel = a.kernel
    BY <2>3, <2>4
  <2>8. CASE ~d[l - 1].going
    <3>1. c = b
      BY <2>6, <2>8 DEF Back
    <3>. QED BY <2>1, <2>5, <2>7, <3>1
  <2>9. CASE d[l - 1].going
    <3>0. PICK p, t, i : p = d[l - 1].page /\ t = d[l].table /\ i = d[l - 1].index
      OBVIOUS
    <3>1. c = Marked(b, t, i)
      BY <2>6, <2>9, <3>0 DEF Back
    <3>2. Passed(a, p, l, t, i)
      BY <1>1, <2>2, <2>9, <3>0 DEF Behold
    <3>3. Passed(b, p, l, t, i)
      BY <2>2, <2>7, <3>2 DEF Passed, SameWalks
    <3>4. Sound(c) /\ SameWalks(b, c) /\ c.kernel = b.kernel
      BY <2>2, <2>7, <3>1, <3>3, MarkedFacts
    <3>. QED BY <2>1, <2>5, <2>7, <3>4, SameWalksTrans
  <2>. QED BY <2>8, <2>9
<1>5. Nat \subseteq S
  <2>. HIDE DEF S
  <2>. QED BY <1>3, <1>4, SetInduction
<1>6. Good(Levels)
  <2>1. Levels - 1 \in Nat /\ Levels - 1 < Levels /\ (Levels - 1) + 1 = Levels
    BY <1>0
  <2>. HIDE DEF Good
  <2>. QED BY <1>5, <2>1
<1>7. r = [mem |-> u[Levels], page |-> IF d[0].going THEN d[0].page ELSE None]
  BY AllocParts
<1>8. r.mem = u[Levels] /\ r.page = (IF d[0].going THEN d[0].page ELSE None)
  BY <1>7
<1>9. r = [mem |-> r.mem, page |-> r.page]
  BY <1>7, <1>8
<1>. PICK b : b = u[Levels]
  OBVIOUS
<1>10. Sound(b) /\ SameWalks(a, b) /\ b.kernel = a.kernel
  BY <1>6
<1>11. KeepsLeaves(a, b)
  BY <1>10, KeepsSame
<1>12. CASE d[0].going
  <2>1. Gains(m, a, d[0].page) /\ a.kernel = "running"
    BY <1>1, <1>12
  <2>2. Gains(m, b, d[0].page)
    BY <1>11, <2>1 DEF Gains, Gained, KeepsLeaves
  <2>3. r.page # None
    BY <1>8, <1>12, <2>1, WidthFacts DEF Gains, Gained, Page, None
  <2>. QED BY <1>8, <1>9, <1>10, <1>12, <2>1, <2>2, <2>3
<1>13. CASE ~d[0].going
  <2>1. KeepsLeaves(m, b)
    BY <1>1, <1>11, <1>13 DEF KeepsLeaves
  <2>. QED BY <1>8, <1>9, <1>10, <1>13, <2>1
<1>. QED BY <1>12, <1>13

-----------------------------------------------------------------------------
(* FreePage *)

\* A page lost its frame, and no other page changed.
Lost(m, n, p) ==
  \A q \in Page : Walk(n, q, 0) = IF q = p THEN -1 ELSE Walk(m, q, 0)

\* An entry above the last level is cleared or marked: every page keeps its frame.
LEMMA ReleaseFacts ==
  ASSUME NEW u, Sound(u), NEW p \in Page, NEW l \in Level, l # 1,
         Walk(u, p, l) # -1, Walk(u, p, l - 1) # -1,
         NEW n, n = Release(u, Walk(u, p, l), Offset(p, l))
  PROVE  Sound(n) /\ KeepsLeaves(u, n) /\ KeepsAbove(u, n, l) /\ n.kernel = u.kernel
<1>. DEFINE t == Walk(u, p, l)
            i == Offset(p, l)
<1>0. l - 1 \in Level /\ l \in 0..Levels /\ (l - 1) - 1 \in 0..Levels /\ l \in Nat /\ l >= 2
      /\ l - 1 \in 0..Levels
  BY PageTablesAssumption DEF Level
<1>1. PICK e : e = u.tables[t][i]
  OBVIOUS
<1>2. EntryAt(u, p, l) = e
  BY <1>1 DEF EntryAt, Cell
<1>3. e \in Entry /\ Walk(u, p, l - 1) = Target(e)
  BY <1>2, TableAt
<1>4. Walk(u, p, l - 1) = e.frame
  BY <1>3 DEF Target
<1>5. CASE \A j \in Indices : ~u.tables[e.frame][j].present
  <2>1. PICK a : a = SetEntry(u, t, i, Blank)
    OBVIOUS
  <2>2. n = GiveFrame(a, 0)
    BY <1>1, <1>5, <2>1 DEF Release
  <2>3. Blank \in Entry /\ Target(Blank) = -1
    BY PageTablesAssumption DEF Blank, Entry, Target, Frames
  <2>4. Sound(a) /\ SameRest(u, a) /\ CutOff(u, a, p, l)
    BY <2>1, <2>3, PutCut
  <2>5. Sound(n) /\ SameWalks(a, n) /\ n.kernel = a.kernel
    BY <2>2, <2>4, GiveZero
  <2>6. ASSUME NEW q \in Page PROVE Walk(a, q, 0) = Walk(u, q, 0)
    <3>1. CASE Prefix(q, l - 1) = Prefix(p, l - 1)
      <4>1. Walk(u, q, l - 1) = Walk(u, p, l - 1)
        BY <1>0, <3>1, WalkTogether, LevelFacts
      <4>2. Offset(q, l - 1) \in Indices
        BY <1>0, PrefixFacts
      <4>3. Target(Cell(u, e.frame, Offset(q, l - 1))) = -1
        BY <1>5, <4>2 DEF Target, Cell
      <4>4. Walk(u, q, (l - 1) - 1) = Behind(u, Walk(u, q, l - 1), Offset(q, l - 1))
        BY <1>0, WalkFacts
      <4>5. Walk(u, q, (l - 1) - 1) = -1
        BY <1>4, <4>1, <4>3, <4>4 DEF Behind
      <4>6. Walk(u, q, 0) = -1
        <5>1. 0 \in 0..((l - 1) - 1)
          BY <1>0
        <5>. QED BY <1>0, <4>5, <5>1, WalkMissing
      <4>7. Walk(a, q, 0) = -1
        BY <1>0, <2>4, <3>1, <4>6, LevelFacts DEF CutOff, Beneath
      <4>. QED BY <4>6, <4>7
    <3>2. CASE Prefix(q, l - 1) # Prefix(p, l - 1)
      BY <2>4, <3>2, LevelFacts DEF CutOff, Beneath
    <3>. QED BY <3>1, <3>2
  <2>7. \A q \in Page : \A k \in 0..Levels : k >= l => Walk(a, q, k) = Walk(u, q, k)
    BY <1>0, <2>4 DEF CutOff, Beneath
  <2>. QED BY <2>4, <2>5, <2>6, <2>7, LevelFacts DEF KeepsLeaves, KeepsAbove, SameWalks, SameRest
<1>6. CASE ~(\A j \in Indices : ~u.tables[e.frame][j].present)
  <2>1. PICK full \in BOOLEAN : full = IsFull(u.tables[e.frame])
    BY DEF IsFull
  <2>2. PICK g : g = [e EXCEPT !.full = full]
    OBVIOUS
  <2>3. n = SetEntry(u, t, i, g)
    BY <1>1, <1>6, <2>1, <2>2 DEF Release
  <2>4. g \in Entry /\ Target(g) = Target(e) /\ (Kernels(e) => Kernels(g))
    BY <1>3, <2>2 DEF Entry, Target, Kernels
  <2>5. Kernels(g)
    BY <1>2, <2>4 DEF Sound, Granted
  <2>6. Sound(n) /\ SameWalks(u, n) /\ SameRest(u, n)
    BY <1>3, <2>3, <2>4, <2>5, PutTouched
  <2>. QED BY <1>0, <2>6, KeepsSame DEF SameRest
<1>. QED BY <1>5, <1>6

FirstFreed(m, path, p) == GiveFrame(SetEntry(m, path[1], Offset(p, 1), Blank), 0)
FreeOf(m, path, p) ==
  CHOOSE u : u = [l \in 1..Levels |->
    IF l = 1 THEN FirstFreed(m, path, p) ELSE Release(u[l - 1], path[l], Offset(p, l))]

\* free_traverse is defined at every level.
LEMMA FreeFacts ==
  ASSUME NEW m, NEW path, NEW p
  PROVE  /\ FreeOf(m, path, p)[1] = FirstFreed(m, path, p)
         /\ \A l \in 2..Levels : FreeOf(m, path, p)[l] = Release(FreeOf(m, path, p)[l - 1], path[l], Offset(p, l))
<1>. DEFINE G(g, n) == g = [l \in 1..(n + 1) |-> IF l = 1 THEN FirstFreed(m, path, p) ELSE Release(g[l - 1], path[l], Offset(p, l))]
            S == {n \in Nat : \E g : G(g, n)}
            F(s) == [l \in 1..Levels |-> IF l = 1 THEN FirstFreed(m, path, p) ELSE Release(s[l - 1], path[l], Offset(p, l))]
            s == CHOOSE f : f = F(f)
<1>0. Levels - 1 \in Nat /\ (Levels - 1) + 1 = Levels /\ 1 \in 1..Levels /\ \A l \in 2..Levels : l \in 1..Levels /\ l # 1
  BY PageTablesAssumption
<1>1. 0 \in S
  <2>. DEFINE g == [l \in 1..1 |-> FirstFreed(m, path, p)]
  <2>1. G(g, 0)
    OBVIOUS
  <2>. HIDE DEF G, g
  <2>. QED BY <2>1
<1>2. ASSUME NEW n \in Nat, n \in S PROVE n + 1 \in S
  <2>1. PICK h : G(h, n)
    BY <1>2
  <2>. DEFINE b == (n + 1) + 1
              g == [l \in 1..b |-> IF l = b THEN Release(h[b - 1], path[b], Offset(p, b)) ELSE h[l]]
  <2>2. ASSUME NEW l \in 1..b
        PROVE  g[l] = IF l = 1 THEN FirstFreed(m, path, p) ELSE Release(g[l - 1], path[l], Offset(p, l))
    <3>1. CASE l = b
      <4>1. l # 1 /\ b - 1 \in 1..b /\ b - 1 # b
        BY <3>1
      <4>. QED BY <3>1, <4>1
    <3>2. CASE l # b
      <4>1. l \in 1..(n + 1)
        BY <3>2
      <4>2. l = 1 \/ (l - 1 \in 1..b /\ l - 1 # b)
        OBVIOUS
      <4>. QED BY <2>1, <3>2, <4>1, <4>2
    <3>. QED BY <3>1, <3>2
  <2>3. G(g, n + 1)
    BY <2>2
  <2>. HIDE DEF G, g
  <2>. QED BY <2>3
<1>3. Nat \subseteq S
  <2>. HIDE DEF S
  <2>. QED BY <1>1, <1>2, SetInduction
<1>4. PICK g : G(g, Levels - 1)
  <2>. HIDE DEF G
  <2>. QED BY <1>0, <1>3
<1>5. g = F(g)
  BY <1>0, <1>4
<1>6. s = F(s)
  <2>. HIDE DEF F
  <2>. QED BY <1>5
<1>7. FreeOf(m, path, p) = s
  BY DEF FreeOf
<1>. HIDE DEF s
<1>8. \A l \in 1..Levels : s[l] = IF l = 1 THEN FirstFreed(m, path, p) ELSE Release(s[l - 1], path[l], Offset(p, l))
  BY <1>6
<1>. QED BY <1>0, <1>7, <1>8


\* free_traverse is its way back.
LEMMA FreePageParts ==
  ASSUME NEW m, NEW p
  PROVE  FreePage(m, p) = FreeOf(m, Path(m, p), p)[Levels]
BY DEF FreePage, FreeOf, FirstFreed

\* free_traverse: a mapped page loses its frame.
LEMMA FreePageFacts ==
  ASSUME NEW m, Sound(m), NEW p \in Page, Walk(m, p, 0) # -1, NEW n, n = FreePage(m, p)
  PROVE  Sound(n) /\ Lost(m, n, p) /\ n.kernel = m.kernel
<1>0. 1 \in Level /\ 1 - 1 = 0 /\ 0 \in 0..Levels /\ 1 \in 0..Levels /\ Levels \in Nat \ {0}
  BY LevelFacts
<1>. PICK path : path = Path(m, p)
  OBVIOUS
<1>. PICK u : u = FreeOf(m, path, p)
  OBVIOUS
<1>1. \A l \in Level : path[l] = Walk(m, p, l)
  BY LevelFacts DEF Walk
<1>2. \A l \in 0..Levels : Walk(m, p, l) # -1
  <2>1. ASSUME NEW l \in 0..Levels, Walk(m, p, l) = -1 PROVE FALSE
    <3>1. 0 \in 0..l
      OBVIOUS
    <3>. QED BY <2>1, <3>1, WalkMissing
  <2>. QED BY <2>1
<1>3. u[1] = FirstFreed(m, path, p) /\ \A l \in 2..Levels : u[l] = Release(u[l - 1], path[l], Offset(p, l))
  <2>1. \A l \in 1 + 1..Levels : u[l] = Release(u[l - 1], path[l], Offset(p, l))
    BY FreeFacts
  <2>2. u[1] = FirstFreed(m, path, p)
    BY FreeFacts
  <2>. QED BY <2>1, <2>2
<1>. DEFINE Good(l) == /\ Sound(u[l]) /\ KeepsAbove(m, u[l], l) /\ u[l].kernel = m.kernel
                       /\ Lost(m, u[l], p)
            S == {k \in Nat : k < Levels => Good(k + 1)}
<1>4. Good(1)
  <2>1. PICK l : l = 1
    OBVIOUS
  <2>2. PICK a : a = SetEntry(m, Walk(m, p, l), Offset(p, l), Blank)
    OBVIOUS
  <2>3. PICK b : b = GiveFrame(a, 0)
    OBVIOUS
  <2>4. u[1] = b
    BY <1>0, <1>1, <1>3, <2>1, <2>2, <2>3 DEF FirstFreed
  <2>5. Blank \in Entry /\ Target(Blank) = -1
    BY PageTablesAssumption DEF Blank, Entry, Target, Frames
  <2>6. l \in Level /\ Walk(m, p, l) # -1 /\ l - 1 = 0
    BY <1>0, <1>2, <2>1
  <2>7. Sound(a) /\ SameRest(m, a) /\ CutOff(m, a, p, l)
    BY <2>2, <2>5, <2>6, PutCut
  <2>8. Sound(b) /\ SameWalks(a, b) /\ b.kernel = a.kernel
    BY <2>3, <2>7, GiveZero
  <2>9. \A q \in Page : \A k \in 0..Levels : Beneath(q, k, p, l) <=> k = 0 /\ q = p
    BY <1>0, <2>1, <2>6, PrefixFacts DEF Beneath
  <2>10. \A q \in Page : \A k \in 0..Levels :
           Walk(b, q, k) = IF k = 0 /\ q = p THEN -1 ELSE Walk(m, q, k)
    BY <2>7, <2>8, <2>9 DEF CutOff, SameWalks
  <2>11. KeepsAbove(m, b, 1) /\ Lost(m, b, p)
    BY <1>0, <2>10 DEF KeepsAbove, Lost
  <2>. QED BY <2>4, <2>7, <2>8, <2>11 DEF SameRest
<1>5. 0 \in S
  <2>1. 0 + 1 = 1
    OBVIOUS
  <2>. HIDE DEF Good
  <2>. QED BY <1>4, <2>1
<1>6. ASSUME NEW k \in Nat, k \in S PROVE k + 1 \in S
  <2>. SUFFICES ASSUME k + 1 < Levels PROVE Good((k + 1) + 1)
    <3>. HIDE DEF Good
    <3>. QED OBVIOUS
  <2>1. PICK l : l = (k + 1) + 1
    OBVIOUS
  <2>2. l \in Level /\ l # 1 /\ l - 1 = k + 1 /\ l \in 2..Levels /\ k < Levels
        /\ l \in 0..Levels /\ l - 1 \in 0..Levels /\ l >= l - 1 /\ l - 1 >= l - 1
    BY <1>0, <2>1 DEF Level
  <2>3. Good(l - 1)
    <3>. HIDE DEF Good
    <3>. QED BY <1>6, <2>2
  <2>4. PICK a : a = u[l - 1]
    OBVIOUS
  <2>5. PICK b : b = u[l]
    OBVIOUS
  <2>6. Sound(a) /\ KeepsAbove(m, a, l - 1) /\ a.kernel = m.kernel /\ Lost(m, a, p)
    BY <2>3, <2>4
  <2>7. Walk(a, p, l) = Walk(m, p, l) /\ Walk(a, p, l - 1) = Walk(m, p, l - 1)
    BY <2>2, <2>6 DEF KeepsAbove
  <2>8. Walk(a, p, l) # -1 /\ Walk(a, p, l - 1) # -1
    BY <1>2, <2>2, <2>7
  <2>9. b = Release(a, Walk(a, p, l), Offset(p, l))
    BY <1>1, <1>3, <2>2, <2>4, <2>5, <2>7
  <2>10. Sound(b) /\ KeepsLeaves(a, b) /\ KeepsAbove(a, b, l) /\ b.kernel = a.kernel
    BY <2>2, <2>6, <2>8, <2>9, ReleaseFacts
  <2>11. KeepsAbove(m, b, l)
    BY <2>2, <2>6, <2>10 DEF KeepsAbove
  <2>12. Lost(m, b, p)
    BY <2>6, <2>10 DEF Lost, KeepsLeaves
  <2>. QED BY <2>1, <2>5, <2>6, <2>10, <2>11, <2>12
<1>7. Nat \subseteq S
  <2>. HIDE DEF S
  <2>. QED BY <1>5, <1>6, SetInduction
<1>8. Good(Levels)
  <2>1. Levels - 1 \in Nat /\ Levels - 1 < Levels /\ (Levels - 1) + 1 = Levels
    BY <1>0
  <2>. HIDE DEF Good
  <2>. QED BY <1>7, <2>1
<1>. QED BY <1>8, FreePageParts

-----------------------------------------------------------------------------
(* Map *)

\* A page that had no frame may have got one, and no other page changed.
Grown(m, n) == \A q \in Page : Walk(m, q, 0) # -1 => Walk(n, q, 0) = Walk(m, q, 0)

\* A frame that the caller holds and no walk passes.
Spare(m, f) == f \in m.taken /\ f \in Frames /\ Unused(m, f)

\* A spare frame stays spare as long as the walks do.
LEMMA SpareKept ==
  ASSUME NEW m, NEW n, SameWalks(m, n), m.taken \subseteq n.taken
  PROVE  \A f : Spare(m, f) => Spare(n, f)
BY DEF Spare, Unused, SameWalks

\* The entry on the way to a page of the kernel.
LEMMA OnTheWayFacts ==
  ASSUME NEW e \in Entry, NEW f \in Frames, NEW g, g = OnTheWay(e, f, KernelRights)
  PROVE  g \in Entry /\ Target(g) = f /\ Kernels(g)
BY DEF OnTheWay, KernelRights, Entry, Target, Kernels

\* map, one level down.
LEMMA BelowFacts ==
  ASSUME NEW w, w = [mem |-> w.mem, table |-> w.table], Sound(w.mem), w.mem.kernel = "running",
         NEW p \in Page, NEW l \in Level, l # 1, Walk(w.mem, p, l) = w.table, w.table # -1,
         NEW v, v = Below(w, Offset(p, l), KernelRights)
  PROVE  /\ v = [mem |-> v.mem, table |-> v.table] /\ Sound(v.mem) /\ KeepsLeaves(w.mem, v.mem)
         /\ v.mem.kernel = "running" => /\ Walk(v.mem, p, l - 1) = v.table /\ v.table # -1
                                        /\ \A f : Spare(w.mem, f) => Spare(v.mem, f)
<1>0. l - 1 \in 0..Levels /\ l - 1 # 0 /\ l \in 0..Levels /\ l \in Nat
  BY LevelFacts
<1>. PICK a : a = w.mem
  OBVIOUS
<1>. PICK t : t = w.table
  OBVIOUS
<1>. PICK i : i = Offset(p, l)
  OBVIOUS
<1>1. Sound(a) /\ a.kernel = "running" /\ Walk(a, p, l) = t /\ t # -1 /\ IsMemory(a)
  BY DEF Sound
<1>2. PICK e : e = a.tables[t][i]
  OBVIOUS
<1>3. EntryAt(a, p, l) = e
  BY <1>1, <1>2 DEF EntryAt, Cell
<1>4. e \in Entry /\ Walk(a, p, l - 1) = Target(e)
  BY <1>1, <1>3, TableAt
<1>5. CASE e.present
  <2>1. PICK g : g = OnTheWay(e, e.frame, KernelRights)
    OBVIOUS
  <2>2. PICK n : n = SetEntry(a, t, i, g)
    OBVIOUS
  <2>3. v = [mem |-> n, table |-> e.frame]
    BY <1>1, <1>2, <1>5, <2>1, <2>2 DEF Below
  <2>4. e.frame \in Frames /\ e.frame # -1 /\ Walk(a, p, l - 1) = e.frame
    BY <1>4, <1>5 DEF Entry, Target, Frames
  <2>5. g \in Entry /\ Target(g) = e.frame /\ Kernels(g)
    BY <1>4, <2>1, <2>4, OnTheWayFacts
  <2>6. n = SetEntry(a, Walk(a, p, l), Offset(p, l), g)
    BY <1>1, <2>2
  <2>7. Sound(n) /\ SameWalks(a, n) /\ SameRest(a, n)
    BY <1>1, <2>4, <2>5, <2>6, PutTouched
  <2>8. v.mem = n /\ v.table = e.frame
    BY <2>3
  <2>9. Walk(n, p, l - 1) = e.frame
    BY <1>0, <2>4, <2>7 DEF SameWalks
  <2>10. \A f : Spare(a, f) => Spare(n, f)
    BY <2>7, SpareKept DEF SameRest
  <2>. QED BY <2>3, <2>4, <2>7, <2>8, <2>9, <2>10, KeepsSame
<1>6. CASE ~e.present /\ NoFrame(a)
  <2>1. v = [mem |-> Halt(a), table |-> t]
    <3>1. Halt(a).kernel # "running"
      BY <1>1, StopSound
    <3>. QED BY <1>1, <1>2, <1>6, <3>1 DEF Below
  <2>2. v.mem = Halt(a) /\ v.table = t
    BY <2>1
  <2>3. Sound(Halt(a)) /\ SameWalks(a, Halt(a)) /\ Halt(a).kernel = "halted"
    BY <1>1, StopSound
  <2>. QED BY <2>1, <2>2, <2>3, KeepsSame
<1>7. CASE ~e.present /\ ~NoFrame(a)
  <2>. PICK f : f = NextFrame(a)
    OBVIOUS
  <2>. PICK b : b = TakeFrame(a)
    OBVIOUS
  <2>1. f \in Frames /\ f # -1 /\ f \notin a.taken
    BY <1>1, <1>7, NextFrameFacts
  <2>2. /\ Sound(b) /\ SameWalks(a, b)
        /\ \/ b.kernel = "corrupt"
           \/ /\ b.kernel = a.kernel /\ Unused(a, f)
              /\ b.taken = a.taken \cup {f}
    BY <1>1, <1>7, TakeFrameFacts
  <2>3. CASE b.kernel # "running"
    <3>1. v = [mem |-> b, table |-> t]
      BY <1>1, <1>2, <1>7, <2>3 DEF Below
    <3>2. v.mem = b /\ v.table = t
      BY <3>1
    <3>. QED BY <2>2, <2>3, <3>1, <3>2, KeepsSame
  <2>4. CASE b.kernel = "running"
    <3>1. Unused(a, f) /\ b.taken = a.taken \cup {f}
      BY <2>2, <2>4
    <3>2. Unused(b, f)
      BY <2>2, <3>1 DEF Unused, SameWalks
    <3>3. PICK g : g = OnTheWay(e, f, KernelRights)
      OBVIOUS
    <3>4. PICK x : x = SetEntry(b, t, i, g)
      OBVIOUS
    <3>5. PICK n : Attached(x, n, f)
      BY DEF Attached
    <3>6. v = [mem |-> n, table |-> f]
      BY <1>1, <1>2, <1>7, <2>4, <3>3, <3>4, <3>5 DEF Below, Attached
    <3>7. g \in Entry /\ Target(g) = f /\ Kernels(g)
      BY <1>4, <2>1, <3>3, OnTheWayFacts
    <3>8. Walk(b, p, l) = t /\ Walk(b, p, l) # -1 /\ Walk(b, p, l - 1) = -1
      BY <1>0, <1>1, <1>4, <1>7, <2>2 DEF SameWalks, Target
    <3>9. x = SetEntry(b, Walk(b, p, l), Offset(p, l), g)
      BY <3>4, <3>8
    <3>10. /\ IsMemory(n) /\ Edited(b, n, Walk(b, p, l), Offset(p, l), g)
           /\ Emptied(n, f) /\ f \in DOMAIN n.tables /\ DOMAIN b.tables \subseteq DOMAIN n.tables
           /\ n.taken = b.taken
      <4>1. Sound(b)
        BY <2>2
      <4>. QED BY <2>1, <3>2, <3>5, <3>7, <3>8, <3>9, <4>1, AttachFacts
    <3>11. Sound(n) /\ Linked(b, n, p, l, f)
      <4>1. Sound(b) /\ (f \in DOMAIN n.tables /\ Emptied(n, f))
        BY <2>2, <3>10
      <4>2. b.taken \subseteq n.taken \cup {0} /\ f \in n.taken
        BY <3>1, <3>10
      <4>. QED BY <2>1, <3>2, <3>7, <3>8, <3>10, <4>1, <4>2, SoundLinked
    <3>12. Walk(n, p, l - 1) = f
      BY <1>0, <3>11, LevelFacts DEF Linked, Beneath
    <3>13. KeepsLeaves(b, n)
      BY <1>0, <3>11, LevelFacts DEF Linked, KeepsLeaves
    <3>14. KeepsLeaves(a, n)
      BY <2>2, <3>13, LevelFacts DEF KeepsLeaves, SameWalks
    <3>15. ASSUME NEW h, Spare(a, h) PROVE Spare(n, h)
      <4>1. h # f /\ h \in n.taken /\ h \in Frames
        BY <2>1, <3>1, <3>10, <3>15 DEF Spare
      <4>2. \A q \in Page : \A k \in 0..Levels : Walk(n, q, k) = f \/ Walk(n, q, k) = Walk(a, q, k)
        BY <2>2, <3>11 DEF Linked, SameWalks
      <4>. QED BY <4>1, <4>2, <3>15 DEF Spare, Unused
    <3>16. v.mem = n /\ v.table = f
      BY <3>6
    <3>. QED BY <2>1, <3>6, <3>11, <3>12, <3>14, <3>15, <3>16
  <2>. QED BY <2>3, <2>4
<1>. QED BY <1>5, <1>6, <1>7

MapOf(m, p) ==
  CHOOSE w : w = [l \in 1..Levels |->
    IF l = Levels THEN [mem |-> m, table |-> Root] ELSE Below(w[l + 1], Offset(p, l + 1), KernelRights)]

\* map's walk down is defined at every level.
LEMMA MapOfFacts ==
  ASSUME NEW m, NEW p
  PROVE  /\ MapOf(m, p)[Levels] = [mem |-> m, table |-> Root]
         /\ \A l \in 1..(Levels - 1) : MapOf(m, p)[l] = Below(MapOf(m, p)[l + 1], Offset(p, l + 1), KernelRights)
<1>. USE PageTablesAssumption
<1>. DEFINE G(g, n) == g = [l \in (Levels - n)..Levels |-> IF l = Levels THEN [mem |-> m, table |-> Root] ELSE Below(g[l + 1], Offset(p, l + 1), KernelRights)]
            S == {n \in Nat : \E g : G(g, n)}
            F(s) == [l \in 1..Levels |-> IF l = Levels THEN [mem |-> m, table |-> Root] ELSE Below(s[l + 1], Offset(p, l + 1), KernelRights)]
            s == CHOOSE f : f = F(f)
<1>1. 0 \in S
  <2>. DEFINE g == [l \in (Levels - 0)..Levels |-> [mem |-> m, table |-> Root]]
  <2>1. G(g, 0)
    OBVIOUS
  <2>. HIDE DEF G, g
  <2>. QED BY <2>1
<1>2. ASSUME NEW n \in Nat, n \in S PROVE n + 1 \in S
  <2>1. PICK h : G(h, n)
    BY <1>2
  <2>. DEFINE b == Levels - (n + 1)
              g == [l \in b..Levels |-> IF l = b THEN Below(h[b + 1], Offset(p, b + 1), KernelRights) ELSE h[l]]
  <2>2. ASSUME NEW l \in b..Levels
        PROVE  g[l] = IF l = Levels THEN [mem |-> m, table |-> Root] ELSE Below(g[l + 1], Offset(p, l + 1), KernelRights)
    <3>1. CASE l = b
      <4>1. l # Levels /\ b + 1 \in b..Levels /\ b + 1 # b
        BY <3>1
      <4>. QED BY <3>1, <4>1
    <3>2. CASE l # b
      <4>1. l \in (Levels - n)..Levels
        BY <3>2
      <4>2. l = Levels \/ (l + 1 \in b..Levels /\ l + 1 # b)
        OBVIOUS
      <4>. QED BY <2>1, <3>2, <4>1, <4>2
    <3>. QED BY <3>1, <3>2
  <2>3. G(g, n + 1)
    BY <2>2
  <2>. HIDE DEF G, g
  <2>. QED BY <2>3
<1>3. Nat \subseteq S
  <2>. HIDE DEF S
  <2>. QED BY <1>1, <1>2, SetInduction
<1>4. PICK g : G(g, Levels - 1)
  <2>1. Levels - 1 \in Nat
    OBVIOUS
  <2>. HIDE DEF G
  <2>. QED BY <1>3, <2>1
<1>5. g = F(g)
  <2>1. Levels - (Levels - 1) = 1
    OBVIOUS
  <2>. QED BY <1>4, <2>1
<1>6. s = F(s)
  <2>. HIDE DEF F
  <2>. QED BY <1>5
<1>7. MapOf(m, p) = s
  BY DEF MapOf
<1>. HIDE DEF s
<1>8. \A l \in 1..Levels : s[l] = IF l = Levels THEN [mem |-> m, table |-> Root] ELSE Below(s[l + 1], Offset(p, l + 1), KernelRights)
  BY <1>6, SMTT(30)
<1>. QED BY <1>7, <1>8

LeafSet(a, t, i, f, n) ==
  n = SetEntry(a, t, i, [a.tables[t][i] EXCEPT !.present = TRUE, !.frame = f,
                                               !.write = TRUE, !.user = FALSE])

\* map is its way down and the last entry.
LEMMA MapParts ==
  ASSUME NEW m, NEW f, NEW p, NEW w, w = MapOf(m, p), NEW a, a = w[1].mem, NEW t, t = w[1].table,
         NEW n, n = Map(m, f, p, KernelRights)
  PROVE  /\ a.kernel # "running" => n = a
         /\ a.kernel = "running" => LeafSet(a, t, Offset(p, 1), f, n)
BY DEF Map, MapOf, LeafSet, KernelRights

\* map: a page outside the searched windows gets the frame.
LEMMA MapFacts ==
  ASSUME NEW m, Sound(m), m.kernel = "running", NEW p \in Page, ~Windowed(p), Walk(m, p, 0) = -1,
         NEW f, Spare(m, f), NEW n, n = Map(m, f, p, KernelRights)
  PROVE  /\ Sound(n)
         /\ n.kernel = "running" => Gained(m, n, p)
         /\ n.kernel # "running" => KeepsLeaves(m, n)
<1>0. /\ 1 \in Level /\ 1 - 1 = 0 /\ 0 \in 0..Levels /\ 1 \in 0..Levels /\ Levels \in Nat \ {0}
      /\ f \in Frames /\ f # -1
  BY LevelFacts DEF Spare, Frames
<1>. PICK w : w = MapOf(m, p)
  OBVIOUS
<1>1. w[Levels] = [mem |-> m, table |-> Root]
      /\ \A l \in 1..(Levels - 1) : w[l] = Below(w[l + 1], Offset(p, l + 1), KernelRights)
  BY MapOfFacts
<1>. DEFINE Good(l) == /\ w[l] = [mem |-> w[l].mem, table |-> w[l].table]
                       /\ Sound(w[l].mem) /\ KeepsLeaves(m, w[l].mem)
                       /\ w[l].mem.kernel = "running" =>
                            /\ Walk(w[l].mem, p, l) = w[l].table /\ w[l].table # -1
                            /\ Spare(w[l].mem, f)
            S == {k \in Nat : k < Levels => Good(Levels - k)}
<1>2. Good(Levels)
  <2>1. Walk(m, p, Levels) = Root /\ Root # -1
    BY WalkFacts, PageTablesAssumption
  <2>2. w[Levels].mem = m /\ w[Levels].table = Root
    BY <1>1
  <2>. QED BY <1>1, <2>1, <2>2, KeepsItself
<1>3. 0 \in S
  <2>1. Levels - 0 = Levels
    BY <1>0
  <2>. HIDE DEF Good
  <2>. QED BY <1>2, <2>1
<1>4. ASSUME NEW k \in Nat, k \in S PROVE k + 1 \in S
  <2>. SUFFICES ASSUME k + 1 < Levels PROVE Good(Levels - (k + 1))
    <3>. HIDE DEF Good
    <3>. QED OBVIOUS
  <2>1. PICK l : l = Levels - k
    OBVIOUS
  <2>2. l \in Level /\ l # 1 /\ l - 1 = Levels - (k + 1) /\ l - 1 \in 1..(Levels - 1) /\ (l - 1) + 1 = l
        /\ k < Levels
    BY <1>0, <2>1 DEF Level
  <2>3. Good(l)
    <3>. HIDE DEF Good
    <3>. QED BY <1>4, <2>1, <2>2
  <2>4. PICK a : a = w[l]
    OBVIOUS
  <2>5. PICK b : b = w[l - 1]
    OBVIOUS
  <2>6. b = Below(a, Offset(p, l), KernelRights)
    BY <1>1, <2>2, <2>4, <2>5
  <2>7. /\ a = [mem |-> a.mem, table |-> a.table]
        /\ Sound(a.mem) /\ KeepsLeaves(m, a.mem)
        /\ a.mem.kernel = "running" =>
             /\ Walk(a.mem, p, l) = a.table /\ a.table # -1 /\ Spare(a.mem, f)
    BY <2>3, <2>4
  <2>8. CASE a.mem.kernel # "running"
    <3>1. b = a
      BY <2>6, <2>8 DEF Below
    <3>. QED BY <2>2, <2>5, <2>7, <2>8, <3>1
  <2>9. CASE a.mem.kernel = "running"
    <3>1. /\ b = [mem |-> b.mem, table |-> b.table] /\ Sound(b.mem) /\ KeepsLeaves(a.mem, b.mem)
          /\ b.mem.kernel = "running" => /\ Walk(b.mem, p, l - 1) = b.table /\ b.table # -1
                                         /\ \A h : Spare(a.mem, h) => Spare(b.mem, h)
      BY <2>2, <2>6, <2>7, <2>9, BelowFacts
    <3>2. KeepsLeaves(m, b.mem)
      BY <2>7, <3>1 DEF KeepsLeaves
    <3>. QED BY <2>2, <2>5, <2>7, <2>9, <3>1, <3>2
  <2>. QED BY <2>8, <2>9
<1>5. Nat \subseteq S
  <2>. HIDE DEF S
  <2>. QED BY <1>3, <1>4, SetInduction
<1>6. Good(1)
  <2>1. Levels - 1 \in Nat /\ Levels - 1 < Levels /\ Levels - (Levels - 1) = 1
    BY <1>0
  <2>. HIDE DEF Good
  <2>. QED BY <1>5, <2>1
<1>. PICK a : a = w[1].mem
  OBVIOUS
<1>. PICK t : t = w[1].table
  OBVIOUS
<1>7. /\ Sound(a) /\ KeepsLeaves(m, a)
      /\ a.kernel = "running" => Walk(a, p, 1) = t /\ t # -1 /\ Spare(a, f)
  BY <1>6
<1>10. PICK e : e = a.tables[t][Offset(p, 1)]
  OBVIOUS
<1>11. PICK g : g = [e EXCEPT !.present = TRUE, !.frame = f, !.write = TRUE, !.user = FALSE]
  OBVIOUS
<1>8. CASE a.kernel # "running"
  <2>1. n = a
    BY <1>8, MapParts
  <2>. QED BY <1>7, <1>8, <2>1
<1>9. CASE a.kernel = "running"
  <2>. PICK l : l = 1
    OBVIOUS
  <2>1. n = SetEntry(a, t, Offset(p, 1), g)
    <3>1. LeafSet(a, t, Offset(p, 1), f, n)
      BY <1>9, MapParts
    <3>. QED BY <3>1, <1>10, <1>11 DEF LeafSet
  <2>2. n = SetEntry(a, Walk(a, p, l), Offset(p, l), g) /\ Walk(a, p, l) # -1 /\ l \in Level /\ l - 1 = 0
    BY <1>0, <1>7, <1>9, <2>1
  <2>3. Walk(a, p, l - 1) = -1
    BY <1>7, <2>2 DEF KeepsLeaves
  <2>4. EntryAt(a, p, l) = e
    BY <1>7, <1>9, <1>10 DEF EntryAt, Cell
  <2>5. e \in Entry
    BY <1>7, <2>2, <2>4, TableAt
  <2>6. g \in Entry /\ Target(g) = f /\ Kernels(g)
    BY <1>0, <1>11, <2>5 DEF Entry, Target, Kernels
  <2>7. IsMemory(n) /\ SameRest(a, n) /\ Edited(a, n, Walk(a, p, l), Offset(p, l), g)
    <3>1. Sound(a)
      BY <1>7
    <3>. QED BY <2>2, <2>6, <3>1, PutFacts
  <2>8. Sound(n) /\ Linked(a, n, p, l, f)
    <3>1. a.taken \subseteq n.taken \cup {0} /\ f \in n.taken /\ DOMAIN a.tables \subseteq DOMAIN n.tables
      BY <1>7, <1>9, <2>7 DEF SameRest, Spare
    <3>2. Unused(a, f) /\ Sound(a)
      BY <1>7, <1>9 DEF Spare
    <3>3. ~(l = 1 /\ Windowed(p)) /\ (l = 1 \/ (f \in DOMAIN n.tables /\ Emptied(n, f)))
      OBVIOUS
    <3>. QED BY <1>0, <2>2, <2>3, <2>6, <2>7, <3>1, <3>2, <3>3, SoundLinked
  <2>9. \A q \in Page : \A k \in 0..Levels : Beneath(q, k, p, l) /\ k = l - 1 <=> k = 0 /\ q = p
    BY <1>0, <2>2, PrefixFacts DEF Beneath
  <2>10. Walk(n, p, 0) = f /\ \A q \in Page : q # p => Walk(n, q, 0) = Walk(a, q, 0)
    BY <1>0, <2>8, <2>9 DEF Linked
  <2>11. Gained(m, n, p)
    BY <1>0, <1>7, <2>10 DEF Gained, KeepsLeaves
  <2>12. n.kernel = "running"
    BY <1>9, <2>7 DEF SameRest
  <2>. QED BY <2>8, <2>11, <2>12
<1>. QED BY <1>8, <1>9

\* A page of a run gets a frame, or the kernel stops.
LEMMA MapNextFacts ==
  ASSUME NEW m, Sound(m), NEW p \in Page, ~Windowed(p), Walk(m, p, 0) = -1, NEW n, n = MapNext(m, p)
  PROVE  /\ Sound(n)
         /\ n.kernel = "running" => m.kernel = "running" /\ Gained(m, n, p)
         /\ n.kernel # "running" => KeepsLeaves(m, n)
<1>0. IsMemory(m)
  BY DEF Sound
<1>1. CASE m.kernel # "running"
  <2>1. n = m
    BY <1>1 DEF MapNext
  <2>. QED BY <1>1, <2>1, KeepsItself
<1>2. CASE m.kernel = "running" /\ NoFrame(m)
  <2>1. Sound(Halt(m)) /\ SameWalks(m, Halt(m)) /\ Halt(m).kernel = "halted"
    BY StopSound
  <2>2. n = Halt(m)
    BY <1>2, <2>1 DEF MapNext
  <2>. QED BY <2>1, <2>2, KeepsSame
<1>3. CASE m.kernel = "running" /\ ~NoFrame(m)
  <2>. PICK a : a = TakeFrame(m)
    OBVIOUS
  <2>. PICK f : f = NextFrame(m)
    OBVIOUS
  <2>1. f \in Frames /\ f # -1
    BY <1>0, <1>3, NextFrameFacts
  <2>2. /\ Sound(a) /\ SameWalks(m, a)
        /\ \/ a.kernel = "corrupt"
           \/ /\ a.kernel = m.kernel /\ Unused(m, f)
              /\ a.taken = m.taken \cup {f}
    BY <1>3, TakeFrameFacts
  <2>3. CASE a.kernel # "running"
    <3>1. n = a
      BY <1>3, <2>3 DEF MapNext
    <3>. QED BY <2>2, <2>3, <3>1, KeepsSame
  <2>5. CASE a.kernel = "running"
    <3>1. n = Map(a, f, p, KernelRights)
      BY <1>3, <2>5 DEF MapNext
    <3>3. Walk(a, p, 0) = -1
      BY <2>2, LevelFacts DEF SameWalks
    <3>4. Spare(a, f)
      <4>1. Unused(m, f) /\ a.taken = m.taken \cup {f}
        BY <2>2, <2>5
      <4>. QED BY <2>1, <2>2, <4>1 DEF Spare, Unused, SameWalks
    <3>5. /\ Sound(n)
          /\ n.kernel = "running" => Gained(a, n, p)
          /\ n.kernel # "running" => KeepsLeaves(a, n)
      BY <2>2, <2>5, <3>1, <3>3, <3>4, MapFacts
    <3>6. KeepsLeaves(m, a)
      BY <2>2, KeepsSame
    <3>. QED BY <1>3, <3>5, <3>6 DEF Gained, KeepsLeaves
  <2>. QED BY <2>3, <2>5
<1>. QED BY <1>1, <1>2, <1>3

-----------------------------------------------------------------------------
(* Runs of pages *)

MapRunOf(m, start, count) ==
  CHOOSE r : r = [l \in 0..count |-> IF l = 0 THEN m ELSE MapNext(r[l - 1], start + l - 1)]
UnmapRunOf(m, start, count) ==
  CHOOSE r : r = [l \in 0..count |-> IF l = 0 THEN m ELSE UnmapNext(r[l - 1], start + l - 1)]

\* The steps of a run are defined for every page.
LEMMA MapRunOfFacts ==
  ASSUME NEW m, NEW start, NEW count \in Nat
  PROVE  /\ MapRunOf(m, start, count)[0] = m
         /\ \A l \in 1..count : MapRunOf(m, start, count)[l] = MapNext(MapRunOf(m, start, count)[l - 1], start + l - 1)
<1>. DEFINE G(g, n) == g = [l \in 0..n |-> IF l = 0 THEN m ELSE MapNext(g[l - 1], start + l - 1)]
            S == {n \in Nat : \E g : G(g, n)}
            F(s) == [l \in 0..count |-> IF l = 0 THEN m ELSE MapNext(s[l - 1], start + l - 1)]
            s == CHOOSE f : f = F(f)
<1>0. count \in Nat /\ count = count /\ 0 \in 0..count /\ \A l \in 1..count : l \in 0..count /\ l # 0
  OBVIOUS
<1>1. 0 \in S
  <2>. DEFINE g == [l \in 0..0 |-> m]
  <2>1. G(g, 0)
    OBVIOUS
  <2>. HIDE DEF G, g
  <2>. QED BY <2>1
<1>2. ASSUME NEW n \in Nat, n \in S PROVE n + 1 \in S
  <2>1. PICK h : G(h, n)
    BY <1>2
  <2>. DEFINE b == n + 1
              g == [l \in 0..b |-> IF l = b THEN MapNext(h[b - 1], start + b - 1) ELSE h[l]]
  <2>2. ASSUME NEW l \in 0..b
        PROVE  g[l] = IF l = 0 THEN m ELSE MapNext(g[l - 1], start + l - 1)
    <3>1. CASE l = b
      <4>1. l # 0 /\ b - 1 \in 0..b /\ b - 1 # b
        BY <3>1
      <4>. QED BY <3>1, <4>1
    <3>2. CASE l # b
      <4>1. l \in 0..n
        BY <3>2
      <4>2. l = 0 \/ (l - 1 \in 0..b /\ l - 1 # b)
        OBVIOUS
      <4>. QED BY <2>1, <3>2, <4>1, <4>2
    <3>. QED BY <3>1, <3>2
  <2>3. G(g, n + 1)
    BY <2>2
  <2>. HIDE DEF G, g
  <2>. QED BY <2>3
<1>3. Nat \subseteq S
  <2>. HIDE DEF S
  <2>. QED BY <1>1, <1>2, SetInduction
<1>4. PICK g : G(g, count)
  <2>. HIDE DEF G
  <2>. QED BY <1>0, <1>3
<1>5. g = F(g)
  BY <1>0, <1>4
<1>6. s = F(s)
  <2>. HIDE DEF F
  <2>. QED BY <1>5
<1>7. MapRunOf(m, start, count) = s
  BY DEF MapRunOf
<1>. HIDE DEF s
<1>8. \A l \in 0..count : s[l] = IF l = 0 THEN m ELSE MapNext(s[l - 1], start + l - 1)
  BY <1>6
<1>. QED BY <1>0, <1>7, <1>8

\* And for every page unmapped.
LEMMA UnmapRunOfFacts ==
  ASSUME NEW m, NEW start, NEW count \in Nat
  PROVE  /\ UnmapRunOf(m, start, count)[0] = m
         /\ \A l \in 1..count : UnmapRunOf(m, start, count)[l] = UnmapNext(UnmapRunOf(m, start, count)[l - 1], start + l - 1)
<1>. DEFINE G(g, n) == g = [l \in 0..n |-> IF l = 0 THEN m ELSE UnmapNext(g[l - 1], start + l - 1)]
            S == {n \in Nat : \E g : G(g, n)}
            F(s) == [l \in 0..count |-> IF l = 0 THEN m ELSE UnmapNext(s[l - 1], start + l - 1)]
            s == CHOOSE f : f = F(f)
<1>0. count \in Nat /\ count = count /\ 0 \in 0..count /\ \A l \in 1..count : l \in 0..count /\ l # 0
  OBVIOUS
<1>1. 0 \in S
  <2>. DEFINE g == [l \in 0..0 |-> m]
  <2>1. G(g, 0)
    OBVIOUS
  <2>. HIDE DEF G, g
  <2>. QED BY <2>1
<1>2. ASSUME NEW n \in Nat, n \in S PROVE n + 1 \in S
  <2>1. PICK h : G(h, n)
    BY <1>2
  <2>. DEFINE b == n + 1
              g == [l \in 0..b |-> IF l = b THEN UnmapNext(h[b - 1], start + b - 1) ELSE h[l]]
  <2>2. ASSUME NEW l \in 0..b
        PROVE  g[l] = IF l = 0 THEN m ELSE UnmapNext(g[l - 1], start + l - 1)
    <3>1. CASE l = b
      <4>1. l # 0 /\ b - 1 \in 0..b /\ b - 1 # b
        BY <3>1
      <4>. QED BY <3>1, <4>1
    <3>2. CASE l # b
      <4>1. l \in 0..n
        BY <3>2
      <4>2. l = 0 \/ (l - 1 \in 0..b /\ l - 1 # b)
        OBVIOUS
      <4>. QED BY <2>1, <3>2, <4>1, <4>2
    <3>. QED BY <3>1, <3>2
  <2>3. G(g, n + 1)
    BY <2>2
  <2>. HIDE DEF G, g
  <2>. QED BY <2>3
<1>3. Nat \subseteq S
  <2>. HIDE DEF S
  <2>. QED BY <1>1, <1>2, SetInduction
<1>4. PICK g : G(g, count)
  <2>. HIDE DEF G
  <2>. QED BY <1>0, <1>3
<1>5. g = F(g)
  BY <1>0, <1>4
<1>6. s = F(s)
  <2>. HIDE DEF F
  <2>. QED BY <1>5
<1>7. UnmapRunOf(m, start, count) = s
  BY DEF UnmapRunOf
<1>. HIDE DEF s
<1>8. \A l \in 0..count : s[l] = IF l = 0 THEN m ELSE UnmapNext(s[l - 1], start + l - 1)
  BY <1>6
<1>. QED BY <1>0, <1>7, <1>8

\* The first i pages of a run.
RunOf(start, i) == start..((start + i) - 1)

\* A run of one page more.
LEMMA RunStep ==
  ASSUME NEW start \in Nat, NEW i \in Nat
  PROVE  /\ RunOf(start, 0) = {} /\ RunOf(start, i + 1) = RunOf(start, i) \cup {start + i}
         /\ start + i \notin RunOf(start, i) /\ RunOf(start, i) \subseteq Nat
         /\ start + (i + 1) - 1 = start + i
         /\ \A k \in Nat : i < k => start + i \in RunOf(start, k)
BY DEF RunOf

\* A run of pages is mapped, or the kernel stops.
RunMapped(m, n, P) ==
  \A q \in Page : IF q \in P THEN Walk(m, q, 0) = -1 /\ Walk(n, q, 0) # -1
                  ELSE Walk(n, q, 0) = Walk(m, q, 0)

\* malloc maps the pages of a run one by one.
LEMMA MapRunFacts ==
  ASSUME NEW m, Sound(m), NEW start \in Nat, NEW count \in Nat,
         \A p \in RunOf(start, count) : p \in Page /\ ~Windowed(p) /\ Walk(m, p, 0) = -1,
         NEW n, n = MapRun(m, start, count)
  PROVE  /\ Sound(n) /\ Grown(m, n)
         /\ n.kernel = "running" => RunMapped(m, n, RunOf(start, count))
<1>. PICK r : r = MapRunOf(m, start, count)
  OBVIOUS
<1>1. r[0] = m /\ \A l \in 1..count : r[l] = MapNext(r[l - 1], start + l - 1)
  <2>1. \A l \in 0 + 1..count : r[l] = MapNext(r[l - 1], start + l - 1)
    BY MapRunOfFacts
  <2>2. r[0] = m
    BY MapRunOfFacts
  <2>. QED BY <2>1, <2>2
<1>. DEFINE Good(i) == /\ Sound(r[i]) /\ Grown(m, r[i])
                       /\ \A q \in Page : q \notin RunOf(start, i) => Walk(r[i], q, 0) = Walk(m, q, 0)
                       /\ r[i].kernel = "running" => RunMapped(m, r[i], RunOf(start, i))
            S == {i \in Nat : i <= count => Good(i)}
<1>2. 0 \in S
  <2>1. Grown(m, m) /\ RunMapped(m, m, RunOf(start, 0))
    BY RunStep DEF Grown, RunMapped
  <2>. QED BY <1>1, <2>1
<1>3. ASSUME NEW i \in Nat, i \in S PROVE i + 1 \in S
  <2>. SUFFICES ASSUME i + 1 <= count PROVE Good(i + 1)
    <3>. HIDE DEF Good
    <3>. QED OBVIOUS
  <2>. PICK p : p = start + i
    OBVIOUS
  <2>1. i + 1 \in 1..count /\ (i + 1) - 1 = i /\ i <= count /\ i < count
    OBVIOUS
  <2>2. Good(i)
    <3>. HIDE DEF Good
    <3>. QED BY <1>3, <2>1
  <2>. PICK a : a = r[i]
    OBVIOUS
  <2>. PICK b : b = r[i + 1]
    OBVIOUS
  <2>3. /\ p \in RunOf(start, count) /\ p \notin RunOf(start, i)
        /\ RunOf(start, i + 1) = RunOf(start, i) \cup {p} /\ start + (i + 1) - 1 = p
    BY <2>1, RunStep
  <2>4. p \in Page /\ ~Windowed(p) /\ Walk(m, p, 0) = -1
    BY <2>3
  <2>5. b = MapNext(a, p)
    BY <1>1, <2>1, <2>3
  <2>6. /\ Sound(a) /\ Grown(m, a)
        /\ \A q \in Page : q \notin RunOf(start, i) => Walk(a, q, 0) = Walk(m, q, 0)
        /\ a.kernel = "running" => RunMapped(m, a, RunOf(start, i))
    BY <2>2
  <2>10. Walk(a, p, 0) = -1
    BY <2>3, <2>4, <2>6
  <2>7. /\ Sound(b)
        /\ b.kernel = "running" => a.kernel = "running" /\ Gained(a, b, p)
        /\ b.kernel # "running" => KeepsLeaves(a, b)
    BY <2>4, <2>5, <2>6, <2>10, MapNextFacts
  <2>8. Grown(m, b)
    <3>1. CASE b.kernel = "running"
      BY <2>6, <2>7, <3>1 DEF Grown, Gained
    <3>2. CASE b.kernel # "running"
      BY <2>6, <2>7, <3>2 DEF Grown, KeepsLeaves
    <3>. QED BY <3>1, <3>2
  <2>9. b.kernel = "running" => RunMapped(m, b, RunOf(start, i + 1))
    BY <2>3, <2>6, <2>7 DEF RunMapped, Gained
  <2>11. \A q \in Page : q \notin RunOf(start, i + 1) => Walk(b, q, 0) = Walk(m, q, 0)
    <3>1. CASE b.kernel = "running"
      BY <2>3, <2>6, <2>7, <3>1 DEF Gained
    <3>2. CASE b.kernel # "running"
      BY <2>3, <2>6, <2>7, <3>2 DEF KeepsLeaves
    <3>. QED BY <3>1, <3>2
  <2>. QED BY <2>7, <2>8, <2>9, <2>11
<1>4. Nat \subseteq S
  <2>. HIDE DEF S
  <2>. QED BY <1>2, <1>3, SetInduction
<1>5. Good(count)
  <2>. HIDE DEF Good
  <2>. QED BY <1>4
<1>6. n = r[count]
  BY DEF MapRun, MapRunOf
<1>. QED BY <1>5, <1>6

\* The frame of a mapped page goes back and the page is unmapped.
LEMMA UnmapNextFacts ==
  ASSUME NEW m, Sound(m), NEW p \in Page, Walk(m, p, 0) # -1, NEW n, n = UnmapNext(m, p)
  PROVE  Sound(n) /\ Lost(m, n, p) /\ n.kernel = m.kernel
<1>0. 1 \in Level /\ 1 - 1 = 0 /\ 0 \in 0..Levels /\ 1 \in 0..Levels /\ IsMemory(m)
  BY LevelFacts DEF Sound
<1>. PICK l : l = 1
  OBVIOUS
<1>1. l \in Level /\ l - 1 = 0 /\ l \in 0..Levels
  BY <1>0
<1>2. Walk(m, p, l) # -1
  <2>1. 0 \in 0..1
    OBVIOUS
  <2>. QED BY <1>0, <2>1, WalkMissing
<1>. PICK t : t = Walk(m, p, l)
  OBVIOUS
<1>. PICK i : i = Offset(p, l)
  OBVIOUS
<1>. PICK f : f = Walk(m, p, 0)
  OBVIOUS
<1>3. PICK e : e = EntryAt(m, p, l)
  OBVIOUS
<1>4. e \in Entry /\ f = Target(e) /\ t \in DOMAIN m.tables /\ i \in Indices
  BY <1>1, <1>2, <1>3, TableAt
<1>5. e.present /\ f = e.frame /\ f \in Frames
  BY <1>4 DEF Target, Entry
<1>6. Path(m, p)[1] = t
  BY <1>0 DEF Walk
<1>7. Leaf(m, p) = e
  BY <1>3, <1>6 DEF Leaf, EntryAt, Cell
<1>8. Get(m, p) = f
  BY <1>2, <1>5, <1>6, <1>7 DEF Get
<1>9. PICK a : a = GiveFrame(m, f)
  OBVIOUS
<1>10. IsMemory(a) /\ a.tables = m.tables /\ a.kernel = m.kernel /\ a.taken = m.taken \ {f}
  BY <1>0, <1>5, <1>9, GiveFacts
<1>11. Path(a, p)[1] = t
  <2>1. Walk(a, p, l) = Walk(m, p, l)
    BY <1>1, <1>10, WalkSame
  <2>. QED BY <1>0, <2>1 DEF Walk
<1>12. Leaf(a, p) = e
  BY <1>6, <1>7, <1>10, <1>11 DEF Leaf
<1>13. PICK g : g = [e EXCEPT !.present = FALSE]
  OBVIOUS
<1>14. n = SetEntry(a, t, i, g)
  BY <1>2, <1>8, <1>9, <1>11, <1>12, <1>13 DEF UnmapNext, Unmap
<1>15. g \in Entry /\ Target(g) = -1
  BY <1>4, <1>13 DEF Entry, Target
<1>16. IsMemory(n) /\ SameRest(a, n) /\ Replaced(a, n, t, i, g)
  <2>1. t \in DOMAIN a.tables
    BY <1>4, <1>10
  <2>. QED BY <1>4, <1>10, <1>14, <1>15, <2>1, SetEntryFacts
<1>17. Replaced(m, n, t, i, g)
  BY <1>10, <1>16 DEF Replaced
<1>18. Edited(m, n, Walk(m, p, l), Offset(p, l), g)
  BY <1>17, ReplacedEdited
<1>19. Sound(n) /\ CutOff(m, n, p, l)
  <2>1. DOMAIN m.tables \subseteq DOMAIN n.tables /\ m.taken \subseteq n.taken \cup {0, Walk(m, p, l - 1)}
    BY <1>1, <1>10, <1>16 DEF SameRest
  <2>. QED BY <1>1, <1>2, <1>15, <1>16, <1>18, <2>1, SoundCut
<1>20. \A q \in Page : Beneath(q, 0, p, l) <=> q = p
  BY <1>0, <1>1, PrefixFacts DEF Beneath
<1>21. Lost(m, n, p)
  BY <1>0, <1>19, <1>20 DEF CutOff, Lost
<1>. QED BY <1>10, <1>16, <1>19, <1>21 DEF SameRest

\* A mapped run loses its frames.
RunLost(m, n, P) == \A q \in Page : Walk(n, q, 0) = IF q \in P THEN -1 ELSE Walk(m, q, 0)

\* free unmaps them one by one.
LEMMA UnmapRunFacts ==
  ASSUME NEW m, Sound(m), NEW start \in Nat, NEW count \in Nat,
         \A p \in RunOf(start, count) : p \in Page /\ Walk(m, p, 0) # -1,
         NEW n, n = UnmapRun(m, start, count)
  PROVE  Sound(n) /\ n.kernel = m.kernel /\ RunLost(m, n, RunOf(start, count))
<1>. PICK r : r = UnmapRunOf(m, start, count)
  OBVIOUS
<1>1. r[0] = m /\ \A l \in 1..count : r[l] = UnmapNext(r[l - 1], start + l - 1)
  <2>1. \A l \in 0 + 1..count : r[l] = UnmapNext(r[l - 1], start + l - 1)
    BY UnmapRunOfFacts
  <2>2. r[0] = m
    BY UnmapRunOfFacts
  <2>. QED BY <2>1, <2>2
<1>. DEFINE Good(i) == Sound(r[i]) /\ r[i].kernel = m.kernel /\ RunLost(m, r[i], RunOf(start, i))
            S == {i \in Nat : i <= count => Good(i)}
<1>2. 0 \in S
  <2>1. RunLost(m, m, RunOf(start, 0))
    BY RunStep DEF RunLost
  <2>. QED BY <1>1, <2>1
<1>3. ASSUME NEW i \in Nat, i \in S PROVE i + 1 \in S
  <2>. SUFFICES ASSUME i + 1 <= count PROVE Good(i + 1)
    <3>. HIDE DEF Good
    <3>. QED OBVIOUS
  <2>. PICK p : p = start + i
    OBVIOUS
  <2>1. i + 1 \in 1..count /\ (i + 1) - 1 = i /\ i <= count /\ i < count
    OBVIOUS
  <2>2. Good(i)
    <3>. HIDE DEF Good
    <3>. QED BY <1>3, <2>1
  <2>. PICK a : a = r[i]
    OBVIOUS
  <2>. PICK b : b = r[i + 1]
    OBVIOUS
  <2>3. /\ p \in RunOf(start, count) /\ p \notin RunOf(start, i)
        /\ RunOf(start, i + 1) = RunOf(start, i) \cup {p} /\ start + (i + 1) - 1 = p
    BY <2>1, RunStep
  <2>4. Sound(a) /\ a.kernel = m.kernel /\ RunLost(m, a, RunOf(start, i))
    BY <2>2
  <2>5. p \in Page /\ Walk(a, p, 0) # -1
    BY <2>3, <2>4 DEF RunLost
  <2>6. b = UnmapNext(a, p)
    BY <1>1, <2>1, <2>3
  <2>7. Sound(b) /\ Lost(a, b, p) /\ b.kernel = a.kernel
    BY <2>4, <2>5, <2>6, UnmapNextFacts
  <2>8. RunLost(m, b, RunOf(start, i + 1))
    BY <2>3, <2>4, <2>7 DEF RunLost, Lost
  <2>. QED BY <2>4, <2>7, <2>8
<1>4. Nat \subseteq S
  <2>. HIDE DEF S
  <2>. QED BY <1>2, <1>3, SetInduction
<1>5. Good(count)
  <2>. HIDE DEF Good
  <2>. QED BY <1>4
<1>6. n = r[count]
  BY DEF UnmapRun, UnmapRunOf
<1>. QED BY <1>5, <1>6

-----------------------------------------------------------------------------
(* Lists *)

Place == 1..NodeSlots
Node == [page : Page, slots : [Place -> Page \cup {None}]]
At(list, n, x) == list[n].slots[x]
PageAt(list, n) == list[n].page

\* A list of nodes, none of them empty, that holds each page of S once.
NoneEmpty(list) == \A n \in DOMAIN list : \E x \in Place : At(list, n, x) # None
PagesApart(list) == \A n, k \in DOMAIN list : (PageAt(list, n) = PageAt(list, k)) => n = k
Holds(list, S) ==
  /\ \A p \in S : \E n \in DOMAIN list : \E x \in Place : At(list, n, x) = p
  /\ \A n \in DOMAIN list : \A x \in Place : At(list, n, x) \in S \cup {None}
Once(list) ==
  \A n, k \in DOMAIN list : \A x, y \in Place :
    (At(list, n, x) # None /\ At(list, n, x) = At(list, k, y)) => (n = k /\ x = y)
ListOK(list, S) ==
  /\ list \in Seq(Node) /\ S \subseteq Page
  /\ NoneEmpty(list) /\ PagesApart(list) /\ Holds(list, S) /\ Once(list)

\* The slots of a node; no page is None.
LEMMA PlaceFacts ==
  /\ NodeSlots \in Nat \ {0} /\ 1 \in Place /\ Place \subseteq Nat
  /\ None \notin Page /\ \A p \in Page : p # None /\ p \in Nat
<1>1. NodeSlots \in Nat \ {0}
  BY HeapAssumption
<1>2. 1 \in Place /\ Place \subseteq Nat
  BY <1>1 DEF Place
<1>3. \A p \in Page : p \in Nat
  BY DEF Page
<1>4. None = -1
  BY DEF None
<1>5. \A p \in Page : p # None
  BY <1>3, <1>4
<1>. QED BY <1>1, <1>2, <1>3, <1>5

\* A node of a list.
LEMMA NodeType ==
  ASSUME NEW list \in Seq(Node), NEW n \in DOMAIN list
  PROVE  /\ list[n] \in Node /\ PageAt(list, n) \in Page
         /\ \A x \in Place : At(list, n, x) \in Page \cup {None}
<1>1. list[n] \in Node
  OBVIOUS
<1>2. list[n].page \in Page /\ list[n].slots \in [Place -> Page \cup {None}]
  BY <1>1 DEF Node
<1>3. \A x \in Place : list[n].slots[x] \in Page \cup {None}
  BY <1>2
<1>. QED BY <1>1, <1>2, <1>3 DEF PageAt, At

\* A list with a page in one of its slots.
Slotted(list, n, x, page, new) == new = [list EXCEPT ![n].slots[x] = page]

\* A page comes into a free slot.
LEMMA PutSlot ==
  ASSUME NEW list, NEW S, ListOK(list, S), NEW page \in Page \ S, NEW n \in DOMAIN list,
         NEW x \in Place, At(list, n, x) = None,
         NEW new, Slotted(list, n, x, page, new)
  PROVE  /\ ListOK(new, S \cup {page}) /\ DOMAIN new = DOMAIN list
         /\ \A k \in DOMAIN list : PageAt(new, k) = PageAt(list, k)
<1>0. list \in Seq(Node) /\ S \subseteq Page /\ Once(list)
  BY DEF ListOK
<1>1. PICK node : node = [list[n] EXCEPT !.slots[x] = page]
  OBVIOUS
<1>2. node \in Node /\ node.page = list[n].page
  BY <1>0, <1>1, NodeType, ZenonT(60) DEF Node
<1>3. node.slots[x] = page /\ \A y \in Place : y # x => node.slots[y] = list[n].slots[y]
  BY <1>0, <1>1, NodeType, ZenonT(60) DEF Node
<1>4. new = [list EXCEPT ![n] = node]
  BY <1>1 DEF Slotted
<1>5. new \in Seq(Node) /\ DOMAIN new = DOMAIN list
  BY <1>0, <1>2, <1>4
<1>6. new[n] = node /\ \A k \in DOMAIN list : k # n => new[k] = list[k]
  BY <1>0, <1>4
<1>7. \A k \in DOMAIN list : PageAt(new, k) = PageAt(list, k)
  BY <1>2, <1>6 DEF PageAt
<1>8. \A k \in DOMAIN list : \A y \in Place :
        At(new, k, y) = IF k = n /\ y = x THEN page ELSE At(list, k, y)
  <2>1. \A y \in Place : new[n].slots[y] = IF y = x THEN page ELSE list[n].slots[y]
    BY <1>3, <1>6
  <2>2. \A k \in DOMAIN list : k # n => new[k].slots = list[k].slots
    BY <1>6
  <2>3. \A y \in Place : At(new, n, y) = IF y = x THEN page ELSE At(list, n, y)
    BY <2>1 DEF At
  <2>4. \A k \in DOMAIN list : k # n => \A y \in Place : At(new, k, y) = At(list, k, y)
    BY <2>2 DEF At
  <2>. HIDE DEF At
  <2>. QED BY <2>3, <2>4
<1>9. page # None /\ page \notin S
  BY PlaceFacts
<1>. HIDE DEF PageAt, At
<1>10. NoneEmpty(new)
  BY <1>5, <1>8, <1>9 DEF ListOK, NoneEmpty
<1>11. PagesApart(new)
  BY <1>5, <1>7 DEF ListOK, PagesApart
<1>12. Holds(new, S \cup {page})
  <2>1. ASSUME NEW p \in S PROVE \E k \in DOMAIN new : \E y \in Place : At(new, k, y) = p
    <3>1. PICK k \in DOMAIN list, y \in Place : At(list, k, y) = p
      BY DEF ListOK, Holds
    <3>2. p # None
      BY <1>0, PlaceFacts
    <3>3. At(new, k, y) = p
      BY <1>8, <3>1, <3>2
    <3>. QED BY <1>5, <3>3
  <2>2. At(new, n, x) = page
    BY <1>8
  <2>3. ASSUME NEW k \in DOMAIN new, NEW y \in Place PROVE At(new, k, y) \in (S \cup {page}) \cup {None}
    BY <1>5, <1>8 DEF ListOK, Holds
  <2>4. ASSUME NEW p \in S \cup {page}
        PROVE  \E k \in DOMAIN new : \E y \in Place : At(new, k, y) = p
    <3>1. CASE p \in S
      BY <2>1, <3>1
    <3>2. CASE p = page
      BY <1>5, <2>2, <3>2
    <3>. QED BY <3>1, <3>2
  <2>. QED BY <2>3, <2>4 DEF Holds
<1>13. Once(new)
  <2>0. \A k, j \in DOMAIN list : \A y, z \in Place :
          (At(list, k, y) # None /\ At(list, k, y) = At(list, j, z)) => (k = j /\ y = z)
    BY <1>0 DEF Once
  <2>1. ASSUME NEW k \in DOMAIN list, NEW j \in DOMAIN list, NEW y \in Place, NEW z \in Place,
               At(new, k, y) # None, At(new, k, y) = At(new, j, z)
        PROVE  k = j /\ y = z
    <3>1. At(list, k, y) # page /\ At(list, j, z) # page
      BY <1>9 DEF ListOK, Holds
    <3>2. CASE k = n /\ y = x
      BY <1>8, <2>1, <3>1, <3>2
    <3>3. CASE ~(k = n /\ y = x)
      <4>1. At(new, k, y) = At(list, k, y)
        BY <1>8, <3>3
      <4>2. At(new, j, z) = At(list, j, z)
        BY <1>8, <2>1, <3>1, <4>1
      <4>3. At(list, k, y) # None /\ At(list, k, y) = At(list, j, z)
        BY <2>1, <4>1, <4>2
      <4>. QED BY <2>0, <4>3
    <3>. QED BY <3>2, <3>3
  <2>. QED BY <1>5, <2>1 DEF Once
<1>. QED BY <1>0, <1>5, <1>7, <1>10, <1>11, <1>12, <1>13 DEF ListOK

\* A list with a node behind it, in the page q.
Lengthened(list, q, page, new) ==
  new = Append(list, [page |-> q, slots |-> [k \in 1..NodeSlots |-> IF k = 1 THEN page ELSE None]])

NodeMore(list, q, new) ==
  /\ \A k \in DOMAIN list : k \in DOMAIN new /\ PageAt(new, k) = PageAt(list, k)
  /\ \A k \in DOMAIN new : PageAt(new, k) = q \/ k \in DOMAIN list
NoNode(list, q) == \A k \in DOMAIN list : PageAt(list, k) # q

\* A page comes into a node of its own.
LEMMA AddNode ==
  ASSUME NEW list, NEW S, ListOK(list, S), NEW page \in Page \ S, NEW q \in Page,
         NoNode(list, q),
         NEW new, Lengthened(list, q, page, new)
  PROVE  ListOK(new, S \cup {page}) /\ NodeMore(list, q, new)
<1>0. list \in Seq(Node) /\ S \subseteq Page /\ Once(list)
  BY DEF ListOK
<1>s. PICK slots : slots = [k \in 1..NodeSlots |-> IF k = 1 THEN page ELSE None]
  OBVIOUS
<1>1. PICK node : node = [page |-> q, slots |-> slots]
  OBVIOUS
<1>2. slots \in [Place -> Page \cup {None}] /\ slots[1] = page
      /\ \A y \in Place : y # 1 => slots[y] = None
  BY <1>s, PlaceFacts DEF Place
<1>3. node \in Node /\ node.page = q /\ node.slots = slots
  BY <1>1, <1>2 DEF Node
<1>4. PICK c \in Nat : c = Len(list)
  BY <1>0
<1>5. new \in Seq(Node) /\ DOMAIN list = 1..c /\ DOMAIN new = 1..(c + 1) /\ new[c + 1] = node
      /\ \A k \in 1..c : new[k] = list[k]
  <2>1. new = Append(list, node)
    BY <1>s, <1>1 DEF Lengthened
  <2>. QED BY <1>0, <1>3, <1>4, <2>1
<1>6. PageAt(new, c + 1) = q /\ \A k \in DOMAIN list : PageAt(new, k) = PageAt(list, k)
  BY <1>3, <1>5 DEF PageAt
<1>7. /\ At(new, c + 1, 1) = page /\ \A y \in Place : y # 1 => At(new, c + 1, y) = None
      /\ \A k \in DOMAIN list : \A y \in Place : At(new, k, y) = At(list, k, y)
  BY <1>2, <1>3, <1>5 DEF At
<1>8. page # None /\ page \notin S
  BY PlaceFacts
<1>9. DOMAIN new = DOMAIN list \cup {c + 1} /\ c + 1 \notin DOMAIN list
  BY <1>5
<1>10. NoneEmpty(new)
  BY <1>7, <1>8, <1>9, PlaceFacts DEF ListOK, NoneEmpty
<1>11. PagesApart(new)
  BY <1>6, <1>9 DEF ListOK, PagesApart, NoNode
<1>12. Holds(new, S \cup {page})
  <2>1. ASSUME NEW p \in S PROVE \E k \in DOMAIN new : \E y \in Place : At(new, k, y) = p
    <3>1. PICK k \in DOMAIN list, y \in Place : At(list, k, y) = p
      BY DEF ListOK, Holds
    <3>. QED BY <1>7, <1>9, <3>1
  <2>2. \E k \in DOMAIN new : \E y \in Place : At(new, k, y) = page
    BY <1>7, <1>9, PlaceFacts
  <2>3. ASSUME NEW k \in DOMAIN new, NEW y \in Place PROVE At(new, k, y) \in (S \cup {page}) \cup {None}
    BY <1>7, <1>9 DEF ListOK, Holds
  <2>4. ASSUME NEW p \in S \cup {page}
        PROVE  \E k \in DOMAIN new : \E y \in Place : At(new, k, y) = p
    <3>1. CASE p \in S
      BY <2>1, <3>1
    <3>2. CASE p = page
      BY <2>2, <3>2
    <3>. QED BY <3>1, <3>2
  <2>. QED BY <2>3, <2>4 DEF Holds
<1>13. Once(new)
  <2>0. \A k, j \in DOMAIN list : \A y, z \in Place :
          (At(list, k, y) # None /\ At(list, k, y) = At(list, j, z)) => (k = j /\ y = z)
    BY <1>0 DEF Once
  <2>1. ASSUME NEW k \in DOMAIN new, NEW j \in DOMAIN new, NEW y \in Place, NEW z \in Place,
               At(new, k, y) # None, At(new, k, y) = At(new, j, z)
        PROVE  k = j /\ y = z
    <3>0. \A h \in DOMAIN list : \A v \in Place : At(list, h, v) # page
      BY <1>8 DEF ListOK, Holds
    <3>1. CASE k = c + 1
      <4>1. At(new, k, y) = page /\ y = 1
        BY <1>7, <2>1, <3>1
      <4>2. j = c + 1
        BY <1>7, <1>9, <2>1, <3>0, <4>1
      <4>. QED BY <1>7, <2>1, <3>1, <4>1, <4>2
    <3>2. CASE k # c + 1
      <4>1. k \in DOMAIN list /\ At(new, k, y) = At(list, k, y)
        BY <1>7, <1>9, <3>2
      <4>2. At(list, k, y) # page /\ At(list, k, y) # None
        BY <2>1, <3>0, <4>1
      <4>3. j \in DOMAIN list /\ At(new, j, z) = At(list, j, z)
        BY <1>7, <1>9, <2>1, <4>1, <4>2
      <4>4. At(list, k, y) # None /\ At(list, k, y) = At(list, j, z)
        BY <2>1, <4>1, <4>2, <4>3
      <4>. QED BY <2>0, <4>1, <4>3, <4>4
    <3>. QED BY <3>1, <3>2
  <2>. QED BY <2>1 DEF Once
<1>14. NodeMore(list, q, new)
  BY <1>6, <1>9 DEF NodeMore
<1>. QED BY <1>0, <1>5, <1>10, <1>11, <1>12, <1>13, <1>14 DEF ListOK

\* The first of some places of a list, node by node.
SpotOf(T) == CHOOSE x \in T : \A y \in T : x[1] < y[1] \/ (x[1] = y[1] /\ x[2] <= y[2])

\* The first of a set of places is one of them.
LEMMA FirstPlace ==
  ASSUME NEW T \in SUBSET (Nat \X Nat), T # {}
  PROVE  SpotOf(T) \in T
<1>. DEFINE A == {x[1] : x \in T}
<1>1. A \in SUBSET Nat /\ A # {}
  OBVIOUS
<1>2. PICK a \in A : \A c \in A : a <= c
  <2>. HIDE DEF A
  <2>. QED BY <1>1, Least
<1>. DEFINE B == {b \in Nat : <<a, b>> \in T}
<1>3. B \in SUBSET Nat /\ B # {}
  OBVIOUS
<1>4. PICK b \in B : \A c \in B : b <= c
  <2>. HIDE DEF B
  <2>. QED BY <1>3, Least
<1>5. <<a, b>> \in T
  OBVIOUS
<1>6. ASSUME NEW y \in T PROVE a < y[1] \/ (a = y[1] /\ b <= y[2])
  <2>1. y[1] \in A /\ y[1] \in Nat /\ y[2] \in Nat /\ y = <<y[1], y[2]>> /\ a \in Nat
    BY <1>1
  <2>2. a <= y[1]
    BY <1>2, <2>1
  <2>3. CASE a = y[1]
    <3>1. y[2] \in B
      BY <2>1, <2>3
    <3>. QED BY <1>4, <2>3, <3>1
  <2>. QED BY <2>1, <2>2, <2>3
<1>7. \E x \in T : \A y \in T : x[1] < y[1] \/ (x[1] = y[1] /\ x[2] <= y[2])
  BY <1>5, <1>6
<1>. QED BY <1>7 DEF SpotOf

\* peek: some page of the list.
LEMMA PeekFacts ==
  ASSUME NEW list, NEW S, ListOK(list, S), DOMAIN list # {}
  PROVE  Peek(list) \in S
<1>. DEFINE A == {k \in DOMAIN list : \E x \in 1..NodeSlots : list[k].slots[x] # None}
            n == First(A)
            B == {x \in 1..NodeSlots : list[n].slots[x] # None}
<1>0. list \in Seq(Node)
  BY DEF ListOK
<1>1. A \in SUBSET Nat /\ A # {}
  BY <1>0 DEF ListOK, NoneEmpty, At, Place
<1>2. n \in A
  <2>. HIDE DEF A
  <2>. QED BY <1>1, FirstFacts
<1>3. B \in SUBSET Nat /\ B # {}
  <2>. HIDE DEF n
  <2>. QED BY <1>2
<1>4. First(B) \in B
  <2>. HIDE DEF B
  <2>. QED BY <1>3, FirstFacts
<1>5. PICK x : x = First(B)
  OBVIOUS
<1>6. PICK j : j = n
  OBVIOUS
<1>7. Peek(list) = At(list, j, x)
  BY <1>5, <1>6 DEF Peek, At
<1>8. j \in DOMAIN list /\ x \in Place /\ At(list, j, x) # None
  BY <1>2, <1>4, <1>5, <1>6 DEF At, Place
<1>9. At(list, j, x) \in S \cup {None}
  BY <1>8 DEF ListOK, Holds
<1>. QED BY <1>7, <1>8, <1>9

\* The lists of the buckets, and the pages they are to hold.
Lists(fl, L) ==
  /\ DOMAIN fl = Buckets /\ DOMAIN L = Buckets
  /\ \A b \in Buckets : ListOK(fl[b], L[b])
IsNode(fl, b, p) == \E n \in DOMAIN fl[b] : PageAt(fl[b], n) = p
\* No page is a node of two of them.
NodesApart(fl) ==
  \A b, c \in Buckets : \A p : IsNode(fl, b, p) /\ IsNode(fl, c, p) => b = c

\* A function with another value in one place.
Put(f, x, v, g) == g = [f EXCEPT ![x] = v]
\* The nodes of a list are those of bucket b's, or in no list.
NodesFrom(fl, b, list) ==
  \A k \in DOMAIN list : \/ IsNode(fl, b, PageAt(list, k))
                         \/ \A c \in Buckets : ~IsNode(fl, c, PageAt(list, k))

\* Another list in the place of one, whose nodes are its own or new.
LEMMA SwapList ==
  ASSUME NEW fl, NEW L, Lists(fl, L), NodesApart(fl), NEW b \in Buckets, NEW list, NEW T, ListOK(list, T),
         NodesFrom(fl, b, list), NEW g, Put(fl, b, list, g), NEW M, Put(L, b, T, M)
  PROVE  /\ Lists(g, M) /\ NodesApart(g) /\ g[b] = list
         /\ \A c \in Buckets : c # b => g[c] = fl[c]
<1>1. DOMAIN g = Buckets /\ DOMAIN M = Buckets /\ g[b] = list /\ M[b] = T
      /\ \A c \in Buckets : c # b => g[c] = fl[c] /\ M[c] = L[c]
  BY DEF Lists, Put
<1>2. Lists(g, M)
  BY <1>1 DEF Lists
<1>3. \A c \in Buckets : c # b => \A p : IsNode(g, c, p) <=> IsNode(fl, c, p)
  BY <1>1 DEF IsNode
<1>4. \A p : IsNode(g, b, p) => \/ IsNode(fl, b, p)
                                \/ \A c \in Buckets : ~IsNode(fl, c, p)
  <2>1. \A p : IsNode(g, b, p) => \E k \in DOMAIN list : PageAt(list, k) = p
    BY <1>1 DEF IsNode
  <2>2. \A k \in DOMAIN list : \/ IsNode(fl, b, PageAt(list, k))
                              \/ \A c \in Buckets : ~IsNode(fl, c, PageAt(list, k))
    BY DEF NodesFrom
  <2>. HIDE DEF IsNode
  <2>. QED BY <2>1, <2>2
<1>5. NodesApart(g)
  <2>. HIDE DEF IsNode
  <2>1. ASSUME NEW c \in Buckets, NEW d \in Buckets, NEW p, IsNode(g, c, p), IsNode(g, d, p) PROVE c = d
    <3>1. CASE c # b /\ d # b
      BY <1>3, <2>1, <3>1 DEF NodesApart
    <3>2. CASE c = b /\ d # b
      BY <1>3, <1>4, <2>1, <3>2 DEF NodesApart
    <3>3. CASE c # b /\ d = b
      BY <1>3, <1>4, <2>1, <3>3 DEF NodesApart
    <3>. QED BY <3>1, <3>2, <3>3
  <2>. QED BY <2>1 DEF NodesApart
<1>. QED BY <1>1, <1>2, <1>5

\* The lists in a memory: the pages of O and of the nodes are mapped, and apart.
Mapped(m, p) == p \in Page /\ Walk(m, p, 0) # -1
NodesMapped(m, fl, O) == \A b \in Buckets : \A p : IsNode(fl, b, p) => Mapped(m, p) /\ p \notin O
ListInv(m, fl, O, L) ==
  /\ Sound(m) /\ Lists(fl, L) /\ NodesApart(fl)
  /\ (\A p \in O : Mapped(m, p)) /\ NodesMapped(m, fl, O)

\* More pages are mapped.
LEMMA ListInvGrown ==
  ASSUME NEW m, NEW fl, NEW O, NEW L, ListInv(m, fl, O, L), NEW n, Sound(n), Grown(m, n),
         NEW Q, \A q \in Q : Mapped(n, q) /\ ~Mapped(m, q)
  PROVE  ListInv(n, fl, O \cup Q, L)
<1>1. \A q : Mapped(m, q) => Mapped(n, q)
  BY DEF Mapped, Grown
<1>2. \A p \in O \cup Q : Mapped(n, p)
  BY <1>1 DEF ListInv
<1>3. NodesMapped(n, fl, O \cup Q)
  BY <1>1 DEF ListInv, NodesMapped
<1>. QED BY <1>2, <1>3 DEF ListInv

\* Pages of the callers are unmapped.
LEMMA ListInvShrunk ==
  ASSUME NEW m, NEW fl, NEW O, NEW L, ListInv(m, fl, O, L), NEW n, Sound(n),
         NEW Q \in SUBSET O, \A q \in Page \ Q : Walk(n, q, 0) = Walk(m, q, 0)
  PROVE  ListInv(n, fl, O \ Q, L)
<1>1. \A q : Mapped(m, q) /\ q \notin Q => Mapped(n, q)
  BY DEF Mapped
<1>2. \A p \in O \ Q : Mapped(n, p)
  BY <1>1 DEF ListInv
<1>3. NodesMapped(n, fl, O \ Q)
  BY <1>1 DEF ListInv, NodesMapped
<1>. QED BY <1>2, <1>3 DEF ListInv

\* A page gained is a page more.
LEMMA GrownGained ==
  ASSUME NEW m, NEW n, NEW p, Gains(m, n, p)
  PROVE  Grown(m, n) /\ Calm(m, n) /\ Mapped(n, p) /\ ~Mapped(m, p)
BY DEF Gains, Gained, Grown, Mapped, Calm

\* No page is none more.
LEMMA GrownKept ==
  ASSUME NEW m, NEW n, KeepsLeaves(m, n)
  PROVE  Grown(m, n) /\ Calm(m, n)
BY DEF KeepsLeaves, Grown, Calm

\* Pages of searched windows over two steps.
LEMMA CalmTwice ==
  ASSUME NEW m, NEW n, NEW o, Calm(m, n), Calm(n, o)
  PROVE  Calm(m, o)
BY DEF Calm

\* Pages more over two steps.
LEMMA GrownTwice ==
  ASSUME NEW m, NEW n, NEW o, Grown(m, n), Grown(n, o)
  PROVE  Grown(m, o)
BY DEF Grown

\* The state of small_allocator.
IsState(s) == s = [mem |-> s.mem, small |-> s.small, freeList |-> s.freeList]

\* A page for small_allocator: one that was not mapped, or the kernel stops.
LEMMA SmallPageFacts ==
  ASSUME NEW s, IsState(s), Sound(s.mem), s.mem.kernel = "running", NEW r, r = SmallPage(s)
  PROVE  /\ IsState(r.state) /\ r.state.small = s.small /\ r.state.freeList = s.freeList
         /\ Sound(r.state.mem)
         /\ r.page # None => r.state.mem.kernel = "running" /\ Gains(s.mem, r.state.mem, r.page)
         /\ r.page = None => KeepsLeaves(s.mem, r.state.mem) /\ r.state.mem.kernel # "running"
<1>1. PICK m : m = s.mem
  OBVIOUS
<1>2. PICK a : a = AllocPage(m, SmallWindow)
  OBVIOUS
<1>3. Sound(m) /\ m.kernel = "running"
  BY <1>1
<1>4. /\ Sound(a.mem)
      /\ a.page # None => a.mem.kernel = "running" /\ Gains(m, a.mem, a.page)
      /\ a.page = None => KeepsLeaves(m, a.mem)
  BY <1>2, <1>3, AllocPageFacts
<1>5. PICK u : u = a.mem
  OBVIOUS
<1>6. PICK v : v = IF a.page = None /\ u.kernel = "running" THEN Halt(u) ELSE u
  OBVIOUS
<1>7. r = [state |-> [s EXCEPT !.mem = v], page |-> a.page]
  BY <1>1, <1>2, <1>5, <1>6 DEF SmallPage
<1>8. r.page = a.page /\ r.state = [s EXCEPT !.mem = v]
  BY <1>7
<1>9. IsState(r.state) /\ r.state.small = s.small /\ r.state.freeList = s.freeList /\ r.state.mem = v
  BY <1>8 DEF IsState
<1>10. Sound(u) /\ Sound(Halt(u)) /\ SameWalks(u, Halt(u)) /\ Halt(u).kernel = "halted"
  BY <1>4, <1>5, StopSound
<1>11. CASE a.page = None
  <2>1. KeepsLeaves(m, u)
    BY <1>4, <1>5, <1>11
  <2>2. KeepsLeaves(u, Halt(u))
    BY <1>10, KeepsSame
  <2>3. KeepsLeaves(m, Halt(u))
    BY <2>1, <2>2 DEF KeepsLeaves
  <2>4. Sound(v) /\ KeepsLeaves(m, v) /\ v.kernel # "running"
    <3>1. CASE u.kernel = "running"
      BY <1>6, <1>10, <1>11, <2>3, <3>1
    <3>2. CASE u.kernel # "running"
      BY <1>6, <1>10, <2>1, <3>2
    <3>. QED BY <3>1, <3>2
  <2>. QED BY <1>1, <1>8, <1>9, <1>11, <2>4
<1>12. CASE a.page # None
  <2>1. v = u
    BY <1>6, <1>12
  <2>2. Sound(u) /\ u.kernel = "running" /\ Gains(m, u, a.page)
    BY <1>4, <1>5, <1>12
  <2>. QED BY <1>1, <1>8, <1>9, <1>12, <2>1, <2>2
<1>. QED BY <1>11, <1>12

\* The nodes of a list are those of bucket b's, or newly mapped.
NodesNew(m, n, fl, b, list) ==
  \A k \in DOMAIN list : \/ IsNode(fl, b, PageAt(list, k))
                         \/ Mapped(n, PageAt(list, k)) /\ ~Mapped(m, PageAt(list, k))

\* The lists in another memory, and another list in the place of one.
LEMMA SwapInv ==
  ASSUME NEW m, NEW fl, NEW O, NEW L, ListInv(m, fl, O, L), NEW b \in Buckets, NEW list, NEW T,
         ListOK(list, T), NEW n, Sound(n), Grown(m, n),
         NodesNew(m, n, fl, b, list), NEW g, Put(fl, b, list, g), NEW M, Put(L, b, T, M)
  PROVE  ListInv(n, g, O, M)
<1>1. \A c \in Buckets : \A p : IsNode(fl, c, p) => Mapped(m, p) /\ p \notin O
  BY DEF ListInv, NodesMapped
<1>2. \A p \in O : Mapped(m, p)
  BY DEF ListInv
<1>3. \A p : Mapped(m, p) => Mapped(n, p)
  BY DEF Mapped, Grown
<1>. HIDE DEF IsNode, Mapped
<1>4. Lists(fl, L) /\ NodesApart(fl)
  BY DEF ListInv
<1>5. NodesFrom(fl, b, list)
  BY <1>1 DEF NodesNew, NodesFrom
<1>6. /\ Lists(g, M) /\ NodesApart(g) /\ g[b] = list
      /\ \A c \in Buckets : c # b => g[c] = fl[c]
  <2>1. \A c \in Buckets : c # b => g[c] = fl[c]
    BY <1>4, <1>5, SwapList
  <2>. QED BY <1>4, <1>5, <2>1, SwapList
<1>7. \A c \in Buckets : c # b => \A p : IsNode(g, c, p) => IsNode(fl, c, p)
  BY <1>6 DEF IsNode
<1>8. \A p : IsNode(g, b, p) => \E k \in DOMAIN list : PageAt(list, k) = p
  BY <1>6 DEF IsNode
<1>9. \A p : IsNode(g, b, p) => Mapped(n, p) /\ p \notin O
  BY <1>1, <1>2, <1>3, <1>8 DEF NodesNew
<1>10. NodesMapped(n, g, O)
  BY <1>1, <1>3, <1>7, <1>9 DEF NodesMapped
<1>. QED BY <1>2, <1>3, <1>6, <1>10 DEF ListInv

Open(list) == {x \in (1..Len(list)) \X (1..NodeSlots) : list[x[1]].slots[x[2]] = None}
PutAt(s, b, x, page) == [s EXCEPT !.freeList[b][x[1]].slots[x[2]] = page]

\* push takes the first free slot, or a new node.
LEMMA PushParts ==
  ASSUME NEW s, NEW b, NEW page, NEW list, list = s.freeList[b]
  PROVE  Push(s, b, page) = IF Open(list) # {} THEN PutAt(s, b, SpotOf(Open(list)), page)
                            ELSE NewNode(SmallPage(s), b, page)
BY DEF Push, Open, SpotOf, PutAt

OpenPut(list, page, new) == Slotted(list, SpotOf(Open(list))[1], SpotOf(Open(list))[2], page, new)
SameNodes(list, new) ==
  DOMAIN new = DOMAIN list /\ \A k \in DOMAIN list : PageAt(new, k) = PageAt(list, k)

\* A free slot of a list, and the list with a page in it.
LEMMA OpenFacts ==
  ASSUME NEW list, NEW S, ListOK(list, S), Open(list) # {}, NEW page \in Page \ S,
         NEW new, OpenPut(list, page, new)
  PROVE  ListOK(new, S \cup {page}) /\ SameNodes(list, new)
<1>0. PICK x : x = SpotOf(Open(list))
  OBVIOUS
<1>1. list \in Seq(Node)
  BY DEF ListOK
<1>2. Open(list) \in SUBSET (Nat \X Nat)
  <2>1. Len(list) \in Nat /\ NodeSlots \in Nat
    BY <1>1, PlaceFacts
  <2>2. 1..Len(list) \subseteq Nat /\ 1..NodeSlots \subseteq Nat
    BY <2>1
  <2>3. (1..Len(list)) \X (1..NodeSlots) \subseteq Nat \X Nat
    BY <2>2
  <2>4. Open(list) \subseteq (1..Len(list)) \X (1..NodeSlots)
    BY DEF Open
  <2>. QED BY <2>3, <2>4
<1>3. x \in Open(list)
  <2>. HIDE DEF Open
  <2>. QED BY <1>0, <1>2, FirstPlace
<1>4. x[1] \in DOMAIN list /\ x[2] \in Place /\ At(list, x[1], x[2]) = None
  <2>1. x \in (1..Len(list)) \X (1..NodeSlots) /\ list[x[1]].slots[x[2]] = None
    BY <1>3 DEF Open
  <2>2. x[1] \in 1..Len(list) /\ x[2] \in 1..NodeSlots
    BY <2>1
  <2>3. DOMAIN list = 1..Len(list)
    BY <1>1
  <2>. QED BY <2>1, <2>2, <2>3 DEF Place, At
<1>5. PICK n, k : n = x[1] /\ k = x[2]
  OBVIOUS
<1>6. n \in DOMAIN list /\ k \in Place /\ At(list, n, k) = None /\ Slotted(list, n, k, page, new)
  BY <1>0, <1>4, <1>5 DEF OpenPut
<1>. QED BY <1>6, PutSlot DEF SameNodes

\* List::push: a page more in the list, or the kernel stops.
Pushed(m, O, M, s, r) ==
  /\ IsState(r) /\ r.small = s.small /\ Sound(r.mem) /\ Grown(m, r.mem) /\ Calm(m, r.mem)
  /\ r.mem.kernel = "running" => ListInv(r.mem, r.freeList, O, M)

\* push puts the page into the list, or the kernel stops.
LEMMA PushFacts ==
  ASSUME NEW s, IsState(s), s.mem.kernel = "running", NEW m, m = s.mem, NEW fl, fl = s.freeList,
         NEW O, NEW L, ListInv(m, fl, O, L), NEW b \in Buckets, NEW page \in Page \ L[b],
         NEW r, r = Push(s, b, page), NEW T, T = L[b] \cup {page}, NEW M, Put(L, b, T, M)
  PROVE  Pushed(m, O, M, s, r)
<1>1. Sound(m) /\ Lists(fl, L) /\ m.kernel = "running" /\ \A c \in Buckets : \A p : IsNode(fl, c, p) => Mapped(m, p)
  BY DEF ListInv, NodesMapped
<1>2. PICK list : list = fl[b]
  OBVIOUS
<1>3. PICK S : S = L[b]
  OBVIOUS
<1>4. ListOK(list, S) /\ page \in Page \ S /\ DOMAIN fl = Buckets
  BY <1>1, <1>2, <1>3 DEF Lists
<1>5. \A k \in DOMAIN list : IsNode(fl, b, PageAt(list, k))
  BY <1>2 DEF IsNode
<1>. HIDE DEF IsNode
<1>6. CASE Open(list) # {}
  <2>1. PICK x : x = SpotOf(Open(list))
    OBVIOUS
  <2>2. PICK new : Slotted(list, x[1], x[2], page, new) /\ OpenPut(list, page, new)
    BY <2>1 DEF Slotted, OpenPut
  <2>3. ListOK(new, S \cup {page}) /\ SameNodes(list, new)
    BY <1>4, <1>6, <2>2, OpenFacts
  <2>4. r = PutAt(s, b, x, page)
    BY <1>2, <1>6, <2>1, PushParts
  <2>5. r = [s EXCEPT !.freeList = [fl EXCEPT ![b] = new]]
    BY <1>2, <2>2, <2>4 DEF PutAt, Slotted
  <2>6. IsState(r) /\ r.small = s.small /\ r.mem = m /\ r.freeList = [fl EXCEPT ![b] = new]
    BY <2>5 DEF IsState
  <2>7. Grown(m, m) /\ Calm(m, m)
    BY DEF Grown, Calm
  <2>8. Put(L, b, S \cup {page}, M)
    BY <1>3
  <2>9. NodesNew(m, m, fl, b, new)
    BY <1>5, <2>3 DEF NodesNew, SameNodes
  <2>10. PICK g : g = [fl EXCEPT ![b] = new] /\ Put(fl, b, new, g)
    BY DEF Put
  <2>11. ListInv(m, g, O, M)
    BY <1>1, <2>3, <2>7, <2>8, <2>9, <2>10, SwapInv
  <2>. QED BY <1>1, <2>6, <2>7, <2>10, <2>11 DEF Pushed
<1>7. CASE Open(list) = {}
  <2>1. PICK u : u = SmallPage(s)
    OBVIOUS
  <2>2. r = NewNode(u, b, page)
    BY <1>2, <1>7, <2>1, PushParts
  <2>3. PICK v : v = u.state
    OBVIOUS
  <2>4. PICK n : n = v.mem
    OBVIOUS
  <2>5. PICK q : q = u.page
    OBVIOUS
  <2>6. /\ IsState(v) /\ v.small = s.small /\ v.freeList = fl /\ Sound(n)
        /\ q # None => n.kernel = "running" /\ Gains(m, n, q)
        /\ q = None => KeepsLeaves(m, n) /\ n.kernel # "running"
    BY <1>1, <2>1, <2>3, <2>4, <2>5, SmallPageFacts
  <2>7. CASE q = None
    <3>1. r = v
      BY <2>2, <2>3, <2>5, <2>7 DEF NewNode
    <3>2. Grown(m, n) /\ Calm(m, n)
      BY <2>6, <2>7, GrownKept
    <3>. QED BY <2>4, <2>6, <2>7, <3>1, <3>2 DEF Pushed
  <2>8. CASE q # None
    <3>2. PICK new : Lengthened(list, q, page, new)
      BY DEF Lengthened
    <3>3. Grown(m, n) /\ Calm(m, n) /\ Mapped(n, q) /\ ~Mapped(m, q) /\ q \in Page
      BY <2>6, <2>8, GrownGained DEF Gains, Gained
    <3>4. NoNode(list, q)
      BY <1>1, <1>5, <3>3 DEF NoNode
    <3>5. ListOK(new, S \cup {page}) /\ NodeMore(list, q, new)
      BY <1>4, <3>2, <3>3, <3>4, AddNode
    <3>6. r = [v EXCEPT !.freeList = [fl EXCEPT ![b] = new]]
      BY <1>2, <2>2, <2>3, <2>5, <2>6, <2>8, <3>2 DEF NewNode, Lengthened
    <3>7. IsState(r) /\ r.small = s.small /\ r.mem = n /\ r.freeList = [fl EXCEPT ![b] = new]
      BY <2>4, <2>6, <3>6 DEF IsState
    <3>8. Put(L, b, S \cup {page}, M)
      BY <1>3
    <3>9. PICK g : g = [fl EXCEPT ![b] = new] /\ Put(fl, b, new, g)
      BY DEF Put
    <3>10. NodesNew(m, n, fl, b, new)
      BY <1>5, <3>3, <3>5 DEF NodesNew, NodeMore
    <3>11. ListInv(n, g, O, M)
      BY <2>6, <3>3, <3>5, <3>8, <3>9, <3>10, SwapInv
    <3>. QED BY <2>6, <3>3, <3>7, <3>9, <3>11 DEF Pushed
  <2>. QED BY <2>7, <2>8
<1>. QED BY <1>6, <1>7

-----------------------------------------------------------------------------
(* List::remove *)

DropOf(m, list, page) ==
  CHOOSE r : r = [l \in 0..Len(list) |->
    IF l = 0 THEN [mem |-> m, list |-> <<>>] ELSE Kept(r[l - 1], Cleared(list[l], page))]

\* The steps over the nodes are defined for every node.
LEMMA DropOfFacts ==
  ASSUME NEW m, NEW list, Len(list) \in Nat, NEW page
  PROVE  /\ DropOf(m, list, page)[0] = [mem |-> m, list |-> <<>>]
         /\ \A l \in 1..Len(list) : DropOf(m, list, page)[l] = Kept(DropOf(m, list, page)[l - 1], Cleared(list[l], page))
<1>. DEFINE G(g, n) == g = [l \in 0..n |-> IF l = 0 THEN [mem |-> m, list |-> <<>>] ELSE Kept(g[l - 1], Cleared(list[l], page))]
            S == {n \in Nat : \E g : G(g, n)}
            F(s) == [l \in 0..Len(list) |-> IF l = 0 THEN [mem |-> m, list |-> <<>>] ELSE Kept(s[l - 1], Cleared(list[l], page))]
            s == CHOOSE f : f = F(f)
<1>0. Len(list) \in Nat /\ Len(list) = Len(list) /\ 0 \in 0..Len(list) /\ \A l \in 1..Len(list) : l \in 0..Len(list) /\ l # 0
  OBVIOUS
<1>1. 0 \in S
  <2>. DEFINE g == [l \in 0..0 |-> [mem |-> m, list |-> <<>>]]
  <2>1. G(g, 0)
    OBVIOUS
  <2>. HIDE DEF G, g
  <2>. QED BY <2>1
<1>2. ASSUME NEW n \in Nat, n \in S PROVE n + 1 \in S
  <2>1. PICK h : G(h, n)
    BY <1>2
  <2>. DEFINE b == n + 1
              g == [l \in 0..b |-> IF l = b THEN Kept(h[b - 1], Cleared(list[b], page)) ELSE h[l]]
  <2>2. ASSUME NEW l \in 0..b
        PROVE  g[l] = IF l = 0 THEN [mem |-> m, list |-> <<>>] ELSE Kept(g[l - 1], Cleared(list[l], page))
    <3>1. CASE l = b
      <4>1. l # 0 /\ b - 1 \in 0..b /\ b - 1 # b
        BY <3>1
      <4>. QED BY <3>1, <4>1
    <3>2. CASE l # b
      <4>1. l \in 0..n
        BY <3>2
      <4>2. l = 0 \/ (l - 1 \in 0..b /\ l - 1 # b)
        OBVIOUS
      <4>. QED BY <2>1, <3>2, <4>1, <4>2
    <3>. QED BY <3>1, <3>2
  <2>3. G(g, n + 1)
    BY <2>2
  <2>. HIDE DEF G, g
  <2>. QED BY <2>3
<1>3. Nat \subseteq S
  <2>. HIDE DEF S
  <2>. QED BY <1>1, <1>2, SetInduction
<1>4. PICK g : G(g, Len(list))
  <2>. HIDE DEF G
  <2>. QED BY <1>0, <1>3
<1>5. g = F(g)
  BY <1>0, <1>4
<1>6. s = F(s)
  <2>. HIDE DEF F
  <2>. QED BY <1>5
<1>7. DropOf(m, list, page) = s
  BY DEF DropOf
<1>. HIDE DEF s
<1>8. \A l \in 0..Len(list) : s[l] = IF l = 0 THEN [mem |-> m, list |-> <<>>] ELSE Kept(s[l - 1], Cleared(list[l], page))
  BY <1>6
<1>. QED BY <1>0, <1>7, <1>8

\* The nodes of a list without a page.
Clr(list, page) == [k \in DOMAIN list |-> Cleared(list[k], page)]
Empty(c, k) == \A x \in Place : At(c, k, x) = None

\* remove clears the page in every node.
LEMMA ClrFacts ==
  ASSUME NEW list \in Seq(Node), NEW page \in Page, NEW c, c = Clr(list, page)
  PROVE  /\ DOMAIN c = DOMAIN list
         /\ \A k \in DOMAIN list : c[k] \in Node /\ PageAt(c, k) = PageAt(list, k)
         /\ \A k \in DOMAIN list : \A x \in Place :
              At(c, k, x) = IF At(list, k, x) = page THEN None ELSE At(list, k, x)
<1>1. DOMAIN c = DOMAIN list /\ \A k \in DOMAIN list : c[k] = Cleared(list[k], page)
  BY DEF Clr
<1>2. ASSUME NEW k \in DOMAIN list
      PROVE  /\ c[k] \in Node /\ c[k].page = list[k].page
             /\ \A x \in Place : c[k].slots[x] = IF list[k].slots[x] = page THEN None ELSE list[k].slots[x]
  <2>1. PICK node : node = list[k]
    OBVIOUS
  <2>2. node \in Node
    BY <2>1
  <2>3. PICK slots : slots = [x \in Place |-> IF node.slots[x] = page THEN None ELSE node.slots[x]]
    OBVIOUS
  <2>4. node.page \in Page /\ node.slots \in [Place -> Page \cup {None}]
    BY <2>2 DEF Node
  <2>5. slots \in [Place -> Page \cup {None}]
    <3>1. \A x \in Place : node.slots[x] \in Page \cup {None}
      BY <2>4
    <3>. QED BY <2>3, <3>1
  <2>6. c[k] = [node EXCEPT !.slots = slots]
    BY <1>1, <2>1, <2>3 DEF Cleared, Place
  <2>7. c[k] \in Node /\ c[k].page = node.page /\ c[k].slots = slots
    BY <2>2, <2>4, <2>5, <2>6 DEF Node
  <2>. QED BY <2>1, <2>3, <2>7
<1>. QED BY <1>1, <1>2 DEF PageAt, At

\* The nodes that are kept of the first n, and the pages that are not.
KeptFrom(kept, c, n) ==
  /\ kept \in Seq(Node) /\ PagesApart(kept)
  /\ \A j \in DOMAIN kept : \E k \in 1..n : kept[j] = c[k] /\ ~Empty(c, k)
  /\ \A k \in 1..n : Empty(c, k) \/ \E j \in DOMAIN kept : kept[j] = c[k]
EmptyPage(c, n, q) == \E k \in 1..n : Empty(c, k) /\ PageAt(c, k) = q
ShrunkTo(m, u, c, n) ==
  \A q \in Page : Walk(u, q, 0) = IF EmptyPage(c, n, q) THEN -1 ELSE Walk(m, q, 0)

\* The next node is empty.
LEMMA KeptPassed ==
  ASSUME NEW kept, NEW c, NEW n \in Nat, KeptFrom(kept, c, n), Empty(c, n + 1)
  PROVE  KeptFrom(kept, c, n + 1)
<1>1. 1..(n + 1) = (1..n) \cup {n + 1}
  OBVIOUS
<1>. HIDE DEF Empty
<1>2. \A j \in DOMAIN kept : \E k \in 1..(n + 1) : kept[j] = c[k] /\ ~Empty(c, k)
  BY <1>1 DEF KeptFrom
<1>3. \A k \in 1..(n + 1) : Empty(c, k) \/ \E j \in DOMAIN kept : kept[j] = c[k]
  BY <1>1 DEF KeptFrom
<1>. QED BY <1>2, <1>3 DEF KeptFrom

\* The next node is not.
LEMMA KeptMore ==
  ASSUME NEW kept, NEW c, NEW n \in Nat, KeptFrom(kept, c, n), ~Empty(c, n + 1), c[n + 1] \in Node,
         \A k \in 1..n : PageAt(c, k) # PageAt(c, n + 1), NEW new, new = Append(kept, c[n + 1])
  PROVE  KeptFrom(new, c, n + 1)
<1>1. 1..(n + 1) = (1..n) \cup {n + 1}
  OBVIOUS
<1>2. PICK d \in Nat : d = Len(kept)
  BY DEF KeptFrom
<1>3. /\ new \in Seq(Node) /\ DOMAIN kept = 1..d /\ DOMAIN new = 1..(d + 1)
      /\ new[d + 1] = c[n + 1] /\ \A j \in 1..d : new[j] = kept[j]
  BY <1>2 DEF KeptFrom
<1>4. DOMAIN new = DOMAIN kept \cup {d + 1} /\ \A j \in DOMAIN kept : new[j] = kept[j]
  BY <1>3
<1>. HIDE DEF Empty
<1>5. ASSUME NEW j \in DOMAIN new PROVE \E k \in 1..(n + 1) : new[j] = c[k] /\ ~Empty(c, k)
  <2>1. CASE j \in DOMAIN kept
    BY <1>1, <1>4, <2>1 DEF KeptFrom
  <2>2. CASE j = d + 1
    BY <1>1, <1>3, <2>2
  <2>. QED BY <1>4, <2>1, <2>2
<1>6. ASSUME NEW k \in 1..(n + 1), ~Empty(c, k) PROVE \E j \in DOMAIN new : new[j] = c[k]
  <2>1. CASE k \in 1..n
    <3>1. PICK j \in DOMAIN kept : kept[j] = c[k]
      BY <1>6, <2>1 DEF KeptFrom
    <3>. QED BY <1>4, <3>1
  <2>2. CASE k = n + 1
    BY <1>3, <1>4, <2>2
  <2>. QED BY <1>1, <2>1, <2>2
<1>7. \A j \in DOMAIN kept : PageAt(new, j) = PageAt(kept, j) /\ PageAt(new, j) # PageAt(c, n + 1)
  <2>1. ASSUME NEW j \in DOMAIN kept PROVE PageAt(new, j) = PageAt(kept, j) /\ PageAt(new, j) # PageAt(c, n + 1)
    <3>1. PICK k \in 1..n : kept[j] = c[k]
      BY DEF KeptFrom
    <3>2. PageAt(new, j) = PageAt(c, k) /\ PageAt(kept, j) = PageAt(c, k)
      BY <1>4, <3>1 DEF PageAt
    <3>. HIDE DEF PageAt
    <3>. QED BY <3>2
  <2>. QED BY <2>1
<1>8. PageAt(new, d + 1) = PageAt(c, n + 1)
  BY <1>3 DEF PageAt
<1>9. PagesApart(new)
  <2>. HIDE DEF PageAt
  <2>1. \A i, j \in DOMAIN kept : (PageAt(kept, i) = PageAt(kept, j)) => i = j
    BY DEF KeptFrom, PagesApart
  <2>. QED BY <1>4, <1>7, <1>8, <2>1 DEF PagesApart
<1>. QED BY <1>3, <1>5, <1>6, <1>9 DEF KeptFrom

\* The page of the next node is freed, or not.
LEMMA ShrunkStep ==
  ASSUME NEW m, NEW u, NEW c, NEW n \in Nat, ShrunkTo(m, u, c, n)
  PROVE  /\ ~Empty(c, n + 1) => ShrunkTo(m, u, c, n + 1)
         /\ \A v : Empty(c, n + 1) /\ Lost(u, v, PageAt(c, n + 1)) => ShrunkTo(m, v, c, n + 1)
<1>1. 1..(n + 1) = (1..n) \cup {n + 1}
  OBVIOUS
<1>. HIDE DEF Empty, PageAt
<1>2. \A q : EmptyPage(c, n + 1, q) <=> EmptyPage(c, n, q) \/ (Empty(c, n + 1) /\ PageAt(c, n + 1) = q)
  BY <1>1 DEF EmptyPage
<1>. HIDE DEF EmptyPage
<1>3. ~Empty(c, n + 1) => ShrunkTo(m, u, c, n + 1)
  BY <1>2 DEF ShrunkTo
<1>4. ASSUME NEW v, Empty(c, n + 1), Lost(u, v, PageAt(c, n + 1)) PROVE ShrunkTo(m, v, c, n + 1)
  <2>1. ASSUME NEW q \in Page PROVE Walk(v, q, 0) = IF EmptyPage(c, n + 1, q) THEN -1 ELSE Walk(m, q, 0)
    <3>1. Walk(u, q, 0) = IF EmptyPage(c, n, q) THEN -1 ELSE Walk(m, q, 0)
      BY DEF ShrunkTo
    <3>2. Walk(v, q, 0) = IF q = PageAt(c, n + 1) THEN -1 ELSE Walk(u, q, 0)
      BY <1>4 DEF Lost
    <3>3. EmptyPage(c, n + 1, q) <=> EmptyPage(c, n, q) \/ PageAt(c, n + 1) = q
      BY <1>2, <1>4
    <3>. HIDE DEF Walk
    <3>. QED BY <3>1, <3>2, <3>3
  <2>. QED BY <2>1 DEF ShrunkTo
<1>. QED BY <1>3, <1>4

\* What List::remove goes on with.
IsPair(r, u, kept) == r = [mem |-> u, list |-> kept]

\* A node is kept, or its page is freed.
LEMMA KeptFacts ==
  ASSUME NEW u, NEW kept, NEW c, NEW k, NEW r, IsPair(r, u, kept),
         NEW v, v = Kept(r, c[k]), NEW node, node = c[k]
  PROVE  /\ Empty(c, k) => IsPair(v, FreePage(u, node.page), kept)
         /\ ~Empty(c, k) => IsPair(v, u, Append(kept, node))
<1>2. Empty(c, k) <=> \A x \in 1..NodeSlots : node.slots[x] = None
  BY DEF Empty, At, Place
<1>4. CASE Empty(c, k)
  <2>1. Kept(r, node) = [r EXCEPT !.mem = FreePage(@, node.page)]
    BY <1>2, <1>4 DEF Kept
  <2>2. IsPair(Kept(r, node), FreePage(u, node.page), kept)
    BY <2>1 DEF IsPair
  <2>. HIDE DEF Empty
  <2>. QED BY <1>4, <2>2
<1>5. CASE ~Empty(c, k)
  <2>1. Kept(r, node) = [r EXCEPT !.list = Append(@, node)]
    BY <1>2, <1>5 DEF Kept
  <2>2. IsPair(Kept(r, node), u, Append(kept, node))
    BY <2>1 DEF IsPair
  <2>. HIDE DEF Empty
  <2>. QED BY <1>5, <2>2
<1>. QED BY <1>4, <1>5

\* The nodes of a list are mapped, each in a page of its own.
ListMapped(m, list) == \A k \in DOMAIN list : Mapped(m, PageAt(list, k))
Dropped(m, c, r, i) ==
  /\ r = [mem |-> r.mem, list |-> r.list] /\ Sound(r.mem) /\ r.mem.kernel = m.kernel
  /\ KeptFrom(r.list, c, i) /\ ShrunkTo(m, r.mem, c, i)

\* One node more is searched.
LEMMA DropStep ==
  ASSUME NEW m, NEW c, NEW K \in Nat, DOMAIN c = 1..K, \A k \in 1..K : c[k] \in Node,
         PagesApart(c), ListMapped(m, c), NEW i \in Nat, i < K, NEW r, Dropped(m, c, r, i)
  PROVE  Dropped(m, c, Kept(r, c[i + 1]), i + 1)
<1>1. PICK u, kept : u = r.mem /\ kept = r.list
  OBVIOUS
<1>2. /\ r = [mem |-> u, list |-> kept] /\ Sound(u) /\ u.kernel = m.kernel
      /\ KeptFrom(kept, c, i) /\ ShrunkTo(m, u, c, i)
  BY <1>1 DEF Dropped
<1>3. PICK k : k = i + 1
  OBVIOUS
<1>4. k \in DOMAIN c /\ \A j \in 1..i : j \in DOMAIN c /\ j # k
  BY <1>3
<1>5. \A j \in 1..i : PageAt(c, j) # PageAt(c, k)
  BY <1>4 DEF PagesApart
<1>6. PICK q : q = PageAt(c, k)
  OBVIOUS
<1>7. q \in Page /\ Walk(m, q, 0) # -1
  BY <1>4, <1>6 DEF ListMapped, Mapped
<1>8. ~EmptyPage(c, i, q)
  BY <1>5, <1>6 DEF EmptyPage
<1>9. Walk(u, q, 0) # -1
  BY <1>2, <1>7, <1>8 DEF ShrunkTo
<1>10. PICK v, node : v = Kept(r, c[k]) /\ node = c[k]
  OBVIOUS
<1>11. CASE Empty(c, k)
  <2>1. PICK n : n = FreePage(u, q)
    OBVIOUS
  <2>2. Sound(n) /\ Lost(u, n, q) /\ n.kernel = u.kernel
    BY <1>2, <1>7, <1>9, <2>1, FreePageFacts
  <2>3. v = [mem |-> n, list |-> kept]
    <3>0. IsPair(r, u, kept)
      BY <1>2 DEF IsPair
    <3>1. IsPair(v, FreePage(u, node.page), kept)
      BY <1>10, <1>11, <3>0, KeptFacts
    <3>2. node.page = q
      BY <1>6, <1>10 DEF PageAt
    <3>. QED BY <2>1, <3>1, <3>2 DEF IsPair
  <2>4. KeptFrom(kept, c, i + 1)
    BY <1>2, <1>3, <1>11, KeptPassed
  <2>5. ShrunkTo(m, n, c, i + 1)
    BY <1>2, <1>3, <1>6, <1>11, <2>2, ShrunkStep
  <2>6. Dropped(m, c, v, i + 1)
    BY <1>2, <2>2, <2>3, <2>4, <2>5 DEF Dropped
  <2>. QED BY <1>3, <1>10, <2>6
<1>12. CASE ~Empty(c, k)
  <2>1. PICK new : new = Append(kept, c[k])
    OBVIOUS
  <2>2. v = [mem |-> u, list |-> new]
    <3>0. IsPair(r, u, kept)
      BY <1>2 DEF IsPair
    <3>1. IsPair(v, u, Append(kept, node))
      BY <1>10, <1>12, <3>0, KeptFacts
    <3>. QED BY <1>10, <2>1, <3>1 DEF IsPair
  <2>3. KeptFrom(new, c, i + 1)
    <3>1. \A j \in 1..i : PageAt(c, j) # PageAt(c, i + 1)
      BY <1>3, <1>5
    <3>2. ~Empty(c, i + 1) /\ c[i + 1] \in Node /\ new = Append(kept, c[i + 1])
      BY <1>3, <1>4, <1>12, <2>1
    <3>. QED BY <1>2, <3>1, <3>2, KeptMore
  <2>4. ShrunkTo(m, u, c, i + 1)
    BY <1>2, <1>3, <1>12, ShrunkStep
  <2>5. Dropped(m, c, v, i + 1)
    BY <1>2, <2>2, <2>3, <2>4 DEF Dropped
  <2>. QED BY <1>3, <1>10, <2>5
<1>. QED BY <1>11, <1>12

\* All nodes are searched.
LEMMA DropAll ==
  ASSUME NEW m, Sound(m), NEW list \in Seq(Node), PagesApart(list), ListMapped(m, list),
         NEW page \in Page, NEW c, c = Clr(list, page), NEW r, r = DropOf(m, list, page)[Len(list)]
  PROVE  Dropped(m, c, r, Len(list))
<1>0. PICK K \in Nat : K = Len(list) /\ DOMAIN list = 1..K
  OBVIOUS
<1>1. PICK d : d = DropOf(m, list, page)
  OBVIOUS
<1>2. d[0] = [mem |-> m, list |-> <<>>] /\ \A l \in 0 + 1..K : d[l] = Kept(d[l - 1], Cleared(list[l], page))
  BY <1>0, <1>1, DropOfFacts
<1>3. DOMAIN c = 1..K /\ \A k \in 1..K : c[k] \in Node /\ PageAt(c, k) = PageAt(list, k) /\ c[k] = Cleared(list[k], page)
  <2>1. DOMAIN c = 1..K /\ \A k \in 1..K : c[k] = Cleared(list[k], page)
    BY <1>0 DEF Clr
  <2>2. \A k \in 1..K : c[k] \in Node /\ PageAt(c, k) = PageAt(list, k)
    BY <1>0, ClrFacts
  <2>. QED BY <2>1, <2>2
<1>4. PagesApart(c) /\ ListMapped(m, c)
  BY <1>0, <1>3 DEF PagesApart, ListMapped
<1>. DEFINE S == {i \in Nat : i <= K => Dropped(m, c, d[i], i)}
<1>5. 0 \in S
  <2>1. KeptFrom(<<>>, c, 0)
    BY DEF KeptFrom, PagesApart
  <2>2. ShrunkTo(m, m, c, 0)
    BY DEF ShrunkTo, EmptyPage
  <2>3. Dropped(m, c, d[0], 0)
    BY <1>2, <2>1, <2>2 DEF Dropped
  <2>. QED BY <2>3
<1>6. ASSUME NEW i \in Nat, i \in S PROVE i + 1 \in S
  <2>. SUFFICES ASSUME i + 1 <= K PROVE Dropped(m, c, d[i + 1], i + 1)
    OBVIOUS
  <2>1. i < K /\ i <= K /\ i + 1 \in 0 + 1..K /\ i + 1 \in 1..K /\ (i + 1) - 1 = i
    OBVIOUS
  <2>2. Dropped(m, c, d[i], i)
    BY <1>6, <2>1
  <2>3. d[i + 1] = Kept(d[i], c[i + 1])
    BY <1>2, <1>3, <2>1
  <2>4. \A k \in 1..K : c[k] \in Node
    BY <1>3
  <2>5. Dropped(m, c, Kept(d[i], c[i + 1]), i + 1)
    BY <1>3, <1>4, <2>1, <2>2, <2>4, DropStep
  <2>. QED BY <2>3, <2>5
<1>7. K \in S
  <2>. HIDE DEF S
  <2>1. Nat \subseteq S
    BY <1>5, <1>6, SetInduction
  <2>. QED BY <2>1
<1>8. Dropped(m, c, d[K], K)
  BY <1>7
<1>. QED BY <1>0, <1>1, <1>8

\* The list that is kept holds every page but the one removed.
LEMMA KeptList ==
  ASSUME NEW list, NEW S, ListOK(list, S), NEW page \in Page, NEW c, c = Clr(list, page),
         NEW kept, KeptFrom(kept, c, Len(list))
  PROVE  ListOK(kept, S \ {page})
<1>1. list \in Seq(Node) /\ S \subseteq Page /\ Once(list) /\ Holds(list, S)
  BY DEF ListOK
<1>2. DOMAIN list = 1..Len(list)
  BY <1>1
<1>3. page # None
  BY PlaceFacts
<1>4. /\ \A k \in DOMAIN list : PageAt(c, k) = PageAt(list, k)
      /\ \A k \in DOMAIN list : \A x \in Place :
           At(c, k, x) = IF At(list, k, x) = page THEN None ELSE At(list, k, x)
  BY <1>1, ClrFacts
<1>5. kept \in Seq(Node) /\ PagesApart(kept)
  BY DEF KeptFrom
<1>6. ASSUME NEW j \in DOMAIN kept
      PROVE  \E k \in DOMAIN list : /\ ~Empty(c, k) /\ PageAt(kept, j) = PageAt(c, k)
                                    /\ \A x \in Place : At(kept, j, x) = At(c, k, x)
  <2>1. PICK k \in DOMAIN list : kept[j] = c[k] /\ ~Empty(c, k)
    BY <1>2 DEF KeptFrom
  <2>2. PageAt(kept, j) = PageAt(c, k) /\ \A x \in Place : At(kept, j, x) = At(c, k, x)
    BY <2>1 DEF PageAt, At
  <2>. QED BY <2>1, <2>2
<1>7. ASSUME NEW k \in DOMAIN list, ~Empty(c, k)
      PROVE  \E j \in DOMAIN kept : \A x \in Place : At(kept, j, x) = At(c, k, x)
  <2>1. PICK j \in DOMAIN kept : kept[j] = c[k]
    BY <1>2, <1>7 DEF KeptFrom
  <2>2. \A x \in Place : At(kept, j, x) = At(c, k, x)
    BY <2>1 DEF At
  <2>. QED BY <2>2
<1>. HIDE DEF PageAt, At
<1>8. NoneEmpty(kept)
  BY <1>6 DEF NoneEmpty, Empty
<1>9. Holds(kept, S \ {page})
  <2>1. ASSUME NEW p \in S \ {page} PROVE \E j \in DOMAIN kept : \E x \in Place : At(kept, j, x) = p
    <3>1. PICK k \in DOMAIN list, x \in Place : At(list, k, x) = p
      BY <1>1 DEF Holds
    <3>2. At(c, k, x) = p /\ p # None
      BY <1>1, <1>4, <3>1, PlaceFacts
    <3>3. ~Empty(c, k)
      BY <3>2 DEF Empty
    <3>4. PICK j \in DOMAIN kept : \A y \in Place : At(kept, j, y) = At(c, k, y)
      BY <1>7, <3>3
    <3>. QED BY <3>2, <3>4
  <2>2. ASSUME NEW j \in DOMAIN kept, NEW x \in Place PROVE At(kept, j, x) \in (S \ {page}) \cup {None}
    <3>1. PICK k \in DOMAIN list : \A y \in Place : At(kept, j, y) = At(c, k, y)
      BY <1>6
    <3>2. At(list, k, x) \in S \cup {None}
      BY <1>1 DEF Holds
    <3>3. At(kept, j, x) = IF At(list, k, x) = page THEN None ELSE At(list, k, x)
      BY <1>4, <3>1
    <3>. QED BY <3>2, <3>3
  <2>. QED BY <2>1, <2>2 DEF Holds
<1>10. Once(kept)
  <2>0. \A k, h \in DOMAIN list : \A x, y \in Place :
          (At(list, k, x) # None /\ At(list, k, x) = At(list, h, y)) => (k = h /\ x = y)
    BY <1>1 DEF Once
  <2>1. ASSUME NEW i \in DOMAIN kept, NEW j \in DOMAIN kept, NEW x \in Place, NEW y \in Place,
               At(kept, i, x) # None, At(kept, i, x) = At(kept, j, y)
        PROVE  i = j /\ x = y
    <3>1. PICK k \in DOMAIN list : PageAt(kept, i) = PageAt(c, k) /\ \A z \in Place : At(kept, i, z) = At(c, k, z)
      BY <1>6
    <3>2. PICK h \in DOMAIN list : PageAt(kept, j) = PageAt(c, h) /\ \A z \in Place : At(kept, j, z) = At(c, h, z)
      BY <1>6
    <3>3. At(c, k, x) # None /\ At(c, h, y) # None /\ At(c, k, x) = At(c, h, y)
      BY <2>1, <3>1, <3>2
    <3>4. At(list, k, x) = At(c, k, x) /\ At(list, h, y) = At(c, h, y)
      BY <1>4, <3>3
    <3>5. At(list, k, x) # None /\ At(list, k, x) = At(list, h, y)
      BY <3>3, <3>4
    <3>6. k = h /\ x = y
      BY <2>0, <3>5
    <3>7. PageAt(kept, i) = PageAt(kept, j)
      BY <3>1, <3>2, <3>6
    <3>8. i = j
      BY <1>5, <3>7 DEF PagesApart
    <3>. QED BY <3>6, <3>8
  <2>. QED BY <2>1 DEF Once
<1>11. S \ {page} \subseteq Page
  BY <1>1
<1>. QED BY <1>5, <1>8, <1>9, <1>10, <1>11 DEF ListOK

\* A page that had a frame may have lost it, and no other page changed.
Shrunk(m, n) == \A q \in Page : Walk(n, q, 0) = -1 \/ Walk(n, q, 0) = Walk(m, q, 0)

Dropping(s, b, d, r) == r = [s EXCEPT !.freeList[b] = d.list, !.mem = d.mem]

\* remove keeps the nodes that are not empty.
LEMMA DropParts ==
  ASSUME NEW s, NEW b, NEW page, NEW list, list = s.freeList[b], NEW m, m = s.mem,
         NEW d, d = DropOf(m, list, page)[Len(list)], NEW r, r = Drop(s, b, page)
  PROVE  Dropping(s, b, d, r)
BY DEF Drop, DropOf, Dropping

\* The memory after a removal: what is left mapped.
LEMMA DropLeft ==
  ASSUME NEW m, NEW fl, NEW O, NEW L, ListInv(m, fl, O, L), NEW b \in Buckets, NEW page \in Page,
         NEW c, c = Clr(fl[b], page), NEW n, ShrunkTo(m, n, c, Len(fl[b])),
         NEW kept, KeptFrom(kept, c, Len(fl[b]))
  PROVE  /\ Shrunk(m, n) /\ NodesFrom(fl, b, kept)
         /\ \A p \in O : Mapped(n, p)
         /\ \A k \in Buckets \ {b} : \A p : IsNode(fl, k, p) => Mapped(n, p)
         /\ \A j \in DOMAIN kept : Mapped(n, PageAt(kept, j)) /\ PageAt(kept, j) \notin O
<1>1. PICK list : list = fl[b]
  OBVIOUS
<1>2. list \in Seq(Node) /\ PagesApart(list)
  BY <1>1 DEF ListInv, Lists, ListOK
<1>3. PICK K \in Nat : K = Len(list) /\ DOMAIN list = 1..K
  BY <1>2
<1>4. DOMAIN c = DOMAIN list /\ \A k \in DOMAIN list : PageAt(c, k) = PageAt(list, k)
  BY <1>1, <1>2, ClrFacts
<1>5. /\ \A k \in DOMAIN list : IsNode(fl, b, PageAt(list, k))
      /\ \A p : IsNode(fl, b, p) => \E k \in DOMAIN list : PageAt(list, k) = p
  BY <1>1 DEF IsNode
<1>6. /\ \A k \in Buckets : \A p : IsNode(fl, k, p) => Mapped(m, p) /\ p \notin O
      /\ \A p \in O : Mapped(m, p)
  BY DEF ListInv, NodesMapped
<1>7. \A j, k \in Buckets : \A p : (IsNode(fl, j, p) /\ IsNode(fl, k, p)) => j = k
  BY DEF ListInv, NodesApart
<1>. HIDE DEF IsNode
<1>8. \A p : EmptyPage(c, K, p) => IsNode(fl, b, p)
  BY <1>3, <1>4, <1>5 DEF EmptyPage
<1>9. \A p : Mapped(m, p) /\ ~EmptyPage(c, K, p) => Mapped(n, p)
  BY <1>1, <1>3 DEF ShrunkTo, Mapped
<1>10. Shrunk(m, n)
  BY DEF ShrunkTo, Shrunk
<1>. HIDE DEF Mapped
<1>11. ASSUME NEW j \in DOMAIN kept
       PROVE  IsNode(fl, b, PageAt(kept, j)) /\ ~EmptyPage(c, K, PageAt(kept, j))
  <2>1. PICK k \in 1..K : kept[j] = c[k] /\ ~Empty(c, k)
    BY <1>1, <1>3 DEF KeptFrom
  <2>2. PageAt(kept, j) = PageAt(c, k)
    BY <2>1 DEF PageAt
  <2>. HIDE DEF PageAt
  <2>3. PageAt(kept, j) = PageAt(list, k) /\ k \in DOMAIN list
    BY <1>3, <1>4, <2>2
  <2>4. IsNode(fl, b, PageAt(kept, j))
    BY <1>5, <2>3
  <2>5. ASSUME EmptyPage(c, K, PageAt(kept, j)) PROVE FALSE
    <3>1. PICK h \in 1..K : Empty(c, h) /\ PageAt(c, h) = PageAt(kept, j)
      BY <2>5 DEF EmptyPage
    <3>2. PageAt(list, h) = PageAt(list, k) /\ h \in DOMAIN list
      BY <1>3, <1>4, <2>3, <3>1
    <3>3. h = k
      BY <1>2, <2>3, <3>2 DEF PagesApart
    <3>. QED BY <2>1, <3>1, <3>3
  <2>. QED BY <2>4, <2>5
<1>12. NodesFrom(fl, b, kept)
  BY <1>11 DEF NodesFrom
<1>13. \A p \in O : Mapped(n, p)
  BY <1>6, <1>8, <1>9
<1>14. \A k \in Buckets \ {b} : \A p : IsNode(fl, k, p) => Mapped(n, p)
  BY <1>6, <1>7, <1>8, <1>9
<1>15. \A j \in DOMAIN kept : Mapped(n, PageAt(kept, j)) /\ PageAt(kept, j) \notin O
  BY <1>6, <1>9, <1>11
<1>. QED BY <1>10, <1>12, <1>13, <1>14, <1>15

DroppedFrom(m, O, M, s, r) ==
  /\ IsState(r) /\ r.small = s.small /\ r.mem.kernel = m.kernel /\ Shrunk(m, r.mem)
  /\ ListInv(r.mem, r.freeList, O, M)

\* List::remove: the list without a page.
LEMMA DropFacts ==
  ASSUME NEW s, IsState(s), NEW m, m = s.mem, NEW fl, fl = s.freeList,
         NEW O, NEW L, ListInv(m, fl, O, L), NEW b \in Buckets, NEW page \in Page,
         NEW r, r = Drop(s, b, page), NEW T, T = L[b] \ {page}, NEW M, Put(L, b, T, M)
  PROVE  DroppedFrom(m, O, M, s, r)
<1>1. PICK list : list = fl[b]
  OBVIOUS
<1>2. PICK d : d = DropOf(m, list, page)[Len(list)]
  OBVIOUS
<1>3. PICK c : c = Clr(list, page)
  OBVIOUS
<1>4. PICK n, kept : n = d.mem /\ kept = d.list
  OBVIOUS
<1>5. Sound(m) /\ Lists(fl, L) /\ NodesApart(fl) /\ ListOK(list, L[b]) /\ DOMAIN fl = Buckets
  BY <1>1 DEF ListInv, Lists
<1>6. list \in Seq(Node) /\ PagesApart(list)
  BY <1>5 DEF ListOK
<1>7. ListMapped(m, list)
  BY <1>1 DEF ListInv, NodesMapped, IsNode, ListMapped
<1>8. Dropped(m, c, d, Len(list))
  BY <1>2, <1>3, <1>5, <1>6, <1>7, DropAll
<1>9. Sound(n) /\ n.kernel = m.kernel /\ KeptFrom(kept, c, Len(list)) /\ ShrunkTo(m, n, c, Len(list))
  BY <1>4, <1>8 DEF Dropped
<1>10. ListOK(kept, L[b] \ {page})
  BY <1>3, <1>5, <1>9, KeptList
<1>11. /\ Shrunk(m, n) /\ NodesFrom(fl, b, kept)
       /\ \A p \in O : Mapped(n, p)
       /\ \A k \in Buckets \ {b} : \A p : IsNode(fl, k, p) => Mapped(n, p)
       /\ \A j \in DOMAIN kept : Mapped(n, PageAt(kept, j)) /\ PageAt(kept, j) \notin O
  <2>1. c = Clr(fl[b], page) /\ ShrunkTo(m, n, c, Len(fl[b])) /\ KeptFrom(kept, c, Len(fl[b]))
    BY <1>1, <1>3, <1>9
  <2>. QED BY <2>1, DropLeft
<1>12. PICK g : g = [fl EXCEPT ![b] = kept] /\ Put(fl, b, kept, g)
  BY DEF Put
<1>13. Put(L, b, T, M) /\ ListOK(kept, T)
  BY <1>10
<1>14. /\ Lists(g, M) /\ NodesApart(g) /\ g[b] = kept
       /\ \A k \in Buckets : k # b => g[k] = fl[k]
  BY <1>5, <1>11, <1>12, <1>13, SwapList
<1>15. NodesMapped(n, g, O)
  <2>1. ASSUME NEW k \in Buckets, NEW p, IsNode(g, k, p) PROVE Mapped(n, p) /\ p \notin O
    <3>1. CASE k = b
      <4>1. PICK j \in DOMAIN kept : PageAt(kept, j) = p
        BY <1>14, <2>1, <3>1 DEF IsNode
      <4>. QED BY <1>11, <4>1
    <3>2. CASE k # b
      <4>1. IsNode(fl, k, p)
        BY <1>14, <2>1, <3>2 DEF IsNode
      <4>2. p \notin O
        BY <4>1 DEF ListInv, NodesMapped
      <4>. QED BY <1>11, <3>2, <4>1, <4>2
    <3>. QED BY <3>1, <3>2
  <2>. QED BY <2>1 DEF NodesMapped
<1>16. ListInv(n, g, O, M)
  BY <1>9, <1>11, <1>14, <1>15 DEF ListInv
<1>17. r = [s EXCEPT !.freeList = g, !.mem = n]
  <2>0. list = s.freeList[b]
    BY <1>1
  <2>1. Dropping(s, b, d, r)
    BY <1>2, <2>0, DropParts
  <2>. QED BY <1>4, <1>12, <2>1 DEF Dropping
<1>18. IsState(r) /\ r.small = s.small /\ r.mem = n /\ r.freeList = g
  BY <1>17 DEF IsState
<1>. QED BY <1>9, <1>11, <1>16, <1>18 DEF DroppedFrom

-----------------------------------------------------------------------------
(* The pages of small blocks *)

IsSmall(e) ==
  e = [bucket |-> e.bucket, used |-> e.used] /\ e.bucket \in Buckets /\ e.used \subseteq Slots(e.bucket)
SmallOK(sm) == \A p \in DOMAIN sm : IsSmall(sm[p])
Listable(sm, b) == {p \in DOMAIN sm : sm[p].bucket = b /\ sm[p].used # Slots(b)}
LOf(sm) == [b \in Buckets |-> Listable(sm, b)]

\* The sizes and the counts of the buckets.
LEMMA BucketFacts ==
  /\ \A b \in Buckets : /\ BucketSizes[b] \in Nat \ {0} /\ BucketCounts[b] \in Nat \ {0}
                        /\ 0 \in Slots(b) /\ Slots(b) \subseteq Nat /\ IsFiniteSet(Slots(b))
  /\ Buckets \subseteq Nat /\ Len(BucketSizes) \in Buckets
<1>1. BucketSizes \in Seq(Nat \ {0}) /\ BucketCounts \in Seq(Nat \ {0})
      /\ Len(BucketSizes) > 0 /\ Len(BucketCounts) = Len(BucketSizes)
  BY HeapAssumption
<1>2. Buckets = 1..Len(BucketSizes) /\ DOMAIN BucketCounts = Buckets /\ Len(BucketSizes) \in Nat
  BY <1>1 DEF Buckets
<1>3. Buckets \subseteq Nat /\ Len(BucketSizes) \in Buckets
  BY <1>1, <1>2
<1>4. ASSUME NEW b \in Buckets
      PROVE  /\ BucketSizes[b] \in Nat \ {0} /\ BucketCounts[b] \in Nat \ {0}
             /\ 0 \in Slots(b) /\ Slots(b) \subseteq Nat /\ IsFiniteSet(Slots(b))
  <2>1. BucketSizes[b] \in Nat \ {0}
    BY <1>1, <1>2
  <2>2. BucketCounts[b] \in Nat \ {0}
    BY <1>1, <1>2
  <2>3. PICK k \in Nat \ {0} : k = BucketCounts[b]
    BY <2>2
  <2>4. Slots(b) = 0..(k - 1)
    BY <2>3 DEF Slots
  <2>5. 0 \in 0..(k - 1) /\ 0..(k - 1) \subseteq Nat
    BY <2>3
  <2>6. IsFiniteSet(0..(k - 1))
    BY <2>3, FS_Interval
  <2>. QED BY <2>1, <2>2, <2>4, <2>5, <2>6
<1>. QED BY <1>3, <1>4

\* A page more, without a block.
Added(sm, p, b, sn) == sn = With(sm, p, [bucket |-> b, used |-> {}])

AddedOK(sm, p, b, sn) ==
  /\ SmallOK(sn) /\ DOMAIN sn = DOMAIN sm \cup {p}
  /\ sn[p].bucket = b /\ sn[p].used = {} /\ \A q \in DOMAIN sm : sn[q] = sm[q]
  /\ Put(LOf(sm), b, LOf(sm)[b] \cup {p}, LOf(sn))

\* A page more is listable in its bucket.
LEMMA AddedFacts ==
  ASSUME NEW sm, SmallOK(sm), NEW b \in Buckets, NEW p, p \notin DOMAIN sm, NEW sn, Added(sm, p, b, sn)
  PROVE  AddedOK(sm, p, b, sn)
<1>1. PICK e : e = [bucket |-> b, used |-> {}]
  OBVIOUS
<1>2. DOMAIN sn = DOMAIN sm \cup {p} /\ sn[p] = e /\ \A q \in DOMAIN sm : sn[q] = sm[q]
  BY <1>1 DEF Added, With
<1>3. e.bucket = b /\ e.used = {} /\ IsSmall(e)
  BY <1>1 DEF IsSmall
<1>4. SmallOK(sn)
  BY <1>2, <1>3 DEF SmallOK
<1>5. {} # Slots(b)
  BY BucketFacts
<1>6. \A c \in Buckets : Listable(sn, c) = IF c = b THEN Listable(sm, c) \cup {p} ELSE Listable(sm, c)
  BY <1>2, <1>3, <1>5 DEF Listable
<1>. HIDE DEF Listable
<1>7. LOf(sn) = [LOf(sm) EXCEPT ![b] = LOf(sm)[b] \cup {p}]
  BY <1>6 DEF LOf
<1>. QED BY <1>2, <1>3, <1>4, <1>7 DEF Put, AddedOK

\* Other blocks of a page are in use.
UsedSet(sm, p, U, sn) == sn = [sm EXCEPT ![p].used = U]

UsedOK(sm, p, b, U, sn) ==
  /\ SmallOK(sn) /\ DOMAIN sn = DOMAIN sm /\ b \in Buckets
  /\ sn[p].bucket = b /\ sn[p].used = U /\ \A q \in DOMAIN sm : q # p => sn[q] = sm[q]
  /\ U = Slots(b) => Put(LOf(sm), b, LOf(sm)[b] \ {p}, LOf(sn))
  /\ U # Slots(b) => Put(LOf(sm), b, LOf(sm)[b] \cup {p}, LOf(sn))

\* A page is listable as long as a block of it is free.
LEMMA UsedSetFacts ==
  ASSUME NEW sm, SmallOK(sm), NEW p \in DOMAIN sm, NEW b, b = sm[p].bucket, NEW U, U \subseteq Slots(b),
         NEW sn, UsedSet(sm, p, U, sn)
  PROVE  UsedOK(sm, p, b, U, sn)
<1>1. PICK e : e = sm[p]
  OBVIOUS
<1>2. PICK f : f = [e EXCEPT !.used = U]
  OBVIOUS
<1>3. e = [bucket |-> e.bucket, used |-> e.used] /\ b = e.bucket /\ b \in Buckets
  BY <1>1 DEF SmallOK, IsSmall
<1>4. f = [bucket |-> b, used |-> U]
  BY <1>2, <1>3
<1>5. f.bucket = b /\ f.used = U /\ IsSmall(f)
  BY <1>3, <1>4 DEF IsSmall
<1>6. sn = [sm EXCEPT ![p] = f]
  BY <1>1, <1>2 DEF UsedSet
<1>7. DOMAIN sn = DOMAIN sm /\ sn[p] = f /\ \A q \in DOMAIN sm : q # p => sn[q] = sm[q]
  BY <1>6
<1>8. SmallOK(sn)
  BY <1>5, <1>7 DEF SmallOK
<1>9. \A c \in Buckets : c # b => Listable(sn, c) = Listable(sm, c)
  <2>1. e.bucket = b
    BY <1>3
  <2>. QED BY <1>1, <1>5, <1>7, <2>1 DEF Listable
<1>10. Listable(sn, b) = IF U = Slots(b) THEN Listable(sm, b) \ {p} ELSE Listable(sm, b) \cup {p}
  BY <1>1, <1>3, <1>5, <1>7 DEF Listable
<1>. HIDE DEF Listable
<1>11. U = Slots(b) => LOf(sn) = [LOf(sm) EXCEPT ![b] = LOf(sm)[b] \ {p}]
  BY <1>3, <1>9, <1>10 DEF LOf
<1>12. U # Slots(b) => LOf(sn) = [LOf(sm) EXCEPT ![b] = LOf(sm)[b] \cup {p}]
  BY <1>3, <1>9, <1>10 DEF LOf
<1>. QED BY <1>3, <1>5, <1>7, <1>8, <1>11, <1>12 DEF Put, UsedOK

\* The invariant of small_allocator, for the pages X that others own.
SInv(m, sm, fl, X) ==
  SmallOK(sm) /\ (DOMAIN sm \cap X = {}) /\ ListInv(m, fl, DOMAIN sm \cup X, LOf(sm))
SState(s, X) == IsState(s) /\ SInv(s.mem, s.small, s.freeList, X)

\* Pages more for others.
LEMMA SInvGrown ==
  ASSUME NEW m, NEW sm, NEW fl, NEW X, SInv(m, sm, fl, X), NEW n, Sound(n), Grown(m, n),
         NEW Q, \A q \in Q : Mapped(n, q) /\ ~Mapped(m, q)
  PROVE  SInv(n, sm, fl, X \cup Q)
<1>1. PICK O : O = DOMAIN sm \cup X
  OBVIOUS
<1>2. PICK L : L = LOf(sm)
  OBVIOUS
<1>3. ListInv(m, fl, O, L)
  BY <1>1, <1>2 DEF SInv
<1>4. ListInv(n, fl, O \cup Q, L)
  BY <1>3, ListInvGrown
<1>5. O \cup Q = DOMAIN sm \cup (X \cup Q)
  BY <1>1
<1>6. \A p \in DOMAIN sm : Mapped(m, p)
  BY <1>1, <1>3 DEF ListInv
<1>7. DOMAIN sm \cap (X \cup Q) = {}
  BY <1>6 DEF SInv
<1>. QED BY <1>2, <1>4, <1>5, <1>7 DEF SInv

\* Pages less for others.
LEMMA SInvShrunk ==
  ASSUME NEW m, NEW sm, NEW fl, NEW X, SInv(m, sm, fl, X), NEW n, Sound(n),
         NEW Q \in SUBSET X, \A q \in Page \ Q : Walk(n, q, 0) = Walk(m, q, 0)
  PROVE  SInv(n, sm, fl, X \ Q)
<1>1. PICK O : O = DOMAIN sm \cup X
  OBVIOUS
<1>2. PICK L : L = LOf(sm)
  OBVIOUS
<1>3. ListInv(m, fl, O, L) /\ Q \in SUBSET O
  BY <1>1, <1>2 DEF SInv
<1>4. ListInv(n, fl, O \ Q, L)
  BY <1>3, ListInvShrunk
<1>5. O \ Q = DOMAIN sm \cup (X \ Q)
  BY <1>1 DEF SInv
<1>7. DOMAIN sm \cap (X \ Q) = {}
  BY DEF SInv
<1>. QED BY <1>2, <1>4, <1>5, <1>7 DEF SInv

\* What a call does to the pages: those mapped stay, or are unmapped.
Stable(m, n) ==
  \A q \in Page : Walk(m, q, 0) = -1 \/ Walk(n, q, 0) = -1 \/ Walk(n, q, 0) = Walk(m, q, 0)

\* Whatever only maps pages, or only unmaps them, is stable.
LEMMA StableFacts ==
  ASSUME NEW m, NEW n
  PROVE  /\ Grown(m, n) => Stable(m, n)
         /\ Shrunk(m, n) => Stable(m, n)
         /\ KeepsLeaves(m, n) => Stable(m, n)
         /\ \A o : Grown(m, n) /\ Shrunk(n, o) => Stable(m, o)
<1>. HIDE DEF Walk
<1>1. Grown(m, n) => Stable(m, n)
  BY DEF Grown, Stable
<1>2. Shrunk(m, n) => Stable(m, n)
  BY DEF Shrunk, Stable
<1>3. KeepsLeaves(m, n) => Stable(m, n)
  BY DEF KeepsLeaves, Stable
<1>4. \A o : Grown(m, n) /\ Shrunk(n, o) => Stable(m, o)
  BY DEF Grown, Shrunk, Stable
<1>. QED BY <1>1, <1>2, <1>3, <1>4

\* Whatever only unmaps pages maps none.
LEMMA CalmShrunk ==
  ASSUME NEW m, NEW n, Shrunk(m, n)
  PROVE  Calm(m, n)
BY DEF Shrunk, Calm

\* The number of a block comes back from its offset.
LEMMA SlotBack ==
  ASSUME NEW b \in Buckets, NEW i \in Nat
  PROVE  SlotOf(b, i * BucketSizes[b]) = i /\ i * BucketSizes[b] \in Nat
<1>1. PICK z \in Nat \ {0} : z = BucketSizes[b]
  BY BucketFacts
<1>2. i * z \in Nat /\ i * z = (i * z) + 0 /\ 0 \in 0..(z - 1)
  BY <1>1
<1>3. ((i * z) \div z) = i
  BY <1>1, <1>2, DivisionUnique
<1>. QED BY <1>1, <1>2, <1>3 DEF SlotOf

\* A page that is in the list already does not change it.
LEMMA PutSame ==
  ASSUME NEW sm, NEW b \in Buckets, NEW p \in LOf(sm)[b], NEW M, Put(LOf(sm), b, LOf(sm)[b] \cup {p}, M)
  PROVE  M = LOf(sm)
<1>1. LOf(sm)[b] \cup {p} = LOf(sm)[b]
  OBVIOUS
<1>2. PICK T : T = LOf(sm)[b]
  OBVIOUS
<1>3. M = [LOf(sm) EXCEPT ![b] = T]
  BY <1>1, <1>2 DEF Put
<1>. HIDE DEF Listable
<1>. QED BY <1>2, <1>3 DEF LOf

\* The pages of a bucket that have a free block.
LEMMA ListedPages ==
  ASSUME NEW sm, SmallOK(sm), NEW b \in Buckets
  PROVE  \A p : p \in LOf(sm)[b] <=> (p \in DOMAIN sm /\ sm[p].bucket = b /\ sm[p].used # Slots(b))
BY DEF LOf, Listable

\* The blocks of a page that callers hold, and a block.
UsedIn(sm, p) == IF p \in DOMAIN sm THEN sm[p].used ELSE {}
BlockIn(sm, p, i) == <<p, i * BucketSizes[sm[p].bucket], BucketSizes[sm[p].bucket]>>
\* Block i of page p was taken, in a page that may be new.
TakenIn(sm, sn, p, i) ==
  /\ DOMAIN sn = DOMAIN sm \cup {p} /\ sn[p].used = UsedIn(sm, p) \cup {i} /\ i \notin UsedIn(sm, p)
  /\ \A q \in DOMAIN sm : sn[q].bucket = sm[q].bucket
  /\ \A q \in DOMAIN sm \ {p} : sn[q].used = sm[q].used

\* A page for a bucket, in its list, or the kernel stops.
LEMMA RefillFacts ==
  ASSUME NEW s, NEW X, SState(s, X), NEW m, m = s.mem, m.kernel = "running", NEW sm, sm = s.small,
         NEW b \in Buckets, NEW r, r = Refill(s, b)
  PROVE  /\ IsState(r) /\ Sound(r.mem) /\ Grown(m, r.mem) /\ Calm(m, r.mem)
         /\ r.mem.kernel = "running" => /\ SState(r, X)
                                        /\ \E p : p \notin DOMAIN sm /\ Added(sm, p, b, r.small)
<1>1. PICK fl : fl = s.freeList
  OBVIOUS
<1>2. PICK L : L = LOf(sm)
  OBVIOUS
<1>3. PICK O : O = DOMAIN sm \cup X
  OBVIOUS
<1>4. IsState(s) /\ SmallOK(sm) /\ DOMAIN sm \cap X = {} /\ ListInv(m, fl, O, L)
  BY <1>1, <1>2, <1>3 DEF SState, SInv
<1>5. Sound(m) /\ \A p \in O : Mapped(m, p)
  BY <1>4 DEF ListInv
<1>6. PICK a : a = SmallPage(s)
  OBVIOUS
<1>7. PICK u, p : u = a.state /\ p = a.page
  OBVIOUS
<1>8. PICK n : n = u.mem
  OBVIOUS
<1>9. /\ IsState(u) /\ u.small = sm /\ u.freeList = fl /\ Sound(n)
      /\ p # None => n.kernel = "running" /\ Gains(m, n, p)
      /\ p = None => KeepsLeaves(m, n) /\ n.kernel # "running"
  BY <1>1, <1>4, <1>5, <1>6, <1>7, <1>8, SmallPageFacts
<1>10. CASE p = None
  <2>1. r = u
    BY <1>6, <1>7, <1>10 DEF Refill, Listed
  <2>2. Grown(m, n) /\ Calm(m, n)
    BY <1>9, <1>10, GrownKept
  <2>. QED BY <1>8, <1>9, <1>10, <2>1, <2>2
<1>11. CASE p # None
  <2>1. PICK sn : Added(sm, p, b, sn)
    BY DEF Added
  <2>2. PICK t : t = [u EXCEPT !.small = sn]
    OBVIOUS
  <2>3. r = Push(t, b, p)
    BY <1>6, <1>7, <1>9, <1>11, <2>1, <2>2 DEF Refill, Listed, Added
  <2>4. IsState(t) /\ t.mem = n /\ t.small = sn /\ t.freeList = fl
    BY <1>8, <1>9, <2>2 DEF IsState
  <2>5. Grown(m, n) /\ Calm(m, n) /\ Mapped(n, p) /\ ~Mapped(m, p) /\ p \in Page /\ n.kernel = "running"
    BY <1>9, <1>11, GrownGained DEF Gains, Gained
  <2>6. p \notin O
    BY <1>5, <2>5
  <2>7. p \notin DOMAIN sm /\ p \notin X
    BY <1>3, <2>6
  <2>8. PICK Q : Q = {p}
    OBVIOUS
  <2>9. \A q \in Q : Mapped(n, q) /\ ~Mapped(m, q)
    BY <2>5, <2>8
  <2>10. ListInv(n, fl, O \cup Q, L)
    BY <1>4, <1>9, <2>5, <2>9, ListInvGrown
  <2>11. /\ SmallOK(sn) /\ DOMAIN sn = DOMAIN sm \cup {p}
         /\ Put(LOf(sm), b, LOf(sm)[b] \cup {p}, LOf(sn))
    <3>1. SmallOK(sm) /\ Added(sm, p, b, sn) /\ p \notin DOMAIN sm
      BY <1>4, <2>1, <2>7
    <3>2. AddedOK(sm, p, b, sn)
      BY <3>1, AddedFacts
    <3>. QED BY <3>2 DEF AddedOK
  <2>12. p \in Page \ L[b]
    BY <1>2, <1>4, <2>5, <2>7, ListedPages
  <2>13. PICK M : M = LOf(sn)
    OBVIOUS
  <2>14. PICK T : T = L[b] \cup {p} /\ Put(L, b, T, M)
    BY <1>2, <2>11, <2>13
  <2>15. PICK P : P = O \cup Q
    OBVIOUS
  <2>16. /\ IsState(r) /\ r.small = sn /\ Sound(r.mem) /\ Grown(n, r.mem) /\ Calm(n, r.mem)
         /\ r.mem.kernel = "running" => ListInv(r.mem, r.freeList, P, M)
    <3>1. t.mem.kernel = "running" /\ n = t.mem /\ fl = t.freeList /\ ListInv(n, fl, P, L) /\ IsState(t)
      BY <2>4, <2>5, <2>10, <2>15
    <3>2. Pushed(n, P, M, t, r)
      BY <2>3, <2>12, <2>14, <3>1, PushFacts
    <3>. QED BY <2>4, <3>2 DEF Pushed
  <2>17. Grown(m, r.mem) /\ Calm(m, r.mem)
    BY <2>5, <2>16, GrownTwice, CalmTwice
  <2>18. P = DOMAIN sn \cup X
    BY <1>3, <2>8, <2>11, <2>15
  <2>19. DOMAIN sn \cap X = {}
    BY <1>4, <2>7, <2>11
  <2>20. r.mem.kernel = "running" => SState(r, X)
    BY <2>11, <2>13, <2>16, <2>18, <2>19 DEF SState, SInv
  <2>. QED BY <2>1, <2>7, <2>16, <2>17, <2>20
<1>. QED BY <1>10, <1>11

\* What a call of small_allocator leaves.
MallocOK(s, X, r) ==
  /\ Sound(r.state.mem) /\ Stable(s.mem, r.state.mem) /\ Calm(s.mem, r.state.mem)
  /\ r.state.mem.kernel = "running" =>
       /\ SState(r.state, X)
       /\ \E p, i : /\ TakenIn(s.small, r.state.small, p, i)
                    /\ r.block = BlockIn(r.state.small, p, i)
Taking(s, page, U, t) == t = [s EXCEPT !.small[page].used = U]

FirstTaken(b, page, i, U, t, r) ==
  /\ r.state = IF Cardinality(Slots(b) \ U) = 1 THEN Drop(t, b, page) ELSE t
  /\ r.block = <<page, i * BucketSizes[b], BucketSizes[b]>>

\* A block is taken, and the page leaves the list with its last one.
LEMMA TakeFirstParts ==
  ASSUME NEW s, NEW b, NEW page, NEW U, U = s.small[page].used, NEW i, i = First(Slots(b) \ U),
         NEW V, V = U \cup {i}, NEW t, Taking(s, page, V, t), NEW r, r = TakeFirst(s, b, page)
  PROVE  FirstTaken(b, page, i, U, t, r)
BY DEF TakeFirst, Taking, FirstTaken

\* The state of small_allocator when blocks of a page were taken or freed.
LEMMA TakingFacts ==
  ASSUME NEW s, NEW X, SState(s, X), NEW page \in DOMAIN s.small, NEW b, b = s.small[page].bucket,
         NEW U, U \subseteq Slots(b), NEW t, Taking(s, page, U, t)
  PROVE  /\ IsState(t) /\ t.mem = s.mem /\ t.freeList = s.freeList
         /\ UsedOK(s.small, page, b, U, t.small)
<1>1. PICK sm : sm = s.small
  OBVIOUS
<1>2. PICK sn : sn = [sm EXCEPT ![page].used = U] /\ UsedSet(sm, page, U, sn)
  BY DEF UsedSet
<1>3. IsState(s) /\ SmallOK(sm)
  BY <1>1 DEF SState, SInv
<1>4. t = [s EXCEPT !.small = sn]
  BY <1>1, <1>2 DEF Taking
<1>5. IsState(t) /\ t.mem = s.mem /\ t.freeList = s.freeList /\ t.small = sn
  BY <1>3, <1>4 DEF IsState
<1>6. page \in DOMAIN sm /\ b = sm[page].bucket
  BY <1>1
<1>7. UsedOK(sm, page, b, U, sn)
  BY <1>2, <1>3, <1>6, UsedSetFacts
<1>. QED BY <1>1, <1>5, <1>7

\* The first free block of a page of the list is taken.
LEMMA TakeFirstFacts ==
  ASSUME NEW s, NEW X, SState(s, X), s.mem.kernel = "running", NEW b \in Buckets,
         NEW page \in LOf(s.small)[b], NEW r, r = TakeFirst(s, b, page)
  PROVE  /\ Shrunk(s.mem, r.state.mem) /\ SState(r.state, X)
         /\ \E i : /\ TakenIn(s.small, r.state.small, page, i)
                   /\ r.block = BlockIn(r.state.small, page, i)
<1>1. PICK m, sm, fl : m = s.mem /\ sm = s.small /\ fl = s.freeList
  OBVIOUS
<1>2. PICK L : L = LOf(sm)
  OBVIOUS
<1>3. PICK O : O = DOMAIN sm \cup X
  OBVIOUS
<1>4. IsState(s) /\ SmallOK(sm) /\ DOMAIN sm \cap X = {} /\ ListInv(m, fl, O, L)
  BY <1>1, <1>2, <1>3 DEF SState, SInv
<1>5. page \in DOMAIN sm /\ sm[page].bucket = b /\ sm[page].used # Slots(b)
  BY <1>1, <1>4, ListedPages
<1>6. PICK U : U = sm[page].used
  OBVIOUS
<1>7. U \subseteq Slots(b) /\ U # Slots(b)
  BY <1>4, <1>5, <1>6 DEF SmallOK, IsSmall
<1>8. PICK open : open = Slots(b) \ U
  OBVIOUS
<1>9. open \in SUBSET Nat /\ open # {} /\ IsFiniteSet(open)
  <2>1. IsFiniteSet(Slots(b)) /\ Slots(b) \subseteq Nat /\ open \in SUBSET Slots(b)
    BY <1>8, BucketFacts
  <2>2. IsFiniteSet(open)
    BY <2>1, FS_Subset
  <2>. QED BY <1>7, <1>8, <2>1, <2>2
<1>10. PICK i : i = First(open)
  OBVIOUS
<1>11. i \in open
  BY <1>9, <1>10, FirstFacts
<1>12. PICK V : V = U \cup {i}
  OBVIOUS
<1>13. V \subseteq Slots(b) /\ i \notin U
  BY <1>7, <1>8, <1>11, <1>12
<1>14. V = Slots(b) <=> Cardinality(open) = 1
  <2>1. Cardinality(open) = 1 <=> \E x : open = {x}
    BY <1>9, FS_Singleton
  <2>2. V = Slots(b) <=> open = {i}
    BY <1>7, <1>8, <1>11, <1>12
  <2>. QED BY <1>11, <2>1, <2>2
<1>15. PICK t : Taking(s, page, V, t)
  BY DEF Taking
<1>16. PICK sn : sn = t.small
  OBVIOUS
<1>17. IsState(t) /\ t.mem = m /\ t.freeList = fl /\ UsedOK(sm, page, b, V, sn)
  <2>1. page \in DOMAIN s.small /\ b = s.small[page].bucket
    BY <1>1, <1>5
  <2>2. /\ IsState(t) /\ t.mem = s.mem /\ t.freeList = s.freeList
        /\ UsedOK(s.small, page, b, V, t.small)
    BY <1>13, <1>15, <2>1, TakingFacts
  <2>. QED BY <1>1, <1>16, <2>2
<1>18. TakenIn(sm, sn, page, i) /\ sn[page].bucket = b
  BY <1>5, <1>6, <1>12, <1>13, <1>17 DEF UsedOK, TakenIn, UsedIn
<1>19. r.state = (IF Cardinality(open) = 1 THEN Drop(t, b, page) ELSE t)
       /\ r.block = <<page, i * BucketSizes[b], BucketSizes[b]>>
  <2>1. U = s.small[page].used /\ i = First(Slots(b) \ U)
    BY <1>1, <1>6, <1>8, <1>10
  <2>2. FirstTaken(b, page, i, U, t, r)
    BY <1>12, <1>15, <2>1, TakeFirstParts
  <2>. QED BY <1>8, <2>2 DEF FirstTaken
<1>20. r.block = BlockIn(sn, page, i)
  BY <1>18, <1>19 DEF BlockIn
<1>21. SmallOK(sn) /\ DOMAIN sn = DOMAIN sm
  BY <1>17 DEF UsedOK
<1>22. page \in Page
  BY <1>3, <1>4, <1>5 DEF ListInv, Mapped
<1>23. CASE Cardinality(open) = 1
  <2>1. r.state = Drop(t, b, page)
    BY <1>19, <1>23
  <2>2. PICK M : M = LOf(sn)
    OBVIOUS
  <2>3. PICK T : T = L[b] \ {page} /\ Put(L, b, T, M)
    BY <1>2, <1>14, <1>17, <1>23, <2>2 DEF UsedOK
  <2>4. PICK v : v = r.state
    OBVIOUS
  <2>5. v = Drop(t, b, page) /\ m = t.mem /\ fl = t.freeList /\ IsState(t) /\ ListInv(m, fl, O, L)
    BY <1>4, <1>17, <2>1, <2>4
  <2>6. DroppedFrom(m, O, M, t, v)
    BY <1>22, <2>3, <2>5, DropFacts
  <2>7. IsState(v) /\ v.small = sn /\ Shrunk(m, v.mem) /\ ListInv(v.mem, v.freeList, O, M)
    BY <1>16, <2>6 DEF DroppedFrom
  <2>8. SState(v, X)
    BY <1>3, <1>4, <1>21, <2>2, <2>7 DEF SState, SInv
  <2>. QED BY <1>1, <1>18, <1>20, <2>4, <2>7, <2>8
<1>24. CASE Cardinality(open) # 1
  <2>1. r.state = t
    BY <1>19, <1>24
  <2>2. LOf(sn) = L
    <3>1. Put(LOf(sm), b, LOf(sm)[b] \cup {page}, LOf(sn))
      BY <1>14, <1>17, <1>24 DEF UsedOK
    <3>2. page \in LOf(sm)[b]
      BY <1>1
    <3>. QED BY <1>2, <3>1, <3>2, PutSame
  <2>3. Shrunk(m, m)
    BY DEF Shrunk
  <2>4. SState(t, X)
    BY <1>3, <1>4, <1>16, <1>17, <1>21, <2>2 DEF SState, SInv
  <2>. QED BY <1>1, <1>16, <1>17, <1>18, <1>20, <2>1, <2>3, <2>4
<1>. QED BY <1>23, <1>24

\* A small request has a bucket.
LEMMA BucketOfFacts ==
  ASSUME NEW size \in Nat, size <= BucketSizes[Len(BucketSizes)]
  PROVE  BucketOf(size) \in Buckets
<1>1. PICK S : S = {b \in Buckets : size <= BucketSizes[b]}
  OBVIOUS
<1>2. S \in SUBSET Nat /\ S # {}
  BY <1>1, BucketFacts
<1>3. First(S) \in S
  BY <1>2, FirstFacts
<1>. QED BY <1>1, <1>3 DEF BucketOf

\* A list is empty or has a first page.
LEMMA ListEmpty ==
  ASSUME NEW list, NEW S, ListOK(list, S)
  PROVE  /\ list = <<>> => S = {}
         /\ list # <<>> => DOMAIN list # {}
         /\ S # {} => DOMAIN list # {}
<1>1. list \in Seq(Node) /\ Holds(list, S)
  BY DEF ListOK
<1>2. list = <<>> => DOMAIN list = {}
  OBVIOUS
<1>3. DOMAIN list = {} => S = {}
  BY <1>1 DEF Holds
<1>4. ASSUME list # <<>> PROVE DOMAIN list # {}
  <2>1. Len(list) \in Nat /\ Len(list) # 0 /\ DOMAIN list = 1..Len(list)
    BY <1>1, <1>4, EmptySeq
  <2>. QED BY <2>1
<1>. QED BY <1>2, <1>3, <1>4

\* What TakeBlock leaves when it took a block of a page.
TookFrom(s, X, r, page) ==
  \E i : /\ Shrunk(s.mem, r.state.mem) /\ SState(r.state, X)
         /\ TakenIn(s.small, r.state.small, page, i)
         /\ r.block = BlockIn(r.state.small, page, i)

\* TakeBlock while the kernel runs and the list is not empty.
LEMMA TakeBlockFacts ==
  ASSUME NEW s, NEW X, SState(s, X), s.mem.kernel = "running", NEW b \in Buckets,
         NEW list, list = s.freeList[b], DOMAIN list # {}, NEW r, r = TakeBlock(s, b)
  PROVE  \E page \in LOf(s.small)[b] : TookFrom(s, X, r, page)
<1>1. PICK S : S = LOf(s.small)[b]
  OBVIOUS
<1>2. ListOK(list, S)
  BY <1>1 DEF SState, SInv, ListInv, Lists
<1>3. Peek(list) \in S
  BY <1>2, PeekFacts
<1>4. PICK page : page = Peek(list)
  OBVIOUS
<1>5. r = TakeFirst(s, b, page)
  BY <1>4 DEF TakeBlock
<1>6. page \in LOf(s.small)[b]
  BY <1>1, <1>3, <1>4
<1>. QED BY <1>5, <1>6, TakeFirstFacts DEF TookFrom

\* A block of a page that is new to the allocator.
LEMMA TakenNew ==
  ASSUME NEW sm, NEW b, NEW p, p \notin DOMAIN sm, NEW sn, AddedOK(sm, p, b, sn),
         NEW so, NEW i, TakenIn(sn, so, p, i)
  PROVE  TakenIn(sm, so, p, i)
BY DEF AddedOK, TakenIn, UsedIn

\* small_allocator::malloc.
LEMMA SmallMallocFacts ==
  ASSUME NEW s, NEW X, SState(s, X), s.mem.kernel = "running",
         NEW size \in Nat, size <= BucketSizes[Len(BucketSizes)], NEW r, r = SmallMalloc(s, size)
  PROVE  MallocOK(s, X, r)
<1>1. PICK b : b = BucketOf(size)
  OBVIOUS
<1>2. b \in Buckets
  BY <1>1, BucketOfFacts
<1>3. PICK sm : sm = s.small
  OBVIOUS
<1>4. PICK list : list = s.freeList[b]
  OBVIOUS
<1>5. PICK L : L = LOf(sm)
  OBVIOUS
<1>6. ListOK(list, L[b]) /\ SmallOK(sm)
  BY <1>2, <1>3, <1>4, <1>5 DEF SState, SInv, ListInv, Lists
<1>7. CASE list = <<>>
  <2>1. PICK u : u = Refill(s, b)
    OBVIOUS
  <2>2. r = TakeBlock(u, b)
    BY <1>1, <1>4, <1>7, <2>1 DEF SmallMalloc
  <2>3. PICK m : m = s.mem /\ m.kernel = "running"
    OBVIOUS
  <2>4. /\ IsState(u) /\ Sound(u.mem) /\ Grown(m, u.mem) /\ Calm(m, u.mem)
        /\ u.mem.kernel = "running" => /\ SState(u, X)
                                       /\ \E p : p \notin DOMAIN sm /\ Added(sm, p, b, u.small)
    BY <1>2, <1>3, <2>1, <2>3, RefillFacts
  <2>5. CASE u.mem.kernel # "running"
    <3>1. r.state = u
      BY <2>2, <2>5 DEF TakeBlock
    <3>2. Stable(m, u.mem)
      BY <2>4, StableFacts
    <3>. QED BY <2>3, <2>4, <2>5, <3>1, <3>2 DEF MallocOK
  <2>6. CASE u.mem.kernel = "running"
    <3>1. SState(u, X)
      BY <2>4, <2>6
    <3>2. PICK p : p \notin DOMAIN sm /\ Added(sm, p, b, u.small)
      BY <2>4, <2>6
    <3>3. PICK sn : sn = u.small
      OBVIOUS
    <3>4. p \notin DOMAIN sm /\ Added(sm, p, b, sn)
      BY <3>2, <3>3
    <3>5. AddedOK(sm, p, b, sn)
      BY <1>2, <1>6, <3>4, AddedFacts
    <3>6. L[b] = {}
      BY <1>6, <1>7, ListEmpty
    <3>7. LOf(sn)[b] = {p}
      <4>1. LOf(sn) = [L EXCEPT ![b] = L[b] \cup {p}]
        BY <1>5, <3>5 DEF AddedOK, Put
      <4>2. DOMAIN L = Buckets
        BY <1>5 DEF LOf
      <4>. QED BY <1>2, <3>6, <4>1, <4>2
    <3>8. PICK l : l = u.freeList[b]
      OBVIOUS
    <3>9. ListOK(l, {p})
      BY <1>2, <3>1, <3>3, <3>7, <3>8 DEF SState, SInv, ListInv, Lists
    <3>10. DOMAIN l # {}
      BY <3>9, ListEmpty
    <3>11. \E page \in LOf(u.small)[b] : TookFrom(u, X, r, page)
      BY <1>2, <2>2, <2>6, <3>1, <3>8, <3>10, TakeBlockFacts
    <3>12. PICK i : /\ Shrunk(u.mem, r.state.mem) /\ SState(r.state, X)
                    /\ TakenIn(sn, r.state.small, p, i)
                    /\ r.block = BlockIn(r.state.small, p, i)
      BY <3>3, <3>7, <3>11 DEF TookFrom
    <3>13. PICK so : so = r.state.small
      OBVIOUS
    <3>14. TakenIn(sm, so, p, i)
      BY <3>4, <3>5, <3>12, <3>13, TakenNew
    <3>15. Stable(m, r.state.mem) /\ Calm(m, r.state.mem)
      BY <2>4, <3>12, StableFacts, CalmShrunk, CalmTwice
    <3>16. Sound(r.state.mem)
      BY <3>12 DEF SState, SInv, ListInv
    <3>. QED BY <1>3, <2>3, <3>12, <3>13, <3>14, <3>15, <3>16 DEF MallocOK
  <2>. QED BY <2>5, <2>6
<1>8. CASE list # <<>>
  <2>1. r = TakeBlock(s, b)
    BY <1>1, <1>4, <1>8 DEF SmallMalloc
  <2>2. DOMAIN list # {}
    BY <1>6, <1>8, ListEmpty
  <2>3. \E page \in LOf(s.small)[b] : TookFrom(s, X, r, page)
    BY <1>2, <1>4, <2>1, <2>2, TakeBlockFacts
  <2>4. PICK page, i : /\ Shrunk(s.mem, r.state.mem) /\ SState(r.state, X)
                       /\ TakenIn(s.small, r.state.small, page, i)
                       /\ r.block = BlockIn(r.state.small, page, i)
    BY <2>3 DEF TookFrom
  <2>5. Stable(s.mem, r.state.mem) /\ Calm(s.mem, r.state.mem)
    BY <2>4, StableFacts, CalmShrunk
  <2>6. Sound(r.state.mem)
    BY <2>4 DEF SState, SInv, ListInv
  <2>. QED BY <2>4, <2>5, <2>6 DEF MallocOK
<1>. QED BY <1>7, <1>8

\* What kfree of a small block leaves.
FreeOK(s, X, page, V, r) ==
  /\ Sound(r.mem) /\ Stable(s.mem, r.mem) /\ Calm(s.mem, r.mem)
  /\ r.mem.kernel = "running" => /\ SState(r, X)
                                 /\ UsedOK(s.small, page, s.small[page].bucket, V, r.small)

\* small_allocator::free.
LEMMA SmallFreeFacts ==
  ASSUME NEW s, NEW X, SState(s, X), s.mem.kernel = "running", NEW page \in DOMAIN s.small,
         NEW U, U = s.small[page].used, NEW i \in U, NEW b, b = s.small[page].bucket,
         NEW V, V = U \ {i}, NEW r, r = SmallFree(s, page, i * BucketSizes[b])
  PROVE  FreeOK(s, X, page, V, r)
<1>1. PICK m, sm, fl : m = s.mem /\ sm = s.small /\ fl = s.freeList
  OBVIOUS
<1>2. PICK L : L = LOf(sm)
  OBVIOUS
<1>3. PICK O : O = DOMAIN sm \cup X
  OBVIOUS
<1>4. IsState(s) /\ SmallOK(sm) /\ DOMAIN sm \cap X = {} /\ ListInv(m, fl, O, L)
  BY <1>1, <1>2, <1>3 DEF SState, SInv
<1>5. page \in DOMAIN sm /\ U = sm[page].used /\ b = sm[page].bucket
  BY <1>1
<1>6. U \subseteq Slots(b) /\ b \in Buckets
  BY <1>4, <1>5 DEF SmallOK, IsSmall
<1>7. i \in Nat /\ V \subseteq Slots(b) /\ V # Slots(b)
  BY <1>6, BucketFacts
<1>8. SlotOf(b, i * BucketSizes[b]) = i
  BY <1>6, <1>7, SlotBack
<1>9. PICK t : Taking(s, page, V, t)
  BY DEF Taking
<1>10. r = IF U = Slots(b) THEN Push(t, b, page) ELSE t
  <2>1. t = [s EXCEPT !.small[page].used = @ \ {SlotOf(b, i * BucketSizes[b])}]
    BY <1>8, <1>9 DEF Taking
  <2>2. U # {}
    OBVIOUS
  <2>. QED BY <2>1, <2>2 DEF SmallFree, WasFull
<1>11. PICK sn : sn = t.small
  OBVIOUS
<1>12. IsState(t) /\ t.mem = m /\ t.freeList = fl /\ UsedOK(sm, page, b, V, sn)
  <2>2. /\ IsState(t) /\ t.mem = s.mem /\ t.freeList = s.freeList
        /\ UsedOK(s.small, page, b, V, t.small)
    BY <1>7, <1>9, TakingFacts
  <2>. QED BY <1>1, <1>11, <2>2
<1>13. SmallOK(sn) /\ DOMAIN sn = DOMAIN sm /\ Put(LOf(sm), b, LOf(sm)[b] \cup {page}, LOf(sn))
  BY <1>7, <1>12 DEF UsedOK
<1>14. page \in Page /\ Sound(m)
  BY <1>3, <1>4, <1>5, SMTT(30) DEF ListInv, Mapped
<1>15. CASE U = Slots(b)
  <2>1. r = Push(t, b, page)
    BY <1>10, <1>15
  <2>2. page \in Page \ L[b]
    <3>1. page \notin LOf(sm)[b]
      <4>1. sm[page].used = Slots(b)
        BY <1>5, <1>15
      <4>2. \A p : p \in LOf(sm)[b] => sm[p].used # Slots(b)
        BY <1>4, <1>6, ListedPages
      <4>. QED BY <4>1, <4>2
    <3>. QED BY <1>2, <1>14, <3>1
  <2>3. PICK M : M = LOf(sn)
    OBVIOUS
  <2>4. PICK T : T = L[b] \cup {page} /\ Put(L, b, T, M)
    BY <1>2, <1>13, <2>3
  <2>5. t.mem.kernel = "running" /\ m = t.mem /\ fl = t.freeList /\ IsState(t) /\ ListInv(m, fl, O, L)
    BY <1>1, <1>4, <1>12
  <2>6. Pushed(m, O, M, t, r)
    BY <1>6, <2>1, <2>2, <2>4, <2>5, PushFacts
  <2>7. /\ IsState(r) /\ r.small = sn /\ Sound(r.mem) /\ Grown(m, r.mem) /\ Calm(m, r.mem)
        /\ r.mem.kernel = "running" => ListInv(r.mem, r.freeList, O, M)
    BY <1>11, <2>6 DEF Pushed
  <2>8. r.mem.kernel = "running" => SState(r, X)
    BY <1>3, <1>4, <1>13, <2>3, <2>7 DEF SState, SInv
  <2>9. Stable(m, r.mem)
    BY <2>7, StableFacts
  <2>. QED BY <1>1, <1>12, <2>7, <2>8, <2>9 DEF FreeOK
<1>16. CASE U # Slots(b)
  <2>1. r = t
    BY <1>10, <1>16
  <2>2. page \in LOf(sm)[b]
    BY <1>4, <1>5, <1>6, <1>16, ListedPages
  <2>3. LOf(sn) = L
    BY <1>2, <1>6, <1>13, <2>2, PutSame
  <2>4. SState(t, X)
    BY <1>3, <1>4, <1>11, <1>12, <1>13, <2>3 DEF SState, SInv
  <2>5. Stable(m, m) /\ Calm(m, m)
    BY DEF Stable, Calm
  <2>. QED BY <1>1, <1>11, <1>12, <1>14, <2>1, <2>4, <2>5 DEF FreeOK
<1>. QED BY <1>15, <1>16

-----------------------------------------------------------------------------
(* Blocks *)

IsArea(ar, k) ==
  /\ k \in Nat /\ k >= LargeStart /\ PageCount(ar[k]) \in Nat \ {0}
  /\ ar[k] = PageCount(ar[k]) * PageSize /\ k + PageCount(ar[k]) <= LargeEnd
RunAt(ar, k) == RunOf(k, PageCount(ar[k]))
InRuns(ar) == UNION {RunAt(ar, k) : k \in DOMAIN ar}
Tree(tn) == IF tn = None THEN {} ELSE {tn}
Rest(ar, tn, sg) == sg \cup InRuns(ar) \cup Tree(tn)

\* The areas of the tree, its node, and the single pages sg lie apart.
RunsApart(ar) == \A k, j \in DOMAIN ar : k # j => (RunAt(ar, k) \cap RunAt(ar, j) = {})
LargeOK(ar, tn, sg) ==
  /\ ar = [k \in DOMAIN ar |-> ar[k]] /\ \A k \in DOMAIN ar : IsArea(ar, k)
  /\ RunsApart(ar) /\ (InRuns(ar) \cap sg = {}) /\ (InRuns(ar) \cap Tree(tn) = {}) /\ (sg \cap Tree(tn) = {})
  /\ (tn = None) <=> (DOMAIN ar = {})

\* What callers hold: blocks of the small pages, areas and single pages.
IsSmallBlock(x, sm) == \E p \in DOMAIN sm : \E i \in sm[p].used : x = BlockIn(sm, p, i)
IsLargeBlock(x, ar) == \E k \in DOMAIN ar : x = <<k, 0, ar[k]>>
IsPageBlock(x, sg) == \E p \in sg : x = <<p, 0, PageSize>>
BlocksAre(bl, sm, ar, sg) ==
  \A x : x \in bl <=> (IsSmallBlock(x, sm) \/ IsLargeBlock(x, ar) \/ IsPageBlock(x, sg))

\* Outside the searched windows only areas are mapped.
Owned(m, ar) == \A q : Mapped(m, q) /\ ~Windowed(q) => q \in InRuns(ar)

HeapOK(m, sm, fl, ar, tn, bl, sg) ==
  SInv(m, sm, fl, Rest(ar, tn, sg)) /\ LargeOK(ar, tn, sg) /\ BlocksAre(bl, sm, ar, sg) /\ Owned(m, ar)
HInv == Running => \E sg : HeapOK(mem, small, freeList, areas, treeNode, blocks, sg)
IInv == Sound(mem) /\ HInv

\* A step keeps the invariant, and a page that stays mapped its frame.
Good == IInv' /\ Stable(mem, mem')

\* It stays so when no other page is mapped.
LEMMA OwnedCalm ==
  ASSUME NEW m, NEW n, NEW ar, Owned(m, ar), Calm(m, n)
  PROVE  Owned(n, ar)
BY DEF Owned, Calm, Mapped

\* An area starts with its first page.
LEMMA AreaFirst ==
  ASSUME NEW ar, NEW k \in DOMAIN ar, IsArea(ar, k)
  PROVE  k \in RunAt(ar, k) /\ k \in InRuns(ar)
<1>1. PICK c \in Nat \ {0} : c = PageCount(ar[k])
  BY DEF IsArea
<1>2. k \in Nat
  BY DEF IsArea
<1>3. k \in RunAt(ar, k)
  BY <1>1, <1>2 DEF RunAt, RunOf
<1>. QED BY <1>3 DEF InRuns

\* A block taken is one more.
LEMMA BlocksTaken ==
  ASSUME NEW sm, NEW sn, NEW p, NEW i, TakenIn(sm, sn, p, i)
  PROVE  \A x : IsSmallBlock(x, sn) <=> (IsSmallBlock(x, sm) \/ x = BlockIn(sn, p, i))
<1>1. \A q \in DOMAIN sm : \A j : BlockIn(sn, q, j) = BlockIn(sm, q, j)
  BY DEF TakenIn, BlockIn
<1>2. /\ DOMAIN sn = DOMAIN sm \cup {p} /\ i \in sn[p].used
      /\ \A j : j \in sn[p].used <=> (j = i \/ (p \in DOMAIN sm /\ j \in sm[p].used))
      /\ \A q \in DOMAIN sm \ {p} : sn[q].used = sm[q].used
  BY DEF TakenIn, UsedIn
<1>. HIDE DEF BlockIn
<1>3. ASSUME NEW x, IsSmallBlock(x, sn) PROVE IsSmallBlock(x, sm) \/ x = BlockIn(sn, p, i)
  <2>1. PICK q \in DOMAIN sn : \E j \in sn[q].used : x = BlockIn(sn, q, j)
    BY <1>3 DEF IsSmallBlock
  <2>2. PICK j \in sn[q].used : x = BlockIn(sn, q, j)
    BY <2>1
  <2>3. CASE q = p /\ j = i
    BY <2>2, <2>3
  <2>4. CASE ~(q = p /\ j = i)
    <3>1. q \in DOMAIN sm /\ j \in sm[q].used
      BY <1>2, <2>2, <2>4
    <3>. QED BY <1>1, <2>2, <3>1 DEF IsSmallBlock
  <2>. QED BY <2>3, <2>4
<1>4. ASSUME NEW x, IsSmallBlock(x, sm) PROVE IsSmallBlock(x, sn)
  <2>1. PICK q \in DOMAIN sm : \E j \in sm[q].used : x = BlockIn(sm, q, j)
    BY <1>4 DEF IsSmallBlock
  <2>2. PICK j \in sm[q].used : x = BlockIn(sm, q, j)
    BY <2>1
  <2>3. q \in DOMAIN sn /\ j \in sn[q].used
    BY <1>2, <2>2
  <2>. QED BY <1>1, <2>2, <2>3 DEF IsSmallBlock
<1>5. IsSmallBlock(BlockIn(sn, p, i), sn)
  BY <1>2 DEF IsSmallBlock
<1>. QED BY <1>3, <1>4, <1>5

\* Blocks of a page differ.
LEMMA BlockApart ==
  ASSUME NEW sm, SmallOK(sm), NEW p \in DOMAIN sm, NEW i \in sm[p].used,
         NEW q \in DOMAIN sm, NEW j \in sm[q].used, BlockIn(sm, p, i) = BlockIn(sm, q, j)
  PROVE  p = q /\ i = j
<1>1. p = q /\ i * BucketSizes[sm[p].bucket] = j * BucketSizes[sm[q].bucket]
  BY DEF BlockIn
<1>2. PICK b : b = sm[p].bucket
  OBVIOUS
<1>3. b \in Buckets /\ i \in Slots(b) /\ j \in Slots(b) /\ i * BucketSizes[b] = j * BucketSizes[b]
  BY <1>1, <1>2 DEF SmallOK, IsSmall
<1>4. i \in Nat /\ j \in Nat
  BY <1>3, BucketFacts
<1>5. SlotOf(b, i * BucketSizes[b]) = i /\ SlotOf(b, j * BucketSizes[b]) = j
  BY <1>3, <1>4, SlotBack
<1>. QED BY <1>1, <1>3, <1>5

\* A block freed is one less.
LEMMA BlocksFreed ==
  ASSUME NEW sm, SmallOK(sm), NEW p \in DOMAIN sm, NEW b, b = sm[p].bucket, NEW i \in sm[p].used,
         NEW V, V = sm[p].used \ {i}, NEW sn, UsedOK(sm, p, b, V, sn)
  PROVE  \A x : IsSmallBlock(x, sn) <=> (IsSmallBlock(x, sm) /\ x # BlockIn(sm, p, i))
<1>1. /\ DOMAIN sn = DOMAIN sm /\ sn[p].bucket = sm[p].bucket /\ sn[p].used = V
      /\ \A q \in DOMAIN sm : q # p => sn[q] = sm[q]
  BY DEF UsedOK
<1>2. \A q \in DOMAIN sm : \A j : BlockIn(sn, q, j) = BlockIn(sm, q, j)
  BY <1>1 DEF BlockIn
<1>3. \A q \in DOMAIN sm : \A j : j \in sn[q].used <=> (j \in sm[q].used /\ ~(q = p /\ j = i))
  BY <1>1
<1>4. \A q \in DOMAIN sm : \A j \in sm[q].used : BlockIn(sm, p, i) = BlockIn(sm, q, j) => p = q /\ i = j
  BY BlockApart
<1>. HIDE DEF BlockIn
<1>5. ASSUME NEW x, IsSmallBlock(x, sn) PROVE IsSmallBlock(x, sm) /\ x # BlockIn(sm, p, i)
  <2>1. PICK q \in DOMAIN sn : \E j \in sn[q].used : x = BlockIn(sn, q, j)
    BY <1>5 DEF IsSmallBlock
  <2>2. PICK j \in sn[q].used : x = BlockIn(sn, q, j)
    BY <2>1
  <2>3. q \in DOMAIN sm /\ j \in sm[q].used /\ ~(q = p /\ j = i)
    BY <1>1, <1>3, <2>2
  <2>4. x = BlockIn(sm, q, j)
    BY <1>2, <2>2, <2>3
  <2>5. IsSmallBlock(x, sm)
    BY <2>3, <2>4 DEF IsSmallBlock
  <2>. QED BY <1>4, <2>3, <2>4, <2>5
<1>6. ASSUME NEW x, IsSmallBlock(x, sm), x # BlockIn(sm, p, i) PROVE IsSmallBlock(x, sn)
  <2>1. PICK q \in DOMAIN sm : \E j \in sm[q].used : x = BlockIn(sm, q, j)
    BY <1>6 DEF IsSmallBlock
  <2>2. PICK j \in sm[q].used : x = BlockIn(sm, q, j)
    BY <2>1
  <2>3. q \in DOMAIN sn /\ j \in sn[q].used
    BY <1>1, <1>3, <1>6, <2>2
  <2>. QED BY <1>2, <2>2, <2>3 DEF IsSmallBlock
<1>. QED BY <1>5, <1>6

SmallState == [mem |-> mem, small |-> small, freeList |-> freeList]

\* The state of small_allocator, in a state of the invariant.
LEMMA SmallStateFacts ==
  ASSUME NEW sg, HeapOK(mem, small, freeList, areas, treeNode, blocks, sg),
         NEW X, X = Rest(areas, treeNode, sg), NEW s, s = SmallState
  PROVE  SState(s, X) /\ s.mem = mem /\ s.small = small /\ s.freeList = freeList
<1>1. s.mem = mem /\ s.small = small /\ s.freeList = freeList
  BY DEF SmallState
<1>2. IsState(s)
  BY DEF SmallState, IsState
<1>. QED BY <1>1, <1>2 DEF SState, HeapOK

\* A block is of a small page, an area or a single page as its page is.
LEMMA BlockKinds ==
  ASSUME NEW m, NEW sm, NEW fl, NEW ar, NEW tn, NEW bl, NEW sg, HeapOK(m, sm, fl, ar, tn, bl, sg),
         NEW x \in bl
  PROVE  /\ x[1] \in DOMAIN sm => /\ x[1] \notin Rest(ar, tn, sg)
                                  /\ \E i \in sm[x[1]].used : x = BlockIn(sm, x[1], i)
         /\ x[1] \notin DOMAIN sm => x[1] \in Rest(ar, tn, sg)
         /\ x[1] \in DOMAIN ar => x = <<x[1], 0, ar[x[1]]>> /\ x[1] \notin DOMAIN sm
         /\ x[1] \notin DOMAIN sm \cup DOMAIN ar => x[1] \in sg /\ x = <<x[1], 0, PageSize>>
<1>1. PICK X : X = Rest(ar, tn, sg)
  OBVIOUS
<1>2. DOMAIN sm \cap X = {}
  BY <1>1 DEF HeapOK, SInv
<1>3. \A k \in DOMAIN ar : k \in InRuns(ar)
  BY AreaFirst DEF HeapOK, LargeOK
<1>4. InRuns(ar) \subseteq X /\ sg \subseteq X /\ InRuns(ar) \cap sg = {}
  BY <1>1 DEF Rest, HeapOK, LargeOK
<1>5. IsSmallBlock(x, sm) \/ IsLargeBlock(x, ar) \/ IsPageBlock(x, sg)
  BY DEF HeapOK, BlocksAre
<1>6. CASE IsSmallBlock(x, sm)
  <2>1. PICK p \in DOMAIN sm : \E i \in sm[p].used : x = BlockIn(sm, p, i)
    BY <1>6 DEF IsSmallBlock
  <2>2. x[1] = p
    BY <2>1 DEF BlockIn
  <2>3. p \notin X /\ p \notin DOMAIN ar
    BY <1>2, <1>3, <1>4
  <2>. QED BY <1>1, <2>1, <2>2, <2>3
<1>7. CASE IsLargeBlock(x, ar)
  <2>1. PICK k \in DOMAIN ar : x = <<k, 0, ar[k]>>
    BY <1>7 DEF IsLargeBlock
  <2>2. x[1] = k
    BY <2>1
  <2>3. k \in X /\ k \notin DOMAIN sm
    BY <1>2, <1>3, <1>4
  <2>. QED BY <1>1, <2>1, <2>2, <2>3
<1>8. CASE IsPageBlock(x, sg)
  <2>1. PICK p \in sg : x = <<p, 0, PageSize>>
    BY <1>8 DEF IsPageBlock
  <2>2. x[1] = p
    BY <2>1
  <2>3. p \in X /\ p \notin DOMAIN sm /\ p \notin DOMAIN ar
    BY <1>2, <1>3, <1>4
  <2>. QED BY <1>1, <2>1, <2>2, <2>3
<1>. QED BY <1>5, <1>6, <1>7, <1>8

\* kmalloc of a small block.
LEMMA MallocSmallGood ==
  ASSUME IInv, NEW size \in Requests, MallocSmall(size)
  PROVE  Good
<1>1. mem.kernel = "running" /\ size <= BucketSizes[Len(BucketSizes)] /\ areas' = areas /\ treeNode' = treeNode
  BY DEF MallocSmall, Running
<1>2. PICK sg : HeapOK(mem, small, freeList, areas, treeNode, blocks, sg)
  BY <1>1 DEF IInv, HInv, Running
<1>3. PICK X : X = Rest(areas, treeNode, sg)
  OBVIOUS
<1>4. PICK s : s = SmallState
  OBVIOUS
<1>5. SState(s, X) /\ s.mem = mem /\ s.small = small /\ s.freeList = freeList
  BY <1>2, <1>3, <1>4, SmallStateFacts
<1>6. PICK r : /\ r = SmallMalloc(s, size)
               /\ mem' = r.state.mem /\ small' = r.state.small /\ freeList' = r.state.freeList
               /\ blocks' = IF r.block = <<>> THEN blocks ELSE blocks \cup {r.block}
  BY <1>4 DEF MallocSmall, SmallState
<1>7. size \in Nat
  BY HeapAssumption
<1>8. MallocOK(s, X, r)
  BY <1>1, <1>5, <1>6, <1>7, SmallMallocFacts
<1>9. Sound(mem') /\ Stable(mem, mem') /\ Calm(mem, mem')
  BY <1>5, <1>6, <1>8 DEF MallocOK
<1>10. ASSUME mem'.kernel = "running"
       PROVE  HeapOK(mem', small', freeList', areas', treeNode', blocks', sg)
  <2>1. PICK p, i : /\ SState(r.state, X) /\ TakenIn(small, small', p, i)
                    /\ r.block = BlockIn(small', p, i)
    BY <1>5, <1>6, <1>8, <1>10 DEF MallocOK
  <2>2. SInv(mem', small', freeList', X)
    BY <1>6, <2>1 DEF SState
  <2>3. blocks' = blocks \cup {BlockIn(small', p, i)}
    <3>1. r.block # <<>>
      BY <2>1 DEF BlockIn
    <3>. QED BY <1>6, <2>1, <3>1
  <2>4. \A x : IsSmallBlock(x, small') <=> (IsSmallBlock(x, small) \/ x = BlockIn(small', p, i))
    BY <2>1, BlocksTaken
  <2>5. BlocksAre(blocks', small', areas, sg)
    <3>. HIDE DEF IsSmallBlock, IsLargeBlock, IsPageBlock, BlockIn
    <3>. QED BY <1>2, <2>3, <2>4 DEF BlocksAre, HeapOK
  <2>6. Owned(mem', areas)
    BY <1>2, <1>9, OwnedCalm DEF HeapOK
  <2>. QED BY <1>1, <1>2, <1>3, <2>2, <2>5, <2>6 DEF HeapOK
<1>. QED BY <1>9, <1>10 DEF Good, IInv, HInv, Running

\* kfree of a small block.
LEMMA FreeSmallGood ==
  ASSUME IInv, NEW block \in blocks, FreeSmall(block)
  PROVE  Good
<1>1. /\ mem.kernel = "running" /\ block[1] \in DOMAIN small /\ areas' = areas /\ treeNode' = treeNode
      /\ blocks' = blocks \ {block}
  BY DEF FreeSmall, Running
<1>2. PICK sg : HeapOK(mem, small, freeList, areas, treeNode, blocks, sg)
  BY <1>1 DEF IInv, HInv, Running
<1>3. PICK X : X = Rest(areas, treeNode, sg)
  OBVIOUS
<1>4. PICK s : s = SmallState
  OBVIOUS
<1>5. SState(s, X) /\ s.mem = mem /\ s.small = small /\ s.freeList = freeList
  BY <1>2, <1>3, <1>4, SmallStateFacts
<1>6. PICK p : p = block[1]
  OBVIOUS
<1>7. p \in DOMAIN small /\ p \notin X /\ \E i \in small[p].used : block = BlockIn(small, p, i)
  BY <1>1, <1>2, <1>3, <1>6, BlockKinds
<1>8. PICK i \in small[p].used : block = BlockIn(small, p, i)
  BY <1>7
<1>9. PICK b : b = small[p].bucket
  OBVIOUS
<1>10. block[2] = i * BucketSizes[b]
  BY <1>8, <1>9 DEF BlockIn
<1>11. PICK r : /\ r = SmallFree(s, p, i * BucketSizes[b])
                /\ mem' = r.mem /\ small' = r.small /\ freeList' = r.freeList
  BY <1>4, <1>6, <1>10 DEF FreeSmall, SmallState
<1>12. PICK U, V : U = small[p].used /\ V = U \ {i}
  OBVIOUS
<1>13. FreeOK(s, X, p, V, r)
  <2>1. /\ SState(s, X) /\ s.mem.kernel = "running" /\ p \in DOMAIN s.small /\ U = s.small[p].used
        /\ i \in U /\ b = s.small[p].bucket /\ V = U \ {i} /\ r = SmallFree(s, p, i * BucketSizes[b])
    BY <1>1, <1>5, <1>7, <1>8, <1>9, <1>11, <1>12
  <2>. QED BY <2>1, SmallFreeFacts
<1>14. Sound(mem') /\ Stable(mem, mem') /\ Calm(mem, mem')
  BY <1>5, <1>11, <1>13 DEF FreeOK
<1>15. ASSUME mem'.kernel = "running"
       PROVE  HeapOK(mem', small', freeList', areas', treeNode', blocks', sg)
  <2>1. SState(r, X) /\ UsedOK(small, p, b, V, small')
    BY <1>5, <1>9, <1>11, <1>13, <1>15 DEF FreeOK
  <2>2. SInv(mem', small', freeList', X)
    BY <1>11, <2>1 DEF SState
  <2>3. \A x : IsSmallBlock(x, small') <=> (IsSmallBlock(x, small) /\ x # BlockIn(small, p, i))
    <3>1. SmallOK(small) /\ V = small[p].used \ {i}
      BY <1>2, <1>12 DEF HeapOK, SInv
    <3>. QED BY <1>7, <1>8, <1>9, <2>1, <3>1, BlocksFreed
  <2>4. ~IsLargeBlock(block, areas) /\ ~IsPageBlock(block, sg)
    <3>1. ASSUME IsLargeBlock(block, areas) PROVE FALSE
      <4>1. PICK k \in DOMAIN areas : block = <<k, 0, areas[k]>>
        BY <3>1 DEF IsLargeBlock
      <4>2. k \in X
        BY <1>2, <1>3, AreaFirst DEF HeapOK, LargeOK, Rest
      <4>. QED BY <1>6, <1>7, <4>1, <4>2
    <3>2. ASSUME IsPageBlock(block, sg) PROVE FALSE
      BY <1>3, <1>6, <1>7, <3>2 DEF IsPageBlock, Rest
    <3>. QED BY <3>1, <3>2
  <2>5. BlocksAre(blocks', small', areas, sg)
    <3>1. \A x : x \in blocks <=> (IsSmallBlock(x, small) \/ IsLargeBlock(x, areas) \/ IsPageBlock(x, sg))
      BY <1>2 DEF BlocksAre, HeapOK
    <3>. HIDE DEF IsSmallBlock, IsLargeBlock, IsPageBlock, BlockIn
    <3>2. \A x : IsSmallBlock(x, small') <=> (IsSmallBlock(x, small) /\ x # block)
      BY <1>8, <2>3
    <3>3. \A x : x \in blocks' <=> (IsSmallBlock(x, small') \/ IsLargeBlock(x, areas) \/ IsPageBlock(x, sg))
      BY <1>1, <2>4, <3>1, <3>2
    <3>. QED BY <3>3 DEF BlocksAre
  <2>6. Owned(mem', areas)
    BY <1>2, <1>14, OwnedCalm DEF HeapOK
  <2>. QED BY <1>1, <1>2, <1>3, <2>2, <2>5, <2>6 DEF HeapOK
<1>. QED BY <1>14, <1>15 DEF Good, IInv, HInv, Running

\* Pages of other owners are mapped; so is none that a step maps.
LEMMA RestMapped ==
  ASSUME NEW m, NEW sm, NEW fl, NEW X, SInv(m, sm, fl, X)
  PROVE  Sound(m) /\ \A p \in X : Mapped(m, p)
BY DEF SInv, ListInv

\* kmalloc of a page.
LEMMA MallocPageGood ==
  ASSUME IInv, NEW size \in Requests, MallocPage(size)
  PROVE  Good
<1>1. /\ mem.kernel = "running" /\ small' = small /\ freeList' = freeList
      /\ areas' = areas /\ treeNode' = treeNode
  BY DEF MallocPage, Running
<1>2. PICK sg : HeapOK(mem, small, freeList, areas, treeNode, blocks, sg)
  BY <1>1 DEF IInv, HInv, Running
<1>3. PICK X : X = Rest(areas, treeNode, sg)
  OBVIOUS
<1>4. PICK r : /\ r = AllocPage(mem, PageWindow) /\ (r.page # None \/ r.mem.kernel # "running")
               /\ mem' = r.mem
               /\ blocks' = IF r.page = None THEN blocks ELSE blocks \cup {<<r.page, 0, PageSize>>}
  BY DEF MallocPage
<1>5. SInv(mem, small, freeList, X) /\ LargeOK(areas, treeNode, sg) /\ BlocksAre(blocks, small, areas, sg)
  BY <1>2, <1>3 DEF HeapOK
<1>6. Sound(mem) /\ \A p \in X : Mapped(mem, p)
  BY <1>5, RestMapped
<1>7. /\ Sound(r.mem)
      /\ r.page # None => r.mem.kernel = "running" /\ Gains(mem, r.mem, r.page)
      /\ r.page = None => KeepsLeaves(mem, r.mem)
  <2>1. PICK m : m = mem
    OBVIOUS
  <2>2. Sound(m) /\ m.kernel = "running" /\ r = AllocPage(m, PageWindow)
    BY <1>1, <1>4, <1>6, <2>1
  <2>3. /\ Sound(r.mem)
        /\ r.page # None => r.mem.kernel = "running" /\ Gains(m, r.mem, r.page)
        /\ r.page = None => KeepsLeaves(m, r.mem)
    BY <2>2, AllocPageFacts
  <2>. QED BY <2>1, <2>3
<1>8. Sound(mem') /\ Stable(mem, mem')
  <2>1. CASE r.page = None
    BY <1>4, <1>7, <2>1, StableFacts
  <2>2. CASE r.page # None
    <3>1. Grown(mem, mem')
      BY <1>4, <1>7, <2>2, GrownGained
    <3>. QED BY <1>4, <1>7, <3>1, StableFacts
  <2>. QED BY <2>1, <2>2
<1>9. ASSUME mem'.kernel = "running"
      PROVE  \E g : HeapOK(mem', small', freeList', areas', treeNode', blocks', g)
  <2>1. PICK p : p = r.page
    OBVIOUS
  <2>2. p # None
    BY <1>4, <1>9, <2>1
  <2>3. Gains(mem, mem', p)
    BY <1>4, <1>7, <2>1, <2>2
  <2>4. Grown(mem, mem') /\ Calm(mem, mem') /\ Mapped(mem', p) /\ ~Mapped(mem, p)
    BY <2>3, GrownGained
  <2>5. PICK Q : Q = {p}
    OBVIOUS
  <2>6. \A q \in Q : Mapped(mem', q) /\ ~Mapped(mem, q)
    BY <2>4, <2>5
  <2>7. SInv(mem', small, freeList, X \cup Q)
    BY <1>5, <1>8, <2>4, <2>6, SInvGrown
  <2>8. p \notin X
    BY <1>6, <2>4
  <2>9. X \cup Q = Rest(areas, treeNode, sg \cup Q)
    BY <1>3 DEF Rest
  <2>10. p \notin InRuns(areas) /\ p \notin Tree(treeNode)
    BY <1>3, <2>8 DEF Rest
  <2>11. LargeOK(areas, treeNode, sg \cup Q)
    BY <1>5, <2>5, <2>10 DEF LargeOK
  <2>12. blocks' = blocks \cup {<<p, 0, PageSize>>}
    BY <1>4, <2>1, <2>2
  <2>13. BlocksAre(blocks', small, areas, sg \cup Q)
    <3>1. \A x : IsPageBlock(x, sg \cup Q) <=> (IsPageBlock(x, sg) \/ x = <<p, 0, PageSize>>)
      BY <2>5 DEF IsPageBlock
    <3>2. \A x : x \in blocks <=> (IsSmallBlock(x, small) \/ IsLargeBlock(x, areas) \/ IsPageBlock(x, sg))
      BY <1>5 DEF BlocksAre
    <3>. HIDE DEF IsSmallBlock, IsLargeBlock, IsPageBlock
    <3>3. \A x : x \in blocks' <=> (IsSmallBlock(x, small) \/ IsLargeBlock(x, areas) \/ IsPageBlock(x, sg \cup Q))
      BY <2>12, <3>1, <3>2
    <3>. QED BY <3>3 DEF BlocksAre
  <2>15. Owned(mem', areas)
    BY <1>2, <2>4, OwnedCalm DEF HeapOK
  <2>14. HeapOK(mem', small', freeList', areas', treeNode', blocks', sg \cup Q)
    BY <1>1, <2>7, <2>9, <2>11, <2>13, <2>15 DEF HeapOK
  <2>. QED BY <2>14
<1>. QED BY <1>8, <1>9 DEF Good, IInv, HInv, Running

\* kfree of a page.
LEMMA FreePageGood ==
  ASSUME IInv, NEW block \in blocks, FreePageBlock(block)
  PROVE  Good
<1>1. /\ mem.kernel = "running" /\ block[1] \notin DOMAIN small \cup DOMAIN areas
      /\ mem' = FreePage(mem, block[1]) /\ blocks' = blocks \ {block}
      /\ small' = small /\ freeList' = freeList /\ areas' = areas /\ treeNode' = treeNode
  BY DEF FreePageBlock, Running
<1>2. PICK sg : HeapOK(mem, small, freeList, areas, treeNode, blocks, sg)
  BY <1>1 DEF IInv, HInv, Running
<1>3. PICK X : X = Rest(areas, treeNode, sg)
  OBVIOUS
<1>4. PICK p : p = block[1]
  OBVIOUS
<1>5. p \in sg /\ block = <<p, 0, PageSize>> /\ p \notin DOMAIN small /\ p \notin DOMAIN areas
  BY <1>1, <1>2, <1>4, BlockKinds
<1>6. SInv(mem, small, freeList, X) /\ LargeOK(areas, treeNode, sg) /\ BlocksAre(blocks, small, areas, sg)
  BY <1>2, <1>3 DEF HeapOK
<1>7. Sound(mem) /\ Mapped(mem, p) /\ p \in X
  BY <1>3, <1>5, <1>6, RestMapped DEF Rest
<1>8. Sound(mem') /\ Lost(mem, mem', p) /\ mem'.kernel = mem.kernel
  <2>1. PICK m : m = mem
    OBVIOUS
  <2>2. PICK n : n = mem'
    OBVIOUS
  <2>3. Sound(m) /\ p \in Page /\ Walk(m, p, 0) # -1 /\ n = FreePage(m, p)
    BY <1>1, <1>4, <1>7, <2>1, <2>2 DEF Mapped
  <2>4. Sound(n) /\ Lost(m, n, p) /\ n.kernel = m.kernel
    BY <2>3, FreePageFacts
  <2>. QED BY <2>1, <2>2, <2>4
<1>9. Shrunk(mem, mem')
  BY <1>8 DEF Lost, Shrunk
<1>10. Stable(mem, mem')
  BY <1>9, StableFacts
<1>11. PICK Q : Q = {p}
  OBVIOUS
<1>12. SInv(mem', small, freeList, X \ Q)
  <2>1. Q \in SUBSET X /\ \A q \in Page \ Q : Walk(mem', q, 0) = Walk(mem, q, 0)
    BY <1>7, <1>8, <1>11 DEF Lost
  <2>. QED BY <1>6, <1>8, <2>1, SInvShrunk
<1>13. p \notin InRuns(areas) /\ p \notin Tree(treeNode)
  BY <1>5, <1>6 DEF LargeOK
<1>14. X \ Q = Rest(areas, treeNode, sg \ Q)
  BY <1>3, <1>11, <1>13 DEF Rest
<1>15. LargeOK(areas, treeNode, sg \ Q)
  BY <1>6 DEF LargeOK
<1>16. BlocksAre(blocks', small, areas, sg \ Q)
  <2>1. \A x : IsPageBlock(x, sg \ Q) <=> (IsPageBlock(x, sg) /\ x # block)
    <3>1. \A q : <<q, 0, PageSize>> = <<p, 0, PageSize>> => q = p
      OBVIOUS
    <3>. QED BY <1>5, <1>11, <3>1 DEF IsPageBlock
  <2>2. ~IsSmallBlock(block, small) /\ ~IsLargeBlock(block, areas)
    BY <1>4, <1>5 DEF IsSmallBlock, IsLargeBlock, BlockIn
  <2>3. \A x : x \in blocks <=> (IsSmallBlock(x, small) \/ IsLargeBlock(x, areas) \/ IsPageBlock(x, sg))
    BY <1>6 DEF BlocksAre
  <2>. HIDE DEF IsSmallBlock, IsLargeBlock, IsPageBlock
  <2>4. \A x : x \in blocks' <=> (IsSmallBlock(x, small) \/ IsLargeBlock(x, areas) \/ IsPageBlock(x, sg \ Q))
    BY <1>1, <2>1, <2>2, <2>3
  <2>. QED BY <2>4 DEF BlocksAre
<1>17. HeapOK(mem', small', freeList', areas', treeNode', blocks', sg \ Q)
  <2>1. Owned(mem', areas)
    BY <1>2, <1>9, CalmShrunk, OwnedCalm DEF HeapOK
  <2>. QED BY <1>1, <1>12, <1>14, <1>15, <1>16, <2>1 DEF HeapOK
<1>. QED BY <1>8, <1>10, <1>17 DEF Good, IInv, HInv

\* The pages of a request, and of an area.
LEMMA CountFacts ==
  /\ \A size \in Nat \ {0} : PageCount(size) \in Nat \ {0}
  /\ \A c \in Nat \ {0} : PageCount(c * PageSize) = c /\ c * PageSize \in Nat
<1>1. PICK z \in Nat \ {0} : z = PageSize
  BY HeapAssumption
<1>2. ASSUME NEW size \in Nat \ {0} PROVE PageCount(size) \in Nat \ {0}
  <2>1. PICK a : a = size + z - 1
    OBVIOUS
  <2>2. a \in Nat /\ a >= z
    BY <1>1, <1>2, <2>1
  <2>3. PICK q : q = a \div z
    OBVIOUS
  <2>4. PICK r : r = a % z
    OBVIOUS
  <2>5. q \in Nat /\ r \in 0..(z - 1) /\ a = (q * z) + r
    BY <2>2, <2>3, <2>4, Division
  <2>6. q # 0
    BY <1>1, <2>2, <2>5
  <2>. QED BY <1>1, <2>1, <2>3, <2>5, <2>6 DEF PageCount
<1>3. ASSUME NEW c \in Nat \ {0} PROVE PageCount(c * PageSize) = c /\ c * PageSize \in Nat
  <2>1. PICK a : a = (c * z) + (z - 1)
    OBVIOUS
  <2>2. a \in Nat /\ z - 1 \in 0..(z - 1) /\ c * z \in Nat
    BY <1>1, <1>3, <2>1
  <2>3. (a \div z) = c
    BY <1>1, <1>3, <2>1, <2>2, DivisionUnique
  <2>4. (c * z) + z - 1 = a
    BY <1>1, <2>1, <2>2
  <2>. QED BY <1>1, <2>2, <2>3, <2>4 DEF PageCount
<1>. QED BY <1>2, <1>3

\* The walk over the areas stands at or behind the start of the window.
LEMMA LastEndFacts ==
  ASSUME \A j \in DOMAIN areas : IsArea(areas, j), NEW k \in Nat
  PROVE  /\ LastEnd(k) \in Nat /\ LastEnd(k) >= LargeStart
         /\ \/ LastEnd(k) = LargeStart /\ (\A j \in DOMAIN areas : j >= k)
            \/ \E last \in DOMAIN areas : /\ last < k /\ LastEnd(k) = last + areas[last]
                                           /\ \A j \in DOMAIN areas : j < k => j <= last
<1>1. PICK before : before = {j \in DOMAIN areas : j < k}
  OBVIOUS
<1>2. PICK last : last = CHOOSE j \in before : \A i \in before : i <= j
  OBVIOUS
<1>3. LastEnd(k) = IF before = {} THEN LargeStart ELSE last + areas[last]
  BY <1>1, <1>2 DEF LastEnd
<1>4. LargeStart \in Nat
  BY HeapAssumption
<1>5. CASE before = {}
  <2>1. \A j \in DOMAIN areas : j >= k
    BY <1>1, <1>5 DEF IsArea
  <2>. QED BY <1>3, <1>4, <1>5, <2>1
<1>6. CASE before # {}
  <2>1. before \subseteq Nat
    BY <1>1 DEF IsArea
  <2>2. PICK S : S = {k - j : j \in before}
    OBVIOUS
  <2>3. S \in SUBSET Nat /\ S # {}
    BY <1>1, <1>6, <2>1, <2>2
  <2>4. PICK d \in S : \A e \in S : d <= e
    BY <2>3, Least
  <2>5. PICK g \in before : d = k - g
    BY <2>2, <2>4
  <2>6. \A i \in before : i <= g
    <3>1. ASSUME NEW i \in before PROVE i <= g
      <4>1. k - i \in S
        BY <2>2, <3>1
      <4>2. k - g <= k - i
        BY <2>4, <2>5, <4>1
      <4>. QED BY <2>1, <4>2
    <3>. QED BY <3>1
  <2>7. last \in before /\ \A i \in before : i <= last
    BY <1>2, <2>6
  <2>8. last \in Nat /\ last >= LargeStart /\ areas[last] \in Nat
    <3>1. IsArea(areas, last)
      BY <1>1, <2>7
    <3>2. PICK c \in Nat \ {0} : c = PageCount(areas[last]) /\ areas[last] = c * PageSize
      BY <3>1 DEF IsArea
    <3>3. areas[last] \in Nat
      BY <3>2, CountFacts
    <3>. QED BY <3>1, <3>3 DEF IsArea
  <2>9. last \in DOMAIN areas /\ last < k /\ \A j \in DOMAIN areas : j < k => j <= last
    BY <1>1, <2>7
  <2>. QED BY <1>3, <1>4, <1>6, <2>8, <2>9
<1>. QED BY <1>5, <1>6

\* So is the place of a new area.
LEMMA SpotFacts ==
  ASSUME \A j \in DOMAIN areas : IsArea(areas, j), NEW count
  PROVE  LargeSpot(count) \in Nat /\ LargeSpot(count) >= LargeStart
<1>1. PICK stops : stops = {k \in DOMAIN areas : LastEnd(k) > k \/ k - LastEnd(k) > count}
  OBVIOUS
<1>2. stops \in SUBSET Nat
  BY <1>1 DEF IsArea
<1>3. PICK k : k = IF stops = {} THEN LargeEnd ELSE First(stops)
  OBVIOUS
<1>4. k \in Nat
  <2>1. stops # {} => First(stops) \in Nat
    BY <1>2, FirstFacts
  <2>. QED BY <1>3, <2>1, HeapAssumption
<1>5. LargeSpot(count) = LastEnd(k)
  BY <1>1, <1>3 DEF LargeSpot
<1>. QED BY <1>4, <1>5, LastEndFacts

\* What lies in front of where the walk stands ends there, when the areas are spaced.
LEMMA WalkSees ==
  ASSUME \A j \in DOMAIN areas : IsArea(areas, j),
         \A i, j \in DOMAIN areas : i < j => i + areas[i] <= j,
         NEW k \in Nat, LargeStart <= k
  PROVE  /\ \A j \in DOMAIN areas : j < k => j + PageCount(areas[j]) <= LastEnd(k)
         /\ k \in DOMAIN areas => LastEnd(k) <= k
<1>1. \A j \in DOMAIN areas : /\ j \in Nat /\ areas[j] \in Nat /\ PageCount(areas[j]) \in Nat
                             /\ PageCount(areas[j]) <= areas[j]
  <2>1. ASSUME NEW j \in DOMAIN areas
        PROVE  /\ j \in Nat /\ areas[j] \in Nat /\ PageCount(areas[j]) \in Nat
               /\ PageCount(areas[j]) <= areas[j]
    <3>1. PICK c \in Nat \ {0} : c = PageCount(areas[j]) /\ areas[j] = c * PageSize
      BY DEF IsArea
    <3>2. PICK z \in Nat : PageSize = z + 1
      <4>1. PageSize - 1 \in Nat /\ PageSize = (PageSize - 1) + 1
        BY HeapAssumption
      <4>. QED BY <4>1
    <3>3. c * (z + 1) = (c * z) + c /\ c * z \in Nat
      OBVIOUS
    <3>4. areas[j] = (c * z) + c
      BY <3>1, <3>2, <3>3
    <3>. QED BY <3>1, <3>3, <3>4 DEF IsArea
  <2>. QED BY <2>1
<1>2. PICK e : e = LastEnd(k)
  OBVIOUS
<1>3. CASE \A j \in DOMAIN areas : j >= k
  <2>1. e = LargeStart
    <3>1. ASSUME NEW last \in DOMAIN areas, last < k PROVE FALSE
      BY <1>1, <1>3, <3>1
    <3>. QED BY <1>2, <3>1, LastEndFacts
  <2>2. \A j \in DOMAIN areas : ~(j < k)
    BY <1>1, <1>3
  <2>. QED BY <1>2, <2>1, <2>2
<1>4. CASE \E j \in DOMAIN areas : j < k
  <2>1. PICK last \in DOMAIN areas : /\ last < k /\ e = last + areas[last]
                                     /\ \A j \in DOMAIN areas : j < k => j <= last
    <3>1. ~(\A j \in DOMAIN areas : j >= k)
      BY <1>1, <1>4
    <3>. QED BY <1>2, <3>1, LastEndFacts
  <2>2. ASSUME NEW j \in DOMAIN areas, j < k PROVE j + PageCount(areas[j]) <= e
    <3>1. j <= last
      BY <2>1, <2>2
    <3>2. CASE j = last
      BY <1>1, <2>1, <3>2
    <3>3. CASE j # last
      <4>1. j < last
        BY <1>1, <3>1, <3>3
      <4>2. j + areas[j] <= last
        BY <4>1
      <4>. QED BY <1>1, <2>1, <4>2
    <3>. QED BY <3>2, <3>3
  <2>3. k \in DOMAIN areas => e <= k
    BY <2>1
  <2>. QED BY <1>2, <2>2, <2>3
<1>5. (\A j \in DOMAIN areas : j >= k) \/ (\E j \in DOMAIN areas : j < k)
  BY <1>1
<1>. QED BY <1>3, <1>4, <1>5

\* The place of a new area is apart from the areas, when they are spaced.
LEMMA SpotFree ==
  ASSUME \A j \in DOMAIN areas : IsArea(areas, j),
         \A i, j \in DOMAIN areas : i < j => i + areas[i] <= j,
         NEW count \in Nat \ {0}, NEW start, start = LargeSpot(count), start + count <= LargeEnd
  PROVE  RunOf(start, count) \cap InRuns(areas) = {}
<1>0. LargeStart \in Nat /\ LargeEnd \in Nat
  BY HeapAssumption
<1>1. PICK stops : stops = {k \in DOMAIN areas : LastEnd(k) > k \/ k - LastEnd(k) > count}
  OBVIOUS
<1>2. \A j \in DOMAIN areas : /\ j \in Nat /\ j >= LargeStart /\ PageCount(areas[j]) \in Nat \ {0}
                             /\ j + PageCount(areas[j]) <= LargeEnd
  BY DEF IsArea
<1>3. PICK k : k = IF stops = {} THEN LargeEnd ELSE First(stops)
  OBVIOUS
<1>4. start = LastEnd(k)
  BY <1>1, <1>3 DEF LargeSpot
<1>5. start \in Nat /\ start >= LargeStart
  BY SpotFacts
<1>6. \A j \in DOMAIN areas : j + PageCount(areas[j]) <= start \/ start + count <= j
  <2>1. CASE stops = {}
    <3>1. k = LargeEnd /\ LargeStart <= k
      BY <1>0, <1>3, <1>5, <2>1
    <3>2. \A j \in DOMAIN areas : j < k
      BY <1>0, <1>2, <3>1
    <3>3. \A j \in DOMAIN areas : j < k => j + PageCount(areas[j]) <= LastEnd(k)
      BY <1>0, <3>1, WalkSees
    <3>. QED BY <1>4, <3>2, <3>3
  <2>2. CASE stops # {}
    <3>1. stops \in SUBSET Nat
      BY <1>1, <1>2
    <3>2. k \in stops
      BY <1>3, <2>2, <3>1, FirstFacts
    <3>3. k \in DOMAIN areas /\ (start > k \/ k - start > count) /\ k \in Nat /\ LargeStart <= k
      BY <1>1, <1>2, <1>4, <3>2
    <3>4. /\ \A j \in DOMAIN areas : j < k => j + PageCount(areas[j]) <= start
          /\ start <= k
      <4>1. /\ \A j \in DOMAIN areas : j < k => j + PageCount(areas[j]) <= LastEnd(k)
            /\ k \in DOMAIN areas => LastEnd(k) <= k
        BY <3>3, WalkSees
      <4>. QED BY <1>4, <3>3, <4>1
    <3>5. start + count <= k
      BY <1>5, <3>3, <3>4
    <3>6. \A j \in DOMAIN areas : j < k \/ k <= j
      BY <1>2, <3>3
    <3>. QED BY <1>2, <1>5, <3>3, <3>4, <3>5, <3>6
  <2>. QED BY <2>1, <2>2
<1>7. ASSUME NEW q \in RunOf(start, count), NEW j \in DOMAIN areas, q \in RunAt(areas, j) PROVE FALSE
  <2>1. PICK c : c = PageCount(areas[j])
    OBVIOUS
  <2>2. c \in Nat /\ j \in Nat /\ (j + c <= start \/ start + count <= j)
    BY <1>2, <1>6, <2>1
  <2>3. q \in start..((start + count) - 1) /\ q \in j..((j + c) - 1)
    BY <1>7, <2>1 DEF RunOf, RunAt
  <2>. QED BY <1>5, <2>2, <2>3
<1>. QED BY <1>7 DEF InRuns

\* A function of the form the tree has is empty or has a place.
LEMMA NoAreas ==
  ASSUME NEW ar, ar = [k \in DOMAIN ar |-> ar[k]]
  PROVE  ar = <<>> <=> DOMAIN ar = {}
<1>1. ar = <<>> => DOMAIN ar = {}
  OBVIOUS
<1>2. ASSUME DOMAIN ar = {} PROVE ar = <<>>
  <2>1. ar = [k \in 1..0 |-> ar[k]]
    BY <1>2
  <2>2. ar \in Seq({}) /\ Len(ar) = 0
    BY <1>2, <2>1
  <2>. QED BY <2>2, EmptySeq
<1>. QED BY <1>1, <1>2

\* The tree with an area more, in the pages Q, and with one less.
AreaMore(ar, tn, sg, an, tm, R, Q, x) ==
  /\ InRuns(an) = InRuns(ar) \cup R
  /\ LargeOK(an, tm, sg) /\ Rest(an, tm, sg) = Rest(ar, tn, sg) \cup Q
  /\ \A y : IsLargeBlock(y, an) <=> (IsLargeBlock(y, ar) \/ y = x)
AreaLess(ar, tn, sg, an, tm, R, T, x) ==
  /\ InRuns(an) = InRuns(ar) \ R
  /\ LargeOK(an, tm, sg) /\ Rest(an, tm, sg) = Rest(ar, tn, sg) \ (R \cup T)
  /\ R \subseteq Rest(ar, tn, sg) /\ T \subseteq Rest(ar, tn, sg) \ R
  /\ \A y : IsLargeBlock(y, an) <=> (IsLargeBlock(y, ar) /\ y # x)

\* An area more, and the node for the first.
LEMMA AreaAdded ==
  ASSUME NEW ar, NEW tn, NEW sg, LargeOK(ar, tn, sg), NEW k \in Nat, NEW c \in Nat \ {0},
         k >= LargeStart, k + c <= LargeEnd, NEW R, R = RunOf(k, c), R \cap Rest(ar, tn, sg) = {},
         NEW tm, tm # None, NEW T, T = IF DOMAIN ar = {} THEN {tm} ELSE {},
         T \cap (Rest(ar, tn, sg) \cup R) = {}, DOMAIN ar # {} => tm = tn,
         NEW an, an = With(ar, k, c * PageSize)
  PROVE  AreaMore(ar, tn, sg, an, tm, R, R \cup T, <<k, 0, c * PageSize>>)
<1>1. PICK v : v = c * PageSize
  OBVIOUS
<1>2. PageCount(v) = c /\ v = PageCount(v) * PageSize
  BY <1>1, CountFacts
<1>3. k \notin DOMAIN ar
  <2>1. k \in R
    BY DEF RunOf
  <2>2. ASSUME k \in DOMAIN ar PROVE FALSE
    <3>1. k \in InRuns(ar)
      BY <2>2, AreaFirst DEF LargeOK
    <3>. QED BY <2>1, <3>1 DEF Rest
  <2>. QED BY <2>2
<1>4. /\ DOMAIN an = DOMAIN ar \cup {k} /\ an[k] = v /\ \A j \in DOMAIN ar : an[j] = ar[j]
      /\ an = [j \in DOMAIN an |-> an[j]]
  BY <1>1, <1>3 DEF With
<1>5. IsArea(an, k) /\ RunAt(an, k) = R
  BY <1>2, <1>4 DEF IsArea, RunAt
<1>6. \A j \in DOMAIN ar : IsArea(an, j) /\ RunAt(an, j) = RunAt(ar, j)
  <2>1. \A j \in DOMAIN ar : IsArea(ar, j)
    BY DEF LargeOK
  <2>. QED BY <1>4, <2>1 DEF IsArea, RunAt
<1>. HIDE DEF RunAt, IsArea
<1>7. InRuns(an) = InRuns(ar) \cup R
  BY <1>4, <1>5, <1>6 DEF InRuns
<1>8. Tree(tm) = Tree(tn) \cup T
  <2>1. CASE DOMAIN ar = {}
    <3>1. Tree(tn) = {}
      BY <2>1 DEF LargeOK, Tree
    <3>. QED BY <2>1, <3>1 DEF Tree
  <2>2. CASE DOMAIN ar # {}
    BY <2>2
  <2>. QED BY <2>1, <2>2
<1>9. Rest(an, tm, sg) = Rest(ar, tn, sg) \cup (R \cup T)
  BY <1>7, <1>8 DEF Rest
<1>10. \A j \in DOMAIN ar : RunAt(ar, j) \subseteq InRuns(ar)
  BY DEF InRuns
<1>11. RunsApart(an)
  <2>1. ASSUME NEW i \in DOMAIN an, NEW j \in DOMAIN an, i # j
        PROVE  RunAt(an, i) \cap RunAt(an, j) = {}
    <3>1. R \cap InRuns(ar) = {}
      BY DEF Rest
    <3>2. CASE i = k
      BY <1>4, <1>5, <1>6, <1>10, <2>1, <3>1, <3>2
    <3>3. CASE j = k
      BY <1>4, <1>5, <1>6, <1>10, <2>1, <3>1, <3>3
    <3>4. CASE i # k /\ j # k
      BY <1>4, <1>6, <2>1, <3>4 DEF LargeOK, RunsApart
    <3>. QED BY <3>2, <3>3, <3>4
  <2>. QED BY <2>1 DEF RunsApart
<1>12. (InRuns(an) \cap sg = {}) /\ (InRuns(an) \cap Tree(tm) = {}) /\ (sg \cap Tree(tm) = {})
  BY <1>7, <1>8 DEF LargeOK, Rest
<1>13. LargeOK(an, tm, sg)
  BY <1>4, <1>5, <1>6, <1>11, <1>12 DEF LargeOK
<1>14. \A x : IsLargeBlock(x, an) <=> (IsLargeBlock(x, ar) \/ x = <<k, 0, v>>)
  BY <1>4 DEF IsLargeBlock
<1>. QED BY <1>1, <1>7, <1>9, <1>13, <1>14 DEF AreaMore

\* An area less; the node goes with the last.
LEMMA AreaRemoved ==
  ASSUME NEW ar, NEW tn, NEW sg, LargeOK(ar, tn, sg), NEW k \in DOMAIN ar,
         NEW T, T = IF DOMAIN ar = {k} THEN {tn} ELSE {},
         NEW tm, tm = IF DOMAIN ar = {k} THEN None ELSE tn,
         NEW an, an = [j \in DOMAIN ar \ {k} |-> ar[j]]
  PROVE  AreaLess(ar, tn, sg, an, tm, RunAt(ar, k), T, <<k, 0, ar[k]>>)
<1>1. /\ DOMAIN an = DOMAIN ar \ {k} /\ \A j \in DOMAIN an : an[j] = ar[j]
      /\ an = [j \in DOMAIN an |-> an[j]]
  OBVIOUS
<1>2. \A j \in DOMAIN an : IsArea(an, j) /\ RunAt(an, j) = RunAt(ar, j)
  <2>1. \A j \in DOMAIN ar : IsArea(ar, j)
    BY DEF LargeOK
  <2>. QED BY <1>1, <2>1 DEF IsArea, RunAt
<1>3. PICK R : R = RunAt(ar, k)
  OBVIOUS
<1>. HIDE DEF RunAt, IsArea
<1>4. \A j \in DOMAIN an : RunAt(ar, j) \cap R = {}
  BY <1>1, <1>3 DEF LargeOK, RunsApart
<1>5. InRuns(an) = InRuns(ar) \ R
  <2>1. \A p : p \in InRuns(ar) <=> \E j \in DOMAIN ar : p \in RunAt(ar, j)
    BY DEF InRuns
  <2>2. \A p : p \in InRuns(an) <=> \E j \in DOMAIN an : p \in RunAt(ar, j)
    BY <1>2 DEF InRuns
  <2>3. \A j \in DOMAIN ar : j = k \/ j \in DOMAIN an
    BY <1>1
  <2>4. \A p : p \in InRuns(an) <=> (p \in InRuns(ar) /\ p \notin R)
    BY <1>1, <1>3, <1>4, <2>1, <2>2, <2>3
  <2>. QED BY <2>4
<1>6. R \subseteq InRuns(ar)
  BY <1>3 DEF InRuns
<1>7. tn # None /\ Tree(tn) = {tn}
  BY DEF LargeOK, Tree
<1>8. Tree(tm) = Tree(tn) \ T
  <2>1. CASE DOMAIN ar = {k}
    <3>1. Tree(tm) = {} /\ T = {tn}
      BY <2>1 DEF Tree
    <3>. QED BY <1>7, <3>1
  <2>2. CASE DOMAIN ar # {k}
    BY <2>2
  <2>. QED BY <2>1, <2>2
<1>9. T \subseteq Tree(tn)
  BY <1>7
<1>10. (InRuns(ar) \cap sg = {}) /\ (InRuns(ar) \cap Tree(tn) = {}) /\ (sg \cap Tree(tn) = {})
  BY DEF LargeOK
<1>11. Rest(an, tm, sg) = Rest(ar, tn, sg) \ (R \cup T)
  BY <1>5, <1>6, <1>8, <1>9, <1>10 DEF Rest
<1>12. R \subseteq Rest(ar, tn, sg) /\ T \subseteq Rest(ar, tn, sg) \ R
  BY <1>6, <1>9, <1>10 DEF Rest
<1>13. RunsApart(an)
  <2>1. \A i, j \in DOMAIN ar : i # j => (RunAt(ar, i) \cap RunAt(ar, j) = {})
    BY DEF LargeOK, RunsApart
  <2>2. ASSUME NEW i \in DOMAIN an, NEW j \in DOMAIN an, i # j
        PROVE  RunAt(an, i) \cap RunAt(an, j) = {}
    <3>1. i \in DOMAIN ar /\ j \in DOMAIN ar
      BY <1>1
    <3>2. RunAt(ar, i) \cap RunAt(ar, j) = {}
      BY <2>1, <2>2, <3>1
    <3>. QED BY <1>2, <3>2
  <2>. QED BY <2>2 DEF RunsApart
<1>14. (tm = None) <=> (DOMAIN an = {})
  BY <1>1, <1>7
<1>15. LargeOK(an, tm, sg)
  BY <1>1, <1>2, <1>5, <1>8, <1>10, <1>13, <1>14 DEF LargeOK
<1>16. \A x : IsLargeBlock(x, an) <=> (IsLargeBlock(x, ar) /\ x # <<k, 0, ar[k]>>)
  <2>1. \A j \in DOMAIN ar : j # k => <<j, 0, ar[j]>> # <<k, 0, ar[k]>>
    OBVIOUS
  <2>. QED BY <1>1, <2>1 DEF IsLargeBlock
<1>. QED BY <1>3, <1>5, <1>11, <1>12, <1>15, <1>16 DEF AreaLess

\* kmalloc of a large block: whatever the call found, it made more pages mapped.
LEMMA LargeGrown ==
  ASSUME Sound(mem), mem.kernel = "running", NEW size, NEW start \in Nat, NEW count \in Nat, start >= LargeStart,
         start + count <= LargeEnd => (\A p \in RunOf(start, count) : ~Mapped(mem, p)),
         NEW tried, tried = IF size <= PageSize THEN AllocPage(mem, PageWindow) ELSE [mem |-> mem, page |-> None],
         NEW a, a = tried.mem, tried.page = None, a.kernel = "running",
         NEW b, b = IF start + count > LargeEnd THEN Halt(a) ELSE MapRun(a, start, count),
         NEW node, node = IF areas # <<>> THEN [mem |-> b, page |-> treeNode]
                          ELSE IF b.kernel # "running" THEN [mem |-> b, page |-> None]
                          ELSE AllocPage(b, PageWindow),
         NEW n, n = node.mem
  PROVE  /\ Sound(n) /\ Grown(mem, n)
         /\ n.kernel = "running" =>
              /\ start + count <= LargeEnd /\ Grown(b, n)
              /\ \A q \in RunOf(start, count) : Mapped(b, q) /\ ~Mapped(mem, q)
              /\ areas = <<>> /\ node.page # None => Mapped(n, node.page) /\ ~Mapped(b, node.page)
              /\ Grown(mem, b)
              /\ \A q : Mapped(n, q) => Mapped(mem, q) \/ Windowed(q) \/ q \in RunOf(start, count)
<1>1. Sound(a) /\ KeepsLeaves(mem, a)
  <2>1. PICK m : m = mem
    OBVIOUS
  <2>2. CASE size <= PageSize
    <3>1. Sound(m) /\ m.kernel = "running" /\ tried = AllocPage(m, PageWindow)
      BY <2>1, <2>2
    <3>2. Sound(tried.mem) /\ KeepsLeaves(m, tried.mem)
      BY <3>1, AllocPageFacts
    <3>. QED BY <2>1, <3>2
  <2>3. CASE ~(size <= PageSize)
    <3>1. a = mem
      BY <2>3
    <3>. QED BY <3>1, KeepsItself
  <2>. QED BY <2>2, <2>3
<1>2. Grown(mem, a)
  BY <1>1, GrownKept
<1>3. /\ Sound(b) /\ Grown(a, b)
      /\ b.kernel = "running" => (start + count <= LargeEnd) /\ RunMapped(a, b, RunOf(start, count))
  <2>0. LargeEnd \in Nat /\ LargeStart \in Nat
    BY HeapAssumption
  <2>1. CASE start + count > LargeEnd
    <3>1. b = Halt(a)
      BY <2>1
    <3>2. Sound(b) /\ SameWalks(a, b) /\ b.kernel = "halted"
      BY <1>1, <3>1, StopSound
    <3>3. Grown(a, b)
      BY <3>2, KeepsSame, GrownKept
    <3>. QED BY <3>2, <3>3
  <2>2. CASE ~(start + count > LargeEnd)
    <3>1. start + count <= LargeEnd
      BY <2>0, <2>2
    <3>2. \A p \in RunOf(start, count) : p \in LargeStart..(LargeEnd - 1)
      BY <2>0, <3>1 DEF RunOf
    <3>5. \A p \in RunOf(start, count) : p \in Page /\ ~Windowed(p)
      BY <3>2, HeapAssumption DEF Windowed
    <3>3. \A p \in RunOf(start, count) : p \in Page /\ ~Windowed(p) /\ Walk(a, p, 0) = -1
      BY <1>1, <3>1, <3>5 DEF KeepsLeaves, Mapped
    <3>4. b = MapRun(a, start, count)
      BY <2>2
    <3>. QED BY <1>1, <3>1, <3>3, <3>4, MapRunFacts
  <2>. QED BY <2>1, <2>2
<1>4. Grown(mem, b)
  BY <1>2, <1>3, GrownTwice
<1>5. /\ Sound(n) /\ Grown(b, n) /\ Calm(b, n)
      /\ n.kernel = "running" => b.kernel = "running"
      /\ n.kernel = "running" /\ areas = <<>> /\ node.page # None => Gains(b, n, node.page)
  <2>1. CASE areas # <<>> \/ b.kernel # "running"
    <3>1. n = b /\ ~(n.kernel = "running" /\ areas = <<>>)
      BY <2>1
    <3>2. Grown(b, b) /\ Calm(b, b)
      BY KeepsItself, GrownKept
    <3>. QED BY <1>3, <3>1, <3>2
  <2>2. CASE areas = <<>> /\ b.kernel = "running"
    <3>1. node = AllocPage(b, PageWindow)
      BY <2>2
    <3>2. /\ Sound(node.mem)
          /\ node.page # None => node.mem.kernel = "running" /\ Gains(b, node.mem, node.page)
          /\ node.page = None => KeepsLeaves(b, node.mem)
      BY <1>3, <2>2, <3>1, AllocPageFacts
    <3>3. Grown(b, n) /\ Calm(b, n)
      BY <3>2, GrownGained, GrownKept
    <3>. QED BY <2>2, <3>2, <3>3
  <2>. QED BY <2>1, <2>2
<1>6. Grown(mem, n)
  BY <1>4, <1>5, GrownTwice
<1>7. ASSUME n.kernel = "running"
      PROVE  /\ start + count <= LargeEnd
             /\ \A q \in RunOf(start, count) : Mapped(b, q) /\ ~Mapped(mem, q)
             /\ areas = <<>> /\ node.page # None => Mapped(n, node.page) /\ ~Mapped(b, node.page)
             /\ \A q : Mapped(n, q) => Mapped(mem, q) \/ Windowed(q) \/ q \in RunOf(start, count)
  <2>1. start + count <= LargeEnd /\ RunMapped(a, b, RunOf(start, count))
    BY <1>3, <1>5, <1>7
  <2>2. \A p \in RunOf(start, count) : p \in Page
    <3>1. LargeEnd \in Nat /\ LargeStart \in Nat
      BY HeapAssumption
    <3>2. \A p \in RunOf(start, count) : p \in LargeStart..(LargeEnd - 1)
      BY <2>1, <3>1 DEF RunOf
    <3>. QED BY <3>2, HeapAssumption
  <2>3. \A q \in RunOf(start, count) : Mapped(b, q) /\ ~Mapped(mem, q)
    BY <1>1, <2>1, <2>2 DEF RunMapped, Mapped, KeepsLeaves
  <2>4. \A q \in Page : Walk(b, q, 0) # -1 => Walk(mem, q, 0) # -1 \/ q \in RunOf(start, count)
    BY <1>1, <2>1 DEF RunMapped, KeepsLeaves
  <2>5. \A q : Mapped(n, q) => Mapped(mem, q) \/ Windowed(q) \/ q \in RunOf(start, count)
    BY <1>5, <2>4 DEF Calm, Mapped
  <2>. QED BY <1>5, <1>7, <2>1, <2>3, <2>5, GrownGained
<1>. QED BY <1>4, <1>5, <1>6, <1>7

\* kmalloc of a large block.
LEMMA MallocLargeGood ==
  ASSUME IInv, Spaced, NEW size \in Requests, MallocLarge(size)
  PROVE  Good
<1>1. /\ mem.kernel = "running" /\ size > BucketSizes[Len(BucketSizes)]
      /\ small' = small /\ freeList' = freeList /\ Cardinality(DOMAIN areas) < MaxTreeAreas
  BY DEF MallocLarge, Running
<1>2. PICK sg : HeapOK(mem, small, freeList, areas, treeNode, blocks, sg)
  BY <1>1 DEF IInv, HInv, Running
<1>3. PICK X : X = Rest(areas, treeNode, sg)
  OBVIOUS
<1>4. SInv(mem, small, freeList, X) /\ LargeOK(areas, treeNode, sg) /\ BlocksAre(blocks, small, areas, sg) /\ Owned(mem, areas)
  BY <1>2, <1>3 DEF HeapOK
<1>5. Sound(mem) /\ \A p \in X : Mapped(mem, p)
  BY <1>4, RestMapped
<1>6. PICK count : count = PageCount(size)
  OBVIOUS
<1>7. PICK start : start = LargeSpot(count)
  OBVIOUS
<1>8. count \in Nat \ {0} /\ start \in Nat /\ start >= LargeStart
  <2>1. size \in Nat \ {0}
    <3>1. BucketSizes[Len(BucketSizes)] \in Nat \ {0}
      BY BucketFacts
    <3>2. size \in Nat
      BY HeapAssumption
    <3>. QED BY <1>1, <3>1, <3>2
  <2>2. \A j \in DOMAIN areas : IsArea(areas, j)
    BY <1>4 DEF LargeOK
  <2>. QED BY <1>6, <1>7, <2>1, <2>2, CountFacts, SpotFacts
<1>18. ASSUME start + count <= LargeEnd, NEW p \in RunOf(start, count) PROVE ~Mapped(mem, p) /\ ~Windowed(p)
  <2>1. \A j \in DOMAIN areas : IsArea(areas, j)
    BY <1>4 DEF LargeOK
  <2>2. \A i, j \in DOMAIN areas : i < j => i + areas[i] <= j
    BY <1>1 DEF Spaced
  <2>3. p \notin InRuns(areas)
    BY <1>7, <1>8, <1>18, <2>1, <2>2, SpotFree
  <2>4. p \in LargeStart..(LargeEnd - 1)
    <3>1. LargeEnd \in Nat /\ LargeStart \in Nat
      BY HeapAssumption
    <3>. QED BY <1>8, <1>18, <3>1 DEF RunOf
  <2>5. ~Windowed(p)
    BY <2>4, HeapAssumption DEF Windowed
  <2>. QED BY <1>4, <2>3, <2>5 DEF Owned
<1>9. PICK tried : /\ tried = IF size <= PageSize THEN AllocPage(mem, PageWindow) ELSE [mem |-> mem, page |-> None]
                   /\ \E node \in {IF areas # <<>>
                                   THEN [mem |-> IF start + count > LargeEnd THEN Halt(tried.mem)
                                                 ELSE MapRun(tried.mem, start, count), page |-> treeNode]
                                   ELSE IF (IF start + count > LargeEnd THEN Halt(tried.mem)
                                            ELSE MapRun(tried.mem, start, count)).kernel # "running"
                                   THEN [mem |-> IF start + count > LargeEnd THEN Halt(tried.mem)
                                                 ELSE MapRun(tried.mem, start, count), page |-> None]
                                   ELSE AllocPage(IF start + count > LargeEnd THEN Halt(tried.mem)
                                                  ELSE MapRun(tried.mem, start, count), PageWindow)} :
                      \E done \in {node.page # None /\ node.mem.kernel = "running"} :
                        /\ tried.page = None /\ tried.mem.kernel = "running"
                        /\ mem' = IF done \/ node.mem.kernel # "running" THEN node.mem ELSE Halt(node.mem)
                        /\ areas' = IF done THEN With(areas, start, count * PageSize) ELSE areas
                        /\ treeNode' = IF done THEN node.page ELSE treeNode
                        /\ blocks' = IF done THEN blocks \cup {<<start, 0, count * PageSize>>} ELSE blocks
  BY <1>6, <1>7 DEF MallocLarge
<1>10. PICK a : a = tried.mem
  OBVIOUS
<1>11. PICK b : b = IF start + count > LargeEnd THEN Halt(a) ELSE MapRun(a, start, count)
  OBVIOUS
<1>12. PICK node : /\ node = IF areas # <<>> THEN [mem |-> b, page |-> treeNode]
                             ELSE IF b.kernel # "running" THEN [mem |-> b, page |-> None]
                             ELSE AllocPage(b, PageWindow)
                   /\ \E done \in {node.page # None /\ node.mem.kernel = "running"} :
                        /\ tried.page = None /\ tried.mem.kernel = "running"
                        /\ mem' = IF done \/ node.mem.kernel # "running" THEN node.mem ELSE Halt(node.mem)
                        /\ areas' = IF done THEN With(areas, start, count * PageSize) ELSE areas
                        /\ treeNode' = IF done THEN node.page ELSE treeNode
                        /\ blocks' = IF done THEN blocks \cup {<<start, 0, count * PageSize>>} ELSE blocks
  BY <1>9, <1>10, <1>11
<1>13. PICK n : n = node.mem
  OBVIOUS
<1>14. /\ tried.page = None /\ a.kernel = "running"
       /\ node.page # None /\ n.kernel = "running" =>
            /\ mem' = n /\ areas' = With(areas, start, count * PageSize) /\ treeNode' = node.page
            /\ blocks' = blocks \cup {<<start, 0, count * PageSize>>}
       /\ ~(node.page # None /\ n.kernel = "running") =>
            mem' = IF n.kernel # "running" THEN n ELSE Halt(n)
  BY <1>10, <1>12, <1>13
<1>15. /\ Sound(n) /\ Grown(mem, n)
       /\ n.kernel = "running" =>
            /\ start + count <= LargeEnd /\ Grown(b, n)
            /\ \A q \in RunOf(start, count) : Mapped(b, q) /\ ~Mapped(mem, q)
            /\ areas = <<>> /\ node.page # None => Mapped(n, node.page) /\ ~Mapped(b, node.page)
            /\ Grown(mem, b)
            /\ \A q : Mapped(n, q) => Mapped(mem, q) \/ Windowed(q) \/ q \in RunOf(start, count)
  BY <1>1, <1>5, <1>8, <1>9, <1>10, <1>11, <1>12, <1>13, <1>14, <1>18, LargeGrown
<1>16. Sound(mem') /\ Stable(mem, mem') /\ (mem'.kernel = "running" => node.page # None /\ n.kernel = "running")
  <2>1. CASE (node.page # None /\ n.kernel = "running") \/ n.kernel # "running"
    <3>1. mem' = n
      BY <1>14, <2>1
    <3>. QED BY <1>15, <2>1, <3>1, StableFacts
  <2>2. CASE node.page = None /\ n.kernel = "running"
    <3>1. mem' = Halt(n)
      BY <1>14, <2>2
    <3>2. PICK h : h = Halt(n)
      OBVIOUS
    <3>3. Sound(h) /\ SameWalks(n, h) /\ h.kernel = "halted"
      BY <1>15, <3>2, StopSound
    <3>4. Grown(n, h)
      BY <3>3, KeepsSame, GrownKept
    <3>5. Stable(mem, h)
      BY <1>15, <3>4, GrownTwice, StableFacts
    <3>. QED BY <3>1, <3>2, <3>3, <3>5
  <2>. QED BY <2>1, <2>2
<1>17. ASSUME mem'.kernel = "running"
       PROVE  \E g : HeapOK(mem', small', freeList', areas', treeNode', blocks', g)
  <2>1. node.page # None /\ n.kernel = "running"
    BY <1>16, <1>17
  <2>2. PICK tm : tm = node.page
    OBVIOUS
  <2>3. PICK R : R = RunOf(start, count)
    OBVIOUS
  <2>4. PICK T : T = IF DOMAIN areas = {} THEN {tm} ELSE {}
    OBVIOUS
  <2>5. /\ mem' = n /\ areas' = With(areas, start, count * PageSize) /\ treeNode' = tm
        /\ blocks' = blocks \cup {<<start, 0, count * PageSize>>} /\ tm # None
    BY <1>14, <2>1, <2>2
  <2>6. /\ start + count <= LargeEnd /\ Grown(b, n) /\ Grown(mem, b)
        /\ \A q \in R : Mapped(b, q) /\ ~Mapped(mem, q)
        /\ areas = <<>> => Mapped(n, tm) /\ ~Mapped(b, tm)
        /\ \A q : Mapped(n, q) => Mapped(mem, q) \/ Windowed(q) \/ q \in R
    BY <1>15, <2>1, <2>2, <2>3
  <2>7. areas = <<>> <=> DOMAIN areas = {}
    BY <1>4, NoAreas DEF LargeOK
  <2>8. \A p : Mapped(mem, p) => Mapped(b, p)
    BY <2>6 DEF Grown, Mapped
  <2>9. \A p : Mapped(b, p) => Mapped(n, p)
    BY <2>6 DEF Grown, Mapped
  <2>10. \A q \in R \cup T : Mapped(n, q) /\ ~Mapped(mem, q)
    BY <2>4, <2>6, <2>7, <2>8, <2>9
  <2>11. PICK Q : Q = R \cup T
    OBVIOUS
  <2>12. SInv(n, small, freeList, X \cup Q)
    BY <1>4, <1>15, <2>10, <2>11, SInvGrown
  <2>13. R \cap X = {}
    BY <1>5, <2>6
  <2>14. T \cap (X \cup R) = {}
    BY <1>5, <2>4, <2>6, <2>7, <2>8
  <2>15. DOMAIN areas # {} => tm = treeNode
    BY <1>12, <2>2, <2>7
  <2>16. PICK an : an = With(areas, start, count * PageSize)
    OBVIOUS
  <2>17. /\ InRuns(an) = InRuns(areas) \cup R /\ LargeOK(an, tm, sg) /\ Rest(an, tm, sg) = X \cup Q
         /\ \A x : IsLargeBlock(x, an) <=> (IsLargeBlock(x, areas) \/ x = <<start, 0, count * PageSize>>)
    <3>1. R \cap Rest(areas, treeNode, sg) = {} /\ T \cap (Rest(areas, treeNode, sg) \cup R) = {}
      BY <1>3, <2>13, <2>14
    <3>2. AreaMore(areas, treeNode, sg, an, tm, R, R \cup T, <<start, 0, count * PageSize>>)
      BY <1>4, <1>8, <2>3, <2>4, <2>5, <2>6, <2>15, <2>16, <3>1, AreaAdded
    <3>. QED BY <1>3, <2>11, <3>2 DEF AreaMore
  <2>18. BlocksAre(blocks', small, an, sg)
    <3>1. \A x : x \in blocks <=> (IsSmallBlock(x, small) \/ IsLargeBlock(x, areas) \/ IsPageBlock(x, sg))
      BY <1>4 DEF BlocksAre
    <3>. HIDE DEF IsSmallBlock, IsLargeBlock, IsPageBlock
    <3>2. \A x : x \in blocks' <=> (IsSmallBlock(x, small) \/ IsLargeBlock(x, an) \/ IsPageBlock(x, sg))
      BY <2>5, <2>17, <3>1
    <3>. QED BY <3>2 DEF BlocksAre
  <2>19. HeapOK(mem', small', freeList', areas', treeNode', blocks', sg)
    <3>1. Owned(n, an)
      BY <1>4, <2>6, <2>17 DEF Owned
    <3>. QED BY <1>1, <2>5, <2>12, <2>16, <2>17, <2>18, <3>1 DEF HeapOK
  <2>. QED BY <2>19
<1>. QED BY <1>16, <1>17 DEF Good, IInv, HInv, Running

\* A tree of one area.
LEMMA OneArea ==
  ASSUME NEW ar, \A j \in DOMAIN ar : IsArea(ar, j), NEW k \in DOMAIN ar
  PROVE  Cardinality(DOMAIN ar) = 1 <=> DOMAIN ar = {k}
<1>1. IsFiniteSet(DOMAIN ar)
  <2>1. LargeEnd \in Nat
    BY HeapAssumption
  <2>2. ASSUME NEW j \in DOMAIN ar PROVE j \in 0..LargeEnd
    <3>1. PICK c \in Nat \ {0} : c = PageCount(ar[j])
      BY DEF IsArea
    <3>2. j \in Nat /\ j + c <= LargeEnd
      BY <3>1 DEF IsArea
    <3>. QED BY <2>1, <3>1, <3>2
  <2>3. IsFiniteSet(0..LargeEnd) /\ DOMAIN ar \subseteq 0..LargeEnd
    BY <2>1, <2>2, FS_Interval
  <2>. QED BY <2>3, FS_Subset
<1>2. Cardinality(DOMAIN ar) = 1 => \E x : DOMAIN ar = {x}
  BY <1>1, FS_Singleton
<1>3. Cardinality({k}) = 1
  BY FS_Singleton
<1>. QED BY <1>2, <1>3

\* kfree of a large block.
LEMMA FreeLargeGood ==
  ASSUME IInv, NEW block \in blocks, FreeLarge(block)
  PROVE  Good
<1>1. PICK k : k = block[1]
  OBVIOUS
<1>2. /\ mem.kernel = "running" /\ k \in DOMAIN areas
      /\ areas' = [j \in DOMAIN areas \ {k} |-> areas[j]]
      /\ treeNode' = IF Cardinality(DOMAIN areas) = 1 THEN None ELSE treeNode
      /\ blocks' = blocks \ {block} /\ small' = small /\ freeList' = freeList
  BY <1>1 DEF FreeLarge, Running
<1>3. PICK count : count = PageCount(areas[k])
  OBVIOUS
<1>4. PICK a : /\ a = UnmapRun(mem, k, count)
               /\ mem' = IF Cardinality(DOMAIN areas) = 1 THEN FreePage(a, treeNode) ELSE a
  BY <1>1, <1>3 DEF FreeLarge
<1>5. PICK sg : HeapOK(mem, small, freeList, areas, treeNode, blocks, sg)
  BY <1>2 DEF IInv, HInv, Running
<1>6. PICK X : X = Rest(areas, treeNode, sg)
  OBVIOUS
<1>7. SInv(mem, small, freeList, X) /\ LargeOK(areas, treeNode, sg) /\ BlocksAre(blocks, small, areas, sg) /\ Owned(mem, areas)
  BY <1>5, <1>6 DEF HeapOK
<1>8. Sound(mem) /\ \A p \in X : Mapped(mem, p)
  BY <1>7, RestMapped
<1>9. block = <<k, 0, areas[k]>> /\ k \notin DOMAIN small
  BY <1>1, <1>2, <1>5, BlockKinds
<1>10. IsArea(areas, k) /\ (Cardinality(DOMAIN areas) = 1 <=> DOMAIN areas = {k})
  <2>1. \A j \in DOMAIN areas : IsArea(areas, j)
    BY <1>7 DEF LargeOK
  <2>. QED BY <1>2, <2>1, OneArea
<1>11. k \in Nat /\ count \in Nat
  BY <1>3, <1>10 DEF IsArea
<1>12. PICK R : R = RunOf(k, count)
  OBVIOUS
<1>13. PICK T : T = IF DOMAIN areas = {k} THEN {treeNode} ELSE {}
  OBVIOUS
<1>14. PICK tm : tm = IF DOMAIN areas = {k} THEN None ELSE treeNode
  OBVIOUS
<1>15. PICK an : an = [j \in DOMAIN areas \ {k} |-> areas[j]]
  OBVIOUS
<1>16. /\ InRuns(an) = InRuns(areas) \ R /\ LargeOK(an, tm, sg) /\ Rest(an, tm, sg) = X \ (R \cup T)
       /\ R \subseteq X /\ T \subseteq X \ R
       /\ \A x : IsLargeBlock(x, an) <=> (IsLargeBlock(x, areas) /\ x # block)
  <2>1. RunAt(areas, k) = R
    BY <1>3, <1>12 DEF RunAt
  <2>2. AreaLess(areas, treeNode, sg, an, tm, RunAt(areas, k), T, <<k, 0, areas[k]>>)
    BY <1>2, <1>7, <1>13, <1>14, <1>15, AreaRemoved
  <2>. QED BY <1>6, <1>9, <2>1, <2>2 DEF AreaLess
<1>17. Sound(a) /\ a.kernel = mem.kernel /\ RunLost(mem, a, R)
  <2>1. PICK m : m = mem
    OBVIOUS
  <2>2. \A p \in RunOf(k, count) : p \in Page /\ Walk(m, p, 0) # -1
    BY <1>8, <1>12, <1>16, <2>1 DEF Mapped
  <2>3. Sound(m) /\ a = UnmapRun(m, k, count)
    BY <1>4, <1>8, <2>1
  <2>4. Sound(a) /\ a.kernel = m.kernel /\ RunLost(m, a, RunOf(k, count))
    BY <1>11, <2>2, <2>3, UnmapRunFacts
  <2>. QED BY <1>12, <2>1, <2>4
<1>18. PICK n : n = mem'
  OBVIOUS
<1>19. PICK Q : Q = R \cup T
  OBVIOUS
<1>20. Sound(n) /\ RunLost(mem, n, Q)
  <2>1. CASE DOMAIN areas = {k}
    <3>1. n = FreePage(a, treeNode) /\ T = {treeNode}
      BY <1>4, <1>10, <1>13, <1>18, <2>1
    <3>2. PICK t : t = treeNode
      OBVIOUS
    <3>3. t \in Page /\ t \notin R /\ Walk(mem, t, 0) # -1
      BY <1>8, <1>16, <3>1, <3>2 DEF Mapped
    <3>4. Walk(a, t, 0) # -1
      BY <1>17, <3>3 DEF RunLost
    <3>5. Sound(n) /\ Lost(a, n, t)
      BY <1>17, <3>1, <3>2, <3>3, <3>4, FreePageFacts
    <3>6. Q = R \cup {t}
      BY <1>19, <3>1, <3>2
    <3>7. RunLost(mem, n, Q)
      BY <1>17, <3>5, <3>6 DEF RunLost, Lost
    <3>. QED BY <3>5, <3>7
  <2>2. CASE DOMAIN areas # {k}
    <3>1. n = a /\ Q = R
      BY <1>4, <1>10, <1>13, <1>18, <1>19, <2>2
    <3>. QED BY <1>17, <3>1
  <2>. QED BY <2>1, <2>2
<1>21. Stable(mem, n)
  <2>1. Shrunk(mem, n)
    BY <1>20 DEF RunLost, Shrunk
  <2>. QED BY <2>1, StableFacts
<1>22. SInv(n, small, freeList, X \ Q)
  <2>1. Q \in SUBSET X /\ \A q \in Page \ Q : Walk(n, q, 0) = Walk(mem, q, 0)
    BY <1>16, <1>19, <1>20 DEF RunLost
  <2>. QED BY <1>7, <1>20, <2>1, SInvShrunk
<1>23. BlocksAre(blocks', small, an, sg)
  <2>1. \A x : x \in blocks <=> (IsSmallBlock(x, small) \/ IsLargeBlock(x, areas) \/ IsPageBlock(x, sg))
    BY <1>7 DEF BlocksAre
  <2>2. ~IsSmallBlock(block, small)
    BY <1>9 DEF IsSmallBlock, BlockIn
  <2>3. ~IsPageBlock(block, sg)
    <3>1. k \in InRuns(areas) /\ InRuns(areas) \cap sg = {}
      BY <1>2, <1>7, <1>10, AreaFirst DEF LargeOK
    <3>. QED BY <1>9, <3>1 DEF IsPageBlock
  <2>. HIDE DEF IsSmallBlock, IsLargeBlock, IsPageBlock
  <2>4. \A x : x \in blocks' <=> (IsSmallBlock(x, small) \/ IsLargeBlock(x, an) \/ IsPageBlock(x, sg))
    BY <1>2, <1>16, <2>1, <2>2, <2>3
  <2>. QED BY <2>4 DEF BlocksAre
<1>24. HeapOK(n, small, freeList, an, tm, blocks', sg)
  <2>1. Owned(n, an)
    BY <1>7, <1>16, <1>19, <1>20 DEF Owned, RunLost, Mapped
  <2>. QED BY <1>16, <1>19, <1>22, <1>23, <2>1 DEF HeapOK
<1>25. HeapOK(mem', small', freeList', areas', treeNode', blocks', sg)
  BY <1>2, <1>10, <1>14, <1>15, <1>18, <1>24
<1>. QED BY <1>18, <1>20, <1>21, <1>25 DEF Good, IInv, HInv

\* Nothing happens any more when the kernel stopped.
LEMMA StoppedGood ==
  ASSUME IInv, UNCHANGED vars
  PROVE  Good
<1>1. mem' = mem /\ small' = small /\ freeList' = freeList /\ areas' = areas /\ treeNode' = treeNode /\ blocks' = blocks
  BY DEF vars
<1>2. Stable(mem, mem)
  BY DEF Stable
<1>3. Sound(mem')
  BY <1>1 DEF IInv
<1>4. ASSUME mem.kernel = "running"
      PROVE  \E g : HeapOK(mem', small', freeList', areas', treeNode', blocks', g)
  <2>1. PICK sg : HeapOK(mem, small, freeList, areas, treeNode, blocks, sg)
    BY <1>4 DEF IInv, HInv, Running
  <2>2. HeapOK(mem', small', freeList', areas', treeNode', blocks', sg)
    BY <1>1, <2>1
  <2>. QED BY <2>2
<1>. QED BY <1>1, <1>2, <1>3, <1>4 DEF Good, IInv, HInv, Running

\* Every call keeps the invariant, when the areas are spaced.
LEMMA StepGood ==
  ASSUME IInv, Spaced, [Next]_vars
  PROVE  Good
<1>1. ASSUME NEW size \in Requests, MallocSmall(size) PROVE Good
  BY <1>1, MallocSmallGood
<1>2. ASSUME NEW size \in Requests, MallocPage(size) PROVE Good
  BY <1>2, MallocPageGood
<1>3. ASSUME NEW size \in Requests, MallocLarge(size) PROVE Good
  BY <1>3, MallocLargeGood
<1>4. ASSUME NEW block \in blocks, FreeSmall(block) PROVE Good
  BY <1>4, FreeSmallGood
<1>5. ASSUME NEW block \in blocks, FreePageBlock(block) PROVE Good
  BY <1>5, FreePageGood
<1>6. ASSUME NEW block \in blocks, FreeLarge(block) PROVE Good
  BY <1>6, FreeLargeGood
<1>7. CASE Stopped
  BY <1>7, StoppedGood DEF Stopped
<1>8. CASE UNCHANGED vars
  BY <1>8, StoppedGood
<1>. HIDE DEF Good
<1>. QED BY <1>1, <1>2, <1>3, <1>4, <1>5, <1>6, <1>7, <1>8 DEF Next

\* The memory the heap starts with maps no page.
LEMMA EmptySound ==
  Sound(EmptyMemory) /\ (\A p \in Page : Walk(EmptyMemory, p, 0) = -1) /\ EmptyMemory.kernel = "running"
<1>1. PICK m : m = EmptyMemory
  OBVIOUS
<1>2. /\ m = [tables |-> m.tables, taken |-> m.taken, cursor |-> m.cursor, dirty |-> m.dirty, kernel |-> m.kernel]
      /\ DOMAIN m.tables = {Root} /\ m.tables[Root] = EmptyTable
      /\ m.taken = {0, Root} /\ m.cursor = Root /\ m.dirty = {0} /\ m.kernel = "running"
  BY <1>1 DEF EmptyMemory
<1>3. Root \in Frames /\ 0 \in Frames /\ Root # -1
  BY PageTablesAssumption DEF Frames
<1>4. Blank \in Entry /\ Target(Blank) = -1
  BY <1>3 DEF Blank, Entry, Target
<1>5. IsTable(EmptyTable)
  BY <1>4 DEF EmptyTable, IsTable
<1>6. IsMemory(m)
  <2>1. DOMAIN m.tables \subseteq Frames /\ m.taken \subseteq Frames /\ m.cursor \in Frames /\ m.dirty \subseteq Frames
        /\ 0 \in m.dirty /\ m.kernel \in {"running", "halted", "corrupt"}
    BY <1>2, <1>3
  <2>2. \A t \in DOMAIN m.tables : IsTable(m.tables[t])
    BY <1>2, <1>5
  <2>. QED BY <1>2, <2>1, <2>2 DEF IsMemory
<1>7. ASSUME NEW p \in Page
      PROVE  /\ Walk(m, p, Levels) = Root
             /\ \A l \in 0..(Levels - 1) : Walk(m, p, l) = -1
  <2>1. Walk(m, p, Levels) = Root /\ Walk(m, p, Levels - 1) = Behind(m, Walk(m, p, Levels), Offset(p, Levels))
    BY WalkFacts, LevelFacts
  <2>2. Offset(p, Levels) \in Indices
    BY LevelFacts, PrefixFacts
  <2>3. Cell(m, Root, Offset(p, Levels)) = Blank
    BY <1>2, <2>2 DEF Cell, EmptyTable
  <2>4. Walk(m, p, Levels - 1) = -1
    BY <1>3, <1>4, <2>1, <2>3 DEF Behind
  <2>5. Levels - 1 \in 0..Levels
    BY LevelFacts
  <2>6. \A l \in 0..(Levels - 1) : Walk(m, p, l) = -1
    BY <2>4, <2>5, WalkMissing
  <2>. QED BY <2>1, <2>6
<1>8. \A p \in Page : \A l \in 0..Levels : Walk(m, p, l) # -1 => (l = Levels /\ Walk(m, p, l) = Root)
  <2>1. \A l \in 0..Levels : l = Levels \/ l \in 0..(Levels - 1)
    BY LevelFacts
  <2>. QED BY <1>7, <2>1
<1>. HIDE DEF Walk
<1>9. Reached(m)
  BY <1>2, <1>8, LevelFacts DEF Reached
<1>10. Separate(m)
  <2>1. \A p \in Page : Prefix(p, Levels) = 0
    BY PrefixFacts
  <2>. QED BY <1>8, <2>1 DEF Separate
<1>11. Counted(m)
  BY <1>2, <1>8 DEF Counted
<1>12. \A p \in Page : \A l \in Level : Walk(m, p, l - 1) = -1
  <2>1. \A l \in Level : l - 1 \in 0..(Levels - 1)
    BY LevelFacts DEF Level
  <2>. QED BY <1>7, <2>1
<1>13. \A p \in Page : Walk(m, p, 0) = -1
  <2>1. 0 \in 0..(Levels - 1)
    BY LevelFacts
  <2>. QED BY <1>7, <2>1
<1>14. Granted(m) /\ Noted(m)
  BY <1>12, <1>13 DEF Granted, Noted
<1>. QED BY <1>1, <1>2, <1>6, <1>9, <1>10, <1>11, <1>13, <1>14 DEF Sound

\* So does the heap.
LEMMA InitGood ==
  ASSUME Init
  PROVE  IInv
<1>1. PICK m : m = mem
  OBVIOUS
<1>2. PICK fl : fl = freeList
  OBVIOUS
<1>3. PICK e : e = <<>>
  OBVIOUS
<1>4. m = EmptyMemory /\ small = e /\ areas = e /\ treeNode = None /\ blocks = {} /\ fl = [b \in Buckets |-> e]
  BY <1>1, <1>2, <1>3 DEF Init
<1>5. Sound(m)
  BY <1>4, EmptySound
<1>6. DOMAIN e = {} /\ e = [k \in DOMAIN e |-> e[k]] /\ e \in Seq(Node)
  <2>1. e \in Seq(Node) /\ Len(e) = 0 /\ DOMAIN e = 1..0
    BY <1>3
  <2>2. DOMAIN e = {}
    BY <2>1
  <2>3. e = [k \in DOMAIN e |-> e[k]]
    BY <2>1
  <2>. QED BY <2>1, <2>2, <2>3
<1>7. ListOK(e, {})
  BY <1>6 DEF ListOK, NoneEmpty, PagesApart, Holds, Once
<1>8. \A b \in Buckets : LOf(e)[b] = {}
  BY <1>6 DEF LOf, Listable
<1>9. DOMAIN LOf(e) = Buckets /\ DOMAIN fl = Buckets /\ \A b \in Buckets : fl[b] = e
  BY <1>4 DEF LOf
<1>10. Lists(fl, LOf(e))
  BY <1>7, <1>8, <1>9 DEF Lists
<1>11. \A b \in Buckets : \A p : ~IsNode(fl, b, p)
  BY <1>6, <1>9 DEF IsNode
<1>12. ListInv(m, fl, {}, LOf(e))
  BY <1>5, <1>10, <1>11 DEF ListInv, NodesApart, NodesMapped
<1>13. Rest(e, None, {}) = {}
  BY <1>6 DEF Rest, InRuns, Tree
<1>14. SInv(m, e, fl, Rest(e, None, {}))
  BY <1>6, <1>12, <1>13 DEF SInv, SmallOK
<1>15. LargeOK(e, None, {})
  BY <1>6 DEF LargeOK, RunsApart, InRuns, Tree
<1>16. BlocksAre({}, e, e, {})
  BY <1>6 DEF BlocksAre, IsSmallBlock, IsLargeBlock, IsPageBlock
<1>18. Owned(m, e)
  BY <1>4, EmptySound DEF Owned, Mapped
<1>17. HeapOK(m, e, fl, e, None, {}, {})
  BY <1>14, <1>15, <1>16, <1>18 DEF HeapOK
<1>. QED BY <1>1, <1>2, <1>4, <1>5, <1>17 DEF IInv, HInv

\* The tables stay sound and the heap's records stay those of what it handed out
\* (heap.cpp:128-525), for every number of levels, entries, frames and buckets, as
\* long as the walk over the areas (heap.cpp:501) passes over none.
THEOREM HeapSound == Spec /\ []Spaced => []IInv
<1>1. Init => IInv
  BY InitGood
<1>2. IInv /\ Spaced /\ [Next]_vars => IInv'
  BY StepGood DEF Good
<1>. QED BY <1>1, <1>2, PTL DEF Spec

-----------------------------------------------------------------------------
(* The properties *)

\* What the allocator may hand out is behind no page and on the way to none, but for
\* frame 0 (heap.cpp:222, 523), as long as the areas are spaced.
THEOREM HeapFramesUnused == Spec /\ []Spaced => []FreeFramesUnused
<1>1. IInv => FreeFramesUnused
  BY InUseFacts DEF IInv, FreeFramesUnused
<1>. QED BY <1>1, HeapSound, PTL

\* The places of a page in a list of its bucket, and of another page.
LEMMA PlacesIn ==
  ASSUME NEW list, NEW S, ListOK(list, S), NEW p \in Page,
         NEW In, In = {x \in (1..Len(list)) \X (1..NodeSlots) : list[x[1]].slots[x[2]] = p}
  PROVE  Cardinality(In) = IF p \in S THEN 1 ELSE 0
<1>1. list \in Seq(Node) /\ Holds(list, S) /\ Once(list) /\ p # None
  BY PlaceFacts DEF ListOK
<1>2. DOMAIN list = 1..Len(list)
  BY <1>1
<1>3. \A x : x \in In <=> \E n \in DOMAIN list : \E y \in Place : x = <<n, y>> /\ At(list, n, y) = p
  BY <1>2 DEF At, Place
<1>4. CASE p \in S
  <2>1. PICK n \in DOMAIN list : \E y \in Place : At(list, n, y) = p
    BY <1>1, <1>4 DEF Holds
  <2>2. PICK y \in Place : At(list, n, y) = p
    BY <2>1
  <2>3. \A k \in DOMAIN list : \A z \in Place : At(list, k, z) = p => k = n /\ z = y
    BY <1>1, <2>2 DEF Once
  <2>4. PICK q : q = <<n, y>>
    OBVIOUS
  <2>5. In = {q}
    <3>1. q \in In
      BY <1>3, <2>2, <2>4
    <3>2. \A x \in In : x = q
      BY <1>3, <2>3, <2>4
    <3>. QED BY <3>1, <3>2
  <2>. QED BY <1>4, <2>5, FS_Singleton
<1>5. CASE p \notin S
  <2>1. \A n \in DOMAIN list : \A y \in Place : At(list, n, y) # p
    BY <1>1, <1>5 DEF Holds
  <2>2. In = {}
    BY <1>3, <2>1
  <2>. QED BY <1>5, <2>2, FS_EmptySet
<1>. QED BY <1>4, <1>5

\* Each list holds the pages of its bucket that have a free block, once (heap.cpp:418,
\* 452), as long as the areas are spaced.
THEOREM HeapListsExact == Spec /\ []Spaced => []ListsExact
<1>1. ASSUME IInv, mem.kernel = "running", NEW b \in Buckets, NEW page \in DOMAIN small,
             NEW In, In = {x \in (1..Len(freeList[b])) \X (1..NodeSlots) : freeList[b][x[1]].slots[x[2]] = page}
      PROVE  Cardinality(In) = IF small[page].bucket = b /\ small[page].used # Slots(b) THEN 1 ELSE 0
  <2>1. PICK sg : HeapOK(mem, small, freeList, areas, treeNode, blocks, sg)
    BY <1>1 DEF IInv, HInv, Running
  <2>2. PICK X : X = Rest(areas, treeNode, sg)
    OBVIOUS
  <2>3. SmallOK(small) /\ ListInv(mem, freeList, DOMAIN small \cup X, LOf(small))
    BY <2>1, <2>2 DEF HeapOK, SInv
  <2>4. page \in Page
    BY <1>1, <2>3 DEF ListInv, Mapped
  <2>5. PICK list, S : list = freeList[b] /\ S = LOf(small)[b]
    OBVIOUS
  <2>6. ListOK(list, S)
    BY <1>1, <2>3, <2>5 DEF ListInv, Lists
  <2>7. In = {x \in (1..Len(list)) \X (1..NodeSlots) : list[x[1]].slots[x[2]] = page}
    BY <1>1, <2>5
  <2>8. Cardinality(In) = IF page \in S THEN 1 ELSE 0
    BY <2>4, <2>6, <2>7, PlacesIn
  <2>9. page \in S <=> (small[page].bucket = b /\ small[page].used # Slots(b))
    BY <1>1, <2>3, <2>5, ListedPages
  <2>. QED BY <2>8, <2>9
<1>2. IInv => ListsExact
  <2>. SUFFICES ASSUME IInv, Running, NEW b \in Buckets, NEW page \in DOMAIN small
                PROVE  Cardinality({x \in (1..Len(freeList[b])) \X (1..NodeSlots) :
                                      freeList[b][x[1]].slots[x[2]] = page}) =
                         IF small[page].bucket = b /\ small[page].used # Slots(b) THEN 1 ELSE 0
    BY DEF ListsExact
  <2>1. PICK In : In = {x \in (1..Len(freeList[b])) \X (1..NodeSlots) : freeList[b][x[1]].slots[x[2]] = page}
    OBVIOUS
  <2>2. Cardinality(In) = IF small[page].bucket = b /\ small[page].used # Slots(b) THEN 1 ELSE 0
    BY <1>1, <2>1 DEF Running
  <2>. QED BY <2>1, <2>2
<1>. QED BY <1>2, HeapSound, PTL

\* The tables implement AddressSpace: no call moves a page that stays mapped to
\* another frame, or changes its rights (heap.cpp:128-525, paging.cpp:83-125), as long
\* as the areas are spaced; when they are not, malloc maps over pages in use.
THEOREM HeapTranslationsStable == Spec /\ []Spaced => TranslationsStable
<1>. DEFINE tr == [p \in Page |-> Translate(mem, p)]
<1>1. Init => Space!Init
  <2>. SUFFICES ASSUME Init PROVE Space!Init
    OBVIOUS
  <2>1. PICK m : m = EmptyMemory
    OBVIOUS
  <2>2. Sound(m) /\ \A p \in Page : Walk(m, p, 0) = -1
    BY <2>1, EmptySound
  <2>3. \A p \in Page : Translate(m, p) = Unmapped
    BY <2>2, TranslateFacts DEF Mapping
  <2>4. [p \in Page |-> Translate(m, p)] = [p \in Page |-> Unmapped]
    BY <2>3
  <2>5. m = mem
    BY <2>1 DEF Init
  <2>. QED BY <2>4, <2>5 DEF Space!Init
<1>2. IInv /\ Spaced /\ [Next]_vars => Sound(mem) /\ Sound(mem') /\ Stable(mem, mem')
  BY StepGood DEF Good, IInv
<1>3. ASSUME Sound(mem), Sound(mem'), Stable(mem, mem') PROVE Space!Next
  <2>1. PICK m : m = mem
    OBVIOUS
  <2>2. PICK n : n = mem'
    OBVIOUS
  <2>3. PICK f : f = [p \in Page |-> Translate(m, p)]
    OBVIOUS
  <2>4. PICK g : g = [p \in Page |-> Translate(n, p)]
    OBVIOUS
  <2>5. Sound(m) /\ Sound(n) /\ Stable(m, n)
    BY <1>3, <2>1, <2>2
  <2>6. \A p \in Page : f[p] = Mapping(Walk(m, p, 0)) /\ g[p] = Mapping(Walk(n, p, 0))
    BY <2>3, <2>4, <2>5, TranslateFacts
  <2>7. ASSUME NEW p \in Page
        PROVE  \/ f[p] = Unmapped /\ g[p] \in [frame : Frames, write : BOOLEAN, user : BOOLEAN]
               \/ f[p] # Unmapped /\ g[p] = Unmapped
               \/ g[p] = f[p]
    <3>1. PICK a, b : a = Walk(m, p, 0) /\ b = Walk(n, p, 0)
      OBVIOUS
    <3>2. f[p] = Mapping(a) /\ g[p] = Mapping(b) /\ (a = -1 \/ b = -1 \/ b = a)
      BY <2>5, <2>6, <3>1 DEF Stable
    <3>3. Mapping(-1) = Unmapped
      BY DEF Mapping
    <3>4. b # -1 => b \in Frames
      <4>1. 0 \in 0..Levels
        BY LevelFacts
      <4>. QED BY <2>5, <3>1, <4>1, WalkType
    <3>5. \A c \in Frames : c # -1 => Mapping(c) \in [frame : Frames, write : BOOLEAN, user : BOOLEAN]
      BY DEF Mapping
    <3>6. a # -1 => Mapping(a) # Unmapped
      BY DEF Mapping, Unmapped
    <3>. QED BY <3>2, <3>3, <3>4, <3>5, <3>6
  <2>8. f = tr /\ g = tr'
    BY <2>1, <2>2, <2>3, <2>4
  <2>. QED BY <2>7, <2>8 DEF Space!Next, Space!MayMap, Space!MayUnmap
<1>. HIDE DEF IInv
<1>4. IInv /\ Spaced /\ [Next]_vars => [Space!Next]_tr
  BY <1>2, <1>3
<1>. QED BY <1>1, <1>4, HeapSound, PTL DEF Spec, TranslationsStable, Space!Spec

\* The pages n from x[1] on are where block x lies.
LiesIn(x, n) ==
  /\ x[1] \in Nat /\ x[2] \in Nat /\ x[3] \in Nat \ {0} /\ n \in Nat \ {0}
  /\ x[2] + x[3] <= n * PageSize

\* Blocks whose pages are apart do not overlap.
LEMMA RunsOrder ==
  ASSUME NEW x, NEW n, LiesIn(x, n), NEW y, NEW k, LiesIn(y, k),
         RunOf(x[1], n) \cap RunOf(y[1], k) = {}
  PROVE  \/ (x[1] * PageSize) + x[2] + x[3] <= (y[1] * PageSize) + y[2]
         \/ (y[1] * PageSize) + y[2] + y[3] <= (x[1] * PageSize) + x[2]
<1>1. PICK z \in Nat \ {0} : z = PageSize
  BY HeapAssumption
<1>2. PICK p \in Nat, o \in Nat, s \in Nat \ {0} : p = x[1] /\ o = x[2] /\ s = x[3]
  BY DEF LiesIn
<1>3. PICK q \in Nat, u \in Nat, t \in Nat \ {0} : q = y[1] /\ u = y[2] /\ t = y[3]
  BY DEF LiesIn
<1>4. n \in Nat \ {0} /\ k \in Nat \ {0} /\ o + s <= n * z /\ u + t <= k * z
  BY <1>1, <1>2, <1>3 DEF LiesIn
<1>5. p + n <= q \/ q + k <= p
  <2>1. ASSUME p <= q /\ q < p + n PROVE FALSE
    <3>1. q \in RunOf(p, n) /\ q \in RunOf(q, k)
      BY <1>4, <2>1 DEF RunOf
    <3>. QED BY <1>2, <1>3, <3>1
  <2>2. ASSUME q <= p /\ p < q + k PROVE FALSE
    <3>1. p \in RunOf(p, n) /\ p \in RunOf(q, k)
      BY <1>4, <2>2 DEF RunOf
    <3>. QED BY <1>2, <1>3, <3>1
  <2>. QED BY <1>4, <2>1, <2>2
<1>6. CASE p + n <= q
  <2>1. (p + n) * z <= q * z /\ (p + n) * z = (p * z) + (n * z)
    BY <1>1, <1>4, <1>6
  <2>2. (p * z) + o + s <= (q * z) + u
    BY <1>1, <1>4, <2>1
  <2>. QED BY <1>1, <1>2, <1>3, <2>2
<1>7. CASE q + k <= p
  <2>1. (q + k) * z <= p * z /\ (q + k) * z = (q * z) + (k * z)
    BY <1>1, <1>4, <1>7
  <2>2. (q * z) + u + t <= (p * z) + o
    BY <1>1, <1>4, <2>1
  <2>. QED BY <1>1, <1>2, <1>3, <2>2
<1>. QED BY <1>5, <1>6, <1>7

\* A block's last byte is on the last of its pages.
LEMMA PagesFew ==
  ASSUME NEW x, NEW n, LiesIn(x, n)
  PROVE  PagesOf(x) \subseteq RunOf(x[1], n)
<1>1. PICK z \in Nat \ {0} : z = PageSize
  BY HeapAssumption
<1>2. PICK p \in Nat, o \in Nat, s \in Nat \ {0} : p = x[1] /\ o = x[2] /\ s = x[3]
  BY DEF LiesIn
<1>3. n \in Nat \ {0} /\ o + s <= n * z
  BY <1>1, <1>2 DEF LiesIn
<1>4. PICK a : a = o + s - 1
  OBVIOUS
<1>5. a \in Nat /\ a < n * z
  BY <1>1, <1>2, <1>3, <1>4
<1>6. PICK d : d = a \div z
  OBVIOUS
<1>7. PICK r : r = a % z
  OBVIOUS
<1>8. d \in Nat /\ r \in 0..(z - 1) /\ a = (d * z) + r
  BY <1>5, <1>6, <1>7, Division
<1>9. d < n
  <2>1. ASSUME d >= n PROVE FALSE
    <3>1. d * z >= n * z
      BY <1>1, <1>3, <1>8, <2>1
    <3>2. d * z \in Nat /\ n * z \in Nat
      BY <1>1, <1>3, <1>8
    <3>. QED BY <1>5, <1>8, <3>1, <3>2
  <2>. QED BY <1>3, <1>8, <2>1
<1>10. PagesOf(x) = p..(p + d)
  BY <1>1, <1>2, <1>4, <1>6 DEF PagesOf
<1>. QED BY <1>2, <1>3, <1>8, <1>9, <1>10 DEF RunOf

\* A small block ends in front of the bitmap.
LEMMA SlotEnds ==
  ASSUME NEW b \in Buckets, NEW i \in Slots(b)
  PROVE  /\ i \in Nat /\ i * BucketSizes[b] \in Nat
         /\ (i * BucketSizes[b]) + BucketSizes[b] <= PageSize - 1 - ((BucketCounts[b] + 7) \div 8)
         /\ (i * BucketSizes[b]) + BucketSizes[b] <= PageSize
         /\ \A j \in Slots(b) : i < j => (i * BucketSizes[b]) + BucketSizes[b] <= j * BucketSizes[b]
<1>1. PICK z \in Nat \ {0} : z = BucketSizes[b]
  BY BucketFacts
<1>2. PICK c \in Nat \ {0} : c = BucketCounts[b]
  BY BucketFacts
<1>3. PICK w : w = (c + 7) \div 8
  OBVIOUS
<1>4. w \in Nat
  BY <1>2, <1>3
<1>5. PageSize \in Nat /\ (c * z) + w < PageSize
  <2>1. b \in 1..Len(BucketSizes)
    BY HeapAssumption DEF Buckets
  <2>. QED BY <1>1, <1>2, <1>3, <2>1, HeapAssumption
<1>6. i \in Nat /\ i + 1 <= c
  BY <1>2 DEF Slots
<1>7. (i + 1) * z = (i * z) + z /\ (i + 1) * z <= c * z /\ i * z \in Nat /\ c * z \in Nat
  BY <1>1, <1>2, <1>6
<1>8. \A j \in Slots(b) : i < j => (i * z) + z <= j * z
  <2>1. ASSUME NEW j \in Slots(b), i < j PROVE (i * z) + z <= j * z
    <3>1. j \in Nat /\ i + 1 <= j
      BY <1>2, <1>6, <2>1 DEF Slots
    <3>2. (i + 1) * z <= j * z
      BY <1>1, <1>6, <3>1
    <3>. QED BY <1>7, <3>2
  <2>. QED BY <2>1
<1>9. (i * z) + z <= PageSize - 1 - w /\ (i * z) + z <= PageSize
  BY <1>1, <1>4, <1>5, <1>7
<1>. QED BY <1>1, <1>2, <1>3, <1>6, <1>7, <1>8, <1>9

\* Small blocks of one page do not overlap.
LEMMA SlotsOrder ==
  ASSUME NEW sm, SmallOK(sm), NEW p \in DOMAIN sm, p \in Nat, NEW i \in sm[p].used, NEW j \in sm[p].used,
         NEW x, x = BlockIn(sm, p, i), NEW y, y = BlockIn(sm, p, j), x # y
  PROVE  \/ (x[1] * PageSize) + x[2] + x[3] <= (y[1] * PageSize) + y[2]
         \/ (y[1] * PageSize) + y[2] + y[3] <= (x[1] * PageSize) + x[2]
<1>1. PICK b : b = sm[p].bucket
  OBVIOUS
<1>2. b \in Buckets /\ i \in Slots(b) /\ j \in Slots(b)
  BY <1>1 DEF SmallOK, IsSmall
<1>3. PICK s \in Nat \ {0} : s = BucketSizes[b]
  BY <1>2, BucketFacts
<1>4. PICK o, u : o = i * s /\ u = j * s
  OBVIOUS
<1>5. x = <<p, o, s>> /\ y = <<p, u, s>>
  BY <1>1, <1>3, <1>4 DEF BlockIn
<1>6. i # j
  BY <1>4, <1>5
<1>7. o \in Nat /\ u \in Nat /\ i \in Nat /\ j \in Nat
  BY <1>2, <1>3, <1>4, SlotEnds
<1>8. (i < j => o + s <= u) /\ (j < i => u + s <= o)
  BY <1>2, <1>3, <1>4, SlotEnds
<1>9. o + s <= u \/ u + s <= o
  BY <1>6, <1>7, <1>8
<1>10. PICK g \in Nat : g = p * PageSize
  BY HeapAssumption
<1>11. g + o + s <= g + u \/ g + u + s <= g + o
  BY <1>3, <1>7, <1>9, <1>10
<1>. QED BY <1>5, <1>10, <1>11

\* Where the blocks lie: a small one in its page, others in pages of their own.
Small(x, sm) == x[1] \in DOMAIN sm
OwnPages(ar, sg, p, n) == IF p \in DOMAIN ar THEN n = PageCount(ar[p]) ELSE n = 1 /\ p \in sg
LiesAt(m, sm, ar, sg, x, n) ==
  /\ LiesIn(x, n) /\ (\A q \in RunOf(x[1], n) : Mapped(m, q))
  /\ Small(x, sm) => (n = 1 /\ \E i \in sm[x[1]].used : x = BlockIn(sm, x[1], i))
  /\ ~Small(x, sm) => OwnPages(ar, sg, x[1], n)

\* A run of one page.
LEMMA OnePage ==
  ASSUME NEW p \in Nat
  PROVE  RunOf(p, 1) = {p}
BY DEF RunOf

\* A small block lies in its page.
LEMMA SmallLies ==
  ASSUME NEW m, NEW sm, NEW ar, NEW sg, SmallOK(sm), NEW p \in DOMAIN sm, Mapped(m, p), NEW i \in sm[p].used,
         NEW x, x = BlockIn(sm, p, i)
  PROVE  LiesAt(m, sm, ar, sg, x, 1)
<1>1. PICK b : b = sm[p].bucket
  OBVIOUS
<1>2. b \in Buckets /\ i \in Slots(b)
  BY <1>1 DEF SmallOK, IsSmall
<1>3. PICK o, s : o = i * s /\ s = BucketSizes[b]
  OBVIOUS
<1>4. s \in Nat \ {0} /\ o \in Nat /\ o + s <= PageSize
  BY <1>2, <1>3, SlotEnds, BucketFacts
<1>5. x[1] = p /\ x[2] = o /\ x[3] = s
  BY <1>1, <1>3 DEF BlockIn
<1>6. p \in Nat
  BY PlaceFacts DEF Mapped
<1>7. 1 * PageSize = PageSize
  BY HeapAssumption
<1>8. LiesIn(x, 1)
  BY <1>4, <1>5, <1>6, <1>7 DEF LiesIn
<1>9. RunOf(x[1], 1) = {p}
  BY <1>5, <1>6, OnePage
<1>. QED BY <1>5, <1>8, <1>9 DEF LiesAt, Small

\* Every block lies in pages that are mapped.
LEMMA BlockLies ==
  ASSUME NEW m, NEW sm, NEW fl, NEW ar, NEW tn, NEW bl, NEW sg, HeapOK(m, sm, fl, ar, tn, bl, sg),
         NEW x \in bl
  PROVE  \E n : LiesAt(m, sm, ar, sg, x, n)
<1>0. PICK X : X = Rest(ar, tn, sg)
  OBVIOUS
<1>1. SInv(m, sm, fl, X) /\ LargeOK(ar, tn, sg)
  BY <1>0 DEF HeapOK
<1>2. (\A q \in X : Mapped(m, q)) /\ (\A q \in DOMAIN sm : Mapped(m, q)) /\ SmallOK(sm)
  BY <1>1 DEF SInv, ListInv
<1>3. CASE x[1] \in DOMAIN sm
  <2>1. PICK p : p = x[1]
    OBVIOUS
  <2>2. \E i \in sm[p].used : x = BlockIn(sm, p, i)
    BY <1>3, <2>1, BlockKinds
  <2>3. PICK i \in sm[p].used : x = BlockIn(sm, p, i)
    BY <2>2
  <2>4. p \in DOMAIN sm /\ Mapped(m, p)
    BY <1>2, <1>3, <2>1
  <2>5. LiesAt(m, sm, ar, sg, x, 1)
    BY <1>2, <2>3, <2>4, SmallLies
  <2>. QED BY <2>5
<1>4. CASE x[1] \notin DOMAIN sm /\ x[1] \in DOMAIN ar
  <2>1. PICK k : k = x[1]
    OBVIOUS
  <2>2. x = <<k, 0, ar[k]>>
    BY <1>4, <2>1, BlockKinds
  <2>3. PICK c : c = PageCount(ar[k])
    OBVIOUS
  <2>4. k \in Nat /\ c \in Nat \ {0} /\ ar[k] = c * PageSize
    BY <1>1, <1>4, <2>1, <2>3 DEF LargeOK, IsArea
  <2>5. PICK s : s = c * PageSize
    OBVIOUS
  <2>6. s \in Nat \ {0}
    BY <2>4, <2>5, HeapAssumption
  <2>7. LiesIn(x, c)
    <3>1. x[1] = k /\ x[2] = 0 /\ x[3] = s /\ 0 + s <= c * PageSize
      BY <2>2, <2>4, <2>5, <2>6
    <3>. QED BY <2>4, <2>6, <3>1 DEF LiesIn
  <2>8. RunOf(k, c) \subseteq X
    <3>1. RunAt(ar, k) \subseteq InRuns(ar)
      BY <1>4, <2>1 DEF InRuns
    <3>. QED BY <1>0, <2>3, <3>1 DEF Rest, RunAt
  <2>9. LiesAt(m, sm, ar, sg, x, c)
    BY <1>2, <1>4, <2>1, <2>3, <2>7, <2>8 DEF LiesAt, Small, OwnPages
  <2>. QED BY <2>9
<1>5. CASE x[1] \notin DOMAIN sm \cup DOMAIN ar
  <2>1. PICK p : p = x[1]
    OBVIOUS
  <2>2. p \in sg /\ x = <<p, 0, PageSize>>
    BY <1>5, <2>1, BlockKinds
  <2>3. p \in X /\ Mapped(m, p)
    BY <1>0, <1>2, <2>2 DEF Rest
  <2>4. p \in Nat
    BY <2>3, PlaceFacts DEF Mapped
  <2>5. PICK z \in Nat \ {0} : z = PageSize
    BY HeapAssumption
  <2>6. x[1] = p /\ x[2] = 0 /\ x[3] = z /\ 0 + z <= 1 * z
    BY <2>2, <2>5
  <2>7. LiesIn(x, 1)
    BY <2>4, <2>5, <2>6 DEF LiesIn
  <2>8. RunOf(x[1], 1) = {p}
    BY <2>1, <2>4, OnePage
  <2>9. LiesAt(m, sm, ar, sg, x, 1)
    BY <1>5, <2>1, <2>2, <2>3, <2>7, <2>8 DEF LiesAt, Small, OwnPages
  <2>. QED BY <2>9
<1>. QED BY <1>3, <1>4, <1>5

\* The pages of blocks that are not small are apart.
LEMMA OwnApart ==
  ASSUME NEW ar, NEW tn, NEW sg, LargeOK(ar, tn, sg), NEW p \in Nat, NEW n, OwnPages(ar, sg, p, n),
         NEW q \in Nat, NEW k, OwnPages(ar, sg, q, k), p # q
  PROVE  RunOf(p, n) \cap RunOf(q, k) = {}
<1>1. ASSUME NEW j \in DOMAIN ar PROVE RunAt(ar, j) \subseteq InRuns(ar)
  BY DEF InRuns
<1>2. InRuns(ar) \cap sg = {}
  BY DEF LargeOK
<1>3. CASE p \in DOMAIN ar /\ q \in DOMAIN ar
  <2>1. RunAt(ar, p) \cap RunAt(ar, q) = {}
    BY <1>3 DEF LargeOK, RunsApart
  <2>. QED BY <1>3, <2>1 DEF RunAt, OwnPages
<1>4. CASE p \in DOMAIN ar /\ q \notin DOMAIN ar
  <2>1. RunOf(p, n) \subseteq InRuns(ar)
    BY <1>1, <1>4 DEF RunAt, OwnPages
  <2>2. q \in sg /\ RunOf(q, k) = {q}
    BY <1>4, OnePage DEF OwnPages
  <2>. QED BY <1>2, <2>1, <2>2
<1>5. CASE p \notin DOMAIN ar /\ q \in DOMAIN ar
  <2>1. RunOf(q, k) \subseteq InRuns(ar)
    BY <1>1, <1>5 DEF RunAt, OwnPages
  <2>2. p \in sg /\ RunOf(p, n) = {p}
    BY <1>5, OnePage DEF OwnPages
  <2>. QED BY <1>2, <2>1, <2>2
<1>6. CASE p \notin DOMAIN ar /\ q \notin DOMAIN ar
  <2>1. RunOf(p, n) = {p} /\ RunOf(q, k) = {q}
    BY <1>6, OnePage DEF OwnPages
  <2>. QED BY <2>1
<1>. QED BY <1>3, <1>4, <1>5, <1>6

\* They are the large allocator's or the page allocator's.
LEMMA OwnRest ==
  ASSUME NEW ar, NEW tn, NEW sg, NEW p \in Nat, NEW n, OwnPages(ar, sg, p, n)
  PROVE  RunOf(p, n) \subseteq Rest(ar, tn, sg)
<1>1. CASE p \in DOMAIN ar
  <2>1. RunAt(ar, p) \subseteq InRuns(ar)
    BY <1>1 DEF InRuns
  <2>. QED BY <1>1, <2>1 DEF RunAt, OwnPages, Rest
<1>2. CASE p \notin DOMAIN ar
  <2>1. RunOf(p, n) = {p} /\ p \in sg
    BY <1>2, OnePage DEF OwnPages
  <2>. QED BY <2>1 DEF Rest
<1>. QED BY <1>1, <1>2

\* No block overlaps another one.
LEMMA BlocksOrder ==
  ASSUME NEW m, NEW sm, NEW fl, NEW ar, NEW tn, NEW bl, NEW sg, HeapOK(m, sm, fl, ar, tn, bl, sg),
         NEW x \in bl, NEW y \in bl, x # y
  PROVE  \/ (x[1] * PageSize) + x[2] + x[3] <= (y[1] * PageSize) + y[2]
         \/ (y[1] * PageSize) + y[2] + y[3] <= (x[1] * PageSize) + x[2]
<1>1. PICK n : LiesAt(m, sm, ar, sg, x, n)
  BY BlockLies
<1>2. PICK k : LiesAt(m, sm, ar, sg, y, k)
  BY BlockLies
<1>3. PICK p, q : p = x[1] /\ q = y[1]
  OBVIOUS
<1>4. LiesIn(x, n) /\ LiesIn(y, k) /\ p \in Nat /\ q \in Nat
  BY <1>1, <1>2, <1>3 DEF LiesAt, LiesIn
<1>5. PICK X : X = Rest(ar, tn, sg)
  OBVIOUS
<1>6. SmallOK(sm) /\ (DOMAIN sm \cap X = {}) /\ LargeOK(ar, tn, sg)
  BY <1>5 DEF HeapOK, SInv
<1>7. /\ p \in DOMAIN sm => n = 1 /\ \E i \in sm[p].used : x = BlockIn(sm, p, i)
      /\ p \notin DOMAIN sm => OwnPages(ar, sg, p, n)
  BY <1>1, <1>3 DEF LiesAt, Small
<1>8. /\ q \in DOMAIN sm => k = 1 /\ \E i \in sm[q].used : y = BlockIn(sm, q, i)
      /\ q \notin DOMAIN sm => OwnPages(ar, sg, q, k)
  BY <1>2, <1>3 DEF LiesAt, Small
<1>9. CASE p = q /\ p \in DOMAIN sm
  <2>1. PICK i \in sm[p].used : x = BlockIn(sm, p, i)
    BY <1>7, <1>9
  <2>2. PICK j \in sm[p].used : y = BlockIn(sm, p, j)
    BY <1>8, <1>9
  <2>. QED BY <1>4, <1>6, <1>9, <2>1, <2>2, SlotsOrder
<1>10. ASSUME RunOf(p, n) \cap RunOf(q, k) = {}
       PROVE  \/ (x[1] * PageSize) + x[2] + x[3] <= (y[1] * PageSize) + y[2]
              \/ (y[1] * PageSize) + y[2] + y[3] <= (x[1] * PageSize) + x[2]
  BY <1>3, <1>4, <1>10, RunsOrder
<1>11. p \in DOMAIN sm => RunOf(p, n) = {p}
  BY <1>4, <1>7, OnePage
<1>12. q \in DOMAIN sm => RunOf(q, k) = {q}
  BY <1>4, <1>8, OnePage
<1>13. p \notin DOMAIN sm => RunOf(p, n) \subseteq X
  BY <1>4, <1>5, <1>7, OwnRest
<1>14. q \notin DOMAIN sm => RunOf(q, k) \subseteq X
  BY <1>4, <1>5, <1>8, OwnRest
<1>15. CASE p \in DOMAIN sm \/ q \in DOMAIN sm
  <2>1. CASE p = q
    BY <1>9, <1>15, <2>1
  <2>2. CASE p # q
    <3>1. RunOf(p, n) \cap RunOf(q, k) = {}
      BY <1>6, <1>11, <1>12, <1>13, <1>14, <1>15, <2>2
    <3>. QED BY <1>10, <3>1
  <2>. QED BY <2>1, <2>2
<1>16. CASE p \notin DOMAIN sm /\ q \notin DOMAIN sm
  <2>1. p # q
    <3>1. ASSUME p = q PROVE FALSE
      <4>1. x = (IF p \in DOMAIN ar THEN <<p, 0, ar[p]>> ELSE <<p, 0, PageSize>>)
        BY <1>3, <1>16, BlockKinds
      <4>2. y = (IF p \in DOMAIN ar THEN <<p, 0, ar[p]>> ELSE <<p, 0, PageSize>>)
        BY <1>3, <1>16, <3>1, BlockKinds
      <4>. QED BY <4>1, <4>2
    <3>. QED BY <3>1
  <2>2. RunOf(p, n) \cap RunOf(q, k) = {}
    BY <1>4, <1>6, <1>7, <1>8, <1>16, <2>1, OwnApart
  <2>. QED BY <1>10, <2>2
<1>. QED BY <1>15, <1>16

\* The bitmap of a page and the blocks held of it agree.
LEMMA BitmapAgrees ==
  ASSUME NEW m, NEW sm, NEW fl, NEW ar, NEW tn, NEW bl, NEW sg, HeapOK(m, sm, fl, ar, tn, bl, sg),
         NEW page \in DOMAIN sm
  PROVE  sm[page].used = {a[2] \div a[3] : a \in {x \in bl : x[1] = page}}
<1>1. SmallOK(sm) /\ BlocksAre(bl, sm, ar, sg)
  BY DEF HeapOK, SInv
<1>2. PICK b : b = sm[page].bucket
  OBVIOUS
<1>3. b \in Buckets /\ sm[page].used \subseteq Slots(b) /\ Slots(b) \subseteq Nat
  BY <1>1, <1>2, BucketFacts DEF SmallOK, IsSmall
<1>4. PICK s : s = BucketSizes[b]
  OBVIOUS
<1>5. \A i \in sm[page].used : ((i * s) \div s) = i
  BY <1>3, <1>4, SlotBack DEF SlotOf
<1>6. \A i \in sm[page].used : BlockIn(sm, page, i) = <<page, i * s, s>>
  BY <1>2, <1>4 DEF BlockIn
<1>7. \A i \in sm[page].used : BlockIn(sm, page, i) \in bl
  BY <1>1 DEF BlocksAre, IsSmallBlock
<1>8. \A x \in bl : x[1] = page => \E i \in sm[page].used : x = BlockIn(sm, page, i)
  BY BlockKinds
<1>9. ASSUME NEW i \in sm[page].used PROVE i \in {a[2] \div a[3] : a \in {x \in bl : x[1] = page}}
  <2>1. PICK a : a = <<page, i * s, s>>
    OBVIOUS
  <2>2. a \in bl /\ a[1] = page /\ a[2] = i * s /\ a[3] = s
    BY <1>6, <1>7, <2>1
  <2>3. (a[2] \div a[3]) = i
    BY <1>5, <2>2
  <2>. QED BY <2>2, <2>3
<1>10. ASSUME NEW a \in bl, a[1] = page PROVE (a[2] \div a[3]) \in sm[page].used
  <2>1. PICK i \in sm[page].used : a = BlockIn(sm, page, i)
    BY <1>8, <1>10
  <2>2. a[2] = i * s /\ a[3] = s
    BY <1>6, <2>1
  <2>. QED BY <1>5, <2>2
<1>. QED BY <1>9, <1>10

\* What malloc hands out is apart, mapped, and in front of the bitmap (heap.cpp:33), as
\* long as the areas are spaced; when they are not, a large block may overlap another.
THEOREM HeapBlocksApart == Spec /\ []Spaced => []BlocksApart
<1>1. ASSUME IInv, Running PROVE BlocksApart
  <2>1. PICK sg : HeapOK(mem, small, freeList, areas, treeNode, blocks, sg)
    BY <1>1 DEF IInv, HInv
  <2>2. ASSUME NEW a \in blocks, NEW b \in blocks
        PROVE  \/ a = b
               \/ (a[1] * PageSize) + a[2] + a[3] <= (b[1] * PageSize) + b[2]
               \/ (b[1] * PageSize) + b[2] + b[3] <= (a[1] * PageSize) + a[2]
    BY <2>1, BlocksOrder
  <2>3. ASSUME NEW a \in blocks, NEW p \in PagesOf(a) PROVE Translate(mem, p).write
    <3>1. PICK n : LiesAt(mem, small, areas, sg, a, n)
      BY <2>1, BlockLies
    <3>2. p \in RunOf(a[1], n)
      BY <3>1, PagesFew DEF LiesAt
    <3>3. Mapped(mem, p)
      BY <3>1, <3>2 DEF LiesAt
    <3>4. PICK f : f = Walk(mem, p, 0)
      OBVIOUS
    <3>5. Translate(mem, p) = Mapping(f) /\ f # -1
      BY <1>1, <3>3, <3>4, TranslateFacts DEF IInv, Mapped
    <3>. QED BY <3>5 DEF Mapping
  <2>4. \A page \in DOMAIN small : small[page].used = {a[2] \div a[3] : a \in {x \in blocks : x[1] = page}}
    BY <2>1, BitmapAgrees
  <2>5. ASSUME NEW a \in blocks, a[1] \in DOMAIN small
        PROVE  a[2] + a[3] <= PageSize - 1 - ((BucketCounts[small[a[1]].bucket] + 7) \div 8)
    <3>1. PICK p : p = a[1]
      OBVIOUS
    <3>2. \E i \in small[p].used : a = BlockIn(small, p, i)
      BY <2>1, <2>5, <3>1, BlockKinds
    <3>3. PICK i \in small[p].used : a = BlockIn(small, p, i)
      BY <3>2
    <3>4. PICK b : b = small[p].bucket
      OBVIOUS
    <3>5. b \in Buckets /\ i \in Slots(b)
      BY <2>1, <2>5, <3>1, <3>4 DEF HeapOK, SInv, SmallOK, IsSmall
    <3>6. a[2] = i * BucketSizes[b] /\ a[3] = BucketSizes[b]
      BY <3>3, <3>4 DEF BlockIn
    <3>. QED BY <3>1, <3>4, <3>5, <3>6, SlotEnds
  <2>. QED BY <2>2, <2>3, <2>4, <2>5 DEF BlocksApart
<1>2. IInv => BlocksApart
  BY <1>1 DEF BlocksApart
<1>. QED BY <1>2, HeapSound, PTL
=============================================================================
