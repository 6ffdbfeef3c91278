----------------------------- MODULE GameProofs -----------------------------
(***************************************************************************)
(* Proofs about the game of one member, for a board of any size.           *)
(***************************************************************************)
EXTENDS Game2048, FiniteSetTheorems, WellFoundedInduction, TLAPS
-----------------------------------------------------------------------------
(* Recursive functions.                                                    *)

\* A set of numbers that is not empty has a smallest one.
LEMMA SmallestNumber ==
    ASSUME NEW T \in SUBSET Nat, T # {}
    PROVE  \E n \in T : \A k \in T : n <= k
<1> DEFINE Less == {p \in Nat \X Nat : p[1] < p[2]}
<1>1. \E n \in T : \A k \in T : <<k, n>> \notin Less
  <2> HIDE DEF Less
  <2>1. IsWellFoundedOn(Less, Nat)
    BY NatLessThanWellFounded DEF Less, OpToRel
  <2> QED BY <2>1, WFMin
<1>2. PICK n \in T : \A k \in T : <<k, n>> \notin Less
  BY <1>1
<1>3. \A k \in T : n <= k
  <2> TAKE k \in T
  <2>1. <<k, n>> \in Less <=> k < n
    OBVIOUS
  <2> QED BY <2>1, <1>2
<1> QED BY <1>3

\* A set that holds 0, and with every number the next one, holds all up to n.
LEMMA Induction ==
    ASSUME NEW n \in Nat, NEW T, 0 \in T,
           \A i \in 0..n : i \in T /\ i < n => i + 1 \in T
    PROVE  \A i \in 0..n : i \in T
<1> DEFINE Bad == {i \in 0..n : i \notin T}
<1>1. SUFFICES ASSUME Bad # {} PROVE FALSE
  OBVIOUS
<1>2. PICK m \in Bad : \A k \in Bad : m <= k
  <2>1. Bad \in SUBSET Nat
    OBVIOUS
  <2> HIDE DEF Bad
  <2> QED BY <1>1, <2>1, SmallestNumber
<1>3. m # 0 /\ m \in 1..n
  OBVIOUS
<1>4. m - 1 \notin Bad
  BY <1>2, <1>3
<1>5. m - 1 \in T /\ m - 1 \in 0..n /\ m - 1 < n
  BY <1>3, <1>4
<1>6. (m - 1) + 1 \in T
  BY <1>5
<1> QED BY <1>3, <1>6

\* What is computed step by step exists.
IsStep(n, V, step) == \A i \in 1..n : \A v \in V : step[<<i, v>>] \in V
Computes(f, n, base, step) ==
    f[0] = base /\ \A i \in 1..n : f[i] = step[<<i, f[i - 1]>>]

LEMMA StepsExist ==
    ASSUME NEW n \in Nat, NEW V, NEW base \in V, NEW step, IsStep(n, V, step)
    PROVE  \E f : f \in [0..n -> V] /\ Computes(f, n, base, step)
<1> DEFINE T == {m \in 0..n : \E f \in [0..m -> V] : Computes(f, m, base, step)}
<1>1. 0 \in T
  <2> DEFINE f == [i \in 0..0 |-> base]
  <2>1. f \in [0..0 -> V] /\ Computes(f, 0, base, step)
    BY DEF Computes
  <2> HIDE DEF f
  <2> QED BY <2>1
<1>2. ASSUME NEW m \in 0..n, m \in T, m < n PROVE m + 1 \in T
  <2>1. PICK f \in [0..m -> V] : Computes(f, m, base, step)
    BY <1>2
  <2> DEFINE g == [i \in 0..(m + 1) |-> IF i <= m THEN f[i]
                                        ELSE step[<<m + 1, f[m]>>]]
  <2>2. m + 1 \in 1..n /\ f[m] \in V /\ step[<<m + 1, f[m]>>] \in V
    BY <1>2 DEF IsStep
  <2>3. g \in [0..(m + 1) -> V]
    BY <2>2
  <2>4. Computes(g, m + 1, base, step)
    <3>1. g[0] = base
      BY <2>1 DEF Computes
    <3>2. ASSUME NEW i \in 1..(m + 1) PROVE g[i] = step[<<i, g[i - 1]>>]
      <4>1. CASE i <= m
        BY <2>1, <4>1 DEF Computes
      <4>2. CASE i = m + 1
        BY <4>2
      <4> QED BY <4>1, <4>2
    <3> HIDE DEF g
    <3> QED BY <3>1, <3>2 DEF Computes
  <2> HIDE DEF g
  <2> QED BY <1>2, <2>2, <2>3, <2>4
<1>3. n \in T
  <2> HIDE DEF T
  <2>1. \A i \in 0..n : i \in T
    BY <1>1, <1>2, Induction
  <2> QED BY <2>1
<1> QED BY <1>3
-----------------------------------------------------------------------------
(* A row (collapseRow).                                                    *)

Positive == Nat \ {0}

\* What TilesOf has found up to each cell.
UpTo(row) ==
    CHOOSE f : f = [i \in 0..Len(row) |->
                      IF i = 0 THEN <<>>
                      ELSE IF row[i] = 0 THEN f[i - 1] ELSE Append(f[i - 1], row[i])]

LEMMA UpToSteps ==
    ASSUME NEW row \in Seq(Nat)
    PROVE  /\ TilesOf(row) = UpTo(row)[Len(row)]
           /\ UpTo(row)[0] = <<>>
           /\ \A i \in 1..Len(row) :
                UpTo(row)[i] = IF row[i] = 0 THEN UpTo(row)[i - 1]
                               ELSE Append(UpTo(row)[i - 1], row[i])
<1> DEFINE n == Len(row)
           V == Seq(Positive)
           base == <<>>
           step == [p \in (1..n) \X V |-> IF row[p[1]] = 0 THEN p[2]
                                          ELSE Append(p[2], row[p[1]])]
           Eq(f) == f = [i \in 0..n |->
                      IF i = 0 THEN <<>>
                      ELSE IF row[i] = 0 THEN f[i - 1] ELSE Append(f[i - 1], row[i])]
<1>1. n \in Nat /\ base \in V
  OBVIOUS
<1>2. IsStep(n, V, step)
  <2>1. ASSUME NEW i \in 1..n, NEW t \in V
        PROVE  (IF row[i] = 0 THEN t ELSE Append(t, row[i])) \in V
    <3>1. row[i] \in Nat
      OBVIOUS
    <3> QED BY <3>1 DEF Positive
  <2>2. \A i \in 1..n, t \in V :
          step[<<i, t>>] = IF row[i] = 0 THEN t ELSE Append(t, row[i])
    <3> HIDE DEF n, V
    <3> QED OBVIOUS
  <2> HIDE DEF n, V, step
  <2> QED BY <2>1, <2>2 DEF IsStep
<1>3. PICK f : f \in [0..n -> V] /\ Computes(f, n, base, step)
  <2> HIDE DEF n, V, base, step
  <2> QED BY <1>1, <1>2, StepsExist
<1>4. Eq(f)
  <2>1. ASSUME NEW i \in 0..n
        PROVE  f[i] = IF i = 0 THEN <<>>
                      ELSE IF row[i] = 0 THEN f[i - 1] ELSE Append(f[i - 1], row[i])
    <3>1. CASE i = 0
      BY <1>3, <3>1 DEF Computes
    <3>2. CASE i # 0
      <4>1. i \in 1..n /\ f[i - 1] \in V
        <5>1. i \in 1..n /\ i - 1 \in 0..n
          BY <1>1, <3>2
        <5> HIDE DEF V
        <5> QED BY <1>3, <5>1
      <4>2. f[i] = step[<<i, f[i - 1]>>]
        BY <1>3, <4>1 DEF Computes
      <4>3. step[<<i, f[i - 1]>>]
              = IF row[i] = 0 THEN f[i - 1] ELSE Append(f[i - 1], row[i])
        <5> HIDE DEF V
        <5> QED BY <4>1
      <4> QED BY <3>2, <4>2, <4>3
    <3> QED BY <3>1, <3>2
  <2> QED BY <1>3, <2>1
<1>5. Eq(UpTo(row))
  <2>1. UpTo(row) = CHOOSE g : Eq(g)
    BY DEF UpTo
  <2>2. \E g : Eq(g)
    BY <1>4
  <2> HIDE DEF Eq
  <2> QED BY <2>1, <2>2
<1>6. TilesOf(row) = UpTo(row)[n]
  BY DEF TilesOf, UpTo
<1>7. UpTo(row)[0] = <<>>
  BY <1>1, <1>5
<1>8. \A i \in 1..n :
        UpTo(row)[i] = IF row[i] = 0 THEN UpTo(row)[i - 1]
                       ELSE Append(UpTo(row)[i - 1], row[i])
  <2> TAKE i \in 1..n
  <2>1. i \in 0..n /\ i # 0
    BY <1>1
  <2> HIDE DEF n
  <2> QED BY <1>5, <2>1
<1> QED BY <1>6, <1>7, <1>8

\* Facts about the tiles of a row: their number and their order.
LEMMA TilesOfRow ==
    ASSUME NEW row \in Seq(Nat)
    PROVE  /\ TilesOf(row) \in Seq(Positive)
           /\ Len(TilesOf(row)) <= Len(row)
           /\ (\A k \in 1..Len(row) : row[k] # 0) => TilesOf(row) = row
           /\ \A m \in 0..Len(row) :
                (\A k \in 1..Len(row) : row[k] # 0 <=> k <= m)
                  => Len(TilesOf(row)) = m /\ \A k \in 1..m : TilesOf(row)[k] = row[k]
<1>s. \A S : \A t \in Seq(S) : t = [k \in 1..Len(t) |-> t[k]]
  OBVIOUS
<1> DEFINE n == Len(row)
           f == UpTo(row)
           Fine(i) == f[i] \in Seq(Positive) /\ Len(f[i]) <= i
           FirstOnes(i, m) ==
             (\A k \in 1..n : row[k] # 0 <=> k <= m)
               => /\ Len(f[i]) = IF i <= m THEN i ELSE m
                  /\ \A k \in 1..Len(f[i]) : f[i][k] = row[k]
           T == {i \in 0..n : Fine(i) /\ \A m \in 0..n : FirstOnes(i, m)}
<1>1. n \in Nat /\ \A i \in 1..n : row[i] \in Nat
  OBVIOUS
<1>2. /\ TilesOf(row) = f[n] /\ f[0] = <<>>
      /\ \A i \in 1..n : f[i] = IF row[i] = 0 THEN f[i - 1] ELSE Append(f[i - 1], row[i])
  BY UpToSteps
<1> HIDE DEF n, f
<1>3. 0 \in T
  <2>1. Fine(0) /\ Len(f[0]) = 0
    BY <1>2
  <2> QED BY <1>1, <2>1
<1>4. ASSUME NEW i \in 0..n, i \in T, i < n PROVE i + 1 \in T
  <2>1. i + 1 \in 1..n /\ (i + 1) - 1 = i /\ row[i + 1] \in Nat
    BY <1>1, <1>4
  <2>2. f[i + 1] = IF row[i + 1] = 0 THEN f[i] ELSE Append(f[i], row[i + 1])
    BY <1>2, <2>1
  <2>3. Fine(i) /\ \A m \in 0..n : FirstOnes(i, m)
    BY <1>4
  <2>4. CASE row[i + 1] = 0
    <3>1. f[i + 1] = f[i]
      BY <2>2, <2>4
    <3>2. Fine(i + 1)
      BY <2>3, <3>1
    <3>3. ASSUME NEW m \in 0..n PROVE FirstOnes(i + 1, m)
      <4> SUFFICES ASSUME \A k \in 1..n : row[k] # 0 <=> k <= m
                   PROVE  /\ Len(f[i + 1]) = IF i + 1 <= m THEN i + 1 ELSE m
                          /\ \A k \in 1..Len(f[i + 1]) : f[i + 1][k] = row[k]
        OBVIOUS
      <4>1. ~(i + 1 <= m)
        BY <2>1, <2>4
      <4>2. FirstOnes(i, m)
        BY <2>3
      <4> QED BY <1>1, <3>1, <4>1, <4>2
    <3> QED BY <2>1, <3>2, <3>3
  <2>5. CASE row[i + 1] # 0
    <3>1. f[i + 1] = Append(f[i], row[i + 1]) /\ row[i + 1] \in Positive
      BY <2>1, <2>2, <2>5 DEF Positive
    <3>2. /\ f[i + 1] \in Seq(Positive) /\ Len(f[i + 1]) = Len(f[i]) + 1
          /\ f[i + 1][Len(f[i]) + 1] = row[i + 1]
          /\ \A k \in 1..Len(f[i]) : f[i + 1][k] = f[i][k]
      BY <2>3, <3>1
    <3>3. Fine(i + 1)
      BY <2>3, <3>2
    <3>4. ASSUME NEW m \in 0..n PROVE FirstOnes(i + 1, m)
      <4> SUFFICES ASSUME \A k \in 1..n : row[k] # 0 <=> k <= m
                   PROVE  /\ Len(f[i + 1]) = IF i + 1 <= m THEN i + 1 ELSE m
                          /\ \A k \in 1..Len(f[i + 1]) : f[i + 1][k] = row[k]
        OBVIOUS
      <4>1. i + 1 <= m
        BY <2>1, <2>5
      <4>2. Len(f[i]) = i /\ \A k \in 1..Len(f[i]) : f[i][k] = row[k]
        BY <2>3, <4>1
      <4> QED BY <3>2, <4>1, <4>2
    <3> QED BY <2>1, <3>3, <3>4
  <2> QED BY <2>4, <2>5
<1>5. n \in T
  <2> HIDE DEF T
  <2>1. \A i \in 0..n : i \in T
    BY <1>1, <1>3, <1>4, Induction
  <2> QED BY <1>1, <2>1
<1>6. Fine(n) /\ \A m \in 0..n : FirstOnes(n, m)
  BY <1>5
<1>7. ASSUME \A k \in 1..n : row[k] # 0 PROVE TilesOf(row) = row
  <2>1. \A k \in 1..n : row[k] # 0 <=> k <= n
    BY <1>7
  <2>2. Len(f[n]) = n /\ \A k \in 1..n : f[n][k] = row[k]
    <3>1. FirstOnes(n, n)
      BY <1>1, <1>6
    <3>2. Len(f[n]) = n
      BY <1>1, <2>1, <3>1
    <3>3. \A k \in 1..Len(f[n]) : f[n][k] = row[k]
      BY <2>1, <3>1
    <3> QED BY <3>2, <3>3
  <2>3. row = [k \in 1..n |-> row[k]]
    BY <1>s DEF n
  <2>5. f[n] = [k \in 1..Len(f[n]) |-> f[n][k]]
    BY <1>6, <1>s
  <2>4. [k \in 1..n |-> f[n][k]] = [k \in 1..n |-> row[k]]
    BY <2>2
  <2> QED BY <1>2, <2>2, <2>3, <2>4, <2>5, Zenon
<1>8. ASSUME NEW m \in 0..n, \A k \in 1..n : row[k] # 0 <=> k <= m
      PROVE  Len(f[n]) = m /\ \A k \in 1..m : f[n][k] = row[k]
  <2>1. FirstOnes(n, m)
    BY <1>6
  <2>2. Len(f[n]) = m
    BY <1>1, <1>8, <2>1
  <2>3. \A k \in 1..Len(f[n]) : f[n][k] = row[k]
    BY <1>8, <2>1
  <2> QED BY <2>2, <2>3
<1> QED BY <1>2, <1>6, <1>7, <1>8 DEF n

Outcome == [row : Seq(Positive), gained : Nat, made : SUBSET Nat]
Nothing == [row |-> <<>>, gained |-> 0, made |-> {}]

LEMMA TilesAreAdded ==
    ASSUME NEW tile \in Positive, NEW rest \in Outcome
    PROVE  /\ Merge(tile, rest) \in Outcome /\ Keep(tile, rest) \in Outcome
           /\ Len(Merge(tile, rest).row) = Len(rest.row) + 1
           /\ Len(Keep(tile, rest).row) = Len(rest.row) + 1
           /\ Keep(tile, rest).row[1] = tile
           /\ \A k \in 1..Len(rest.row) : Keep(tile, rest).row[k + 1] = rest.row[k]
<1>1. /\ rest.row \in Seq(Positive) /\ rest.gained \in Nat /\ rest.made \in SUBSET Nat
      /\ tile \in Positive /\ 2 * tile \in Positive
  BY DEF Outcome, Positive
<1>2. ASSUME NEW t \in Positive
      PROVE  /\ <<t>> \o rest.row \in Seq(Positive)
             /\ Len(<<t>> \o rest.row) = Len(rest.row) + 1
             /\ (<<t>> \o rest.row)[1] = t
             /\ \A k \in 1..Len(rest.row) : (<<t>> \o rest.row)[k + 1] = rest.row[k]
  <2>1. <<t>> \in Seq(Positive) /\ Len(<<t>>) = 1 /\ <<t>>[1] = t
    OBVIOUS
  <2> HIDE DEF Positive
  <2> QED BY <1>1, <2>1
<1>3. Keep(tile, rest) = [row |-> <<tile>> \o rest.row, gained |-> rest.gained,
                          made |-> rest.made]
  <2>1. \A r : [rest EXCEPT !.row = r]
                 = [row |-> r, gained |-> rest.gained, made |-> rest.made]
    BY DEF Outcome
  <2> DEFINE r == <<tile>> \o rest.row
  <2>2. Keep(tile, rest) = [rest EXCEPT !.row = r]
    BY DEF Keep
  <2> HIDE DEF r
  <2>3. Keep(tile, rest) = [row |-> r, gained |-> rest.gained, made |-> rest.made]
    BY <2>1, <2>2
  <2> QED BY <2>3 DEF r
<1>4. Merge(tile, rest) \in Outcome
  <2>1. 2 * tile + rest.gained \in Nat /\ {2 * tile} \cup rest.made \in SUBSET Nat
    BY <1>1 DEF Positive
  <2>2. <<2 * tile>> \o rest.row \in Seq(Positive)
    BY <1>1, <1>2
  <2> QED BY <2>1, <2>2 DEF Merge, Outcome
<1>5. Keep(tile, rest) \in Outcome
  <2>1. <<tile>> \o rest.row \in Seq(Positive)
    BY <1>1, <1>2
  <2> QED BY <1>1, <1>3, <2>1 DEF Outcome
<1>6. Len(Merge(tile, rest).row) = Len(rest.row) + 1
  <2>1. Merge(tile, rest).row = <<2 * tile>> \o rest.row
    BY DEF Merge
  <2> QED BY <1>1, <1>2, <2>1
<1>7. Keep(tile, rest).row = <<tile>> \o rest.row
  BY <1>3
<1> QED BY <1>1, <1>2, <1>4, <1>5, <1>6, <1>7

\* What CollapseTiles makes of the tiles from each one on.
From(tiles) ==
    CHOOSE f : f = [i \in 1..(Len(tiles) + 2) |->
                      IF i > Len(tiles) THEN Nothing
                      ELSE IF i < Len(tiles) /\ tiles[i] = tiles[i + 1]
                           THEN Merge(tiles[i], f[i + 2])
                           ELSE Keep(tiles[i], f[i + 1])]

LEMMA FromSteps ==
    ASSUME NEW tiles \in Seq(Positive)
    PROVE  /\ CollapseTiles(tiles) = From(tiles)[1]
           /\ \A i \in (Len(tiles) + 1)..(Len(tiles) + 2) : From(tiles)[i] = Nothing
           /\ \A i \in 1..Len(tiles) :
                From(tiles)[i] = IF i < Len(tiles) /\ tiles[i] = tiles[i + 1]
                                 THEN Merge(tiles[i], From(tiles)[i + 2])
                                 ELSE Keep(tiles[i], From(tiles)[i + 1])
<1> DEFINE n == Len(tiles)
           V == Outcome \X Outcome
           base == <<Nothing, Nothing>>
           Here(i, next, afterNext) ==
             IF i < n /\ tiles[i] = tiles[i + 1]
             THEN Merge(tiles[i], afterNext) ELSE Keep(tiles[i], next)
           step == [p \in (1..n) \X V |->
                      <<Here(n + 1 - p[1], p[2][1], p[2][2]), p[2][1]>>]
           Eq(f) == f = [i \in 1..(n + 2) |->
                           IF i > n THEN Nothing
                           ELSE IF i < n /\ tiles[i] = tiles[i + 1]
                                THEN Merge(tiles[i], f[i + 2])
                                ELSE Keep(tiles[i], f[i + 1])]
<1>1. n \in Nat /\ Nothing \in Outcome /\ base \in V
  <2>1. <<>> \in Seq(Positive) /\ 0 \in Nat /\ {} \in SUBSET Nat /\ n \in Nat
    OBVIOUS
  <2>2. Nothing \in Outcome
    BY <2>1 DEF Outcome, Nothing
  <2> HIDE DEF n
  <2> QED BY <2>1, <2>2
<1>2. ASSUME NEW i \in 1..n, NEW a \in Outcome, NEW b \in Outcome
      PROVE  Here(i, a, b) \in Outcome
  <2>1. tiles[i] \in Positive
    OBVIOUS
  <2> QED BY <2>1, TilesAreAdded
<1>3. \A k \in 1..n, v \in V :
        step[<<k, v>>] = <<Here(n + 1 - k, v[1], v[2]), v[1]>>
  <2> HIDE DEF n, V, Here
  <2> QED OBVIOUS
<1>4. IsStep(n, V, step)
  <2> SUFFICES ASSUME NEW k \in 1..n, NEW v \in V PROVE step[<<k, v>>] \in V
    BY DEF IsStep
  <2>1. v[1] \in Outcome /\ v[2] \in Outcome /\ n + 1 - k \in 1..n
    BY <1>1
  <2>2. Here(n + 1 - k, v[1], v[2]) \in Outcome
    <3> HIDE DEF Here
    <3> QED BY <1>2, <2>1
  <2>3. step[<<k, v>>] = <<Here(n + 1 - k, v[1], v[2]), v[1]>>
    <3> HIDE DEF Here, step, V, n
    <3> QED BY <1>3
  <2> HIDE DEF Here, step, n
  <2> QED BY <2>1, <2>2, <2>3
<1>5. PICK g : g \in [0..n -> V] /\ Computes(g, n, base, step)
  <2> HIDE DEF n, V, base, step
  <2> QED BY <1>1, <1>4, StepsExist
<1> DEFINE f == [i \in 1..(n + 2) |-> IF i = n + 2 THEN Nothing ELSE g[n + 1 - i][1]]
<1>6. g[0] = base /\ \A k \in 1..n : g[k] = <<Here(n + 1 - k, g[k - 1][1], g[k - 1][2]), g[k - 1][1]>>
  <2>1. g[0] = base /\ \A k \in 1..n : g[k] = step[<<k, g[k - 1]>>]
    BY <1>5 DEF Computes
  <2>2. \A k \in 1..n : g[k - 1] \in V
    <3> HIDE DEF n, V
    <3> QED BY <1>1, <1>5
  <2> HIDE DEF n, V, Here, step, base
  <2> QED BY <1>3, <2>1, <2>2
<1>7. Eq(f)
  <2>1. ASSUME NEW i \in 1..(n + 2)
        PROVE  f[i] = IF i > n THEN Nothing ELSE Here(i, f[i + 1], f[i + 2])
    <3>1. CASE i = n + 2
      BY <1>1, <3>1
    <3>2. CASE i = n + 1
      <4>1. n + 1 - i = 0
        BY <1>1, <3>2
      <4>2. f[i] = g[0][1]
        BY <1>1, <3>2, <4>1
      <4>3. g[0][1] = Nothing
        BY <1>6
      <4> QED BY <1>1, <3>2, <4>2, <4>3
    <3>3. CASE i <= n
      <4> DEFINE k == n + 1 - i
      <4>1. k \in 1..n /\ n + 1 - k = i /\ i \in 1..n
        BY <1>1, <3>3
      <4>2. f[i] = g[k][1] /\ f[i + 1] = g[k - 1][1]
        <5>1. n + 1 - (i + 1) = k - 1
          BY <1>1
        <5> QED BY <1>1, <3>3, <5>1
      <4>3. f[i + 2] = g[k - 1][2]
        <5>1. CASE i = n
          <6>1. k - 1 = 0 /\ i + 2 = n + 2
            BY <1>1, <5>1
          <6>2. g[k - 1][2] = Nothing
            <7>1. g[0][2] = Nothing
              BY <1>6
            <7> QED BY <6>1, <7>1
          <6>3. f[n + 2] = Nothing
            BY <1>1
          <6> QED BY <6>1, <6>2, <6>3, Zenon
        <5>2. CASE i < n
          <6>1. k - 1 \in 1..n /\ n + 1 - (i + 2) = (k - 1) - 1
            BY <1>1, <4>1, <5>2
          <6>2. g[k - 1][2] = g[(k - 1) - 1][1]
            <7> HIDE DEF Here, n, k
            <7> QED BY <1>6, <6>1
          <6>3. f[i + 2] = g[(k - 1) - 1][1]
            <7> HIDE DEF k
            <7> QED BY <1>1, <5>2, <6>1
          <6> QED BY <6>2, <6>3
        <5> QED BY <1>1, <3>3, <5>1, <5>2
      <4>4. g[k][1] = Here(i, g[k - 1][1], g[k - 1][2])
        <5> HIDE DEF Here, n, k
        <5> QED BY <1>6, <4>1
      <4> HIDE DEF f, Here
      <4> QED BY <1>1, <3>3, <4>2, <4>3, <4>4
    <3> HIDE DEF f, Here
    <3> QED BY <1>1, <3>1, <3>2, <3>3
  <2>2. f = [i \in 1..(n + 2) |-> f[i]]
    OBVIOUS
  <2> HIDE DEF f, n
  <2> QED BY <2>1, <2>2
<1>8. Eq(From(tiles))
  <2>1. From(tiles) = CHOOSE h : Eq(h)
    BY DEF From
  <2>2. \E h : Eq(h)
    BY <1>7
  <2> HIDE DEF Eq
  <2> QED BY <2>1, <2>2
<1>9. CollapseTiles(tiles) = From(tiles)[1]
  BY DEF CollapseTiles, From, Nothing
<1>10. \A i \in 1..(n + 2) :
         From(tiles)[i] = IF i > n THEN Nothing
                          ELSE IF i < n /\ tiles[i] = tiles[i + 1]
                               THEN Merge(tiles[i], From(tiles)[i + 2])
                               ELSE Keep(tiles[i], From(tiles)[i + 1])
  <2> HIDE DEF n
  <2> QED BY <1>8
<1> QED BY <1>1, <1>9, <1>10

\* Facts about the outcome: it is one, it has no more tiles than there were, it
\* is what there was if no two neighbours are equal, and shorter if two are.
LEMMA CollapseOfTiles ==
    ASSUME NEW tiles \in Seq(Positive)
    PROVE  /\ CollapseTiles(tiles) \in Outcome
           /\ Len(CollapseTiles(tiles).row) <= Len(tiles)
           /\ (\A k \in 1..(Len(tiles) - 1) : tiles[k] # tiles[k + 1])
                => CollapseTiles(tiles).row = tiles
           /\ (\E k \in 1..(Len(tiles) - 1) : tiles[k] = tiles[k + 1])
                => Len(CollapseTiles(tiles).row) < Len(tiles)
<1>0. \A S : \A t \in Seq(S) : t = [k \in 1..Len(t) |-> t[k]]
  OBVIOUS
<1> DEFINE n == Len(tiles)
           f == From(tiles)
           Fine(i) == /\ f[i] \in Outcome
                      /\ i <= n + 1 => Len(f[i].row) <= n + 1 - i
           AllDiffer(i) == \A k \in 1..(n - 1) : k >= i => tiles[k] # tiles[k + 1]
           Same(i) == /\ Len(f[i].row) = n + 1 - i
                      /\ \A k \in 1..(n + 1 - i) : f[i].row[k] = tiles[i - 1 + k]
           Good(i) == /\ Fine(i)
                      /\ i <= n + 1 /\ AllDiffer(i) => Same(i)
                      /\ i <= n + 1 /\ ~AllDiffer(i) => Len(f[i].row) < n + 1 - i
           T == {k \in 0..n : Good(n + 1 - k) /\ Fine(n + 2 - k)}
<1>1. n \in Nat /\ \A i \in 1..n : tiles[i] \in Positive
  OBVIOUS
<1>2. /\ CollapseTiles(tiles) = f[1]
      /\ f[n + 1] = Nothing /\ f[n + 2] = Nothing
      /\ \A i \in 1..n : f[i] = IF i < n /\ tiles[i] = tiles[i + 1]
                                THEN Merge(tiles[i], f[i + 2]) ELSE Keep(tiles[i], f[i + 1])
  <2>1. n + 1 \in (n + 1)..(n + 2) /\ n + 2 \in (n + 1)..(n + 2)
    BY <1>1
  <2> QED BY <2>1, FromSteps
<1>3. Nothing \in Outcome /\ Len(Nothing.row) = 0
  <2>1. <<>> \in Seq(Positive) /\ Len(<<>>) = 0 /\ 0 \in Nat /\ {} \in SUBSET Nat
    OBVIOUS
  <2> QED BY <2>1 DEF Nothing, Outcome
<1> HIDE DEF n, f
<1>4. 0 \in T
  <2>1. Fine(n + 1) /\ Fine(n + 2)
    BY <1>1, <1>2, <1>3
  <2>2. AllDiffer(n + 1)
    BY <1>1
  <2>3. Same(n + 1)
    BY <1>1, <1>2, <1>3
  <2>4. Good(n + 1)
    <3> HIDE DEF Fine, AllDiffer, Same
    <3> QED BY <2>1, <2>2, <2>3
  <2>5. n + 1 - 0 = n + 1 /\ n + 2 - 0 = n + 2
    BY <1>1
  <2> HIDE DEF Good, Fine
  <2> QED BY <1>1, <2>1, <2>4, <2>5
<1>5. ASSUME NEW m \in 0..n, m \in T, m < n PROVE m + 1 \in T
  <2> DEFINE i == n + 1 - (m + 1)
  <2>1. /\ i \in 1..n /\ n + 2 - (m + 1) = i + 1
        /\ n + 1 - m = i + 1 /\ n + 2 - m = i + 2
    BY <1>1, <1>5
  <2>2. Good(i + 1) /\ Fine(i + 2)
    <3> HIDE DEF i, Good, Fine
    <3> QED BY <1>5, <2>1
  <2> HIDE DEF i
  <2>3. Fine(i + 1) /\ tiles[i] \in Positive
    BY <1>1, <2>1, <2>2
  <2>4. CASE i < n /\ tiles[i] = tiles[i + 1]
    <3>1. f[i] = Merge(tiles[i], f[i + 2])
      BY <1>2, <2>1, <2>4
    <3>2. f[i] \in Outcome /\ Len(f[i].row) = Len(f[i + 2].row) + 1
      BY <2>2, <2>3, <3>1, TilesAreAdded
    <3>3. Len(f[i + 2].row) <= n + 1 - (i + 2)
      BY <1>1, <2>1, <2>2, <2>4
    <3>4. f[i + 2].row \in Seq(Positive)
      BY <2>2 DEF Outcome
    <3>5. Len(f[i + 2].row) \in Nat
      BY <3>4
    <3>6. Len(f[i].row) < n + 1 - i
      BY <1>1, <2>1, <3>2, <3>3, <3>5
    <3>7. ~AllDiffer(i)
      BY <1>1, <2>1, <2>4
    <3>8. Fine(i)
      BY <1>1, <2>1, <3>2, <3>5, <3>6
    <3>9. Good(i)
      <4> HIDE DEF Fine, AllDiffer, Same
      <4> QED BY <3>6, <3>7, <3>8
    <3> HIDE DEF Good, Fine
    <3> QED BY <1>1, <1>5, <2>1, <2>3, <3>9 DEF i
  <2>5. CASE ~(i < n /\ tiles[i] = tiles[i + 1])
    <3>1. f[i] = Keep(tiles[i], f[i + 1])
      BY <1>2, <2>1, <2>5
    <3>2. /\ f[i] \in Outcome /\ Len(f[i].row) = Len(f[i + 1].row) + 1
          /\ f[i].row[1] = tiles[i]
          /\ \A k \in 1..Len(f[i + 1].row) : f[i].row[k + 1] = f[i + 1].row[k]
      BY <2>3, <3>1, TilesAreAdded
    <3>3. Len(f[i + 1].row) <= n + 1 - (i + 1)
      BY <1>1, <2>1, <2>3
    <3>4. f[i + 1].row \in Seq(Positive)
      BY <2>3 DEF Outcome
    <3>5. Len(f[i + 1].row) \in Nat
      BY <3>4
    <3>6. Fine(i)
      BY <1>1, <2>1, <3>2, <3>3, <3>5
    <3>7. AllDiffer(i) <=> AllDiffer(i + 1)
      <4>1. \A k \in 1..(n - 1) : k >= i /\ tiles[k] = tiles[k + 1] => k >= i + 1
        BY <1>1, <2>1, <2>5
      <4> QED BY <1>1, <2>1, <4>1
    <3>8. ASSUME AllDiffer(i) PROVE Same(i)
      <4>1. Same(i + 1)
        <5> HIDE DEF Same, AllDiffer, Fine
        <5> QED BY <1>1, <2>1, <2>2, <3>7, <3>8
      <4>2. Len(f[i].row) = n + 1 - i
        BY <1>1, <2>1, <3>2, <4>1
      <4>3. ASSUME NEW k \in 1..(n + 1 - i) PROVE f[i].row[k] = tiles[i - 1 + k]
        <5>1. CASE k = 1
          <6>1. i - 1 + 1 = i
            BY <1>1, <2>1
          <6> QED BY <3>2, <5>1, <6>1
        <5>2. CASE k # 1
          <6>1. k - 1 \in 1..(n + 1 - (i + 1)) /\ (k - 1) + 1 = k
                /\ (i + 1) - 1 + (k - 1) = i - 1 + k
            BY <1>1, <2>1, <5>2
          <6>2. f[i + 1].row[k - 1] = tiles[(i + 1) - 1 + (k - 1)]
            BY <4>1, <6>1
          <6>3. Len(f[i + 1].row) = n + 1 - (i + 1)
            BY <4>1
          <6>4. f[i].row[(k - 1) + 1] = f[i + 1].row[k - 1]
            BY <3>2, <6>1, <6>3
          <6> QED BY <6>1, <6>2, <6>4
        <5> QED BY <5>1, <5>2
      <4> QED BY <4>2, <4>3
    <3>9. ASSUME ~AllDiffer(i) PROVE Len(f[i].row) < n + 1 - i
      <4>1. Len(f[i + 1].row) < n + 1 - (i + 1)
        <5> HIDE DEF Same, AllDiffer, Fine
        <5> QED BY <1>1, <2>1, <2>2, <3>7, <3>9
      <4> QED BY <1>1, <2>1, <3>2, <3>5, <4>1
    <3>10. Good(i)
      <4> HIDE DEF Fine, AllDiffer, Same
      <4> QED BY <3>6, <3>8, <3>9
    <3> HIDE DEF Good, Fine
    <3> QED BY <1>1, <1>5, <2>1, <2>3, <3>10 DEF i
  <2> QED BY <2>4, <2>5
<1>6. Good(1)
  <2> HIDE DEF T
  <2>1. \A m \in 0..n : m \in T
    BY <1>1, <1>4, <1>5, Induction
  <2>2. n \in T /\ n + 1 - n = 1
    BY <1>1, <2>1
  <2> HIDE DEF Good, Fine
  <2> QED BY <2>2 DEF T
<1>7. f[1] \in Outcome /\ Len(f[1].row) <= n
  BY <1>1, <1>6
<1>8. ASSUME \A k \in 1..(n - 1) : tiles[k] # tiles[k + 1]
      PROVE  f[1].row = tiles
  <2>1. Same(1)
    BY <1>1, <1>6, <1>8
  <2>2. Len(f[1].row) = n /\ \A k \in 1..n : f[1].row[k] = tiles[k]
    BY <1>1, <2>1
  <2>3. f[1].row \in Seq(Positive)
    BY <1>7 DEF Outcome
  <2>4. tiles = [k \in 1..n |-> tiles[k]]
    BY <1>0 DEF n
  <2>5. f[1].row = [k \in 1..Len(f[1].row) |-> f[1].row[k]]
    BY <1>0, <2>3
  <2>6. [k \in 1..n |-> f[1].row[k]] = [k \in 1..n |-> tiles[k]]
    BY <2>2
  <2> QED BY <2>2, <2>4, <2>5, <2>6, Zenon
<1>9. ASSUME NEW k \in 1..(n - 1), tiles[k] = tiles[k + 1]
      PROVE  Len(f[1].row) < n
  <2>1. ~AllDiffer(1)
    BY <1>1, <1>9
  <2>2. Len(f[1].row) < n + 1 - 1
    <3> HIDE DEF AllDiffer, Same, Fine
    <3> QED BY <1>1, <1>6, <2>1
  <2> QED BY <1>1, <2>2
<1> QED BY <1>2, <1>7, <1>8, <1>9 DEF n
-----------------------------------------------------------------------------
(* A row collapses by its runs.                                            *)

LEMMA AddedParts ==
    ASSUME NEW tile \in Positive, NEW rest \in Outcome
    PROVE  /\ Merge(tile, rest).row[1] = 2 * tile
           /\ \A k \in 1..Len(rest.row) : Merge(tile, rest).row[k + 1] = rest.row[k]
           /\ Merge(tile, rest).gained = 2 * tile + rest.gained
           /\ Merge(tile, rest).made = {2 * tile} \cup rest.made
           /\ Keep(tile, rest).gained = rest.gained
           /\ Keep(tile, rest).made = rest.made
<1>1. rest.row \in Seq(Positive) /\ 2 * tile \in Positive
  BY DEF Outcome, Positive
<1> DEFINE t == 2 * tile
<1>2. /\ (<<t>> \o rest.row)[1] = t
      /\ \A k \in 1..Len(rest.row) : (<<t>> \o rest.row)[k + 1] = rest.row[k]
  <2>1. t \in Positive /\ <<t>> \in Seq(Positive) /\ Len(<<t>>) = 1 /\ <<t>>[1] = t
    BY <1>1
  <2> HIDE DEF t, Positive
  <2> QED BY <1>1, <2>1
<1>3. Merge(tile, rest).row = <<t>> \o rest.row
  BY DEF Merge
<1>4. \A r : [rest EXCEPT !.row = r]
               = [row |-> r, gained |-> rest.gained, made |-> rest.made]
  BY DEF Outcome
<1>5. Keep(tile, rest).gained = rest.gained /\ Keep(tile, rest).made = rest.made
  <2> DEFINE r == <<tile>> \o rest.row
  <2>1. Keep(tile, rest) = [rest EXCEPT !.row = r]
    BY DEF Keep
  <2> HIDE DEF r
  <2>2. Keep(tile, rest) = [row |-> r, gained |-> rest.gained, made |-> rest.made]
    BY <1>4, <2>1
  <2> QED BY <2>2
<1>6. /\ Merge(tile, rest).gained = 2 * tile + rest.gained
      /\ Merge(tile, rest).made = {2 * tile} \cup rest.made
  BY DEF Merge
<1> QED BY <1>2, <1>3, <1>5, <1>6

\* A tile that is not absorbed absorbs the next one if that is equal; the one
\* after the pair is not absorbed, and neither is the first tile.
LEMMA AbsorbedByTurns ==
    ASSUME NEW tiles \in Seq(Positive)
    PROVE  /\ Absorbed(tiles) \subseteq 2..Len(tiles)
           /\ \A i \in 1..Len(tiles) : i \notin Absorbed(tiles) =>
                IF i < Len(tiles) /\ tiles[i] = tiles[i + 1]
                THEN i + 1 \in Absorbed(tiles) /\ i + 2 \notin Absorbed(tiles)
                ELSE i + 1 \notin Absorbed(tiles)
<1> DEFINE n == Len(tiles)
<1>1. n \in Nat
  OBVIOUS
<1>2. \A d \in Nat : /\ d % 2 = 0 \/ d % 2 = 1
                     /\ (d + 1) % 2 = 1 <=> d % 2 = 0
                     /\ (d + 2) % 2 = d % 2
  OBVIOUS
<1>3. 0 % 2 = 0
  OBVIOUS
<1>4. ASSUME NEW i \in Absorbed(tiles)
      PROVE  i \in 1..n /\ \E k \in 1..(i - 1) : (i - k) % 2 = 1 /\ RunStart(tiles, k, i)
  <2>1. i \in 1..n
    BY DEF Absorbed
  <2>2. PICK k \in 1..i : (i - k) % 2 = 1 /\ RunStart(tiles, k, i)
    BY DEF Absorbed
  <2>3. k # i
    BY <1>3, <2>1, <2>2
  <2>4. k \in 1..(i - 1)
    BY <2>1, <2>3
  <2> QED BY <2>1, <2>2, <2>4
<1>5. ASSUME NEW i \in 1..n, NEW k \in 1..i, (i - k) % 2 = 1, RunStart(tiles, k, i)
      PROVE  i \in Absorbed(tiles)
  BY <1>5 DEF Absorbed
<1>6. ASSUME NEW i \in 1..n PROVE \E k \in 1..i : RunStart(tiles, k, i)
  <2> DEFINE K == {k \in 1..i : \A m \in k..i : tiles[m] = tiles[i]}
  <2>1. i \in K /\ K \in SUBSET Nat
    BY <1>1
  <2>2. PICK k \in K : \A l \in K : k <= l
    <3> HIDE DEF K
    <3> QED BY <2>1, SmallestNumber
  <2>3. ASSUME k # 1 PROVE tiles[k - 1] # tiles[i]
    <3> SUFFICES ASSUME tiles[k - 1] = tiles[i] PROVE FALSE
      OBVIOUS
    <3>1. k - 1 \in 1..i /\ k - 1 < k /\ k \in 1..i
      BY <1>1, <2>3
    <3>2. \A m \in (k - 1)..i : m = k - 1 \/ m \in k..i
      BY <1>1
    <3>3. k - 1 \in K
      BY <3>1, <3>2
    <3> QED BY <2>2, <3>1, <3>3
  <2> QED BY <2>3 DEF RunStart
<1> HIDE DEF n
<1>7. Absorbed(tiles) \subseteq 2..n
  <2> SUFFICES ASSUME NEW i \in Absorbed(tiles) PROVE i \in 2..n
    OBVIOUS
  <2>1. i \in 1..n /\ \E k \in 1..(i - 1) : TRUE
    BY <1>4
  <2> QED BY <1>1, <2>1
<1>8. ASSUME NEW i \in 1..n, i \notin Absorbed(tiles), i < n, tiles[i] = tiles[i + 1]
      PROVE  i + 1 \in Absorbed(tiles) /\ i + 2 \notin Absorbed(tiles)
  <2>1. i + 1 \in Absorbed(tiles)
    <3>1. PICK k \in 1..i : RunStart(tiles, k, i)
      BY <1>6
    <3>2. i - k \in Nat /\ (i + 1) - k = (i - k) + 1
      BY <1>1
    <3>3. (i - k) % 2 = 0
      <4>1. (i - k) % 2 # 1
        BY <1>5, <1>8, <3>1
      <4> QED BY <1>2, <3>2, <4>1
    <3>4. ((i + 1) - k) % 2 = 1
      BY <1>2, <3>2, <3>3
    <3>5. RunStart(tiles, k, i + 1)
      <4>1. \A m \in k..(i + 1) : m = i + 1 \/ m \in k..i
        BY <1>1
      <4> QED BY <1>8, <3>1, <4>1 DEF RunStart
    <3>6. i + 1 \in 1..n /\ k \in 1..(i + 1)
      BY <1>1, <1>8
    <3> QED BY <1>5, <3>4, <3>5, <3>6
  <2>2. i + 2 \notin Absorbed(tiles)
    <3> SUFFICES ASSUME i + 2 \in Absorbed(tiles) PROVE FALSE
      OBVIOUS
    <3>1. PICK k \in 1..((i + 2) - 1) :
            ((i + 2) - k) % 2 = 1 /\ RunStart(tiles, k, i + 2)
      BY <1>4
    <3>2. \A m \in k..(i + 2) : tiles[m] = tiles[i + 2]
      BY <3>1 DEF RunStart
    <3>3. k \in Nat /\ 1 <= k /\ k <= i + 1 /\ i + 1 \in k..(i + 2) /\ i + 2 \in k..(i + 2)
      BY <1>1
    <3>4. k # i + 1
      <4> SUFFICES ASSUME k = i + 1 PROVE FALSE
        OBVIOUS
      <4>1. (i + 1) - 1 = i /\ i + 1 # 1
        BY <1>1
      <4>2. tiles[i] # tiles[i + 2]
        BY <3>1, <4>1 DEF RunStart
      <4> QED BY <1>8, <3>2, <3>3, <4>2
    <3>5. k \in 1..i /\ i - k \in Nat /\ (i + 2) - k = (i - k) + 2
      BY <1>1, <3>3, <3>4
    <3>6. (i - k) % 2 = 1
      BY <1>2, <3>1, <3>5
    <3>7. RunStart(tiles, k, i)
      <4>1. \A m \in k..i : m \in k..(i + 2)
        BY <1>1, <3>5
      <4>2. i \in k..i
        BY <1>1, <3>5
      <4> QED BY <3>1, <3>2, <4>1, <4>2 DEF RunStart
    <3> QED BY <1>5, <1>8, <3>5, <3>6, <3>7
  <2> QED BY <2>1, <2>2
<1>9. ASSUME NEW i \in 1..n, ~(i < n /\ tiles[i] = tiles[i + 1])
      PROVE  i + 1 \notin Absorbed(tiles)
  <2> SUFFICES ASSUME i + 1 \in Absorbed(tiles) PROVE FALSE
    OBVIOUS
  <2>1. i + 1 \in 1..n
    BY <1>4
  <2>2. PICK k \in 1..((i + 1) - 1) : RunStart(tiles, k, i + 1)
    BY <1>4
  <2>3. i \in k..(i + 1) /\ i < n
    BY <1>1, <2>1
  <2>4. tiles[i] = tiles[i + 1]
    BY <2>2, <2>3 DEF RunStart
  <2> QED BY <1>9, <2>3, <2>4
<1> QED BY <1>7, <1>8, <1>9 DEF n

\* A number below all others of a set takes the first place.
LEMMA PlacesMoveUp ==
    ASSUME NEW R \in SUBSET Nat, IsFiniteSet(R), NEW i \in Nat, \A s \in R : i < s
    PROVE  /\ IsFiniteSet(R \cup {i}) /\ Cardinality(R \cup {i}) = Cardinality(R) + 1
           /\ Cardinality({s \in R \cup {i} : s <= i}) = 1
           /\ \A k \in R :
                /\ Cardinality({s \in R : s <= k}) \in 1..Cardinality(R)
                /\ Cardinality({s \in R \cup {i} : s <= k})
                     = Cardinality({s \in R : s <= k}) + 1
<1>1. i \notin R
  OBVIOUS
<1>2. IsFiniteSet(R \cup {i}) /\ Cardinality(R \cup {i}) = Cardinality(R) + 1
  BY <1>1, FS_AddElement
<1>3. Cardinality({s \in R \cup {i} : s <= i}) = 1
  <2>1. \A s \in R \cup {i} : s <= i <=> s = i
    OBVIOUS
  <2>2. {s \in R \cup {i} : s <= i} = {i}
    BY <2>1
  <2> QED BY <2>2, FS_Singleton
<1>4. ASSUME NEW k \in R
      PROVE  /\ Cardinality({s \in R : s <= k}) \in 1..Cardinality(R)
             /\ Cardinality({s \in R \cup {i} : s <= k})
                  = Cardinality({s \in R : s <= k}) + 1
  <2> DEFINE P == {s \in R : s <= k}
  <2>1. P \in SUBSET R /\ k \in P /\ i \notin P
    OBVIOUS
  <2>2. {s \in R \cup {i} : s <= k} = P \cup {i}
    OBVIOUS
  <2> HIDE DEF P
  <2>3. IsFiniteSet(P) /\ Cardinality(P) <= Cardinality(R)
    BY <2>1, FS_Subset
  <2>4. Cardinality(P) \in Nat /\ Cardinality(R) \in Nat /\ Cardinality(P) # 0
    BY <2>1, <2>3, FS_CardinalityType, FS_EmptySet
  <2>5. Cardinality(P \cup {i}) = Cardinality(P) + 1
    BY <2>1, <2>3, FS_AddElement
  <2> QED BY <2>2, <2>3, <2>4, <2>5 DEF P
<1> QED BY <1>2, <1>3, <1>4

\* G is the sum of the costs c over every set of numbers up to n.
AddsUp(G, n, c) ==
    /\ G \in [SUBSET (1..n) -> Nat]
    /\ G[{}] = 0
    /\ \A s \in SUBSET (1..n) : \A x \in s : G[s] = c[x] + G[s \ {x}]
Costs(c, n) == c \in [1..n -> Nat]

LEMMA SumsExist ==
    ASSUME NEW n \in Nat, NEW c, Costs(c, n)
    PROVE  \E G : AddsUp(G, n, c)
<1> DEFINE T == {m \in 0..n : \E G : AddsUp(G, m, c)}
<1>1. 0 \in T
  <2> DEFINE G == [s \in SUBSET (1..0) |-> 0]
  <2>1. 1..0 = {}
    OBVIOUS
  <2>2. AddsUp(G, 0, c)
    BY <2>1 DEF AddsUp
  <2> HIDE DEF G
  <2> QED BY <2>2
<1>2. ASSUME NEW m \in 0..n, m \in T, m < n PROVE m + 1 \in T
  <2>1. PICK G : AddsUp(G, m, c)
    BY <1>2
  <2> DEFINE x == m + 1
             H == [s \in SUBSET (1..x) |->
                     (IF x \in s THEN c[x] ELSE 0) + G[s \ {x}]]
  <2>2. x \in Nat /\ x \in 1..n /\ 1..x = (1..m) \cup {x} /\ x \notin 1..m
    BY <1>2
  <2>3. \A y \in 1..x : c[y] \in Nat
    <3>1. \A y \in 1..x : y \in 1..n
      BY <1>2
    <3> QED BY <3>1 DEF Costs
  <2> HIDE DEF x
  <2>4. \A s \in SUBSET (1..x) : s \ {x} \in SUBSET (1..m) /\ G[s \ {x}] \in Nat
    BY <2>1, <2>2 DEF AddsUp
  <2>5. H \in [SUBSET (1..x) -> Nat]
    BY <2>2, <2>3, <2>4
  <2>6. H[{}] = 0
    <3>1. {} \ {x} = {} /\ {} \in SUBSET (1..x)
      OBVIOUS
    <3>2. H[{}] = 0 + G[{}]
      BY <3>1
    <3> QED BY <2>1, <3>2 DEF AddsUp
  <2>7. ASSUME NEW s \in SUBSET (1..x), NEW y \in s
        PROVE  H[s] = c[y] + H[s \ {y}]
    <3>1. s \ {y} \in SUBSET (1..x) /\ y \in 1..x
      OBVIOUS
    <3>2. CASE y = x
      <4>1. (s \ {y}) \ {x} = s \ {x} /\ x \notin s \ {y}
        BY <3>2
      <4>2. H[s \ {y}] = 0 + G[s \ {x}]
        BY <3>1, <4>1
      <4>3. H[s] = c[x] + G[s \ {x}]
        BY <3>2
      <4> HIDE DEF H
      <4> QED BY <2>4, <3>2, <4>2, <4>3
    <3>3. CASE y # x
      <4>1. (s \ {y}) \ {x} = (s \ {x}) \ {y} /\ y \in s \ {x} /\ (x \in s <=> x \in s \ {y})
        BY <3>3
      <4>2. G[s \ {x}] = c[y] + G[(s \ {x}) \ {y}]
        BY <2>1, <2>4, <4>1 DEF AddsUp
      <4>3. H[s \ {y}] = (IF x \in s THEN c[x] ELSE 0) + G[(s \ {x}) \ {y}]
        BY <3>1, <4>1
      <4>4. H[s] = (IF x \in s THEN c[x] ELSE 0) + G[s \ {x}]
        OBVIOUS
      <4>5. (IF x \in s THEN c[x] ELSE 0) \in Nat /\ c[y] \in Nat
            /\ G[(s \ {x}) \ {y}] \in Nat
        <5>1. x \in 1..x
          BY <2>2
        <5> QED BY <2>3, <2>4, <3>1, <4>1, <5>1
      <4> HIDE DEF H
      <4> QED BY <4>2, <4>3, <4>4, <4>5
    <3> QED BY <3>2, <3>3
  <2>8. AddsUp(H, x, c)
    <3> HIDE DEF H
    <3> QED BY <2>5, <2>6, <2>7 DEF AddsUp
  <2>9. m + 1 \in 0..n
    BY <1>2
  <2> HIDE DEF H
  <2> QED BY <2>8, <2>9 DEF x
<1>3. n \in T
  <2> HIDE DEF T
  <2>1. \A m \in 0..n : m \in T
    BY <1>1, <1>2, Induction
  <2> QED BY <2>1
<1> QED BY <1>3

\* The fold by which the model adds up is that sum.
LEMMA SumIsAdded ==
    ASSUME NEW tiles \in Seq(Positive), NEW G,
           AddsUp(G, Len(tiles), [i \in 1..Len(tiles) |-> 2 * tiles[i]]),
           NEW A \in SUBSET (1..Len(tiles))
    PROVE  MapThenSumSet(LAMBDA i : 2 * tiles[i], A) = G[A]
<1> DEFINE n == Len(tiles)
           c == [i \in 1..n |-> 2 * tiles[i]]
           some(s) == CHOOSE x \in s : TRUE
           Eq(F) == F = [s \in SUBSET A |->
                           IF s = {} THEN 0
                           ELSE 2 * tiles[some(s)] + F[s \ {some(s)}]]
           F == CHOOSE H : Eq(H)
           H == [s \in SUBSET A |-> G[s]]
<1>0. n \in Nat
  OBVIOUS
<1>1. \A s \in SUBSET A : s \in SUBSET (1..n) /\ G[s] \in Nat
  BY DEF AddsUp
<1>2. ASSUME NEW s \in SUBSET A, NEW x \in s
      PROVE  G[s] = 2 * tiles[x] + G[s \ {x}] /\ s \ {x} \in SUBSET A
  <2>1. x \in 1..n /\ s \in SUBSET (1..n) /\ s \ {x} \in SUBSET A
    OBVIOUS
  <2>2. c[x] = 2 * tiles[x]
    BY <2>1
  <2>3. G[s] = c[x] + G[s \ {x}]
    <3> HIDE DEF n, c
    <3> QED BY <2>1 DEF AddsUp, n, c
  <2> QED BY <2>1, <2>2, <2>3
<1>3. \A s \in SUBSET A : s # {} => some(s) \in s
  OBVIOUS
<1>4. Eq(H)
  <2> HIDE DEF some, n
  <2>1. G[{}] = 0
    BY DEF AddsUp
  <2>2. ASSUME NEW s \in SUBSET A
        PROVE  H[s] = IF s = {} THEN 0
                      ELSE 2 * tiles[some(s)] + H[s \ {some(s)}]
    <3>1. CASE s = {}
      BY <2>1, <3>1
    <3>2. CASE s # {}
      <4>1. some(s) \in s
        BY <1>3, <3>2
      <4>2. G[s] = 2 * tiles[some(s)] + G[s \ {some(s)}] /\ s \ {some(s)} \in SUBSET A
        BY <1>2, <4>1
      <4> QED BY <3>2, <4>2
    <3> QED BY <3>1, <3>2
  <2>3. H = [s \in SUBSET A |-> H[s]]
    OBVIOUS
  <2> HIDE DEF H
  <2> QED BY <2>2, <2>3
<1>5. Eq(F)
  <2>1. \E K : Eq(K)
    <3> HIDE DEF Eq, H
    <3> QED BY <1>4
  <2> HIDE DEF Eq
  <2> QED BY <2>1, Zenon
<1>6. MapThenSumSet(LAMBDA i : 2 * tiles[i], A) = F[A]
  BY DEF MapThenSumSet, MapThenFoldSet
<1> HIDE DEF F, n, some
<1> DEFINE Bad == {m \in Nat : \E s \in SUBSET A : Cardinality(s) = m /\ F[s] # G[s]}
<1>7. \A s \in SUBSET A : IsFiniteSet(s) /\ Cardinality(s) \in Nat
  <2>1. IsFiniteSet(1..n)
    BY <1>0, FS_Interval
  <2> QED BY <1>1, <2>1, FS_Subset, FS_CardinalityType
<1>8. Bad = {}
  <2> SUFFICES ASSUME Bad # {} PROVE FALSE
    OBVIOUS
  <2>1. PICK m \in Bad : \A k \in Bad : m <= k
    <3> HIDE DEF Bad
    <3>1. Bad \in SUBSET Nat
      BY DEF Bad
    <3> QED BY <3>1, SmallestNumber
  <2>2. PICK s \in SUBSET A : Cardinality(s) = m /\ F[s] # G[s]
    BY <2>1
  <2>3. s # {}
    <3>1. F[{}] = 0
      BY <1>5
    <3>2. G[{}] = 0
      BY DEF AddsUp
    <3> QED BY <2>2, <3>1, <3>2
  <2> DEFINE x == some(s)
  <2>4. x \in s
    BY <1>3, <2>3
  <2>5. F[s] = 2 * tiles[x] + F[s \ {x}]
    BY <1>5, <2>3
  <2> HIDE DEF x
  <2>6. G[s] = 2 * tiles[x] + G[s \ {x}] /\ s \ {x} \in SUBSET A
    BY <1>2, <2>4
  <2>7. Cardinality(s \ {x}) \in Nat /\ Cardinality(s \ {x}) < m
    <3>1. Cardinality(s \ {x}) = Cardinality(s) - 1
      BY <1>7, <2>4, FS_RemoveElement
    <3> QED BY <1>7, <2>2, <2>6, <3>1
  <2>8. F[s \ {x}] = G[s \ {x}]
    BY <2>1, <2>6, <2>7
  <2> QED BY <2>2, <2>5, <2>6, <2>8
<1>9. F[A] = G[A]
  BY <1>7, <1>8
<1> QED BY <1>6, <1>9

\* collapseRow makes of a row of any length and any tiles what its runs say:
\* which tiles stay, where they come to stand and with which values, the points
\* that are gained and the tiles that are made.  From the last tile to the first:
\* what From has at a tile that is not absorbed is the outcome of the tiles from
\* there on.
THEOREM CollapseOfAnyRow ==
    ASSUME NEW tiles \in Seq(Positive)
    PROVE  CollapsedByRuns(tiles, CollapseTiles(tiles))
<1> DEFINE n == Len(tiles)
           f == From(tiles)
           X == Absorbed(tiles)
           S == Staying(tiles)
           value(k) == IF k + 1 \in X THEN 2 * tiles[k] ELSE tiles[k]
           c == [i \in 1..n |-> 2 * tiles[i]]
           R(i) == {s \in S : i <= s}
           A(i) == {a \in X : i <= a}
           RowByRuns(i, row) ==
             /\ Len(row) = Cardinality(R(i))
             /\ \A k \in R(i) : row[Cardinality({s \in R(i) : s <= k})] = value(k)
           Made(i) == {2 * tiles[a] : a \in A(i)}
<1>1. /\ n \in Nat /\ \A i \in 1..n : tiles[i] \in Positive /\ 2 * tiles[i] \in Nat
      /\ S = 1..n \ X
  BY DEF Staying, Positive
<1>2. /\ X \subseteq 2..n
      /\ \A i \in 1..n : i \notin X =>
           IF i < n /\ tiles[i] = tiles[i + 1]
           THEN i + 1 \in X /\ i + 2 \notin X ELSE i + 1 \notin X
  BY AbsorbedByTurns
<1>3. /\ CollapseTiles(tiles) = f[1]
      /\ f[n + 1] = Nothing /\ f[n + 2] = Nothing
      /\ \A i \in 1..n : f[i] = IF i < n /\ tiles[i] = tiles[i + 1]
                                THEN Merge(tiles[i], f[i + 2]) ELSE Keep(tiles[i], f[i + 1])
  <2>1. n + 1 \in (n + 1)..(n + 2) /\ n + 2 \in (n + 1)..(n + 2)
    BY <1>1
  <2> QED BY <2>1, FromSteps
<1>4. /\ Nothing \in Outcome /\ Len(Nothing.row) = 0
      /\ Nothing.gained = 0 /\ Nothing.made = {}
  <2>1. <<>> \in Seq(Positive) /\ Len(<<>>) = 0 /\ 0 \in Nat /\ {} \in SUBSET Nat
    OBVIOUS
  <2> QED BY <2>1 DEF Nothing, Outcome
<1>5. PICK G : AddsUp(G, n, c)
  <2>1. Costs(c, n)
    BY <1>1 DEF Costs
  <2> HIDE DEF c, n
  <2> QED BY <1>1, <2>1, SumsExist
<1> DEFINE ByRuns(i) == /\ RowByRuns(i, f[i].row)
                        /\ f[i].gained = G[A(i)]
                        /\ f[i].made = Made(i)
           Ok(i) == f[i] \in Outcome /\ (i \notin X => ByRuns(i))
           T == {m \in 0..n : Ok(n + 1 - m) /\ Ok(n + 2 - m)}
<1>6. \A i \in Nat : R(i) \in SUBSET Nat /\ IsFiniteSet(R(i)) /\ A(i) \in SUBSET (1..n)
  <2>1. IsFiniteSet(1..n)
    BY <1>1, FS_Interval
  <2>2. \A i \in Nat : R(i) \in SUBSET (1..n) /\ R(i) \in SUBSET Nat
    BY <1>1
  <2>3. \A i \in Nat : A(i) \in SUBSET (1..n)
    BY <1>1, <1>2
  <2> HIDE DEF R, A
  <2> QED BY <2>1, <2>2, <2>3, FS_Subset
<1>7. G[{}] = 0 /\ \A s \in SUBSET (1..n) : \A x \in s : G[s] = 2 * tiles[x] + G[s \ {x}]
  <2>1. \A x \in 1..n : c[x] = 2 * tiles[x]
    OBVIOUS
  <2> HIDE DEF n, c
  <2> QED BY <1>5, <2>1 DEF AddsUp
<1> HIDE DEF n, f, X, S, c
<1>8. ASSUME NEW i \in {n + 1, n + 2} PROVE Ok(i)
  <2>1. i \in Nat /\ R(i) = {} /\ A(i) = {}
    <3>1. i \in Nat /\ \A s \in 1..n : ~(i <= s)
      BY <1>1
    <3>2. \A s \in S : s \in 1..n
      BY <1>1
    <3>3. \A a \in X : a \in 1..n
      BY <1>1, <1>2
    <3> QED BY <3>1, <3>2, <3>3
  <2>2. f[i] = Nothing /\ Made(i) = {}
    BY <1>3, <2>1
  <2>3. RowByRuns(i, Nothing.row)
    <3> HIDE DEF R, value
    <3> QED BY <1>4, <2>1, FS_EmptySet
  <2> HIDE DEF RowByRuns, Made, A
  <2> QED BY <1>4, <1>7, <2>1, <2>2, <2>3
<1>9. ASSUME NEW i \in 1..n, NEW j \in Nat, R(i) = R(j) \cup {i}, i < j,
             NEW row, NEW rest \in Seq(Positive), RowByRuns(j, rest),
             Len(row) = Len(rest) + 1, row[1] = value(i),
             \A k \in 1..Len(rest) : row[k + 1] = rest[k]
      PROVE  RowByRuns(i, row)
  <2> DEFINE Q == R(j)
  <2>1. Q \in SUBSET Nat /\ IsFiniteSet(Q) /\ \A s \in Q : i < s
    <3>1. \A s \in Q : s \in Nat /\ j <= s
      BY <1>1
    <3> HIDE DEF R
    <3> QED BY <1>1, <1>6, <1>9, <3>1
  <2>2. i \in Nat
    BY <1>1
  <2> HIDE DEF Q
  <2>3. /\ Cardinality(Q \cup {i}) = Cardinality(Q) + 1
        /\ Cardinality({s \in Q \cup {i} : s <= i}) = 1
        /\ \A k \in Q : /\ Cardinality({s \in Q : s <= k}) \in 1..Cardinality(Q)
                        /\ Cardinality({s \in Q \cup {i} : s <= k})
                             = Cardinality({s \in Q : s <= k}) + 1
    BY <2>1, <2>2, PlacesMoveUp
  <2>4. /\ Len(rest) = Cardinality(Q)
        /\ \A k \in Q : rest[Cardinality({s \in Q : s <= k})] = value(k)
    BY <1>9 DEF Q
  <2>5. R(i) = Q \cup {i}
    BY <1>9 DEF Q
  <2> HIDE DEF R, value
  <2>6. ASSUME NEW k \in Q \cup {i}
        PROVE  row[Cardinality({s \in Q \cup {i} : s <= k})] = value(k)
    <3>1. CASE k = i
      BY <1>9, <2>3, <3>1
    <3>2. CASE k \in Q
      <4> DEFINE p == Cardinality({s \in Q : s <= k})
      <4>1. p \in 1..Len(rest) /\ rest[p] = value(k)
        BY <2>3, <2>4, <3>2
      <4>2. Cardinality({s \in Q \cup {i} : s <= k}) = p + 1
        BY <2>3, <3>2
      <4> HIDE DEF p
      <4> QED BY <1>9, <4>1, <4>2
    <3> QED BY <3>1, <3>2
  <2> QED BY <1>9, <2>3, <2>4, <2>5, <2>6
<1>10. ASSUME NEW m \in 0..n, m \in T, m < n PROVE m + 1 \in T
  <2> DEFINE i == n + 1 - (m + 1)
  <2>1. /\ i \in 1..n /\ n + 2 - (m + 1) = i + 1 /\ i \in Nat
        /\ n + 1 - m = i + 1 /\ n + 2 - m = i + 2
    BY <1>1, <1>10
  <2>2. Ok(i + 1) /\ Ok(i + 2)
    <3> HIDE DEF i, Ok
    <3> QED BY <1>10, <2>1
  <2> HIDE DEF i
  <2>3. f[i + 1] \in Outcome /\ f[i + 2] \in Outcome /\ tiles[i] \in Positive
    BY <1>1, <2>1, <2>2
  <2>4. Ok(i)
    <3>1. CASE i < n /\ tiles[i] = tiles[i + 1]
      <4> DEFINE j == i + 2
      <4>1. f[i] = Merge(tiles[i], f[j]) /\ j \in Nat /\ i < j
        BY <1>3, <2>1, <3>1
      <4>2. f[i] \in Outcome
        BY <2>3, <4>1, TilesAreAdded
      <4> SUFFICES ASSUME i \notin X PROVE ByRuns(i)
        BY <4>2
      <4>3. i + 1 \in X /\ j \notin X
        BY <1>2, <2>1, <3>1
      <4>4. ByRuns(j)
        BY <2>2, <4>3
      <4>5. R(i) = R(j) \cup {i}
        BY <1>1, <2>1, <4>3
      <4>6. /\ A(i) = A(j) \cup {i + 1} /\ i + 1 \notin A(j)
            /\ A(i) \in SUBSET (1..n) /\ i + 1 \in A(i) /\ A(i) \ {i + 1} = A(j)
        <5>1. \A a \in X : a \in 2..n /\ a # i
          BY <1>2
        <5>2. \A a \in X : (i <= a <=> j <= a \/ a = i + 1) /\ ~(j <= i + 1)
          BY <1>1, <2>1, <5>1
        <5>3. i <= i + 1
          BY <2>1
        <5>4. A(i) \in SUBSET (1..n)
          <6> HIDE DEF A
          <6> QED BY <1>6, <2>1
        <5> HIDE DEF j
        <5> QED BY <4>3, <5>2, <5>3, <5>4
      <4>7. value(i) = 2 * tiles[i] /\ tiles[i + 1] = tiles[i]
        BY <3>1, <4>3
      <4>r. f[j] \in Outcome
        BY <2>3
      <4> HIDE DEF j, R, A, value, RowByRuns, Made
      <4>8. /\ Len(f[i].row) = Len(f[j].row) + 1
            /\ f[i].row[1] = 2 * tiles[i]
            /\ \A k \in 1..Len(f[j].row) : f[i].row[k + 1] = f[j].row[k]
            /\ f[i].gained = 2 * tiles[i] + f[j].gained
            /\ f[i].made = {2 * tiles[i]} \cup f[j].made
        <5>1. Len(f[i].row) = Len(f[j].row) + 1
          BY <2>3, <4>1, <4>r, TilesAreAdded
        <5> QED BY <2>3, <4>1, <4>r, <5>1, AddedParts
      <4>9. f[j].row \in Seq(Positive) /\ f[j].gained \in Nat
        BY <4>r DEF Outcome
      <4>10. RowByRuns(i, f[i].row)
        <5>1. f[i].row[1] = value(i) /\ RowByRuns(j, f[j].row)
          BY <4>4, <4>7, <4>8
        <5> QED BY <1>9, <2>1, <4>1, <4>5, <4>8, <4>9, <5>1
      <4>11. f[i].gained = G[A(i)]
        <5>1. G[A(i)] = 2 * tiles[i + 1] + G[A(i) \ {i + 1}]
          BY <1>7, <4>6
        <5> QED BY <4>4, <4>6, <4>7, <4>8, <5>1
      <4>12. f[i].made = Made(i)
        BY <4>4, <4>6, <4>7, <4>8 DEF Made
      <4> QED BY <4>10, <4>11, <4>12
    <3>2. CASE ~(i < n /\ tiles[i] = tiles[i + 1])
      <4> DEFINE j == i + 1
      <4>1. f[i] = Keep(tiles[i], f[j]) /\ j \in Nat /\ i < j
        BY <1>3, <2>1, <3>2
      <4>2. f[i] \in Outcome
        BY <2>3, <4>1, TilesAreAdded
      <4> SUFFICES ASSUME i \notin X PROVE ByRuns(i)
        BY <4>2
      <4>3. j \notin X
        BY <1>2, <2>1, <3>2
      <4>4. ByRuns(j)
        BY <2>2, <4>3
      <4>5. R(i) = R(j) \cup {i}
        BY <1>1, <2>1
      <4>6. A(i) = A(j)
        <5>1. \A a \in X : a \in 2..n /\ a # i
          BY <1>2
        <5>2. \A a \in X : i <= a <=> j <= a
          BY <1>1, <2>1, <5>1
        <5> QED BY <5>2
      <4>7. value(i) = tiles[i]
        BY <4>3
      <4>r. f[j] \in Outcome
        BY <2>3
      <4> HIDE DEF j, R, A, value, RowByRuns
      <4>8. /\ Len(f[i].row) = Len(f[j].row) + 1
            /\ f[i].row[1] = tiles[i]
            /\ \A k \in 1..Len(f[j].row) : f[i].row[k + 1] = f[j].row[k]
            /\ f[i].gained = f[j].gained
            /\ f[i].made = f[j].made
        <5>1. /\ Len(f[i].row) = Len(f[j].row) + 1
              /\ f[i].row[1] = tiles[i]
              /\ \A k \in 1..Len(f[j].row) : f[i].row[k + 1] = f[j].row[k]
          BY <2>3, <4>1, <4>r, TilesAreAdded
        <5> QED BY <2>3, <4>1, <4>r, <5>1, AddedParts
      <4>9. f[j].row \in Seq(Positive)
        BY <4>r DEF Outcome
      <4>10. RowByRuns(i, f[i].row)
        <5>1. f[i].row[1] = value(i) /\ RowByRuns(j, f[j].row)
          BY <4>4, <4>7, <4>8
        <5> QED BY <1>9, <2>1, <4>1, <4>5, <4>8, <4>9, <5>1
      <4> QED BY <4>4, <4>6, <4>8, <4>10
    <3> QED BY <3>1, <3>2
  <2> HIDE DEF Ok
  <2> QED BY <1>1, <1>10, <2>1, <2>2, <2>4 DEF i
<1>11. Ok(1)
  <2>1. 0 \in T
    <3>1. n + 1 - 0 = n + 1 /\ n + 2 - 0 = n + 2 /\ 0 \in 0..n
      BY <1>1
    <3> HIDE DEF Ok
    <3> QED BY <1>8, <3>1
  <2> HIDE DEF T
  <2>2. \A m \in 0..n : m \in T
    BY <1>1, <1>10, <2>1, Induction
  <2>3. n \in T /\ n + 1 - n = 1
    BY <1>1, <2>2
  <2> HIDE DEF Ok
  <2> QED BY <2>3 DEF T
<1>12. 1 \notin X /\ R(1) = S /\ A(1) = X
  <2>1. (\A s \in S : 1 <= s) /\ \A a \in X : 1 <= a /\ a # 1
    BY <1>1, <1>2
  <2> QED BY <2>1
<1>13. ByRuns(1)
  BY <1>11, <1>12
<1>14. X \in SUBSET (1..n)
  BY <1>1, <1>2
<1> DEFINE out == CollapseTiles(tiles)
<1>15. Len(out.row) = Cardinality(S)
       /\ \A k \in S : out.row[Cardinality({s \in S : s <= k})] = value(k)
  BY <1>3, <1>12, <1>13
<1>16. out.gained = G[X] /\ out.made = {2 * tiles[i] : i \in X}
  BY <1>3, <1>12, <1>13
<1>17. MapThenSumSet(LAMBDA i : 2 * tiles[i], X) = G[X]
  BY <1>5, <1>14, SumIsAdded DEF n, c
<1> HIDE DEF out
<1> QED BY <1>15, <1>16, <1>17 DEF CollapsedByRuns, Place, S, X, out

\* The rows that a run enumerates are among them.
THEOREM CollapseCorrect == GameSpec => []CollapseIsByRuns
<1>1. ASSUME NEW n \in 0..4, NEW tiles \in [1..n -> {2, 4, 8}]
      PROVE  CollapsedByRuns(tiles, CollapseTiles(tiles))
  <2>1. tiles \in [1..n -> Positive] /\ n \in Nat
    BY DEF Positive
  <2>2. tiles \in Seq(Positive)
    <3> HIDE DEF Positive
    <3> QED BY <2>1
  <2> QED BY <2>2, CollapseOfAnyRow
<1>2. CollapseIsByRuns
  BY <1>1 DEF CollapseIsByRuns
<1> QED BY <1>2, PTL
-----------------------------------------------------------------------------
(* The lines of the board.                                                 *)

Index == 0..(SIZE - 1)
CellAt(i, j) == i * SIZE + j

\* Rows and columns number the cells.
LEMMA CellsAreNumbered ==
    /\ \A i \in Index, j \in Index : CellAt(i, j) \in Cells
    /\ \A c \in Cells : \E i \in Index, j \in Index : CellAt(i, j) = c
    /\ \A i \in Index, j \in Index, k \in Index, l \in Index :
         CellAt(i, j) = CellAt(k, l) => i = k /\ j = l
<1>1. SIZE \in Nat \ {0}
  BY GameAssumption
<1>2. ASSUME NEW i \in Index, NEW j \in Index PROVE CellAt(i, j) \in Cells
  <2>1. i \in Nat /\ j \in Nat /\ i <= SIZE - 1 /\ j <= SIZE - 1
    BY <1>1 DEF Index
  <2>2. i * SIZE <= (SIZE - 1) * SIZE /\ i * SIZE \in Nat
    BY <1>1, <2>1, Z3
  <2>3. (SIZE - 1) * SIZE = SIZE * SIZE - SIZE /\ SIZE * SIZE \in Nat
    BY <1>1, Z3
  <2> QED BY <1>1, <2>1, <2>2, <2>3 DEF CellAt, Cells
<1>3. ASSUME NEW c \in Cells PROVE \E i \in Index, j \in Index : CellAt(i, j) = c
  <2> DEFINE i == c \div SIZE
             j == c % SIZE
  <2>1. c \in Nat /\ c < SIZE * SIZE /\ SIZE * SIZE \in Nat
    <3>1. SIZE * SIZE \in Nat
      BY <1>1, Z3
    <3> QED BY <1>1, <3>1 DEF Cells
  <2>2. i \in Nat /\ j \in Index /\ c = SIZE * i + j
    BY <1>1, <2>1, Z3 DEF Index
  <2> HIDE DEF i, j
  <2>3. SIZE * i = i * SIZE
    BY <1>1, <2>2, Z3
  <2>4. i <= SIZE - 1
    <3> SUFFICES ASSUME SIZE <= i PROVE FALSE
      BY <1>1, <2>2
    <3>1. SIZE * SIZE <= SIZE * i
      BY <1>1, <2>2, Z3
    <3>2. SIZE * i \in Nat /\ j \in Nat
      BY <1>1, <2>2, Z3 DEF Index
    <3> QED BY <2>1, <2>2, <3>1, <3>2
  <2>5. i \in Index /\ CellAt(i, j) = c
    BY <1>1, <2>2, <2>3, <2>4 DEF Index, CellAt
  <2> QED BY <2>2, <2>5
<1>4. ASSUME NEW i \in Index, NEW j \in Index, NEW k \in Index, NEW l \in Index,
             CellAt(i, j) = CellAt(k, l)
      PROVE  ~(i < k)
  <2> SUFFICES ASSUME i < k PROVE FALSE
    OBVIOUS
  <2>1. i \in Nat /\ j \in Nat /\ k \in Nat /\ l \in Nat /\ j < SIZE /\ i + 1 <= k
    BY <1>1 DEF Index
  <2>2. (i + 1) * SIZE <= k * SIZE /\ (i + 1) * SIZE = i * SIZE + SIZE
        /\ i * SIZE \in Nat /\ k * SIZE \in Nat
    BY <1>1, <2>1, Z3
  <2> QED BY <1>1, <1>4, <2>1, <2>2 DEF CellAt
<1>5. ASSUME NEW i \in Index, NEW j \in Index, NEW k \in Index, NEW l \in Index,
             CellAt(i, j) = CellAt(k, l)
      PROVE  i = k /\ j = l
  <2>1. i = k
    <3>1. ~(i < k) /\ ~(k < i)
      BY <1>4, <1>5
    <3> QED BY <1>1, <3>1 DEF Index
  <2>2. i * SIZE \in Int /\ j \in Int /\ l \in Int
    BY <1>1, Z3 DEF Index
  <2> QED BY <1>5, <2>1, <2>2 DEF CellAt
<1> QED BY <1>2, <1>3, <1>5

\* The line cells of a direction are cells, each of them once.
LEMMA LinesAreRowsOrColumns ==
    \A i, j : /\ LineCell("left", i, j) = CellAt(i, j)
              /\ LineCell("right", i, j) = CellAt(i, SIZE - 1 - j)
              /\ LineCell("up", i, j) = CellAt(j, i)
              /\ LineCell("down", i, j) = CellAt(SIZE - 1 - j, i)
BY DEF LineCell, CellAt

LEMMA LinesCoverTheBoard ==
    ASSUME NEW dir \in Directions
    PROVE  /\ \A i \in Index, j \in Index : LineCell(dir, i, j) \in Cells
           /\ \A c \in Cells : \E i \in Index, j \in Index : LineCell(dir, i, j) = c
           /\ \A i \in Index, j \in Index, k \in Index, l \in Index :
                LineCell(dir, i, j) = LineCell(dir, k, l) => i = k /\ j = l
<1>1. \A j \in Index : SIZE - 1 - j \in Index /\ SIZE - 1 - (SIZE - 1 - j) = j
  BY GameAssumption DEF Index
<1>2. \A j \in Index, l \in Index : SIZE - 1 - j = SIZE - 1 - l => j = l
  BY GameAssumption DEF Index
<1>3. CASE dir = "left"
  BY <1>3, CellsAreNumbered, LinesAreRowsOrColumns
<1>4. CASE dir = "right"
  BY <1>1, <1>2, <1>4, CellsAreNumbered, LinesAreRowsOrColumns
<1>5. CASE dir = "up"
  BY <1>5, CellsAreNumbered, LinesAreRowsOrColumns
<1>6. CASE dir = "down"
  <2>1. \A i \in Index, j \in Index : LineCell(dir, i, j) \in Cells
    BY <1>1, <1>6, CellsAreNumbered, LinesAreRowsOrColumns
  <2>2. ASSUME NEW c \in Cells
        PROVE  \E i \in Index, j \in Index : LineCell(dir, i, j) = c
    <3>1. PICK k \in Index : \E l \in Index : CellAt(k, l) = c
      BY CellsAreNumbered
    <3>2. PICK l \in Index : CellAt(k, l) = c
      BY <3>1
    <3>3. SIZE - 1 - k \in Index /\ LineCell(dir, l, SIZE - 1 - k) = CellAt(k, l)
      BY <1>1, <1>6, LinesAreRowsOrColumns
    <3> QED BY <3>2, <3>3
  <2>3. ASSUME NEW i \in Index, NEW j \in Index, NEW k \in Index, NEW l \in Index,
               LineCell(dir, i, j) = LineCell(dir, k, l)
        PROVE  i = k /\ j = l
    <3>1. CellAt(SIZE - 1 - j, i) = CellAt(SIZE - 1 - l, k)
      BY <1>6, <2>3, LinesAreRowsOrColumns
    <3>2. SIZE - 1 - j \in Index /\ SIZE - 1 - l \in Index
      BY <1>1
    <3>3. SIZE - 1 - j = SIZE - 1 - l /\ i = k
      BY <3>1, <3>2, CellsAreNumbered
    <3> QED BY <1>2, <3>3
  <2> QED BY <2>1, <2>2, <2>3
<1> QED BY <1>3, <1>4, <1>5, <1>6 DEF Directions

\* The cells of a line, in the order in which it is pushed.
LineOf(b, dir, i) == [j \in 1..SIZE |-> b[LineCell(dir, i, j - 1)]]

LEMMA LineIsOutcome ==
    ASSUME NEW b \in Board, NEW dir \in Directions, NEW i \in Index
    PROVE  /\ LineOf(b, dir, i) \in Seq(Nat) /\ Len(LineOf(b, dir, i)) = SIZE
           /\ Line(b, dir, i) = CollapseTiles(TilesOf(LineOf(b, dir, i)))
           /\ TilesOf(LineOf(b, dir, i)) \in Seq(Positive)
           /\ Line(b, dir, i) \in Outcome
           /\ Len(Line(b, dir, i).row) \in 0..SIZE
<1> DEFINE row == LineOf(b, dir, i)
<1>1. SIZE \in Nat \ {0}
  BY GameAssumption
<1>2. \A j \in 1..SIZE : b[LineCell(dir, i, j - 1)] \in Nat
  <2>1. \A j \in 1..SIZE : j - 1 \in Index
    BY <1>1 DEF Index
  <2> QED BY <2>1, LinesCoverTheBoard DEF Board
<1>3. row \in Seq(Nat) /\ Len(row) = SIZE
  BY <1>1, <1>2 DEF LineOf
<1>4. Line(b, dir, i) = CollapseTiles(TilesOf(row))
  BY DEF Line, CollapseRow, LineOf
<1> HIDE DEF row
<1>5. TilesOf(row) \in Seq(Positive) /\ Len(TilesOf(row)) <= SIZE
  BY <1>3, TilesOfRow
<1>6. /\ CollapseTiles(TilesOf(row)) \in Outcome
      /\ Len(CollapseTiles(TilesOf(row)).row) <= Len(TilesOf(row))
  BY <1>5, CollapseOfTiles
<1>7. Len(CollapseTiles(TilesOf(row)).row) \in Nat /\ Len(TilesOf(row)) \in Nat
  <2>1. CollapseTiles(TilesOf(row)).row \in Seq(Positive)
    BY <1>6 DEF Outcome
  <2> QED BY <1>5, <2>1
<1>8. Len(CollapseTiles(TilesOf(row)).row) \in 0..SIZE
  BY <1>1, <1>5, <1>6, <1>7
<1> QED BY <1>3, <1>4, <1>5, <1>6, <1>8 DEF row

\* What a cell holds after the push.
LEMMA PushedCell ==
    ASSUME NEW b \in Board, NEW dir \in Directions, NEW i \in Index, NEW j \in Index
    PROVE  Pushed(b, dir)[LineCell(dir, i, j)]
             = IF j < Len(Line(b, dir, i).row) THEN Line(b, dir, i).row[j + 1] ELSE 0
<1> DEFINE c == LineCell(dir, i, j)
           p == CHOOSE q \in (0..(SIZE - 1)) \X (0..(SIZE - 1)) :
                  LineCell(dir, q[1], q[2]) = c
<1>1. p \in Index \X Index /\ LineCell(dir, p[1], p[2]) = c
  <2>1. <<i, j>> \in (0..(SIZE - 1)) \X (0..(SIZE - 1))
        /\ LineCell(dir, <<i, j>>[1], <<i, j>>[2]) = c
    BY DEF Index
  <2> QED BY <2>1 DEF Index
<1>2. p[1] = i /\ p[2] = j
  <2> HIDE DEF p
  <2>1. p[1] \in Index /\ p[2] \in Index
    BY <1>1
  <2> QED BY <1>1, <2>1, LinesCoverTheBoard
<1>3. c \in Cells
  BY LinesCoverTheBoard
<1>4. Pushed(b, dir)[c] = IF p[2] < Len(Line(b, dir, p[1]).row)
                          THEN Line(b, dir, p[1]).row[p[2] + 1] ELSE 0
  <2> HIDE DEF c
  <2> QED BY <1>3 DEF Pushed
<1> HIDE DEF p
<1> QED BY <1>2, <1>4

LEMMA PushedIsBoard ==
    ASSUME NEW b \in Board, NEW dir \in Directions
    PROVE  Pushed(b, dir) \in Board
<1>1. \A c \in Cells : Pushed(b, dir)[c] \in Nat
  <2> TAKE c \in Cells
  <2>1. PICK i \in Index : \E j \in Index : LineCell(dir, i, j) = c
    BY LinesCoverTheBoard
  <2>2. PICK j \in Index : LineCell(dir, i, j) = c
    BY <2>1
  <2>3. Line(b, dir, i).row \in Seq(Positive)
    BY LineIsOutcome DEF Outcome
  <2>4. j < Len(Line(b, dir, i).row) => Line(b, dir, i).row[j + 1] \in Nat
    <3>1. j \in Nat
      BY GameAssumption DEF Index
    <3> QED BY <2>3, <3>1 DEF Positive
  <2> QED BY <2>2, <2>4, PushedCell
<1>2. Pushed(b, dir) = [c \in Cells |-> Pushed(b, dir)[c]]
  BY DEF Pushed
<1> QED BY <1>1, <1>2 DEF Board
-----------------------------------------------------------------------------
(* No direction moves a tile exactly if hasMoves says so.                  *)

\* Cells j of a line hold tiles, from the start on, and no two neighbours are
\* the same.
Packed(b, dir, i, m) ==
    /\ \A j \in Index : b[LineCell(dir, i, j)] # 0 <=> j < m
    /\ \A j \in Index : j + 1 < m => b[LineCell(dir, i, j)] # b[LineCell(dir, i, j + 1)]

LEMMA StuckLineIsPacked ==
    ASSUME NEW b \in Board, NEW dir \in Directions, NEW i \in Index, Pushed(b, dir) = b
    PROVE  \E m \in 0..SIZE : Packed(b, dir, i, m)
<1> DEFINE row == LineOf(b, dir, i)
           tiles == TilesOf(row)
           out == CollapseTiles(tiles).row
           m == Len(out)
<1>1. SIZE \in Nat \ {0}
  BY GameAssumption
<1>2. /\ row \in Seq(Nat) /\ Len(row) = SIZE
      /\ Line(b, dir, i).row = out
      /\ tiles \in Seq(Positive) /\ CollapseTiles(tiles) \in Outcome
      /\ m \in 0..SIZE
  BY LineIsOutcome
<1>3. out \in Seq(Positive)
  BY <1>2 DEF Outcome
<1>4. \A j \in Index : row[j + 1] = b[LineCell(dir, i, j)]
  <2>1. \A j \in Index : j + 1 \in 1..SIZE /\ (j + 1) - 1 = j
    BY <1>1 DEF Index
  <2>2. \A k \in 1..SIZE : row[k] = b[LineCell(dir, i, k - 1)]
    BY DEF LineOf
  <2> HIDE DEF row
  <2>3. ASSUME NEW j \in Index PROVE row[j + 1] = b[LineCell(dir, i, j)]
    <3>1. row[j + 1] = b[LineCell(dir, i, (j + 1) - 1)]
      BY <2>1, <2>2
    <3> QED BY <2>1, <3>1
  <2> QED BY <2>3
<1> HIDE DEF row
<1>5. \A j \in Index : row[j + 1] = IF j < m THEN out[j + 1] ELSE 0
  <2> HIDE DEF out, m
  <2> QED BY <1>2, <1>4, PushedCell DEF m
<1> HIDE DEF tiles, out, m
<1>6. \A k \in 1..SIZE : k - 1 \in Index /\ (k - 1) + 1 = k
  BY <1>1 DEF Index
<1>7. \A k \in 1..SIZE : row[k] # 0 <=> k <= m
  <2> TAKE k \in 1..SIZE
  <2>1. row[k] = IF k - 1 < m THEN out[k] ELSE 0
    <3>1. row[(k - 1) + 1] = IF k - 1 < m THEN out[(k - 1) + 1] ELSE 0
      BY <1>5, <1>6
    <3> QED BY <1>6, <3>1
  <2>2. k <= m => out[k] # 0
    <3> SUFFICES ASSUME k <= m PROVE out[k] # 0
      OBVIOUS
    <3>1. out[k] \in Positive
      BY <1>1, <1>2, <1>3 DEF m
    <3> QED BY <3>1 DEF Positive
  <2>3. k - 1 < m <=> k <= m
    BY <1>1, <1>2
  <2> QED BY <2>1, <2>2, <2>3
<1>8. Len(tiles) = m /\ \A k \in 1..m : tiles[k] = row[k]
  <2>1. \A k \in 1..Len(row) : row[k] # 0 <=> k <= m
    BY <1>2, <1>7
  <2>2. m \in 0..Len(row)
    BY <1>2
  <2> QED BY <1>2, <2>1, <2>2, TilesOfRow DEF tiles
<1>9. \A k \in 1..(m - 1) : tiles[k] # tiles[k + 1]
  <2> SUFFICES ASSUME NEW k \in 1..(m - 1), tiles[k] = tiles[k + 1] PROVE FALSE
    OBVIOUS
  <2>1. Len(CollapseTiles(tiles).row) < Len(tiles)
    BY <1>2, <1>8, CollapseOfTiles
  <2>2. m < m
    BY <1>8, <2>1 DEF m, out
  <2> QED BY <1>2, <2>2
<1>10. Packed(b, dir, i, m)
  <2>1. ASSUME NEW j \in Index PROVE b[LineCell(dir, i, j)] # 0 <=> j < m
    <3>1. j + 1 \in 1..SIZE /\ (j + 1 <= m <=> j < m)
      BY <1>1, <1>2 DEF Index
    <3> QED BY <1>4, <1>7, <3>1
  <2>2. ASSUME NEW j \in Index, j + 1 < m
        PROVE  b[LineCell(dir, i, j)] # b[LineCell(dir, i, j + 1)]
    <3>1. /\ j + 1 \in Index /\ j + 1 \in 1..(m - 1) /\ j + 1 \in 1..m
          /\ (j + 1) + 1 \in 1..m
      BY <1>1, <1>2, <2>2 DEF Index
    <3>2. row[j + 1] # row[(j + 1) + 1]
      BY <1>8, <1>9, <3>1
    <3> QED BY <1>4, <3>1, <3>2
  <2> QED BY <2>1, <2>2 DEF Packed
<1> QED BY <1>2, <1>10

\* A full line without equal neighbours stays as it is.
LEMMA FullLineStays ==
    ASSUME NEW b \in Board, NEW dir \in Directions, NEW i \in Index, NEW j \in Index,
           Packed(b, dir, i, SIZE)
    PROVE  Pushed(b, dir)[LineCell(dir, i, j)] = b[LineCell(dir, i, j)]
<1> DEFINE row == LineOf(b, dir, i)
<1>1. SIZE \in Nat \ {0}
  BY GameAssumption
<1>2. /\ row \in Seq(Nat) /\ Len(row) = SIZE
      /\ Line(b, dir, i) = CollapseTiles(TilesOf(row))
  BY LineIsOutcome
<1>3. \A k \in 1..SIZE : row[k] = b[LineCell(dir, i, k - 1)]
  BY DEF LineOf
<1> HIDE DEF row
<1>4. \A k \in 1..SIZE : k - 1 \in Index /\ k - 1 < SIZE
  BY <1>1 DEF Index
<1>5. \A k \in 1..SIZE : row[k] # 0
  <2> TAKE k \in 1..SIZE
  <2>1. b[LineCell(dir, i, k - 1)] # 0
    BY <1>4 DEF Packed
  <2> QED BY <1>3, <2>1
<1>6. ASSUME NEW k \in 1..(SIZE - 1) PROVE row[k] # row[k + 1]
  <2>1. /\ k \in 1..SIZE /\ k + 1 \in 1..SIZE /\ (k + 1) - 1 = (k - 1) + 1
        /\ (k - 1) + 1 < SIZE
    BY <1>1
  <2>2. b[LineCell(dir, i, k - 1)] # b[LineCell(dir, i, (k - 1) + 1)]
    BY <1>4, <2>1 DEF Packed
  <2> QED BY <1>3, <2>1, <2>2
<1>7. TilesOf(row) = row
  BY <1>2, <1>5, TilesOfRow
<1>8. \A k \in 1..SIZE : row[k] \in Positive
  <2>1. \A k \in 1..SIZE : row[k] \in Nat
    BY <1>2
  <2> QED BY <1>5, <2>1 DEF Positive
<1>9. row \in Seq(Positive)
  BY <1>2, <1>7, LineIsOutcome DEF row
<1>10. Line(b, dir, i).row = row
  <2>1. CollapseTiles(row).row = row
    BY <1>2, <1>6, <1>9, CollapseOfTiles
  <2> QED BY <1>2, <1>7, <2>1
<1>11. j + 1 \in 1..SIZE /\ j < SIZE /\ (j + 1) - 1 = j
  BY <1>1 DEF Index
<1>12. Pushed(b, dir)[LineCell(dir, i, j)] = row[j + 1]
  BY <1>2, <1>10, <1>11, PushedCell
<1>13. row[j + 1] = b[LineCell(dir, i, (j + 1) - 1)]
  BY <1>3, <1>11
<1> QED BY <1>11, <1>12, <1>13

\* A stretch of cells that starts at both ends of its line is the whole line.
LEMMA FromBothEnds ==
    ASSUME NEW Z, NEW z \in Index, z \in Z, NEW m \in 0..SIZE, NEW n \in 0..SIZE,
           \A j \in Index : j \in Z <=> j < m,
           \A j \in Index : (SIZE - 1 - j) \in Z <=> j < n
    PROVE  m = SIZE
<1>1. SIZE \in Nat \ {0}
  BY GameAssumption
<1>2. z < m /\ z \in 0..(SIZE - 1)
  BY DEF Index
<1>3. (SIZE - 1) \in Z
  <2>1. SIZE - 1 - z \in Index /\ SIZE - 1 - (SIZE - 1 - z) = z
    BY <1>1, <1>2 DEF Index
  <2>2. SIZE - 1 - z < n
    BY <2>1
  <2>3. 0 \in Index /\ 0 < n
    BY <1>1, <1>2, <2>2 DEF Index
  <2>4. (SIZE - 1 - 0) \in Z
    BY <2>3
  <2> QED BY <1>1, <2>4
<1>4. SIZE - 1 < m
  <2>1. SIZE - 1 \in Index
    BY <1>1 DEF Index
  <2> QED BY <1>3, <2>1
<1> QED BY <1>1, <1>4

\* hasMoves in rows and columns.
LEMMA NoMovesInCells ==
    ASSUME NEW b \in Board
    PROVE  ~HasMoves(b) <=>
             /\ \A i \in Index, j \in Index : b[CellAt(i, j)] # 0
             /\ \A i \in Index, j \in Index : j + 1 \in Index =>
                  /\ b[CellAt(i, j)] # b[CellAt(i, j + 1)]
                  /\ b[CellAt(j, i)] # b[CellAt(j + 1, i)]
<1>1. SIZE \in Nat \ {0}
  BY GameAssumption
<1>2. EmptyCells(b) = {} <=> \A i \in Index, j \in Index : b[CellAt(i, j)] # 0
  BY CellsAreNumbered DEF EmptyCells
<1>3. \A j : j \in 0..(SIZE - 2) <=> j \in Index /\ j + 1 \in Index
  BY <1>1 DEF Index
<1>4. \A i \in Index, j \in Index :
        /\ i * SIZE + j = CellAt(i, j) /\ i * SIZE + j + 1 = CellAt(i, j + 1)
        /\ j * SIZE + i = CellAt(j, i) /\ (j + 1) * SIZE + i = CellAt(j + 1, i)
  <2> TAKE i \in Index, j \in Index
  <2>1. i * SIZE \in Int /\ j \in Int
    BY <1>1, Z3 DEF Index
  <2>2. i * SIZE + j + 1 = i * SIZE + (j + 1)
    BY <2>1
  <2> QED BY <2>2 DEF CellAt
<1>5. HasMoves(b) <=>
        \/ EmptyCells(b) # {}
        \/ \E i \in Index, j \in 0..(SIZE - 2) :
             \/ b[i * SIZE + j] = b[i * SIZE + j + 1]
             \/ b[j * SIZE + i] = b[(j + 1) * SIZE + i]
  BY DEF HasMoves, Index
<1>6. (\E i \in Index, j \in 0..(SIZE - 2) :
         \/ b[i * SIZE + j] = b[i * SIZE + j + 1]
         \/ b[j * SIZE + i] = b[(j + 1) * SIZE + i])
      <=> \E i \in Index, j \in Index :
            /\ j + 1 \in Index
            /\ \/ b[CellAt(i, j)] = b[CellAt(i, j + 1)]
               \/ b[CellAt(j, i)] = b[CellAt(j + 1, i)]
  BY <1>3, <1>4
<1> QED BY <1>2, <1>5, <1>6

\* A board with a tile is stuck in every direction exactly if it has no moves.
LEMMA StuckMeansNoMoves ==
    ASSUME NEW b \in Board, HasTile(b)
    PROVE  (\A dir \in Directions : Pushed(b, dir) = b) <=> ~HasMoves(b)
<1>1. SIZE \in Nat \ {0}
  BY GameAssumption
<1>2. "left" \in Directions /\ "right" \in Directions
      /\ "up" \in Directions /\ "down" \in Directions
  BY DEF Directions
<1>3. \A j \in Index : SIZE - 1 - j \in Index
  BY <1>1 DEF Index
<1>4. ASSUME \A dir \in Directions : Pushed(b, dir) = b PROVE ~HasMoves(b)
  <2>1. ASSUME NEW i \in Index, NEW z \in Index, b[CellAt(i, z)] # 0
        PROVE  Packed(b, "left", i, SIZE)
    <3>1. PICK m \in 0..SIZE : Packed(b, "left", i, m)
      BY <1>2, <1>4, StuckLineIsPacked
    <3>2. PICK n \in 0..SIZE : Packed(b, "right", i, n)
      BY <1>2, <1>4, StuckLineIsPacked
    <3> DEFINE Z == {j \in Index : b[CellAt(i, j)] # 0}
    <3>3. \A j \in Index : j \in Z <=> j < m
      BY <3>1, LinesAreRowsOrColumns DEF Packed
    <3>4. \A j \in Index : (SIZE - 1 - j) \in Z <=> j < n
      BY <1>3, <3>2, LinesAreRowsOrColumns DEF Packed
    <3>5. z \in Z
      BY <2>1
    <3> HIDE DEF Z
    <3>6. m = SIZE
      BY <3>3, <3>4, <3>5, FromBothEnds
    <3> QED BY <3>1, <3>6
  <2>2. ASSUME NEW i \in Index, NEW z \in Index, b[CellAt(z, i)] # 0
        PROVE  Packed(b, "up", i, SIZE)
    <3>1. PICK m \in 0..SIZE : Packed(b, "up", i, m)
      BY <1>2, <1>4, StuckLineIsPacked
    <3>2. PICK n \in 0..SIZE : Packed(b, "down", i, n)
      BY <1>2, <1>4, StuckLineIsPacked
    <3> DEFINE Z == {j \in Index : b[CellAt(j, i)] # 0}
    <3>3. \A j \in Index : j \in Z <=> j < m
      BY <3>1, LinesAreRowsOrColumns DEF Packed
    <3>4. \A j \in Index : (SIZE - 1 - j) \in Z <=> j < n
      BY <1>3, <3>2, LinesAreRowsOrColumns DEF Packed
    <3>5. z \in Z
      BY <2>2
    <3> HIDE DEF Z
    <3>6. m = SIZE
      BY <3>3, <3>4, <3>5, FromBothEnds
    <3> QED BY <3>1, <3>6
  <2>3. \A j \in Index : j < SIZE
    BY <1>1 DEF Index
  <2>4. \A i \in Index, j \in Index : b[CellAt(i, j)] # 0
    <3>1. PICK k \in Index : \E l \in Index : b[CellAt(k, l)] # 0
      BY CellsAreNumbered DEF HasTile
    <3>2. PICK l \in Index : b[CellAt(k, l)] # 0
      BY <3>1
    <3>3. \A j \in Index : b[CellAt(k, j)] # 0
      BY <2>1, <2>3, <3>2, LinesAreRowsOrColumns DEF Packed
    <3> TAKE i \in Index, j \in Index
    <3>4. Packed(b, "up", j, SIZE)
      BY <2>2, <3>3
    <3> QED BY <2>3, <3>4, LinesAreRowsOrColumns DEF Packed
  <2>5. ASSUME NEW i \in Index, NEW j \in Index, j + 1 \in Index
        PROVE  /\ b[CellAt(i, j)] # b[CellAt(i, j + 1)]
               /\ b[CellAt(j, i)] # b[CellAt(j + 1, i)]
    <3>1. Packed(b, "left", i, SIZE) /\ Packed(b, "up", i, SIZE) /\ j + 1 < SIZE
      BY <2>1, <2>2, <2>3, <2>4, <2>5
    <3> QED BY <3>1, LinesAreRowsOrColumns DEF Packed
  <2> QED BY <2>4, <2>5, NoMovesInCells
<1>5. ASSUME ~HasMoves(b), NEW dir \in Directions PROVE Pushed(b, dir) = b
  <2>1. \A i \in Index, j \in Index : b[CellAt(i, j)] # 0
    BY <1>5, NoMovesInCells
  <2>2. \A i \in Index, j \in Index : j + 1 \in Index =>
          /\ b[CellAt(i, j)] # b[CellAt(i, j + 1)]
          /\ b[CellAt(j, i)] # b[CellAt(j + 1, i)]
    BY <1>5, NoMovesInCells
  <2>3. \A j \in Index : j < SIZE /\ (j + 1 < SIZE => j + 1 \in Index)
    BY <1>1 DEF Index
  <2>4. \A j \in Index : j + 1 < SIZE =>
          /\ SIZE - 1 - (j + 1) \in Index
          /\ SIZE - 1 - (j + 1) + 1 = SIZE - 1 - j
    BY <1>1 DEF Index
  <2>5. ASSUME NEW i \in Index PROVE Packed(b, dir, i, SIZE)
    <3>1. CASE dir = "left"
      BY <2>1, <2>2, <2>3, <3>1, LinesAreRowsOrColumns DEF Packed
    <3>2. CASE dir = "up"
      BY <2>1, <2>2, <2>3, <3>2, LinesAreRowsOrColumns DEF Packed
    <3>3. CASE dir = "right"
      <4>1. \A j \in Index : b[LineCell(dir, i, j)] # 0 <=> j < SIZE
        BY <1>3, <2>1, <2>3, <3>3, LinesAreRowsOrColumns
      <4>2. ASSUME NEW j \in Index, j + 1 < SIZE
            PROVE  b[LineCell(dir, i, j)] # b[LineCell(dir, i, j + 1)]
        <5> DEFINE k == SIZE - 1 - (j + 1)
        <5>1. k \in Index /\ k + 1 = SIZE - 1 - j /\ k + 1 \in Index
          BY <1>3, <2>4, <4>2
        <5>2. b[CellAt(i, k)] # b[CellAt(i, k + 1)]
          BY <2>2, <5>1
        <5>3. LineCell(dir, i, j) = CellAt(i, k + 1)
              /\ LineCell(dir, i, j + 1) = CellAt(i, k)
          BY <3>3, <5>1, LinesAreRowsOrColumns
        <5> QED BY <5>2, <5>3
      <4> QED BY <4>1, <4>2 DEF Packed
    <3>4. CASE dir = "down"
      <4>1. \A j \in Index : b[LineCell(dir, i, j)] # 0 <=> j < SIZE
        BY <1>3, <2>1, <2>3, <3>4, LinesAreRowsOrColumns
      <4>2. ASSUME NEW j \in Index, j + 1 < SIZE
            PROVE  b[LineCell(dir, i, j)] # b[LineCell(dir, i, j + 1)]
        <5> DEFINE k == SIZE - 1 - (j + 1)
        <5>1. k \in Index /\ k + 1 = SIZE - 1 - j /\ k + 1 \in Index
          BY <1>3, <2>4, <4>2
        <5>2. b[CellAt(k, i)] # b[CellAt(k + 1, i)]
          BY <2>2, <5>1
        <5>3. LineCell(dir, i, j) = CellAt(k + 1, i)
              /\ LineCell(dir, i, j + 1) = CellAt(k, i)
          BY <3>4, <5>1, LinesAreRowsOrColumns
        <5> QED BY <5>2, <5>3
      <4> QED BY <4>1, <4>2 DEF Packed
    <3> QED BY <3>1, <3>2, <3>3, <3>4 DEF Directions
  <2>6. \A c \in Cells : Pushed(b, dir)[c] = b[c]
    <3> TAKE c \in Cells
    <3>1. PICK i \in Index : \E j \in Index : LineCell(dir, i, j) = c
      BY LinesCoverTheBoard
    <3>2. PICK j \in Index : LineCell(dir, i, j) = c
      BY <3>1
    <3> QED BY <2>5, <3>2, FullLineStays
  <2>7. Pushed(b, dir) \in Board
    BY PushedIsBoard
  <2> QED BY <2>6, <2>7 DEF Board
<1> QED BY <1>4, <1>5
-----------------------------------------------------------------------------
(* Points and boards.                                                      *)

\* Points over the lines of a board add up to a number.
LEMMA GainedIsNumber ==
    ASSUME NEW b \in Board, NEW dir \in Directions
    PROVE  Gained(b, dir) \in Nat
<1> DEFINE g(i) == Line(b, dir, i).gained
           some(s) == CHOOSE x \in s : TRUE
           Small(n) == {s \in SUBSET Index : Cardinality(s) <= n}
           Sums(f, n) == \A s \in Small(n) :
                           f[s] = IF s = {} THEN 0
                                  ELSE g(some(s)) + f[s \ {some(s)}]
           Eq(f) == f = [s \in SUBSET Index |->
                           IF s = {} THEN 0
                           ELSE g(some(s)) + f[s \ {some(s)}]]
           T == {n \in 0..SIZE : \E f \in [Small(n) -> Nat] : Sums(f, n)}
           H == CHOOSE f : Eq(f)
           N == {n \in 0..SIZE : \A s \in Small(n) : H[s] \in Nat}
<1>1. SIZE \in Nat \ {0}
  BY GameAssumption
<1>2. \A i \in Index : g(i) \in Nat
  BY LineIsOutcome DEF Outcome
<1>3. IsFiniteSet(Index) /\ Cardinality(Index) = SIZE
  BY <1>1, FS_Interval DEF Index
<1>4. \A s \in SUBSET Index :
        IsFiniteSet(s) /\ Cardinality(s) \in Nat /\ Cardinality(s) <= SIZE
  BY <1>1, <1>3, FS_Subset, FS_CardinalityType
<1>5. ASSUME NEW s \in SUBSET Index, s # {}
      PROVE  /\ some(s) \in s /\ some(s) \in Index /\ s \ {some(s)} \in SUBSET Index
             /\ Cardinality(s \ {some(s)}) = Cardinality(s) - 1
             /\ Cardinality(s) # 0
  <2>1. some(s) \in s
    BY <1>5
  <2> HIDE DEF some
  <2>2. Cardinality(s \ {some(s)}) = Cardinality(s) - 1
    BY <1>4, <2>1, FS_RemoveElement
  <2>3. Cardinality(s) # 0
    BY <1>4, <1>5, FS_EmptySet
  <2> QED BY <2>1, <2>2, <2>3
<1> HIDE DEF g, some
<1>6. Small(0) = {{}}
  BY <1>4, FS_EmptySet
<1>7. 0 \in T
  <2> DEFINE f == [s \in Small(0) |-> 0]
  <2>1. f \in [Small(0) -> Nat] /\ Sums(f, 0)
    BY <1>6
  <2> HIDE DEF f, Small, Sums
  <2> QED BY <1>1, <2>1
<1>8. ASSUME NEW n \in 0..SIZE, n \in T, n < SIZE PROVE n + 1 \in T
  <2>1. PICK f \in [Small(n) -> Nat] : Sums(f, n)
    BY <1>8
  <2> DEFINE h == [s \in Small(n + 1) |->
                     IF s = {} THEN 0 ELSE g(some(s)) + f[s \ {some(s)}]]
  <2>2. ASSUME NEW s \in Small(n + 1), s # {}
        PROVE  s \ {some(s)} \in Small(n) /\ g(some(s)) \in Nat
    BY <1>2, <1>4, <1>5, <2>2
  <2>3. h \in [Small(n + 1) -> Nat]
    <3> HIDE DEF Small
    <3> QED BY <2>2
  <2>4. \A s \in Small(n) : s \in Small(n + 1) /\ h[s] = f[s]
    <3>1. \A s \in Small(n) : s \in Small(n + 1)
      BY <1>4
    <3>2. \A s \in Small(n) : f[s] = IF s = {} THEN 0
                                     ELSE g(some(s)) + f[s \ {some(s)}]
      BY <2>1
    <3> HIDE DEF Small
    <3> QED BY <3>1, <3>2
  <2>5. Sums(h, n + 1)
    <3> SUFFICES ASSUME NEW s \in Small(n + 1)
                 PROVE  h[s] = IF s = {} THEN 0
                               ELSE g(some(s)) + h[s \ {some(s)}]
      BY Zenon
    <3>1. h[s] = IF s = {} THEN 0 ELSE g(some(s)) + f[s \ {some(s)}]
      <4> HIDE DEF Small
      <4> QED OBVIOUS
    <3> HIDE DEF h, Small
    <3> QED BY <2>2, <2>4, <3>1
  <2>6. n + 1 \in 0..SIZE
    BY <1>1, <1>8
  <2> HIDE DEF h, Small, Sums
  <2> QED BY <2>3, <2>5, <2>6
<1>9. \E f : Eq(f)
  <2>1. SIZE \in T
    <3> HIDE DEF T
    <3>1. \A n \in 0..SIZE : n \in T
      BY <1>1, <1>7, <1>8, Induction
    <3> QED BY <1>1, <3>1
  <2>2. PICK f \in [Small(SIZE) -> Nat] : Sums(f, SIZE)
    BY <2>1
  <2>3. Small(SIZE) = SUBSET Index
    BY <1>4
  <2> HIDE DEF Small
  <2>4. Eq(f)
    BY <2>2, <2>3
  <2> HIDE DEF Eq
  <2> QED BY <2>4
<1>10. Eq(H)
  <2> HIDE DEF Eq
  <2> QED BY <1>9, Zenon
<1> HIDE DEF H
<1>11. 0 \in N
  BY <1>1, <1>6, <1>10
<1>12. ASSUME NEW n \in 0..SIZE, n \in N, n < SIZE PROVE n + 1 \in N
  <2>1. ASSUME NEW s \in Small(n + 1) PROVE H[s] \in Nat
    <3>1. CASE s = {}
      BY <1>10, <3>1
    <3>2. CASE s # {}
      <4>1. s \ {some(s)} \in Small(n) /\ g(some(s)) \in Nat
        BY <1>2, <1>4, <1>5, <3>2
      <4>2. H[s] = g(some(s)) + H[s \ {some(s)}]
        BY <1>10, <3>2
      <4>3. H[s \ {some(s)}] \in Nat
        BY <1>12, <4>1
      <4> QED BY <4>1, <4>2, <4>3
    <3> QED BY <3>1, <3>2
  <2> QED BY <1>1, <1>12, <2>1
<1>13. H[Index] \in Nat
  <2> HIDE DEF N
  <2>1. \A n \in 0..SIZE : n \in N
    BY <1>1, <1>11, <1>12, Induction
  <2>2. SIZE \in N /\ Index \in Small(SIZE)
    BY <1>1, <1>3, <2>1
  <2> HIDE DEF Small
  <2> QED BY <2>2 DEF N
<1>14. Gained(b, dir) = H[Index]
  BY DEF Gained, MapThenSumSet, MapThenFoldSet, H, g, some, Index
<1> QED BY <1>13, <1>14

\* A board is none that is missing, and a tile is spawned on an empty cell.
LEMMA BoardIsSome ==
    /\ \A b \in Board : b # NoBoard
    /\ \A game \in GameOnBoard : game.board \in Board /\ game.score \in Nat /\ game # NoGame
<1>1. 0 \in Cells
  <2>1. SIZE * SIZE \in Nat \ {0}
    BY GameAssumption, Z3
  <2> QED BY <2>1 DEF Cells
<1>2. \A b \in Board : b # NoBoard
  <2> TAKE b \in Board
  <2>1. DOMAIN b = Cells /\ DOMAIN NoBoard = 1..0
    BY DEF Board, NoBoard
  <2> QED BY <1>1, <2>1
<1> QED BY <1>2 DEF GameOnBoard, NoGame

LEMMA SpawnedBoards ==
    ASSUME NEW b \in Board, NEW d \in Spawned(b)
    PROVE  d \in Board /\ HasTile(d)
<1>1. PICK c \in EmptyCells(b) : \E v \in {2, 4} : d = [b EXCEPT ![c] = v]
  BY DEF Spawned
<1>2. PICK v \in {2, 4} : d = [b EXCEPT ![c] = v]
  BY <1>1
<1>3. c \in Cells
  BY DEF EmptyCells
<1> QED BY <1>2, <1>3 DEF Board, HasTile

\* A new game has moves, unless the board is a single cell (and then there is
\* no new game).
LEMMA FreshBoardsHaveMoves ==
    ASSUME NEW b \in FreshBoards
    PROVE  b \in Board /\ HasTile(b) /\ HasMoves(b)
<1> DEFINE zero == [c \in Cells |-> 0]
<1>1. zero \in Board
  BY DEF Board
<1>2. PICK a \in Spawned(zero) : b \in Spawned(a)
  BY DEF FreshBoards
<1> HIDE DEF zero
<1>3. a \in Board /\ b \in Board /\ HasTile(b)
  BY <1>1, <1>2, SpawnedBoards
<1>4. PICK c \in Cells, e \in {2, 4} : a = [zero EXCEPT ![c] = e]
  BY <1>2 DEF Spawned, EmptyCells
<1>5. PICK d \in Cells, v \in {2, 4} : a[d] = 0 /\ b = [a EXCEPT ![d] = v]
  BY <1>2 DEF Spawned, EmptyCells
<1>6. c # d
  BY <1>1, <1>4, <1>5 DEF Board
<1>7. \E x \in Cells : x # c /\ x # d
  <2>1. SIZE # 1
    <3> SUFFICES ASSUME SIZE = 1 PROVE FALSE
      OBVIOUS
    <3>1. Cells = {0}
      BY DEF Cells
    <3> QED BY <1>6, <3>1
  <2>2. SIZE * SIZE >= 4 /\ SIZE * SIZE \in Nat
    <3>1. SIZE \in Nat /\ SIZE >= 2
      BY <2>1, GameAssumption
    <3>2. SIZE * SIZE >= 2 * SIZE
      BY <3>1, Z3
    <3> QED BY <3>1, <3>2, Z3
  <2>3. 0 \in Cells /\ 1 \in Cells /\ 2 \in Cells
    BY <2>2 DEF Cells
  <2>4. (0 # c /\ 0 # d) \/ (1 # c /\ 1 # d) \/ (2 # c /\ 2 # d)
    OBVIOUS
  <2> QED BY <2>3, <2>4
<1>8. PICK x \in Cells : x # c /\ x # d
  BY <1>7
<1>9. b[x] = 0
  <2>1. zero[x] = 0
    BY DEF zero
  <2> QED BY <1>1, <1>3, <1>4, <1>5, <1>8, <2>1 DEF Board
<1>10. HasMoves(b)
  BY <1>9 DEF HasMoves, EmptyCells
<1> QED BY <1>3, <1>10
-----------------------------------------------------------------------------
(* Requests on their way.                                                  *)

LEMMA KindsOfRequests ==
    /\ \A r \in Request : \/ r.kind = "put" /\ r.game \in GameOnBoard
                          \/ r.kind = "delete"
                          \/ r.kind = "score" /\ r.score \in Nat
    /\ \A game \in GameOnBoard : Put(game) \in Request
    /\ \A points \in Nat : Post(points) \in Request
    /\ Delete \in Request
BY DEF Request, Delete, Put, Post

\* Requests are sent: they are behind those that are on their way.
LEMMA MoreRequests ==
    ASSUME NEW s \in Seq(Request), NEW u \in Seq(Request), NEW t, t = s \o u
    PROVE  /\ t \in Seq(Request) /\ Len(t) = Len(s) + Len(u)
           /\ \A k \in 1..Len(s) : t[k] = s[k]
           /\ \A k \in (Len(s) + 1)..Len(t) : k - Len(s) \in 1..Len(u) /\ t[k] = u[k - Len(s)]
BY DEF Request

\* A request is handled or lost: those behind it move up.
LEMMA OneRequestLess ==
    ASSUME NEW s \in Seq(Request), NEW i \in 1..Len(s), NEW t, t = RemoveAt(s, i)
    PROVE  /\ t \in Seq(Request) /\ Len(t) = Len(s) - 1
           /\ \A k \in 1..Len(t) : t[k] = IF k < i THEN s[k] ELSE s[k + 1]
           /\ \A k \in 1..Len(t) : \E m \in 1..Len(s) : t[k] = s[m]
<1> DEFINE u == SubSeq(s, 1, i - 1)
           v == SubSeq(s, i + 1, Len(s))
<1>0. /\ i \in Nat /\ Len(s) \in Nat /\ 1 <= i /\ i <= Len(s)
      /\ t = u \o v
  BY DEF RemoveAt
<1>a. /\ u \in Seq(Request) /\ Len(u) = i - 1
      /\ \A k \in 1..(i - 1) : u[k] = s[k]
  BY <1>0
<1>b. /\ v \in Seq(Request) /\ Len(v) = Len(s) - i
      /\ \A k \in 1..(Len(s) - i) : v[k] = s[i + k]
  BY <1>0
<1> HIDE DEF u, v
<1>c. t \in Seq(Request) /\ Len(t) = Len(u) + Len(v)
  BY <1>0, <1>a, <1>b, MoreRequests
<1>1. t \in Seq(Request) /\ Len(t) = Len(s) - 1
  BY <1>0, <1>a, <1>b, <1>c
<1>2. ASSUME NEW k \in 1..Len(t) PROVE t[k] = IF k < i THEN s[k] ELSE s[k + 1]
  <2>1. t[k] = IF k <= Len(u) THEN u[k] ELSE v[k - Len(u)]
    BY <1>0, <1>1, <1>a, <1>b
  <2>2. CASE k < i
    BY <1>0, <1>a, <2>1, <2>2
  <2>3. CASE ~(k < i)
    <3>1. k - Len(u) \in 1..(Len(s) - i) /\ i + (k - Len(u)) = k + 1
      BY <1>0, <1>1, <1>a, <2>3
    <3> QED BY <1>0, <1>a, <1>b, <2>1, <2>3, <3>1
  <2> QED BY <2>2, <2>3
<1>3. ASSUME NEW k \in 1..Len(t) PROVE \E m \in 1..Len(s) : t[k] = s[m]
  <2>1. k \in 1..Len(s) /\ k + 1 \in 1..Len(s)
    BY <1>1
  <2> QED BY <1>2, <2>1
<1> QED BY <1>1, <1>2, <1>3

\* The requests of a game that is over.
LEMMA RequestsOfTheEnd ==
    ASSUME NEW points \in Nat, NEW done
    PROVE  /\ RequestsAtEnd(points, done) \in Seq(Request)
           /\ Len(RequestsAtEnd(points, done)) \in Nat \ {0}
           /\ RequestsAtEnd(points, done)[Len(RequestsAtEnd(points, done))] = Delete
           /\ \A k \in 1..Len(RequestsAtEnd(points, done)) :
                RequestsAtEnd(points, done)[k] \in {Post(points), Delete}
<1> DEFINE u == RequestsAtEnd(points, done)
           p == Post(points)
           d == Delete
<1>1. p \in Request /\ d \in Request
  BY KindsOfRequests
<1>2. u = (IF points = 0 \/ done THEN <<>> ELSE <<p>>) \o <<d>>
  BY DEF RequestsAtEnd
<1> HIDE DEF u, p, d
<1>3. /\ <<>> \in Seq(Request) /\ <<p>> \in Seq(Request) /\ <<d>> \in Seq(Request)
      /\ Len(<<>>) = 0 /\ Len(<<p>>) = 1 /\ <<p>>[1] = p
      /\ Len(<<d>>) = 1 /\ <<d>>[1] = d
  BY <1>1
<1>4. ASSUME NEW w \in Seq(Request), \A k \in 1..Len(w) : w[k] = p, u = w \o <<d>>
      PROVE  /\ u \in Seq(Request) /\ Len(u) \in Nat \ {0} /\ u[Len(u)] = d
             /\ \A k \in 1..Len(u) : u[k] \in {p, d}
  <2> DEFINE e == <<d>>
  <2>1. e \in Seq(Request) /\ Len(e) = 1 /\ e[1] = d /\ u = w \o e
    BY <1>3, <1>4
  <2> HIDE DEF e
  <2>2. Len(w) \in Nat /\ u \in Seq(Request) /\ Len(u) = Len(w) + 1
        /\ u[Len(u)] = d
    <3>0. e \in Seq(Request) /\ u = w \o e
      BY <2>1
    <3>1. u \in Seq(Request) /\ Len(u) = Len(w) + Len(e) /\ Len(w) \in Nat
      <4>1. Len(w) \in Nat
        OBVIOUS
      <4>2. u \in Seq(Request) /\ Len(u) = Len(w) + Len(e)
        BY <3>0, MoreRequests
      <4> QED BY <4>1, <4>2
    <3>2. \A k \in (Len(w) + 1)..Len(u) : u[k] = e[k - Len(w)]
      BY <2>1, MoreRequests
    <3>3. u[Len(w) + 1] = e[(Len(w) + 1) - Len(w)]
      BY <2>1, <3>1, <3>2
    <3> QED BY <2>1, <3>1, <3>3
  <2>3. \A k \in 1..Len(w) : u[k] = w[k]
    BY <2>1, MoreRequests
  <2>4. \A k \in 1..Len(u) : k = Len(u) \/ k \in 1..Len(w)
    BY <2>2
  <2> QED BY <1>4, <2>2, <2>3, <2>4
<1>5. CASE points = 0 \/ done
  <2>1. u = <<>> \o <<d>>
    BY <1>2, <1>5
  <2> QED BY <1>3, <1>4, <2>1 DEF u, p, d
<1>6. CASE ~(points = 0 \/ done)
  <2>1. u = <<p>> \o <<d>>
    BY <1>2, <1>6
  <2>2. \A k \in 1..Len(<<p>>) : <<p>>[k] = p
    <3>1. \A k \in 1..Len(<<p>>) : k = 1
      BY <1>3
    <3> QED BY <1>3, <3>1
  <2> QED BY <1>3, <1>4, <2>1, <2>2 DEF u, p, d
<1> QED BY <1>5, <1>6
-----------------------------------------------------------------------------
(* Types and scores.                                                       *)

TypedScores == GameTypeOK /\ ScoreInv

\* The new requests of a step.
LEMMA RequestsStayTyped ==
    ASSUME TypedScores, GameNext
    PROVE  sent' \in Seq(Request)
<1>1. sent \in Seq(Request) /\ score \in Nat /\ board \in Board \cup {NoBoard}
  BY DEF TypedScores, GameTypeOK
<1>2. ASSUME NEW dir \in Directions, Move(dir) PROVE sent' \in Seq(Request)
  <2>1. CASE UNCHANGED sent
    BY <1>1, <2>1
  <2>2. CASE GameOver(board', score')
    <3>1. score' \in Nat
      <4>1. board \in Board
        BY <1>1, <1>2 DEF Move
      <4>2. Gained(board, dir) \in Nat
        BY <4>1, GainedIsNumber
      <4> QED BY <1>1, <1>2, <4>2 DEF Move
    <3>2. RequestsAtEnd(score', submitted) \in Seq(Request)
      BY <3>1, RequestsOfTheEnd
    <3>3. sent' = sent \o RequestsAtEnd(score', submitted)
      BY <2>2 DEF GameOver
    <3> QED BY <1>1, <3>2, <3>3, MoreRequests
  <2> QED BY <1>2, <2>1, <2>2 DEF Move
<1>3. CASE StartNewGame
  <2>1. <<Delete>> \in Seq(Request)
    BY KindsOfRequests
  <2>2. sent' = sent \o <<Delete>>
    BY <1>3 DEF StartNewGame, RequestsOfNewGame
  <2> QED BY <1>1, <2>1, <2>2, MoreRequests
<1>4. CASE Leave
  <2>1. CASE ToSave
    <3>1. board \in Board
      BY <1>1, <2>1 DEF ToSave, TypedScores, ScoreInv
    <3>2. Put(Game(board, score)) \in Request
      BY <1>1, <3>1, KindsOfRequests DEF Game, GameOnBoard
    <3>3. sent' = Append(sent, Put(Game(board, score)))
      BY <1>4, <2>1 DEF Leave
    <3> QED BY <1>1, <3>2, <3>3
  <2> QED BY <1>1, <1>4, <2>1 DEF Leave
<1>5. ASSUME NEW i \in 1..Len(sent), Handle(i) \/ Lose(i) PROVE sent' \in Seq(Request)
  <2>1. sent' = RemoveAt(sent, i)
    BY <1>5 DEF Handle, Lose, Handled
  <2> QED BY <1>1, <2>1, OneRequestLess
<1>6. CASE Open \/ Restore \/ PlayAgain \/ GoOn \/ LoadState \/ LoadFails
  BY <1>1, <1>6 DEF Open, Restore, PlayAgain, GoOn, LoadState, LoadFails
<1> QED BY <1>2, <1>3, <1>4, <1>5, <1>6 DEF GameNext

LEMMA TypesStay ==
    ASSUME TypedScores, GameNext
    PROVE  GameTypeOK'
<1>1. /\ page \in {"closed", "open"} /\ asked \in {"no", "asked", "answered"}
      /\ answer \in GameOnBoard \cup {NoGame} /\ saved \in GameOnBoard \cup {NoGame}
      /\ left \in GameOnBoard \cup {NoGame}
      /\ board \in Board \cup {NoBoard}
      /\ score \in Nat /\ bestScore \in Nat /\ finals \subseteq Nat
      /\ sent \in Seq(Request)
      /\ moves \in 0..MaxMoves /\ news \in 0..MaxNew /\ lost \in 0..MaxLost
      /\ MaxMoves \in Nat /\ MaxNew \in Nat /\ MaxLost \in Nat
  BY GameAssumption DEF TypedScores, GameTypeOK
<1>2. {won, over, submitted, disturbed} \subseteq BOOLEAN
  BY DEF TypedScores, GameTypeOK
<1>3. board # NoBoard => board \in Board
  BY <1>1
<1>4. score > 0 => board \in Board
  BY <1>1, <1>3 DEF TypedScores, ScoreInv
<1> DEFINE Rest == /\ page' \in {"closed", "open"} /\ asked' \in {"no", "asked", "answered"}
                   /\ {answer', saved', left'} \subseteq GameOnBoard \cup {NoGame}
                   /\ board' \in Board \cup {NoBoard}
                   /\ score' \in Nat /\ bestScore' \in Nat /\ finals' \subseteq Nat
                   /\ moves' \in 0..MaxMoves
                   /\ news' \in 0..MaxNew /\ lost' \in 0..MaxLost
           Truths == {won', over', submitted', disturbed'} \subseteq BOOLEAN
<1>5. CASE Open
  <2>1. moves' \in 0..MaxMoves
    BY <1>1, <1>5 DEF Open
  <2>2. Rest
    BY <1>1, <1>5, <2>1 DEF Open, rowVars
  <2>3. Truths
    BY <1>2, <1>5 DEF Open
  <2> QED BY <2>2, <2>3, RequestsStayTyped DEF GameTypeOK
<1>6. CASE Restore
  <2>1. Rest
    BY <1>1, <1>6, BoardIsSome, FreshBoardsHaveMoves DEF Restore, Reset, boundVars, rowVars
  <2>2. Truths
    BY <1>2, <1>6 DEF Restore, Reset
  <2> QED BY <2>1, <2>2, RequestsStayTyped DEF GameTypeOK
<1>7. ASSUME NEW dir \in Directions, Move(dir) PROVE GameTypeOK'
  <2>1. board \in Board
    BY <1>3, <1>7 DEF Move
  <2>2. Gained(board, dir) \in Nat /\ Pushed(board, dir) \in Board
    BY <2>1, GainedIsNumber, PushedIsBoard
  <2>3. board' \in Board
    BY <1>7, <2>2, SpawnedBoards DEF Move
  <2>4. score' \in Nat /\ moves' \in 0..MaxMoves
    BY <1>1, <1>7, <2>2 DEF Move
  <2>5. finals' \subseteq Nat /\ left' \in GameOnBoard \cup {NoGame}
    BY <1>1, <1>7, <2>4 DEF Move, GameOver
  <2>6. Rest
    BY <1>1, <1>7, <2>3, <2>4, <2>5 DEF Move, rowVars
  <2>7. won' \in BOOLEAN /\ disturbed' \in BOOLEAN
    BY <1>2, <1>7 DEF Move
  <2>8. over' \in BOOLEAN /\ submitted' \in BOOLEAN
    BY <1>2, <1>7 DEF Move, GameOver
  <2>9. Truths
    BY <2>7, <2>8
  <2> QED BY <2>6, <2>9, RequestsStayTyped DEF GameTypeOK
<1>8. CASE StartNewGame
  <2>1. Rest
    BY <1>1, <1>8, FreshBoardsHaveMoves DEF StartNewGame, Reset, rowVars
  <2>2. Truths
    BY <1>2, <1>8 DEF StartNewGame, Reset
  <2> QED BY <2>1, <2>2, RequestsStayTyped DEF GameTypeOK
<1>9. CASE PlayAgain
  <2>1. Rest
    BY <1>1, <1>9, FreshBoardsHaveMoves DEF PlayAgain, Reset, rowVars
  <2>2. Truths
    BY <1>2, <1>9 DEF PlayAgain, Reset
  <2> QED BY <2>1, <2>2, RequestsStayTyped DEF GameTypeOK
<1>10. CASE GoOn
  <2>1. Rest
    BY <1>1, <1>10 DEF GoOn, rowVars, boundVars
  <2>2. Truths
    BY <1>2, <1>10 DEF GoOn
  <2> QED BY <2>1, <2>2, RequestsStayTyped DEF GameTypeOK
<1>11. CASE Leave
  <2>1. left' \in GameOnBoard \cup {NoGame}
    <3>1. score > 0 => Game(board, score) \in GameOnBoard
      BY <1>1, <1>4 DEF Game, GameOnBoard
    <3> QED BY <1>1, <1>11, <3>1 DEF Leave
  <2>2. Rest
    BY <1>1, <1>11, <2>1 DEF Leave, rowVars, boundVars
  <2>3. Truths
    BY <1>2, <1>11 DEF Leave
  <2> QED BY <2>2, <2>3, RequestsStayTyped DEF GameTypeOK
<1>12. CASE LoadState
  <2>1. Rest
    BY <1>1, <1>12 DEF LoadState, rowVars, boundVars
  <2>2. Truths
    BY <1>2, <1>12 DEF LoadState
  <2> QED BY <2>1, <2>2, RequestsStayTyped DEF GameTypeOK
<1>13. CASE LoadFails
  <2>1. Rest
    BY <1>1, <1>13 DEF LoadFails, rowVars, boundVars
  <2>2. Truths
    BY <1>2, <1>13 DEF LoadFails
  <2> QED BY <2>1, <2>2, RequestsStayTyped DEF GameTypeOK
<1>14. ASSUME NEW i \in 1..Len(sent), Handle(i) PROVE GameTypeOK'
  <2>1. sent[i] \in Request
    BY <1>1
  <2>2. saved' \in GameOnBoard \cup {NoGame}
    <3>1. sent[i].kind = "put" => sent[i].game \in GameOnBoard
      BY <2>1, KindsOfRequests
    <3> QED BY <1>1, <1>14, <3>1 DEF Handle
  <2>3. bestScore' \in Nat
    <3>1. sent[i].kind = "score" => sent[i].score \in Nat
      BY <2>1, KindsOfRequests
    <3> QED BY <1>1, <1>14, <3>1 DEF Handle, Best
  <2>4. Rest
    BY <1>1, <1>14, <2>2, <2>3 DEF Handle, Handled, pageVars
  <2>5. Truths
    BY <1>2, <1>14 DEF Handle, Handled, pageVars
  <2> QED BY <1>14, <2>4, <2>5, RequestsStayTyped DEF GameTypeOK
<1>15. ASSUME NEW i \in 1..Len(sent), Lose(i) PROVE GameTypeOK'
  <2>1. Rest
    BY <1>1, <1>15 DEF Lose, Handled, pageVars, rowVars
  <2>2. Truths
    BY <1>2, <1>15 DEF Lose, Handled, pageVars
  <2> QED BY <1>15, <2>1, <2>2, RequestsStayTyped DEF GameTypeOK
<1> QED BY <1>5, <1>6, <1>7, <1>8, <1>9, <1>10, <1>11, <1>12, <1>13, <1>14, <1>15
        DEF GameNext

LEMMA ScoresStay ==
    ASSUME TypedScores, GameNext
    PROVE  ScoreInv'
<1> DEFINE Counted(s, f) == \A k \in 1..Len(s) : s[k].kind = "score" => s[k].score \in f
<1>1. sent \in Seq(Request) /\ score \in Nat /\ board \in Board \cup {NoBoard}
      /\ (board = NoBoard => score = 0) /\ Counted(sent, finals)
  BY DEF TypedScores, GameTypeOK, ScoreInv
<1>2. sent' \in Seq(Request) /\ score' \in Nat
  BY RequestsStayTyped, TypesStay DEF GameTypeOK
<1>t. ScoreInv' <=> (board' = NoBoard => score' = 0) /\ Counted(sent', finals')
  BY DEF ScoreInv
<1>3. ASSUME sent' = sent, finals' = finals PROVE Counted(sent', finals')
  BY <1>1, <1>3
<1>4. ASSUME NEW u \in Seq(Request), sent' = sent \o u, finals \subseteq finals',
             Counted(u, finals')
      PROVE  Counted(sent', finals')
  <2> SUFFICES ASSUME NEW k \in 1..Len(sent'), sent'[k].kind = "score"
               PROVE  sent'[k].score \in finals'
    OBVIOUS
  <2>1. CASE k \in 1..Len(sent)
    <3>1. sent'[k] = sent[k]
      BY <1>1, <1>4, <2>1, MoreRequests
    <3> QED BY <1>1, <1>4, <2>1, <3>1
  <2>2. CASE k \notin 1..Len(sent)
    <3>1. k \in (Len(sent) + 1)..Len(sent')
      BY <1>1, <1>2, <2>2
    <3>2. k - Len(sent) \in 1..Len(u) /\ sent'[k] = u[k - Len(sent)]
      BY <1>1, <1>4, <3>1, MoreRequests
    <3> QED BY <1>4, <3>2
  <2> QED BY <2>1, <2>2
<1> HIDE DEF Counted
<1>5. CASE Open
  BY <1>1, <1>3, <1>5, <1>t DEF Open
<1>6. CASE Restore
  <2>1. board' # NoBoard
    BY <1>6, BoardIsSome, FreshBoardsHaveMoves DEF Restore, TypedScores, GameTypeOK
  <2> QED BY <1>3, <1>6, <1>t, <2>1 DEF Restore
<1>7. ASSUME NEW dir \in Directions, Move(dir) PROVE ScoreInv'
  <2>1. board' # NoBoard
    <3>1. Pushed(board, dir) \in Board
      BY <1>1, <1>7, PushedIsBoard DEF Move
    <3> QED BY <1>7, <3>1, SpawnedBoards, BoardIsSome DEF Move
  <2>2. CASE UNCHANGED <<sent, finals>>
    BY <1>3, <1>t, <2>1, <2>2
  <2>3. CASE GameOver(board', score')
    <3> DEFINE u == RequestsAtEnd(score', submitted)
    <3>1. u \in Seq(Request) /\ \A k \in 1..Len(u) : u[k] \in {Post(score'), Delete}
      BY <1>2, RequestsOfTheEnd
    <3>2. sent' = sent \o u /\ finals' = finals \cup {score'}
      BY <2>3 DEF GameOver
    <3> HIDE DEF u
    <3>3. Counted(u, finals')
      BY <3>1, <3>2 DEF Counted, Post, Delete
    <3>4. Counted(sent', finals')
      BY <1>4, <3>1, <3>2, <3>3
    <3> QED BY <1>t, <2>1, <3>4
  <2>4. UNCHANGED <<sent, finals>> \/ GameOver(board', score')
    BY <1>7 DEF Move
  <2> QED BY <2>2, <2>3, <2>4
<1>8. CASE StartNewGame
  <2> DEFINE u == <<Delete>>
  <2>1. u \in Seq(Request) /\ \A k \in 1..Len(u) : u[k] = Delete
    <3>1. u \in Seq(Request) /\ Len(u) = 1 /\ u[1] = Delete
      BY KindsOfRequests
    <3> HIDE DEF u
    <3> QED BY <3>1
  <2>2. sent' = sent \o u /\ finals' = finals /\ score' = 0
    BY <1>8 DEF StartNewGame, RequestsOfNewGame, Reset
  <2> HIDE DEF u
  <2>3. Counted(u, finals')
    BY <2>1 DEF Counted, Delete
  <2> QED BY <1>4, <1>t, <2>1, <2>2, <2>3
<1>9. CASE PlayAgain
  BY <1>3, <1>9, <1>t DEF PlayAgain, Reset
<1>10. CASE GoOn
  BY <1>1, <1>3, <1>10, <1>t DEF GoOn
<1>11. CASE Leave
  <2>1. board' = NoBoard /\ score' = 0 /\ finals' = finals
    BY <1>11 DEF Leave
  <2>2. CASE ToSave
    <3> DEFINE r == Put(Game(board, score))
    <3>1. r \in Request /\ r.kind = "put"
      <4>1. board \in Board
        BY <1>1, <2>2 DEF ToSave
      <4>2. Game(board, score) \in GameOnBoard
        BY <1>1, <4>1 DEF Game, GameOnBoard
      <4> QED BY <4>2, KindsOfRequests DEF Put
    <3>2. sent' = Append(sent, r)
      BY <1>11, <2>2 DEF Leave
    <3> HIDE DEF r
    <3>3. Counted(sent', finals')
      BY <1>1, <2>1, <3>1, <3>2 DEF Counted
    <3> QED BY <1>t, <2>1, <3>3
  <2>3. CASE ~ToSave
    <3>1. sent' = sent
      BY <1>11, <2>3 DEF Leave
    <3> QED BY <1>3, <1>t, <2>1, <3>1
  <2> QED BY <2>2, <2>3
<1>12. CASE LoadState
  BY <1>1, <1>3, <1>12, <1>t DEF LoadState
<1>13. CASE LoadFails
  BY <1>1, <1>3, <1>13, <1>t DEF LoadFails
<1>14. ASSUME NEW i \in 1..Len(sent), Handle(i) \/ Lose(i) PROVE ScoreInv'
  <2>1. sent' = RemoveAt(sent, i) /\ finals' = finals /\ board' = board /\ score' = score
    BY <1>14 DEF Handle, Lose, Handled, pageVars
  <2>2. \A k \in 1..Len(sent') : \E m \in 1..Len(sent) : sent'[k] = sent[m]
    BY <1>1, <2>1, OneRequestLess
  <2>3. Counted(sent', finals')
    BY <1>1, <2>1, <2>2 DEF Counted
  <2> QED BY <1>1, <1>t, <2>1, <2>3
<1> QED BY <1>5, <1>6, <1>7, <1>8, <1>9, <1>10, <1>11, <1>12, <1>13, <1>14 DEF GameNext

\* Types and scores hold in every state.
LEMMA TypedScoresInvariant == GameSpec => []TypedScores
<1>1. GameInit => TypedScores
  <2> SUFFICES ASSUME GameInit PROVE TypedScores
    OBVIOUS
  <2>1. saved \in GameOnBoard \cup {NoGame}
    BY OldGamesAssumption DEF GameInit
  <2>2. sent = <<>> /\ sent \in Seq(Request) /\ Len(sent) = 0
    BY DEF GameInit
  <2>3. ScoreInv
    BY <2>2 DEF GameInit, Unmounted, ScoreInv
  <2>4. moves \in 0..MaxMoves /\ news \in 0..MaxNew /\ lost \in 0..MaxLost
    BY GameAssumption DEF GameInit
  <2>5. GameTypeOK
    BY <2>1, <2>2, <2>4 DEF GameInit, Unmounted, GameTypeOK
  <2> QED BY <2>3, <2>5 DEF TypedScores
<1>2. TypedScores /\ [GameNext]_gameVars => TypedScores'
  <2> SUFFICES ASSUME TypedScores, [GameNext]_gameVars PROVE TypedScores'
    OBVIOUS
  <2>1. CASE GameNext
    BY <2>1, TypesStay, ScoresStay DEF TypedScores
  <2>2. CASE UNCHANGED gameVars
    BY <2>2 DEF TypedScores, GameTypeOK, ScoreInv, gameVars, pageVars, rowVars, boundVars
  <2> QED BY <2>1, <2>2
<1> QED BY <1>1, <1>2, PTL DEF GameSpec

\* Whatever the requests do to each other, the page and the row hold a board
\* or none, and scores are numbers (Game2048Page.vue:85-107, 243-250).
THEOREM GameTypeCorrect == GameSpec => []GameTypeOK
<1>1. TypedScores => GameTypeOK
  BY DEF TypedScores
<1> QED BY <1>1, TypedScoresInvariant, PTL

\* The best score rises only, and to the points of a finished game
\* (game2048.queries.js:3-19).
BestRises == bestScore' # bestScore => bestScore' > bestScore /\ bestScore' \in finals

THEOREM BestCorrect == GameSpec => BestOnlyRises
<1>1. TypedScores /\ [GameNext]_gameVars => [BestRises]_gameVars
  <2> SUFFICES ASSUME TypedScores, GameNext, bestScore' # bestScore
               PROVE  bestScore' > bestScore /\ bestScore' \in finals
    BY DEF BestRises
  <2>1. PICK i \in 1..Len(sent) : Handle(i)
    <3>1. ~(Open \/ Restore \/ StartNewGame \/ PlayAgain \/ GoOn \/ Leave
              \/ LoadState \/ LoadFails)
      BY DEF Open, Restore, StartNewGame, PlayAgain, GoOn, Leave, LoadState, LoadFails,
             rowVars
    <3>2. ~\E dir \in Directions : Move(dir)
      BY DEF Move, rowVars
    <3>3. ~\E i \in 1..Len(sent) : Lose(i)
      BY DEF Lose, rowVars
    <3> QED BY <3>1, <3>2, <3>3 DEF GameNext
  <2>2. sent[i].kind = "score" /\ bestScore' = Best(sent[i].score)
    BY <2>1 DEF Handle
  <2>3. sent[i].score \in finals /\ finals \subseteq Nat /\ bestScore \in Nat
    BY <2>2 DEF TypedScores, ScoreInv, GameTypeOK
  <2> QED BY <2>2, <2>3 DEF Best
<1>2. BestOnlyRises <=> [][BestRises]_gameVars
  BY PTL DEF BestOnlyRises, BestRises
<1> QED BY <1>1, <1>2, TypedScoresInvariant, PTL DEF GameSpec
-----------------------------------------------------------------------------
(* A game is over exactly when it is stuck.                                *)

\* Requests that would be saved are those that were on their way, and the one
\* of a page that goes.
PutsAlive(s) == \A k \in 1..Len(s) : s[k].kind = "put" => Alive(s[k].game)

LEMMA OverStays ==
    ASSUME TypedScores, OverInv, GameNext
    PROVE  OverInv'
<1>1. /\ sent \in Seq(Request) /\ score \in Nat /\ board \in Board \cup {NoBoard}
      /\ (board = NoBoard => score = 0) /\ answer \in GameOnBoard \cup {NoGame}
  BY DEF TypedScores, GameTypeOK, ScoreInv
<1>2. /\ board # NoBoard => HasTile(board) /\ (over <=> ~HasMoves(board))
      /\ Alive(saved) /\ Alive(answer) /\ PutsAlive(sent)
  BY DEF OverInv, PutsAlive
<1>t. OverInv' <=> /\ board' # NoBoard => HasTile(board') /\ (over' <=> ~HasMoves(board'))
                   /\ Alive(saved') /\ Alive(answer') /\ PutsAlive(sent')
  BY DEF OverInv, PutsAlive
<1>n. Alive(NoGame)
  BY DEF Alive
<1>3. ASSUME sent' = sent PROVE PutsAlive(sent')
  BY <1>2, <1>3
<1>4. ASSUME NEW u \in Seq(Request), sent' = sent \o u,
             \A k \in 1..Len(u) : u[k].kind # "put"
      PROVE  PutsAlive(sent')
  <2> SUFFICES ASSUME NEW k \in 1..Len(sent'), sent'[k].kind = "put"
               PROVE  Alive(sent'[k].game)
    BY DEF PutsAlive
  <2>1. CASE k \in 1..Len(sent)
    <3>1. sent'[k] = sent[k]
      BY <1>1, <1>4, <2>1, MoreRequests
    <3> QED BY <1>2, <2>1, <3>1 DEF PutsAlive
  <2>2. CASE k \notin 1..Len(sent)
    <3>1. k \in (Len(sent) + 1)..Len(sent')
      BY <1>1, <1>4, <2>2, MoreRequests
    <3>2. k - Len(sent) \in 1..Len(u) /\ sent'[k] = u[k - Len(sent)]
      BY <1>1, <1>4, <3>1, MoreRequests
    <3> QED BY <1>4, <3>2
  <2> QED BY <2>1, <2>2
<1>f. ASSUME NEW b \in FreshBoards PROVE HasTile(b) /\ HasMoves(b)
  BY FreshBoardsHaveMoves
<1>5. CASE Open
  BY <1>2, <1>3, <1>5, <1>t DEF Open, rowVars
<1>6. CASE Restore
  <2>1. saved' = saved /\ sent' = sent /\ answer' = NoGame
    BY <1>6 DEF Restore, rowVars
  <2>2. CASE answer # NoGame
    <3>1. board' = answer.board /\ over' = FALSE
      BY <1>6, <2>2 DEF Restore
    <3>2. HasTile(answer.board) /\ HasMoves(answer.board)
      BY <1>2, <2>2 DEF Alive
    <3> QED BY <1>2, <1>3, <1>n, <1>t, <2>1, <3>1, <3>2
  <2>3. CASE answer = NoGame
    <3>1. board' \in FreshBoards /\ over' = FALSE
      BY <1>6, <2>3 DEF Restore, Reset
    <3> QED BY <1>2, <1>3, <1>f, <1>n, <1>t, <2>1, <3>1
  <2> QED BY <2>2, <2>3
<1>7. ASSUME NEW dir \in Directions, Move(dir) PROVE OverInv'
  <2>1. saved' = saved /\ answer' = answer /\ ~over
    BY <1>7 DEF Move, rowVars
  <2>2. HasTile(board')
    <3>1. Pushed(board, dir) \in Board
      BY <1>1, <1>7, PushedIsBoard DEF Move
    <3> QED BY <1>7, <3>1, SpawnedBoards DEF Move
  <2>3. CASE HasMoves(board')
    <3>1. over' = over /\ sent' = sent
      BY <1>7, <2>3 DEF Move
    <3> QED BY <1>2, <1>3, <1>t, <2>1, <2>2, <2>3, <3>1
  <2>4. CASE ~HasMoves(board')
    <3> DEFINE u == RequestsAtEnd(score', submitted)
    <3>1. over' = TRUE /\ sent' = sent \o u
      BY <1>7, <2>4 DEF Move, GameOver
    <3>2. u \in Seq(Request) /\ \A k \in 1..Len(u) : u[k].kind # "put"
      <4>1. score' \in Nat
        BY TypesStay DEF GameTypeOK
      <4>2. u \in Seq(Request) /\ \A k \in 1..Len(u) : u[k] \in {Post(score'), Delete}
        BY <4>1, RequestsOfTheEnd
      <4> HIDE DEF u
      <4> QED BY <4>2 DEF Post, Delete
    <3> HIDE DEF u
    <3>3. PutsAlive(sent')
      BY <1>4, <3>1, <3>2
    <3> QED BY <1>2, <1>t, <2>1, <2>2, <2>4, <3>1, <3>3
  <2> QED BY <2>3, <2>4
<1>8. CASE StartNewGame
  <2> DEFINE u == <<Delete>>
  <2>1. u \in Seq(Request) /\ \A k \in 1..Len(u) : u[k].kind # "put"
    <3>1. u \in Seq(Request) /\ Len(u) = 1 /\ u[1] = Delete
      BY KindsOfRequests
    <3> HIDE DEF u
    <3>2. \A k \in 1..Len(u) : u[k] = Delete
      BY <3>1
    <3> QED BY <3>1, <3>2 DEF Delete
  <2>2. /\ sent' = sent \o u /\ board' \in FreshBoards /\ over' = FALSE
        /\ saved' = saved /\ answer' = answer
    BY <1>8 DEF StartNewGame, RequestsOfNewGame, Reset, rowVars
  <2> HIDE DEF u
  <2>3. PutsAlive(sent')
    BY <1>4, <2>1, <2>2
  <2> QED BY <1>2, <1>f, <1>t, <2>2, <2>3
<1>9. CASE PlayAgain
  <2>1. /\ sent' = sent /\ board' \in FreshBoards /\ over' = FALSE
        /\ saved' = saved /\ answer' = answer
    BY <1>9 DEF PlayAgain, Reset, rowVars
  <2> QED BY <1>2, <1>3, <1>f, <1>t, <2>1
<1>10. CASE GoOn
  BY <1>2, <1>3, <1>10, <1>t DEF GoOn, rowVars
<1>11. CASE Leave
  <2>1. board' = NoBoard /\ saved' = saved /\ answer' = NoGame
    BY <1>11 DEF Leave, rowVars
  <2>2. CASE ToSave
    <3> DEFINE r == Put(Game(board, score))
    <3>1. r \in Request /\ Alive(r.game)
      <4>1. board \in Board /\ board # NoBoard
        BY <1>1, <2>2 DEF ToSave
      <4>2. HasTile(board) /\ HasMoves(board)
        BY <1>2, <2>2, <4>1 DEF ToSave
      <4>3. Game(board, score) \in GameOnBoard
        BY <1>1, <4>1 DEF Game, GameOnBoard
      <4>4. r.game = Game(board, score) /\ r \in Request
        BY <4>3, KindsOfRequests DEF Put
      <4> HIDE DEF r
      <4> QED BY <4>2, <4>4 DEF Alive, Game
    <3>2. sent' = Append(sent, r)
      BY <1>11, <2>2 DEF Leave
    <3> HIDE DEF r
    <3>3. PutsAlive(sent')
      BY <1>1, <1>2, <3>1, <3>2 DEF PutsAlive
    <3> QED BY <1>2, <1>n, <1>t, <2>1, <3>3
  <2>3. CASE ~ToSave
    <3>1. sent' = sent
      BY <1>11, <2>3 DEF Leave
    <3> QED BY <1>2, <1>3, <1>n, <1>t, <2>1, <3>1
  <2> QED BY <2>2, <2>3
<1>12. CASE LoadState
  <2>1. /\ sent' = sent /\ board' = board /\ over' = over /\ saved' = saved
        /\ answer' \in {saved, NoGame}
    BY <1>12 DEF LoadState, rowVars
  <2> QED BY <1>2, <1>3, <1>n, <1>t, <2>1
<1>13. CASE LoadFails
  BY <1>2, <1>3, <1>n, <1>13, <1>t DEF LoadFails, rowVars
<1>14. ASSUME NEW i \in 1..Len(sent), Handle(i) \/ Lose(i) PROVE OverInv'
  <2>1. /\ sent' = RemoveAt(sent, i) /\ board' = board /\ over' = over
        /\ answer' = answer
    BY <1>14 DEF Handle, Lose, Handled, pageVars
  <2>2. \A k \in 1..Len(sent') : \E m \in 1..Len(sent) : sent'[k] = sent[m]
    <3>1. sent \in Seq(Request) /\ sent' = RemoveAt(sent, i)
      BY <1>1, <2>1
    <3> DEFINE t == sent'
    <3>2. t = RemoveAt(sent, i)
      BY <3>1
    <3> HIDE DEF t
    <3>3. \A k \in 1..Len(t) : t[k] = IF k < i THEN sent[k] ELSE sent[k + 1]
      BY <3>1, <3>2, OneRequestLess
    <3>4. Len(t) = Len(sent) - 1
      BY <3>1, <3>2, OneRequestLess
    <3>5. ASSUME NEW k \in 1..Len(t) PROVE \E m \in 1..Len(sent) : t[k] = sent[m]
      <4>1. k \in 1..Len(sent) /\ k + 1 \in 1..Len(sent)
        BY <3>1, <3>4
      <4>2. t[k] = sent[k] \/ t[k] = sent[k + 1]
        BY <3>3
      <4> QED BY <4>1, <4>2
    <3> QED BY <3>5 DEF t
  <2>3. PutsAlive(sent')
    BY <1>2, <2>2 DEF PutsAlive
  <2>4. Alive(saved')
    <3>1. CASE Handle(i)
      BY <1>2, <1>n, <3>1 DEF Handle, PutsAlive
    <3>2. CASE Lose(i)
      BY <1>2, <3>2 DEF Lose, rowVars
    <3> QED BY <1>14, <3>1, <3>2
  <2> QED BY <1>2, <1>t, <2>1, <2>3, <2>4
<1> QED BY <1>5, <1>6, <1>7, <1>8, <1>9, <1>10, <1>11, <1>12, <1>13, <1>14 DEF GameNext

LEMMA OverInvariant == GameSpec => []OverInv
<1>1. GameInit => OverInv
  <2> SUFFICES ASSUME GameInit PROVE OverInv
    OBVIOUS
  <2>1. Alive(saved)
    BY OldGamesAssumption DEF GameInit
  <2>2. sent = <<>> /\ Len(sent) = 0
    BY DEF GameInit
  <2>3. board = NoBoard /\ Alive(answer)
    BY DEF GameInit, Unmounted, Alive
  <2> QED BY <2>1, <2>2, <2>3 DEF OverInv
<1>2. TypedScores /\ OverInv /\ [GameNext]_gameVars => OverInv'
  <2> SUFFICES ASSUME TypedScores, OverInv, [GameNext]_gameVars PROVE OverInv'
    OBVIOUS
  <2>1. CASE GameNext
    BY <2>1, OverStays
  <2>2. CASE UNCHANGED gameVars
    BY <2>2 DEF OverInv, gameVars, pageVars, rowVars
  <2> QED BY <2>1, <2>2
<1> QED BY <1>1, <1>2, TypedScoresInvariant, PTL DEF GameSpec

\* The page calls a game over exactly when no direction moves a tile, and a
\* saved game can be gone on with, on a board of any size
\* (Game2048Page.vue:109-114, 243).
THEOREM OverMeansStuckCorrect == GameSpec => []OverMeansStuck
<1>1. TypedScores /\ OverInv => OverMeansStuck
  <2> SUFFICES ASSUME TypedScores, OverInv PROVE OverMeansStuck
    OBVIOUS
  <2> DEFINE stuck(b) == \A dir \in Directions : Pushed(b, dir) = b
  <2>1. board \in Board \cup {NoBoard} /\ saved \in GameOnBoard \cup {NoGame}
    BY DEF TypedScores, GameTypeOK
  <2>2. ASSUME board # NoBoard PROVE over <=> stuck(board)
    <3>1. HasTile(board) /\ (over <=> ~HasMoves(board)) /\ board \in Board
      BY <2>1, <2>2 DEF OverInv
    <3>2. stuck(board) <=> ~HasMoves(board)
      BY <3>1, StuckMeansNoMoves
    <3> QED BY <3>1, <3>2
  <2>3. ASSUME saved # NoGame PROVE ~stuck(saved.board)
    <3>1. saved.board \in Board /\ HasTile(saved.board) /\ HasMoves(saved.board)
      BY <2>1, <2>3 DEF OverInv, Alive, GameOnBoard
    <3>2. stuck(saved.board) <=> ~HasMoves(saved.board)
      BY <3>1, StuckMeansNoMoves
    <3> QED BY <3>1, <3>2
  <2> QED BY <2>2, <2>3 DEF OverMeansStuck
<1> QED BY <1>1, TypedScoresInvariant, OverInvariant, PTL
-----------------------------------------------------------------------------
(* What is saved is what was left.                                         *)

\* The last of some requests about the saved game says g; without any, the row
\* holds it.
Says(r) == IF r.kind = "put" THEN r.game ELSE NoGame
LastSays(s, row, g) ==
    \/ \E i \in 1..Len(s) : /\ s[i].kind # "score" /\ Says(s[i]) = g
                            /\ \A k \in (i + 1)..Len(s) : s[k].kind = "score"
    \/ /\ \A i \in 1..Len(s) : s[i].kind = "score"
       /\ row = g

\* A new request about the saved game has the last word.
LEMMA LastRequestSays ==
    ASSUME NEW s \in Seq(Request), NEW row, NEW g, Len(s) # 0,
           s[Len(s)].kind # "score", Says(s[Len(s)]) = g
    PROVE  LastSays(s, row, g)
<1>1. Len(s) \in 1..Len(s) /\ \A k \in (Len(s) + 1)..Len(s) : FALSE
  OBVIOUS
<1> QED BY <1>1 DEF LastSays

\* The first request is handled: the others say the same.
LEMMA FirstIsHandled ==
    ASSUME NEW s \in Seq(Request), s # <<>>, NEW t, t = RemoveAt(s, 1),
           NEW row, NEW g, LastSays(s, row, g), NEW after,
           after = IF s[1].kind = "score" THEN row ELSE Says(s[1])
    PROVE  LastSays(t, after, g)
<1>1. 1 \in 1..Len(s) /\ Len(s) \in Nat
  OBVIOUS
<1>2. Len(t) = Len(s) - 1 /\ \A k \in 1..Len(t) : t[k] = s[k + 1]
  <2>1. Len(t) = Len(s) - 1
    BY <1>1, OneRequestLess
  <2>2. \A k \in 1..Len(t) : t[k] = IF k < 1 THEN s[k] ELSE s[k + 1]
    BY <1>1, OneRequestLess
  <2> QED BY <2>1, <2>2
<1>3. ASSUME NEW i \in 1..Len(s), s[i].kind # "score", Says(s[i]) = g,
             \A k \in (i + 1)..Len(s) : s[k].kind = "score"
      PROVE  LastSays(t, after, g)
  <2>1. CASE i = 1
    <3>1. after = g
      BY <1>3, <2>1
    <3>2. \A k \in 1..Len(t) : t[k].kind = "score"
      <4> TAKE k \in 1..Len(t)
      <4>1. k + 1 \in (i + 1)..Len(s)
        BY <1>1, <1>2, <2>1
      <4> QED BY <1>2, <1>3, <4>1
    <3> QED BY <3>1, <3>2 DEF LastSays
  <2>2. CASE i # 1
    <3>1. i - 1 \in 1..Len(t) /\ (i - 1) + 1 = i
      BY <1>1, <1>2, <2>2
    <3>2. t[i - 1] = s[i]
      BY <1>2, <3>1
    <3>3. \A k \in ((i - 1) + 1)..Len(t) : t[k].kind = "score"
      <4> TAKE k \in ((i - 1) + 1)..Len(t)
      <4>1. k + 1 \in (i + 1)..Len(s) /\ k \in 1..Len(t)
        BY <1>1, <1>2, <3>1
      <4> QED BY <1>2, <1>3, <4>1
    <3> QED BY <1>3, <3>1, <3>2, <3>3 DEF LastSays
  <2> QED BY <2>1, <2>2
<1>4. ASSUME \A i \in 1..Len(s) : s[i].kind = "score", row = g
      PROVE  LastSays(t, after, g)
  <2>1. after = g
    BY <1>1, <1>4
  <2>2. \A k \in 1..Len(t) : t[k].kind = "score"
    <3> TAKE k \in 1..Len(t)
    <3>1. k + 1 \in 1..Len(s)
      BY <1>1, <1>2
    <3> QED BY <1>2, <1>4, <3>1
  <2> QED BY <2>1, <2>2 DEF LastSays
<1> QED BY <1>3, <1>4 DEF LastSays

LEMMA LastSaidSays ==
    /\ LastSaid <=> LastSays(sent, saved, left)
    /\ LastSaid' <=> LastSays(sent', saved', left')
BY DEF LastSaid, LastSays, AboutSaved, Said, Says

PutsValid(s) == \A k \in 1..Len(s) : s[k].kind = "put" => ValidState(s[k].game)

LEMMA SavedStays ==
    ASSUME TypedScores, SavedInv, Fits, GameNext
    PROVE  SavedInv'
<1>1. /\ sent \in Seq(Request) /\ sent' \in Seq(Request)
      /\ score \in Nat /\ board \in Board \cup {NoBoard}
      /\ (board = NoBoard => score = 0)
  BY RequestsStayTyped DEF TypedScores, GameTypeOK, ScoreInv
<1>2. /\ over => left = NoGame
      /\ PutsValid(sent)
      /\ ~disturbed => LastSays(sent, saved, left)
  BY LastSaidSays DEF SavedInv, PutsValid
<1>t. SavedInv' <=> /\ over' => left' = NoGame
                    /\ PutsValid(sent')
                    /\ ~disturbed' => LastSays(sent', saved', left')
  BY LastSaidSays DEF SavedInv, PutsValid
<1>3. ASSUME NEW u \in Seq(Request), sent' = sent \o u, Len(u) # 0, u[Len(u)] = Delete,
             \A k \in 1..Len(u) : u[k].kind # "put", left' = NoGame
      PROVE  SavedInv'
  <2>1. Len(sent') = Len(sent) + Len(u) /\ Len(sent) \in Nat /\ Len(u) \in Nat
    <3>1. Len(sent') = Len(sent) + Len(u)
      BY <1>1, <1>3, MoreRequests
    <3> QED BY <1>1, <3>1
  <2>2. sent'[Len(sent')] = Delete
    <3>1. Len(sent') \in (Len(sent) + 1)..Len(sent') /\ Len(sent') - Len(sent) = Len(u)
      BY <1>3, <2>1
    <3>2. sent'[Len(sent')] = u[Len(sent') - Len(sent)]
      BY <1>1, <1>3, <3>1, MoreRequests
    <3> QED BY <1>3, <3>1, <3>2
  <2>3. LastSays(sent', saved', left')
    <3>1. Delete.kind # "score" /\ Says(Delete) = NoGame
      BY DEF Delete, Says
    <3>2. Len(sent') # 0
      BY <1>3, <2>1
    <3> QED BY <1>1, <1>3, <2>2, <3>1, <3>2, LastRequestSays
  <2>4. ASSUME NEW k \in 1..Len(sent'), sent'[k].kind = "put"
        PROVE  ValidState(sent'[k].game)
    <3>1. CASE k \in 1..Len(sent)
      <4>1. sent'[k] = sent[k]
        BY <1>1, <1>3, <3>1, MoreRequests
      <4> QED BY <1>2, <2>4, <3>1, <4>1 DEF PutsValid
    <3>2. CASE k \notin 1..Len(sent)
      <4>1. k \in (Len(sent) + 1)..Len(sent')
        BY <2>1, <3>2
      <4>2. k - Len(sent) \in 1..Len(u) /\ sent'[k] = u[k - Len(sent)]
        BY <1>1, <1>3, <4>1, MoreRequests
      <4> QED BY <1>3, <2>4, <4>2
    <3> QED BY <3>1, <3>2
  <2> QED BY <1>3, <1>t, <2>3, <2>4 DEF PutsValid
<1>4. CASE Open
  BY <1>2, <1>4, <1>t DEF Open, rowVars
<1>5. CASE Restore
  <2>1. /\ sent' = sent /\ saved' = saved /\ left' = left /\ disturbed' = disturbed
        /\ over' = FALSE
    BY <1>5 DEF Restore, Reset, rowVars
  <2> QED BY <1>2, <1>t, <2>1
<1>6. ASSUME NEW dir \in Directions, Move(dir) PROVE SavedInv'
  <2>1. CASE HasMoves(board')
    <3>1. /\ sent' = sent /\ saved' = saved /\ left' = left /\ disturbed' = disturbed
          /\ over' = over
      BY <1>6, <2>1 DEF Move, rowVars
    <3> QED BY <1>2, <1>t, <3>1
  <2>2. CASE ~HasMoves(board')
    <3> DEFINE u == RequestsAtEnd(score', submitted)
    <3>1. left' = NoGame /\ sent' = sent \o u
      BY <1>6, <2>2 DEF Move, GameOver
    <3>2. score' \in Nat
      BY TypesStay DEF GameTypeOK
    <3>3. /\ u \in Seq(Request) /\ Len(u) # 0 /\ u[Len(u)] = Delete
          /\ \A k \in 1..Len(u) : u[k] \in {Post(score'), Delete}
      BY <3>2, RequestsOfTheEnd
    <3> HIDE DEF u
    <3>4. \A k \in 1..Len(u) : u[k].kind # "put"
      BY <3>3 DEF Post, Delete
    <3> QED BY <1>3, <3>1, <3>3, <3>4
  <2> QED BY <2>1, <2>2
<1>7. CASE StartNewGame
  <2> DEFINE u == <<Delete>>
  <2>1. sent' = sent \o u /\ left' = NoGame
    BY <1>7 DEF StartNewGame, RequestsOfNewGame
  <2>2. u \in Seq(Request) /\ Len(u) = 1 /\ u[1] = Delete
    BY KindsOfRequests
  <2> HIDE DEF u
  <2>3. Len(u) # 0 /\ u[Len(u)] = Delete
    BY <2>2
  <2>4. \A k \in 1..Len(u) : u[k].kind # "put"
    <3>1. \A k \in 1..Len(u) : u[k] = Delete
      BY <2>2
    <3> QED BY <3>1 DEF Delete
  <2> QED BY <1>3, <2>1, <2>2, <2>3, <2>4
<1>8. CASE PlayAgain
  <2>1. /\ sent' = sent /\ saved' = saved /\ left' = NoGame /\ over' = FALSE
        /\ (~disturbed' => ~disturbed /\ over)
    BY <1>8 DEF PlayAgain, Reset, rowVars
  <2> QED BY <1>2, <1>t, <2>1
<1>9. CASE GoOn
  BY <1>2, <1>9, <1>t DEF GoOn, rowVars
<1>10. CASE Leave
  <2>1. saved' = saved /\ disturbed' = disturbed /\ over' = FALSE
    BY <1>10 DEF Leave, rowVars
  <2>2. CASE ToSave
    <3> DEFINE game == Game(board, score)
               r == Put(game)
    <3>1. sent' = Append(sent, r) /\ left' = game
      BY <1>10, <2>2 DEF Leave, ToSave
    <3>2. ValidState(game)
      BY <2>2 DEF Fits
    <3>3. r \in Request /\ r.kind = "put" /\ r.game = game
      <4>1. board \in Board
        BY <1>1, <2>2 DEF ToSave
      <4>2. game \in GameOnBoard
        BY <1>1, <4>1 DEF Game, GameOnBoard
      <4> HIDE DEF game
      <4> QED BY <4>2, KindsOfRequests DEF Put
    <3> HIDE DEF game, r
    <3>4. /\ Len(sent') = Len(sent) + 1 /\ Len(sent) \in Nat /\ sent'[Len(sent')] = r
          /\ \A k \in 1..Len(sent) : sent'[k] = sent[k]
      BY <1>1, <3>1, <3>3
    <3>5. LastSays(sent', saved', left')
      <4>1. Len(sent') # 0
        BY <3>4
      <4>2. r.kind # "score" /\ Says(r) = game
        BY <3>3 DEF Says
      <4> QED BY <1>1, <3>1, <3>4, <4>1, <4>2, LastRequestSays
    <3>6. ASSUME NEW k \in 1..Len(sent'), sent'[k].kind = "put"
          PROVE  ValidState(sent'[k].game)
      <4>1. k = Len(sent') \/ k \in 1..Len(sent)
        BY <3>4
      <4> QED BY <1>2, <3>2, <3>3, <3>4, <3>6, <4>1 DEF PutsValid
    <3> QED BY <1>t, <2>1, <3>5, <3>6 DEF PutsValid
  <2>3. CASE ~ToSave
    <3>1. sent' = sent /\ left' = left
      BY <1>10, <2>3 DEF Leave, ToSave
    <3> QED BY <1>2, <1>t, <2>1, <3>1
  <2> QED BY <2>2, <2>3
<1>11. CASE LoadState
  <2>1. /\ sent' = sent /\ saved' = saved /\ left' = left /\ over' = over
        /\ (~disturbed' => ~disturbed)
    BY <1>11 DEF LoadState, rowVars
  <2> QED BY <1>2, <1>t, <2>1
<1>12. CASE LoadFails
  <2>1. sent' = sent /\ left' = left /\ over' = over /\ disturbed'
    BY <1>12 DEF LoadFails
  <2> QED BY <1>2, <1>t, <2>1
<1>13. ASSUME NEW i \in 1..Len(sent), sent' = RemoveAt(sent, i) PROVE PutsValid(sent')
  <2> SUFFICES ASSUME NEW k \in 1..Len(sent'), sent'[k].kind = "put"
               PROVE  ValidState(sent'[k].game)
    BY DEF PutsValid
  <2>1. Len(sent') = Len(sent) - 1
    BY <1>1, <1>13, OneRequestLess
  <2>2. sent'[k] = IF k < i THEN sent[k] ELSE sent[k + 1]
    BY <1>1, <1>13, OneRequestLess
  <2>3. k \in 1..Len(sent) /\ k + 1 \in 1..Len(sent)
    BY <1>1, <2>1
  <2> QED BY <1>2, <2>2, <2>3 DEF PutsValid
<1>14. ASSUME NEW i \in 1..Len(sent), Handle(i) PROVE SavedInv'
  <2>1. /\ sent' = RemoveAt(sent, i) /\ left' = left /\ over' = over
        /\ (~disturbed' => ~disturbed /\ ~(i > 1))
    BY <1>14 DEF Handle, Handled, pageVars
  <2>2. ASSUME ~disturbed' PROVE LastSays(sent', saved', left')
    <3>1. i = 1 /\ sent # <<>> /\ sent' = RemoveAt(sent, 1) /\ ~disturbed
      <4>1. i = 1
        BY <1>1, <2>1, <2>2
      <4>2. Len(sent) # 0
        BY <1>1
      <4> QED BY <2>1, <2>2, <4>1, <4>2
    <3>2. saved' = IF sent[1].kind = "score" THEN saved ELSE Says(sent[1])
      <4>1. sent[1].kind = "put" => ValidState(sent[1].game)
        BY <1>2, <3>1 DEF PutsValid
      <4> QED BY <1>14, <3>1, <4>1 DEF Handle, Says
    <3>3. LastSays(sent, saved, left)
      BY <1>2, <3>1
    <3>4. LastSays(sent', saved', left)
      BY <1>1, <3>1, <3>2, <3>3, FirstIsHandled
    <3> QED BY <2>1, <3>4
  <2>3. PutsValid(sent')
    BY <1>13, <2>1
  <2> QED BY <1>2, <1>t, <2>1, <2>2, <2>3
<1>15. ASSUME NEW i \in 1..Len(sent), Lose(i) PROVE SavedInv'
  <2>1. sent' = RemoveAt(sent, i) /\ left' = left /\ over' = over /\ disturbed'
    BY <1>15 DEF Lose, Handled, pageVars
  <2>2. PutsValid(sent')
    BY <1>13, <2>1
  <2> QED BY <1>2, <1>t, <2>1, <2>2
<1> QED BY <1>4, <1>5, <1>6, <1>7, <1>8, <1>9, <1>10, <1>11, <1>12, <1>14, <1>15
        DEF GameNext

\* Between two visits the server holds the game that was left to be gone on
\* with, if requests are handled in their order and scores stay in the range
\* that the server takes (Game2048Page.vue:85-107, game2048.service.js).
THEOREM SavedCorrect == GameSpec /\ []Fits => []SavedIsWhatWasLeft
<1>1. GameInit => SavedInv
  <2> SUFFICES ASSUME GameInit PROVE SavedInv
    OBVIOUS
  <2>1. sent = <<>> /\ Len(sent) = 0 /\ left = saved /\ over = FALSE
    BY DEF GameInit, Unmounted
  <2>2. LastSaid
    BY <2>1 DEF LastSaid
  <2> QED BY <2>1, <2>2 DEF SavedInv
<1>2. TypedScores /\ SavedInv /\ Fits /\ [GameNext]_gameVars => SavedInv'
  <2> SUFFICES ASSUME TypedScores, SavedInv, Fits, [GameNext]_gameVars PROVE SavedInv'
    OBVIOUS
  <2>1. CASE GameNext
    BY <2>1, SavedStays
  <2>2. CASE UNCHANGED gameVars
    BY <2>2 DEF SavedInv, LastSaid, AboutSaved, Said, gameVars, pageVars, rowVars
  <2> QED BY <2>1, <2>2
<1>3. TypedScores /\ SavedInv => SavedIsWhatWasLeft
  <2> SUFFICES ASSUME SavedInv, sent = <<>>, ~disturbed PROVE saved = left
    BY DEF SavedIsWhatWasLeft
  <2>1. LastSaid /\ Len(sent) = 0
    BY DEF SavedInv
  <2> QED BY <2>1 DEF LastSaid
<1> QED BY <1>1, <1>2, <1>3, TypedScoresInvariant, PTL DEF GameSpec
=============================================================================
