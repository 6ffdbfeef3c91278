------------------------- MODULE SettlementsProofs -------------------------
(***************************************************************************)
(* Proofs about the participants and the settlement rounds of a meetup,    *)
(* for any number of users, rounds, requests and faults.  SettlementsInv   *)
(* is inductive: the row lock of the meetup is what carries a count, or    *)
(* the number of the next round, from the statement that reads it to the   *)
(* insert.                                                                 *)
(***************************************************************************)
EXTENDS Settlements, FiniteSetTheorems, WellFoundedInduction, TLAPS
-----------------------------------------------------------------------------
(* Numbers and amounts.                                                    *)

\* A set of numbers that is not empty has a smallest one.
LEMMA SmallestNumber ==
    ASSUME NEW T \in SUBSET Nat, T # {}
    PROVE  \E n \in T : \A k \in T : n <= k
<1> DEFINE Less == {p \in Nat \X Nat : p[1] < p[2]}
<1>1. \E n \in T : \A k \in T : <<k, n>> \notin Less
  <2> HIDE DEF Less
  <2>1. IsWellFoundedOn(Less, Nat)
    BY NatLessThanWellFounded DEF Less, OpToRel
  <2> QED BY <2>1, WFMin
<1>2. PICK n \in T : \A k \in T : <<k, n>> \notin Less
  BY <1>1
<1>3. \A k \in T : n <= k
  <2> TAKE k \in T
  <2>1. <<k, n>> \in Less <=> k < n
    OBVIOUS
  <2> QED BY <2>1, <1>2
<1> QED BY <1>3

\* Numbers up to m have a highest one, and the next of it is at most m + 1.
LEMMA NextAfterHighest ==
    ASSUME NEW S \in SUBSET Nat, NEW m \in Nat, \A k \in S : k <= m
    PROVE  \E n \in 1..(m + 1) : (n = 1 \/ n - 1 \in S) /\ \A k \in S : k < n
<1> DEFINE Above == {n \in Nat \ {0} : \A k \in S : k < n}
<1>1. m + 1 \in Above
  OBVIOUS
<1>2. \E n \in Above : \A k \in Above : n <= k
  <2> HIDE DEF Above
  <2>1. Above \in SUBSET Nat
    BY DEF Above
  <2> QED BY <1>1, <2>1, SmallestNumber
<1>3. PICK n \in Above : \A k \in Above : n <= k
  BY <1>2
<1>4. \A k \in Above : n <= k
  BY <1>3
<1>5. n = 1 \/ n - 1 \in S
  <2> SUFFICES ASSUME n # 1 PROVE n - 1 \in S
    OBVIOUS
  <2>1. n - 1 \in Nat \ {0} /\ n - 1 \notin Above
    BY <1>4
  <2>2. PICK k \in S : ~(k < n - 1)
    BY <2>1
  <2> QED BY <2>2
<1> QED BY <1>1, <1>4, <1>5

\* The number that createSettlement reads is the next one and is free.
LEMMA NextNumberIsFree ==
    ASSUME SettlementsTypeOK, NumbersAreMade
    PROVE  NextNumber \in 1..(made + 1) /\ ~NumberTaken(NextNumber)
<1> DEFINE numbers == {rounds[r].no : r \in {s \in Round : Exists(s)}}
<1>1. \A r \in Round : Exists(r) => rounds[r].no \in Nat
  BY SettlementsAssumption DEF SettlementsTypeOK, Row, Exists, Round
<1>2. numbers \in SUBSET Nat /\ made \in Nat /\ \A k \in numbers : k <= made
  BY <1>1, SettlementsAssumption DEF NumbersAreMade, SettlementsTypeOK
<1>3. \E n \in 1..(made + 1) :
        (n = 1 \/ n - 1 \in numbers) /\ \A k \in numbers : k < n
  <2> HIDE DEF numbers
  <2> QED BY <1>2, NextAfterHighest
<1>4. NextNumber \in 1..(made + 1) /\ \A k \in numbers : k < NextNumber
  BY <1>3 DEF NextNumber
<1> QED BY <1>1, <1>4 DEF NumberTaken

\* A set of users is finite.
LEMMA UsersAreFinite ==
    ASSUME NEW S \in SUBSET User
    PROVE  IsFiniteSet(S) /\ Cardinality(S) \in Nat
<1>1. IsFiniteSet(User)
  BY FS_Interval, SettlementsAssumption DEF User
<1> QED BY <1>1, FS_Subset, FS_CardinalityType

\* The sum of shares is what any function of sets is that grows by a share with
\* each debtor.
LEMMA SumIsAdditive ==
    ASSUME NEW S \in SUBSET User, NEW due \in [S -> Nat],
           NEW G \in [SUBSET S -> Nat], G[{}] = 0,
           \A s \in SUBSET S : \A x \in s : G[s] = due[x] + G[s \ {x}]
    PROVE  SumOf(due) = G[S]
<1> DEFINE Eq(H) == H = [s \in SUBSET S |->
                           IF s = {} THEN 0
                           ELSE due[CHOOSE x \in s : TRUE]
                                + H[s \ {CHOOSE x \in s : TRUE}]]
           F == CHOOSE H : Eq(H)
<1>1. Eq(G)
  <2>1. ASSUME NEW s \in SUBSET S
        PROVE  G[s] = IF s = {} THEN 0
                      ELSE due[CHOOSE x \in s : TRUE]
                           + G[s \ {CHOOSE x \in s : TRUE}]
    <3>1. CASE s = {}
      BY <3>1
    <3>2. CASE s # {}
      <4>1. (CHOOSE x \in s : TRUE) \in s
        BY <3>2
      <4> QED BY <3>2, <4>1
    <3> QED BY <3>1, <3>2
  <2> QED BY <2>1
<1>2. Eq(F)
  <2>1. \E H : Eq(H)
    BY <1>1
  <2> HIDE DEF Eq
  <2> QED BY <2>1, Zenon
<1>3. SumOf(due) = F[S]
  BY DEF SumOf, FoldFunction, FoldFunctionOnSet, MapThenFoldSet
<1> DEFINE Bad == {n \in Nat : \E s \in SUBSET S :
                                 Cardinality(s) = n /\ F[s] # G[s]}
<1>4. Bad = {}
  <2> HIDE DEF F
  <2> SUFFICES ASSUME Bad # {} PROVE FALSE
    OBVIOUS
  <2>1. PICK n \in Bad : \A k \in Bad : n <= k
    <3> HIDE DEF Bad
    <3>1. Bad \in SUBSET Nat
      BY DEF Bad
    <3> QED BY <3>1, SmallestNumber
  <2>2. PICK s \in SUBSET S : Cardinality(s) = n /\ F[s] # G[s]
    BY <2>1
  <2> DEFINE x == CHOOSE y \in s : TRUE
  <2>3. s # {}
    BY <1>2, <2>2
  <2>4. x \in s
    BY <2>3
  <2>5. F[s] = due[x] + F[s \ {x}]
    BY <1>2, <2>3
  <2> HIDE DEF x
  <2>6. G[s] = due[x] + G[s \ {x}]
    BY <2>4
  <2>7. Cardinality(s \ {x}) \in Nat /\ Cardinality(s \ {x}) < n
    <3>1. s \in SUBSET User
      OBVIOUS
    <3>2. Cardinality(s \ {x}) = Cardinality(s) - 1
      BY <2>4, <3>1, UsersAreFinite, FS_RemoveElement
    <3>3. Cardinality(s \ {x}) \in Nat
      BY <3>1, UsersAreFinite
    <3> QED BY <2>2, <3>2, <3>3
  <2>8. Cardinality(s \ {x}) \notin Bad
    <3> HIDE DEF Bad
    <3>1. n \in Nat
      BY DEF Bad
    <3>2. Cardinality(s \ {x}) \in Bad => n <= Cardinality(s \ {x})
      BY <2>1
    <3> QED BY <2>7, <3>1, <3>2
  <2>9. F[s \ {x}] = G[s \ {x}]
    BY <2>7, <2>8
  <2> QED BY <2>2, <2>5, <2>6, <2>9
<1>5. F[S] = G[S]
  <2> HIDE DEF F
  <2>1. Cardinality(S) \in Nat
    BY UsersAreFinite
  <2> QED BY <1>4, <2>1
<1> QED BY <1>3, <1>5
\* Of any people, as many pay one won more as the division leaves over.
LEMMA FirstOnesPayMore ==
    ASSUME NEW S \in SUBSET User, NEW r \in 0..Cardinality(S)
    PROVE  Cardinality({v \in S : Cardinality({w \in S : w < v}) < r}) = r
<1> DEFINE before(s, v) == {w \in s : w < v}
           first(s) == {v \in s : Cardinality(before(s, v)) < r}
           Bad == {n \in Nat : \E s \in SUBSET User :
                     /\ Cardinality(s) = n /\ r <= n
                     /\ Cardinality(first(s)) # r}
<1>1. Bad = {}
  <2> SUFFICES ASSUME Bad # {} PROVE FALSE
    OBVIOUS
  <2>1. PICK n \in Bad : \A k \in Bad : n <= k
    <3> HIDE DEF Bad
    <3>1. Bad \in SUBSET Nat
      BY DEF Bad
    <3> QED BY <3>1, SmallestNumber
  <2>2. PICK s \in SUBSET User :
          Cardinality(s) = n /\ r <= n /\ Cardinality(first(s)) # r
    BY <2>1
  <2> HIDE DEF Bad
  <2>3. n \in Nat /\ r \in Nat
    <3>1. Cardinality(S) \in Nat
      BY UsersAreFinite
    <3> QED BY <3>1 DEF Bad
  <2>4. s # {}
    <3> SUFFICES ASSUME s = {} PROVE FALSE
      OBVIOUS
    <3>1. n = 0 /\ first(s) = {}
      BY <2>2, FS_EmptySet
    <3> QED BY <2>2, <2>3, <3>1, FS_EmptySet
  <2>5. PICK m \in s : \A v \in s : v <= m
    <3>1. s \in SUBSET Nat /\ NumUsers \in Nat /\ \A v \in s : v <= NumUsers /\ 1 <= v
      BY SettlementsAssumption DEF User
    <3>2. PICK k \in 1..(NumUsers + 1) :
            (k = 1 \/ k - 1 \in s) /\ \A v \in s : v < k
      BY <3>1, NextAfterHighest
    <3>3. k - 1 \in s
      <4>1. PICK u \in s : TRUE
        BY <2>4
      <4>2. u < k /\ 1 <= u /\ u \in Nat
        BY <3>1, <3>2
      <4> QED BY <3>1, <3>2, <4>2
    <3> QED BY <3>1, <3>2, <3>3
  <2> DEFINE t == s \ {m}
  <2>6. t \in SUBSET User /\ Cardinality(t) = n - 1 /\ n - 1 \in Nat
    <3>1. Cardinality(t) = n - 1
      BY <2>2, UsersAreFinite, FS_RemoveElement
    <3>2. Cardinality(t) \in Nat
      BY UsersAreFinite
    <3> QED BY <3>1, <3>2
  <2>7. \A v \in s : v \in Nat
    BY DEF User
  <2>8. before(s, m) = t
    BY <2>5, <2>7
  <2>9. \A v \in t : before(s, v) = before(t, v)
    BY <2>5, <2>7
  <2>10. CASE r = n
    <3>1. ASSUME NEW v \in s
          PROVE  Cardinality(before(s, v)) < r
      <4>1. before(s, v) \subseteq s /\ before(s, v) # s
        BY <2>7
      <4>2. /\ Cardinality(before(s, v)) <= n
            /\ Cardinality(before(s, v)) # n
            /\ Cardinality(before(s, v)) \in Nat
        BY <4>1, <2>2, UsersAreFinite, FS_Subset
      <4> QED BY <4>2, <2>3, <2>10
    <3>2. first(s) = s
      BY <3>1
    <3> QED BY <2>2, <2>10, <3>2
  <2>11. CASE r # n
    <3>1. m \notin first(s)
      BY <2>2, <2>3, <2>6, <2>8, <2>11
    <3>2. \A v \in t : v \in first(s) <=> v \in first(t)
      BY <2>9
    <3>3. first(s) = first(t)
      BY <3>1, <3>2
    <3>4. Cardinality(first(t)) # r
      BY <2>2, <3>3
    <3>5. n - 1 \in Bad
      <4>1. r <= n - 1
        BY <2>2, <2>3, <2>6, <2>11
      <4> HIDE DEF first, t
      <4> QED BY <2>6, <3>4, <4>1 DEF Bad
    <3>6. n <= n - 1
      BY <2>1, <3>5
    <3> QED BY <2>3, <3>6
  <2> QED BY <2>10, <2>11
<1>2. Cardinality(S) \in Nat /\ r <= Cardinality(S)
  BY UsersAreFinite
<1>3. Cardinality(first(S)) = r
  <2> HIDE DEF first
  <2> QED BY <1>1, <1>2
<1> QED BY <1>3

\* One amount, of v if v is a debtor, and a split of the rest among the others.
LEMMA SplitAddsUp ==
    ASSUME NEW S \in SUBSET User, NEW v, S \ {v} # {},
           NEW total \in Nat, NEW x \in Nat,
           NEW amounts, amounts = [w \in S |-> amounts[w]],
           \A w \in S : amounts[w] = IF w = v THEN x
                                      ELSE EqualAmounts(total, S \ {v})[w]
    PROVE  SumOf(amounts) = total + (IF v \in S THEN x ELSE 0)
<1> DEFINE T == S \ {v}
           n == Cardinality(T)
           q == total \div n
           r == total % n
           low == {w \in T : Cardinality({u \in T : u < w}) < r}
           due == [w \in S |-> IF w = v THEN x
                                ELSE q + IF w \in low THEN 1 ELSE 0]
           G == [s \in SUBSET S |-> q * Cardinality(s \ {v})
                                     + Cardinality(low \cap s)
                                     + IF v \in s THEN x ELSE 0]
<1>1. n \in Nat \ {0}
  <2>1. T \in SUBSET User
    OBVIOUS
  <2>2. IsFiniteSet(T) /\ Cardinality(T) \in Nat
    BY <2>1, UsersAreFinite
  <2> QED BY <2>2, FS_EmptySet
<1>2. q \in Nat /\ r \in 0..(n - 1) /\ total = n * q + r
  <2> HIDE DEF n
  <2> QED BY <1>1, Z3
<1>3. Cardinality(low) = r
  <2>1. r \in 0..n
    BY <1>1, <1>2
  <2> HIDE DEF r
  <2> QED BY <2>1, FirstOnesPayMore
<1>4. due = amounts
  BY DEF EqualAmounts
<1>5. low \subseteq T
  OBVIOUS
<1> HIDE DEF low, q, r, n
<1>6. ASSUME NEW s \in SUBSET S
      PROVE  /\ IsFiniteSet(s \ {v}) /\ Cardinality(s \ {v}) \in Nat
             /\ IsFiniteSet(low \cap s) /\ Cardinality(low \cap s) \in Nat
  <2>1. s \ {v} \in SUBSET User /\ low \cap s \in SUBSET User
    BY <1>5
  <2> QED BY <2>1, UsersAreFinite
<1>7. \A k \in Nat : q * k \in Nat /\ q * (k + 1) = q * k + q
  BY <1>2, Z3
<1>8. G \in [SUBSET S -> Nat]
  <2> SUFFICES ASSUME NEW s \in SUBSET S
               PROVE  q * Cardinality(s \ {v}) + Cardinality(low \cap s)
                        + (IF v \in s THEN x ELSE 0) \in Nat
    OBVIOUS
  <2>1. /\ q * Cardinality(s \ {v}) \in Nat
        /\ Cardinality(low \cap s) \in Nat
        /\ (IF v \in s THEN x ELSE 0) \in Nat
    BY <1>6, <1>7
  <2> QED BY <2>1
<1>9. G[{}] = 0
  <2>1. q * 0 = 0
    BY <1>2, Z3
  <2>2. {} \ {v} = {} /\ low \cap {} = {} /\ v \notin {}
    OBVIOUS
  <2> QED BY <2>1, <2>2, FS_EmptySet
<1>10. ASSUME NEW s \in SUBSET S, NEW y \in s
       PROVE  G[s] = due[y] + G[s \ {y}]
  <2>1. CASE y = v
    <3>1. (s \ {y}) \ {v} = s \ {v} /\ low \cap (s \ {y}) = low \cap s
      BY <2>1, <1>5
    <3> DEFINE rest == q * Cardinality(s \ {v}) + Cardinality(low \cap s)
    <3>2. rest \in Nat
      <4>1. q * Cardinality(s \ {v}) \in Nat /\ Cardinality(low \cap s) \in Nat
        BY <1>6, <1>7
      <4> QED BY <4>1
    <3>3. G[s \ {y}] = rest + 0
      BY <2>1, <3>1
    <3>4. G[s] = rest + x /\ due[y] = x
      BY <2>1
    <3> QED BY <3>2, <3>3, <3>4
  <2>2. CASE y # v
    <3> DEFINE others == (s \ {y}) \ {v}
               few == low \cap (s \ {y})
    <3>1. /\ others = (s \ {v}) \ {y} /\ y \in s \ {v}
          /\ few = (low \cap s) \ {y} /\ (y \in low \cap s <=> y \in low)
      BY <2>2
    <3>2. Cardinality(others) \in Nat /\ Cardinality(few) \in Nat
      BY <1>6
    <3>3. Cardinality(s \ {v}) = Cardinality(others) + 1
      <4>1. Cardinality((s \ {v}) \ {y}) = Cardinality(s \ {v}) - 1
        BY <3>1, <1>6, FS_RemoveElement
      <4>2. Cardinality(others) = Cardinality((s \ {v}) \ {y})
        BY <3>1, Zenon
      <4>3. Cardinality(s \ {v}) \in Nat
        BY <1>6
      <4> HIDE DEF others
      <4> QED BY <4>1, <4>2, <4>3
    <3>4. Cardinality(low \cap s) = Cardinality(few) + IF y \in low THEN 1 ELSE 0
      <4>1. Cardinality((low \cap s) \ {y})
              = IF y \in low \cap s THEN Cardinality(low \cap s) - 1
                ELSE Cardinality(low \cap s)
        BY <1>6, FS_RemoveElement
      <4>2. Cardinality(few) = Cardinality((low \cap s) \ {y})
        BY <3>1, Zenon
      <4>3. Cardinality(low \cap s) \in Nat
        BY <1>6
      <4> HIDE DEF few
      <4> QED BY <3>1, <4>1, <4>2, <4>3
    <3>5. q * Cardinality(s \ {v}) = q * Cardinality(others) + q
      BY <3>2, <3>3, <1>7
    <3>6. q * Cardinality(others) \in Nat
      BY <3>2, <1>7
    <3>7. v \in s <=> v \in s \ {y}
      BY <2>2
    <3> HIDE DEF others, few
    <3>8. G[s \ {y}] = q * Cardinality(others) + Cardinality(few)
                        + IF v \in s THEN x ELSE 0
      BY <3>7 DEF others, few
    <3>9. G[s] = q * Cardinality(s \ {v}) + Cardinality(low \cap s)
                 + IF v \in s THEN x ELSE 0
      OBVIOUS
    <3>10. due[y] = q + IF y \in low THEN 1 ELSE 0
      BY <2>2
    <3> HIDE DEF G, due
    <3> QED BY <3>2, <3>4, <3>5, <3>6, <3>8, <3>9, <3>10, <1>2
  <2> QED BY <2>1, <2>2
<1>11. due \in [S -> Nat]
  BY <1>2
<1>12. SumOf(due) = G[S]
  <2> HIDE DEF G, due
  <2> QED BY <1>8, <1>9, <1>10, <1>11, SumIsAdditive
<1>13. G[S] = total + IF v \in S THEN x ELSE 0
  <2>1. low \cap S = low
    BY <1>5
  <2>2. q * n = n * q
    BY <1>1, <1>2, Z3
  <2>3. G[S] = q * n + r + IF v \in S THEN x ELSE 0
    BY <2>1, <1>3 DEF n
  <2> QED BY <2>2, <2>3, <1>1, <1>2
<1> QED BY <1>4, <1>12, <1>13

\* An equal split adds up.
LEMMA EqualAmountsAddUp ==
    ASSUME NEW S \in SUBSET User, S # {}, NEW total \in Nat
    PROVE  SumOf(EqualAmounts(total, S)) = total
<1> DEFINE amounts == EqualAmounts(total, S)
<1>1. Nobody \notin S
  BY DEF User, Nobody
<1>2. S \ {Nobody} = S
  BY <1>1
<1>3. S \ {Nobody} # {}
  BY <1>1
<1>4. amounts = [w \in S |-> amounts[w]]
  BY DEF EqualAmounts
<1>5. \A w \in S : amounts[w] = IF w = Nobody THEN 0
                                 ELSE EqualAmounts(total, S \ {Nobody})[w]
  BY <1>1, <1>2
<1>6. SumOf(amounts) = total + (IF Nobody \in S THEN 0 ELSE 0)
  <2> HIDE DEF amounts
  <2> QED BY <1>3, <1>4, <1>5, SplitAddsUp
<1> QED BY <1>6

\* So does one amount with an equal split of the rest.
LEMMA FixedAmountAddsUp ==
    ASSUME NEW S \in SUBSET User, NEW total \in Nat,
           NEW v \in S, NEW x \in 0..total, S # {v}
    PROVE  SumOf(FixedAmount(total, S, v, x)) = total
<1> DEFINE amounts == FixedAmount(total, S, v, x)
<1>1. S \ {v} # {} /\ x \in Nat /\ total - x \in Nat /\ ~(x > total)
  OBVIOUS
<1>2. amounts = [w \in S |-> amounts[w]]
  BY DEF FixedAmount
<1>3. \A w \in S : amounts[w] = IF w = v THEN x
                                 ELSE EqualAmounts(total - x, S \ {v})[w]
  BY <1>1 DEF FixedAmount
<1>4. SumOf(amounts) = (total - x) + (IF v \in S THEN x ELSE 0)
  <2> HIDE DEF amounts
  <2> QED BY <1>1, <1>2, <1>3, SplitAddsUp
<1> QED BY <1>1, <1>4

\* Equal amounts are amounts: nobody pays more than the whole.
LEMMA EqualAmountsAreAmounts ==
    ASSUME NEW total \in Amount, NEW S \in SUBSET User
    PROVE  EqualAmounts(total, S) \in [S -> Amount]
<1> DEFINE n == Cardinality(S)
           before(v) == Cardinality({w \in S : w < v})
<1>1. n \in Nat /\ \A v \in S : before(v) \in Nat
  BY UsersAreFinite
<1>2. ASSUME NEW v \in S
      PROVE  total \div n + (IF before(v) < total % n THEN 1 ELSE 0) \in Amount
  <2>1. n \in Nat \ {0}
    <3>1. IsFiniteSet(S)
      BY UsersAreFinite
    <3> QED BY <1>1, <3>1, FS_EmptySet
  <2> HIDE DEF n, before
  <2>2. total \in Nat /\ MaxTotal \in Nat /\ total <= MaxTotal
    BY SettlementsAssumption DEF Amount
  <2>3. total \div n \in Nat /\ total % n \in 0..(n - 1)
        /\ total = n * (total \div n) + (total % n)
    BY <2>1, <2>2, Z3
  <2>4. ASSUME NEW q \in Nat, NEW c \in Nat \ {0}
        PROVE  c * q \in Nat /\ q <= c * q
    BY <2>4, Z3
  <2>5. /\ n * (total \div n) \in Nat
        /\ total \div n <= n * (total \div n)
    BY <2>1, <2>3, <2>4
  <2> DEFINE q == total \div n
             rest == total % n
             whole == n * (total \div n)
  <2>7. q \in Nat /\ rest \in Nat /\ whole \in Nat /\ q <= whole
        /\ total = whole + rest
    BY <2>3, <2>5
  <2> HIDE DEF q, rest, whole
  <2>8. q + (IF before(v) < rest THEN 1 ELSE 0) \in 0..total
    BY <2>7, <1>1, <2>2
  <2>9. total \div n + (IF before(v) < total % n THEN 1 ELSE 0) \in 0..total
    BY <2>8 DEF q, rest
  <2> QED BY <2>2, <2>9 DEF Amount
<1> QED BY <1>2 DEF EqualAmounts

\* So is what the form makes of a total, one amount typed in or none.
LEMMA FormAmountsAreShares ==
    ASSUME NEW total \in Total, NEW S \in SUBSET User, NEW due \in FormAmounts(total, S)
    PROVE  due \in Shares
<1>1. total \in Amount /\ 0 \in Amount
  BY SettlementsAssumption DEF Total, Amount
<1>2. CASE due = EqualAmounts(total, S)
  BY <1>1, <1>2, EqualAmountsAreAmounts DEF Shares
<1>3. ASSUME NEW v \in S, NEW x \in Amount, due = FixedAmount(total, S, v, x)
      PROVE  due \in Shares
  <2> DEFINE left == IF x > total THEN 0 ELSE total - x
  <2>1. left \in Amount
    BY <1>1, SettlementsAssumption DEF Total, Amount
  <2>2. EqualAmounts(left, S \ {v}) \in [S \ {v} -> Amount]
    BY <2>1, EqualAmountsAreAmounts
  <2>3. due \in [S -> Amount]
    BY <1>3, <2>2 DEF FixedAmount
  <2> QED BY <2>3 DEF Shares
<1> QED BY <1>2, <1>3 DEF FormAmounts

\* Of ids alone everybody pays the same, no more than the whole.
LEMMA RoundedDownIsShares ==
    ASSUME NEW total \in Total, NEW S \in SUBSET User, S # {}
    PROVE  /\ RoundedDown(total, S) \in Shares
           /\ DOMAIN RoundedDown(total, S) = S
           /\ total \div Cardinality(S) \in Nat
           /\ Cardinality(S) \in Nat \ {0}
<1> DEFINE n == Cardinality(S)
           q == total \div n
           whole == n * q
<1>1. n \in Nat \ {0}
  BY UsersAreFinite, FS_EmptySet
<1>2. total \in Nat /\ MaxTotal \in Nat /\ total <= MaxTotal
  BY SettlementsAssumption DEF Total
<1> HIDE DEF n
<1>3. q \in Nat /\ total = whole + (total % n) /\ total % n \in 0..(n - 1)
  BY <1>1, <1>2, Z3
<1>4. ASSUME NEW k \in Nat, NEW c \in Nat \ {0}
      PROVE  c * k \in Nat /\ k <= c * k
  BY <1>4, Z3
<1>5. whole \in Nat /\ q <= whole
  BY <1>1, <1>3, <1>4
<1> HIDE DEF q, whole
<1>6. q \in Amount
  BY <1>1, <1>2, <1>3, <1>5 DEF Amount
<1>7. RoundedDown(total, S) \in [S -> Amount]
  BY <1>6 DEF RoundedDown, q, n
<1> QED BY <1>1, <1>3, <1>7 DEF Shares, q, n

\* What they miss of the total is the remainder of the division.
LEMMA RoundedDownAddsUp ==
    ASSUME NEW total \in Total, NEW S \in SUBSET User, S # {}
    PROVE  SumOf(RoundedDown(total, S)) = total - (total % Cardinality(S))
<1> DEFINE n == Cardinality(S)
           q == total \div n
           due == [v \in S |-> q]
           G == [s \in SUBSET S |-> q * Cardinality(s)]
<1>1. n \in Nat \ {0} /\ q \in Nat
  BY RoundedDownIsShares
<1>2. total \in Nat
  BY SettlementsAssumption DEF Total
<1> HIDE DEF n
<1>3. total = n * q + (total % n) /\ total % n \in 0..(n - 1)
  BY <1>1, <1>2, Z3
<1> HIDE DEF q
<1>4. \A k \in Nat : q * k \in Nat /\ q * (k + 1) = q * k + q
  BY <1>1, Z3
<1>5. \A s \in SUBSET S : IsFiniteSet(s) /\ Cardinality(s) \in Nat
  BY UsersAreFinite
<1>6. G \in [SUBSET S -> Nat]
  BY <1>4, <1>5
<1>7. G[{}] = 0
  <2>1. q * 0 = 0
    BY <1>1, Z3
  <2> QED BY <2>1, FS_EmptySet
<1>8. ASSUME NEW s \in SUBSET S, NEW x \in s
      PROVE  G[s] = due[x] + G[s \ {x}]
  <2>1. Cardinality(s \ {x}) = Cardinality(s) - 1
    BY <1>5, FS_RemoveElement
  <2>2. Cardinality(s \ {x}) \in Nat /\ Cardinality(s) \in Nat
    BY <1>5
  <2>3. q * Cardinality(s) = q * Cardinality(s \ {x}) + q
    <3>1. Cardinality(s) = Cardinality(s \ {x}) + 1
      BY <2>1, <2>2
    <3> QED BY <1>4, <2>2, <3>1
  <2>4. q * Cardinality(s \ {x}) \in Nat
    BY <1>4, <2>2
  <2> QED BY <1>1, <2>3, <2>4
<1>9. due \in [S -> Nat]
  BY <1>1
<1>10. SumOf(due) = G[S]
  <2> HIDE DEF G, due
  <2> QED BY <1>6, <1>7, <1>8, <1>9, SumIsAdditive
<1>11. SumOf(due) = q * n
  BY <1>10 DEF n
<1>12. q * n = n * q /\ n * q \in Nat
  BY <1>1, Z3
<1>13. RoundedDown(total, S) = due
  BY DEF RoundedDown, q, n
<1>14. SumOf(due) = total - (total % n)
  <2> DEFINE rest == total % n
             whole == n * q
  <2>1. /\ whole \in Nat /\ rest \in Int /\ total = whole + rest
        /\ SumOf(due) = whole
    BY <1>1, <1>3, <1>11, <1>12
  <2> HIDE DEF rest, whole, due
  <2>2. SumOf(due) = total - rest
    BY <2>1
  <2> QED BY <2>2 DEF rest
<1> QED BY <1>13, <1>14 DEF n

\* Amounts that the server has accepted add up.
LEMMA AcceptedAddsUp ==
    ASSUME NEW d, d.total \in Total, d.split # "ids", Accepted(d)
    PROVE  AddsUp(d)
<1>1. d.total \in Int
  BY SettlementsAssumption DEF Total
<1> QED BY <1>1 DEF Accepted, AddsUp, Lost
-----------------------------------------------------------------------------
(* What the steps of a request have in common.                             *)

\* An empty draft, and one filled in, are drafts.
LEMMA DraftsAreDrafts ==
    /\ NoDraft \in Draft
    /\ \A r \in Round \cup {NewRound} : [NoDraft EXCEPT !.round = r] \in Draft
    /\ \A r \in Round \cup {NewRound}, total \in Total, due \in Shares,
         account \in Account :
           [NoDraft EXCEPT !.round = r, !.total = total, !.due = due,
                           !.account = account] \in Draft
    /\ \A r \in Round \cup {NewRound}, total \in Total, due \in Shares :
           [NoDraft EXCEPT !.round = r, !.total = total, !.due = due] \in Draft
    /\ \A total \in Total, due \in Shares :
           /\ [NoDraft EXCEPT !.total = total, !.due = due] \in Draft
           /\ [NoDraft EXCEPT !.total = total, !.due = due,
                              !.split = "ids"] \in Draft
<1>1. <<>> \in [{} -> Amount]
  OBVIOUS
<1>2. <<>> \in Shares
  BY <1>1 DEF Shares
<1>3. 0 \in Amount /\ Total \subseteq Amount /\ 0 \in 0..MaxRounds
  BY SettlementsAssumption DEF Amount, Total
<1> QED BY <1>2, <1>3 DEF NoDraft, Draft, Split, NewRound

\* A request of u whose draft is no new round is not among those creating.
LEMMA CreatingOthers ==
    ASSUME SettlementsTypeOK, NEW u \in User,
           at' \in [User -> Step], draft' \in [User -> Draft],
           \A v \in User \ {u} : at'[v] = at[v] /\ draft'[v] = draft[v],
           made' \in Nat
    PROVE  /\ u \notin Creating' =>
                  Cardinality(Creating') = IF u \in Creating
                                           THEN Cardinality(Creating) - 1
                                           ELSE Cardinality(Creating)
           /\ u \in Creating' =>
                  Cardinality(Creating') = IF u \in Creating
                                           THEN Cardinality(Creating)
                                           ELSE Cardinality(Creating) + 1
           /\ Cardinality(Creating) \in Nat /\ Cardinality(Creating') \in Nat
<1>1. Creating \in SUBSET User /\ Creating' \in SUBSET User
  BY DEF Creating
<1>2. /\ IsFiniteSet(Creating) /\ Cardinality(Creating) \in Nat
      /\ IsFiniteSet(Creating') /\ Cardinality(Creating') \in Nat
  BY <1>1, UsersAreFinite
<1>3. u \notin Creating' => Creating' = Creating \ {u}
  BY DEF Creating
<1>4. u \in Creating' => Creating' = Creating \cup {u}
  BY DEF Creating
<1> HIDE DEF Creating
<1>5. Cardinality(Creating \ {u}) = IF u \in Creating
                                    THEN Cardinality(Creating) - 1
                                    ELSE Cardinality(Creating)
  BY <1>2, FS_RemoveElement
<1>6. Cardinality(Creating \cup {u}) = IF u \in Creating
                                       THEN Cardinality(Creating)
                                       ELSE Cardinality(Creating) + 1
  BY <1>2, FS_AddElement
<1> QED BY <1>2, <1>3, <1>4, <1>5, <1>6

\* The end of a request leaves locks, drafts and the rounds under way of the
\* others as they were.
LEMMA AfterFinish ==
    ASSUME SettlementsInv, NEW u \in User, Finish(u)
    PROVE  /\ at' \in [User -> Step] /\ draft' \in [User -> Draft]
           /\ meetupLock' \in User \cup {Nobody}
           /\ roundLock' \in [Round -> User \cup {Nobody}]
           /\ at'[u] = "idle"
           /\ \A v \in User \ {u} : at'[v] = at[v] /\ draft'[v] = draft[v]
           /\ \A v \in User : meetupLock' = v <=>
                at'[v] \in {"nextNumber", "insertRound", "insertParticipant"}
           /\ \A v \in User : at'[v] = "writeRound" =>
                /\ roundLock'[draft'[v].round] = v
                /\ roundLock[draft[v].round] = v /\ Exists(draft[v].round)
                /\ v # u /\ draft[v].round \in Round
           /\ DraftsAreFilledIn'
<1> USE DEF SettlementsInv, SettlementsTypeOK, Finish
<1>1. /\ at' \in [User -> Step] /\ draft' \in [User -> Draft]
      /\ at'[u] = "idle"
      /\ \A v \in User \ {u} : at'[v] = at[v] /\ draft'[v] = draft[v]
  BY DraftsAreDrafts DEF Step
<1>2. /\ meetupLock' \in User \cup {Nobody}
      /\ roundLock' \in [Round -> User \cup {Nobody}]
  BY DEF UnlockMeetup, UnlockRound
<1>3. \A v \in User : meetupLock' = v <=>
                at'[v] \in {"nextNumber", "insertRound", "insertParticipant"}
  BY <1>1 DEF UnlockMeetup, LocksAreHeld, Nobody, User
<1>4. DraftsAreFilledIn'
  <2>1. draft'[u] = NoDraft
    BY DEF Finish
  <2> QED BY <1>1, <2>1 DEF DraftsAreFilledIn, CreateSteps, NoDraft
<1>5. \A v \in User : at'[v] = "writeRound" =>
                /\ roundLock'[draft'[v].round] = v
                /\ roundLock[draft[v].round] = v /\ Exists(draft[v].round)
                /\ v # u /\ draft[v].round \in Round
  BY <1>1 DEF UnlockRound, LocksAreHeld, DraftsAreFilledIn
<1> QED BY <1>1, <1>2, <1>3, <1>4, <1>5

\* A request that ends and changes no row keeps the invariant.
LEMMA RefuseKeepsInv ==
    ASSUME SettlementsInv, NEW u \in User, Finish(u), UNCHANGED tableVars,
           asks' \in 0..MaxAsks, faults' \in 0..MaxFaults
    PROVE  SettlementsInv'
<1> USE DEF tableVars
<1>0. /\ at' \in [User -> Step] /\ draft' \in [User -> Draft]
      /\ at'[u] = "idle"
      /\ \A v \in User \ {u} : at'[v] = at[v] /\ draft'[v] = draft[v]
  BY AfterFinish
<1>1. SettlementsTypeOK'
  BY AfterFinish DEF SettlementsInv, SettlementsTypeOK
<1>2. LocksAreHeld'
  BY AfterFinish, <1>0 DEF LocksAreHeld, Exists
<1>3. DraftsAreFilledIn'
  BY AfterFinish
<1>4. NumbersAreMade'
  BY <1>0 DEF SettlementsInv, NumbersAreMade, Exists
<1>5. CreatingFits'
  <2>1. u \notin Creating'
    BY <1>0 DEF Creating, CreateSteps
  <2>2. made \in Nat /\ MaxRounds \in Nat
    BY SettlementsAssumption DEF SettlementsInv, SettlementsTypeOK
  <2>3. /\ Cardinality(Creating') <= Cardinality(Creating)
        /\ Cardinality(Creating) \in Nat /\ Cardinality(Creating') \in Nat
    BY <1>0, <2>1, <2>2, CreatingOthers DEF SettlementsInv
  <2> QED BY <2>2, <2>3 DEF SettlementsInv, CreatingFits
<1>6. RoomToJoin'
  BY <1>0 DEF SettlementsInv, RoomToJoin
<1>7. CapacityHolds' /\ SharesAddUp'
  BY DEF SettlementsInv, CapacityHolds, SharesAddUp, Exists
<1>8. NumberIsFree'
  BY <1>0 DEF SettlementsInv, NumberIsFree, NumberTaken, Exists
<1> QED BY <1>1, <1>2, <1>3, <1>4, <1>5, <1>6, <1>7, <1>8 DEF SettlementsInv
-----------------------------------------------------------------------------
(* The invariant: pages and the meetup.                                    *)

\* It holds in the beginning.
LEMMA InvInit == SettlementsInit => SettlementsInv
<1> SUFFICES ASSUME SettlementsInit PROVE SettlementsInv
  OBVIOUS
<1> USE SettlementsAssumption DEF SettlementsInit
<1>1. Host \in User /\ Nobody \notin User
  BY DEF Host, User, Nobody
<1>2. SettlementsTypeOK
  <2>1. source \in {"app", "somoim"} /\ phase \in Phase /\ parts \subseteq User
    BY <1>1 DEF Phase
  <2>2. /\ rounds \in [Round -> Row \cup {NoRow}] /\ made \in 0..MaxRounds
        /\ method \in [User -> Account] /\ asks \in 0..MaxAsks
        /\ faults \in 0..MaxFaults
    BY DEF Account
  <2>3. /\ meetupLock \in User \cup {Nobody}
        /\ roundLock \in [Round -> User \cup {Nobody}]
        /\ at \in [User -> Step] /\ draft \in [User -> Draft]
    BY DraftsAreDrafts DEF Step
  <2> QED BY <2>1, <2>2, <2>3 DEF SettlementsTypeOK
<1>3. LocksAreHeld /\ DraftsAreFilledIn
  BY <1>1 DEF LocksAreHeld, DraftsAreFilledIn, CreateSteps, NoDraft
<1>4. NumbersAreMade /\ SharesAddUp /\ NumberIsFree /\ RoomToJoin
  BY DEF NumbersAreMade, SharesAddUp, NumberIsFree, RoomToJoin, Exists
<1>5. CreatingFits
  <2>1. Creating = {}
    BY DEF Creating, CreateSteps
  <2> QED BY <2>1, FS_EmptySet DEF CreatingFits
<1>6. CapacityHolds
  <2>1. Cardinality({Host}) = 1
    BY FS_Singleton
  <2> QED BY <2>1 DEF CapacityHolds
<1> QED BY <1>2, <1>3, <1>4, <1>5, <1>6 DEF SettlementsInv

\* The meetup and the synchronization of its attendees touch no request.
LEMMA OutsideKeepsInv ==
    ASSUME SettlementsInv, MeetupMoves \/ SyncSomoimEvents
    PROVE  SettlementsInv'
<1> USE DEF lockVars, pageVars
<1>1. /\ UNCHANGED <<source, rounds, made, method, meetupLock, roundLock, at,
                     draft, asks, faults>>
      /\ phase' \in Phase /\ parts' \subseteq User
      /\ source = "app" => parts' = parts
  BY DEF SettlementsInv, SettlementsTypeOK, MeetupMoves, SyncSomoimEvents,
         Phase
<1>2. SettlementsTypeOK' /\ LocksAreHeld' /\ DraftsAreFilledIn'
  BY <1>1 DEF SettlementsInv, SettlementsTypeOK, LocksAreHeld,
              DraftsAreFilledIn, Exists
<1>3. NumbersAreMade' /\ CreatingFits' /\ RoomToJoin'
  BY <1>1 DEF SettlementsInv, NumbersAreMade, CreatingFits, Creating,
              RoomToJoin, Exists
<1>4. CapacityHolds' /\ SharesAddUp' /\ NumberIsFree'
  BY <1>1 DEF SettlementsInv, CapacityHolds, SharesAddUp, NumberIsFree,
              NumberTaken, Exists
<1> QED BY <1>2, <1>3, <1>4 DEF SettlementsInv

\* What step s and draft d must be like for a request of u to go on to them.
MayGoOnTo(u, s, d) ==
    /\ s \in CreateSteps \cup {"lockRound", "writeRound"} =>
         d.total \in Total
    /\ d.split = "ids" => s \in {"lockMeetup", "nextNumber", "insertRound"}
    /\ d.split = "ids" \/ s \in {"nextNumber", "insertRound", "writeRound"} =>
         AddsUp(d)
    /\ s \in {"saveMethod", "insertRound"} => d.account \in Account
    /\ s \in {"lockMeetup", "nextNumber", "insertRound"} => d.round = NewRound
    /\ s \in {"lockRound", "writeRound", "removeRound", "markPaid",
              "unmarkPaid"} => d.round \in Round
    /\ s = "insertRound" => d.no \in 1..(made + 1) /\ ~NumberTaken(d.no)
    /\ s \in CreateSteps /\ d.round = NewRound =>
         u \in Creating \/ made + Cardinality(Creating) < MaxRounds
    /\ source = "app" /\ s = "insertParticipant" =>
         Cardinality(parts) < Capacity

\* A request that goes on and changes no row keeps all of the invariant but
\* what is about locks and types.
LEMMA OnwardKeepsInv ==
    ASSUME SettlementsInv, NEW u \in User, NEW s \in Step, NEW d \in Draft,
           at' = [at EXCEPT ![u] = s], draft' = [draft EXCEPT ![u] = d],
           UNCHANGED <<source, parts, rounds, made>>,
           MayGoOnTo(u, s, d)
    PROVE  /\ at' \in [User -> Step] /\ draft' \in [User -> Draft]
           /\ at'[u] = s /\ draft'[u] = d
           /\ \A v \in User \ {u} : at'[v] = at[v] /\ draft'[v] = draft[v]
           /\ DraftsAreFilledIn' /\ NumbersAreMade' /\ CreatingFits'
           /\ RoomToJoin' /\ CapacityHolds' /\ SharesAddUp' /\ NumberIsFree'
<1> USE DEF MayGoOnTo
<1>1. /\ at' \in [User -> Step] /\ draft' \in [User -> Draft]
      /\ at'[u] = s /\ draft'[u] = d
      /\ \A v \in User \ {u} : at'[v] = at[v] /\ draft'[v] = draft[v]
  BY DEF SettlementsInv, SettlementsTypeOK
<1>2. DraftsAreFilledIn'
  BY <1>1 DEF SettlementsInv, DraftsAreFilledIn
<1>3. NumbersAreMade' /\ NumberIsFree'
  BY <1>1 DEF SettlementsInv, NumbersAreMade, NumberIsFree, NumberTaken, Exists
<1>4. RoomToJoin' /\ CapacityHolds' /\ SharesAddUp'
  BY <1>1 DEF SettlementsInv, RoomToJoin, CapacityHolds, SharesAddUp, Exists
<1>5. CreatingFits'
  <2>1. made \in Nat /\ MaxRounds \in Nat
    BY SettlementsAssumption DEF SettlementsInv, SettlementsTypeOK
  <2>2. /\ u \notin Creating' => Cardinality(Creating') <= Cardinality(Creating)
        /\ u \in Creating' =>
              \/ u \in Creating /\ Cardinality(Creating') = Cardinality(Creating)
              \/ Cardinality(Creating') <= Cardinality(Creating) + 1
        /\ Cardinality(Creating) \in Nat /\ Cardinality(Creating') \in Nat
    BY <1>1, <2>1, CreatingOthers DEF SettlementsInv
  <2>3. u \in Creating' =>
          u \in Creating \/ made + Cardinality(Creating) < MaxRounds
    BY <1>1 DEF Creating
  <2>4. CASE u \in Creating
    <3>1. Cardinality(Creating') <= Cardinality(Creating)
      BY <1>1, <2>1, <2>4, CreatingOthers DEF SettlementsInv
    <3> QED BY <2>1, <2>2, <3>1 DEF SettlementsInv, CreatingFits
  <2>5. CASE u \notin Creating
    BY <2>1, <2>2, <2>3, <2>5 DEF SettlementsInv, CreatingFits
  <2> QED BY <2>4, <2>5
<1> QED BY <1>1, <1>2, <1>3, <1>4, <1>5

\* A request that goes on and takes no lock.
LEMMA GoOnKeepsInv ==
    ASSUME SettlementsInv, NEW u \in User, NEW s \in Step, NEW d \in Draft,
           at' = [at EXCEPT ![u] = s], draft' = [draft EXCEPT ![u] = d],
           UNCHANGED <<source, phase, parts, rounds, made, lockVars, faults>>,
           method' \in [User -> Account], asks' \in 0..MaxAsks,
           MayGoOnTo(u, s, d), s # "writeRound",
           \/ /\ s \notin {"nextNumber", "insertRound", "insertParticipant"}
              /\ at[u] \notin {"nextNumber", "insertRound", "insertParticipant"}
           \/ s = "insertRound" /\ at[u] = "nextNumber"
    PROVE  SettlementsInv'
<1> USE DEF lockVars
<1>1. /\ at' \in [User -> Step] /\ draft' \in [User -> Draft]
      /\ at'[u] = s /\ draft'[u] = d
      /\ \A v \in User \ {u} : at'[v] = at[v] /\ draft'[v] = draft[v]
      /\ DraftsAreFilledIn' /\ NumbersAreMade' /\ CreatingFits'
      /\ RoomToJoin' /\ CapacityHolds' /\ SharesAddUp' /\ NumberIsFree'
  BY OnwardKeepsInv
<1>2. SettlementsTypeOK'
  BY <1>1 DEF SettlementsInv, SettlementsTypeOK
<1>3. LocksAreHeld'
  BY <1>1 DEF SettlementsInv, LocksAreHeld, Exists
<1> QED BY <1>1, <1>2, <1>3 DEF SettlementsInv

\* Asking for something starts a request at its first statement.
LEMMA AskKeepsInv ==
    ASSUME SettlementsInv, NEW u \in User,
           NEW s \in {"saveMethod", "lockMeetup", "lockRound", "removeRound",
                      "markPaid", "unmarkPaid", "join", "leave"},
           NEW d \in Draft, Ask(u, s, d), MayGoOnTo(u, s, d)
    PROVE  SettlementsInv'
<1>1. at[u] = "idle" /\ asks' \in 0..MaxAsks
  BY SettlementsAssumption DEF Ask, MayAsk, SettlementsInv, SettlementsTypeOK
<1>2. s \in Step
  BY DEF Step
<1>3. UNCHANGED <<source, phase, parts, rounds, made, lockVars, faults>>
      /\ method' \in [User -> Account]
  BY DEF Ask, tableVars, SettlementsInv, SettlementsTypeOK
<1> QED BY <1>1, <1>2, <1>3, GoOnKeepsInv DEF Ask

\* So do the pages, whatever they have loaded.
LEMMA PageKeepsInv ==
    ASSUME SettlementsInv, NEW u \in User, PageStep(u)
    PROVE  SettlementsInv'
<1>1. ASSUME NEW r \in Round \cup {NewRound}, NEW S \in SUBSET User,
             NEW account \in Account, SubmitForm(u, r, S, account),
             r = NewRound => RoundsLeft
      PROVE  SettlementsInv'
  <2>0. PICK total \in Total :
          \E due \in {d \in FormAmounts(total, S) : SumOf(d) = total} :
            Ask(u, "saveMethod", [NoDraft EXCEPT !.round = r, !.total = total,
                                  !.due = due, !.account = account])
    BY <1>1 DEF SubmitForm
  <2>1. PICK due \in {d \in FormAmounts(total, S) : SumOf(d) = total} :
          Ask(u, "saveMethod", [NoDraft EXCEPT !.round = r, !.total = total,
                                !.due = due, !.account = account])
    BY <2>0
  <2> DEFINE d == [NoDraft EXCEPT !.round = r, !.total = total, !.due = due,
                                  !.account = account]
  <2>2. d \in Draft
    BY <1>1, FormAmountsAreShares, DraftsAreDrafts
  <2>3. /\ d.total = total /\ d.split = "amounts"
        /\ d.account = account /\ d.round = r
    BY DEF NoDraft
  <2>4. r = NewRound => made + Cardinality(Creating) < MaxRounds
    BY <1>1 DEF RoundsLeft, Creating
  <2>5. MayGoOnTo(u, "saveMethod", d)
    BY <1>1, <2>1, <2>3, <2>4 DEF MayGoOnTo
  <2> HIDE DEF d
  <2> QED BY <2>1, <2>2, <2>5, AskKeepsInv DEF d
<1>2. ASSUME NEW s \in {"removeRound", "markPaid", "unmarkPaid"},
             NEW r \in Round, Ask(u, s, [NoDraft EXCEPT !.round = r])
      PROVE  SettlementsInv'
  <2>1. [NoDraft EXCEPT !.round = r] \in Draft
    BY DraftsAreDrafts
  <2>2. MayGoOnTo(u, s, [NoDraft EXCEPT !.round = r])
    BY DEF MayGoOnTo, CreateSteps, NoDraft
  <2> QED BY <1>2, <2>1, <2>2, AskKeepsInv
<1>3. ASSUME NEW s \in {"join", "leave"}, Ask(u, s, NoDraft)
      PROVE  SettlementsInv'
  <2>1. MayGoOnTo(u, s, NoDraft)
    BY DEF MayGoOnTo, CreateSteps, NoDraft
  <2> QED BY <1>3, <2>1, DraftsAreDrafts, AskKeepsInv
<1>4. CASE CreateRound(u)
  <2>1. PICK S \in (SUBSET parts) \ {{}} : SubmitForm(u, NewRound, S, method[u])
    BY <1>4 DEF CreateRound
  <2>2. S \in SUBSET User /\ method[u] \in Account /\ RoundsLeft
    BY <1>4 DEF CreateRound, SettlementsInv, SettlementsTypeOK
  <2> QED BY <1>1, <2>1, <2>2
<1>5. CASE EditRound(u)
  <2>1. PICK r \in Round, ticked \in SUBSET parts :
          /\ MayEdit(u, r)
          /\ SubmitForm(u, r, ticked \cup (DOMAIN rounds[r].due \ parts),
                        rounds[r].payer)
    BY <1>5 DEF EditRound
  <2>2. rounds[r] \in Row
    BY <2>1 DEF MayEdit, Exists, SettlementsInv, SettlementsTypeOK
  <2>3. ticked \cup (DOMAIN rounds[r].due \ parts) \in SUBSET User
    BY <2>2 DEF Row, Shares, SettlementsInv, SettlementsTypeOK
  <2>4. rounds[r].payer \in Account /\ r # NewRound
    BY <2>2 DEF Row, Round, NewRound
  <2> QED BY <1>1, <2>1, <2>3, <2>4
<1>6. CASE AskRemove(u)
  BY <1>2, <1>6 DEF AskRemove
<1>7. CASE TogglePaid(u)
  BY <1>2, <1>7 DEF TogglePaid
<1>8. CASE AskJoin(u) \/ AskLeave(u)
  BY <1>3, <1>8 DEF AskJoin, AskLeave
<1> QED BY <1>4, <1>5, <1>6, <1>7, <1>8 DEF PageStep

\* So do other clients, whatever amounts or ids they send.
LEMMA ClientKeepsInv ==
    ASSUME SettlementsInv, NEW u \in User, ClientStep(u)
    PROVE  SettlementsInv'
<1>1. RoundsLeft => made + Cardinality(Creating) < MaxRounds
  BY DEF RoundsLeft, Creating
<1>2. ClientAmounts \subseteq Shares
  BY SettlementsAssumption DEF ClientAmounts, Shares
<1>3. CASE PostIds(u)
  <2>1. PICK total \in Total, S \in (SUBSET Named) \ {{}} :
           Ask(u, "lockMeetup", [NoDraft EXCEPT !.total = total,
                                 !.due = RoundedDown(total, S), !.split = "ids"])
    BY <1>3 DEF PostIds
  <2>2. S \in SUBSET User /\ S # {}
    BY SettlementsAssumption
  <2> DEFINE due == RoundedDown(total, S)
             d == [NoDraft EXCEPT !.total = total, !.due = due, !.split = "ids"]
  <2>3. due \in Shares /\ DOMAIN due = S
    BY <2>2, RoundedDownIsShares
  <2>4. SumOf(due) = total - (total % Cardinality(S))
    BY <2>2, RoundedDownAddsUp
  <2> HIDE DEF due
  <2>5. d \in Draft
    BY <2>3, DraftsAreDrafts
  <2>6. d.total = total /\ d.due = due /\ d.split = "ids" /\ d.round = NewRound
    BY DEF NoDraft
  <2>7. Ask(u, "lockMeetup", d)
    BY <2>1 DEF due
  <2> HIDE DEF d
  <2>8. AddsUp(d)
    BY <2>3, <2>4, <2>6 DEF AddsUp, Lost
  <2>9. made + Cardinality(Creating) < MaxRounds
    BY <1>1, <1>3 DEF PostIds
  <2>10. MayGoOnTo(u, "lockMeetup", d)
    BY <2>6, <2>8, <2>9 DEF MayGoOnTo
  <2> QED BY <2>5, <2>7, <2>10, AskKeepsInv
<1>4. CASE PostAmounts(u)
  <2>1. PICK total \in Total, due \in ClientAmounts :
           Ask(u, "lockMeetup", [NoDraft EXCEPT !.total = total, !.due = due])
    BY <1>4 DEF PostAmounts
  <2> DEFINE d == [NoDraft EXCEPT !.total = total, !.due = due]
  <2>2. d \in Draft
    BY <1>2, DraftsAreDrafts
  <2>3. d.total = total /\ d.split = "amounts" /\ d.round = NewRound
    BY DEF NoDraft
  <2>4. made + Cardinality(Creating) < MaxRounds
    BY <1>1, <1>4 DEF PostAmounts
  <2>5. MayGoOnTo(u, "lockMeetup", d)
    BY <2>3, <2>4 DEF MayGoOnTo
  <2> HIDE DEF d
  <2> QED BY <2>1, <2>2, <2>5, AskKeepsInv DEF d
<1>5. CASE PutAmounts(u)
  <2>1. PICK r \in Round, total \in Total, due \in ClientAmounts :
           Ask(u, "lockRound", [NoDraft EXCEPT !.round = r, !.total = total,
                                !.due = due])
    BY <1>5 DEF PutAmounts
  <2> DEFINE d == [NoDraft EXCEPT !.round = r, !.total = total, !.due = due]
  <2>2. d \in Draft
    BY <1>2, DraftsAreDrafts
  <2>3. d.total = total /\ d.split = "amounts" /\ d.round = r
    BY DEF NoDraft
  <2>4. MayGoOnTo(u, "lockRound", d)
    BY <2>3 DEF MayGoOnTo, CreateSteps
  <2> HIDE DEF d
  <2> QED BY <2>1, <2>2, <2>4, AskKeepsInv DEF d
<1> QED BY <1>3, <1>4, <1>5 DEF ClientStep
-----------------------------------------------------------------------------
(* The invariant: requests.                                                *)

\* Statements that go on to the next one without a lock of their own.
LEMMA UnlockedStepKeepsInv ==
    ASSUME SettlementsInv, NEW u \in User,
           SaveMethod(u) \/ SelectNextNumber(u) \/ LeaveMeetup(u)
    PROVE  SettlementsInv'
<1> USE DEF tableVars
<1>0. /\ at[u] \in Step /\ draft[u] \in Draft /\ method[u] \in Account
      /\ method \in [User -> Account]
      /\ asks \in 0..MaxAsks /\ faults \in 0..MaxFaults
  BY DEF SettlementsInv, SettlementsTypeOK
<1>1. CASE SaveMethod(u)
  <2> DEFINE s == IF draft[u].round = NewRound THEN "lockMeetup" ELSE "lockRound"
             d == [draft[u] EXCEPT !.account = Nobody]
  <2>1. s \in Step /\ d \in Draft
    BY <1>0 DEF Step, Draft
  <2>2. at' = [at EXCEPT ![u] = s] /\ draft' = [draft EXCEPT ![u] = d]
    BY <1>1 DEF SaveMethod
  <2>3. method' \in [User -> Account]
    BY <1>0, <1>1 DEF SaveMethod, SettlementsInv, DraftsAreFilledIn
  <2>4. MayGoOnTo(u, s, d)
    <3>1. /\ d.total = draft[u].total /\ d.due = draft[u].due
          /\ d.round = draft[u].round /\ d.split = draft[u].split
      BY <1>0 DEF Draft
    <3>2. draft[u].round \in Round \cup {NewRound}
      BY <1>0 DEF Draft
    <3>3. u \in Creating <=> draft[u].round = NewRound
      BY <1>1 DEF SaveMethod, Creating, CreateSteps
    <3>4. at[u] = "saveMethod" /\ d.total \in Total /\ d.split # "ids"
      BY <1>1, <3>1 DEF SaveMethod, SettlementsInv, DraftsAreFilledIn, CreateSteps
    <3> HIDE DEF d
    <3> QED BY <3>1, <3>2, <3>3, <3>4 DEF MayGoOnTo, NewRound
  <2> HIDE DEF s, d
  <2>5. s \in {"lockMeetup", "lockRound"}
    BY DEF s
  <2> QED BY <1>0, <1>1, <2>1, <2>2, <2>3, <2>4, <2>5, GoOnKeepsInv
       DEF SaveMethod
<1>2. CASE SelectNextNumber(u)
  <2> DEFINE d == [draft[u] EXCEPT !.no = NextNumber, !.account = method[u]]
  <2>1. NextNumber \in 1..(made + 1) /\ ~NumberTaken(NextNumber)
    BY NextNumberIsFree DEF SettlementsInv
  <2>2. u \in Creating
    BY <1>2 DEF SelectNextNumber, Creating, CreateSteps, SettlementsInv,
                DraftsAreFilledIn
  <2>3. made + 1 <= MaxRounds /\ made \in Nat
    <3>1. Creating \in SUBSET User
      BY DEF Creating
    <3>2. IsFiniteSet(Creating) /\ Cardinality(Creating) \in Nat
      BY <3>1, UsersAreFinite
    <3>3. Cardinality(Creating) # 0
      BY <2>2, <3>2, FS_EmptySet
    <3> QED BY <3>2, <3>3, SettlementsAssumption
         DEF SettlementsInv, CreatingFits, SettlementsTypeOK
  <2>4. NextNumber \in 0..MaxRounds
    BY <2>1, <2>3, SettlementsAssumption
  <2>5. d \in Draft /\ d.no = NextNumber /\ d.account = method[u]
        /\ d.total = draft[u].total /\ d.due = draft[u].due
        /\ d.round = draft[u].round /\ d.split = draft[u].split
    BY <1>0, <2>4 DEF Draft
  <2>6. at' = [at EXCEPT ![u] = "insertRound"] /\ draft' = [draft EXCEPT ![u] = d]
    BY <1>2 DEF SelectNextNumber
  <2>7. MayGoOnTo(u, "insertRound", d)
    <3>1. /\ draft[u].total \in Total /\ draft[u].round = NewRound
          /\ AddsUp(draft[u])
      BY <1>2 DEF SelectNextNumber, SettlementsInv, DraftsAreFilledIn, CreateSteps
    <3>2. AddsUp(d)
      BY <2>5, <3>1 DEF AddsUp, Lost
    <3> HIDE DEF d
    <3> QED BY <1>0, <2>1, <2>2, <2>5, <3>1, <3>2 DEF MayGoOnTo
  <2>8. "insertRound" \in Step
    BY DEF Step
  <2> HIDE DEF d
  <2> QED BY <1>0, <1>2, <2>5, <2>6, <2>7, <2>8, GoOnKeepsInv
       DEF SelectNextNumber
<1>3. CASE LeaveMeetup(u) /\ phase # "done"
  <2>1. draft' = [draft EXCEPT ![u] = draft[u]]
    BY <1>3 DEF LeaveMeetup, Continue, SettlementsInv, SettlementsTypeOK
  <2>2. MayGoOnTo(u, "removeParticipant", draft[u])
    BY <1>3 DEF MayGoOnTo, CreateSteps, LeaveMeetup, SettlementsInv,
                DraftsAreFilledIn
  <2>3. "removeParticipant" \in Step
    BY DEF Step
  <2> QED BY <1>0, <1>3, <2>1, <2>2, <2>3, GoOnKeepsInv DEF LeaveMeetup, Continue
<1>4. CASE LeaveMeetup(u) /\ phase = "done"
  BY <1>0, <1>4, RefuseKeepsInv DEF LeaveMeetup, Refuse
<1> QED BY <1>1, <1>2, <1>3, <1>4

\* Statements that take a row lock, or refuse.
LEMMA LockStepKeepsInv ==
    ASSUME SettlementsInv, NEW u \in User,
           RefuseAmounts(u) \/ LockMeetup(u) \/ LockRound(u) \/ JoinMeetup(u)
    PROVE  SettlementsInv'
<1> USE DEF tableVars
<1>0. /\ at[u] \in Step /\ draft[u] \in Draft
      /\ asks \in 0..MaxAsks /\ faults \in 0..MaxFaults
  BY DEF SettlementsInv, SettlementsTypeOK
<1>1. CASE Refuse(u)
  BY <1>0, <1>1, RefuseKeepsInv DEF Refuse
<1>2. ASSUME NEW s \in {"nextNumber", "insertParticipant"}, Continue(u, s),
             MayGoOnTo(u, s, draft[u]), meetupLock = Nobody, meetupLock' = u,
             UNCHANGED <<tableVars, roundLock, asks, faults>>
      PROVE  SettlementsInv'
  <2>1. /\ at' = [at EXCEPT ![u] = s] /\ s \in Step
        /\ draft' = [draft EXCEPT ![u] = draft[u]]
    BY <1>2 DEF Continue, Step, SettlementsInv, SettlementsTypeOK
  <2>2. /\ at' \in [User -> Step] /\ draft' \in [User -> Draft]
        /\ at'[u] = s /\ draft'[u] = draft[u]
        /\ \A v \in User \ {u} : at'[v] = at[v] /\ draft'[v] = draft[v]
        /\ DraftsAreFilledIn' /\ NumbersAreMade' /\ CreatingFits'
        /\ RoomToJoin' /\ CapacityHolds' /\ SharesAddUp' /\ NumberIsFree'
    BY <1>0, <1>2, <2>1, OnwardKeepsInv
  <2>3. SettlementsTypeOK'
    BY <1>2, <2>2 DEF SettlementsInv, SettlementsTypeOK
  <2>4. Nobody \notin User
    BY DEF Nobody, User
  <2>5. LocksAreHeld'
    BY <1>2, <2>2, <2>4 DEF SettlementsInv, LocksAreHeld, Exists
  <2> QED BY <2>2, <2>3, <2>5 DEF SettlementsInv
<1>3. CASE LockMeetup(u) /\ ~Refuse(u)
  <2>1. MayGoOnTo(u, "nextNumber", draft[u])
    <3>1. /\ at[u] = "lockMeetup" /\ draft[u].total \in Total
          /\ draft[u].round = NewRound /\ Accepted(draft[u]) /\ u \in Creating
          /\ draft[u].split = "ids" => AddsUp(draft[u])
      BY <1>3 DEF LockMeetup, SettlementsInv, DraftsAreFilledIn, CreateSteps,
                  Creating
    <3>2. AddsUp(draft[u])
      BY <3>1, AcceptedAddsUp
    <3> QED BY <3>1, <3>2 DEF MayGoOnTo
  <2> QED BY <1>2, <1>3, <2>1 DEF LockMeetup, MeetupFree
<1>4. CASE JoinMeetup(u) /\ ~Refuse(u)
  <2>1. MayGoOnTo(u, "insertParticipant", draft[u])
    BY <1>4 DEF JoinMeetup, MayGoOnTo, CreateSteps, SettlementsInv,
                DraftsAreFilledIn
  <2> QED BY <1>2, <1>4, <2>1 DEF JoinMeetup, MeetupFree
<1>5. CASE LockRound(u) /\ ~Refuse(u)
  <2>1. /\ Continue(u, "writeRound") /\ draft[u].round \in Round
        /\ roundLock[draft[u].round] = Nobody /\ Exists(draft[u].round)
        /\ roundLock' = [roundLock EXCEPT ![draft[u].round] = u]
        /\ UNCHANGED <<tableVars, meetupLock, asks, faults>>
        /\ at[u] = "lockRound" /\ Accepted(draft[u])
    BY <1>5 DEF LockRound, RoundFree, MayEdit, SettlementsInv, DraftsAreFilledIn
  <2>2. /\ at' = [at EXCEPT ![u] = "writeRound"] /\ "writeRound" \in Step
        /\ draft' = [draft EXCEPT ![u] = draft[u]]
    BY <2>1 DEF Continue, Step, SettlementsInv, SettlementsTypeOK
  <2>3. MayGoOnTo(u, "writeRound", draft[u])
    <3>1. draft[u].total \in Total /\ draft[u].split # "ids"
      BY <2>1 DEF SettlementsInv, DraftsAreFilledIn, CreateSteps
    <3>2. AddsUp(draft[u])
      BY <2>1, <3>1, AcceptedAddsUp
    <3> QED BY <2>1, <3>1, <3>2 DEF MayGoOnTo, CreateSteps
  <2>4. /\ at' \in [User -> Step] /\ draft' \in [User -> Draft]
        /\ at'[u] = "writeRound" /\ draft'[u] = draft[u]
        /\ \A v \in User \ {u} : at'[v] = at[v] /\ draft'[v] = draft[v]
        /\ DraftsAreFilledIn' /\ NumbersAreMade' /\ CreatingFits'
        /\ RoomToJoin' /\ CapacityHolds' /\ SharesAddUp' /\ NumberIsFree'
    BY <1>0, <2>1, <2>2, <2>3, OnwardKeepsInv
  <2>5. SettlementsTypeOK'
    BY <2>1, <2>4 DEF SettlementsInv, SettlementsTypeOK
  <2>6. Nobody \notin User
    BY DEF Nobody, User
  <2>7. \A v \in User : at'[v] = "writeRound" =>
          roundLock'[draft'[v].round] = v /\ rounds'[draft'[v].round] # NoRow
    <3>1. ASSUME NEW v \in User, v # u, at[v] = "writeRound"
          PROVE  roundLock'[draft[v].round] = v /\ rounds[draft[v].round] # NoRow
      <4>1. draft[v].round \in Round /\ roundLock[draft[v].round] = v
            /\ rounds[draft[v].round] # NoRow
        BY <3>1 DEF SettlementsInv, DraftsAreFilledIn, LocksAreHeld, Exists
      <4> QED BY <2>1, <2>6, <4>1 DEF Exists, SettlementsInv, SettlementsTypeOK
    <3>2. roundLock'[draft[u].round] = u /\ rounds[draft[u].round] # NoRow
      BY <2>1 DEF Exists, SettlementsInv, SettlementsTypeOK
    <3> QED BY <2>1, <2>4, <3>1, <3>2
  <2>8. LocksAreHeld'
    BY <2>1, <2>4, <2>7 DEF SettlementsInv, LocksAreHeld, Exists
  <2> QED BY <2>4, <2>5, <2>8 DEF SettlementsInv
<1> QED BY <1>1, <1>3, <1>4, <1>5 DEF RefuseAmounts

\* A request that ends is not creating, and the others still are.
LEMMA FinishFits ==
    ASSUME SettlementsInv, NEW u \in User, Finish(u),
           \/ made' = made
           \/ made' = made + 1 /\ u \in Creating
    PROVE  CreatingFits' /\ made' \in 0..MaxRounds
<1>1. made \in 0..MaxRounds /\ MaxRounds \in Nat
  BY SettlementsAssumption DEF SettlementsInv, SettlementsTypeOK
<1>2. u \notin Creating'
  BY AfterFinish DEF Creating, CreateSteps
<1>3. /\ Cardinality(Creating') = IF u \in Creating THEN Cardinality(Creating) - 1
                                                    ELSE Cardinality(Creating)
      /\ Cardinality(Creating) \in Nat /\ Cardinality(Creating') \in Nat
  <2>1. made' \in Nat
    BY <1>1
  <2> QED BY <1>2, <2>1, AfterFinish, CreatingOthers DEF SettlementsInv
<1> QED BY <1>1, <1>3 DEF SettlementsInv, CreatingFits

\* A change of one round, or none, that keeps its number and its shares
\* adding up, at the end of a request.
LEMMA RoundChangeKeepsInv ==
    ASSUME SettlementsInv, NEW u \in User, NEW r \in Round,
           NEW new \in Row \cup {NoRow},
           Finish(u), rounds' = [rounds EXCEPT ![r] = new],
           UNCHANGED <<source, phase, parts, made, method, asks, faults>>,
           new # NoRow => /\ Exists(r) /\ new.no = rounds[r].no
                          /\ AddsUp(new),
           new = NoRow => roundLock[r] \in {Nobody, u}
    PROVE  SettlementsInv'
<1>0. /\ at'[u] = "idle"
      /\ \A v \in User \ {u} : at'[v] = at[v] /\ draft'[v] = draft[v]
  BY AfterFinish
<1>1. SettlementsTypeOK'
  BY AfterFinish DEF SettlementsInv, SettlementsTypeOK
<1>2. LocksAreHeld'
  <2>1. ASSUME NEW v \in User, at'[v] = "writeRound"
        PROVE  roundLock'[draft'[v].round] = v /\ rounds'[draft'[v].round] # NoRow
    <3>1. /\ roundLock'[draft'[v].round] = v /\ roundLock[draft[v].round] = v
          /\ Exists(draft[v].round) /\ v # u /\ draft[v].round \in Round
      BY <2>1, AfterFinish
    <3>2. v # Nobody /\ draft'[v].round = draft[v].round
      BY <1>0, <3>1 DEF Nobody, User
    <3> QED BY <3>1, <3>2 DEF Exists, SettlementsInv, SettlementsTypeOK
  <2> QED BY <2>1, AfterFinish DEF LocksAreHeld, Exists
<1>3. DraftsAreFilledIn'
  BY AfterFinish
<1>4. NumbersAreMade'
  BY <1>0 DEF SettlementsInv, SettlementsTypeOK, NumbersAreMade, Exists
<1>5. CreatingFits'
  BY FinishFits
<1>6. RoomToJoin' /\ CapacityHolds'
  BY <1>0 DEF SettlementsInv, RoomToJoin, CapacityHolds
<1>7. SharesAddUp'
  <2> SUFFICES ASSUME NEW s \in Round, rounds'[s] # NoRow
               PROVE  AddsUp(rounds'[s])
    BY DEF SharesAddUp, Exists
  <2>1. CASE s = r
    BY <2>1 DEF SettlementsInv, SettlementsTypeOK
  <2>2. CASE s # r
    <3>1. rounds'[s] = rounds[s]
      BY <2>2 DEF SettlementsInv, SettlementsTypeOK
    <3> QED BY <3>1 DEF SettlementsInv, SharesAddUp, Exists
  <2> QED BY <2>1, <2>2
<1>8. NumberIsFree'
  BY <1>0 DEF SettlementsInv, SettlementsTypeOK, NumberIsFree, NumberTaken, Exists
<1> QED BY <1>1, <1>2, <1>3, <1>4, <1>5, <1>6, <1>7, <1>8 DEF SettlementsInv

\* What updateSettlement makes of a round.
LEMMA EditedRowIsRow ==
    ASSUME NEW row \in Row, NEW d \in Draft, d.total \in Total,
           NEW payer \in Account
    PROVE  /\ EditedRow(row, d, payer) \in Row
           /\ EditedRow(row, d, payer).no = row.no
           /\ EditedRow(row, d, payer).due = d.due
           /\ EditedRow(row, d, payer).total = d.total
           /\ EditedRow(row, d, payer).split = d.split
           /\ EditedRow(row, d, payer).paid = row.paid \cap DOMAIN d.due
  BY DEF EditedRow, Row, Draft

\* A row of a round is no NoRow: it has a number of its own.
LEMMA RowsDiffer == NoRow \notin Row
  BY DEF NoRow, Row, Round

\* The statements that end a request with a change of a round.
LEMMA RoundStepKeepsInv ==
    ASSUME SettlementsInv, NEW u \in User,
           WriteRound(u) \/ RemoveRound(u) \/ MarkPaid(u)
    PROVE  SettlementsInv'
<1> DEFINE r == draft[u].round
<1>0. /\ draft[u] \in Draft /\ r \in Round /\ method[u] \in Account
      /\ rounds[r] \in Row \cup {NoRow}
      /\ asks \in 0..MaxAsks /\ faults \in 0..MaxFaults
  BY DEF SettlementsInv, SettlementsTypeOK, DraftsAreFilledIn, WriteRound,
         RemoveRound, MarkPaid
<1>1. CASE Refuse(u)
  BY <1>0, <1>1, RefuseKeepsInv DEF Refuse, tableVars
<1>2. CASE WriteRound(u)
  <2>1. /\ rounds[r] \in Row /\ draft[u].total \in Total
        /\ AddsUp(draft[u])
    BY <1>0, <1>2 DEF WriteRound, SettlementsInv, LocksAreHeld, Exists,
                      DraftsAreFilledIn
  <2> DEFINE new == EditedRow(rounds[r], draft[u], method[u])
  <2>2. /\ new \in Row /\ new.no = rounds[r].no
        /\ new.due = draft[u].due /\ new.total = draft[u].total
        /\ new.split = draft[u].split /\ Exists(r) /\ new # NoRow
    BY <1>0, <2>1, EditedRowIsRow, RowsDiffer DEF Exists
  <2>3. /\ rounds' = [rounds EXCEPT ![r] = new] /\ Finish(u)
        /\ UNCHANGED <<source, phase, parts, made, method, asks, faults>>
    BY <1>2 DEF WriteRound
  <2> HIDE DEF new, r
  <2>4. AddsUp(new)
    BY <2>1, <2>2 DEF AddsUp, Lost
  <2> QED BY <1>0, <2>2, <2>3, <2>4, RoundChangeKeepsInv
<1>3. CASE RemoveRound(u) /\ ~Refuse(u)
  <2>1. /\ rounds' = [rounds EXCEPT ![r] = NoRow] /\ Finish(u)
        /\ UNCHANGED <<source, phase, parts, made, method, asks, faults>>
        /\ roundLock[r] = Nobody
    BY <1>3 DEF RemoveRound, RoundFree
  <2> HIDE DEF r
  <2> QED BY <1>0, <2>1, RoundChangeKeepsInv
<1>4. CASE MarkPaid(u) /\ ~Refuse(u)
  <2> DEFINE paid == IF at[u] = "markPaid" THEN rounds[r].paid \cup {u}
                                           ELSE rounds[r].paid \ {u}
             new == [rounds[r] EXCEPT !.paid = paid]
  <2>1. /\ rounds' = [rounds EXCEPT ![r] = new] /\ Finish(u)
        /\ UNCHANGED <<source, phase, parts, made, method, asks, faults>>
        /\ Exists(r)
    BY <1>4 DEF MarkPaid
  <2>2. rounds[r] \in Row
    BY <1>0, <2>1 DEF Exists
  <2>3. paid \in SUBSET User
    BY <2>2 DEF Row
  <2>4. /\ new \in Row /\ new.no = rounds[r].no /\ new.due = rounds[r].due
        /\ new.total = rounds[r].total /\ new.split = rounds[r].split
    BY <2>2, <2>3 DEF Row
  <2>5. AddsUp(new)
    <3>1. AddsUp(rounds[r])
      BY <1>0, <2>1 DEF SettlementsInv, SharesAddUp
    <3> HIDE DEF new, r
    <3> QED BY <2>4, <3>1 DEF AddsUp, Lost
  <2> HIDE DEF new, r
  <2> QED BY <1>0, <2>1, <2>4, <2>5, RowsDiffer, RoundChangeKeepsInv
<1> QED BY <1>1, <1>2, <1>3, <1>4

\* The insert of a new round, whose number is still free.
LEMMA InsertRoundKeepsInv ==
    ASSUME SettlementsInv, NEW u \in User, InsertRound(u)
    PROVE  SettlementsInv'
<1> DEFINE d == draft[u]
           new == [no |-> d.no, total |-> d.total, by |-> u,
                   payer |-> d.account, due |-> d.due, split |-> d.split,
                   paid |-> {}]
<1>0. /\ at[u] = "insertRound" /\ Finish(u) /\ made' = made + 1
      /\ rounds' = [rounds EXCEPT ![made + 1] = new]
      /\ UNCHANGED <<source, phase, parts, method, asks, faults>>
  BY DEF InsertRound
<1>1. u \in Creating
  BY <1>0 DEF Creating, CreateSteps, SettlementsInv, DraftsAreFilledIn
<1>2. CreatingFits' /\ made + 1 \in 0..MaxRounds
  BY <1>0, <1>1, FinishFits
<1>3. made + 1 \in Round /\ made \in Nat
  BY <1>2, SettlementsAssumption DEF Round, SettlementsInv, SettlementsTypeOK
<1>4. /\ d \in Draft /\ d.total \in Total /\ d.account \in Account
      /\ d.no \in 1..(made + 1) /\ AddsUp(d)
  BY <1>0 DEF SettlementsInv, SettlementsTypeOK, DraftsAreFilledIn,
              NumbersAreMade, CreateSteps
<1>5. d.no \in Round
  BY <1>2, <1>3, <1>4, SettlementsAssumption DEF Round
<1>6. /\ new \in Row /\ new.no = d.no /\ new.due = d.due /\ new.total = d.total
      /\ new.split = d.split
  BY <1>4, <1>5 DEF Row, Draft
<1>7. /\ at'[u] = "idle"
      /\ \A v \in User \ {u} : at'[v] = at[v] /\ draft'[v] = draft[v]
  BY <1>0, AfterFinish
<1> HIDE DEF new, d
<1>8. SettlementsTypeOK'
  BY <1>0, <1>2, <1>6, AfterFinish DEF SettlementsInv, SettlementsTypeOK
<1>9. /\ rounds'[made + 1] = new /\ new # NoRow
      /\ \A r \in Round \ {made + 1} : rounds'[r] = rounds[r]
  BY <1>0, <1>3, <1>6, RowsDiffer DEF SettlementsInv, SettlementsTypeOK
<1>10. LocksAreHeld'
  <2>1. ASSUME NEW v \in User, at'[v] = "writeRound"
        PROVE  roundLock'[draft'[v].round] = v /\ rounds'[draft'[v].round] # NoRow
    <3>1. /\ roundLock'[draft'[v].round] = v
          /\ Exists(draft[v].round) /\ v # u /\ draft[v].round \in Round
      BY <1>0, <2>1, AfterFinish
    <3> QED BY <1>7, <1>9, <3>1 DEF Exists
  <2> QED BY <1>0, <2>1, AfterFinish DEF LocksAreHeld, Exists
<1>11. \A v \in User : at'[v] # "insertRound"
  BY <1>0, <1>7 DEF SettlementsInv, LocksAreHeld
<1>12. DraftsAreFilledIn' /\ NumberIsFree'
  BY <1>0, <1>11, AfterFinish DEF NumberIsFree
<1>13. NumbersAreMade'
  <2>1. \A r \in Round : Exists(r)' => r <= made + 1 /\ rounds'[r].no <= made + 1
    <3> SUFFICES ASSUME NEW r \in Round, Exists(r)'
                 PROVE  r <= made + 1 /\ rounds'[r].no <= made + 1
      OBVIOUS
    <3>1. CASE r = made + 1
      BY <1>3, <1>4, <1>6, <1>9, <3>1
    <3>2. CASE r # made + 1
      <4>1. rounds'[r] = rounds[r] /\ Exists(r) /\ rounds[r].no \in Int
        BY <1>9, <3>2 DEF Exists, SettlementsInv, SettlementsTypeOK, Row, Round
      <4>2. r <= made /\ rounds[r].no <= made
        BY <4>1 DEF SettlementsInv, NumbersAreMade
      <4> QED BY <1>3, <4>1, <4>2 DEF Round
    <3> QED BY <3>1, <3>2
  <2> QED BY <1>0, <1>11, <2>1 DEF NumbersAreMade
<1>14. RoomToJoin' /\ CapacityHolds'
  BY <1>0, <1>7 DEF SettlementsInv, RoomToJoin, CapacityHolds
<1>15. SharesAddUp'
  <2>1. AddsUp(new)
    BY <1>4, <1>6 DEF AddsUp, Lost
  <2> QED BY <1>9, <2>1 DEF SettlementsInv, SharesAddUp, Exists
<1> QED BY <1>2, <1>8, <1>10, <1>12, <1>13, <1>14, <1>15 DEF SettlementsInv

\* Participants come and go.
LEMMA ParticipantStepKeepsInv ==
    ASSUME SettlementsInv, NEW u \in User,
           InsertParticipant(u) \/ RemoveParticipant(u)
    PROVE  SettlementsInv'
<1>0. /\ Finish(u)
      /\ UNCHANGED <<source, phase, rounds, made, method, asks, faults>>
      /\ parts' \subseteq User /\ parts \subseteq User
  BY DEF InsertParticipant, RemoveParticipant, SettlementsInv, SettlementsTypeOK
<1>1. /\ at'[u] = "idle"
      /\ \A v \in User \ {u} : at'[v] = at[v] /\ draft'[v] = draft[v]
  BY <1>0, AfterFinish
<1>2. SettlementsTypeOK'
  BY <1>0, AfterFinish DEF SettlementsInv, SettlementsTypeOK
<1>3. LocksAreHeld'
  BY <1>0, <1>1, AfterFinish DEF LocksAreHeld, Exists
<1>4. DraftsAreFilledIn' /\ CreatingFits'
  BY <1>0, AfterFinish, FinishFits
<1>5. NumbersAreMade' /\ SharesAddUp' /\ NumberIsFree'
  BY <1>0, <1>1 DEF SettlementsInv, NumbersAreMade, SharesAddUp, NumberIsFree,
                    NumberTaken, Exists
<1>6. IsFiniteSet(parts) /\ Cardinality(parts) \in Nat /\ Capacity \in Nat
  BY <1>0, UsersAreFinite, SettlementsAssumption
<1>7. CASE InsertParticipant(u)
  <2>1. Cardinality(parts') <= Cardinality(parts) + 1 /\ Cardinality(parts') \in Nat
    <3>1. /\ parts' = parts \cup {u}
          /\ Cardinality(parts \cup {u}) = IF u \in parts THEN Cardinality(parts)
                                           ELSE Cardinality(parts) + 1
      BY <1>6, <1>7, FS_AddElement DEF InsertParticipant
    <3> QED BY <1>6, <3>1
  <2>2. \A v \in User : at'[v] # "insertParticipant"
    BY <1>1, <1>7 DEF InsertParticipant, SettlementsInv, LocksAreHeld
  <2>3. RoomToJoin'
    BY <2>2 DEF RoomToJoin
  <2>4. CapacityHolds'
    BY <1>0, <1>6, <1>7, <2>1
    DEF InsertParticipant, SettlementsInv, RoomToJoin, CapacityHolds
  <2> QED BY <1>2, <1>3, <1>4, <1>5, <2>3, <2>4 DEF SettlementsInv
<1>8. CASE RemoveParticipant(u)
  <2>1. Cardinality(parts') <= Cardinality(parts) /\ Cardinality(parts') \in Nat
    <3>1. /\ parts' = parts \ {u}
          /\ Cardinality(parts \ {u}) = IF u \in parts THEN Cardinality(parts) - 1
                                         ELSE Cardinality(parts)
      BY <1>6, <1>8, FS_RemoveElement DEF RemoveParticipant
    <3>2. Cardinality(parts') \in Nat
      BY <1>0, UsersAreFinite
    <3> QED BY <1>6, <3>1, <3>2
  <2>2. RoomToJoin' /\ CapacityHolds'
    BY <1>0, <1>1, <1>6, <2>1 DEF SettlementsInv, RoomToJoin, CapacityHolds
  <2> QED BY <1>2, <1>3, <1>4, <1>5, <2>2 DEF SettlementsInv
<1> QED BY <1>7, <1>8

\* A failing statement or connection ends a request without a change.
LEMMA FailureKeepsInv ==
    ASSUME SettlementsInv, NEW u \in User, RequestFails(u)
    PROVE  SettlementsInv'
<1>1. faults' \in 0..MaxFaults /\ asks' \in 0..MaxAsks
  BY SettlementsAssumption DEF RequestFails, SettlementsInv, SettlementsTypeOK
<1> QED BY <1>1, RefuseKeepsInv DEF RequestFails

\* Every step keeps the invariant.
LEMMA InvStep ==
    SettlementsInv /\ [SettlementsNext]_vars => SettlementsInv'
<1> SUFFICES ASSUME SettlementsInv, [SettlementsNext]_vars
             PROVE  SettlementsInv'
  OBVIOUS
<1>1. CASE UNCHANGED vars
  BY <1>1 DEF vars, tableVars, lockVars, pageVars, SettlementsInv,
    SettlementsTypeOK, LocksAreHeld, DraftsAreFilledIn, NumbersAreMade,
    CreatingFits, Creating, RoomToJoin, CapacityHolds, SharesAddUp,
    NumberIsFree, NumberTaken, Exists
<1>2. CASE MeetupMoves \/ SyncSomoimEvents
  BY <1>2, OutsideKeepsInv
<1>3. ASSUME NEW u \in User, PageStep(u) PROVE SettlementsInv'
  BY <1>3, PageKeepsInv
<1>6. ASSUME NEW u \in User, ClientStep(u) PROVE SettlementsInv'
  BY <1>6, ClientKeepsInv
<1>4. ASSUME NEW u \in User, RequestStep(u) PROVE SettlementsInv'
  BY <1>4, UnlockedStepKeepsInv, LockStepKeepsInv, RoundStepKeepsInv,
     InsertRoundKeepsInv, ParticipantStepKeepsInv DEF RequestStep
<1>5. ASSUME NEW u \in User, RequestFails(u) PROVE SettlementsInv'
  BY <1>5, FailureKeepsInv
<1> QED BY <1>1, <1>2, <1>3, <1>4, <1>5, <1>6 DEF SettlementsNext
-----------------------------------------------------------------------------
(* The theorems.                                                           *)

\* The inductive invariant holds in every state: what each request carries
\* from one statement to the next, and what the row lock keeps true of it
\* (joinMeetup, createSettlement and updateSettlement).
THEOREM SettlementsInvCorrect == SettlementsSpec => []SettlementsInv
<1>1. SettlementsInit => SettlementsInv
  BY InvInit
<1>2. SettlementsInv /\ [SettlementsNext]_vars => SettlementsInv'
  BY InvStep
<1> QED BY <1>1, <1>2, PTL DEF SettlementsSpec

\* However many people join at once, the meetup has room for all who are in
\* (joinMeetup).
THEOREM CapacityCorrect == SettlementsSpec => []CapacityHolds
<1>1. SettlementsInv => CapacityHolds
  BY DEF SettlementsInv
<1> QED BY <1>1, SettlementsInvCorrect, PTL

\* The shares of a round add up to its total, through every edit, save for the
\* remainder that is dropped where a round is made of ids alone
\* (normalizeParticipantAmounts, createSettlement and updateSettlement).
THEOREM SharesCorrect == SettlementsSpec => []SharesAddUp
<1>1. SettlementsInv => SharesAddUp
  BY DEF SettlementsInv
<1> QED BY <1>1, SettlementsInvCorrect, PTL

\* The number of a new round is free when it is inserted (createSettlement
\* never fails on UNIQUE (meetup_id, round_no)).
THEOREM NumbersCorrect == SettlementsSpec => []NumberIsFree
<1>1. SettlementsInv => NumberIsFree
  BY DEF SettlementsInv
<1> QED BY <1>1, SettlementsInvCorrect, PTL

\* What the form proposes adds up, for any people and any total: an equal split
\* (applyEqualAmounts), and the rest shared after one amount is typed in
\* (setParticipantAmount).
THEOREM SplitsOfAnyTotal ==
    \A S \in (SUBSET User) \ {{}}, total \in Nat :
        /\ SumOf(EqualAmounts(total, S)) = total
        /\ \A v \in S, x \in 0..total :
              S # {v} => SumOf(FixedAmount(total, S, v, x)) = total
<1> TAKE S \in (SUBSET User) \ {{}}, total \in Nat
<1>1. S \in SUBSET User /\ S # {}
  OBVIOUS
<1>2. SumOf(EqualAmounts(total, S)) = total
  BY <1>1, EqualAmountsAddUp
<1>3. ASSUME NEW v \in S, NEW x \in 0..total, S # {v}
      PROVE  SumOf(FixedAmount(total, S, v, x)) = total
  BY <1>1, <1>3, FixedAmountAddsUp
<1> QED BY <1>2, <1>3

\* The form's own proposal can always be sent, for the totals the run tries.
THEOREM SplitsCorrect == SettlementsSpec => []SplitsAddUp
<1>1. SplitsAddUp
  <2>1. 0..12 \subseteq Nat
    OBVIOUS
  <2> QED BY <2>1, SplitsOfAnyTotal DEF SplitsAddUp
<1> QED BY <1>1, PTL

\* The mark of a debtor stays on a round.
MarksStay(r) ==
    Exists(r) /\ Exists(r)' =>
      \A v \in rounds[r].paid \cap DOMAIN rounds'[r].due :
        v \in rounds'[r].paid \/ at[v] = "unmarkPaid"

\* Each statement that writes a round keeps the marks.
LEMMA MarksStep ==
    ASSUME SettlementsInv, [SettlementsNext]_vars, NEW r \in Round
    PROVE  MarksStay(r)
<1>1. CASE rounds' = rounds
  BY <1>1 DEF MarksStay
<1>2. ASSUME NEW u \in User, InsertRound(u) PROVE MarksStay(r)
  <2>1. made + 1 \in Nat /\ rounds' = [rounds EXCEPT ![made + 1] =
            [no |-> draft[u].no, total |-> draft[u].total, by |-> u,
             payer |-> draft[u].account, due |-> draft[u].due,
             split |-> draft[u].split, paid |-> {}]]
    BY <1>2 DEF InsertRound, SettlementsInv, SettlementsTypeOK
  <2>2. Exists(r) => r # made + 1
    BY <2>1 DEF SettlementsInv, SettlementsTypeOK, NumbersAreMade, Round
  <2> QED BY <2>1, <2>2 DEF MarksStay, SettlementsInv, SettlementsTypeOK
<1>3. ASSUME NEW u \in User, WriteRound(u) PROVE MarksStay(r)
  <2> DEFINE w == draft[u].round
  <2>1. /\ rounds' = [rounds EXCEPT ![w] = EditedRow(rounds[w], draft[u], method[u])]
        /\ draft[u] \in Draft /\ draft[u].total \in Total /\ w \in Round
        /\ method[u] \in Account /\ rounds[w] \in Row
    BY <1>3 DEF WriteRound, SettlementsInv, SettlementsTypeOK, DraftsAreFilledIn,
                LocksAreHeld, Exists
  <2>2. CASE r = w
    <3>1. /\ rounds'[r].due = draft[u].due
          /\ rounds'[r].paid = rounds[r].paid \cap DOMAIN draft[u].due
      BY <2>1, <2>2, EditedRowIsRow DEF SettlementsInv, SettlementsTypeOK
    <3> QED BY <3>1 DEF MarksStay
  <2>3. CASE r # w
    BY <2>1, <2>3 DEF MarksStay, SettlementsInv, SettlementsTypeOK
  <2> QED BY <2>2, <2>3
<1>4. ASSUME NEW u \in User, RemoveRound(u) PROVE MarksStay(r)
  BY <1>4 DEF RemoveRound, Refuse, tableVars, MarksStay, Exists, SettlementsInv,
              SettlementsTypeOK
<1>5. ASSUME NEW u \in User, MarkPaid(u) PROVE MarksStay(r)
  <2>1. CASE Refuse(u)
    BY <1>1, <2>1 DEF Refuse, tableVars
  <2>2. CASE ~Refuse(u)
    <3> DEFINE w == draft[u].round
    <3>1. /\ rounds' = [rounds EXCEPT ![w].paid = IF at[u] = "markPaid"
                                                   THEN @ \cup {u} ELSE @ \ {u}]
          /\ at[u] \in {"markPaid", "unmarkPaid"} /\ w \in Round
      BY <1>5, <2>2 DEF MarkPaid, SettlementsInv, DraftsAreFilledIn
    <3>2. CASE r = w
      <4>1. Exists(r) => rounds[r] \in Row
        BY DEF Exists, SettlementsInv, SettlementsTypeOK
      <4>2. rounds'[r] = [rounds[r] EXCEPT !.paid = IF at[u] = "markPaid"
                            THEN rounds[r].paid \cup {u} ELSE rounds[r].paid \ {u}]
        BY <3>1, <3>2 DEF SettlementsInv, SettlementsTypeOK
      <4> QED BY <3>1, <4>1, <4>2 DEF MarksStay, Row
    <3>3. CASE r # w
      BY <3>1, <3>3 DEF MarksStay, SettlementsInv, SettlementsTypeOK
    <3> QED BY <3>2, <3>3
  <2> QED BY <2>1, <2>2
<1>6. ASSUME NEW u \in User,
             \/ PageStep(u) \/ RequestFails(u) \/ SaveMethod(u) \/ LockMeetup(u)
             \/ SelectNextNumber(u) \/ LockRound(u) \/ JoinMeetup(u)
             \/ InsertParticipant(u) \/ LeaveMeetup(u) \/ RemoveParticipant(u)
             \/ ClientStep(u) \/ RefuseAmounts(u)
      PROVE  rounds' = rounds
  BY <1>6 DEF PageStep, CreateRound, EditRound, SubmitForm, AskRemove, TogglePaid,
    AskJoin, AskLeave, Ask, RequestFails, SaveMethod, LockMeetup,
    SelectNextNumber, LockRound, JoinMeetup, InsertParticipant, LeaveMeetup,
    RemoveParticipant, Refuse, ClientStep, PostIds, PostAmounts, PutAmounts,
    RefuseAmounts, tableVars
<1>7. CASE UNCHANGED vars \/ MeetupMoves \/ SyncSomoimEvents
  BY <1>1, <1>7 DEF vars, tableVars, MeetupMoves, SyncSomoimEvents
<1> QED BY <1>1, <1>2, <1>3, <1>4, <1>5, <1>6, <1>7
     DEF SettlementsNext, RequestStep

\* A mark "paid" survives every edit and insert, and every other debtor's mark;
\* only its debtor takes it back (updateSettlement, markParticipantPaid).
THEOREM MarksCorrect == SettlementsSpec => MarksAreKept
<1>1. SettlementsInv /\ [SettlementsNext]_vars =>
        [\A r \in Round : MarksStay(r)]_vars
  BY MarksStep
<1> QED BY <1>1, SettlementsInvCorrect, PTL
     DEF SettlementsSpec, MarksAreKept, MarksStay
=============================================================================
