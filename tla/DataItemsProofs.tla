-------------------------- MODULE DataItemsProofs --------------------------
(***************************************************************************)
(* Data items and bundles are read back as they were made, for strings,    *)
(* tags, parts and items of any length and number.                         *)
(*                                                                         *)
(* The codec consists of loops, so the proofs are by induction over their  *)
(* turns, or over the digits of a number; the lemmas of the first section  *)
(* provide it.  Above them, "Holds" says where bytes are in other bytes:   *)
(* the writer puts them there and the reader finds them there.             *)
(***************************************************************************)
EXTENDS DataItems, SequenceTheorems, WellFoundedInduction, TLAPS

-----------------------------------------------------------------------------
(* Induction, loops and numbers                                            *)

Below == {p \in Nat \X Nat : p[1] < p[2]}

\* The order of the naturals is well-founded.
LEMMA BelowWellFounded == IsWellFoundedOn(Below, Nat)
<1>1. OpToRel(<, Nat) = Below
  BY DEF OpToRel, Below
<1>2. QED BY <1>1, NatLessThanWellFounded

\* Sets of naturals have a least member.
LEMMA Least ==
    ASSUME NEW T \in SUBSET Nat, T # {}
    PROVE  \E x \in T : \A y \in T : x <= y
<1>1. PICK x \in T : \A y \in T : ~(<<y, x>> \in Below)
  BY BelowWellFounded, WFMin
<1>2. ASSUME NEW y \in T, y < x PROVE FALSE
  <2>1. <<y, x>> \in Nat \X Nat /\ <<y, x>>[1] < <<y, x>>[2]
    BY <1>2
  <2>2. QED BY <1>1, <2>1 DEF Below
<1>3. QED BY <1>2

\* Functions on 1 .. n are sequences.
LEMMA FunctionIsSeq ==
    ASSUME NEW S, NEW n \in Nat, NEW f \in [1 .. n -> S]
    PROVE  f \in Seq(S) /\ Len(f) = n
OBVIOUS

\* Induction, for a set in place of a predicate.
LEMMA Induction ==
    ASSUME NEW S, 0 \in S, \A n \in Nat : n \in S => n + 1 \in S
    PROVE  Nat \subseteq S
<1> SUFFICES ASSUME Nat \ S # {} PROVE FALSE
  OBVIOUS
<1>1. PICK x \in Nat \ S : \A y \in Nat \ S : x <= y
  BY Least
<1>2. x - 1 \in Nat /\ x - 1 \in S
  BY <1>1
<1>3. (x - 1) + 1 \in S
  BY <1>2
<1>4. QED BY <1>1, <1>3

\* Min finds the least member.
LEMMA MinIs ==
    ASSUME NEW T \in SUBSET Nat, T # {}
    PROVE  Min(T) \in T /\ \A y \in T : Min(T) <= y
BY Least DEF Min

\* The first n turns of a loop over values in T.
Turns(T, base, step, n, g) ==
    /\ g \in [0 .. n -> T]
    /\ g[0] = base
    /\ \A k \in 1 .. n : g[k] = step[k][g[k - 1]]

\* A loop can be run for any number of turns,
LEMMA TurnsExist ==
    ASSUME NEW T, NEW base \in T, NEW step \in [Nat -> [T -> T]]
    PROVE  \A n \in Nat : \E g : Turns(T, base, step, n, g)
<1> DEFINE S == {n \in Nat : \E g : Turns(T, base, step, n, g)}
<1>1. 0 \in S
  <2>1. Turns(T, base, step, 0, [k \in 0 .. 0 |-> base])
    BY DEF Turns
  <2>2. QED BY <2>1
<1>2. ASSUME NEW n \in Nat, n \in S PROVE n + 1 \in S
  <2>1. PICK g : Turns(T, base, step, n, g)
    BY <1>2
  <2> DEFINE h == [k \in 0 .. n + 1 |-> IF k <= n THEN g[k] ELSE step[k][g[k - 1]]]
  <2>2. g[n] \in T /\ step[n + 1][g[n]] \in T
    BY <2>1 DEF Turns
  <2>3. h \in [0 .. n + 1 -> T]
    BY <2>1, <2>2 DEF Turns
  <2>4. h[0] = base
    BY <2>1 DEF Turns
  <2>5. \A k \in 1 .. n + 1 : h[k] = step[k][h[k - 1]]
    BY <2>1 DEF Turns
  <2>6. Turns(T, base, step, n + 1, h)
    BY <2>3, <2>4, <2>5 DEF Turns
  <2> HIDE DEF h
  <2>7. QED BY <2>6
<1>3. Nat \subseteq S
  BY <1>1, <1>2, Induction
<1>4. QED BY <1>3

\* and its turns do not depend on how many follow.
LEMMA TurnsAgree ==
    ASSUME NEW T, NEW base, NEW step, NEW n \in Nat, NEW m \in Nat, n <= m, NEW g, NEW h,
           Turns(T, base, step, n, g), Turns(T, base, step, m, h)
    PROVE  g[n] = h[n]
<1> DEFINE S == {k \in Nat : k <= n => g[k] = h[k]}
<1>1. 0 \in S
  BY DEF Turns
<1>2. ASSUME NEW k \in Nat, k \in S PROVE k + 1 \in S
  <2>1. CASE k + 1 <= n
    <3>1. g[k] = h[k] /\ (k + 1) - 1 = k /\ k + 1 \in 1 .. n /\ k + 1 \in 1 .. m
      BY <1>2, <2>1
    <3>2. g[k + 1] = step[k + 1][g[k]] /\ h[k + 1] = step[k + 1][h[k]]
      BY <3>1 DEF Turns
    <3>3. QED BY <3>1, <3>2
  <2>2. QED BY <2>1
<1>3. Nat \subseteq S
  BY <1>1, <1>2, Induction
<1>4. QED BY <1>3

\* All its turns.
Loop(T, base, step, f) ==
    /\ f \in [Nat -> T]
    /\ f[0] = base
    /\ \A k \in Nat \ {0} : f[k] = step[k][f[k - 1]]

\* So a recursive function of the number of turns is well defined.
LEMMA LoopExists ==
    ASSUME NEW T, NEW base \in T, NEW step \in [Nat -> [T -> T]]
    PROVE  \E f : Loop(T, base, step, f)
<1> DEFINE G(n) == CHOOSE g : Turns(T, base, step, n, g)
           f == [n \in Nat |-> G(n)[n]]
<1>1. \A n \in Nat : Turns(T, base, step, n, G(n))
  BY TurnsExist
<1> HIDE DEF G
<1>2. f \in [Nat -> T]
  BY <1>1 DEF Turns
<1>3. f[0] = base
  BY <1>1 DEF Turns
<1>4. ASSUME NEW n \in Nat, n # 0 PROVE f[n] = step[n][f[n - 1]]
  <2>1. n - 1 \in Nat /\ n - 1 <= n
    BY <1>4
  <2>2. Turns(T, base, step, n, G(n)) /\ Turns(T, base, step, n - 1, G(n - 1))
    BY <1>1, <2>1
  <2>3. G(n - 1)[n - 1] = G(n)[n - 1]
    BY <2>1, <2>2, TurnsAgree
  <2>4. G(n)[n] = step[n][G(n)[n - 1]]
    BY <1>4, <2>2 DEF Turns
  <2>5. QED BY <2>1, <2>3, <2>4
<1>5. Loop(T, base, step, f)
  BY <1>2, <1>3, <1>4 DEF Loop
<1> HIDE DEF f
<1>6. QED BY <1>5

\* The same for a given number of turns.
LEMMA TurnsUpto ==
    ASSUME NEW T, NEW base \in T, NEW n \in Nat, NEW step \in [1 .. n -> [T -> T]]
    PROVE  \E f : Turns(T, base, step, n, f)
<1> DEFINE more == [k \in Nat |-> IF k \in 1 .. n THEN step[k] ELSE [x \in T |-> x]]
<1>1. more \in [Nat -> [T -> T]]
  OBVIOUS
<1>2. \A k \in 1 .. n : more[k] = step[k]
  OBVIOUS
<1> HIDE DEF more
<1>3. PICK g : Turns(T, base, more, n, g)
  BY <1>1, TurnsExist
<1>4. Turns(T, base, step, n, g)
  BY <1>2, <1>3 DEF Turns
<1>5. QED BY <1>4


\* Taking digits is division, again and again.
LEMMA RestIs ==
    ASSUME NEW base \in Nat, base > 1, NEW n \in Nat
    PROVE  /\ Rest(base, n, 0) = n
           /\ \A k \in Nat : /\ Rest(base, n, k) \in Nat
                            /\ Rest(base, n, k + 1) = Rest(base, n, k) \div base
<1> DEFINE rest == CHOOSE f : f = [j \in Nat |-> IF j = 0 THEN n ELSE f[j - 1] \div base]
           step == [j \in Nat |-> [x \in Nat |-> x \div base]]
<1>1. \A x \in Nat : x \div base \in Nat
  OBVIOUS
<1>2. step \in [Nat -> [Nat -> Nat]] /\ \A j \in Nat : \A x \in Nat : step[j][x] = x \div base
  BY <1>1
<1> HIDE DEF step
<1>3. PICK f : Loop(Nat, n, step, f)
  BY <1>2, LoopExists
<1>4. f = [j \in Nat |-> IF j = 0 THEN n ELSE f[j - 1] \div base]
  <2>1. \A j \in Nat \ {0} : j - 1 \in Nat
    OBVIOUS
  <2>2. \A j \in Nat \ {0} : f[j] = f[j - 1] \div base
    BY <1>2, <1>3, <2>1 DEF Loop
  <2>3. QED BY <1>3, <2>2 DEF Loop
<1>5. rest = [j \in Nat |-> IF j = 0 THEN n ELSE rest[j - 1] \div base]
  BY <1>4
<1>6. \A j \in Nat : Rest(base, n, j) = rest[j]
  BY DEF Rest
<1> HIDE DEF rest
<1>7. rest[0] = n /\ \A j \in Nat : rest[j + 1] = rest[j] \div base
  <2>1. rest[0] = n /\ \A j \in Nat \ {0} : rest[j] = rest[j - 1] \div base
    BY <1>5
  <2>2. QED BY <2>1
<1>8. \A j \in Nat : rest[j] \in Nat
  <2> DEFINE S == {j \in Nat : rest[j] \in Nat}
  <2>1. 0 \in S /\ \A j \in Nat : j \in S => j + 1 \in S
    BY <1>1, <1>7
  <2>2. Nat \subseteq S
    BY <2>1, Induction
  <2>3. QED BY <2>2
<1>9. QED BY <1>6, <1>7, <1>8

\* Remainder and quotient,
LEMMA Division ==
    ASSUME NEW x \in Nat, NEW y \in Nat, y > 0
    PROVE  /\ x \div y \in Nat /\ x % y \in 0 .. y - 1
           /\ x = (x % y) + y * (x \div y)
OBVIOUS

\* the quotient as a monotone function,
LEMMA DivisionGrows ==
    ASSUME NEW x \in Nat, NEW z \in Nat, NEW y \in Nat, y > 0, x <= z
    PROVE  x \div y <= z \div y
OBVIOUS

\* and as one that ends at 0.
LEMMA DivisionShrinks ==
    ASSUME NEW x \in Nat, NEW y \in Nat, y > 1, x > 0
    PROVE  x \div y < x
OBVIOUS

\* v sums up the digits from the highest one.
Sums(base, digits, v) ==
    /\ v \in [0 .. Len(digits) -> Nat]
    /\ v[0] = 0
    /\ \A k \in 1 .. Len(digits) : v[k] = digits[Len(digits) - k + 1] + base * v[k - 1]

\* Number sums up its digits.
LEMMA NumberIs ==
    ASSUME NEW base \in Nat, NEW digits \in Seq(Nat)
    PROVE  \E v : Sums(base, digits, v) /\ Number(base, digits) = v[Len(digits)]
<1> DEFINE N == Len(digits)
           sum == CHOOSE v : v = [k \in 0 .. N |->
                    IF k = 0 THEN 0 ELSE digits[N - k + 1] + base * v[k - 1]]
           step == [k \in 1 .. N |-> [x \in Nat |-> digits[N - k + 1] + base * x]]
<1>1. N \in Nat /\ \A k \in 1 .. N : N - k + 1 \in 1 .. N /\ digits[N - k + 1] \in Nat
  OBVIOUS
<1>2. Number(base, digits) = sum[N]
  BY DEF Number
<1> HIDE DEF N
<1>3. \A k \in 1 .. N, x \in Nat : digits[N - k + 1] + base * x \in Nat
  <2> TAKE k \in 1 .. N, x \in Nat
  <2>1. digits[N - k + 1] \in Nat
    BY <1>1
  <2>2. base * x \in Nat
    OBVIOUS
  <2>3. QED BY <2>1, <2>2
<1>4. /\ step \in [1 .. N -> [Nat -> Nat]]
      /\ \A k \in 1 .. N, x \in Nat : step[k][x] = digits[N - k + 1] + base * x
  BY <1>3
<1> HIDE DEF step
<1>5. PICK f : Turns(Nat, 0, step, N, f)
  BY <1>1, <1>4, TurnsUpto
<1>6. \A k \in 1 .. N : k - 1 \in 0 .. N
  BY <1>1
<1>7. f = [k \in 0 .. N |-> IF k = 0 THEN 0 ELSE digits[N - k + 1] + base * f[k - 1]]
  <2>1. \A k \in 1 .. N : f[k] = digits[N - k + 1] + base * f[k - 1]
    BY <1>4, <1>5, <1>6 DEF Turns
  <2>2. QED BY <1>1, <1>5, <2>1 DEF Turns
<1>8. sum = [k \in 0 .. N |-> IF k = 0 THEN 0 ELSE digits[N - k + 1] + base * sum[k - 1]]
  BY <1>7
<1> HIDE DEF sum
<1>9. sum[0] = 0 /\ \A k \in 1 .. N : sum[k] = digits[N - k + 1] + base * sum[k - 1]
  BY <1>1, <1>8
<1>10. \A k \in Nat : k \in 0 .. N => sum[k] \in Nat
  <2> DEFINE S == {k \in Nat : k \in 0 .. N => sum[k] \in Nat}
  <2>1. 0 \in S
    BY <1>9
  <2>2. ASSUME NEW k \in Nat, k \in S PROVE k + 1 \in S
    <3>1. CASE k + 1 \in 1 .. N
      <4>1. k \in 0 .. N /\ (k + 1) - 1 = k
        BY <1>1, <3>1
      <4>2. sum[k + 1] = digits[N - (k + 1) + 1] + base * sum[k]
        BY <1>9, <3>1, <4>1
      <4>3. sum[k] \in Nat
        BY <2>2, <4>1
      <4>4. digits[N - (k + 1) + 1] + base * sum[k] \in Nat
        BY <1>3, <3>1, <4>3
      <4>5. QED BY <4>2, <4>4
    <3>2. QED BY <1>1, <3>1
  <2>3. Nat \subseteq S
    BY <2>1, <2>2, Induction
  <2>4. QED BY <2>3
<1>11. sum \in [0 .. N -> Nat]
  BY <1>1, <1>8, <1>10
<1>12. Sums(base, digits, sum)
  BY <1>9, <1>11 DEF Sums, N
<1>13. QED BY <1>2, <1>12 DEF N

\* A number is its digits, if there are enough of them.
LEMMA DigitsBack ==
    ASSUME NEW base \in Nat, base > 1, NEW n \in Nat, NEW N \in Nat, Rest(base, n, N) = 0
    PROVE  Number(base, [i \in 1 .. N |-> Rest(base, n, i - 1) % base]) = n
<1>0. \A j \in Nat : Rest(base, n, j) \in Nat /\ Rest(base, n, j + 1) = Rest(base, n, j) \div base
  BY RestIs
<1> DEFINE digits == [i \in 1 .. N |-> Rest(base, n, i - 1) % base]
<1>1. \A k \in Nat : Rest(base, n, k) \in Nat /\ Rest(base, n, k) % base \in Nat
  <2> TAKE k \in Nat
  <2>1. Rest(base, n, k) \in Nat
    BY RestIs
  <2>2. QED BY <2>1, Division
<1>2. digits \in Seq(Nat) /\ Len(digits) = N
  <2>1. \A i \in 1 .. N : i - 1 \in Nat
    OBVIOUS
  <2>2. digits \in [1 .. N -> Nat]
    BY <1>1, <2>1
  <2>3. QED BY <2>2
<1>3. \A i \in 1 .. N : digits[i] = Rest(base, n, i - 1) % base
  OBVIOUS
<1> HIDE DEF digits
<1>4. PICK v : Sums(base, digits, v) /\ Number(base, digits) = v[N]
  BY <1>2, NumberIs
<1> DEFINE S == {k \in Nat : k <= N => v[k] = Rest(base, n, N - k)}
<1>5. 0 \in S
  BY <1>4 DEF Sums
<1>6. ASSUME NEW k \in Nat, k \in S PROVE k + 1 \in S
  <2>1. CASE k + 1 <= N
    <3> DEFINE x == Rest(base, n, N - (k + 1))
    <3>1. N - (k + 1) \in Nat /\ N - k = (N - (k + 1)) + 1 /\ N - (k + 1) + 1 \in 1 .. N
          /\ k + 1 \in 1 .. N /\ (k + 1) - 1 = k /\ (N - (k + 1) + 1) - 1 = N - (k + 1)
      BY <2>1
    <3>2. x \in Nat /\ Rest(base, n, N - k) = x \div base
      <4> DEFINE j == N - (k + 1)
      <4>1. j \in Nat /\ N - k = j + 1
        BY <3>1
      <4> HIDE DEF j
      <4>2. Rest(base, n, j) \in Nat /\ Rest(base, n, j + 1) = Rest(base, n, j) \div base
        BY <1>0, <4>1, Zenon
      <4>3. QED BY <4>1, <4>2 DEF j
    <3>3. v[k] = x \div base
      BY <1>6, <2>1, <3>2
    <3>4. v[k + 1] = digits[N - (k + 1) + 1] + base * v[k]
      BY <1>2, <1>4, <3>1 DEF Sums
    <3>5. digits[N - (k + 1) + 1] = x % base
      BY <1>3, <3>1
    <3> HIDE DEF x
    <3>6. v[k + 1] = x
      BY <3>2, <3>3, <3>4, <3>5, Division
    <3>7. QED BY <3>6 DEF x
  <2>2. QED BY <2>1
<1>7. N \in S
  BY <1>5, <1>6, Induction
<1>8. v[N] = n
  <2>1. v[N] = Rest(base, n, N - N) /\ N - N = 0
    BY <1>7
  <2>2. v[N] = Rest(base, n, 0)
    BY <2>1
  <2>3. QED BY <2>2, RestIs
<1>9. QED BY <1>4, <1>8 DEF digits

-----------------------------------------------------------------------------
(* Longs (tags.ts)                                                         *)

\* The same as RestIs, for a given number of digits.
LEMMA RestNat ==
    ASSUME NEW base \in Nat, base > 1, NEW n \in Nat, NEW k \in Nat
    PROVE  /\ Rest(base, n, 0) = n
           /\ Rest(base, n, k) \in Nat
           /\ Rest(base, n, k + 1) = Rest(base, n, k) \div base
           /\ Rest(base, n, k) % base \in 0 .. base - 1
<1>1. /\ Rest(base, n, 0) = n
      /\ Rest(base, n, k) \in Nat
      /\ Rest(base, n, k + 1) = Rest(base, n, k) \div base
  BY RestIs
<1>2. QED BY <1>1, Division

\* A number runs out of digits,
LEMMA RestEnds ==
    ASSUME NEW base \in Nat, base > 1, NEW n \in Nat
    PROVE  Rest(base, n, n + 1) = 0
<1> DEFINE S == {k \in Nat : Rest(base, n, k) = 0 \/ Rest(base, n, k) + k <= n}
<1>1. 0 \in S
  BY RestNat
<1>2. ASSUME NEW k \in Nat, k \in S PROVE k + 1 \in S
  <2> DEFINE x == Rest(base, n, k)
  <2>1. x \in Nat /\ Rest(base, n, k + 1) = x \div base /\ (x = 0 \/ x + k <= n)
    BY <1>2, RestNat
  <2> HIDE DEF x
  <2>2. x \div base \in Nat
    BY <2>1, Division
  <2>3. CASE x = 0
    BY <2>1, <2>3
  <2>4. CASE x > 0
    <3>1. x \div base < x
      BY <2>1, <2>4, DivisionShrinks
    <3>2. (x \div base) + (k + 1) <= n
      BY <2>1, <2>2, <2>4, <3>1
    <3>3. QED BY <2>1, <3>2
  <2>5. QED BY <2>1, <2>3, <2>4
<1>3. n + 1 \in S
  BY <1>1, <1>2, Induction
<1>4. QED
  <2>1. Rest(base, n, n + 1) \in Nat
    BY RestNat
  <2>2. QED BY <1>3, <2>1

\* for good,
LEMMA RestStays ==
    ASSUME NEW base \in Nat, base > 1, NEW n \in Nat, NEW k \in Nat, NEW j \in Nat, k <= j,
           Rest(base, n, k) = 0
    PROVE  Rest(base, n, j) = 0
<1> DEFINE S == {d \in Nat : Rest(base, n, k + d) = 0}
<1>1. 0 \in S
  OBVIOUS
<1>2. ASSUME NEW d \in Nat, d \in S PROVE d + 1 \in S
  <2>1. k + d \in Nat /\ (k + d) + 1 = k + (d + 1)
    OBVIOUS
  <2>2. Rest(base, n, (k + d) + 1) = 0 \div base
    BY <1>2, <2>1, RestNat
  <2>3. 0 \div base = 0
    OBVIOUS
  <2>4. QED BY <2>1, <2>2, <2>3
<1>3. j - k \in Nat /\ k + (j - k) = j
  OBVIOUS
<1>4. j - k \in S
  BY <1>1, <1>2, <1>3, Induction
<1>5. QED BY <1>3, <1>4

\* and a smaller one not later than a larger one.
LEMMA RestGrows ==
    ASSUME NEW base \in Nat, base > 1, NEW m \in Nat, NEW n \in Nat, m <= n, NEW k \in Nat
    PROVE  Rest(base, m, k) <= Rest(base, n, k)
<1> DEFINE S == {j \in Nat : Rest(base, m, j) <= Rest(base, n, j)}
<1>1. 0 \in S
  BY RestNat
<1>2. ASSUME NEW j \in Nat, j \in S PROVE j + 1 \in S
  <2>1. /\ Rest(base, m, j) \in Nat /\ Rest(base, n, j) \in Nat
        /\ Rest(base, m, j + 1) = Rest(base, m, j) \div base
        /\ Rest(base, n, j + 1) = Rest(base, n, j) \div base
    BY RestNat
  <2>2. Rest(base, m, j) <= Rest(base, n, j)
    BY <1>2
  <2>3. Rest(base, m, j) \div base <= Rest(base, n, j) \div base
    BY <2>1, <2>2, DivisionGrows
  <2>4. QED BY <2>1, <2>3
<1>3. k \in S
  BY <1>1, <1>2, Induction
<1>4. QED BY <1>3

\* The bytes of a number that is not negative.
LEMMA GroupsAre ==
    ASSUME NEW m \in Nat
    PROVE  /\ Groups(m) \in Seq(Bytes) /\ Len(Groups(m)) > 0
           /\ \A i \in 1 .. Len(Groups(m)) :
                /\ Groups(m)[i] % GroupBase = Rest(GroupBase, m, i - 1) % GroupBase
                /\ Groups(m)[i] < GroupBase <=> i = Len(Groups(m))
           /\ Rest(GroupBase, m, Len(Groups(m))) = 0
<1> DEFINE T == {k \in 1 .. m + 1 : Rest(GroupBase, m, k) = 0}
           n == Min(T)
           D(i) == Rest(GroupBase, m, i - 1) % GroupBase
           g == [i \in 1 .. n |-> (IF i < n THEN GroupBase ELSE 0) + D(i)]
<1>1. GroupBase \in Nat /\ GroupBase > 1
  BY CodecAssumption
<1>2. m + 1 \in T
  BY <1>1, RestEnds
<1>3. n \in T
  BY <1>2, MinIs
<1>4. n \in Nat /\ n > 0 /\ Rest(GroupBase, m, n) = 0
  BY <1>3
<1>5. \A i \in 1 .. n : D(i) \in 0 .. GroupBase - 1
  <2> TAKE i \in 1 .. n
  <2>1. i - 1 \in Nat
    BY <1>4
  <2>2. QED BY <1>1, <2>1, RestNat
<1>6. Groups(m) = g
  BY DEF Groups
<1> HIDE DEF T, n, D
<1>7. \A i \in 1 .. n : g[i] = (IF i < n THEN GroupBase ELSE 0) + D(i)
  OBVIOUS
<1>8. \A i \in 1 .. n : g[i] \in Bytes /\ (g[i] < GroupBase <=> i = n) /\ g[i] % GroupBase = D(i)
  <2> TAKE i \in 1 .. n
  <2>1. D(i) \in 0 .. GroupBase - 1 /\ g[i] = (IF i < n THEN GroupBase ELSE 0) + D(i)
    BY <1>5, <1>7
  <2>2. i = n \/ i < n
    BY <1>4
  <2>3. D(i) % GroupBase = D(i) /\ (GroupBase + D(i)) % GroupBase = D(i)
    BY <1>1, <2>1
  <2>4. QED BY <1>1, <1>4, <2>1, <2>2, <2>3 DEF Bytes, ByteBase
<1>9. g \in Seq(Bytes) /\ Len(g) = n
  <2>1. g \in [1 .. n -> Bytes]
    BY <1>8
  <2>2. QED BY <1>4, <2>1
<1> HIDE DEF g
<1>10. QED BY <1>4, <1>6, <1>8, <1>9 DEF D

\* A length is written in the same groups whichever branch writes it.
LEMMA LongBytesAre ==
    ASSUME NEW n \in Nat
    PROVE  LongBytes(n) = Groups(2 * n)
<1>1. ZigZag(n) = 2 * n
  BY DEF ZigZag
<1>2. ASSUME n < IntLimit PROVE Wrap(2 * n) = 2 * n
  <2>1. IntLimit \in Nat \ {0} /\ 2 * n + 2 * IntLimit \in 0 .. 4 * IntLimit - 1
    BY <1>2, CodecAssumption
  <2>2. (2 * n + 2 * IntLimit) % (4 * IntLimit) = 2 * n + 2 * IntLimit
    BY <2>1
  <2>3. QED BY <2>1, <2>2 DEF Wrap
<1>3. QED BY <1>1, <1>2 DEF LongBytes

\* The bytes s are in b from p on.
Holds(b, p, s) == \A i \in DOMAIN s : p + i <= Len(b) /\ b[p + i] = s[i]

\* A long is read back, and the reader stops behind it, whether the reader takes it
\* for an integer or for a double.
LEMMA LongReads ==
    ASSUME NEW b \in Seq(Bytes), NEW p \in Nat, NEW n \in Nat, Holds(b, p, LongBytes(n))
    PROVE  EndOfLong(b, p) = p + Len(LongBytes(n)) /\ ReadLong(b, p) = n
<1> DEFINE m == 2 * n
           g == Groups(m)
           N == Len(g)
           T == {q \in p + 1 .. p + Len(b) + 1 : At(b, q - 1) < GroupBase}
<1>1. m \in Nat /\ GroupBase \in Nat /\ GroupBase > 1 /\ IntLimit \in Nat \ {0} /\ ReadGroups \in Nat
      /\ Len(b) \in Nat
  BY CodecAssumption
<1>2. /\ g \in Seq(Bytes) /\ N > 0
      /\ \A i \in 1 .. N :
           /\ g[i] % GroupBase = Rest(GroupBase, m, i - 1) % GroupBase
           /\ g[i] < GroupBase <=> i = N
      /\ Rest(GroupBase, m, N) = 0
  BY <1>1, GroupsAre
<1>3. LongBytes(n) = g
  BY LongBytesAre
<1> HIDE DEF g, m
<1>4. N \in Nat /\ DOMAIN g = 1 .. N
  BY <1>2
<1> HIDE DEF N
<1>5. \A i \in 1 .. N : p + i \in 1 .. Len(b) /\ b[p + i] = g[i]
  <2> TAKE i \in 1 .. N
  <2>1. p + i <= Len(b) /\ b[p + i] = g[i]
    BY <1>3, <1>4 DEF Holds
  <2>2. QED BY <1>1, <1>4, <2>1
<1>6. \A i \in 1 .. N : At(b, p + i - 1) = g[i]
  <2> TAKE i \in 1 .. N
  <2>1. p + i - 1 \in 0 .. Len(b) - 1 /\ (p + i - 1) + 1 = p + i
    BY <1>1, <1>4, <1>5
  <2>2. QED BY <1>5, <2>1 DEF At
<1>7. p + N \in T
  <2>1. p + N \in 1 .. Len(b) /\ p + N - 1 = p + N - 1
    BY <1>2, <1>4, <1>5
  <2>2. At(b, p + N - 1) < GroupBase
    BY <1>2, <1>4, <1>6
  <2>3. QED BY <1>1, <1>2, <1>4, <2>1, <2>2
<1>8. \A q \in T : p + N <= q
  <2> SUFFICES ASSUME NEW q \in T, q < p + N PROVE FALSE
    BY <1>1, <1>4
  <2>1. q - p \in 1 .. N /\ q - p # N /\ p + (q - p) - 1 = q - 1
    BY <1>1, <1>4
  <2>2. At(b, p + (q - p) - 1) = g[q - p]
    BY <1>6, <2>1
  <2>3. ~(g[q - p] < GroupBase)
    BY <1>2, <2>1
  <2>4. QED BY <2>1, <2>2, <2>3
<1>9. EndOfLong(b, p) = p + N
  <2>1. T \in SUBSET Nat
    BY <1>1
  <2>2. Min(T) \in T /\ Min(T) <= p + N
    BY <1>7, <2>1, MinIs
  <2>3. Min(T) = p + N
    BY <1>8, <2>1, <2>2, <1>4
  <2>4. QED BY <2>3 DEF EndOfLong
<1> DEFINE digits == [i \in 1 .. N |-> Rest(GroupBase, m, i - 1) % GroupBase]
<1>10. [i \in 1 .. EndOfLong(b, p) - p |-> At(b, p + i - 1) % GroupBase] = digits
  <2>1. EndOfLong(b, p) - p = N
    BY <1>4, <1>9
  <2>2. \A i \in 1 .. N : At(b, p + i - 1) % GroupBase = Rest(GroupBase, m, i - 1) % GroupBase
    BY <1>2, <1>6
  <2>3. QED BY <2>1, <2>2
<1>11. Number(GroupBase, digits) = m
  BY <1>1, <1>2, <1>4, DigitsBack DEF N
<1>12. ASSUME N <= ReadGroups PROVE Wrap(m) = m
  <2>1. Rest(GroupBase, m, ReadGroups) = 0
    BY <1>1, <1>2, <1>4, <1>12, RestStays DEF N
  <2>2. 2 * IntLimit \in Nat /\ Rest(GroupBase, 2 * IntLimit, ReadGroups) > 0
    BY CodecAssumption
  <2>3. ASSUME 2 * IntLimit <= m PROVE FALSE
    <3>1. Rest(GroupBase, 2 * IntLimit, ReadGroups) <= 0
      BY <1>1, <2>1, <2>2, <2>3, RestGrows
    <3>2. Rest(GroupBase, 2 * IntLimit, ReadGroups) \in Nat
      BY <1>1, <2>2, RestNat
    <3>3. QED BY <2>2, <3>1, <3>2
  <2>4. m + 2 * IntLimit \in 0 .. 4 * IntLimit - 1
    BY <1>1, <2>3
  <2>5. (m + 2 * IntLimit) % (4 * IntLimit) = m + 2 * IntLimit
    BY <1>1, <2>4
  <2>6. QED BY <1>1, <2>5 DEF Wrap
<1>13. UnZigZag(m) = n
  <2>1. m % 2 = 0 /\ m \div 2 = n
    BY DEF m
  <2>2. QED BY <2>1 DEF UnZigZag
<1>14. ReadLong(b, p) = n
  <2>1. EndOfLong(b, p) - p = N
    BY <1>4, <1>9
  <2>2. ReadLong(b, p) = UnZigZag(IF N <= ReadGroups THEN Wrap(m) ELSE m)
    BY <1>10, <1>11, <2>1 DEF ReadLong
  <2>3. QED BY <1>12, <1>13, <2>2
<1>15. QED BY <1>3, <1>9, <1>14 DEF N

-----------------------------------------------------------------------------
(* The writer (tags.ts)                                                    *)

Buffers == [1 .. MaxTagBytes -> Bytes]
Taps == [buf : Buffers, pos : Nat]

\* The writer goes on from tap to next, and keeps what it has written.
Grows(tap, next) ==
    /\ tap \in Taps /\ next \in Taps
    /\ tap.pos <= next.pos
    /\ \A i \in 1 .. MaxTagBytes : i <= tap.pos => next.buf[i] = tap.buf[i]

\* It writes s, if s still fits.
Writes(tap, next, s) ==
    /\ Grows(tap, next)
    /\ s \in Seq(Bytes)
    /\ next.pos = tap.pos + Len(s)
    /\ next.pos <= MaxTagBytes =>
         \A i \in 1 .. Len(s) : next.buf[tap.pos + i] = s[i]

\* Grows is transitive.
LEMMA GrowsOn ==
    ASSUME NEW x, NEW y, NEW z, Grows(x, y), Grows(y, z)
    PROVE  Grows(x, z)
<1>1. MaxTagBytes \in Nat
  BY CodecAssumption
<1>2. x.pos \in Nat /\ y.pos \in Nat /\ z.pos \in Nat
  BY DEF Grows, Taps
<1>3. QED BY <1>1, <1>2 DEF Grows

\* What is written one after the other is written as a whole.
LEMMA WritesOn ==
    ASSUME NEW x, NEW y, NEW z, NEW s, NEW t, Writes(x, y, s), Writes(y, z, t)
    PROVE  Writes(x, z, s \o t)
<1>1. MaxTagBytes \in Nat
  BY CodecAssumption
<1>2. x \in Taps /\ y \in Taps /\ z \in Taps /\ s \in Seq(Bytes) /\ t \in Seq(Bytes)
  BY DEF Writes, Grows
<1>3. x.pos \in Nat /\ y.pos \in Nat /\ z.pos \in Nat /\ Len(s) \in Nat /\ Len(t) \in Nat
  BY <1>2 DEF Taps
<1>4. /\ s \o t \in Seq(Bytes) /\ Len(s \o t) = Len(s) + Len(t)
      /\ \A i \in 1 .. Len(s) + Len(t) :
           (s \o t)[i] = IF i <= Len(s) THEN s[i] ELSE t[i - Len(s)]
  BY <1>2
<1>5. y.pos = x.pos + Len(s) /\ z.pos = y.pos + Len(t)
  BY DEF Writes
<1>6. ASSUME z.pos <= MaxTagBytes, NEW i \in 1 .. Len(s \o t)
      PROVE  z.buf[x.pos + i] = (s \o t)[i]
  <2>1. CASE i <= Len(s)
    <3>1. x.pos + i \in 1 .. MaxTagBytes /\ x.pos + i <= y.pos /\ y.pos <= MaxTagBytes /\ i \in 1 .. Len(s)
      <4>1. i \in Nat /\ 1 <= i
        BY <1>3, <1>4
      <4>2. i \in 1 .. Len(s) /\ x.pos + i <= y.pos
        BY <1>3, <1>5, <2>1, <4>1
      <4>3. y.pos <= MaxTagBytes
        BY <1>1, <1>3, <1>5, <1>6
      <4>4. QED BY <1>1, <1>3, <4>1, <4>2, <4>3
    <3>2. z.buf[x.pos + i] = y.buf[x.pos + i]
      BY <3>1 DEF Writes, Grows
    <3>3. y.buf[x.pos + i] = s[i]
      BY <3>1 DEF Writes
    <3>4. QED BY <1>3, <1>4, <2>1, <3>2, <3>3
  <2>2. CASE ~(i <= Len(s))
    <3>1. i - Len(s) \in 1 .. Len(t) /\ y.pos + (i - Len(s)) = x.pos + i
      <4>1. i \in 1 .. Len(s) + Len(t)
        BY <1>4
      <4>2. QED BY <1>3, <1>5, <2>2, <4>1
    <3>2. z.buf[y.pos + (i - Len(s))] = t[i - Len(s)]
      BY <1>6, <3>1 DEF Writes
    <3>3. QED BY <1>3, <1>4, <2>2, <3>1, <3>2
  <2>3. QED BY <2>1, <2>2
<1>7. Grows(x, z)
  BY GrowsOn DEF Writes
<1>8. z.pos = x.pos + Len(s \o t)
  BY <1>3, <1>4, <1>5
<1>9. QED BY <1>4, <1>6, <1>7, <1>8 DEF Writes

\* Bytes that are put beyond those counted do no harm.
LEMMA PutWrites ==
    ASSUME NEW tap \in Taps, NEW s \in Seq(Bytes), NEW more \in Seq(Bytes)
    PROVE  Writes(tap, [buf |-> Put(tap.buf, tap.pos, s \o more), pos |-> tap.pos + Len(s)], s)
<1> DEFINE x == s \o more
           next == [buf |-> Put(tap.buf, tap.pos, x), pos |-> tap.pos + Len(s)]
<1>1. MaxTagBytes \in Nat
  BY CodecAssumption
<1>2. tap.pos \in Nat /\ tap.buf \in [1 .. MaxTagBytes -> Bytes] /\ Len(s) \in Nat /\ Len(more) \in Nat
  BY DEF Taps, Buffers
<1>3. x \in Seq(Bytes) /\ Len(x) = Len(s) + Len(more) /\ \A i \in 1 .. Len(s) : x[i] = s[i]
  BY <1>2
<1> HIDE DEF x
<1>4. /\ DOMAIN x = 1 .. Len(x)
      /\ \A i \in DOMAIN x : x[i] \in Bytes
  BY <1>3
<1>5. next.pos = tap.pos + Len(s) /\ next.buf = Put(tap.buf, tap.pos, x)
  OBVIOUS
<1>6. DOMAIN tap.buf = 1 .. MaxTagBytes
  BY <1>2
<1>7. next.buf = [i \in 1 .. MaxTagBytes |-> IF i - tap.pos \in DOMAIN x THEN x[i - tap.pos] ELSE tap.buf[i]]
  BY <1>5, <1>6 DEF Put
<1>8. next.buf \in Buffers
  <2>1. \A i \in 1 .. MaxTagBytes :
          (IF i - tap.pos \in DOMAIN x THEN x[i - tap.pos] ELSE tap.buf[i]) \in Bytes
    BY <1>2, <1>4
  <2>2. QED BY <1>7, <2>1 DEF Buffers
<1>9. next \in Taps
  BY <1>2, <1>5, <1>8 DEF Taps
<1> HIDE DEF next
<1>10. ASSUME NEW i \in 1 .. MaxTagBytes, i <= tap.pos PROVE next.buf[i] = tap.buf[i]
  <2>1. i - tap.pos \notin DOMAIN x
    BY <1>2, <1>3, <1>4, <1>10
  <2>2. QED BY <1>7, <2>1
<1>11. Grows(tap, next)
  BY <1>2, <1>5, <1>9, <1>10 DEF Grows
<1>12. ASSUME next.pos <= MaxTagBytes, NEW i \in 1 .. Len(s)
       PROVE  next.buf[tap.pos + i] = s[i]
  <2>1. tap.pos + i \in 1 .. MaxTagBytes /\ (tap.pos + i) - tap.pos = i
    BY <1>1, <1>2, <1>5, <1>12
  <2>2. i \in DOMAIN x
    BY <1>2, <1>3, <1>4
  <2>3. next.buf[tap.pos + i] = x[i]
    BY <1>7, <2>1, <2>2
  <2>4. QED BY <1>3, <2>3
<1>13. Writes(tap, next, s)
  BY <1>5, <1>11, <1>12 DEF Writes
<1>14. QED BY <1>13 DEF next, x

\* writeLong.
LEMMA LongWrites ==
    ASSUME NEW tap \in Taps, NEW n \in Nat
    PROVE  LongBytes(n) \in Seq(Bytes) /\ Writes(tap, WriteLong(tap, n), LongBytes(n))
<1> DEFINE s == LongBytes(n)
<1>1. s \in Seq(Bytes)
  BY LongBytesAre, GroupsAre
<1>2. WriteLong(tap, n) = [buf |-> Put(tap.buf, tap.pos, s), pos |-> tap.pos + Len(s)]
  BY DEF WriteLong
<1> HIDE DEF s
<1>3. s \o << >> = s /\ << >> \in Seq(Bytes)
  BY <1>1
<1>4. Writes(tap, [buf |-> Put(tap.buf, tap.pos, s), pos |-> tap.pos + Len(s)], s)
  BY <1>1, <1>3, PutWrites
<1>5. QED BY <1>1, <1>2, <1>4 DEF s

StringBytes(s) == LongBytes(Len(s.bytes)) \o s.bytes

\* writeString, in all three of its ways.
LEMMA StringWrites ==
    ASSUME NEW tap \in Taps, NEW s \in Strings
    PROVE  Writes(tap, WriteString(tap, s), StringBytes(s))
<1> DEFINE len == Len(s.bytes)
           start == WriteLong(tap, len)
           end == start.pos + len
           more == IF len > Small THEN << >> ELSE Garbage(len - s.units)
           next == WriteString(tap, s)
<1>1. s.bytes \in Seq(Bytes) /\ s.units \in Nat /\ len \in Nat /\ s.units <= len
  BY DEF Strings
<1>2. Writes(tap, start, LongBytes(len))
  BY <1>1, LongWrites
<1>3. start \in Taps /\ start.pos \in Nat
  BY <1>2 DEF Writes, Grows, Taps
<1>4. more \in Seq(Bytes)
  <2>1. len - s.units \in Nat
    BY <1>1
  <2>2. ASSUME NEW n \in Nat PROVE Garbage(n) \in Seq(Bytes)
    <3>1. ByteBase - 1 \in Bytes /\ GroupBase \in Bytes
      BY CodecAssumption DEF Bytes, ByteBase
    <3>2. Garbage(n) \in [1 .. 3 * n -> Bytes]
      BY <3>1 DEF Garbage
    <3>3. 3 * n \in Nat
      OBVIOUS
    <3>4. QED BY <3>2, <3>3
  <2>3. QED BY <2>1, <2>2
<1>5. next = [buf |-> IF end > MaxTagBytes THEN start.buf ELSE Put(start.buf, start.pos, s.bytes \o more),
              pos |-> end]
  <2>1. s.bytes \o << >> = s.bytes
    BY <1>1
  <2>2. QED BY <2>1 DEF WriteString
<1> HIDE DEF start, more, next
<1>6. CASE ~(end > MaxTagBytes)
  <2>1. next = [buf |-> Put(start.buf, start.pos, s.bytes \o more), pos |-> start.pos + Len(s.bytes)]
    BY <1>5, <1>6
  <2>2. Writes(start, next, s.bytes)
    BY <1>1, <1>3, <1>4, <2>1, PutWrites
  <2>3. QED BY <1>2, <2>2, WritesOn DEF StringBytes, next
<1>7. CASE end > MaxTagBytes
  <2>1. next.buf = start.buf /\ next.pos = end
    BY <1>5, <1>7
  <2>2. next \in Taps
    BY <1>1, <1>3, <1>5, <1>7 DEF Taps
  <2>3. Grows(start, next)
    BY <1>1, <1>3, <2>1, <2>2 DEF Grows
  <2>4. MaxTagBytes \in Nat /\ ~(end <= MaxTagBytes)
    BY <1>1, <1>3, <1>7, CodecAssumption
  <2>5. Writes(start, next, s.bytes)
    BY <1>1, <2>1, <2>3, <2>4 DEF Writes
  <2>6. QED BY <1>2, <2>5, WritesOn DEF StringBytes, next
<1>8. QED BY <1>6, <1>7

PairBytes(t) == StringBytes(t.name) \o StringBytes(t.value)

\* One turn of writeTags.
LEMMA TagWrites ==
    ASSUME NEW tap \in Taps, NEW t \in TagPairs
    PROVE  Writes(tap, WriteTag(tap, t), PairBytes(t))
<1>1. t.name \in Strings /\ t.value \in Strings
  BY DEF TagPairs
<1>2. Writes(tap, WriteString(tap, t.name), StringBytes(t.name))
  BY <1>1, StringWrites
<1>3. WriteString(tap, t.name) \in Taps
  BY <1>2 DEF Writes, Grows
<1>4. Writes(WriteString(tap, t.name), WriteTag(tap, t), StringBytes(t.value))
  BY <1>1, <1>3, StringWrites DEF WriteTag
<1>5. QED BY <1>2, <1>4, WritesOn DEF PairBytes

Empty == [buf |-> [i \in 1 .. MaxTagBytes |-> 0], pos |-> 0]

\* The writer's states: after the count, and after each of the tags.
Written(tags, tap) ==
    /\ tap \in [0 .. Len(tags) -> Taps]
    /\ tap[0] = WriteLong(Empty, Len(tags))
    /\ \A k \in 1 .. Len(tags) : tap[k] = WriteTag(tap[k - 1], tags[k])

\* The writer starts with an empty buffer.
LEMMA EmptyTap == Empty \in Taps
<1>1. MaxTagBytes \in Nat /\ 0 \in Bytes
  BY CodecAssumption DEF Bytes, ByteBase
<1>2. [i \in 1 .. MaxTagBytes |-> 0] \in Buffers
  BY <1>1 DEF Buffers
<1>3. QED BY <1>2 DEF Empty, Taps

\* writeTags goes through states of the writer.
LEMMA WriterRuns ==
    ASSUME NEW tags \in Seq(TagPairs)
    PROVE  \E tap : Written(tags, tap) /\ WriteTags(tags) = WriteLong(tap[Len(tags)], 0)
<1> DEFINE n == Len(tags)
           base == WriteLong(Empty, n)
           tap == CHOOSE f : f = [k \in 0 .. n |->
                    IF k = 0 THEN base ELSE WriteTag(f[k - 1], tags[k])]
           step == [k \in 1 .. n |-> [x \in Taps |-> WriteTag(x, tags[k])]]
<1>1. n \in Nat /\ \A k \in 1 .. n : tags[k] \in TagPairs
  OBVIOUS
<1>2. WriteTags(tags) = WriteLong(tap[n], 0)
  BY DEF WriteTags, Empty
<1>3. base \in Taps
  <2>1. Writes(Empty, base, LongBytes(n))
    BY <1>1, EmptyTap, LongWrites
  <2>2. QED BY <2>1 DEF Writes, Grows
<1>4. \A k \in 1 .. n, x \in Taps : WriteTag(x, tags[k]) \in Taps
  <2> TAKE k \in 1 .. n, x \in Taps
  <2>1. Writes(x, WriteTag(x, tags[k]), PairBytes(tags[k]))
    BY <1>1, TagWrites
  <2>2. QED BY <2>1 DEF Writes, Grows
<1>5. /\ step \in [1 .. n -> [Taps -> Taps]]
      /\ \A k \in 1 .. n, x \in Taps : step[k][x] = WriteTag(x, tags[k])
  BY <1>4
<1> HIDE DEF step, n, base
<1>6. PICK f : Turns(Taps, base, step, n, f)
  BY <1>1, <1>3, <1>5, TurnsUpto
<1>7. \A k \in 1 .. n : k - 1 \in 0 .. n
  BY <1>1
<1>8. f = [k \in 0 .. n |-> IF k = 0 THEN base ELSE WriteTag(f[k - 1], tags[k])]
  <2>1. \A k \in 1 .. n : f[k] = WriteTag(f[k - 1], tags[k])
    BY <1>5, <1>6, <1>7 DEF Turns
  <2>2. QED BY <1>1, <1>6, <2>1 DEF Turns
<1>9. tap = [k \in 0 .. n |-> IF k = 0 THEN base ELSE WriteTag(tap[k - 1], tags[k])]
  BY <1>8
<1> HIDE DEF tap
<1>10. tap[0] = base /\ \A k \in 1 .. n : tap[k] = WriteTag(tap[k - 1], tags[k])
  BY <1>1, <1>9
<1>11. \A k \in Nat : k \in 0 .. n => tap[k] \in Taps
  <2> DEFINE S == {k \in Nat : k \in 0 .. n => tap[k] \in Taps}
  <2>1. 0 \in S
    BY <1>3, <1>10
  <2>2. ASSUME NEW k \in Nat, k \in S PROVE k + 1 \in S
    <3>1. CASE k + 1 \in 1 .. n
      <4>1. k \in 0 .. n /\ (k + 1) - 1 = k
        BY <1>1, <3>1
      <4>2. tap[k + 1] = WriteTag(tap[k], tags[k + 1]) /\ tap[k] \in Taps
        BY <1>10, <2>2, <3>1, <4>1
      <4>3. QED BY <1>4, <3>1, <4>2
    <3>2. QED BY <1>1, <3>1
  <2>3. Nat \subseteq S
    BY <2>1, <2>2, Induction
  <2>4. QED BY <2>3
<1>12. tap \in [0 .. n -> Taps]
  BY <1>1, <1>9, <1>11
<1>13. Written(tags, tap)
  BY <1>10, <1>12 DEF Written, n, base
<1>14. QED BY <1>2, <1>13 DEF n

\* Whatever is written later leaves it alone.
LEMMA WrittenStays ==
    ASSUME NEW tags \in Seq(TagPairs), NEW tap, Written(tags, tap)
    PROVE  /\ \A k \in 1 .. Len(tags) : Writes(tap[k - 1], tap[k], PairBytes(tags[k]))
           /\ \A k \in 0 .. Len(tags) : Grows(tap[k], tap[Len(tags)])
<1> DEFINE n == Len(tags)
<1>1. n \in Nat /\ \A k \in 1 .. n : tags[k] \in TagPairs /\ k - 1 \in 0 .. n
  OBVIOUS
<1>2. \A k \in 0 .. n : tap[k] \in Taps
  BY DEF Written
<1>3. \A k \in 1 .. n : Writes(tap[k - 1], tap[k], PairBytes(tags[k]))
  <2> TAKE k \in 1 .. n
  <2>1. tags[k] \in TagPairs /\ tap[k - 1] \in Taps
    BY <1>1, <1>2
  <2>2. Writes(tap[k - 1], WriteTag(tap[k - 1], tags[k]), PairBytes(tags[k]))
    BY <2>1, TagWrites
  <2>3. QED BY <2>2 DEF Written
<1> DEFINE S == {j \in Nat : j <= n => Grows(tap[n - j], tap[n])}
<1>4. 0 \in S
  <2>1. tap[n] \in Taps /\ n - 0 = n
    BY <1>1, <1>2
  <2>2. Grows(tap[n], tap[n])
    BY <2>1 DEF Grows, Taps
  <2>3. QED BY <2>1, <2>2
<1>5. ASSUME NEW j \in Nat, j \in S PROVE j + 1 \in S
  <2>1. CASE j + 1 <= n
    <3>1. n - j \in 1 .. n /\ (n - j) - 1 = n - (j + 1) /\ j <= n
      BY <1>1, <2>1
    <3>2. Grows(tap[n - (j + 1)], tap[n - j])
      BY <1>3, <3>1 DEF Writes
    <3>3. Grows(tap[n - j], tap[n])
      BY <1>5, <3>1
    <3>4. Grows(tap[n - (j + 1)], tap[n])
      BY <3>2, <3>3, GrowsOn
    <3>5. QED BY <3>4
  <2>2. QED BY <1>1, <2>1
<1>6. \A k \in 0 .. n : Grows(tap[k], tap[n])
  <2> TAKE k \in 0 .. n
  <2>1. n - k \in Nat /\ n - k <= n /\ n - (n - k) = k
    BY <1>1
  <2>2. n - k \in S
    BY <1>4, <1>5, <2>1, Induction
  <2>3. QED BY <2>1, <2>2
<1>7. QED BY <1>3, <1>6

\* Where the tags of b are.
Placed(b, tags, at) ==
    /\ b \in Seq(Bytes)
    /\ at \in [0 .. Len(tags) -> Nat]
    /\ at[0] = Len(LongBytes(Len(tags)))
    /\ Holds(b, 0, LongBytes(Len(tags)))
    /\ \A k \in 1 .. Len(tags) : /\ at[k] = at[k - 1] + Len(PairBytes(tags[k]))
                                 /\ Holds(b, at[k - 1], PairBytes(tags[k]))
    /\ Holds(b, at[Len(tags)], LongBytes(0))

\* What fits into the buffer is in the bytes that are returned.
LEMMA StillHolds ==
    ASSUME NEW x, NEW y, NEW z, NEW s, Writes(x, y, s), Grows(y, z), z.pos <= MaxTagBytes
    PROVE  Holds(SubSeq(z.buf, 1, z.pos), x.pos, s)
<1>1. MaxTagBytes \in Nat
  BY CodecAssumption
<1>2. x \in Taps /\ y \in Taps /\ z \in Taps /\ s \in Seq(Bytes) /\ Len(s) \in Nat
  BY DEF Writes, Grows
<1>3. /\ x.pos \in Nat /\ y.pos \in Nat /\ z.pos \in Nat /\ y.pos <= z.pos
      /\ y.pos = x.pos + Len(s)
      /\ z.buf \in [1 .. MaxTagBytes -> Bytes]
  BY <1>2 DEF Taps, Buffers, Writes, Grows
<1> DEFINE b == SubSeq(z.buf, 1, z.pos)
<1>4. Len(b) = z.pos /\ \A i \in 1 .. z.pos : b[i] = z.buf[i]
  <2>1. z.buf \in Seq(Bytes) /\ Len(z.buf) = MaxTagBytes
    BY <1>1, <1>3
  <2>2. QED BY <1>1, <1>3, <2>1
<1> HIDE DEF b
<1>5. ASSUME NEW i \in DOMAIN s PROVE x.pos + i <= Len(b) /\ b[x.pos + i] = s[i]
  <2>1. i \in 1 .. Len(s)
    BY <1>2, <1>5
  <2>2. x.pos + i \in 1 .. z.pos /\ x.pos + i \in 1 .. MaxTagBytes /\ x.pos + i <= y.pos
    <3>1. i \in Nat /\ 1 <= i /\ i <= Len(s) /\ Len(s) \in Nat
      BY <1>2, <2>1
    <3>2. x.pos + i <= y.pos /\ x.pos + i \in Nat /\ 1 <= x.pos + i
      BY <1>3, <3>1
    <3>3. z.pos <= MaxTagBytes
      OBVIOUS
    <3>4. QED BY <1>1, <1>3, <3>2, <3>3
  <2>3. b[x.pos + i] = y.buf[x.pos + i]
    BY <1>4, <2>2 DEF Grows
  <2>4. y.buf[x.pos + i] = s[i]
    BY <1>1, <1>3, <2>1 DEF Writes
  <2>5. QED BY <1>3, <1>4, <2>2, <2>3, <2>4
<1>6. QED BY <1>5 DEF Holds, b

\* Tags that fit are serialized one behind the other.
LEMMA SerializedIsPlaced ==
    ASSUME NEW tags \in Seq(TagPairs), WriteTags(tags).pos <= MaxTagBytes
    PROVE  \E at : Placed(SerializeTags(tags), tags, at)
<1> DEFINE n == Len(tags)
           z == WriteTags(tags)
           b == SubSeq(z.buf, 1, z.pos)
<1>1. PICK tap : Written(tags, tap) /\ z = WriteLong(tap[n], 0)
  BY WriterRuns
<1>2. n \in Nat /\ \A k \in 1 .. n : k - 1 \in 0 .. n
  OBVIOUS
<1>3. \A k \in 0 .. n : tap[k] \in Taps
  BY <1>1 DEF Written
<1>4. Writes(tap[n], z, LongBytes(0))
  BY <1>1, <1>2, <1>3, LongWrites
<1>5. \A k \in 0 .. n : Grows(tap[k], z)
  BY <1>1, <1>2, <1>4, WrittenStays, GrowsOn DEF Writes
<1>6. z \in Taps
  BY <1>4 DEF Writes, Grows
<1>7. SerializeTags(tags) = b
  <2>1. ~(z.pos > MaxTagBytes)
    BY <1>6, CodecAssumption DEF Taps
  <2>2. QED BY <2>1 DEF SerializeTags, ToBuffer
<1>8. b \in Seq(Bytes)
  <2>1. z.buf \in Seq(Bytes) /\ Len(z.buf) = MaxTagBytes /\ z.pos \in Nat /\ MaxTagBytes \in Nat
    BY <1>6, CodecAssumption DEF Taps, Buffers
  <2>2. \A i \in 1 .. z.pos : z.buf[i] \in Bytes
    BY <2>1
  <2>3. QED BY <2>1, <2>2
<1> DEFINE at == [k \in 0 .. n |-> tap[k].pos]
<1>9. at \in [0 .. n -> Nat]
  BY <1>3 DEF Taps
<1>10. \A k \in 0 .. n : at[k] = tap[k].pos
  OBVIOUS
<1>11. at[0] = Len(LongBytes(n)) /\ Holds(b, 0, LongBytes(n))
  <2>1. Writes(Empty, tap[0], LongBytes(n)) /\ LongBytes(n) \in Seq(Bytes)
    BY <1>1, <1>2, EmptyTap, LongWrites DEF Written
  <2>2. Empty.pos = 0 /\ 0 \in 0 .. n
    BY <1>2 DEF Empty
  <2>3. Holds(b, Empty.pos, LongBytes(n))
    BY <1>5, <2>1, <2>2, StillHolds
  <2>4. Len(LongBytes(n)) \in Nat
    BY <2>1
  <2>5. tap[0].pos = Empty.pos + Len(LongBytes(n))
    BY <2>1 DEF Writes
  <2>6. tap[0].pos = Len(LongBytes(n))
    BY <2>2, <2>4, <2>5
  <2>7. QED BY <1>10, <2>2, <2>3, <2>6
<1>12. ASSUME NEW k \in 1 .. n
       PROVE  at[k] = at[k - 1] + Len(PairBytes(tags[k])) /\ Holds(b, at[k - 1], PairBytes(tags[k]))
  <2>1. Writes(tap[k - 1], tap[k], PairBytes(tags[k]))
    BY <1>1, WrittenStays
  <2>2. k \in 0 .. n /\ k - 1 \in 0 .. n
    BY <1>2
  <2>3. Holds(b, tap[k - 1].pos, PairBytes(tags[k]))
    BY <1>5, <2>1, <2>2, StillHolds
  <2>4. QED BY <1>10, <2>1, <2>2, <2>3 DEF Writes
<1>13. Holds(b, at[n], LongBytes(0))
  <2>1. Grows(z, z)
    BY <1>6 DEF Grows, Taps
  <2>2. Holds(b, tap[n].pos, LongBytes(0))
    BY <1>4, <2>1, StillHolds
  <2>3. QED BY <1>2, <1>10, <2>2
<1> HIDE DEF at
<1>14. Placed(b, tags, at)
  BY <1>8, <1>9, <1>11, <1>12, <1>13 DEF Placed
<1>15. QED BY <1>7, <1>14

-----------------------------------------------------------------------------
(* The reader (tags.ts)                                                    *)

\* Parts of what b holds, held one behind the other.
LEMMA HoldsParts ==
    ASSUME NEW b \in Seq(Bytes), NEW p \in Nat, NEW s \in Seq(Bytes), NEW t \in Seq(Bytes),
           Holds(b, p, s \o t)
    PROVE  Holds(b, p, s) /\ Holds(b, p + Len(s), t)
<1>1. /\ Len(s) \in Nat /\ Len(t) \in Nat /\ DOMAIN s = 1 .. Len(s) /\ DOMAIN t = 1 .. Len(t)
      /\ DOMAIN (s \o t) = 1 .. Len(s) + Len(t)
      /\ \A i \in 1 .. Len(s) + Len(t) :
           (s \o t)[i] = IF i <= Len(s) THEN s[i] ELSE t[i - Len(s)]
  OBVIOUS
<1>2. ASSUME NEW i \in DOMAIN s PROVE p + i <= Len(b) /\ b[p + i] = s[i]
  <2>1. i \in DOMAIN (s \o t) /\ (s \o t)[i] = s[i]
    BY <1>1
  <2>2. QED BY <2>1 DEF Holds
<1>3. ASSUME NEW i \in DOMAIN t PROVE p + Len(s) + i <= Len(b) /\ b[p + Len(s) + i] = t[i]
  <2>1. Len(s) + i \in DOMAIN (s \o t) /\ (s \o t)[Len(s) + i] = t[i]
        /\ p + Len(s) + i = p + (Len(s) + i)
    BY <1>1
  <2>2. QED BY <2>1 DEF Holds
<1>4. QED BY <1>2, <1>3 DEF Holds

\* A slice as long as what b holds there.
LEMMA SliceHolds ==
    ASSUME NEW b \in Seq(Bytes), NEW p \in Nat, NEW s \in Seq(Bytes), Holds(b, p, s), p <= Len(b)
    PROVE  Slice(b, p, p + Len(s)) = s /\ p + Len(s) <= Len(b)
<1>1. Len(b) \in Nat /\ Len(s) \in Nat /\ DOMAIN s = 1 .. Len(s)
  OBVIOUS
<1>2. p + Len(s) <= Len(b)
  <2>1. CASE Len(s) = 0
    BY <1>1, <2>1
  <2>2. CASE Len(s) > 0
    BY <1>1, <2>2 DEF Holds
  <2>3. QED BY <1>1, <2>1, <2>2
<1>3. Slice(b, p, p + Len(s)) = SubSeq(b, p + 1, p + Len(s))
  BY <1>1, <1>2 DEF Slice
<1>4. /\ SubSeq(b, p + 1, p + Len(s)) \in Seq(Bytes)
      /\ Len(SubSeq(b, p + 1, p + Len(s))) = Len(s)
      /\ \A i \in 1 .. Len(s) : SubSeq(b, p + 1, p + Len(s))[i] = b[p + i]
  BY <1>1, <1>2
<1>5. \A i \in 1 .. Len(s) : SubSeq(b, p + 1, p + Len(s))[i] = s[i]
  BY <1>1, <1>4 DEF Holds
<1>6. SubSeq(b, p + 1, p + Len(s)) = s
  BY <1>4, <1>5, SeqEqual
<1>7. QED BY <1>2, <1>3, <1>6

\* Longs have bytes.
LEMMA LongIs ==
    ASSUME NEW n \in Nat
    PROVE  LongBytes(n) \in Seq(Bytes) /\ Len(LongBytes(n)) \in Nat /\ Len(LongBytes(n)) > 0
<1>1. 2 * n \in Nat
  OBVIOUS
<1>2. Groups(2 * n) \in Seq(Bytes) /\ Len(Groups(2 * n)) > 0
  BY <1>1, GroupsAre
<1>3. LongBytes(n) = Groups(2 * n)
  BY LongBytesAre
<1>4. Len(Groups(2 * n)) \in Nat
  BY <1>2
<1>5. QED BY <1>2, <1>3, <1>4

\* A string is read back.
LEMMA StringReads ==
    ASSUME NEW b \in Seq(Bytes), NEW p \in Nat, NEW s \in Strings, Holds(b, p, StringBytes(s))
    PROVE  /\ StringBytes(s) \in Seq(Bytes)
           /\ ReadString(b, p) = [bytes |-> s.bytes, next |-> p + Len(StringBytes(s))]
<1> DEFINE n == Len(s.bytes)
           l == LongBytes(n)
<1>1. s.bytes \in Seq(Bytes) /\ n \in Nat
  BY DEF Strings
<1>2. l \in Seq(Bytes) /\ Len(l) \in Nat /\ Len(l) > 0
  BY <1>1, LongIs
<1>3. StringBytes(s) \in Seq(Bytes) /\ Len(StringBytes(s)) = Len(l) + n
  BY <1>1, <1>2 DEF StringBytes
<1>4. Holds(b, p, l) /\ Holds(b, p + Len(l), s.bytes)
  BY <1>1, <1>2, HoldsParts DEF StringBytes
<1>5. EndOfLong(b, p) = p + Len(l) /\ ReadLong(b, p) = n
  BY <1>1, <1>4, LongReads
<1> HIDE DEF l
<1>6. p + Len(l) <= Len(b) /\ p + Len(l) \in Nat
  <2>1. Len(l) \in DOMAIN l
    BY <1>2
  <2>2. QED BY <1>2, <1>4, <2>1 DEF Holds
<1>7. Slice(b, p + Len(l), p + Len(l) + n) = s.bytes /\ p + Len(l) + n <= Len(b)
  BY <1>1, <1>4, <1>6, SliceHolds
<1>8. ~(p + Len(l) + n > Len(b))
  <2>1. Len(b) \in Nat
    OBVIOUS
  <2> HIDE DEF n
  <2>2. QED BY <1>1, <1>2, <1>7, <2>1
<1>9. ReadString(b, p) = [bytes |-> s.bytes, next |-> p + Len(l) + n]
  BY <1>5, <1>7, <1>8 DEF ReadString
<1>10. p + Len(l) + n = p + Len(StringBytes(s))
  <2> HIDE DEF n
  <2>1. QED BY <1>1, <1>2, <1>3
<1>11. QED BY <1>3, <1>9, <1>10

\* A tag is read back.
LEMMA TagReads ==
    ASSUME NEW b \in Seq(Bytes), NEW r, r.at \in Nat, NEW t \in TagPairs,
           Holds(b, r.at, PairBytes(t))
    PROVE  ReadTag(b, r) = [at |-> r.at + Len(PairBytes(t)),
                            tags |-> Append(r.tags, [name |-> t.name.bytes, value |-> t.value.bytes])]
<1> DEFINE x == StringBytes(t.name)
           y == StringBytes(t.value)
<1>1. t.name \in Strings /\ t.value \in Strings
  BY DEF TagPairs
<1>2. \A s \in Strings : StringBytes(s) \in Seq(Bytes)
  <2> TAKE s \in Strings
  <2>1. s.bytes \in Seq(Bytes) /\ Len(s.bytes) \in Nat
    BY DEF Strings
  <2>2. LongBytes(Len(s.bytes)) \in Seq(Bytes)
    BY <2>1, LongIs
  <2>3. QED BY <2>1, <2>2 DEF StringBytes
<1>3. x \in Seq(Bytes) /\ y \in Seq(Bytes)
  BY <1>1, <1>2
<1>4. Holds(b, r.at, x) /\ Holds(b, r.at + Len(x), y)
  BY <1>3, HoldsParts DEF PairBytes
<1>5. ReadString(b, r.at) = [bytes |-> t.name.bytes, next |-> r.at + Len(x)]
  BY <1>1, <1>4, StringReads
<1>6. Len(x) \in Nat /\ Len(y) \in Nat /\ r.at + Len(x) \in Nat /\ r.at + Len(x) + Len(y) \in Nat
      /\ Len(PairBytes(t)) = Len(x) + Len(y)
  BY <1>3 DEF PairBytes
<1>7. ReadString(b, r.at + Len(x)) = [bytes |-> t.value.bytes, next |-> r.at + Len(x) + Len(y)]
  BY <1>1, <1>4, <1>6, StringReads
<1> HIDE DEF x, y
<1>8. Thrown # r.at + Len(x) /\ Thrown # r.at + Len(x) + Len(y)
  BY <1>6, CodecAssumption
<1>9. r.at + Len(x) + Len(y) = r.at + Len(PairBytes(t))
  BY <1>6
<1> DEFINE name == ReadString(b, r.at)
           value == ReadString(b, name.next)
<1>10. /\ name.next = r.at + Len(x) /\ name.bytes = t.name.bytes
       /\ value.next = r.at + Len(x) + Len(y) /\ value.bytes = t.value.bytes
  BY <1>5, <1>7
<1>11. ReadTag(b, r) =
         IF name.next = Thrown \/ value.next = Thrown THEN [at |-> Thrown, tags |-> r.tags]
         ELSE [at |-> value.next,
               tags |-> Append(r.tags, [name |-> name.bytes, value |-> value.bytes])]
  BY DEF ReadTag
<1> HIDE DEF name, value
<1>12. QED BY <1>8, <1>9, <1>10, <1>11

\* What a receiver sees of tags.
Seen(tags) == [k \in DOMAIN tags |-> [name |-> tags[k].name.bytes, value |-> tags[k].value.bytes]]

\* The reader reads the tags as one block.
LEMMA FirstBlock ==
    ASSUME NEW tags \in Seq(TagPairs), Len(tags) > 0, NEW b, NEW at, Placed(b, tags, at)
    PROVE  ReadBlock(b, [at |-> 0, tags |-> << >>]) = [at |-> at[Len(tags)], tags |-> Seen(tags)]
<1> DEFINE n == Len(tags)
           r == [at |-> 0, tags |-> << >>]
           base == [at |-> at[0], tags |-> << >>]
           seen(k) == [j \in 1 .. k |-> [name |-> tags[j].name.bytes, value |-> tags[j].value.bytes]]
           g == [k \in 0 .. n |-> [at |-> at[k], tags |-> seen(k)]]
           read == CHOOSE f : f = [k \in 0 .. n |->
                     IF k = 0 THEN base
                     ELSE IF f[k - 1].at = Thrown THEN f[k - 1] ELSE ReadTag(b, f[k - 1])]
<1>1. n \in Nat /\ n > 0 /\ \A k \in 1 .. n : tags[k] \in TagPairs /\ k - 1 \in 0 .. n
  OBVIOUS
<1>2. b \in Seq(Bytes) /\ at \in [0 .. n -> Nat]
  BY DEF Placed
<1>3. EndOfLong(b, 0) = at[0] /\ ReadLong(b, 0) = n
  <2>1. EndOfLong(b, 0) = 0 + Len(LongBytes(n)) /\ ReadLong(b, 0) = n
    BY <1>1, <1>2, LongReads DEF Placed
  <2>2. Len(LongBytes(n)) = at[0] /\ at[0] \in Nat
    BY <1>1, <1>2 DEF Placed
  <2>3. QED BY <2>1, <2>2
<1>4. ReadBlock(b, r) = read[n]
  <2>1. r.at = 0 /\ r.tags = << >> /\ r.at # Thrown /\ n > 0 /\ n # 0
    BY <1>1, CodecAssumption
  <2> HIDE DEF r
  <2>2. ReadLong(b, r.at) = n /\ EndOfLong(b, r.at) = at[0] /\ ~(r.at = Thrown \/ n = 0)
    BY <1>3, <2>1
  <2> DEFINE loop(m, start) ==
               CHOOSE f : f = [k \in 0 .. m |->
                 IF k = 0 THEN start
                 ELSE IF f[k - 1].at = Thrown THEN f[k - 1] ELSE ReadTag(b, f[k - 1])]
             long == ReadLong(b, r.at)
             next == EndOfLong(b, r.at)
             turns == IF long > 0 THEN long ELSE -long
             start0 == [at |-> IF long > 0 THEN next ELSE EndOfLong(b, next), tags |-> r.tags]
  <2>3. ReadBlock(b, r) = IF r.at = Thrown \/ long = 0 THEN r ELSE loop(turns, start0)[turns]
    BY Zenon DEF ReadBlock
  <2>4. read[n] = loop(n, base)[n]
    OBVIOUS
  <2>5. turns = n /\ start0 = base /\ ~(r.at = Thrown \/ long = 0)
    BY <2>1, <2>2
  <2> HIDE DEF loop, long, turns, start0, read
  <2>6. QED BY <2>3, <2>4, <2>5
<1>5. \A k \in 0 .. n : at[k] \in Nat /\ at[k] # Thrown
  BY <1>2, CodecAssumption
<1>6. ASSUME NEW k \in 1 .. n
      PROVE  g[k - 1].at # Thrown /\ g[k] = ReadTag(b, g[k - 1])
  <2> DEFINE t == tags[k]
             x == g[k - 1]
  <2>1. x = [at |-> at[k - 1], tags |-> seen(k - 1)]
    BY <1>1
  <2>2. x.at = at[k - 1] /\ x.tags = seen(k - 1)
    BY <2>1
  <2>3. g[k] = [at |-> at[k], tags |-> seen(k)]
    BY <1>1
  <2>4. t \in TagPairs /\ k - 1 \in 0 .. n /\ k - 1 \in Nat
    BY <1>1
  <2>5. at[k] = at[k - 1] + Len(PairBytes(t)) /\ Holds(b, at[k - 1], PairBytes(t))
    BY DEF Placed
  <2>6. Append(seen(k - 1), [name |-> t.name.bytes, value |-> t.value.bytes]) = seen(k)
    <3> DEFINE e(j) == [name |-> tags[j].name.bytes, value |-> tags[j].value.bytes]
               V == {e(j) : j \in 1 .. n}
    <3>1. \A j \in 1 .. n : e(j) \in V
      OBVIOUS
    <3>2. \A i \in 0 .. n : seen(i) = [j \in 1 .. i |-> e(j)]
      OBVIOUS
    <3> HIDE DEF e, V, seen
    <3>0. k - 1 \in 0 .. n /\ k \in 0 .. n
      BY <1>1, <2>4
    <3>3. seen(k - 1) = [j \in 1 .. k - 1 |-> e(j)] /\ seen(k) = [j \in 1 .. k |-> e(j)]
      BY <3>0, <3>2, Zenon
    <3>4. k \in Nat /\ k <= n
      BY <1>1
    <3>5. seen(k - 1) \in Seq(V) /\ Len(seen(k - 1)) = k - 1
          /\ \A j \in 1 .. k - 1 : seen(k - 1)[j] = e(j)
      BY <2>4, <3>1, <3>3, <3>4
    <3>6. seen(k) \in Seq(V) /\ Len(seen(k)) = k /\ \A j \in 1 .. k : seen(k)[j] = e(j)
      BY <2>4, <3>1, <3>3, <3>4
    <3>7. e(k) \in V
      BY <3>1
    <3>8. /\ Append(seen(k - 1), e(k)) \in Seq(V)
          /\ Len(Append(seen(k - 1), e(k))) = k
          /\ \A j \in 1 .. k : Append(seen(k - 1), e(k))[j] = IF j = k THEN e(k) ELSE e(j)
      BY <3>4, <3>5, <3>7
    <3>9. \A j \in 1 .. k : Append(seen(k - 1), e(k))[j] = seen(k)[j]
      BY <3>6, <3>8
    <3>10. Append(seen(k - 1), e(k)) = seen(k)
      BY <3>6, <3>8, <3>9, SeqEqual
    <3>11. QED BY <3>10 DEF e
  <2> HIDE DEF x, seen, g, t
  <2>7. x.at \in Nat /\ x.at # Thrown
    BY <1>5, <2>2, <2>4
  <2>8. ReadTag(b, x) = [at |-> x.at + Len(PairBytes(t)),
                         tags |-> Append(x.tags, [name |-> t.name.bytes, value |-> t.value.bytes])]
    BY <1>2, <2>2, <2>4, <2>5, <2>7, TagReads
  <2>9. ReadTag(b, x) = g[k]
    BY <2>2, <2>3, <2>5, <2>6, <2>8
  <2>10. QED BY <2>7, <2>9 DEF x
<1>7. g[0] = base
  <2>1. seen(0) = << >>
    OBVIOUS
  <2>2. QED BY <1>1, <2>1
<1> HIDE DEF seen
<1>8. DOMAIN g = 0 .. n /\ g = [k \in 0 .. n |-> g[k]]
  OBVIOUS
<1>9. g[n] = [at |-> at[n], tags |-> Seen(tags)]
  <2>1. DOMAIN tags = 1 .. n
    OBVIOUS
  <2>2. seen(n) = Seen(tags)
    BY <2>1 DEF Seen, seen
  <2>3. QED BY <1>1, <2>2
<1> HIDE DEF g, base, n
<1>10. g = [k \in 0 .. n |-> IF k = 0 THEN base
                             ELSE IF g[k - 1].at = Thrown THEN g[k - 1] ELSE ReadTag(b, g[k - 1])]
  <2>1. \A k \in 0 .. n : g[k] = IF k = 0 THEN base
                             ELSE IF g[k - 1].at = Thrown THEN g[k - 1] ELSE ReadTag(b, g[k - 1])
    BY <1>1, <1>6, <1>7
  <2>2. QED BY <1>8, <2>1
<1>11. read = [k \in 0 .. n |-> IF k = 0 THEN base
                             ELSE IF read[k - 1].at = Thrown THEN read[k - 1] ELSE ReadTag(b, read[k - 1])]
  BY <1>10
<1> HIDE DEF read
<1> DEFINE S == {k \in Nat : k <= n => read[k] = g[k]}
<1>12. 0 \in S
  BY <1>1, <1>7, <1>11
<1>13. ASSUME NEW k \in Nat, k \in S PROVE k + 1 \in S
  <2>1. CASE k + 1 <= n
    <3>1. /\ k + 1 \in 1 .. n /\ k + 1 \in 0 .. n /\ k + 1 # 0 /\ (k + 1) - 1 = k
          /\ read[k] = g[k]
      <4>1. n \in Nat /\ k \in Nat /\ k + 1 <= n
        BY <1>1, <2>1
      <4>2. k <= n
        BY <4>1
      <4>3. QED BY <1>13, <4>1, <4>2
    <3>2. g[k].at # Thrown /\ g[k + 1] = ReadTag(b, g[k])
      BY <1>6, <3>1
    <3>3. read[k + 1] = IF read[k].at = Thrown THEN read[k] ELSE ReadTag(b, read[k])
      BY <1>11, <3>1
    <3>4. QED BY <3>1, <3>2, <3>3
  <2>2. QED BY <2>1
<1>14. n \in S
  BY <1>1, <1>12, <1>13, Induction
<1>15. QED BY <1>4, <1>9, <1>14 DEF n

\* It then finds the empty block and ends.
LEMMA TagsReadBack ==
    ASSUME NEW tags \in Seq(TagPairs), Len(tags) > 0, NEW b, NEW at, Placed(b, tags, at)
    PROVE  DeserializeTags(b) = Seen(tags)
<1> DEFINE first == [at |-> 0, tags |-> << >>]
           last == [at |-> at[Len(tags)], tags |-> Seen(tags)]
           block == CHOOSE f : f = [k \in 0 .. Len(b) |-> IF k = 0 THEN first ELSE ReadBlock(b, f[k - 1])]
           g == [k \in 0 .. Len(b) |-> IF k = 0 THEN first ELSE last]
<1>1. b \in Seq(Bytes) /\ Len(b) \in Nat /\ at[Len(tags)] \in Nat
  BY DEF Placed
<1>2. Len(b) > 0
  <2>1. LongBytes(Len(tags)) \in Seq(Bytes) /\ Len(LongBytes(Len(tags))) > 0
    BY LongBytesAre, GroupsAre
  <2>2. 1 \in DOMAIN LongBytes(Len(tags))
    BY <2>1
  <2>3. 0 + 1 <= Len(b)
    BY <2>2 DEF Placed, Holds
  <2>4. QED BY <1>1, <2>3
<1>3. ReadBlock(b, first) = last
  BY FirstBlock
<1>4. ReadBlock(b, last) = last
  <2>1. last.at = at[Len(tags)]
    OBVIOUS
  <2>2. ReadLong(b, last.at) = 0
    BY <1>1, <2>1, LongReads DEF Placed
  <2> HIDE DEF last
  <2>3. QED BY <2>2 DEF ReadBlock
<1>5. DeserializeTags(b) = IF block[Len(b)].at = Thrown THEN Thrown ELSE block[Len(b)].tags
  BY DEF DeserializeTags
<1>6. last.at # Thrown /\ last.tags = Seen(tags)
  BY <1>1, CodecAssumption
<1> HIDE DEF first, last
<1>7. g = [k \in 0 .. Len(b) |-> IF k = 0 THEN first ELSE ReadBlock(b, g[k - 1])]
  <2>1. \A k \in 0 .. Len(b) : g[k] = IF k = 0 THEN first ELSE ReadBlock(b, g[k - 1])
    <3> TAKE k \in 0 .. Len(b)
    <3>1. CASE k = 0
      BY <3>1
    <3>2. CASE k = 1
      <4>1. g[1] = last /\ g[1 - 1] = first
        BY <1>1, <1>2
      <4>2. QED BY <1>3, <3>2, <4>1
    <3>3. CASE k > 1
      <4>1. k - 1 \in 0 .. Len(b) /\ k - 1 # 0 /\ k # 0
        BY <1>1, <3>3
      <4>2. g[k - 1] = last /\ g[k] = last
        BY <4>1
      <4>3. QED BY <1>4, <4>1, <4>2
    <3>4. QED BY <1>1, <3>1, <3>2, <3>3
  <2>2. QED BY <2>1
<1>8. block = [k \in 0 .. Len(b) |-> IF k = 0 THEN first ELSE ReadBlock(b, block[k - 1])]
  BY <1>7
<1> HIDE DEF g, block
<1>9. block[0] = first /\ \A k \in 1 .. Len(b) : block[k] = ReadBlock(b, block[k - 1])
  <2>1. \A k \in 0 .. Len(b) : block[k] = IF k = 0 THEN first ELSE ReadBlock(b, block[k - 1])
    BY <1>8
  <2>2. 0 \in 0 .. Len(b) /\ \A k \in 1 .. Len(b) : k \in 0 .. Len(b) /\ k # 0
    BY <1>1
  <2>3. QED BY <2>1, <2>2
<1> DEFINE S == {k \in Nat : k + 1 <= Len(b) => block[k + 1] = last}
<1>10. 0 \in S
  <2>1. 1 \in 1 .. Len(b) /\ 1 - 1 = 0 /\ 0 + 1 = 1
    BY <1>1, <1>2
  <2>2. block[1] = last
    BY <1>3, <1>9, <2>1
  <2>3. QED BY <2>2
<1>11. ASSUME NEW k \in Nat, k \in S PROVE k + 1 \in S
  <2>1. CASE k + 1 + 1 <= Len(b)
    <3>1. k + 1 + 1 \in 1 .. Len(b) /\ (k + 1 + 1) - 1 = k + 1 /\ k + 1 <= Len(b)
      BY <1>1, <2>1
    <3>2. block[k + 1] = last
      BY <1>11, <3>1
    <3>3. block[k + 1 + 1] = ReadBlock(b, last)
      BY <1>9, <3>1, <3>2
    <3>4. QED BY <1>4, <3>3
  <2>2. QED BY <2>1
<1>12. Len(b) - 1 \in Nat /\ (Len(b) - 1) + 1 = Len(b)
  BY <1>1, <1>2
<1>13. Len(b) - 1 \in S
  BY <1>10, <1>11, <1>12, Induction
<1>14. block[Len(b)] = last
  BY <1>1, <1>12, <1>13
<1>15. QED BY <1>5, <1>6, <1>14

-----------------------------------------------------------------------------
(* How long tags are                                                       *)

\* Strings have bytes, at least those of their length.
LEMMA StringBytesAre ==
    ASSUME NEW s \in Strings
    PROVE  /\ StringBytes(s) \in Seq(Bytes)
           /\ Len(StringBytes(s)) \in Nat /\ Len(StringBytes(s)) > 0
           /\ Len(StringBytes(s)) = Len(Groups(2 * Len(s.bytes))) + Len(s.bytes)
<1> DEFINE n == Len(s.bytes)
           l == LongBytes(n)
<1>1. s.bytes \in Seq(Bytes) /\ n \in Nat
  BY DEF Strings
<1>2. l \in Seq(Bytes) /\ Len(l) \in Nat /\ Len(l) > 0
  BY <1>1, LongIs
<1>3. l = Groups(2 * n)
  BY <1>1, LongBytesAre
<1>4. StringBytes(s) = l \o s.bytes
  BY DEF StringBytes
<1> HIDE DEF l
<1>5. l \o s.bytes \in Seq(Bytes) /\ Len(l \o s.bytes) = Len(l) + Len(s.bytes)
  BY <1>1, <1>2
<1>6. Len(l) + Len(s.bytes) \in Nat /\ Len(l) + Len(s.bytes) > 0
  BY <1>1, <1>2
<1>7. QED BY <1>3, <1>4, <1>5, <1>6

\* So do tags.
LEMMA PairBytesAre ==
    ASSUME NEW t \in TagPairs
    PROVE  /\ PairBytes(t) \in Seq(Bytes)
           /\ Len(PairBytes(t)) \in Nat /\ Len(PairBytes(t)) > 0
           /\ Len(PairBytes(t)) = Len(StringBytes(t.name)) + Len(StringBytes(t.value))
<1>1. t.name \in Strings /\ t.value \in Strings
  BY DEF TagPairs
<1> DEFINE x == StringBytes(t.name)
           y == StringBytes(t.value)
<1>2. /\ x \in Seq(Bytes) /\ Len(x) \in Nat /\ Len(x) > 0
      /\ y \in Seq(Bytes) /\ Len(y) \in Nat /\ Len(y) > 0
  BY <1>1, StringBytesAre
<1>3. PairBytes(t) = x \o y
  BY DEF PairBytes
<1> HIDE DEF x, y
<1>4. x \o y \in Seq(Bytes) /\ Len(x \o y) = Len(x) + Len(y)
  BY <1>2
<1>5. QED BY <1>2, <1>3, <1>4 DEF x, y

\* The writer ends where EncodedLength says, in the buffer or beyond it.
LEMMA EndIs ==
    ASSUME NEW tags \in Seq(TagPairs)
    PROVE  /\ WriteTags(tags).pos \in Nat
           /\ EncodedLength(tags) = WriteTags(tags).pos
           /\ Len(tags) <= WriteTags(tags).pos
<1> DEFINE n == Len(tags)
           long(m) == Len(Groups(2 * m))
           string(s) == long(Len(s.bytes)) + Len(s.bytes)
           length == CHOOSE f : f = [k \in 0 .. n |->
                       IF k = 0 THEN long(n)
                       ELSE f[k - 1] + string(tags[k].name) + string(tags[k].value)]
<1>1. n \in Nat /\ \A k \in 1 .. n : tags[k] \in TagPairs /\ k - 1 \in 0 .. n
  OBVIOUS
<1>2. PICK tap : Written(tags, tap) /\ WriteTags(tags) = WriteLong(tap[n], 0)
  BY WriterRuns
<1>3. \A k \in 0 .. n : tap[k] \in Taps
  BY <1>2 DEF Written
<1>4. \A k \in 0 .. n : tap[k].pos \in Nat
  BY <1>3 DEF Taps
<1>5. tap[0].pos = long(n)
  <2>1. Writes(Empty, tap[0], LongBytes(n)) /\ Empty.pos = 0
    BY <1>1, <1>2, EmptyTap, LongWrites DEF Written, Empty
  <2>2. tap[0].pos = 0 + Len(LongBytes(n)) /\ Len(LongBytes(n)) \in Nat
    BY <1>1, <2>1, LongIs DEF Writes
  <2>3. LongBytes(n) = Groups(2 * n)
    BY <1>1, LongBytesAre
  <2>4. QED BY <2>2, <2>3
<1>6. \A k \in 1 .. n : /\ tap[k].pos = tap[k - 1].pos + string(tags[k].name) + string(tags[k].value)
                        /\ tap[k].pos > tap[k - 1].pos
  <2> TAKE k \in 1 .. n
  <2> DEFINE t == tags[k]
             x == StringBytes(t.name)
             y == StringBytes(t.value)
  <2>1. t \in TagPairs /\ t.name \in Strings /\ t.value \in Strings
    BY <1>1 DEF TagPairs
  <2>2. tap[k].pos = tap[k - 1].pos + Len(PairBytes(t))
    BY <1>2, WrittenStays DEF Writes
  <2>3. Len(PairBytes(t)) \in Nat /\ Len(PairBytes(t)) > 0 /\ Len(PairBytes(t)) = Len(x) + Len(y)
    BY <2>1, PairBytesAre
  <2>4. Len(x) = string(t.name) /\ Len(y) = string(t.value) /\ Len(x) \in Nat /\ Len(y) \in Nat
    BY <2>1, StringBytesAre
  <2>5. tap[k - 1].pos \in Nat
    BY <1>1, <1>4
  <2> HIDE DEF t, x, y, string
  <2>6. QED BY <2>2, <2>3, <2>4, <2>5 DEF t
<1>7. WriteTags(tags).pos = tap[n].pos + 1
  <2>1. tap[n] \in Taps
    BY <1>1, <1>3
  <2>2. Writes(tap[n], WriteTags(tags), LongBytes(0))
    BY <1>2, <2>1, LongWrites
  <2>3. LongBytes(0) = Groups(0)
    <3>1. 2 * 0 = 0
      OBVIOUS
    <3>2. LongBytes(0) = Groups(2 * 0)
      BY LongBytesAre
    <3>3. QED BY <3>1, <3>2
  <2>4. Groups(0) \in Seq(Bytes) /\ Len(Groups(0)) = 1
    <3> DEFINE T == {k \in 1 .. 0 + 1 : Rest(GroupBase, 0, k) = 0}
    <3>1. 0 + 1 \in T
      BY CodecAssumption, RestEnds
    <3>2. T = {1}
      BY <3>1
    <3>3. Min(T) = 1
      <4>1. T \in SUBSET Nat /\ T # {}
        BY <3>1, <3>2
      <4> HIDE DEF T
      <4>2. Min(T) \in T
        BY <4>1, MinIs
      <4>3. QED BY <3>2, <4>2
    <3>4. DOMAIN Groups(0) = 1 .. 1
      BY <3>3 DEF Groups
    <3>5. Groups(0) \in Seq(Bytes)
      BY GroupsAre
    <3>6. QED BY <3>4, <3>5
  <2>5. QED BY <2>2, <2>3, <2>4 DEF Writes
<1> DEFINE g == [k \in 0 .. n |-> tap[k].pos]
<1>8. EncodedLength(tags) = length[n] + 1
  BY DEF EncodedLength
<1> HIDE DEF n, long, string
<1>9. g = [k \in 0 .. n |-> IF k = 0 THEN long(n)
                            ELSE g[k - 1] + string(tags[k].name) + string(tags[k].value)]
  <2>1. \A k \in 0 .. n : tap[k].pos = IF k = 0 THEN long(n)
                            ELSE g[k - 1] + string(tags[k].name) + string(tags[k].value)
    <3> TAKE k \in 0 .. n
    <3>1. CASE k = 0
      BY <1>5, <3>1
    <3>2. CASE k # 0
      <4>1. k \in 1 .. n /\ k - 1 \in 0 .. n
        BY <1>1, <3>2
      <4>2. g[k - 1] = tap[k - 1].pos
        BY <4>1
      <4>3. QED BY <1>6, <3>2, <4>1, <4>2
    <3>3. QED BY <3>1, <3>2
  <2>2. QED BY <2>1
<1>10. length = [k \in 0 .. n |-> IF k = 0 THEN long(n)
                            ELSE length[k - 1] + string(tags[k].name) + string(tags[k].value)]
  BY <1>9
<1> HIDE DEF length, g
<1> DEFINE S == {k \in Nat : k <= n => length[k] = tap[k].pos /\ k <= tap[k].pos}
<1>11. 0 \in S
  <2>1. 0 \in 0 .. n
    BY <1>1
  <2>2. length[0] = tap[0].pos /\ tap[0].pos \in Nat
    BY <1>4, <1>5, <1>10, <2>1
  <2>3. QED BY <2>2
<1>12. ASSUME NEW k \in Nat, k \in S PROVE k + 1 \in S
  <2>1. CASE k + 1 <= n
    <3>1. k + 1 \in 1 .. n /\ k + 1 \in 0 .. n /\ k \in 0 .. n /\ k + 1 # 0 /\ (k + 1) - 1 = k /\ k <= n
      BY <1>1, <2>1
    <3>2. length[k] = tap[k].pos /\ k <= tap[k].pos
      BY <1>12, <3>1
    <3>3. length[k + 1] = length[k] + string(tags[k + 1].name) + string(tags[k + 1].value)
      BY <1>10, <3>1
    <3>4. /\ tap[k + 1].pos = tap[k].pos + string(tags[k + 1].name) + string(tags[k + 1].value)
          /\ tap[k + 1].pos > tap[k].pos
      BY <1>6, <3>1
    <3>5. tap[k + 1].pos \in Nat /\ tap[k].pos \in Nat
      BY <1>4, <3>1
    <3>6. k + 1 <= tap[k + 1].pos
      BY <3>2, <3>4, <3>5
    <3>7. QED BY <3>2, <3>3, <3>4, <3>6
  <2>2. QED BY <2>1
<1>13. n \in S
  BY <1>1, <1>11, <1>12, Induction
<1>14. length[n] = tap[n].pos /\ n <= tap[n].pos /\ tap[n].pos \in Nat
  BY <1>1, <1>4, <1>13
<1>15. QED BY <1>1, <1>7, <1>8, <1>14 DEF n

\* Tags are refused if and only if they are too long; otherwise they are read back.
LEMMA TagBytesAre ==
    ASSUME NEW tags \in Seq(TagPairs)
    PROVE  /\ TagBytes(tags) = Thrown <=> tags # << >> /\ EncodedLength(tags) > MaxTagBytes
           /\ TagBytes(tags) # Thrown =>
                /\ TagBytes(tags) \in Seq(Bytes) /\ Len(TagBytes(tags)) <= MaxTagBytes
                /\ Len(tags) <= MaxTagBytes
                /\ tags # << >> => DeserializeTags(TagBytes(tags)) = Seen(tags)
<1>1. MaxTagBytes \in Nat
  BY CodecAssumption
<1>2. CASE tags = << >>
  <2>1. TagBytes(tags) = << >> /\ Len(tags) = 0
    BY <1>2 DEF TagBytes
  <2>2. << >> \in Seq(Bytes) /\ Len(<< >>) = 0
    OBVIOUS
  <2>3. Thrown # << >>
    BY <2>2, CodecAssumption
  <2>4. TagBytes(tags) # Thrown /\ ~(tags # << >>)
    BY <1>2, <2>1, <2>3
  <2>5. TagBytes(tags) \in Seq(Bytes) /\ Len(TagBytes(tags)) <= MaxTagBytes /\ Len(tags) <= MaxTagBytes
    BY <1>1, <2>1, <2>2
  <2>6. QED BY <2>4, <2>5
<1>3. CASE tags # << >>
  <2> DEFINE z == WriteTags(tags)
  <2>1. z.pos \in Nat /\ EncodedLength(tags) = z.pos /\ Len(tags) <= z.pos /\ Len(tags) \in Nat
    BY EndIs
  <2>2. TagBytes(tags) = SerializeTags(tags)
    BY <1>3 DEF TagBytes
  <2>3. CASE z.pos > MaxTagBytes
    <3>1. TagBytes(tags) = Thrown
      BY <2>2, <2>3 DEF SerializeTags, ToBuffer
    <3>2. QED BY <1>3, <2>1, <2>3, <3>1
  <2>4. CASE ~(z.pos > MaxTagBytes)
    <3>1. z.pos <= MaxTagBytes
      BY <1>1, <2>1, <2>4
    <3>2. PICK at : Placed(SerializeTags(tags), tags, at)
      BY <3>1, SerializedIsPlaced
    <3>3. SerializeTags(tags) \in Seq(Bytes)
      BY <3>2 DEF Placed
    <3>4. Len(tags) > 0
      BY <1>3
    <3>5. DeserializeTags(SerializeTags(tags)) = Seen(tags)
      BY <3>2, <3>4, TagsReadBack
    <3>6. Len(SerializeTags(tags)) <= MaxTagBytes
      <4>1. SerializeTags(tags) = SubSeq(z.buf, 1, z.pos)
        BY <2>4 DEF SerializeTags, ToBuffer
      <4>2. PICK tap : Written(tags, tap) /\ z = WriteLong(tap[Len(tags)], 0)
        BY WriterRuns
      <4>3. tap[Len(tags)] \in Taps
        BY <2>1, <4>2 DEF Written
      <4>4. z \in Taps
        BY <4>2, <4>3, LongWrites DEF Writes, Grows
      <4>5. z.buf \in Seq(Bytes) /\ Len(z.buf) = MaxTagBytes
        BY <1>1, <4>4 DEF Taps, Buffers
      <4> HIDE DEF z
      <4>6. Len(SubSeq(z.buf, 1, z.pos)) = z.pos
        BY <1>1, <2>1, <3>1, <4>5
      <4>7. QED BY <3>1, <4>1, <4>6
    <3>7. SerializeTags(tags) # Thrown
      BY <3>3, CodecAssumption
    <3>8. Len(tags) <= MaxTagBytes
      BY <1>1, <2>1, <3>1
    <3>9. QED BY <1>1, <1>3, <2>1, <2>2, <2>4, <3>3, <3>5, <3>6, <3>7, <3>8
  <2>5. QED BY <2>3, <2>4
<1>4. QED BY <1>2, <1>3

-----------------------------------------------------------------------------
(* Layout of an item (DataItem.ts)                                         *)

\* Where an item made of o has its parts.
AnchorOf(o) == TargetStart + Len(Flagged(o.target))
CountOf(o) == AnchorOf(o) + Len(Flagged(o.anchor))
TagsOf(o) == CountOf(o) + CountLength + CountLength
DataOf(o) == TagsOf(o) + Len(TagBytes(o.tags))

\* b is an item made of o, with this signature.
Laid(b, o, signature) ==
    /\ b \in Seq(Bytes) /\ Len(b) = DataOf(o) + Len(o.data)
    /\ signature \in Seq(Bytes) /\ Len(signature) = SigLength
    /\ Holds(b, 2, signature)
    /\ Holds(b, 2 + SigLength, Owner)
    /\ Holds(b, TargetStart, Flagged(o.target))
    /\ Holds(b, AnchorOf(o), Flagged(o.anchor))
    /\ Holds(b, CountOf(o), ToBytes(CountLength, Len(o.tags)))
    /\ Holds(b, CountOf(o) + CountLength, ToBytes(CountLength, Len(TagBytes(o.tags))))
    /\ Holds(b, TagsOf(o), TagBytes(o.tags))
    /\ Holds(b, DataOf(o), o.data)

\* Options that createData takes.
Takes(o) ==
    /\ o \in Options
    /\ TagBytes(o.tags) # Thrown
    /\ RightLength(o.target) /\ RightLength(o.anchor)

\* longToNByteArray and its inverse.
LEMMA ToBytesAre ==
    ASSUME NEW N \in Nat, NEW n \in Nat
    PROVE  /\ ToBytes(N, n) \in Seq(Bytes) /\ Len(ToBytes(N, n)) = N
           /\ Fits(N, n) => ToLong(ToBytes(N, n)) = n
<1>1. ByteBase \in Nat /\ ByteBase > 1
  BY CodecAssumption DEF ByteBase
<1>2. \A i \in 1 .. N : Rest(ByteBase, n, i - 1) % ByteBase \in Bytes
  <2> TAKE i \in 1 .. N
  <2>1. i - 1 \in Nat
    OBVIOUS
  <2>2. Rest(ByteBase, n, i - 1) % ByteBase \in 0 .. ByteBase - 1
    BY <1>1, <2>1, RestNat
  <2>3. QED BY <2>2 DEF Bytes
<1>3. ToBytes(N, n) \in [1 .. N -> Bytes]
  BY <1>2 DEF ToBytes
<1>4. ASSUME Fits(N, n) PROVE ToLong(ToBytes(N, n)) = n
  BY <1>1, <1>4, DigitsBack DEF Fits, ToLong, ToBytes
<1>5. QED BY <1>3, <1>4

\* An optional part has its flag and, with it, IdLength bytes.
LEMMA FlaggedIs ==
    ASSUME NEW part \in Seq(Bytes) \cup {None}, RightLength(part)
    PROVE  /\ Flagged(part) \in Seq(Bytes)
           /\ Len(Flagged(part)) = IF part = None THEN 1 ELSE IdLength + 1
<1>1. 0 \in Bytes /\ 1 \in Bytes /\ IdLength \in Nat
  BY CodecAssumption, ItemAssumption DEF Bytes, ByteBase
<1>2. CASE part = None
  BY <1>1, <1>2 DEF Flagged
<1>3. CASE part # None
  <2>1. part \in Seq(Bytes) /\ Len(part) = IdLength /\ Flagged(part) = <<1>> \o part
    BY <1>3 DEF Flagged, RightLength
  <2>2. <<1>> \in Seq(Bytes) /\ Len(<<1>>) = 1
    BY <1>1
  <2>3. QED BY <1>1, <1>3, <2>1, <2>2
<1>4. QED BY <1>2, <1>3

\* Optional parts are read back, whatever bytes they have.
LEMMA PartReads ==
    ASSUME NEW part \in Seq(Bytes) \cup {None}, RightLength(part), NEW b \in Seq(Bytes),
           NEW p \in Nat, Holds(b, p, Flagged(part))
    PROVE  /\ PartLength(b, p) = Len(Flagged(part))
           /\ Part(b, p) = IF part = None THEN << >> ELSE part
<1>1. 0 \in Bytes /\ 1 \in Bytes /\ IdLength \in Nat /\ Len(b) \in Nat
  <2>1. GroupBase \in Nat /\ GroupBase > 1
    BY CodecAssumption
  <2>2. 0 \in Bytes /\ 1 \in Bytes
    BY <2>1 DEF Bytes, ByteBase
  <2>3. IdLength \in Nat
    BY ItemAssumption
  <2>4. QED BY <2>2, <2>3
<1>2. CASE part = None
  <2>1. Flagged(part) = <<0>> /\ 1 \in DOMAIN <<0>> /\ <<0>>[1] = 0
    BY <1>2 DEF Flagged
  <2>2. p + 1 <= Len(b) /\ b[p + 1] = 0
    BY <2>1 DEF Holds
  <2>3. At(b, p) = 0
    BY <1>1, <2>2 DEF At
  <2>4. Len(Flagged(part)) = 1
    BY <1>2, FlaggedIs
  <2>5. QED BY <1>2, <2>3, <2>4 DEF PartLength, Part
<1>3. CASE part # None
  <2>1. part \in Seq(Bytes) /\ Len(part) = IdLength /\ Flagged(part) = <<1>> \o part
    BY <1>3 DEF Flagged, RightLength
  <2>2. <<1>> \in Seq(Bytes) /\ Len(<<1>>) = 1 /\ 1 \in DOMAIN <<1>> /\ <<1>>[1] = 1
    BY <1>1
  <2>3. Holds(b, p, <<1>>) /\ Holds(b, p + 1, part)
    BY <2>1, <2>2, HoldsParts
  <2>4. p + 1 <= Len(b) /\ b[p + 1] = 1
    BY <2>2, <2>3 DEF Holds
  <2>5. At(b, p) = 1
    BY <1>1, <2>4 DEF At
  <2>6. Slice(b, p + 1, p + 1 + IdLength) = part
    <3>1. p + 1 \in Nat
      OBVIOUS
    <3>2. Slice(b, p + 1, p + 1 + Len(part)) = part
      BY <2>1, <2>3, <2>4, <3>1, SliceHolds
    <3>3. QED BY <2>1, <3>2
  <2>7. Len(Flagged(part)) = IdLength + 1
    BY <1>3, FlaggedIs
  <2>8. QED BY <1>3, <2>5, <2>6, <2>7 DEF PartLength, Part
<1>4. QED BY <1>2, <1>3

\* What the parts and their places are.
LEMMA Places ==
    ASSUME NEW o, Takes(o)
    PROVE  /\ o.target \in Seq(Bytes) \cup {None} /\ RightLength(o.target)
           /\ o.anchor \in Seq(Bytes) \cup {None} /\ RightLength(o.anchor)
           /\ o.tags \in Seq(TagPairs) /\ o.data \in Seq(Bytes)
           /\ Flagged(o.target) \in Seq(Bytes) /\ Flagged(o.anchor) \in Seq(Bytes)
           /\ TagBytes(o.tags) \in Seq(Bytes) /\ Len(TagBytes(o.tags)) \in Nat
           /\ Len(o.tags) \in Nat /\ Len(o.data) \in Nat
           /\ SigLength \in Nat /\ CountLength \in Nat /\ Len(Owner) \in Nat
           /\ TargetStart \in Nat /\ AnchorOf(o) \in Nat /\ CountOf(o) \in Nat
           /\ TagsOf(o) \in Nat /\ DataOf(o) \in Nat
           /\ 2 + SigLength <= TargetStart /\ TargetStart <= AnchorOf(o)
           /\ AnchorOf(o) <= CountOf(o) /\ CountOf(o) + CountLength <= TagsOf(o)
           /\ TagsOf(o) <= DataOf(o)
           /\ 2 + SigLength \in Nat /\ CountOf(o) + CountLength \in Nat
           /\ 2 + SigLength <= AnchorOf(o) /\ 2 + SigLength <= CountOf(o)
           /\ 2 + SigLength <= CountOf(o) + CountLength
           /\ 2 + SigLength <= TagsOf(o) /\ 2 + SigLength <= DataOf(o)
<1>1. /\ o.target \in Seq(Bytes) \cup {None} /\ RightLength(o.target)
      /\ o.anchor \in Seq(Bytes) \cup {None} /\ RightLength(o.anchor)
      /\ o.tags \in Seq(TagPairs) /\ o.data \in Seq(Bytes)
  BY ItemAssumption DEF Takes
<1>2. Flagged(o.target) \in Seq(Bytes) /\ Flagged(o.anchor) \in Seq(Bytes)
  BY <1>1, FlaggedIs
<1>3. TagBytes(o.tags) \in Seq(Bytes)
  BY <1>1, TagBytesAre DEF Takes
<1>4. SigLength \in Nat /\ CountLength \in Nat /\ Len(Owner) \in Nat
  BY ItemAssumption
<1>5. /\ Len(Flagged(o.target)) \in Nat /\ Len(Flagged(o.anchor)) \in Nat
      /\ Len(TagBytes(o.tags)) \in Nat /\ Len(o.tags) \in Nat /\ Len(o.data) \in Nat
  BY <1>1, <1>2, <1>3
<1>6. TargetStart \in Nat /\ 2 + SigLength <= TargetStart
  BY <1>4 DEF TargetStart
<1>7. AnchorOf(o) \in Nat /\ TargetStart <= AnchorOf(o)
  BY <1>5, <1>6 DEF AnchorOf
<1>8. CountOf(o) \in Nat /\ AnchorOf(o) <= CountOf(o)
  BY <1>5, <1>7 DEF CountOf
<1>9. TagsOf(o) \in Nat /\ CountOf(o) + CountLength <= TagsOf(o)
  BY <1>4, <1>8 DEF TagsOf
<1>10. DataOf(o) \in Nat /\ TagsOf(o) <= DataOf(o)
  BY <1>5, <1>9 DEF DataOf
<1>11. 2 + SigLength \in Nat /\ CountOf(o) + CountLength \in Nat
  BY <1>4, <1>8
<1>12. 2 + SigLength <= AnchorOf(o)
  BY <1>4, <1>6, <1>7
<1>13. 2 + SigLength <= CountOf(o)
  BY <1>4, <1>7, <1>8, <1>12
<1>14. 2 + SigLength <= CountOf(o) + CountLength
  BY <1>4, <1>8, <1>13
<1>15. 2 + SigLength <= TagsOf(o)
  BY <1>9, <1>11, <1>14
<1>16. 2 + SigLength <= DataOf(o)
  BY <1>9, <1>10, <1>11, <1>15
<1>17. QED BY <1>1, <1>2, <1>3, <1>4, <1>5, <1>6, <1>7, <1>8, <1>9, <1>10, <1>11, <1>12,
              <1>13, <1>14, <1>15, <1>16, Zenon

\* The parts that are signed.
Fields(o) ==
    << Owner, IF o.target = None THEN << >> ELSE o.target,
       IF o.anchor = None THEN << >> ELSE o.anchor, TagBytes(o.tags), o.data >>

\* All that is read of such an item.
LEMMA LaidReads ==
    ASSUME NEW o, Takes(o), NEW b, NEW signature, Laid(b, o, signature)
    PROVE  /\ RawSignature(b) = signature
           /\ SignatureData(b) = Fields(o)
           /\ TagsCount(b) = Len(o.tags)
           /\ TagsSize(b) = Len(TagBytes(o.tags))
           /\ Tags(b) = Seen(o.tags)
           /\ Verify(b, Fields(o))
<1> DEFINE n == Len(o.tags)
           tags == TagBytes(o.tags)
<1>1. /\ b \in Seq(Bytes) /\ Len(b) = DataOf(o) + Len(o.data) /\ Len(b) \in Nat
      /\ signature \in Seq(Bytes) /\ Len(signature) = SigLength
  BY DEF Laid
<1>2. /\ TargetStart <= Len(b) /\ AnchorOf(o) <= Len(b) /\ CountOf(o) <= Len(b)
      /\ CountOf(o) + CountLength <= Len(b) /\ TagsOf(o) <= Len(b) /\ DataOf(o) <= Len(b)
      /\ 2 <= Len(b) /\ 2 + SigLength <= Len(b)
  <2>1. /\ SigLength \in Nat /\ TargetStart \in Nat /\ AnchorOf(o) \in Nat /\ CountOf(o) \in Nat
        /\ TagsOf(o) \in Nat /\ DataOf(o) \in Nat /\ Len(o.data) \in Nat /\ CountLength \in Nat
        /\ 2 + SigLength <= TargetStart /\ TargetStart <= AnchorOf(o)
        /\ AnchorOf(o) <= CountOf(o) /\ CountOf(o) + CountLength <= TagsOf(o)
        /\ TagsOf(o) <= DataOf(o)
    BY Places
  <2>2. DataOf(o) <= Len(b)
    BY <1>1, <2>1
  <2>3. TagsOf(o) <= Len(b) /\ CountOf(o) + CountLength <= Len(b)
    BY <1>1, <2>1, <2>2
  <2>4. CountOf(o) <= Len(b)
    BY <1>1, <2>1, <2>3
  <2>5. AnchorOf(o) <= Len(b)
    BY <1>1, <2>1, <2>4
  <2>6. TargetStart <= Len(b)
    BY <1>1, <2>1, <2>5
  <2>7. 2 + SigLength <= Len(b) /\ 2 <= Len(b)
    BY <1>1, <2>1, <2>6
  <2>8. QED BY <2>2, <2>3, <2>4, <2>5, <2>6, <2>7, Zenon
<1>3. RawSignature(b) = signature
  <2>1. Slice(b, 2, 2 + Len(signature)) = signature
    BY <1>1, <1>2, SliceHolds DEF Laid
  <2>2. QED BY <1>1, <2>1 DEF RawSignature
<1>4. RawOwner(b) = Owner
  <2>1. 2 + SigLength \in Nat /\ Owner \in Seq(Bytes)
    BY ItemAssumption
  <2>2. Slice(b, 2 + SigLength, 2 + SigLength + Len(Owner)) = Owner
    BY <1>1, <1>2, <2>1, SliceHolds DEF Laid
  <2>3. QED BY <2>2 DEF RawOwner
<1>5. /\ PartLength(b, TargetStart) = Len(Flagged(o.target))
      /\ RawTarget(b) = IF o.target = None THEN << >> ELSE o.target
  <2>1. Holds(b, TargetStart, Flagged(o.target))
    BY DEF Laid
  <2>2. QED BY <1>1, <2>1, Places, PartReads DEF RawTarget
<1>6. AnchorStart(b) = AnchorOf(o)
  BY <1>5 DEF AnchorStart, AnchorOf
<1>7. /\ PartLength(b, AnchorOf(o)) = Len(Flagged(o.anchor))
      /\ RawAnchor(b) = IF o.anchor = None THEN << >> ELSE o.anchor
  <2>1. Holds(b, AnchorOf(o), Flagged(o.anchor))
    BY DEF Laid
  <2>2. /\ AnchorOf(o) \in Nat
        /\ o.anchor \in Seq(Bytes) \cup {None} /\ RightLength(o.anchor)
    BY Places
  <2>3. /\ PartLength(b, AnchorOf(o)) = Len(Flagged(o.anchor))
        /\ Part(b, AnchorOf(o)) = IF o.anchor = None THEN << >> ELSE o.anchor
    BY <1>1, <2>1, <2>2, PartReads
  <2>4. QED BY <1>6, <2>3 DEF RawAnchor
<1>8. TagsStart(b) = CountOf(o)
  BY <1>5, <1>7 DEF TagsStart, AnchorOf, CountOf
<1>9. n \in Nat /\ Len(tags) \in Nat /\ CountLength \in Nat /\ tags \in Seq(Bytes)
      /\ CountOf(o) \in Nat /\ CountOf(o) + CountLength \in Nat
  BY Places
<1>10. n <= MaxTagBytes /\ Len(tags) <= MaxTagBytes
  BY Places, TagBytesAre DEF Takes
<1>11. Fits(CountLength, n) /\ Fits(CountLength, Len(tags))
  <2>1. Fits(CountLength, MaxTagBytes) /\ MaxTagBytes \in Nat /\ ByteBase \in Nat /\ ByteBase > 1
    BY CodecAssumption, ItemAssumption DEF ByteBase
  <2>2. ASSUME NEW x \in Nat, x <= MaxTagBytes PROVE Fits(CountLength, x)
    <3>1. Rest(ByteBase, x, CountLength) <= Rest(ByteBase, MaxTagBytes, CountLength)
      BY <1>9, <2>1, <2>2, RestGrows
    <3>2. Rest(ByteBase, x, CountLength) \in Nat
      BY <1>9, <2>1, RestNat
    <3>3. QED BY <2>1, <3>1, <3>2 DEF Fits
  <2>3. QED BY <1>9, <1>10, <2>2
<1>12. TagsCount(b) = n
  <2> DEFINE s == ToBytes(CountLength, n)
  <2>1. s \in Seq(Bytes) /\ Len(s) = CountLength /\ ToLong(s) = n
    BY <1>9, <1>11, ToBytesAre
  <2>2. Holds(b, CountOf(o), s)
    BY DEF Laid
  <2> HIDE DEF s
  <2>3. Slice(b, CountOf(o), CountOf(o) + Len(s)) = s
    BY <1>1, <1>2, <1>9, <2>1, <2>2, SliceHolds
  <2>4. QED BY <1>8, <2>1, <2>3 DEF TagsCount
<1>13. TagsSize(b) = Len(tags)
  <2> DEFINE s == ToBytes(CountLength, Len(tags))
             p == CountOf(o) + CountLength
  <2>1. s \in Seq(Bytes) /\ Len(s) = CountLength /\ ToLong(s) = Len(tags)
    BY <1>9, <1>11, ToBytesAre
  <2>2. Holds(b, p, s) /\ p \in Nat /\ p <= Len(b)
    BY <1>2, <1>9 DEF Laid
  <2>3. p + CountLength = CountOf(o) + 2 * CountLength
    BY <1>9
  <2> HIDE DEF s, p
  <2>4. Slice(b, p, p + Len(s)) = s
    BY <1>1, <2>1, <2>2, SliceHolds
  <2>5. QED BY <1>8, <2>1, <2>3, <2>4 DEF TagsSize, p
<1>14. TagsAt(b) = TagsOf(o)
  <2>1. CountOf(o) + 2 * CountLength = CountOf(o) + CountLength + CountLength
    BY <1>9
  <2>2. QED BY <1>8, <2>1 DEF TagsAt, TagsOf
<1>15. RawTags(b) = tags
  <2>1. Holds(b, TagsOf(o), tags) /\ TagsOf(o) \in Nat
    BY Places DEF Laid
  <2>2. Slice(b, TagsOf(o), TagsOf(o) + Len(tags)) = tags
    BY <1>1, <1>2, <1>9, <2>1, SliceHolds
  <2>3. QED BY <1>13, <1>14, <2>2 DEF RawTags
<1>16. RawData(b) = o.data
  <2>1. Holds(b, DataOf(o), o.data) /\ DataOf(o) \in Nat /\ o.data \in Seq(Bytes)
    BY Places DEF Laid
  <2>2. Slice(b, DataOf(o), DataOf(o) + Len(o.data)) = o.data
    BY <1>1, <1>2, <2>1, SliceHolds
  <2>3. QED BY <1>1, <1>13, <1>14, <2>2 DEF RawData, DataOf
<1>17. SignatureData(b) = Fields(o)
  BY <1>4, <1>5, <1>7, <1>15, <1>16 DEF SignatureData, Fields
<1>18. o.tags # << >> => DeserializeTags(tags) = Seen(o.tags)
  BY Places, TagBytesAre DEF Takes
<1>19. Tags(b) = Seen(o.tags)
  <2>1. CASE n = 0
    <3>1. o.tags \in Seq(TagPairs)
      BY Places
    <3>2. o.tags = << >>
      BY <2>1, <3>1
    <3>3. Seen(o.tags) = << >>
      <4>1. DOMAIN o.tags = {}
        BY <3>2
      <4>2. QED BY <4>1 DEF Seen
    <3>4. QED BY <1>12, <2>1, <3>3 DEF Tags
  <2>2. CASE n # 0
    <3>1. o.tags # << >>
      BY <2>2
    <3>2. QED BY <1>12, <1>15, <1>18, <2>2, <3>1 DEF Tags
  <2>3. QED BY <2>1, <2>2
<1>20. Verify(b, Fields(o))
  <2>1. TagsFit(b)
    BY <1>10, <1>13 DEF TagsFit
  <2>2. ASSUME TagsCount(b) > 0
        PROVE  DeserializeTags(RawTags(b)) # Thrown /\ Len(DeserializeTags(RawTags(b))) = TagsCount(b)
    <3>1. o.tags # << >> /\ o.tags \in Seq(TagPairs)
      <4>1. o.tags \in Seq(TagPairs)
        BY Places
      <4>2. Len(o.tags) # 0
        BY <1>12, <2>2
      <4>3. QED BY <4>1, <4>2
    <3>2. DeserializeTags(RawTags(b)) = Seen(o.tags)
      BY <1>15, <1>18, <3>1
    <3>3. Seen(o.tags) \in Seq([name : Seq(Bytes), value : Seq(Bytes)]) /\ Len(Seen(o.tags)) = n
      <4> DEFINE R == [name : Seq(Bytes), value : Seq(Bytes)]
      <4>1. DOMAIN o.tags = 1 .. n
        BY <3>1
      <4>2. ASSUME NEW k \in 1 .. n
            PROVE  [name |-> o.tags[k].name.bytes, value |-> o.tags[k].value.bytes] \in R
        <5>1. o.tags[k] \in TagPairs
          BY <3>1, <4>1
        <5>2. o.tags[k].name \in Strings /\ o.tags[k].value \in Strings
          BY <5>1 DEF TagPairs
        <5>3. o.tags[k].name.bytes \in Seq(Bytes) /\ o.tags[k].value.bytes \in Seq(Bytes)
          BY <5>2 DEF Strings
        <5>4. QED BY <5>3
      <4> HIDE DEF R, n
      <4>3. Seen(o.tags) \in [1 .. n -> R]
        BY <4>1, <4>2 DEF Seen
      <4>4. Seen(o.tags) \in Seq(R) /\ Len(Seen(o.tags)) = n
        BY <1>9, <4>3
      <4>5. QED BY <4>4 DEF R
    <3>4. QED BY <1>12, <3>2, <3>3, ItemAssumption
  <2>3. QED BY <1>17, <2>1, <2>2 DEF Verify
<1>21. QED BY <1>3, <1>12, <1>13, <1>17, <1>19, <1>20

-----------------------------------------------------------------------------
(* createData and sign                                                     *)

\* Bytes hold themselves.
LEMMA SelfHolds ==
    ASSUME NEW x \in Seq(Bytes)
    PROVE  Holds(x, 0, x)
<1>1. \A i \in DOMAIN x : 0 + i <= Len(x) /\ 0 + i = i
  OBVIOUS
<1>2. QED BY <1>1 DEF Holds

\* What a part holds is held by the whole.
LEMMA HoldsWithin ==
    ASSUME NEW b \in Seq(Bytes), NEW x \in Seq(Bytes), NEW s \in Seq(Bytes),
           NEW p \in Nat, NEW q \in Nat, Holds(b, p, x), Holds(x, q, s)
    PROVE  Holds(b, p + q, s)
<1>1. ASSUME NEW i \in DOMAIN s PROVE p + q + i <= Len(b) /\ b[p + q + i] = s[i]
  <2>1. i \in 1 .. Len(s) /\ Len(x) \in Nat
    OBVIOUS
  <2>2. q + i \in DOMAIN x /\ x[q + i] = s[i] /\ p + q + i = p + (q + i)
    BY <2>1 DEF Holds
  <2>3. QED BY <2>2 DEF Holds
<1>2. QED BY <1>1 DEF Holds

\* createData lays out what it takes,
LEMMA CreateIsLaid ==
    ASSUME NEW o, Takes(o)
    PROVE  /\ CreateData(o) # Thrown
           /\ Laid(CreateData(o), o, [i \in 1 .. SigLength |-> 0])
<1> DEFINE z == [i \in 1 .. SigLength |-> 0]
           A == ToBytes(2, 3)
           T == Flagged(o.target)
           N == Flagged(o.anchor)
           C == ToBytes(CountLength, Len(o.tags))
           L == ToBytes(CountLength, Len(TagBytes(o.tags)))
           G == TagBytes(o.tags)
           x1 == A \o z
           x2 == x1 \o Owner
           x3 == x2 \o T
           x4 == x3 \o N
           x5 == x4 \o C
           x6 == x5 \o L
           x7 == x6 \o G
           x8 == x7 \o o.data
<1>0. \A s, t : (s \in Seq(Bytes) /\ t \in Seq(Bytes)) =>
                  s \o t \in Seq(Bytes) /\ Len(s \o t) = Len(s) + Len(t)
  OBVIOUS
<1>1. A \in Seq(Bytes) /\ Len(A) = 2
  BY ToBytesAre
<1>2. z \in Seq(Bytes) /\ Len(z) = SigLength
  <2>1. SigLength \in Nat /\ 0 \in Bytes
    BY CodecAssumption, ItemAssumption DEF Bytes, ByteBase
  <2>2. z \in [1 .. SigLength -> Bytes]
    BY <2>1
  <2>3. QED BY <2>1, <2>2
<1>3. /\ T \in Seq(Bytes) /\ N \in Seq(Bytes) /\ G \in Seq(Bytes) /\ o.data \in Seq(Bytes)
      /\ CountLength \in Nat /\ Len(o.tags) \in Nat /\ Len(G) \in Nat /\ SigLength \in Nat
  BY Places
<1>4. /\ C \in Seq(Bytes) /\ Len(C) = CountLength
      /\ L \in Seq(Bytes) /\ Len(L) = CountLength
  BY <1>3, ToBytesAre
<1>5. Owner \in Seq(Bytes)
  BY ItemAssumption
<1>6. CreateData(o) = x8
  BY DEF CreateData, Takes
<1>7. /\ TargetStart = 2 + SigLength + Len(Owner)
      /\ AnchorOf(o) = TargetStart + Len(T)
      /\ CountOf(o) = AnchorOf(o) + Len(N)
      /\ TagsOf(o) = CountOf(o) + CountLength + CountLength
      /\ DataOf(o) = TagsOf(o) + Len(G)
  BY DEF TargetStart, AnchorOf, CountOf, TagsOf, DataOf
<1> DEFINE d == o.data
<1> HIDE DEF z, A, T, N, C, L, G, d
<1>8. x1 \in Seq(Bytes) /\ Len(x1) = 2 + SigLength
  BY <1>0, <1>1, <1>2
<1> HIDE DEF x1
<1>9. x2 \in Seq(Bytes) /\ Len(x2) = TargetStart
  BY <1>0, <1>5, <1>7, <1>8
<1> HIDE DEF x2
<1>10. x3 \in Seq(Bytes) /\ Len(x3) = AnchorOf(o)
  BY <1>0, <1>3, <1>7, <1>9
<1> HIDE DEF x3
<1>11. x4 \in Seq(Bytes) /\ Len(x4) = CountOf(o)
  BY <1>0, <1>3, <1>7, <1>10
<1> HIDE DEF x4
<1>12. x5 \in Seq(Bytes) /\ Len(x5) = CountOf(o) + CountLength
  BY <1>0, <1>4, <1>11
<1> HIDE DEF x5
<1>13. x6 \in Seq(Bytes) /\ Len(x6) = TagsOf(o)
  <2>1. x6 \in Seq(Bytes) /\ Len(x6) = Len(x5) + Len(L)
    BY <1>0, <1>4, <1>12
  <2>2. QED BY <1>4, <1>7, <1>12, <2>1
<1> HIDE DEF x6
<1>14. x7 \in Seq(Bytes) /\ Len(x7) = DataOf(o)
  BY <1>0, <1>3, <1>7, <1>13
<1> HIDE DEF x7
<1>15. x8 = x7 \o d /\ d \in Seq(Bytes)
  BY <1>3 DEF d
<1> HIDE DEF x8
<1>16. x8 \in Seq(Bytes) /\ Len(x8) = DataOf(o) + Len(d)
  BY <1>0, <1>14, <1>15
<1>17. Holds(x8, 0, x8)
  BY <1>16, SelfHolds
<1>18. \A s, t : (s \in Seq(Bytes) /\ t \in Seq(Bytes) /\ Holds(x8, 0, s \o t)) =>
                   Holds(x8, 0, s) /\ Holds(x8, Len(s), t)
  <2> SUFFICES ASSUME NEW s \in Seq(Bytes), NEW t \in Seq(Bytes), Holds(x8, 0, s \o t)
               PROVE  Holds(x8, 0, s) /\ Holds(x8, Len(s), t)
    OBVIOUS
  <2>1. Holds(x8, 0, s) /\ Holds(x8, 0 + Len(s), t)
    BY <1>16, HoldsParts
  <2>2. 0 + Len(s) = Len(s)
    OBVIOUS
  <2>3. QED BY <2>1, <2>2
<1>19. Holds(x8, 0, x7) /\ Holds(x8, DataOf(o), d)
  BY <1>14, <1>15, <1>17, <1>18
<1>20. Holds(x8, 0, x6) /\ Holds(x8, TagsOf(o), G)
  BY <1>3, <1>13, <1>18, <1>19 DEF x7
<1>21. Holds(x8, 0, x5) /\ Holds(x8, CountOf(o) + CountLength, L)
  BY <1>4, <1>12, <1>18, <1>20 DEF x6
<1>22. Holds(x8, 0, x4) /\ Holds(x8, CountOf(o), C)
  BY <1>4, <1>11, <1>18, <1>21 DEF x5
<1>23. Holds(x8, 0, x3) /\ Holds(x8, AnchorOf(o), N)
  BY <1>3, <1>10, <1>18, <1>22 DEF x4
<1>24. Holds(x8, 0, x2) /\ Holds(x8, TargetStart, T)
  BY <1>3, <1>9, <1>18, <1>23 DEF x3
<1>25. Holds(x8, 0, x1) /\ Holds(x8, 2 + SigLength, Owner)
  BY <1>5, <1>8, <1>18, <1>24 DEF x2
<1>26. Holds(x8, 2, z)
  BY <1>1, <1>2, <1>18, <1>25 DEF x1
<1>27. Laid(x8, o, z)
  BY <1>2, <1>16, <1>19, <1>20, <1>21, <1>22, <1>23, <1>24, <1>25, <1>26
     DEF Laid, T, N, C, L, G, d
<1>28. x8 # Thrown
  BY <1>16, CodecAssumption
<1>29. QED BY <1>6, <1>27, <1>28 DEF z

\* and throws for the rest.
LEMMA CreateThrows ==
    ASSUME NEW o \in Options, ~Takes(o)
    PROVE  CreateData(o) = Thrown
BY DEF Takes, CreateData

\* sign replaces the signature and nothing else.
LEMMA SignIsLaid ==
    ASSUME NEW o, Takes(o), NEW b, NEW z, Laid(b, o, z),
           NEW s \in Seq(Bytes), Len(s) = SigLength
    PROVE  Laid(Put(b, 2, s), o, s) /\ Len(Put(b, 2, s)) = Len(b)
<1> DEFINE c == Put(b, 2, s)
<1>1. b \in Seq(Bytes) /\ Len(b) = DataOf(o) + Len(o.data) /\ Len(b) \in Nat
  BY DEF Laid
<1>2. SigLength \in Nat /\ 2 + SigLength <= Len(b)
  <2>1. /\ SigLength \in Nat /\ 2 + SigLength \in Nat /\ DataOf(o) \in Nat
        /\ Len(o.data) \in Nat /\ 2 + SigLength <= DataOf(o)
    BY Places, Zenon
  <2>2. DataOf(o) <= Len(b)
    BY <1>1, <2>1
  <2>3. QED BY <1>1, <2>1, <2>2
<1>3. DOMAIN b = 1 .. Len(b) /\ DOMAIN s = 1 .. SigLength
      /\ (\A i \in 1 .. Len(b) : b[i] \in Bytes) /\ (\A i \in 1 .. SigLength : s[i] \in Bytes)
  BY <1>1
<1>4. c = [i \in 1 .. Len(b) |-> IF i - 2 \in 1 .. SigLength THEN s[i - 2] ELSE b[i]]
  BY <1>3 DEF Put
<1> HIDE DEF c
<1>5. c \in Seq(Bytes) /\ Len(c) = Len(b)
  <2>1. c \in [1 .. Len(b) -> Bytes]
    BY <1>3, <1>4
  <2>2. QED BY <1>1, <2>1, FunctionIsSeq, Zenon
<1>6. Holds(c, 2, s)
  <2>1. ASSUME NEW i \in DOMAIN s PROVE 2 + i <= Len(c) /\ c[2 + i] = s[i]
    <3>1. i \in 1 .. SigLength /\ 2 + i \in 1 .. Len(b) /\ (2 + i) - 2 = i
      BY <1>1, <1>2, <1>3
    <3>2. QED BY <1>4, <1>5, <3>1
  <2>2. QED BY <2>1 DEF Holds
<1>7. ASSUME NEW p \in Nat, NEW t, t \in Seq(Bytes), 2 + SigLength <= p, Holds(b, p, t)
      PROVE  Holds(c, p, t)
  <2>1. ASSUME NEW i \in DOMAIN t PROVE p + i <= Len(c) /\ c[p + i] = t[i]
    <3>1. i \in Nat /\ i > 0
      BY <1>7
    <3>2. p + i <= Len(b) /\ b[p + i] = t[i]
      BY <1>7 DEF Holds
    <3>3. p + i \in 1 .. Len(b) /\ ~((p + i) - 2 \in 1 .. SigLength)
      BY <1>1, <1>2, <1>7, <3>1, <3>2
    <3>4. c[p + i] = b[p + i]
      BY <1>4, <3>3
    <3>5. QED BY <1>5, <3>2, <3>4
  <2>2. QED BY <2>1 DEF Holds
<1>8. /\ Owner \in Seq(Bytes) /\ Flagged(o.target) \in Seq(Bytes) /\ Flagged(o.anchor) \in Seq(Bytes)
      /\ TagBytes(o.tags) \in Seq(Bytes) /\ o.data \in Seq(Bytes)
      /\ ToBytes(CountLength, Len(o.tags)) \in Seq(Bytes)
      /\ ToBytes(CountLength, Len(TagBytes(o.tags))) \in Seq(Bytes)
  BY Places, ItemAssumption, ToBytesAre
<1>9. /\ TargetStart \in Nat /\ AnchorOf(o) \in Nat /\ CountOf(o) \in Nat /\ TagsOf(o) \in Nat
      /\ DataOf(o) \in Nat /\ CountOf(o) + CountLength \in Nat /\ 2 + SigLength \in Nat
      /\ 2 + SigLength <= TargetStart /\ 2 + SigLength <= AnchorOf(o)
      /\ 2 + SigLength <= CountOf(o) /\ 2 + SigLength <= CountOf(o) + CountLength
      /\ 2 + SigLength <= TagsOf(o) /\ 2 + SigLength <= DataOf(o) /\ 2 + SigLength <= 2 + SigLength
  <2>1. 2 + SigLength \in Nat
    BY Places, Zenon
  <2>2. 2 + SigLength <= 2 + SigLength
    BY <2>1
  <2>3. QED BY <2>2, Places, Zenon
<1>10. Holds(c, 2 + SigLength, Owner)
  BY <1>7, <1>8, <1>9 DEF Laid
<1>11. Holds(c, TargetStart, Flagged(o.target))
  BY <1>7, <1>8, <1>9 DEF Laid
<1>12. Holds(c, AnchorOf(o), Flagged(o.anchor))
  BY <1>7, <1>8, <1>9 DEF Laid
<1>13. Holds(c, CountOf(o), ToBytes(CountLength, Len(o.tags)))
  BY <1>7, <1>8, <1>9 DEF Laid
<1>14. Holds(c, CountOf(o) + CountLength, ToBytes(CountLength, Len(TagBytes(o.tags))))
  BY <1>7, <1>8, <1>9 DEF Laid
<1>15. Holds(c, TagsOf(o), TagBytes(o.tags)) /\ Holds(c, DataOf(o), o.data)
  BY <1>7, <1>8, <1>9 DEF Laid
<1>16. Laid(c, o, s)
  BY <1>1, <1>5, <1>6, <1>10, <1>11, <1>12, <1>13, <1>14, <1>15 DEF Laid
<1>17. QED BY <1>5, <1>16 DEF c

-----------------------------------------------------------------------------
(* Bundles (Bundle.ts)                                                     *)

\* The first parts of seqs, joined.
Joined(seqs, f) ==
    /\ f \in [0 .. Len(seqs) -> Seq(Bytes)]
    /\ f[0] = << >>
    /\ \A k \in 1 .. Len(seqs) : f[k] = f[k - 1] \o seqs[k]

\* FlattenSeq joins.
LEMMA FlattenIs ==
    ASSUME NEW seqs \in Seq(Seq(Bytes))
    PROVE  \E f : Joined(seqs, f) /\ FlattenSeq(seqs) = f[Len(seqs)]
<1> DEFINE n == Len(seqs)
           step == [k \in 1 .. n |-> [x \in Seq(Bytes) |-> x \o seqs[k]]]
           flatten == CHOOSE f : f = [i \in 1 .. n |->
                        IF i = 1 THEN seqs[i] ELSE f[i - 1] \o seqs[i]]
<1>1. n \in Nat /\ \A k \in 1 .. n : seqs[k] \in Seq(Bytes)
  OBVIOUS
<1>2. << >> \in Seq(Bytes) /\ \A x \in Seq(Bytes) : << >> \o x = x
  OBVIOUS
<1>3. \A k \in 1 .. n, x \in Seq(Bytes) : x \o seqs[k] \in Seq(Bytes)
  BY <1>1
<1>4. /\ step \in [1 .. n -> [Seq(Bytes) -> Seq(Bytes)]]
      /\ \A k \in 1 .. n, x \in Seq(Bytes) : step[k][x] = x \o seqs[k]
  BY <1>3
<1>5. FlattenSeq(seqs) = IF n = 0 THEN seqs ELSE flatten[n]
  BY DEF FlattenSeq
<1> HIDE DEF step
<1>6. n = 0 => seqs = << >>
  OBVIOUS
<1> HIDE DEF n
<1>7. PICK f : Turns(Seq(Bytes), << >>, step, n, f)
  BY <1>1, <1>2, <1>4, TurnsUpto
<1>8. /\ f \in [0 .. n -> Seq(Bytes)] /\ f[0] = << >>
      /\ \A k \in 1 .. n : f[k] = f[k - 1] \o seqs[k]
  <2>1. \A k \in 1 .. n : k - 1 \in 0 .. n
    BY <1>1
  <2>2. f \in [0 .. n -> Seq(Bytes)] /\ f[0] = << >>
    BY <1>7 DEF Turns
  <2>3. \A k \in 1 .. n : f[k] = step[k][f[k - 1]] /\ f[k - 1] \in Seq(Bytes)
    BY <1>7, <2>1, <2>2 DEF Turns
  <2>4. QED BY <1>4, <2>2, <2>3
<1>9. CASE n = 0
  BY <1>5, <1>6, <1>8, <1>9 DEF Joined, n
<1>10. CASE n > 0
  <2> DEFINE g == [i \in 1 .. n |-> f[i]]
  <2>1. \A i \in 1 .. n : g[i] = IF i = 1 THEN seqs[i] ELSE g[i - 1] \o seqs[i]
    <3> TAKE i \in 1 .. n
    <3>1. CASE i = 1
      <4>1. 1 \in 1 .. n /\ 1 - 1 = 0
        BY <1>1, <1>10
      <4>2. f[1] = f[0] \o seqs[1] /\ seqs[1] \in Seq(Bytes)
        BY <1>1, <1>8, <4>1
      <4>3. f[1] = seqs[1]
        BY <1>2, <1>8, <4>2
      <4>4. QED BY <3>1, <4>3
    <3>2. CASE i # 1
      <4>1. i - 1 \in 1 .. n
        BY <1>1, <3>2
      <4>2. g[i - 1] = f[i - 1] /\ g[i] = f[i]
        BY <4>1
      <4>3. f[i] = f[i - 1] \o seqs[i]
        BY <1>8
      <4> HIDE DEF g
      <4>4. QED BY <3>2, <4>2, <4>3
    <3>3. QED BY <3>1, <3>2
  <2>2. g = [i \in 1 .. n |-> IF i = 1 THEN seqs[i] ELSE g[i - 1] \o seqs[i]]
    BY <2>1
  <2>3. flatten = [i \in 1 .. n |-> IF i = 1 THEN seqs[i] ELSE flatten[i - 1] \o seqs[i]]
    BY <2>2
  <2> HIDE DEF flatten, g
  <2>4. /\ \A i \in 1 .. n : flatten[i] = IF i = 1 THEN seqs[i] ELSE flatten[i - 1] \o seqs[i]
    BY <2>3
  <2> DEFINE S == {k \in Nat : k + 1 <= n => flatten[k + 1] = g[k + 1]}
  <2>5. 0 \in S
    <3>1. 1 \in 1 .. n /\ 0 + 1 = 1
      BY <1>1, <1>10
    <3>2. flatten[1] = seqs[1] /\ g[1] = seqs[1]
      BY <2>1, <2>4, <3>1
    <3>3. QED BY <3>1, <3>2
  <2>6. ASSUME NEW k \in Nat, k \in S PROVE k + 1 \in S
    <3>1. CASE k + 1 + 1 <= n
      <4>1. /\ k + 1 + 1 \in 1 .. n /\ (k + 1 + 1) - 1 = k + 1 /\ k + 1 + 1 # 1 /\ k + 1 <= n
        BY <1>1, <3>1
      <4>2. flatten[k + 1] = g[k + 1]
        BY <2>6, <4>1
      <4>3. /\ flatten[k + 1 + 1] = flatten[k + 1] \o seqs[k + 1 + 1]
            /\ g[k + 1 + 1] = g[k + 1] \o seqs[k + 1 + 1]
        BY <2>1, <2>4, <4>1
      <4>4. flatten[k + 1 + 1] = g[k + 1 + 1]
        BY <4>2, <4>3
      <4>5. QED BY <4>4
    <3>2. QED BY <3>1
  <2>7. n - 1 \in Nat /\ (n - 1) + 1 = n
    BY <1>1, <1>10
  <2>8. n - 1 \in S
    BY <2>5, <2>6, <2>7, Induction
  <2>9. flatten[n] = g[n]
    BY <1>1, <2>7, <2>8
  <2>10. g[n] = f[n]
    BY <1>1, <1>10 DEF g
  <2>11. Joined(seqs, f)
    BY <1>8 DEF Joined, n
  <2>12. QED BY <1>5, <1>10, <2>9, <2>10, <2>11 DEF n
<1>11. QED BY <1>1, <1>9, <1>10

\* Each part is where the lengths before it end.
LEMMA JoinedHolds ==
    ASSUME NEW seqs \in Seq(Seq(Bytes)), NEW f, Joined(seqs, f)
    PROVE  /\ f[Len(seqs)] \in Seq(Bytes)
           /\ \A k \in 0 .. Len(seqs) : Len(f[k]) \in Nat /\ Len(f[k]) <= Len(f[Len(seqs)])
           /\ \A k \in 1 .. Len(seqs) :
                /\ Len(f[k]) = Len(f[k - 1]) + Len(seqs[k])
                /\ Holds(f[Len(seqs)], Len(f[k - 1]), seqs[k])
<1> DEFINE n == Len(seqs)
           b == f[n]
<1>1. n \in Nat /\ \A k \in 1 .. n : seqs[k] \in Seq(Bytes) /\ k - 1 \in 0 .. n
  OBVIOUS
<1>2. \A k \in 0 .. n : f[k] \in Seq(Bytes)
  BY DEF Joined
<1>3. \A k \in 1 .. n : f[k] = f[k - 1] \o seqs[k]
  BY DEF Joined
<1>4. b \in Seq(Bytes)
  BY <1>1, <1>2
<1> HIDE DEF n, b
<1> DEFINE S == {j \in Nat : j <= n => Holds(b, 0, f[n - j])}
<1>5. 0 \in S
  <2>1. n - 0 = n
    BY <1>1
  <2>2. Holds(b, 0, f[n])
    BY <1>4, SelfHolds DEF b
  <2>3. QED BY <2>1, <2>2
<1>6. ASSUME NEW j \in Nat, j \in S PROVE j + 1 \in S
  <2>1. CASE j + 1 <= n
    <3>1. n - j \in 1 .. n /\ n - j \in 0 .. n /\ (n - j) - 1 = n - (j + 1) /\ n - (j + 1) \in 0 .. n /\ j <= n
      BY <1>1, <2>1
    <3>2. Holds(b, 0, f[n - j]) /\ f[n - j] = f[n - (j + 1)] \o seqs[n - j]
      BY <1>3, <1>6, <3>1
    <3>3. f[n - (j + 1)] \in Seq(Bytes) /\ seqs[n - j] \in Seq(Bytes)
      BY <1>1, <1>2, <3>1
    <3>4. Holds(b, 0, f[n - (j + 1)])
      BY <1>4, <3>2, <3>3, HoldsParts
    <3>5. QED BY <3>4
  <2>2. QED BY <2>1
<1>7. \A k \in 0 .. n : Holds(b, 0, f[k])
  <2> TAKE k \in 0 .. n
  <2>1. n - k \in Nat /\ n - k <= n /\ n - (n - k) = k
    BY <1>1
  <2>2. n - k \in S
    BY <1>5, <1>6, <2>1, Induction
  <2>3. QED BY <2>1, <2>2
<1>8. ASSUME NEW k \in 0 .. n PROVE Len(f[k]) \in Nat /\ Len(f[k]) <= Len(b)
  <2>1. f[k] \in Seq(Bytes) /\ Holds(b, 0, f[k])
    BY <1>2, <1>7
  <2>2. 0 \in Nat /\ 0 <= Len(b)
    BY <1>4
  <2>3. 0 + Len(f[k]) <= Len(b)
    BY <1>4, <2>1, <2>2, SliceHolds
  <2>4. QED BY <2>1, <2>3
<1>9. ASSUME NEW k \in 1 .. n
      PROVE  Len(f[k]) = Len(f[k - 1]) + Len(seqs[k]) /\ Holds(b, Len(f[k - 1]), seqs[k])
  <2>1. k \in 0 .. n /\ k - 1 \in 0 .. n /\ f[k - 1] \in Seq(Bytes) /\ seqs[k] \in Seq(Bytes)
    BY <1>1, <1>2
  <2>2. f[k] = f[k - 1] \o seqs[k] /\ Holds(b, 0, f[k])
    BY <1>3, <1>7, <2>1
  <2>3. Holds(b, 0 + Len(f[k - 1]), seqs[k])
    BY <1>4, <2>1, <2>2, HoldsParts
  <2>4. QED BY <2>1, <2>2, <2>3
<1>10. QED BY <1>4, <1>8, <1>9 DEF b, n

\* Headers of equal lengths.
LEMMA HeadersHold ==
    ASSUME NEW seqs \in Seq(Seq(Bytes)), NEW f, Joined(seqs, f), NEW w \in Nat,
           \A k \in 1 .. Len(seqs) : Len(seqs[k]) = w
    PROVE  \A k \in 0 .. Len(seqs) : Len(f[k]) = k * w
<1> DEFINE n == Len(seqs)
           S == {k \in Nat : k <= n => Len(f[k]) = k * w}
<1>1. n \in Nat
  OBVIOUS
<1>2. 0 \in S
  <2>1. f[0] = << >> /\ Len(<< >>) = 0 /\ 0 * w = 0
    BY DEF Joined
  <2>2. QED BY <2>1
<1>3. ASSUME NEW k \in Nat, k \in S PROVE k + 1 \in S
  <2>1. CASE k + 1 <= n
    <3>1. k + 1 \in 1 .. n /\ (k + 1) - 1 = k /\ k <= n
      BY <1>1, <2>1
    <3>2. Len(f[k + 1]) = Len(f[k]) + Len(seqs[k + 1])
      BY <3>1, JoinedHolds
    <3>3. Len(f[k]) = k * w /\ Len(seqs[k + 1]) = w
      BY <1>3, <3>1
    <3>4. (k + 1) * w = k * w + w
      OBVIOUS
    <3>5. QED BY <3>2, <3>3, <3>4
  <2>2. QED BY <2>1
<1>4. Nat \subseteq S
  BY <1>2, <1>3, Induction
<1>5. QED BY <1>1, <1>4

\* Bundles of items with IDs of the right length, and sizes that fit, are read back.
LEMMA BundleReads ==
    ASSUME NEW raws \in Seq(Seq(Bytes)), Fits(SizeLength, Len(raws)),
           \A i \in 1 .. Len(raws) :
             /\ Fits(SizeLength, Len(raws[i]))
             /\ Id(RawSignature(raws[i])) \in Seq(Bytes)
             /\ Len(Id(RawSignature(raws[i]))) = IdLength
    PROVE  /\ BundleOf(raws) \in Seq(Bytes)
           /\ ItemCount(BundleOf(raws)) = Len(raws)
           /\ \A i \in 1 .. Len(raws) :
                /\ ItemByIndex(BundleOf(raws), i) = raws[i]
                /\ IdBy(BundleOf(raws), i) = Id(RawSignature(raws[i]))
<1> DEFINE n == Len(raws)
           w == SizeLength + IdLength
           size(i) == ToBytes(SizeLength, Len(raws[i]))
           id(i) == Id(RawSignature(raws[i]))
           heads == [i \in DOMAIN raws |-> size(i) \o id(i)]
           A == ToBytes(SizeLength, n)
           H == FlattenSeq(heads)
           R == FlattenSeq(raws)
           b == BundleOf(raws)
<1>1. n \in Nat /\ DOMAIN raws = 1 .. n /\ SizeLength \in Nat /\ IdLength \in Nat /\ w \in Nat
  BY ItemAssumption
<1>2. \A i \in 1 .. n : raws[i] \in Seq(Bytes) /\ Len(raws[i]) \in Nat
  OBVIOUS
<1>3. \A i \in 1 .. n : size(i) \in Seq(Bytes) /\ Len(size(i)) = SizeLength /\ ToLong(size(i)) = Len(raws[i])
  BY <1>1, <1>2, ToBytesAre
<1>4. A \in Seq(Bytes) /\ Len(A) = SizeLength /\ ToLong(A) = n
  BY <1>1, ToBytesAre
<1>0. \A s, t : (s \in Seq(Bytes) /\ t \in Seq(Bytes)) =>
                  s \o t \in Seq(Bytes) /\ Len(s \o t) = Len(s) + Len(t)
  OBVIOUS
<1>5. b = A \o H \o R
  BY DEF BundleOf
<1>6. \A i \in 1 .. n : id(i) \in Seq(Bytes) /\ Len(id(i)) = IdLength
  OBVIOUS
<1>7. heads = [i \in 1 .. n |-> size(i) \o id(i)]
  BY <1>1
<1> HIDE DEF size, id, A, H, R, b, heads
<1>8. \A i \in 1 .. n : size(i) \o id(i) \in Seq(Bytes) /\ Len(size(i) \o id(i)) = w
  BY <1>3, <1>6
<1>9. heads \in Seq(Seq(Bytes)) /\ Len(heads) = n /\ \A i \in 1 .. n : heads[i] = size(i) \o id(i)
  <2>1. heads \in [1 .. n -> Seq(Bytes)]
    BY <1>7, <1>8
  <2> HIDE DEF n
  <2>2. heads \in Seq(Seq(Bytes)) /\ Len(heads) = n
    BY <1>1, <2>1
  <2>3. QED BY <1>7, <2>2
<1>10. PICK h : Joined(heads, h) /\ H = h[Len(heads)]
  BY <1>9, FlattenIs DEF H
<1>11. PICK r : Joined(raws, r) /\ R = r[n]
  BY FlattenIs DEF R
<1> HIDE DEF w
<1>12. \A k \in 0 .. n : Len(h[k]) = k * w
  <2>1. \A k \in 1 .. Len(heads) : Len(heads[k]) = w
    BY <1>8, <1>9
  <2>2. \A k \in 0 .. Len(heads) : Len(h[k]) = k * w
    BY <1>1, <1>9, <1>10, <2>1, HeadersHold
  <2>3. QED BY <1>9, <2>2
<1>13. /\ H \in Seq(Bytes)
       /\ \A k \in 1 .. n : Holds(H, Len(h[k - 1]), heads[k])
  BY <1>9, <1>10, JoinedHolds
<1>14. /\ R \in Seq(Bytes)
       /\ \A k \in 0 .. n : Len(r[k]) \in Nat /\ Len(r[k]) <= Len(R)
       /\ \A k \in 1 .. n : Len(r[k]) = Len(r[k - 1]) + Len(raws[k]) /\ Holds(R, Len(r[k - 1]), raws[k])
  BY <1>11, JoinedHolds
<1>15. Len(H) = n * w /\ n * w \in Nat /\ Len(R) \in Nat
  BY <1>1, <1>9, <1>10, <1>12, <1>14
<1> HIDE DEF n
<1>16. A \o H \in Seq(Bytes) /\ Len(A \o H) = SizeLength + n * w
  <2>1. A \o H \in Seq(Bytes) /\ Len(A \o H) = Len(A) + Len(H)
    BY <1>0, <1>4, <1>13
  <2>2. QED BY <1>4, <1>15, <2>1
<1>17. b \in Seq(Bytes) /\ Len(b) = SizeLength + n * w + Len(R)
  BY <1>5, <1>14, <1>16
<1>18. Holds(b, 0, A) /\ Holds(b, SizeLength, H) /\ Holds(b, SizeLength + n * w, R)
  <2>1. Holds(b, 0, A \o H \o R)
    BY <1>5, <1>17, SelfHolds
  <2>2. Holds(b, 0, A \o H) /\ Holds(b, 0 + Len(A \o H), R)
    BY <1>14, <1>16, <1>17, <2>1, HoldsParts
  <2>3. Holds(b, 0, A) /\ Holds(b, 0 + Len(A), H)
    BY <1>4, <1>13, <1>17, <2>2, HoldsParts
  <2>4. 0 + Len(A) = SizeLength /\ 0 + Len(A \o H) = SizeLength + n * w
    BY <1>1, <1>4, <1>15, <1>16
  <2>5. QED BY <2>2, <2>3, <2>4
<1>19. ItemCount(b) = n
  <2>1. 0 <= Len(b) /\ 0 + Len(A) = SizeLength
    BY <1>1, <1>4, <1>17
  <2>2. Slice(b, 0, 0 + Len(A)) = A
    BY <1>4, <1>17, <1>18, <2>1, SliceHolds
  <2>3. QED BY <1>4, <2>1, <2>2 DEF ItemCount
<1>20. BundleStart(b) = SizeLength + n * w
  <2>1. (n + 1) - 1 = n
    BY <1>1
  <2>2. QED BY <1>19, <2>1 DEF BundleStart, HeaderAt, w
<1>21. ASSUME NEW i \in 1 .. n
       PROVE  SizeOf(b, i) = Len(raws[i]) /\ IdBy(b, i) = id(i)
  <2> DEFINE p == HeaderAt(i)
             q == (i - 1) * w
             s == size(i)
             d == id(i)
  <2>1. i - 1 \in Nat /\ i - 1 \in 0 .. n /\ i \in Nat
    BY <1>1
  <2>2. q \in Nat /\ Len(h[i - 1]) = q
    BY <1>1, <1>12, <2>1
  <2>3. Holds(H, q, s \o d)
    BY <1>9, <1>13, <2>2
  <2>4. p = SizeLength + q
    BY DEF HeaderAt, w
  <2>5. s \in Seq(Bytes) /\ Len(s) = SizeLength /\ ToLong(s) = Len(raws[i])
        /\ d \in Seq(Bytes) /\ Len(d) = IdLength /\ s \o d \in Seq(Bytes)
    BY <1>3, <1>6, <1>8
  <2> HIDE DEF p, q, s, d
  <2>6. Holds(b, p, s \o d)
    BY <1>1, <1>13, <1>17, <1>18, <2>2, <2>3, <2>4, <2>5, HoldsWithin
  <2>7. p \in Nat
    BY <1>1, <2>2, <2>4
  <2>8. Holds(b, p, s) /\ Holds(b, p + SizeLength, d)
    BY <1>17, <2>5, <2>6, <2>7, HoldsParts
  <2>9. p + SizeLength <= Len(b) /\ p <= Len(b) /\ p + SizeLength \in Nat
    <3>1. q + w <= n * w
      <4>1. (i - 1) * w + w = i * w /\ i * w <= n * w
        BY <1>1, <2>1
      <4>2. QED BY <4>1 DEF q
    <3>2. SizeLength <= w /\ w \in Nat
      BY <1>1 DEF w
    <3>3. QED BY <1>1, <1>15, <1>17, <2>2, <2>4, <3>1, <3>2
  <2>10. Slice(b, p, p + SizeLength) = s
    BY <1>17, <2>5, <2>7, <2>8, <2>9, SliceHolds
  <2>11. Slice(b, p + SizeLength, p + SizeLength + IdLength) = d
    BY <1>17, <2>5, <2>8, <2>9, SliceHolds
  <2>12. QED BY <2>5, <2>10, <2>11 DEF SizeOf, IdBy, p, d
<1>22. ASSUME NEW i \in 1 .. n PROVE Offset(b, i) = Len(r[i - 1])
  <2> DEFINE m == i - 1
             offset == CHOOSE f : f = [k \in 0 .. m |-> IF k = 0 THEN 0 ELSE f[k - 1] + SizeOf(b, k)]
             g == [k \in 0 .. m |-> Len(r[k])]
  <2>1. m \in Nat /\ \A k \in 1 .. m : k \in 1 .. n /\ k - 1 \in 0 .. m
    BY <1>1
  <2>2. Offset(b, i) = offset[m]
    BY DEF Offset
  <2> HIDE DEF m
  <2>3. g = [k \in 0 .. m |-> IF k = 0 THEN 0 ELSE g[k - 1] + SizeOf(b, k)]
    <3>1. ASSUME NEW k \in 0 .. m PROVE Len(r[k]) = IF k = 0 THEN 0 ELSE g[k - 1] + SizeOf(b, k)
      <4>1. CASE k = 0
        BY <1>11, <4>1 DEF Joined
      <4>2. CASE k # 0
        <5>1. k \in 1 .. m /\ k \in 1 .. n /\ k - 1 \in 0 .. m
          BY <2>1, <4>2
        <5>2. g[k - 1] = Len(r[k - 1])
          BY <5>1
        <5>3. Len(r[k]) = Len(r[k - 1]) + Len(raws[k]) /\ SizeOf(b, k) = Len(raws[k])
          BY <1>14, <1>21, <5>1
        <5>4. QED BY <4>2, <5>2, <5>3
      <4>3. QED BY <4>1, <4>2
    <3>2. QED BY <3>1
  <2>4. offset = [k \in 0 .. m |-> IF k = 0 THEN 0 ELSE offset[k - 1] + SizeOf(b, k)]
    BY <2>3
  <2>5. \A k \in 0 .. m : g[k] = Len(r[k])
    OBVIOUS
  <2> HIDE DEF offset, g
  <2> DEFINE S == {k \in Nat : k <= m => offset[k] = g[k]}
  <2>6. 0 \in S
    <3>1. offset[0] = 0 /\ g[0] = 0
      BY <2>1, <2>3, <2>4
    <3>2. QED BY <3>1
  <2>7. ASSUME NEW k \in Nat, k \in S PROVE k + 1 \in S
    <3>1. CASE k + 1 <= m
      <4>1. k + 1 \in 0 .. m /\ k + 1 # 0 /\ (k + 1) - 1 = k /\ k <= m
        BY <2>1, <3>1
      <4>2. offset[k] = g[k]
        BY <2>7, <4>1
      <4>3. offset[k + 1] = offset[k] + SizeOf(b, k + 1) /\ g[k + 1] = g[k] + SizeOf(b, k + 1)
        BY <2>3, <2>4, <4>1
      <4>4. QED BY <4>2, <4>3
    <3>2. QED BY <3>1
  <2>8. m \in S
    BY <2>1, <2>6, <2>7, Induction
  <2>9. QED BY <2>1, <2>2, <2>5, <2>8 DEF m
<1>23. ASSUME NEW i \in 1 .. n PROVE ItemByIndex(b, i) = raws[i]
  <2> DEFINE p == SizeLength + n * w
             q == Len(r[i - 1])
             x == raws[i]
  <2>1. i - 1 \in 0 .. n
    BY <1>1
  <2>2. p \in Nat /\ q \in Nat /\ q <= Len(R) /\ x \in Seq(Bytes) /\ Holds(R, q, x)
    BY <1>1, <1>2, <1>14, <1>15, <2>1
  <2>3. BundleStart(b) = p /\ Offset(b, i) = q /\ SizeOf(b, i) = Len(x) /\ Holds(b, p, R)
        /\ Len(b) = p + Len(R)
    BY <1>17, <1>18, <1>20, <1>21, <1>22
  <2> HIDE DEF p, q, x
  <2>4. Holds(b, p + q, x)
    BY <1>14, <1>17, <2>2, <2>3, HoldsWithin
  <2>5. p + q \in Nat /\ p + q <= Len(b)
    BY <1>15, <2>2, <2>3
  <2>6. Slice(b, p + q, p + q + Len(x)) = x
    BY <1>17, <2>2, <2>4, <2>5, SliceHolds
  <2>7. QED BY <2>3, <2>6 DEF ItemByIndex, x
<1>24. QED BY <1>17, <1>19, <1>21, <1>23 DEF b, n, id

-----------------------------------------------------------------------------
(* The invariant and the theorems                                          *)

Signed == [opts : Options, raw : Seq(Bytes), data : {Fields(o) : o \in Options}]

\* What is at hand was made of the options at hand.
AtHand ==
    /\ opts = None => raw = << >>
    /\ opts # None => opts \in Options /\ raw = CreateData(opts)
    /\ raw # << >> => Len(items) < MaxItems /\ bundle = << >>

\* Signed items are laid out and their signatures stand for their fields.
ItemsLaid ==
    /\ items \in Seq(Signed) /\ Len(items) <= MaxItems
    /\ \A i \in 1 .. Len(items) :
         /\ Takes(items[i].opts)
         /\ Laid(items[i].raw, items[i].opts, Signature(i))
         /\ items[i].data = Fields(items[i].opts)
         /\ Len(items[i].raw) = Len(CreateData(items[i].opts))

Raws == [i \in DOMAIN items |-> items[i].raw]

ItemsInv == AtHand /\ ItemsLaid /\ (bundle # << >> => bundle = BundleOf(Raws))

\* The initial state,
LEMMA InitItems ==
    Init => ItemsInv
<1> SUFFICES ASSUME Init PROVE ItemsInv
  OBVIOUS
<1>1. opts = None /\ raw = << >> /\ items = << >> /\ bundle = << >>
  BY DEF Init
<1>2. MaxItems \in Nat /\ Len(items) = 0 /\ items \in Seq(Signed)
  BY <1>1, ItemAssumption
<1>3. AtHand
  BY <1>1 DEF AtHand
<1>4. ItemsLaid
  BY <1>2 DEF ItemsLaid
<1>5. QED BY <1>1, <1>3, <1>4 DEF ItemsInv

\* No options are no options.
LEMMA NoneApart == None \notin Options /\ MaxItems \in Nat
BY ItemAssumption

\* and each of the actions: createData,
LEMMA CreateItems ==
    ASSUME ItemsInv, Create
    PROVE  ItemsInv'
<1>1. PICK o \in Options : opts' = o /\ raw' = CreateData(o)
  BY DEF Create
<1>2. items' = items /\ bundle' = bundle /\ bundle = << >> /\ Len(items) < MaxItems
  BY DEF Create
<1>3. o # None
  BY NoneApart
<1>4. AtHand'
  BY <1>1, <1>2, <1>3 DEF AtHand
<1>5. ItemsLaid'
  BY <1>2 DEF ItemsInv, ItemsLaid
<1>6. QED BY <1>2, <1>4, <1>5 DEF ItemsInv

\* its exceptions,
LEMMA RefuseItems ==
    ASSUME ItemsInv, Refuse
    PROVE  ItemsInv'
<1>1. raw' = << >> /\ opts' = None /\ items' = items /\ bundle' = bundle
  BY DEF Refuse
<1>2. AtHand'
  BY <1>1 DEF AtHand
<1>3. ItemsLaid'
  BY <1>1 DEF ItemsInv, ItemsLaid
<1>4. Raws' = Raws
  BY <1>1 DEF Raws
<1>5. QED BY <1>1, <1>2, <1>3, <1>4 DEF ItemsInv

\* sign,
LEMMA SignItems ==
    ASSUME ItemsInv, Sign
    PROVE  ItemsInv'
<1> DEFINE n == Len(items)
           s == Signature(n + 1)
           signed == Put(raw, 2, s)
           x == [opts |-> opts, raw |-> signed, data |-> SignatureData(raw)]
<1>1. /\ raw # << >> /\ raw # Thrown /\ items' = Append(items, x)
      /\ raw' = << >> /\ opts' = None /\ bundle' = bundle
  BY DEF Sign
<1>2. opts \in Options /\ raw = CreateData(opts) /\ n < MaxItems /\ bundle = << >>
  BY <1>1 DEF ItemsInv, AtHand
<1>3. Takes(opts)
  BY <1>1, <1>2, CreateThrows
<1>4. items \in Seq(Signed) /\ n \in Nat /\ MaxItems \in Nat
  BY ItemAssumption DEF ItemsInv, ItemsLaid
<1>5. s \in Seq(Bytes) /\ Len(s) = SigLength
  BY <1>2, <1>4, ItemAssumption
<1>6. Laid(raw, opts, [i \in 1 .. SigLength |-> 0])
  BY <1>2, <1>3, CreateIsLaid
<1>7. Laid(signed, opts, s) /\ Len(signed) = Len(raw)
  BY <1>3, <1>5, <1>6, SignIsLaid
<1>8. SignatureData(raw) = Fields(opts)
  BY <1>3, <1>6, LaidReads
<1>9. x \in Signed
  <2>1. signed \in Seq(Bytes)
    BY <1>7 DEF Laid
  <2> HIDE DEF signed
  <2>2. QED BY <1>2, <1>8, <2>1 DEF Signed
<1>10. x.opts = opts /\ x.raw = signed /\ x.data = Fields(opts)
  BY <1>8
<1> HIDE DEF x
<1>11. /\ items' \in Seq(Signed) /\ Len(items') = n + 1
       /\ \A i \in 1 .. n : items'[i] = items[i]
       /\ items'[n + 1] = x
  BY <1>1, <1>4, <1>9
<1> HIDE DEF signed, s
<1>12. ASSUME NEW i \in 1 .. n + 1
       PROVE  /\ Takes(items'[i].opts)
              /\ Laid(items'[i].raw, items'[i].opts, Signature(i))
              /\ items'[i].data = Fields(items'[i].opts)
              /\ Len(items'[i].raw) = Len(CreateData(items'[i].opts))
  <2>1. CASE i \in 1 .. n
    BY <1>11, <2>1 DEF ItemsInv, ItemsLaid
  <2>2. CASE i = n + 1
    BY <1>2, <1>3, <1>7, <1>10, <1>11, <2>2 DEF s
  <2>3. QED BY <1>4, <2>1, <2>2
<1>13. ItemsLaid'
  <2>1. n + 1 <= MaxItems
    BY <1>2, <1>4
  <2> HIDE DEF n
  <2>2. QED BY <1>11, <1>12, <2>1 DEF ItemsLaid
<1>14. AtHand'
  BY <1>1 DEF AtHand
<1>15. QED BY <1>1, <1>2, <1>13, <1>14 DEF ItemsInv

\* and bundleAndSignData.
LEMMA BundleItems ==
    ASSUME ItemsInv, MakeBundle
    PROVE  ItemsInv'
<1>1. /\ raw = << >> /\ opts' = opts /\ raw' = raw /\ items' = items
      /\ bundle' = BundleOf(Raws)
  BY DEF MakeBundle, Raws
<1>2. AtHand'
  BY <1>1 DEF ItemsInv, AtHand
<1>3. ItemsLaid'
  BY <1>1 DEF ItemsInv, ItemsLaid
<1>4. Raws' = Raws
  BY <1>1 DEF Raws
<1>5. QED BY <1>1, <1>2, <1>3, <1>4 DEF ItemsInv

\* Nothing a receiver could misread: the items are laid out as their readers
\* expect and the bundle is one of them.
THEOREM ItemsInvariant == Spec => []ItemsInv
<1>1. ASSUME ItemsInv, [Next]_vars PROVE ItemsInv'
  <2>1. CASE Create
    BY <1>1, <2>1, CreateItems
  <2>2. CASE Refuse
    BY <1>1, <2>2, RefuseItems
  <2>3. CASE Sign
    BY <1>1, <2>3, SignItems
  <2>4. CASE MakeBundle
    BY <1>1, <2>4, BundleItems
  <2>5. CASE UNCHANGED vars
    <3>1. opts' = opts /\ raw' = raw /\ items' = items /\ bundle' = bundle
      BY <2>5 DEF vars
    <3>2. AtHand' /\ ItemsLaid' /\ Raws' = Raws
      BY <1>1, <3>1 DEF ItemsInv, AtHand, ItemsLaid, Raws
    <3>3. QED BY <1>1, <3>1, <3>2 DEF ItemsInv
  <2>6. QED BY <1>1, <2>1, <2>2, <2>3, <2>4, <2>5 DEF Next
<1>2. QED BY <1>1, InitItems, PTL DEF Spec

\* A bundle of the items, as its reader sees it.
LEMMA RawsAre ==
    ASSUME ItemsInv
    PROVE  /\ Raws \in Seq(Seq(Bytes)) /\ Len(Raws) = Len(items)
           /\ \A i \in 1 .. Len(items) : Raws[i] = items[i].raw
           /\ BundleOf(Raws) \in Seq(Bytes)
           /\ ItemCount(BundleOf(Raws)) = Len(items)
           /\ \A i \in 1 .. Len(items) :
                /\ ItemByIndex(BundleOf(Raws), i) = items[i].raw
                /\ IdBy(BundleOf(Raws), i) = Id(RawSignature(items[i].raw))
<1> DEFINE n == Len(items)
<1>1. items \in Seq(Signed) /\ n \in Nat /\ DOMAIN items = 1 .. n /\ n <= MaxItems /\ MaxItems \in Nat
  BY ItemAssumption DEF ItemsInv, ItemsLaid
<1>2. \A i \in 1 .. n : items[i].raw \in Seq(Bytes)
  BY DEF ItemsInv, ItemsLaid, Laid
<1> HIDE DEF n
<1>3. Raws = [i \in 1 .. n |-> items[i].raw]
  BY <1>1 DEF Raws
<1>4. Raws \in Seq(Seq(Bytes)) /\ Len(Raws) = n /\ \A i \in 1 .. n : Raws[i] = items[i].raw
  <2>1. Raws \in [1 .. n -> Seq(Bytes)]
    BY <1>2, <1>3
  <2>2. Raws \in Seq(Seq(Bytes)) /\ Len(Raws) = n
    BY <1>1, <2>1
  <2>3. QED BY <1>3, <2>2
<1>5. ByteBase \in Nat /\ ByteBase > 1 /\ SizeLength \in Nat
  BY CodecAssumption, ItemAssumption DEF ByteBase
<1>6. Fits(SizeLength, n)
  <2>1. Rest(ByteBase, MaxItems, SizeLength) = 0
    BY ItemAssumption DEF Fits
  <2>2. Rest(ByteBase, n, SizeLength) <= Rest(ByteBase, MaxItems, SizeLength)
    BY <1>1, <1>5, RestGrows
  <2>3. Rest(ByteBase, n, SizeLength) \in Nat
    BY <1>1, <1>5, RestNat
  <2>4. QED BY <2>1, <2>2, <2>3 DEF Fits
<1>7. ASSUME NEW i \in 1 .. n
      PROVE  /\ Fits(SizeLength, Len(Raws[i]))
             /\ Id(RawSignature(Raws[i])) \in Seq(Bytes)
             /\ Len(Id(RawSignature(Raws[i]))) = IdLength
  <2> DEFINE o == items[i].opts
             b == items[i].raw
  <2>1. Takes(o) /\ Laid(b, o, Signature(i)) /\ Len(b) = Len(CreateData(o)) /\ o \in Options
    BY DEF ItemsInv, ItemsLaid, n, Takes
  <2>2. i \in 1 .. MaxItems
    BY <1>1
  <2>3. Raws[i] = b
    BY <1>4
  <2> HIDE DEF o, b
  <2>4. CreateData(o) # Thrown
    BY <2>1, CreateIsLaid
  <2>5. Fits(SizeLength, Len(b))
    BY <2>1, <2>4, ItemAssumption
  <2>6. RawSignature(b) = Signature(i)
    BY <2>1, LaidReads
  <2>7. Id(Signature(i)) \in Seq(Bytes) /\ Len(Id(Signature(i))) = IdLength
    BY <2>2, ItemAssumption
  <2>8. QED BY <2>3, <2>5, <2>6, <2>7
<1> DEFINE b == BundleOf(Raws)
<1>8. /\ b \in Seq(Bytes) /\ ItemCount(b) = n
      /\ \A i \in 1 .. n : ItemByIndex(b, i) = Raws[i] /\ IdBy(b, i) = Id(RawSignature(Raws[i]))
  BY <1>4, <1>6, <1>7, BundleReads
<1> HIDE DEF b
<1>9. QED BY <1>4, <1>8 DEF b, n

\* DataItem.ts and Bundle.ts: every binary is one, whether options are taken or refused.
THEOREM ItemsTypeCorrect == Spec => []TypeOK
<1>1. ASSUME ItemsInv PROVE TypeOK
  <2>1. opts \in Options \cup {None}
    BY <1>1 DEF ItemsInv, AtHand
  <2>2. raw \in Seq(Bytes) \cup {Thrown}
    <3>1. CASE opts = None
      <4>1. raw = << >>
        BY <1>1, <3>1 DEF ItemsInv, AtHand
      <4>2. QED BY <4>1
    <3>2. CASE opts # None
      <4>1. opts \in Options /\ raw = CreateData(opts)
        BY <1>1, <3>2 DEF ItemsInv, AtHand
      <4>2. CASE Takes(opts)
        BY <4>1, <4>2, CreateIsLaid DEF Laid
      <4>3. CASE ~Takes(opts)
        BY <4>1, <4>3, CreateThrows
      <4>4. QED BY <4>2, <4>3
    <3>3. QED BY <3>1, <3>2
  <2>3. Len(items) <= MaxItems /\ DOMAIN items = 1 .. Len(items)
    BY <1>1 DEF ItemsInv, ItemsLaid
  <2>4. ASSUME NEW i \in DOMAIN items PROVE items[i].opts \in Options /\ items[i].raw \in Seq(Bytes)
    BY <1>1, <2>3 DEF ItemsInv, ItemsLaid, Takes, Laid
  <2>5. bundle \in Seq(Bytes)
    <3>1. CASE bundle = << >>
      BY <3>1
    <3>2. CASE bundle # << >>
      BY <1>1, <3>2, RawsAre DEF ItemsInv
    <3>3. QED BY <3>1, <3>2
  <2>6. QED BY <2>1, <2>2, <2>3, <2>4, <2>5 DEF TypeOK
<1>2. QED BY <1>1, ItemsInvariant, PTL

\* A receiver reads from an item what its sender made it of, and verifies it.
THEOREM ItemsReadBack == Spec => []ItemReadsBack
<1>1. ASSUME ItemsInv PROVE ItemReadsBack
  <2> SUFFICES ASSUME NEW i \in DOMAIN items
               PROVE  LET o == items[i].opts
                          b == items[i].raw
                      IN /\ RawTarget(b) = IF o.target = None THEN << >> ELSE o.target
                         /\ RawAnchor(b) = IF o.anchor = None THEN << >> ELSE o.anchor
                         /\ RawData(b) = o.data
                         /\ Tags(b) = Seen(o.tags)
    BY DEF ItemReadsBack, Seen
  <2> DEFINE o == items[i].opts
             b == items[i].raw
  <2>1. i \in 1 .. Len(items)
    BY <1>1 DEF ItemsInv, ItemsLaid
  <2>2. Takes(o) /\ Laid(b, o, Signature(i))
    BY <1>1, <2>1 DEF ItemsInv, ItemsLaid
  <2> HIDE DEF o, b
  <2>3. SignatureData(b) = Fields(o) /\ Tags(b) = Seen(o.tags)
    BY <2>2, LaidReads
  <2>4. /\ RawTarget(b) = IF o.target = None THEN << >> ELSE o.target
        /\ RawAnchor(b) = IF o.anchor = None THEN << >> ELSE o.anchor
        /\ RawData(b) = o.data
    BY <2>3 DEF SignatureData, Fields
  <2>5. QED BY <2>3, <2>4 DEF o, b
<1>2. QED BY <1>1, ItemsInvariant, PTL

\* DataItem.verify holds of every item that was made, signed in place or full of
\* tags.
THEOREM ItemsVerify == Spec => []ItemVerifies
<1>1. ASSUME ItemsInv PROVE ItemVerifies
  <2> SUFFICES ASSUME NEW i \in DOMAIN items PROVE Verify(items[i].raw, items[i].data)
    BY DEF ItemVerifies
  <2>1. i \in 1 .. Len(items)
    BY <1>1 DEF ItemsInv, ItemsLaid
  <2>2. /\ Takes(items[i].opts) /\ Laid(items[i].raw, items[i].opts, Signature(i))
        /\ items[i].data = Fields(items[i].opts)
    BY <1>1, <2>1 DEF ItemsInv, ItemsLaid
  <2>3. QED BY <2>2, LaidReads
<1>2. QED BY <1>1, ItemsInvariant, PTL

\* createData refuses what is too long, or has a part of a wrong length, and
\* nothing else.
THEOREM RefusalsRight == Spec => []RefusedOnlyIfTooLong
<1>1. ASSUME ItemsInv PROVE RefusedOnlyIfTooLong
  <2> SUFFICES ASSUME opts # None
               PROVE  raw = Thrown <=>
                        \/ opts.tags # << >> /\ EncodedLength(opts.tags) > MaxTagBytes
                        \/ ~RightLength(opts.target) \/ ~RightLength(opts.anchor)
    BY DEF RefusedOnlyIfTooLong
  <2>1. opts \in Options /\ raw = CreateData(opts)
    BY <1>1 DEF ItemsInv, AtHand
  <2>2. opts.tags \in Seq(TagPairs)
    BY <2>1, ItemAssumption
  <2>3. TagBytes(opts.tags) = Thrown <=> opts.tags # << >> /\ EncodedLength(opts.tags) > MaxTagBytes
    BY <2>2, TagBytesAre
  <2>4. raw = Thrown <=> ~Takes(opts)
    BY <2>1, CreateIsLaid, CreateThrows
  <2>5. QED BY <2>1, <2>3, <2>4 DEF Takes
<1>2. QED BY <1>1, ItemsInvariant, PTL

\* A bundle's index finds every item that was bundled.
THEOREM BundlesReadBack == Spec => []BundleReadsBack
<1>1. ASSUME ItemsInv PROVE BundleReadsBack
  <2> SUFFICES ASSUME bundle # << >>
               PROVE  /\ ItemCount(bundle) = Len(items)
                      /\ \A i \in DOMAIN items :
                           /\ ItemByIndex(bundle, i) = items[i].raw
                           /\ IdBy(bundle, i) = Id(RawSignature(items[i].raw))
    BY DEF BundleReadsBack
  <2>1. bundle = BundleOf(Raws)
    BY <1>1 DEF ItemsInv
  <2>2. DOMAIN items = 1 .. Len(items)
    BY <1>1 DEF ItemsInv, ItemsLaid
  <2>3. QED BY <1>1, <2>1, <2>2, RawsAre
<1>2. QED BY <1>1, ItemsInvariant, PTL

=============================================================================
