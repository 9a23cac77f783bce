-------------------------- MODULE InputCodecProofs --------------------------
(***************************************************************************)
(* What the InputCodec promises, for every text and every size of cells    *)
(* and numbers.  Neither the verification of an Input nor the loader after *)
(* it looks at a cell outside of the text.  The loader takes out what the  *)
(* builder put in; and an Input has one text only, the one the builder     *)
(* makes: what the verification accepts is that text, cell for cell.       *)
(*                                                                         *)
(* The argument: a number that is packed is read back, and a number that   *)
(* is read, packed again, gives the cells it was read from (induction on   *)
(* the width).  A text is a sequence of pieces (numbers, Bytes, a vector,  *)
(* the Input around them); what lies between two places of it is given     *)
(* piece by piece, and a vector by a row of pieces, each of which begins   *)
(* where the one before it ends.  Building an Input gives such a text;     *)
(* passing the checks shows that the text is one.                          *)
(***************************************************************************)
EXTENDS InputCodec, FiniteSetTheorems, WellFoundedInduction, SequenceTheorems, TLAPS

-----------------------------------------------------------------------------
(* Recursion and induction over the natural numbers *)

\* A set of natural numbers that is not empty has a least one.
LEMMA LeastNatural ==
  ASSUME NEW S \in SUBSET Nat, S # {}
  PROVE  \E m \in S : \A k \in S : m <= k
<1> DEFINE R == { p \in Nat \X Nat : p[1] < p[2] }
<1>1. IsWellFoundedOn(R, Nat)
  BY NatLessThanWellFounded DEF OpToRel
<1>2. \A k, m \in S : <<k, m>> \notin R => m <= k
  OBVIOUS
<1> HIDE DEF R
<1>3. PICK m \in S : \A k \in S : <<k, m>> \notin R
  BY <1>1, WFMin
<1>4. \A k \in S : m <= k
  BY <1>2, <1>3
<1>5. QED
  BY <1>4

\* Induction, for a set instead of a predicate.
LEMMA Induction ==
  ASSUME NEW S, 0 \in S, \A n \in Nat : n \in S => n + 1 \in S
  PROVE  \A n \in Nat : n \in S
<1>1. SUFFICES ASSUME Nat \ S # {} PROVE FALSE
  OBVIOUS
<1>2. Nat \ S \in SUBSET Nat
  OBVIOUS
<1>3. PICK m \in Nat \ S : \A k \in Nat \ S : m <= k
  BY <1>1, <1>2, LeastNatural
<1>4. m # 0
  BY <1>3
<1>5. m - 1 \in Nat /\ ~ (m <= m - 1) /\ m - 1 + 1 = m
  BY <1>3, <1>4
<1>6. QED
  BY <1>3, <1>5

\* The functions on 0 .. n that begin with a and go on by steps.
Recursive(S, a, step, n) ==
  { f \in [ 0 .. n -> S ] : \A k \in 0 .. n : f[k] = IF k = 0 THEN a ELSE step[<< k, f[k - 1] >>] }

\* There is one for every n.
LEMMA Recursion ==
  ASSUME NEW S, NEW a \in S, NEW step \in [ Nat \X S -> S ]
  PROVE  \A n \in Nat : Recursive(S, a, step, n) # {}
<1> DEFINE Rec(f, n) == \A k \in 0 .. n : f[k] = IF k = 0 THEN a ELSE step[<< k, f[k - 1] >>]
           Has == { n \in Nat : \E f \in [ 0 .. n -> S ] : Rec(f, n) }
<1>1. 0 \in Has
  <2>1. [ k \in 0 .. 0 |-> a ] \in [ 0 .. 0 -> S ] /\ Rec([ k \in 0 .. 0 |-> a ], 0)
    OBVIOUS
  <2>2. QED
    BY <2>1
<1>2. ASSUME NEW n \in Nat, n \in Has
      PROVE  n + 1 \in Has
  <2>1. PICK f \in [ 0 .. n -> S ] : Rec(f, n)
    BY <1>2
  <2>2. SUFFICES ASSUME NEW g, g = [ k \in 0 .. n + 1 |-> IF k = n + 1 THEN step[<< n + 1, f[n] >>] ELSE f[k] ]
                 PROVE  g \in [ 0 .. n + 1 -> S ] /\ Rec(g, n + 1)
    <3>1. n + 1 \in Nat
      OBVIOUS
    <3> HIDE DEF Rec
    <3>2. QED
      BY <3>1
  <2>3. \A k \in 0 .. n + 1 : k = n + 1 \/ k \in 0 .. n
    OBVIOUS
  <2>4. n \in 0 .. n /\ n + 1 \in 0 .. n + 1 /\ n + 1 # 0 /\ n + 1 - 1 = n
        /\ \A k \in 0 .. n : k # n + 1 /\ k \in 0 .. n + 1 /\ (k # 0 => k - 1 \in 0 .. n)
    OBVIOUS
  <2>5. g[n + 1] = step[<< n + 1, f[n] >>] /\ \A k \in 0 .. n : g[k] = f[k]
    BY <2>2, <2>4
  <2>6. << n + 1, f[n] >> \in Nat \X S
    BY <2>1, <2>4
  <2>7. g \in [ 0 .. n + 1 -> S ]
    <3>1. \A k \in 0 .. n + 1 : g[k] \in S
      BY <2>1, <2>3, <2>5, <2>6
    <3>2. QED
      BY <2>2, <3>1
  <2>8. Rec(g, n + 1)
    <3>1. TAKE k \in 0 .. n + 1
    <3>2. CASE k = n + 1
      BY <2>4, <2>5, <3>2
    <3>3. CASE k \in 0 .. n
      BY <2>1, <2>4, <2>5, <3>3
    <3>4. QED
      BY <2>3, <3>2, <3>3
  <2>9. QED
    BY <2>7, <2>8
<1>3. \A n \in Nat : n \in Has
  <2> HIDE DEF Has
  <2>1. QED
    BY <1>1, <1>2, Induction
<1>4. QED
  BY <1>3 DEF Recursive

-----------------------------------------------------------------------------
(* Numbers: their digits, how they are read, and back *)

\* A digit more: the product of two natural numbers and one to add.
LEMMA Products == \A a, b, c \in Nat : a * b + c \in Nat
  OBVIOUS

\* What a cell holds.
Cell == 0 .. Base - 1

\* Quotients and remainders.
LEMMA Division ==
  /\ Base \in Nat /\ Base > 1 /\ NumSize \in Nat /\ NumSize >= 1
  /\ \A m \in Nat : m \div Base \in Nat /\ m % Base \in Cell /\ m = Base * (m \div Base) + (m % Base)
  /\ \A q \in Nat, r \in Cell : (Base * q + r) \div Base = q /\ (Base * q + r) % Base = r
  /\ \A q, p \in Nat, r \in Cell : q < p => Base * q + r < Base * p
  /\ \A q, p \in Nat : Base * q < Base * p => q < p
<1>1. Base \in Nat /\ Base > 1 /\ NumSize \in Nat /\ NumSize >= 1
  BY CodecAssumption
<1>2. \A b \in Nat : b > 1 => \A m \in Nat : m \div b \in Nat /\ m % b \in 0 .. b - 1 /\ m = b * (m \div b) + (m % b)
  OBVIOUS
<1>3. \A b \in Nat : b > 1 => \A q \in Nat, r \in 0 .. b - 1 : (b * q + r) \div b = q /\ (b * q + r) % b = r
  OBVIOUS
<1>4. \A b \in Nat : b > 1 => \A q, p \in Nat, r \in 0 .. b - 1 : q < p => b * q + r < b * p
  OBVIOUS
<1>5. \A b \in Nat : b > 1 => \A q, p \in Nat : b * q < b * p => q < p
  OBVIOUS
<1>6. QED
  BY <1>1, <1>2, <1>3, <1>4, <1>5 DEF Cell

\* Powers, one factor at a time.
LEMMA Powers ==
  /\ Power(0) = 1
  /\ \A n \in Nat : Power(n) \in Nat /\ Power(n) >= 1 /\ Power(n + 1) = Base * Power(n)
<1> DEFINE Rec(f, n) == f = [ k \in 0 .. n |-> IF k = 0 THEN 1 ELSE Base * f[k - 1] ]
<1>1. \A n \in Nat : \E f : Rec(f, n) /\ f \in [ 0 .. n -> Nat ]
  <2> DEFINE step == [ x \in Nat \X Nat |-> Base * x[2] ]
  <2>1. step \in [ Nat \X Nat -> Nat ]
    <3>1. Base \in Nat
      BY Division
    <3>2. \A x \in Nat \X Nat : x[2] \in Nat
      OBVIOUS
    <3>3. \A b, c \in Nat : b * c \in Nat
      OBVIOUS
    <3>4. QED
      BY <3>1, <3>2, <3>3
  <2>2. \A n \in Nat : Recursive(Nat, 1, step, n) # {}
    <3>1. 1 \in Nat
      OBVIOUS
    <3> HIDE DEF step
    <3>2. QED
      BY <2>1, <3>1, Recursion
  <2>3. ASSUME NEW n \in Nat PROVE \E f : Rec(f, n) /\ f \in [ 0 .. n -> Nat ]
    <3>1. PICK f \in [ 0 .. n -> Nat ] : \A k \in 0 .. n : f[k] = IF k = 0 THEN 1 ELSE step[<< k, f[k - 1] >>]
      <4> HIDE DEF step
      <4>1. QED
        BY <2>2 DEF Recursive
    <3>2. ASSUME NEW k \in 0 .. n, k # 0 PROVE step[<< k, f[k - 1] >>] = Base * f[k - 1]
      <4>1. f[k - 1] \in Nat /\ k \in Nat
        BY <3>2
      <4>2. QED
        BY <4>1
    <3> HIDE DEF step
    <3>3. QED
      BY <3>1, <3>2
  <2>4. QED
    BY <2>3
<1> DEFINE P(n) == CHOOSE f : Rec(f, n)
<1>2. ASSUME NEW n \in Nat
      PROVE  /\ Power(n) = P(n)[n] /\ P(n)[0] = 1 /\ \A k \in 1 .. n : P(n)[k] = Base * P(n)[k - 1]
  <2>1. PICK f : Rec(f, n)
    BY <1>1
  <2>2. Rec(P(n), n)
    BY <2>1
  <2>3. \A k \in 0 .. n : P(n)[k] = IF k = 0 THEN 1 ELSE Base * P(n)[k - 1]
    <3>1. SUFFICES ASSUME NEW g, Rec(g, n)
                   PROVE  \A k \in 0 .. n : g[k] = IF k = 0 THEN 1 ELSE Base * g[k - 1]
      BY <2>2
    <3>2. QED
      BY <3>1
  <2>4. Power(n) = P(n)[n]
    BY DEF Power
  <2> HIDE DEF P
  <2>5. QED
    BY <2>3, <2>4
<1> HIDE DEF P
<1>3. ASSUME NEW n \in Nat, NEW f, NEW m \in n .. n + 1, f[0] = 1, \A k \in 1 .. m : f[k] = Base * f[k - 1]
      PROVE  Power(n) = f[n]
  <2> DEFINE S == { k \in Nat : k <= n => P(n)[k] = f[k] }
  <2>1. 0 \in S
    BY <1>2, <1>3
  <2>2. ASSUME NEW k \in Nat, k \in S PROVE k + 1 \in S
    <3>1. SUFFICES ASSUME k + 1 <= n PROVE P(n)[k + 1] = f[k + 1]
      BY <2>2
    <3>2. k + 1 \in 1 .. n /\ k + 1 \in 1 .. m /\ k + 1 - 1 = k /\ k <= n
      BY <3>1
    <3>3. P(n)[k + 1] = Base * P(n)[k] /\ f[k + 1] = Base * f[k]
      BY <1>2, <1>3, <3>2
    <3>4. QED
      BY <2>2, <3>2, <3>3
  <2>3. \A k \in Nat : k \in S
    <3> HIDE DEF S
    <3>1. QED
      BY <2>1, <2>2, Induction
  <2>4. QED
    BY <1>2, <2>3
<1>4. Power(0) = 1
  BY <1>2
<1>5. ASSUME NEW n \in Nat PROVE Power(n + 1) = Base * Power(n)
  <2>1. n + 1 \in Nat /\ n + 1 \in 1 .. n + 1 /\ n + 1 - 1 = n /\ n + 1 \in n .. n + 1
    OBVIOUS
  <2>2. SUFFICES ASSUME NEW g, g = P(n + 1) PROVE Power(n + 1) = Base * Power(n)
    OBVIOUS
  <2>3. g[0] = 1 /\ Power(n + 1) = g[n + 1] /\ \A k \in 1 .. n + 1 : g[k] = Base * g[k - 1]
    BY <1>2, <2>1, <2>2
  <2>4. Power(n) = g[n]
    BY <1>3, <2>1, <2>3
  <2>5. g[n + 1] = Base * g[n]
    BY <2>1, <2>3
  <2>6. QED
    BY <2>3, <2>4, <2>5
<1>6. \A n \in Nat : Power(n) \in Nat /\ Power(n) >= 1
  <2> DEFINE S == { n \in Nat : Power(n) \in Nat /\ Power(n) >= 1 }
  <2>1. 0 \in S
    BY <1>4
  <2>2. ASSUME NEW n \in Nat, n \in S PROVE n + 1 \in S
    <3>1. \A b, p \in Nat : b > 1 /\ p >= 1 => b * p \in Nat /\ b * p >= 1
      OBVIOUS
    <3>2. Base \in Nat /\ Base > 1 /\ Power(n) \in Nat /\ Power(n) >= 1
      BY <2>2, Division
    <3>3. Base * Power(n) \in Nat /\ Base * Power(n) >= 1
      BY <3>1, <3>2
    <3>4. QED
      BY <1>5, <3>3
  <2>3. \A n \in Nat : n \in S
    <3> HIDE DEF S
    <3>1. QED
      BY <2>1, <2>2, Induction
  <2>4. QED
    BY <2>3
<1>7. QED
  BY <1>4, <1>5, <1>6

\* What is read at a place is what a cell holds, or an empty cell's after the end.
LEMMA CellsHold == ASSUME text \in Seq(Cell) PROVE \A i \in Nat : CellAt(i) \in Cell
<1>1. 0 \in Cell
  BY Division DEF Cell
<1>2. ASSUME NEW i \in Nat, i < Size PROVE text[i + 1] \in Cell
  <2>1. Size \in Nat /\ i + 1 \in 1 .. Len(text)
    BY <1>2, LenProperties DEF Size
  <2>2. QED
    BY <2>1, ElementOfSeq
<1>3. QED
  BY <1>1, <1>2 DEF CellAt

\* How a number is read: from the most significant cell on.
LEMMA ValueHas ==
  ASSUME text \in Seq(Cell), NEW at \in Nat, NEW n \in Nat
  PROVE  \E h \in [ 0 .. n -> Nat ] :
           /\ Value(at, n) = h[n] /\ h[0] = 0
           /\ \A k \in 1 .. n : h[k] = Base * h[k - 1] + CellAt(at + n - k)
<1> DEFINE Rec(f) == f = [ k \in 0 .. n |-> IF k = 0 THEN 0 ELSE Base * f[k - 1] + CellAt(at + n - k) ]
           step == [ x \in Nat \X Nat |-> IF x[1] \in 1 .. n THEN Base * x[2] + CellAt(at + n - x[1]) ELSE 0 ]
<1>1. step \in [ Nat \X Nat -> Nat ]
  <2>1. Base \in Nat /\ \A a, b, c \in Nat : a * b + c \in Nat
    BY Division, Products
  <2>2. \A x \in Nat \X Nat : x[2] \in Nat /\ (x[1] \in 1 .. n => at + n - x[1] \in Nat)
    OBVIOUS
  <2>3. \A x \in Nat \X Nat : x[1] \in 1 .. n => CellAt(at + n - x[1]) \in Nat
    <3>1. \A i \in Nat : CellAt(i) \in Nat
      BY <2>1, CellsHold DEF Cell
    <3>2. QED
      BY <2>2, <3>1
  <2>4. \A x \in Nat \X Nat : x[1] \in 1 .. n => Base * x[2] + CellAt(at + n - x[1]) \in Nat
    BY <2>1, <2>2, <2>3
  <2>5. QED
    BY <2>4
<1>2. Recursive(Nat, 0, step, n) # {}
  <2>1. 0 \in Nat
    OBVIOUS
  <2> HIDE DEF step
  <2>2. QED
    BY <1>1, <2>1, Recursion
<1>3. PICK f \in [ 0 .. n -> Nat ] : \A k \in 0 .. n : f[k] = IF k = 0 THEN 0 ELSE step[<< k, f[k - 1] >>]
  <2> HIDE DEF step
  <2>1. QED
    BY <1>2 DEF Recursive
<1>4. ASSUME NEW k \in 0 .. n, k # 0
      PROVE  step[<< k, f[k - 1] >>] = Base * f[k - 1] + CellAt(at + n - k)
  <2>1. f[k - 1] \in Nat /\ k \in Nat /\ k \in 1 .. n
    BY <1>4
  <2>2. QED
    BY <2>1
<1> HIDE DEF step
<1>5. \A k \in 0 .. n : f[k] = IF k = 0 THEN 0 ELSE Base * f[k - 1] + CellAt(at + n - k)
  BY <1>3, <1>4
<1>6. Rec(f)
  BY <1>5
<1> DEFINE h == CHOOSE g : Rec(g)
<1>7. Rec(h)
  BY <1>6
<1>8. Value(at, n) = h[n]
  BY DEF Value
<1> HIDE DEF h
<1>9. \A k \in 0 .. n : h[k] = IF k = 0 THEN 0 ELSE Base * h[k - 1] + CellAt(at + n - k)
  BY <1>7
<1>10. h = f
  <2> DEFINE S == { k \in Nat : k <= n => h[k] = f[k] }
  <2>1. 0 \in S
    BY <1>5, <1>9
  <2>2. ASSUME NEW k \in Nat, k \in S PROVE k + 1 \in S
    <3>1. SUFFICES ASSUME k + 1 <= n PROVE h[k + 1] = f[k + 1]
      BY <2>2
    <3>2. k + 1 \in 0 .. n /\ k + 1 # 0 /\ k + 1 - 1 = k /\ k <= n
      BY <3>1
    <3>3. SUFFICES ASSUME NEW j, j = k + 1 PROVE h[j] = f[j]
      OBVIOUS
    <3>4. h[j] = Base * h[j - 1] + CellAt(at + n - j) /\ f[j] = Base * f[j - 1] + CellAt(at + n - j)
      BY <1>5, <1>9, <3>2, <3>3
    <3>5. QED
      BY <2>2, <3>2, <3>3, <3>4
  <2>3. \A k \in Nat : k \in S
    <3> HIDE DEF S
    <3>1. QED
      BY <2>1, <2>2, Induction
  <2>4. \A k \in 0 .. n : h[k] = f[k]
    BY <2>3
  <2>5. QED
    BY <1>5, <1>7, <1>9, <2>4
<1>11. \A k \in 1 .. n : h[k] = Base * h[k - 1] + CellAt(at + n - k)
  <2>1. \A k \in 1 .. n : k \in 0 .. n /\ k # 0
    OBVIOUS
  <2>2. QED
    BY <1>9, <2>1
<1>12. h \in [ 0 .. n -> Nat ] /\ h[0] = 0
  <2>1. h \in [ 0 .. n -> Nat ]
    BY <1>3, <1>10
  <2>2. 0 \in 0 .. n
    OBVIOUS
  <2>3. QED
    BY <1>9, <2>1, <2>2
<1>13. QED
  BY <1>8, <1>11, <1>12

\* How a number is read from the least significant cell on.
LEMMA ValueStep ==
  ASSUME text \in Seq(Cell), NEW at \in Nat
  PROVE  /\ Value(at, 0) = 0
         /\ \A n \in Nat : Value(at, n + 1) = Base * Value(at + 1, n) + CellAt(at)
<1>1. Value(at, 0) = 0
  <2>1. 0 \in Nat
    OBVIOUS
  <2>2. PICK h \in [ 0 .. 0 -> Nat ] : Value(at, 0) = h[0] /\ h[0] = 0
    BY <2>1, ValueHas
  <2>3. QED
    BY <2>2
<1>2. ASSUME NEW n \in Nat
      PROVE  Value(at, n + 1) = Base * Value(at + 1, n) + CellAt(at)
  <2>1. n + 1 \in Nat /\ at + 1 \in Nat
    OBVIOUS
  <2>2. PICK g \in [ 0 .. n -> Nat ] :
           /\ Value(at + 1, n) = g[n] /\ g[0] = 0
           /\ \A k \in 1 .. n : g[k] = Base * g[k - 1] + CellAt(at + 1 + n - k)
    BY <2>1, ValueHas
  <2>3. PICK h \in [ 0 .. n + 1 -> Nat ] :
           /\ Value(at, n + 1) = h[n + 1] /\ h[0] = 0
           /\ \A k \in 1 .. n + 1 : h[k] = Base * h[k - 1] + CellAt(at + (n + 1) - k)
    BY <2>1, ValueHas
  <2> DEFINE S == { k \in Nat : k <= n => h[k] = g[k] }
  <2>4. 0 \in S
    BY <2>2, <2>3
  <2>5. ASSUME NEW k \in Nat, k \in S PROVE k + 1 \in S
    <3>1. SUFFICES ASSUME k + 1 <= n PROVE h[k + 1] = g[k + 1]
      BY <2>5
    <3>2. SUFFICES ASSUME NEW j, j = k + 1 PROVE h[j] = g[j]
      OBVIOUS
    <3>3. j \in 1 .. n /\ j \in 1 .. n + 1 /\ j - 1 = k /\ k <= n /\ at + 1 + n - j = at + (n + 1) - j
      BY <3>1, <3>2
    <3>4. g[j] = Base * g[j - 1] + CellAt(at + 1 + n - j) /\ h[j] = Base * h[j - 1] + CellAt(at + (n + 1) - j)
      BY <2>2, <2>3, <3>3
    <3>5. h[j - 1] = g[j - 1]
      BY <2>5, <3>3
    <3>6. QED
      BY <3>3, <3>4, <3>5
  <2>6. \A k \in Nat : k \in S
    <3> HIDE DEF S
    <3>1. QED
      BY <2>4, <2>5, Induction
  <2>7. h[n] = g[n]
    BY <2>6
  <2>8. n + 1 \in 1 .. n + 1 /\ n + 1 - 1 = n /\ at + (n + 1) - (n + 1) = at
    OBVIOUS
  <2>9. h[n + 1] = Base * h[n] + CellAt(at)
    <3>1. SUFFICES ASSUME NEW j, j = n + 1 PROVE h[j] = Base * h[n] + CellAt(at)
      OBVIOUS
    <3>2. h[j] = Base * h[j - 1] + CellAt(at + (n + 1) - j)
      BY <2>3, <2>8, <3>1
    <3>3. QED
      BY <2>8, <3>1, <3>2
  <2>10. QED
    BY <2>2, <2>3, <2>7, <2>9
<1>3. QED
  BY <1>1, <1>2

\* How the cells of a number come about.
LEMMA DigitsHave ==
  ASSUME NEW m \in Nat, NEW n \in Nat
  PROVE  \E h \in [ 0 .. n -> Nat ] :
           /\ h[0] = m /\ \A k \in 1 .. n : h[k] = h[k - 1] \div Base
           /\ Digits(m, n) = [ k \in 1 .. n |-> h[k - 1] % Base ]
<1> DEFINE Rec(f) == f = [ k \in 0 .. n |-> IF k = 0 THEN m ELSE f[k - 1] \div Base ]
           step == [ x \in Nat \X Nat |-> x[2] \div Base ]
<1>1. step \in [ Nat \X Nat -> Nat ]
  <2>1. \A x \in Nat : x \div Base \in Nat
    BY Division
  <2>2. \A x \in Nat \X Nat : x[2] \in Nat
    OBVIOUS
  <2>3. QED
    BY <2>1, <2>2
<1>2. Recursive(Nat, m, step, n) # {}
  <2> HIDE DEF step
  <2>1. QED
    BY <1>1, Recursion
<1>3. PICK f \in [ 0 .. n -> Nat ] : \A k \in 0 .. n : f[k] = IF k = 0 THEN m ELSE step[<< k, f[k - 1] >>]
  <2> HIDE DEF step
  <2>1. QED
    BY <1>2 DEF Recursive
<1>4. ASSUME NEW k \in 0 .. n, k # 0
      PROVE  step[<< k, f[k - 1] >>] = f[k - 1] \div Base
  <2>1. f[k - 1] \in Nat /\ k \in Nat
    BY <1>4
  <2>2. QED
    BY <2>1
<1> HIDE DEF step
<1>5. \A k \in 0 .. n : f[k] = IF k = 0 THEN m ELSE f[k - 1] \div Base
  BY <1>3, <1>4
<1>6. Rec(f)
  BY <1>5
<1> DEFINE h == CHOOSE g : Rec(g)
<1>7. Rec(h)
  BY <1>6
<1>8. Digits(m, n) = [ k \in 1 .. n |-> h[k - 1] % Base ]
  BY DEF Digits
<1> HIDE DEF h
<1>9. \A k \in 0 .. n : h[k] = IF k = 0 THEN m ELSE h[k - 1] \div Base
  BY <1>7
<1>10. h \in [ 0 .. n -> Nat ]
  <2> DEFINE S == { k \in Nat : k <= n => h[k] \in Nat }
  <2>1. 0 \in S
    BY <1>9
  <2>2. ASSUME NEW k \in Nat, k \in S PROVE k + 1 \in S
    <3>1. SUFFICES ASSUME k + 1 <= n PROVE h[k + 1] \in Nat
      BY <2>2
    <3>2. SUFFICES ASSUME NEW j, j = k + 1 PROVE h[j] \in Nat
      OBVIOUS
    <3>3. j \in 0 .. n /\ j # 0 /\ j - 1 = k /\ k <= n
      BY <3>1, <3>2
    <3>4. h[j] = h[j - 1] \div Base /\ h[j - 1] \in Nat
      BY <1>9, <2>2, <3>3
    <3>5. QED
      BY <3>4, Division
  <2>3. \A k \in Nat : k \in S
    <3> HIDE DEF S
    <3>1. QED
      BY <2>1, <2>2, Induction
  <2>4. \A k \in 0 .. n : h[k] \in Nat
    BY <2>3
  <2>5. h = [ k \in 0 .. n |-> h[k] ]
    <3>1. SUFFICES ASSUME NEW g, Rec(g)
                   PROVE  g = [ k \in 0 .. n |-> g[k] ]
      BY <1>7
    <3>2. QED
      BY <3>1
  <2>6. QED
    BY <2>4, <2>5
<1>11. \A k \in 1 .. n : h[k] = h[k - 1] \div Base
  <2>1. \A k \in 1 .. n : k \in 0 .. n /\ k # 0
    OBVIOUS
  <2>2. QED
    BY <1>9, <2>1
<1>12. h[0] = m
  BY <1>9
<1>13. QED
  BY <1>8, <1>10, <1>11, <1>12

\* The first cell, and the others.
LEMMA DigitsStep ==
  ASSUME NEW m \in Nat, NEW n \in Nat
  PROVE  /\ Digits(m, n) \in [ 1 .. n -> Cell ]
         /\ Digits(m, n + 1)[1] = m % Base
         /\ \A k \in 1 .. n : Digits(m, n + 1)[k + 1] = Digits(m \div Base, n)[k]
<1>1. m \div Base \in Nat /\ n + 1 \in Nat
  BY Division
<1>2. Digits(m, n) \in [ 1 .. n -> Cell ]
  <2>1. PICK h \in [ 0 .. n -> Nat ] : Digits(m, n) = [ k \in 1 .. n |-> h[k - 1] % Base ]
    BY DigitsHave
  <2>2. \A k \in 1 .. n : h[k - 1] \in Nat
    OBVIOUS
  <2>3. \A k \in 1 .. n : h[k - 1] % Base \in Cell
    BY <2>2, Division
  <2>4. QED
    BY <2>1, <2>3
<1>3. PICK h \in [ 0 .. n + 1 -> Nat ] :
        /\ h[0] = m /\ \A k \in 1 .. n + 1 : h[k] = h[k - 1] \div Base
        /\ Digits(m, n + 1) = [ k \in 1 .. n + 1 |-> h[k - 1] % Base ]
  BY <1>1, DigitsHave
<1>4. PICK g \in [ 0 .. n -> Nat ] :
        /\ g[0] = m \div Base /\ \A k \in 1 .. n : g[k] = g[k - 1] \div Base
        /\ Digits(m \div Base, n) = [ k \in 1 .. n |-> g[k - 1] % Base ]
  BY <1>1, DigitsHave
<1>5. \A k \in 0 .. n : h[k + 1] = g[k]
  <2> DEFINE S == { k \in Nat : k <= n => h[k + 1] = g[k] }
  <2>1. 0 \in S
    <3>1. 1 \in 1 .. n + 1 /\ 0 + 1 = 1 /\ 1 - 1 = 0
      OBVIOUS
    <3>2. h[1] = h[1 - 1] \div Base
      BY <1>3, <3>1
    <3>3. QED
      BY <1>3, <1>4, <3>1, <3>2
  <2>2. ASSUME NEW k \in Nat, k \in S PROVE k + 1 \in S
    <3>1. SUFFICES ASSUME k + 1 <= n PROVE h[k + 1 + 1] = g[k + 1]
      BY <2>2
    <3>2. SUFFICES ASSUME NEW i, i = k + 1, NEW j, j = k + 1 + 1 PROVE h[j] = g[i]
      OBVIOUS
    <3>3. j \in 1 .. n + 1 /\ j - 1 = i /\ i \in 1 .. n /\ i - 1 = k /\ k <= n
      BY <3>1, <3>2
    <3>4. h[j] = h[i] \div Base /\ g[i] = g[k] \div Base
      BY <1>3, <1>4, <3>3
    <3>5. h[i] = g[k]
      BY <2>2, <3>2, <3>3
    <3>6. QED
      BY <3>4, <3>5
  <2>3. \A k \in Nat : k \in S
    <3> HIDE DEF S
    <3>1. QED
      BY <2>1, <2>2, Induction
  <2>4. QED
    BY <2>3
<1>6. Digits(m, n + 1)[1] = m % Base
  BY <1>3
<1>7. ASSUME NEW k \in 1 .. n
      PROVE  Digits(m, n + 1)[k + 1] = Digits(m \div Base, n)[k]
  <2>1. k + 1 \in 1 .. n + 1 /\ k + 1 - 1 = k /\ k - 1 \in 0 .. n /\ k - 1 + 1 = k
    OBVIOUS
  <2>2. Digits(m, n + 1)[k + 1] = h[k] % Base
    BY <1>3, <2>1
  <2>3. h[k] = g[k - 1]
    BY <1>5, <2>1
  <2>4. Digits(m \div Base, n)[k] = g[k - 1] % Base
    BY <1>4
  <2>5. QED
    BY <2>2, <2>3, <2>4
<1>8. QED
  BY <1>2, <1>6, <1>7

\* A number that is read fits its width, and its cells are those it was read from.
LEMMA NumberRead ==
  ASSUME text \in Seq(Cell)
  PROVE  \A n \in Nat : \A at \in Nat :
           /\ Value(at, n) \in Nat /\ Value(at, n) < Power(n)
           /\ \A k \in 1 .. n : Digits(Value(at, n), n)[k] = CellAt(at + k - 1)
<1> DEFINE Same(at, n) == \A k \in 1 .. n : Digits(Value(at, n), n)[k] = CellAt(at + k - 1)
           S == { n \in Nat : \A at \in Nat : Value(at, n) \in Nat /\ Value(at, n) < Power(n) /\ Same(at, n) }
<1>1. 0 \in S
  <2>1. \A at \in Nat : Same(at, 0)
    OBVIOUS
  <2>2. \A at \in Nat : Value(at, 0) = 0
    BY ValueStep
  <2>3. \A at \in Nat : Value(at, 0) \in Nat /\ Value(at, 0) < Power(0)
    <3>1. Power(0) = 1
      BY Powers
    <3>2. QED
      BY <2>2, <3>1
  <2> HIDE DEF Same
  <2>4. QED
    BY <2>1, <2>3
<1>2. ASSUME NEW n \in Nat, n \in S
      PROVE  n + 1 \in S
  <2> SUFFICES ASSUME NEW at \in Nat
               PROVE  Value(at, n + 1) \in Nat /\ Value(at, n + 1) < Power(n + 1) /\ Same(at, n + 1)
    <3>1. n + 1 \in Nat
      OBVIOUS
    <3> HIDE DEF Same
    <3>2. QED
      BY <3>1
  <2>1. at + 1 \in Nat /\ n + 1 \in Nat /\ CellAt(at) \in Cell
    BY CellsHold
  <2>2. SUFFICES ASSUME NEW v, v = Value(at, n + 1), NEW w, w = Value(at + 1, n)
                 PROVE  v \in Nat /\ v < Power(n + 1) /\ \A k \in 1 .. n + 1 : Digits(v, n + 1)[k] = CellAt(at + k - 1)
    OBVIOUS
  <2>3. w \in Nat /\ w < Power(n) /\ \A k \in 1 .. n : Digits(w, n)[k] = CellAt(at + 1 + k - 1)
    BY <1>2, <2>1, <2>2
  <2>4. v = Base * w + CellAt(at)
    BY <2>2, ValueStep
  <2>5. v \in Nat
    <3>1. Base \in Nat /\ CellAt(at) \in Nat
      BY <2>1, Division DEF Cell
    <3>2. QED
      BY <2>3, <2>4, <3>1, Products
  <2>6. v < Power(n + 1)
    <3>1. Base * w + CellAt(at) < Base * Power(n)
      BY <2>1, <2>3, Division, Powers
    <3>2. QED
      BY <2>4, <3>1, Powers
  <2>7. v \div Base = w /\ v % Base = CellAt(at)
    BY <2>1, <2>3, <2>4, Division
  <2>8. Digits(v, n + 1)[1] = CellAt(at) /\ \A k \in 1 .. n : Digits(v, n + 1)[k + 1] = Digits(w, n)[k]
    BY <2>5, <2>7, DigitsStep
  <2>9. ASSUME NEW k \in 1 .. n + 1
        PROVE  Digits(v, n + 1)[k] = CellAt(at + k - 1)
    <3>1. CASE k = 1
      BY <2>8, <3>1
    <3>2. CASE k # 1
      <4>1. SUFFICES ASSUME NEW j, j = k - 1 PROVE Digits(v, n + 1)[k] = CellAt(at + k - 1)
        OBVIOUS
      <4>2. j \in 1 .. n /\ j + 1 = k /\ at + 1 + j - 1 = at + k - 1
        BY <3>2, <4>1
      <4>3. Digits(w, n)[j] = CellAt(at + 1 + j - 1) /\ Digits(v, n + 1)[j + 1] = Digits(w, n)[j]
        BY <2>3, <2>8, <4>2
      <4>4. QED
        BY <4>2, <4>3
    <3>3. QED
      BY <3>1, <3>2
  <2>10. QED
    BY <2>5, <2>6, <2>9
<1>3. \A n \in Nat : n \in S
  <2> HIDE DEF S
  <2>1. QED
    BY <1>1, <1>2, Induction
<1>4. QED
  BY <1>3

\* The cells of a number that fits its width are read as that number.
LEMMA NumberKept ==
  ASSUME text \in Seq(Cell)
  PROVE  \A n \in Nat : \A at, m \in Nat :
           m < Power(n) /\ (\A k \in 1 .. n : CellAt(at + k - 1) = Digits(m, n)[k]) => Value(at, n) = m
<1> DEFINE Made(at, m, n) == \A k \in 1 .. n : CellAt(at + k - 1) = Digits(m, n)[k]
           S == { n \in Nat : \A at, m \in Nat : m < Power(n) /\ Made(at, m, n) => Value(at, n) = m }
<1>1. 0 \in S
  <2> HIDE DEF Made
  <2>1. QED
    BY ValueStep, Powers
<1>2. ASSUME NEW n \in Nat, n \in S
      PROVE  n + 1 \in S
  <2> SUFFICES ASSUME NEW at \in Nat, NEW m \in Nat, m < Power(n + 1), Made(at, m, n + 1)
               PROVE  Value(at, n + 1) = m
    <3>1. n + 1 \in Nat
      OBVIOUS
    <3> HIDE DEF Made
    <3>2. QED
      BY <3>1
  <2>1. SUFFICES ASSUME NEW q, q = m \div Base
                 PROVE  Value(at, n + 1) = m
    OBVIOUS
  <2>2. q \in Nat /\ m = Base * q + (m % Base) /\ at + 1 \in Nat
    BY <2>1, Division
  <2>3. q < Power(n)
    <3>1. Base * q < Base * Power(n)
      <4>1. m % Base \in Nat /\ m < Base * Power(n) /\ Base * q \in Nat /\ Base * Power(n) \in Nat
        <5>1. \A a, b \in Nat : a * b \in Nat
          OBVIOUS
        <5>2. Base \in Nat /\ Power(n) \in Nat /\ m % Base \in Cell /\ Power(n + 1) = Base * Power(n)
          BY Division, Powers
        <5>3. QED
          BY <2>2, <5>1, <5>2 DEF Cell
      <4>2. QED
        BY <2>2, <4>1
    <3>2. QED
      BY <2>2, <3>1, Division, Powers
  <2>4. Digits(m, n + 1)[1] = m % Base /\ \A k \in 1 .. n : Digits(m, n + 1)[k + 1] = Digits(q, n)[k]
    BY <2>1, DigitsStep
  <2>5. CellAt(at) = m % Base
    <3>1. 1 \in 1 .. n + 1 /\ at + 1 - 1 = at
      OBVIOUS
    <3>2. QED
      BY <2>4, <3>1
  <2>6. Made(at + 1, q, n)
    <3>1. TAKE k \in 1 .. n
    <3>2. SUFFICES ASSUME NEW j, j = k + 1 PROVE CellAt(at + 1 + k - 1) = Digits(q, n)[k]
      OBVIOUS
    <3>3. j \in 1 .. n + 1 /\ at + j - 1 = at + 1 + k - 1
      BY <3>2
    <3>4. CellAt(at + j - 1) = Digits(m, n + 1)[j]
      BY <3>3
    <3>5. QED
      BY <2>4, <3>2, <3>3, <3>4
  <2>7. Value(at + 1, n) = q
    <3> HIDE DEF Made
    <3>1. QED
      BY <1>2, <2>2, <2>3, <2>6
  <2>8. Value(at, n + 1) = Base * q + CellAt(at)
    BY <2>7, ValueStep
  <2>9. QED
    BY <2>2, <2>5, <2>8
<1>3. \A n \in Nat : n \in S
  <2> HIDE DEF S
  <2>1. QED
    BY <1>1, <1>2, Induction
<1>4. QED
  BY <1>3

-----------------------------------------------------------------------------
(* Nothing outside of the text is read *)

\* What the checks that were passed have shown.
HeaderInv ==
  /\ pc = "total" => Size >= NumSize
  /\ pc = "offset" => Size >= 2 * NumSize
  /\ pc \in { "offsets", "source", "vector", "args", "take", "taken" } =>
       Size >= 3 * NumSize /\ SourceAt = 3 * NumSize
PartsInv ==
  /\ pc \in { "source", "vector", "args", "take", "taken" } =>
       args_at \in Nat /\ SourceAt <= args_at /\ args_at <= Size
  /\ pc \in { "vector", "args", "take", "taken" } => SourceFits
  /\ pc \in { "args", "take", "taken" } => VectorFits

\* The inductive invariant.
IInv ==
  /\ text \in Seq(0 .. Base - 1)
  /\ item \in Nat
  /\ read \in [ lo : Nat, hi : Nat ]
  /\ ReadsInside
  /\ HeaderInv
  /\ PartsInv

\* The numbers there are.
LEMMA Sizes ==
  ASSUME text \in Seq(0 .. Base - 1)
  PROVE  /\ Size \in Nat /\ NumSize \in Nat /\ NumSize > 0
         /\ \A at \in Nat : Num(at) \in Nat
<1>1. NumSize \in Nat /\ NumSize > 0
  BY CodecAssumption
<1>2. \A at \in Nat : Num(at) \in Nat
  BY <1>1, NumberRead DEF Num, Cell
<1>3. QED
  BY <1>1, <1>2 DEF Size

\* As long as the text stays, so does what is read in it.
LEMMA SameText ==
  ASSUME text' = text
  PROVE  /\ Size' = Size
         /\ \A at : Num(at)' = Num(at)
         /\ SourceAt' = SourceAt
         /\ args_at' = args_at => (SourceFits' <=> SourceFits) /\ (VectorFits' <=> VectorFits)
<1>1. Size' = Size
  BY DEF Size
<1>2. \A i : CellAt(i)' = CellAt(i)
  BY <1>1 DEF CellAt
<1>3. \A at : Num(at)' = Num(at)
  BY <1>2 DEF Num, Value
<1>4. SourceAt' = SourceAt
  BY <1>3 DEF SourceAt
<1>5. ASSUME args_at' = args_at
      PROVE  (SourceFits' <=> SourceFits) /\ (VectorFits' <=> VectorFits)
  <2>1. SourceFits' <=> SourceFits
    BY <1>3, <1>4, <1>5 DEF SourceFits, BytesFit
  <2>2. VecLength' = VecLength
    BY <1>3, <1>5 DEF VecLength
  <2>3. \A i : ArgStart(i)' = ArgStart(i)
    BY <1>3, <1>5 DEF ArgStart
  <2>4. \A i : ArgEnd(i)' = ArgEnd(i)
    BY <1>1, <2>2, <2>3 DEF ArgEnd
  <2>5. VectorFits' <=> VectorFits
    BY <1>1, <1>3, <1>5, <2>2, <2>3, <2>4 DEF VectorFits, BytesFit
  <2>6. QED
    BY <2>1, <2>5
<1>6. QED
  BY <1>1, <1>3, <1>4, <1>5

\* Two fields, no more: the first offset is just behind the three numbers.
LEMMA FirstOffset ==
  ASSUME NEW offset \in Nat, FieldsFit(offset)
  PROVE  offset = 3 * NumSize /\ Size >= 3 * NumSize
<1>1. NumSize \in Nat /\ NumSize > 0 /\ offset % NumSize = 0 /\ offset \div NumSize = 3
  <2>1. NumSize \in Nat /\ NumSize > 0
    BY CodecAssumption
  <2>2. offset \div NumSize \in Int
    BY <2>1
  <2>3. QED
    BY <2>1, <2>2 DEF FieldsFit, Aligned, FieldCount
<1>2. offset = 3 * NumSize
  BY <1>1
<1>3. QED
  BY <1>1, <1>2 DEF FieldsFit, FieldCount

\* Nothing is read at the beginning.
LEMMA InitHolds ==
  ASSUME Init
  PROVE  IInv
  BY TextsAssumption DEF Init, IInv, ReadsInside, HeaderInv, PartsInv, Size

\* Every check and every read of the loader keeps the invariant.
LEMMA StepHolds ==
  ASSUME IInv, [Next]_vars
  PROVE  IInv'
<1>1. /\ text \in Seq(0 .. Base - 1) /\ Size \in Nat /\ NumSize \in Nat /\ NumSize > 0
      /\ \A at \in Nat : Num(at) \in Nat
  BY Sizes DEF IInv
<1>2. SUFFICES ASSUME text' = text
               PROVE  IInv'
  BY DEF Next, Verify, vars, CheckSize, CheckTotal, CheckOffset, CheckOffsets, CheckSource,
         CheckVector, TakeArg, EndArgs, TakeSource
<1>3. /\ Size' = Size /\ SourceAt' = SourceAt
      /\ args_at' = args_at => (SourceFits' <=> SourceFits) /\ (VectorFits' <=> VectorFits)
  BY <1>2, SameText
<1>0. text \in Seq(0 .. Base - 1) /\ Size \in Nat /\ NumSize \in Nat /\ NumSize > 0
  BY <1>1
<1>4. item \in Nat /\ read \in [ lo : Nat, hi : Nat ] /\ ReadsInside /\ HeaderInv /\ PartsInv
  BY DEF IInv
<1>5. CASE CheckSize
  BY <1>1, <1>2, <1>3, <1>4, <1>5
     DEF CheckSize, At, Check, IInv, ReadsInside, HeaderInv, PartsInv
<1>6. CASE CheckTotal
  BY <1>1, <1>2, <1>3, <1>4, <1>6
     DEF CheckTotal, At, Check, Reads, ReadsNum, IInv, ReadsInside, HeaderInv, PartsInv
<1>7. CASE CheckOffset
  <2>1. Num(NumSize) \in Nat
    BY <1>1
  <2>2. pc' = "offsets" => SourceAt = 3 * NumSize /\ Size >= 3 * NumSize
    BY <1>7, <2>1, FirstOffset DEF CheckOffset, Check, SourceAt
  <2>3. pc = "offset" /\ pc' \in { "offsets", "rejected" } /\ Size >= 2 * NumSize
        /\ read' = [ lo |-> NumSize, hi |-> NumSize + NumSize ]
    BY <1>4, <1>7 DEF CheckOffset, At, Check, Reads, ReadsNum, HeaderInv
  <2>4. read' \in [ lo : Nat, hi : Nat ] /\ ReadsInside' /\ item' = item
    BY <1>0, <1>3, <1>7, <2>3 DEF CheckOffset, ReadsInside
  <2>5. HeaderInv' /\ PartsInv'
    <3>1. /\ pc' # "total" /\ pc' # "offset"
          /\ pc' \notin { "source", "vector", "args", "take", "taken" }
          /\ pc' = "offsets" => SourceAt' = 3 * NumSize /\ Size' >= 3 * NumSize
      BY <1>3, <2>2, <2>3
    <3>2. QED
      BY <3>1 DEF HeaderInv, PartsInv
  <2>6. QED
    BY <1>1, <1>2, <1>4, <2>4, <2>5 DEF IInv
<1>8. CASE CheckOffsets
  <2>1. Num(2 * NumSize) \in Nat /\ Num(2 * NumSize) = args_at'
    BY <1>1, <1>8 DEF CheckOffsets
  <2>2. /\ pc = "offsets" /\ pc' \in { "source", "rejected" } /\ Size >= 3 * NumSize /\ SourceAt = 3 * NumSize
        /\ read' = [ lo |-> 2 * NumSize, hi |-> 2 * NumSize + NumSize ]
        /\ pc' = "source" => SourceAt <= args_at' /\ args_at' <= Size
    BY <1>4, <1>8, <2>1 DEF CheckOffsets, At, Check, Reads, ReadsNum, HeaderInv, OffsetsFit
  <2>3. read' \in [ lo : Nat, hi : Nat ] /\ ReadsInside' /\ item' = item
    BY <1>1, <1>3, <1>8, <2>2 DEF CheckOffsets, ReadsInside
  <2>4. HeaderInv' /\ PartsInv'
    BY <1>3, <2>1, <2>2 DEF HeaderInv, PartsInv
  <2>5. QED
    BY <1>1, <1>2, <1>4, <2>3, <2>4 DEF IInv
<1>9. CASE CheckSource
  <2>1. /\ pc = "source" /\ pc' \in { "vector", "rejected" } /\ args_at' = args_at /\ item' = item
        /\ Size >= 3 * NumSize /\ SourceAt = 3 * NumSize
        /\ args_at \in Nat /\ SourceAt <= args_at /\ args_at <= Size
        /\ pc' = "vector" => SourceFits
    BY <1>4, <1>9 DEF CheckSource, At, Check, HeaderInv, PartsInv
  <2>2. /\ read' \in [ lo : Nat, hi : Nat ] /\ ReadsInside'
    <3>1. CASE args_at - SourceAt < NumSize
      BY <1>3, <1>4, <1>9, <3>1 DEF CheckSource, ReadsInside
    <3>2. CASE /\ ~ (args_at - SourceAt < NumSize)
               /\ Num(SourceAt) = 0 /\ args_at - SourceAt >= 2 * NumSize
      <4>1. read' = [ lo |-> SourceAt + NumSize, hi |-> SourceAt + NumSize + NumSize ]
        BY <1>9, <3>2 DEF CheckSource, Reads, ReadsNum
      <4>2. QED
        BY <1>1, <1>3, <2>1, <3>2, <4>1 DEF ReadsInside
    <3>3. CASE /\ ~ (args_at - SourceAt < NumSize)
               /\ ~ (Num(SourceAt) = 0 /\ args_at - SourceAt >= 2 * NumSize)
      <4>1. read' = [ lo |-> SourceAt, hi |-> SourceAt + NumSize ]
        BY <1>9, <3>3 DEF CheckSource, Reads, ReadsNum
      <4>2. QED
        BY <1>1, <1>3, <2>1, <3>3, <4>1 DEF ReadsInside
    <3>4. QED
      BY <3>1, <3>2, <3>3
  <2>3. QED
    BY <1>1, <1>2, <1>3, <1>4, <2>1, <2>2 DEF IInv, HeaderInv, PartsInv
<1>10. CASE CheckVector
  <2>1. /\ pc = "vector" /\ pc' \in { "args", "rejected" } /\ args_at' = args_at /\ item' = item
        /\ read' = [ lo |-> args_at, hi |-> Size ]
        /\ pc' = "args" => VectorFits
    BY <1>10 DEF CheckVector, At, Check, Reads
  <2>2. args_at \in Nat /\ SourceAt <= args_at /\ args_at <= Size /\ SourceFits
        /\ Size >= 3 * NumSize /\ SourceAt = 3 * NumSize
    BY <1>4, <2>1 DEF HeaderInv, PartsInv
  <2>3. QED
    BY <1>1, <1>2, <1>3, <1>4, <2>1, <2>2 DEF IInv, ReadsInside, HeaderInv, PartsInv
<1>11. CASE TakeArg
  <2>1. /\ pc = "args" /\ pc' = "args" /\ args_at' = args_at /\ item' = item + 1
        /\ read' = [ lo |-> ArgStart(item) + NumSize, hi |-> ArgEnd(item) ]
        /\ item < VecLength
    BY <1>11 DEF TakeArg, At, Reads
  <2>2. args_at \in Nat /\ SourceAt <= args_at /\ args_at <= Size /\ SourceFits /\ VectorFits
        /\ Size >= 3 * NumSize /\ SourceAt = 3 * NumSize
    BY <1>4, <2>1 DEF HeaderInv, PartsInv
  <2>3. item \in 0 .. VecLength - 1 /\ VecLength \in Int /\ VecLength # 0
    <3>1. Num(args_at + NumSize) \in Nat
      BY <1>1, <2>2
    <3>2. VecLength \in Int
      BY <1>1, <3>1 DEF VecLength
    <3>3. QED
      BY <1>4, <2>1, <3>2
  <2>4. ArgEnd(item) <= Size /\ BytesFit(ArgStart(item), ArgEnd(item))
    <3>1. Num(args_at) = Size - args_at
      BY <2>2 DEF VectorFits
    <3>2. Size - args_at # NumSize
      BY <2>3, <3>1 DEF VecLength
    <3>3. QED
      BY <2>2, <2>3, <3>2 DEF VectorFits
  <2>5. ArgStart(item) \in Nat /\ ArgEnd(item) \in Int
    <3>1. ASSUME NEW i \in Nat PROVE ArgStart(i) \in Nat
      <4>1. NumSize * (i + 1) + args_at \in Nat /\ i + 1 \in Nat
        BY <1>1, <2>2, Products
      <4> DEFINE at == args_at + NumSize * (i + 1)
      <4>2. at \in Nat
        BY <1>1, <2>2, <4>1
      <4> HIDE DEF at
      <4>3. Num(at) \in Nat
        BY <1>1, <4>2
      <4>4. args_at + Num(at) \in Nat
        BY <2>2, <4>3
      <4>5. QED
        BY <4>4 DEF ArgStart, at
    <3>2. ArgStart(item) \in Nat /\ ArgStart(item + 1) \in Nat
      BY <1>4, <3>1
    <3>3. QED
      BY <1>1, <3>2 DEF ArgEnd
  <2>6. ArgEnd(item) - ArgStart(item) >= NumSize
    BY <2>4 DEF BytesFit
  <2>7. read' \in [ lo : Nat, hi : Nat ] /\ ReadsInside' /\ item' \in Nat
    <3>1. /\ ArgStart(item) + NumSize \in Nat /\ ArgEnd(item) \in Nat
          /\ ArgStart(item) + NumSize <= ArgEnd(item) /\ ArgEnd(item) <= Size
      <4>1. \A a, n \in Nat, b, c \in Int : b - a >= n /\ b <= c => a + n \in Nat /\ a + n <= b /\ b <= c
        OBVIOUS
      <4>2. QED
        BY <1>0, <2>4, <2>5, <2>6, <4>1
    <3>2. read'.lo = ArgStart(item) + NumSize /\ read'.hi = ArgEnd(item)
      BY <2>1
    <3>3. read' \in [ lo : Nat, hi : Nat ]
      BY <2>1, <3>1
    <3>4. ReadsInside'
      BY <1>3, <3>1, <3>2 DEF ReadsInside
    <3>5. QED
      BY <1>4, <2>1, <3>3, <3>4
  <2>8. QED
    BY <1>1, <1>2, <1>3, <2>1, <2>2, <2>7 DEF IInv, HeaderInv, PartsInv
<1>12. CASE EndArgs
  BY <1>1, <1>2, <1>3, <1>4, <1>12
     DEF EndArgs, At, IInv, ReadsInside, HeaderInv, PartsInv
<1>13. CASE TakeSource
  <2>1. /\ pc = "take" /\ pc' = "taken" /\ args_at' = args_at /\ item' = item
        /\ read' = [ lo |-> SourceAt + NumSize, hi |-> args_at ]
    BY <1>13 DEF TakeSource, At, Reads
  <2>2. args_at \in Nat /\ SourceAt <= args_at /\ args_at <= Size /\ SourceFits /\ VectorFits
        /\ Size >= 3 * NumSize /\ SourceAt = 3 * NumSize
    BY <1>4, <2>1 DEF HeaderInv, PartsInv
  <2>3. args_at - SourceAt >= NumSize
    BY <2>2 DEF SourceFits
  <2>4. read' \in [ lo : Nat, hi : Nat ] /\ ReadsInside'
    BY <1>1, <1>3, <2>1, <2>2, <2>3 DEF ReadsInside
  <2>5. QED
    BY <1>1, <1>2, <1>3, <1>4, <2>1, <2>2, <2>4 DEF IInv, HeaderInv, PartsInv
<1>14. CASE UNCHANGED vars
  BY <1>1, <1>2, <1>3, <1>4, <1>14 DEF vars, IInv, ReadsInside, HeaderInv, PartsInv
<1>15. QED
  BY <1>5, <1>6, <1>7, <1>8, <1>9, <1>10, <1>11, <1>12, <1>13, <1>14 DEF Next, Verify

\* What the checks have shown stays true for the reads that rely on it.
THEOREM Invariance == Spec => []IInv
  BY InitHolds, StepHolds, PTL DEF Spec

\* No cell outside of the text is looked at, neither by MolReader_Input_verify nor by
\* the loader after it (schema/args.h:83-153, c/glue.h:569-627).
THEOREM NothingReadOutside == Spec => []ReadsInside
<1>1. IInv => ReadsInside
  BY DEF IInv
<1>2. QED
  BY <1>1, Invariance, PTL

-----------------------------------------------------------------------------
(* Pieces of a text *)

\* A piece is a sequence of cells.
LEMMA PieceIs ==
  ASSUME text \in Seq(Cell), NEW lo \in Nat, NEW hi \in Nat, lo <= hi
  PROVE  /\ Cells(lo, hi) \in Seq(Cell) /\ Len(Cells(lo, hi)) = hi - lo
         /\ \A k \in 1 .. hi - lo : Cells(lo, hi)[k] = CellAt(lo + k - 1)
<1>1. SUFFICES ASSUME NEW n, n = hi - lo, NEW c, c = Cells(lo, hi)
               PROVE  c \in Seq(Cell) /\ Len(c) = n /\ \A k \in 1 .. n : c[k] = CellAt(lo + k - 1)
  OBVIOUS
<1>2. n \in Nat /\ \A k \in 1 .. n : lo + k - 1 \in Nat
  BY <1>1
<1>3. c = [ k \in 1 .. n |-> CellAt(lo + k - 1) ]
  BY <1>1 DEF Cells
<1>4. \A k \in 1 .. n : CellAt(lo + k - 1) \in Cell
  BY <1>2, CellsHold
<1>5. c \in [ 1 .. n -> Cell ]
  BY <1>3, <1>4
<1>6. c \in Seq(Cell) /\ Len(c) = n
  BY <1>2, <1>5
<1>7. QED
  BY <1>3, <1>6

\* Two pieces, one after the other.
LEMMA PiecesJoin ==
  ASSUME text \in Seq(Cell), NEW lo \in Nat, NEW mid \in Nat, NEW hi \in Nat, lo <= mid, mid <= hi
  PROVE  Cells(lo, mid) \o Cells(mid, hi) = Cells(lo, hi)
<1>1. SUFFICES ASSUME NEW a, a = Cells(lo, mid), NEW b, b = Cells(mid, hi), NEW c, c = Cells(lo, hi)
               PROVE  a \o b = c
  OBVIOUS
<1>2. /\ a \in Seq(Cell) /\ Len(a) = mid - lo /\ \A k \in 1 .. mid - lo : a[k] = CellAt(lo + k - 1)
      /\ b \in Seq(Cell) /\ Len(b) = hi - mid /\ \A k \in 1 .. hi - mid : b[k] = CellAt(mid + k - 1)
      /\ c \in Seq(Cell) /\ Len(c) = hi - lo /\ \A k \in 1 .. hi - lo : c[k] = CellAt(lo + k - 1)
  <2>1. lo <= hi
    OBVIOUS
  <2>2. a \in Seq(Cell) /\ Len(a) = mid - lo /\ \A k \in 1 .. mid - lo : a[k] = CellAt(lo + k - 1)
    BY <1>1, PieceIs
  <2>3. b \in Seq(Cell) /\ Len(b) = hi - mid /\ \A k \in 1 .. hi - mid : b[k] = CellAt(mid + k - 1)
    BY <1>1, PieceIs
  <2>4. c \in Seq(Cell) /\ Len(c) = hi - lo /\ \A k \in 1 .. hi - lo : c[k] = CellAt(lo + k - 1)
    BY <1>1, <2>1, PieceIs
  <2>5. QED
    BY <2>2, <2>3, <2>4
<1>3. /\ a \o b \in Seq(Cell) /\ Len(a \o b) = hi - lo
      /\ \A i \in 1 .. hi - lo : (a \o b)[i] = IF i <= mid - lo THEN a[i] ELSE b[i - (mid - lo)]
  <2>1. /\ a \o b \in Seq(Cell) /\ Len(a \o b) = Len(a) + Len(b)
        /\ \A i \in 1 .. Len(a) + Len(b) : (a \o b)[i] = IF i <= Len(a) THEN a[i] ELSE b[i - Len(a)]
    BY <1>2, ConcatProperties
  <2>2. Len(a) + Len(b) = hi - lo
    BY <1>2
  <2>3. QED
    BY <1>2, <2>1, <2>2
<1>4. ASSUME NEW i \in 1 .. hi - lo
      PROVE  (a \o b)[i] = c[i]
  <2>1. CASE i <= mid - lo
    BY <1>2, <1>3, <2>1
  <2>2. CASE ~ (i <= mid - lo)
    <3>1. SUFFICES ASSUME NEW j, j = i - (mid - lo) PROVE (a \o b)[i] = c[i]
      OBVIOUS
    <3>2. j \in 1 .. hi - mid /\ mid + j - 1 = lo + i - 1
      BY <2>2, <3>1
    <3>3. QED
      BY <1>2, <1>3, <2>2, <3>1, <3>2
  <2>3. QED
    BY <2>1, <2>2
<1>5. QED
  BY <1>2, <1>3, <1>4, SeqEqual

\* The whole text.
LEMMA WholeText ==
  ASSUME text \in Seq(Cell)
  PROVE  Cells(0, Size) = text
<1>1. Size \in Nat /\ Size = Len(text)
  BY LenProperties DEF Size
<1>2. /\ Cells(0, Size) \in Seq(Cell) /\ Len(Cells(0, Size)) = Size
      /\ \A k \in 1 .. Size : Cells(0, Size)[k] = CellAt(0 + k - 1)
  <2>1. 0 <= Size /\ Size - 0 = Size
    BY <1>1
  <2>2. QED
    BY <1>1, <2>1, PieceIs
<1>3. ASSUME NEW k \in 1 .. Size PROVE CellAt(0 + k - 1) = text[k]
  <2>1. 0 + k - 1 < Size /\ 0 + k - 1 + 1 = k
    BY <1>1
  <2>2. QED
    BY <2>1 DEF CellAt
<1>4. QED
  BY <1>1, <1>2, <1>3, SeqEqual

\* A number read in the text, packed again, is the piece it was read from.
LEMMA NumberPiece ==
  ASSUME text \in Seq(Cell), NEW at \in Nat, NEW n \in Nat
  PROVE  Digits(Value(at, n), n) = Cells(at, at + n)
<1>1. Value(at, n) \in Nat /\ \A k \in 1 .. n : Digits(Value(at, n), n)[k] = CellAt(at + k - 1)
  BY NumberRead
<1>2. Digits(Value(at, n), n) \in [ 1 .. n -> Cell ]
  BY <1>1, DigitsStep
<1>3. Cells(at, at + n) = [ k \in 1 .. n |-> CellAt(at + k - 1) ]
  <2>1. at + n - at = n
    OBVIOUS
  <2>2. QED
    BY <2>1 DEF Cells
<1>4. QED
  BY <1>1, <1>2, <1>3

-----------------------------------------------------------------------------
(* Sequences in a row *)

\* The first i of some sequences in one, for every i.
Joined(f, seqs) ==
  f[0] = << >> /\ \A i \in 1 .. Len(seqs) : f[i] = f[i - 1] \o seqs[i]

\* They can be joined.
LEMMA JoinedIs ==
  ASSUME NEW S, NEW seqs \in Seq(Seq(S))
  PROVE  \E f \in [ 0 .. Len(seqs) -> Seq(S) ] : Joined(f, seqs)
<1> DEFINE step == [ x \in Nat \X Seq(S) |-> IF x[1] \in 1 .. Len(seqs) THEN x[2] \o seqs[x[1]] ELSE x[2] ]
<1>0. Len(seqs) \in Nat /\ \A i \in 1 .. Len(seqs) : seqs[i] \in Seq(S)
  BY LenProperties, ElementOfSeq
<1>1. step \in [ Nat \X Seq(S) -> Seq(S) ]
  <2>1. \A x \in Nat \X Seq(S) : x[2] \in Seq(S)
    OBVIOUS
  <2>2. \A s, t \in Seq(S) : s \o t \in Seq(S)
    BY ConcatProperties
  <2>3. \A x \in Nat \X Seq(S) : x[1] \in 1 .. Len(seqs) => x[2] \o seqs[x[1]] \in Seq(S)
    BY <1>0, <2>1, <2>2
  <2>4. QED
    BY <2>1, <2>3
<1>2. Recursive(Seq(S), << >>, step, Len(seqs)) # {}
  <2>1. << >> \in Seq(S)
    BY EmptySeq
  <2> HIDE DEF step
  <2>2. QED
    BY <1>0, <1>1, <2>1, Recursion
<1>3. PICK f \in [ 0 .. Len(seqs) -> Seq(S) ] :
        \A k \in 0 .. Len(seqs) : f[k] = IF k = 0 THEN << >> ELSE step[<< k, f[k - 1] >>]
  <2> HIDE DEF step
  <2>1. QED
    BY <1>2 DEF Recursive
<1>4. ASSUME NEW k \in 1 .. Len(seqs)
      PROVE  f[k] = f[k - 1] \o seqs[k]
  <2>1. k \in 0 .. Len(seqs) /\ k # 0 /\ k - 1 \in 0 .. Len(seqs) /\ k \in Nat
    BY <1>0
  <2>2. f[k] = step[<< k, f[k - 1] >>] /\ f[k - 1] \in Seq(S)
    <3> HIDE DEF step
    <3>1. QED
      BY <1>3, <2>1
  <2>3. step[<< k, f[k - 1] >>] = f[k - 1] \o seqs[k]
    BY <2>1, <2>2
  <2>4. QED
    BY <2>2, <2>3
<1>5. f[0] = << >>
  <2>1. 0 \in 0 .. Len(seqs)
    BY <1>0
  <2>2. SUFFICES ASSUME NEW j, j = 0 PROVE f[j] = << >>
    OBVIOUS
  <2> HIDE DEF step
  <2>3. QED
    BY <1>3, <2>1, <2>2
<1>6. QED
  BY <1>4, <1>5 DEF Joined

\* What FlattenSeq gives is the last of them.
LEMMA FlattenIs ==
  ASSUME NEW S, NEW seqs \in Seq(Seq(S)), NEW f, Joined(f, seqs)
  PROVE  FlattenSeq(seqs) = f[Len(seqs)]
<1>1. SUFFICES ASSUME NEW n, n = Len(seqs)
               PROVE  FlattenSeq(seqs) = f[n]
  OBVIOUS
<1>2. n \in Nat /\ (\A i \in 1 .. n : seqs[i] \in Seq(S)) /\ f[0] = << >> /\ \A i \in 1 .. n : f[i] = f[i - 1] \o seqs[i]
  BY <1>1, LenProperties, ElementOfSeq DEF Joined
<1>3. CASE n = 0
  <2>1. seqs = << >>
    BY <1>1, <1>3, EmptySeq
  <2>2. FlattenSeq(seqs) = seqs
    BY <1>1, <1>3 DEF FlattenSeq
  <2>3. QED
    BY <1>2, <1>3, <2>1, <2>2
<1>4. CASE n # 0
  <2> DEFINE Rec(g) == g = [ i \in 1 .. n |-> IF i = 1 THEN seqs[i] ELSE g[i - 1] \o seqs[i] ]
  <2>1. f[1] = seqs[1]
    <3>1. 1 \in 1 .. n /\ 1 - 1 = 0
      BY <1>2, <1>4
    <3>2. f[1] = << >> \o seqs[1]
      BY <1>2, <3>1
    <3>3. QED
      BY <1>2, <3>1, <3>2, ConcatEmptySeq
  <2>2. \E g : Rec(g)
    <3>1. SUFFICES ASSUME NEW g, g = [ i \in 1 .. n |-> f[i] ]
                   PROVE  Rec(g)
      OBVIOUS
    <3>2. ASSUME NEW i \in 1 .. n, i # 1 PROVE g[i] = g[i - 1] \o seqs[i]
      <4>1. i - 1 \in 1 .. n
        BY <1>2, <3>2
      <4>2. QED
        BY <1>2, <3>1, <4>1
    <3>3. \A i \in 1 .. n : g[i] = IF i = 1 THEN seqs[i] ELSE g[i - 1] \o seqs[i]
      BY <2>1, <3>1, <3>2
    <3>4. QED
      BY <3>1, <3>3
  <2> DEFINE h == CHOOSE g : Rec(g)
  <2>3. Rec(h)
    BY <2>2
  <2>4. FlattenSeq(seqs) = h[n]
    BY <1>1, <1>4 DEF FlattenSeq
  <2> HIDE DEF h
  <2>5. \A i \in 1 .. n : h[i] = IF i = 1 THEN seqs[i] ELSE h[i - 1] \o seqs[i]
    <3>1. SUFFICES ASSUME NEW g, Rec(g)
                   PROVE  \A i \in 1 .. n : g[i] = IF i = 1 THEN seqs[i] ELSE g[i - 1] \o seqs[i]
      BY <2>3
    <3>2. QED
      BY <3>1
  <2> HIDE DEF Rec
  <2> DEFINE T == { i \in Nat : i + 1 <= n => h[i + 1] = f[i + 1] }
  <2>6. 0 \in T
    <3>1. 1 \in 1 .. n
      BY <1>2, <1>4
    <3>2. h[1] = seqs[1]
      BY <2>5, <3>1
    <3>3. QED
      BY <2>1, <3>2
  <2>7. ASSUME NEW i \in Nat, i \in T PROVE i + 1 \in T
    <3>1. SUFFICES ASSUME i + 1 + 1 <= n PROVE h[i + 1 + 1] = f[i + 1 + 1]
      BY <2>7
    <3>2. SUFFICES ASSUME NEW j, j = i + 1, NEW k, k = i + 1 + 1 PROVE h[k] = f[k]
      OBVIOUS
    <3>3. k \in 1 .. n /\ k # 1 /\ k - 1 = j /\ j <= n
      BY <1>2, <3>1, <3>2
    <3>4. h[k] = h[j] \o seqs[k] /\ f[k] = f[j] \o seqs[k]
      BY <1>2, <2>5, <3>3
    <3>5. h[j] = f[j]
      BY <2>7, <3>2, <3>3
    <3>6. QED
      BY <3>4, <3>5
  <2>8. \A i \in Nat : i \in T
    <3> HIDE DEF T
    <3>1. QED
      BY <2>6, <2>7, Induction
  <2>9. n - 1 \in Nat /\ n - 1 + 1 = n
    BY <1>2, <1>4
  <2>10. h[n] = f[n]
    <3>1. n - 1 \in T
      BY <2>8, <2>9
    <3>2. h[n - 1 + 1] = f[n - 1 + 1]
      BY <1>2, <2>9, <3>1
    <3>3. QED
      BY <2>9, <3>2
  <2>11. QED
    BY <2>4, <2>10
<1>5. QED
  BY <1>3, <1>4

\* The first few sequences give the one that belongs to them.
LEMMA FlattenFirst ==
  ASSUME NEW S, NEW seqs \in Seq(Seq(S)), NEW f, Joined(f, seqs), NEW m \in 0 .. Len(seqs)
  PROVE  FlattenSeq(SubSeq(seqs, 1, m)) = f[m]
<1>1. SUFFICES ASSUME NEW s, s = SubSeq(seqs, 1, m)
               PROVE  FlattenSeq(s) = f[m]
  OBVIOUS
<1>2. Len(seqs) \in Nat /\ m \in Nat /\ \A i \in 1 .. m : seqs[i] \in Seq(S)
  BY LenProperties, ElementOfSeq
<1>3. /\ s \in Seq(Seq(S)) /\ Len(s) = m /\ \A i \in 1 .. m : s[i] = seqs[i]
  BY <1>1, <1>2, SubSeqProperties
<1>4. Joined(f, s)
  <2>1. \A i \in 1 .. m : i \in 1 .. Len(seqs)
    BY <1>2
  <2>2. QED
    BY <1>3, <2>1 DEF Joined
<1>5. QED
  BY <1>3, <1>4, FlattenIs

\* Numbers, packed.
LEMMA PackIs ==
  \A m, n \in Nat : Digits(m, n) \in Seq(Cell) /\ Len(Digits(m, n)) = n
<1> TAKE m, n \in Nat
<1>1. Digits(m, n) \in [ 1 .. n -> Cell ]
  BY DigitsStep
<1>2. QED
  BY <1>1

\* The text has s between two places.
Piece(lo, hi, s) ==
  /\ lo \in Nat /\ s \in Seq(Cell) /\ hi = lo + Len(s)
  /\ \A k \in 1 .. Len(s) : CellAt(lo + k - 1) = s[k]

\* What that says of the cells.
LEMMA PieceCells ==
  ASSUME text \in Seq(Cell), NEW lo, NEW hi, NEW s, Piece(lo, hi, s)
  PROVE  /\ lo \in Nat /\ hi \in Nat /\ lo <= hi /\ s \in Seq(Cell)
         /\ Len(s) \in Nat /\ hi = lo + Len(s) /\ Len(s) = hi - lo /\ Cells(lo, hi) = s
<1>1. /\ lo \in Nat /\ s \in Seq(Cell) /\ hi = lo + Len(s) /\ Len(s) \in Nat
      /\ \A k \in 1 .. Len(s) : CellAt(lo + k - 1) = s[k]
  BY LenProperties DEF Piece
<1>2. hi \in Nat /\ lo <= hi /\ hi - lo = Len(s)
  BY <1>1
<1>3. /\ Cells(lo, hi) \in Seq(Cell) /\ Len(Cells(lo, hi)) = hi - lo
      /\ \A k \in 1 .. hi - lo : Cells(lo, hi)[k] = CellAt(lo + k - 1)
  BY <1>1, <1>2, PieceIs
<1>4. Cells(lo, hi) = s
  BY <1>1, <1>2, <1>3, SeqEqual
<1>5. QED
  BY <1>1, <1>2, <1>4

\* Between any two places there is what the cells say.
LEMMA PieceAt ==
  ASSUME text \in Seq(Cell), NEW lo \in Nat, NEW hi \in Nat, lo <= hi
  PROVE  Piece(lo, hi, Cells(lo, hi))
<1>1. SUFFICES ASSUME NEW s, s = Cells(lo, hi)
               PROVE  Piece(lo, hi, s)
  OBVIOUS
<1>2. s \in Seq(Cell) /\ Len(s) = hi - lo /\ \A k \in 1 .. hi - lo : s[k] = CellAt(lo + k - 1)
  BY <1>1, PieceIs
<1>3. QED
  BY <1>2 DEF Piece

\* One sequence after the other.
LEMMA PieceSplits ==
  ASSUME text \in Seq(Cell), NEW a \in Seq(Cell), NEW b \in Seq(Cell), NEW lo, NEW hi,
         Piece(lo, hi, a \o b)
  PROVE  \E mid : Piece(lo, mid, a) /\ Piece(mid, hi, b)
<1>1. SUFFICES ASSUME NEW n, n = Len(a), NEW m, m = Len(b), NEW mid, mid = lo + n
               PROVE  Piece(lo, mid, a) /\ Piece(mid, hi, b)
  OBVIOUS
<1>2. n \in Nat /\ m \in Nat
  BY <1>1, LenProperties
<1>3. /\ Len(a \o b) = n + m
      /\ \A i \in 1 .. n + m : (a \o b)[i] = IF i <= n THEN a[i] ELSE b[i - n]
  BY <1>1, ConcatProperties
<1>4. /\ lo \in Nat /\ hi = lo + (n + m)
      /\ \A k \in 1 .. n + m : CellAt(lo + k - 1) = (a \o b)[k]
  <2>1. /\ lo \in Nat /\ hi = lo + Len(a \o b)
        /\ \A k \in 1 .. Len(a \o b) : CellAt(lo + k - 1) = (a \o b)[k]
    BY DEF Piece
  <2>2. QED
    BY <1>3, <2>1
<1>5. Piece(lo, mid, a)
  <2>1. ASSUME NEW k \in 1 .. n PROVE CellAt(lo + k - 1) = a[k]
    <3>1. k \in 1 .. n + m /\ k <= n
      BY <1>2
    <3>2. QED
      BY <1>3, <1>4, <3>1
  <2>2. QED
    BY <1>1, <1>4, <2>1 DEF Piece
<1>6. Piece(mid, hi, b)
  <2>1. ASSUME NEW k \in 1 .. m PROVE CellAt(mid + k - 1) = b[k]
    <3>1. SUFFICES ASSUME NEW j, j = n + k PROVE CellAt(mid + k - 1) = b[k]
      OBVIOUS
    <3>2. j \in 1 .. n + m /\ ~ (j <= n) /\ j - n = k /\ lo + j - 1 = mid + k - 1
      BY <1>1, <1>2, <1>4, <3>1
    <3>3. QED
      BY <1>3, <1>4, <3>2
  <2>2. mid \in Nat /\ hi = mid + m
    BY <1>1, <1>2, <1>4
  <2>3. QED
    BY <1>1, <2>1, <2>2 DEF Piece
<1>7. QED
  BY <1>5, <1>6

\* And back.
LEMMA PiecesMeet ==
  ASSUME text \in Seq(Cell), NEW a, NEW b, NEW lo, NEW mid, NEW hi, Piece(lo, mid, a), Piece(mid, hi, b)
  PROVE  Piece(lo, hi, a \o b)
<1>1. /\ lo \in Nat /\ mid \in Nat /\ hi \in Nat /\ lo <= mid /\ mid <= hi
      /\ Cells(lo, mid) = a /\ Cells(mid, hi) = b
  BY PieceCells
<1>2. Cells(lo, hi) = a \o b /\ lo <= hi
  <2>1. Cells(lo, mid) \o Cells(mid, hi) = Cells(lo, hi)
    BY <1>1, PiecesJoin
  <2>2. lo <= hi
    BY <1>1
  <2>3. QED
    BY <1>1, <2>1, <2>2
<1>3. Piece(lo, hi, Cells(lo, hi))
  BY <1>1, <1>2, PieceAt
<1>4. QED
  BY <1>2, <1>3

\* The number that was read somewhere is there, packed.
LEMMA NumberThere ==
  ASSUME text \in Seq(Cell), NEW at \in Nat, NEW n \in Nat
  PROVE  Piece(at, at + n, Digits(Value(at, n), n))
<1>1. Digits(Value(at, n), n) = Cells(at, at + n)
  BY NumberPiece
<1>2. Piece(at, at + n, Cells(at, at + n))
  <2>1. at + n \in Nat /\ at <= at + n
    OBVIOUS
  <2>2. QED
    BY <2>1, PieceAt
<1>3. QED
  BY <1>1, <1>2

\* A number that is there, packed, is read.
LEMMA PieceRead ==
  ASSUME text \in Seq(Cell), NEW at, NEW hi, NEW n \in Nat, NEW m \in Nat, m < Power(n),
         Piece(at, hi, Digits(m, n))
  PROVE  at \in Nat /\ hi = at + n /\ Value(at, n) = m
<1>1. Digits(m, n) \in Seq(Cell) /\ Len(Digits(m, n)) = n
  BY PackIs
<1>2. at \in Nat /\ hi = at + n /\ \A k \in 1 .. n : CellAt(at + k - 1) = Digits(m, n)[k]
  BY <1>1 DEF Piece
<1>3. QED
  BY <1>2, NumberKept

\* Between two places there is a piece for each of some sequences; c has the places.
Row(lo, hi, seqs, c) ==
  /\ c \in [ 0 .. Len(seqs) -> Nat ] /\ c[0] = lo /\ c[Len(seqs)] = hi
  /\ \A i \in 1 .. Len(seqs) : Piece(c[i - 1], c[i], seqs[i])

\* The first few, joined, are a piece.
LEMMA RowJoins ==
  ASSUME text \in Seq(Cell), NEW seqs \in Seq(Seq(Cell)), NEW f, Joined(f, seqs),
         NEW lo \in Nat, NEW hi, NEW c, Row(lo, hi, seqs, c)
  PROVE  \A i \in 0 .. Len(seqs) : Piece(lo, c[i], f[i])
<1>1. SUFFICES ASSUME NEW n, n = Len(seqs)
               PROVE  \A i \in 0 .. n : Piece(lo, c[i], f[i])
  OBVIOUS
<1>2. /\ n \in Nat /\ c[0] = lo /\ f[0] = << >>
      /\ \A i \in 1 .. n : Piece(c[i - 1], c[i], seqs[i]) /\ f[i] = f[i - 1] \o seqs[i]
  BY <1>1, LenProperties DEF Row, Joined
<1> DEFINE S == { i \in Nat : i <= n => Piece(lo, c[i], f[i]) }
<1>3. 0 \in S
  <2>1. Piece(lo, lo, << >>)
    <3>1. << >> \in Seq(Cell) /\ Len(<< >>) = 0
      BY EmptySeq
    <3>2. QED
      BY <3>1 DEF Piece
  <2>2. QED
    BY <1>2, <2>1
<1>4. ASSUME NEW i \in Nat, i \in S PROVE i + 1 \in S
  <2>1. SUFFICES ASSUME i + 1 <= n PROVE Piece(lo, c[i + 1], f[i + 1])
    BY <1>4
  <2>2. SUFFICES ASSUME NEW j, j = i + 1 PROVE Piece(lo, c[j], f[j])
    OBVIOUS
  <2>3. j \in 1 .. n /\ j - 1 = i /\ i <= n
    BY <1>2, <2>1, <2>2
  <2>4. Piece(c[i], c[j], seqs[j]) /\ f[j] = f[i] \o seqs[j] /\ Piece(lo, c[i], f[i])
    BY <1>2, <1>4, <2>3
  <2>5. Piece(lo, c[j], f[i] \o seqs[j])
    BY <2>4, PiecesMeet
  <2>6. QED
    BY <2>4, <2>5
<1>5. \A i \in Nat : i \in S
  <2> HIDE DEF S
  <2>1. QED
    BY <1>3, <1>4, Induction
<1>6. QED
  BY <1>5

\* What is a piece when joined is a row of pieces.
LEMMA RowIs ==
  ASSUME text \in Seq(Cell), NEW seqs \in Seq(Seq(Cell)), NEW lo \in Nat, NEW hi,
         Piece(lo, hi, FlattenSeq(seqs))
  PROVE  \E c : Row(lo, hi, seqs, c)
<1>1. PICK f \in [ 0 .. Len(seqs) -> Seq(Cell) ] : Joined(f, seqs)
  BY JoinedIs
<1>2. FlattenSeq(seqs) = f[Len(seqs)]
  BY <1>1, FlattenIs
<1>3. SUFFICES ASSUME NEW n, n = Len(seqs), n \in Nat
               PROVE  \E c : Row(lo, hi, seqs, c)
  BY LenProperties
<1>4. /\ f[0] = << >>
      /\ \A i \in 1 .. n : i - 1 \in 0 .. n /\ f[i - 1] \in Seq(Cell) /\ seqs[i] \in Seq(Cell)
                           /\ f[i] = f[i - 1] \o seqs[i]
  <2>1. \A i \in 1 .. n : i - 1 \in 0 .. n
    BY <1>3
  <2>2. \A i \in 0 .. n : f[i] \in Seq(Cell)
    BY <1>1, <1>3
  <2>3. f[0] = << >> /\ \A i \in 1 .. n : seqs[i] \in Seq(Cell) /\ f[i] = f[i - 1] \o seqs[i]
    BY <1>1, <1>3, ElementOfSeq DEF Joined
  <2>4. QED
    BY <2>1, <2>2, <2>3
<1> DEFINE Up(c, i, h) == /\ c \in [ 0 .. i -> Nat ] /\ c[0] = lo /\ c[i] = h
                          /\ \A k \in 1 .. i : Piece(c[k - 1], c[k], seqs[k])
           S == { i \in Nat : i <= n => \A h : Piece(lo, h, f[i]) => \E c : Up(c, i, h) }
<1>5. 0 \in S
  <2>1. ASSUME NEW h, Piece(lo, h, f[0]) PROVE \E c : Up(c, 0, h)
    <3>1. h = lo
      <4>1. h = lo + Len(<< >>) /\ Len(<< >>) = 0
        BY <1>4, <2>1 DEF Piece
      <4>2. QED
        BY <4>1
    <3>2. Up([ k \in 0 .. 0 |-> lo ], 0, h)
      BY <3>1
    <3>3. QED
      BY <3>2
  <2> HIDE DEF Up
  <2>2. QED
    BY <2>1
<1>6. ASSUME NEW i \in Nat, i \in S PROVE i + 1 \in S
  <2>1. SUFFICES ASSUME NEW j, j = i + 1, j <= n, NEW h, Piece(lo, h, f[j])
                 PROVE  \E c : Up(c, j, h)
    <3> HIDE DEF Up
    <3>1. QED
      OBVIOUS
  <2>2. j \in 1 .. n /\ j - 1 = i /\ i <= n
    BY <1>3, <2>1
  <2>3. f[i] \in Seq(Cell) /\ seqs[j] \in Seq(Cell) /\ f[j] = f[i] \o seqs[j]
    BY <1>4, <2>2
  <2>4. PICK mid : Piece(lo, mid, f[i]) /\ Piece(mid, h, seqs[j])
    <3>1. Piece(lo, h, f[i] \o seqs[j])
      BY <2>1, <2>3
    <3> HIDE DEF S
    <3>2. QED
      BY <2>3, <3>1, PieceSplits
  <2>5. PICK d : Up(d, i, mid)
    <3> HIDE DEF Up
    <3>1. QED
      BY <1>6, <2>2, <2>4
  <2>6. h \in Nat
    <3> HIDE DEF Up
    <3>1. QED
      BY <2>4, PieceCells
  <2>7. SUFFICES ASSUME NEW c, c = [ k \in 0 .. j |-> IF k = j THEN h ELSE d[k] ]
                 PROVE  Up(c, j, h)
    <3> HIDE DEF Up
    <3>1. QED
      OBVIOUS
  <2>8. /\ d \in [ 0 .. i -> Nat ] /\ d[0] = lo /\ d[i] = mid
        /\ \A k \in 1 .. i : Piece(d[k - 1], d[k], seqs[k])
    BY <2>5
  <2>9. \A k \in 0 .. j : k = j \/ k \in 0 .. i
    BY <2>1
  <2>10. j \in 0 .. j /\ \A k \in 0 .. i : k \in 0 .. j /\ k # j
    BY <2>1
  <2>11. c[j] = h /\ \A k \in 0 .. i : c[k] = d[k]
    BY <2>7, <2>10
  <2>12. c \in [ 0 .. j -> Nat ] /\ c[0] = lo
    <3>1. \A k \in 0 .. j : c[k] \in Nat
      BY <2>6, <2>8, <2>9, <2>11
    <3>2. 0 \in 0 .. i
      OBVIOUS
    <3>3. QED
      BY <2>7, <2>8, <2>11, <3>1, <3>2
  <2>13. ASSUME NEW k \in 1 .. j PROVE Piece(c[k - 1], c[k], seqs[k])
    <3>1. CASE k = j
      <4>1. k - 1 = i /\ i \in 0 .. i
        BY <2>1, <3>1
      <4>2. QED
        BY <2>4, <2>8, <2>11, <3>1, <4>1
    <3>2. CASE k # j
      <4>1. k \in 1 .. i /\ k \in 0 .. i /\ k - 1 \in 0 .. i
        BY <2>1, <3>2
      <4>2. Piece(d[k - 1], d[k], seqs[k]) /\ c[k] = d[k] /\ c[k - 1] = d[k - 1]
        BY <2>8, <2>11, <4>1
      <4>3. QED
        BY <4>2
    <3>3. QED
      BY <3>1, <3>2
  <2>14. QED
    BY <2>11, <2>12, <2>13
<1>7. \A i \in Nat : i \in S
  <2> HIDE DEF S
  <2>1. QED
    BY <1>5, <1>6, Induction
<1>8. \E c : Up(c, n, hi)
  <2> HIDE DEF Up
  <2>1. n <= n /\ Piece(lo, hi, f[n])
    BY <1>2, <1>3
  <2>2. QED
    BY <1>3, <1>7, <2>1
<1>9. QED
  BY <1>3, <1>8 DEF Row

\* A number is larger than the cells it takes.
LEMMA NumbersAreLarge ==
  /\ NumMod \in Nat /\ NumSize < NumMod /\ NumMod = Power(NumSize) /\ 1 < NumMod
<1> DEFINE S == { n \in Nat : n < Power(n) }
<1>1. 0 \in S
  <2>1. Power(0) = 1
    BY Powers
  <2>2. QED
    BY <2>1
<1>2. ASSUME NEW n \in Nat, n \in S PROVE n + 1 \in S
  <2>1. Power(n) \in Nat /\ Power(n) >= 1 /\ Power(n + 1) = Base * Power(n) /\ n < Power(n)
    BY <1>2, Powers
  <2>2. \A b, p \in Nat : b > 1 /\ p >= 1 => p + 1 <= b * p /\ b * p \in Nat
    OBVIOUS
  <2>3. Base \in Nat /\ Base > 1
    BY Division
  <2>4. Power(n) + 1 <= Power(n + 1) /\ Power(n + 1) \in Nat
    BY <2>1, <2>2, <2>3
  <2>5. QED
    BY <2>1, <2>4
<1>3. \A n \in Nat : n \in S
  <2> HIDE DEF S
  <2>1. QED
    BY <1>1, <1>2, Induction
<1>4. NumSize \in Nat /\ NumSize >= 1
  BY Division
<1>5. NumSize < Power(NumSize)
  BY <1>3, <1>4
<1>6. Power(NumSize) \in Nat
  BY <1>4, Powers
<1>7. QED
  BY <1>4, <1>5, <1>6 DEF NumMod

\* A count that agrees with the room there is, agrees with no remainder taken.
LEMMA BytesFitIs ==
  ASSUME text \in Seq(Cell), NEW lo \in Nat, NEW hi \in Int, hi - lo < NumMod, BytesFit(lo, hi)
  PROVE  hi \in Nat /\ lo + NumSize <= hi /\ Num(lo) = hi - (lo + NumSize)
<1>1. NumMod \in Nat /\ NumSize < NumMod /\ NumSize \in Nat /\ NumMod = Power(NumSize)
  BY NumbersAreLarge, Division
<1>2. Num(lo) \in Nat /\ Num(lo) < NumMod
  BY <1>1, NumberRead DEF Num
<1>3. hi - lo >= NumSize /\ (NumSize + Num(lo)) % NumMod = hi - lo
  BY DEF BytesFit
<1>4. \A m, n, v \in Nat : n < m /\ v < m /\ (n + v) % m >= n => (n + v) % m = n + v
  <2>1. SUFFICES ASSUME NEW m \in Nat, NEW n \in Nat, NEW v \in Nat, n < m, v < m, (n + v) % m >= n
                 PROVE  (n + v) % m = n + v
    OBVIOUS
  <2>2. CASE n + v < m
    BY <2>1, <2>2
  <2>3. CASE ~ (n + v < m)
    <3>1. (n + v) % m = n + v - m
      BY <2>1, <2>3
    <3>2. QED
      BY <2>1, <3>1
  <2>4. QED
    BY <2>2, <2>3
<1>5. NumSize + Num(lo) = hi - lo
  BY <1>1, <1>2, <1>3, <1>4
<1>6. QED
  BY <1>1, <1>2, <1>5

\* Bytes, with their count.
LEMMA EncodedBytes ==
  ASSUME NEW code \in Seq(Cell)
  PROVE  /\ EncodeBytes(code) \in Seq(Cell) /\ Len(code) \in Nat
         /\ Len(EncodeBytes(code)) = NumSize + Len(code)
         /\ Pack(Len(code)) \in Seq(Cell) /\ EncodeBytes(code) = Pack(Len(code)) \o code
<1>1. Len(code) \in Nat /\ NumSize \in Nat
  BY LenProperties, Division
<1>2. Pack(Len(code)) \in Seq(Cell) /\ Len(Pack(Len(code))) = NumSize
  BY <1>1, PackIs DEF Pack
<1>3. EncodeBytes(code) = Pack(Len(code)) \o code
  BY DEF EncodeBytes
<1>4. \A s, t \in Seq(Cell) : s \o t \in Seq(Cell) /\ Len(s \o t) = Len(s) + Len(t)
  BY ConcatProperties
<1>5. QED
  BY <1>1, <1>2, <1>3, <1>4

\* Bytes that are there, behind their count.
LEMMA BytesThere ==
  ASSUME text \in Seq(Cell), NEW lo \in Nat, NEW hi \in Nat,
         lo + NumSize <= hi, Num(lo) = hi - (lo + NumSize)
  PROVE  /\ Cells(lo + NumSize, hi) \in Seq(Cell)
         /\ Piece(lo, hi, EncodeBytes(Cells(lo + NumSize, hi)))
<1>1. SUFFICES ASSUME NEW mid, mid = lo + NumSize, NEW code, code = Cells(mid, hi)
               PROVE  code \in Seq(Cell) /\ Piece(lo, hi, EncodeBytes(code))
  OBVIOUS
<1>2. NumSize \in Nat /\ mid \in Nat /\ mid <= hi /\ Num(lo) = hi - mid
  BY <1>1, Division
<1>3. code \in Seq(Cell) /\ Len(code) = hi - mid
  BY <1>1, <1>2, PieceIs
<1>4. Piece(lo, mid, Pack(Num(lo)))
  BY <1>1, <1>2, NumberThere DEF Pack, Num
<1>5. Piece(mid, hi, code)
  BY <1>1, <1>2, PieceAt
<1>6. Piece(lo, hi, Pack(Len(code)) \o code)
  BY <1>2, <1>3, <1>4, <1>5, PiecesMeet
<1>7. QED
  BY <1>3, <1>6, EncodedBytes

\* A number packed, and what is behind it.
LEMMA NumberFirst ==
  ASSUME text \in Seq(Cell), NEW m \in Nat, m < NumMod, NEW s \in Seq(Cell), NEW lo, NEW hi,
         Piece(lo, hi, Pack(m) \o s)
  PROVE  /\ lo \in Nat /\ hi \in Nat /\ lo + NumSize \in Nat /\ lo + NumSize <= hi
         /\ Num(lo) = m /\ Piece(lo + NumSize, hi, s)
<1>1. NumSize \in Nat /\ NumMod = Power(NumSize)
  BY Division, NumbersAreLarge
<1>2. Pack(m) \in Seq(Cell) /\ Pack(m) = Digits(m, NumSize)
  BY <1>1, PackIs DEF Pack
<1>3. PICK mid : Piece(lo, mid, Pack(m)) /\ Piece(mid, hi, s)
  BY <1>2, PieceSplits
<1>4. lo \in Nat /\ mid = lo + NumSize /\ Num(lo) = m
  BY <1>1, <1>2, <1>3, PieceRead DEF Num
<1>5. mid \in Nat /\ hi \in Nat /\ mid <= hi
  BY <1>3, PieceCells
<1>6. QED
  BY <1>3, <1>4, <1>5

\* Bytes that were packed are found behind their count.
LEMMA BytesRead ==
  ASSUME text \in Seq(Cell), NEW code \in Seq(Cell), NEW lo, NEW hi,
         Piece(lo, hi, EncodeBytes(code)), NumSize + Len(code) < NumMod
  PROVE  /\ lo \in Nat /\ hi \in Nat /\ lo + NumSize \in Nat /\ lo + NumSize <= hi
         /\ hi = lo + NumSize + Len(code)
         /\ Num(lo) = Len(code) /\ Cells(lo + NumSize, hi) = code /\ BytesFit(lo, hi)
<1>0. NumSize \in Nat /\ NumMod \in Nat
  BY Division, NumbersAreLarge
<1>1. Len(code) \in Nat /\ Len(code) < NumMod /\ Piece(lo, hi, Pack(Len(code)) \o code)
  <2>1. Len(code) \in Nat /\ EncodeBytes(code) = Pack(Len(code)) \o code
    BY EncodedBytes
  <2>2. \A l, n, m \in Nat : n + l < m => l < m
    OBVIOUS
  <2>3. Len(code) < NumMod
    BY <1>0, <2>1, <2>2
  <2>4. QED
    BY <2>1, <2>3
<1>2. /\ lo \in Nat /\ hi \in Nat /\ lo + NumSize \in Nat /\ lo + NumSize <= hi
      /\ Num(lo) = Len(code) /\ Piece(lo + NumSize, hi, code)
  BY <1>1, NumberFirst
<1>3. Cells(lo + NumSize, hi) = code /\ hi = lo + NumSize + Len(code)
  BY <1>2, PieceCells
<1>4. BytesFit(lo, hi)
  <2>1. \A m, n \in Nat : n < m => n % m = n
    OBVIOUS
  <2>2. (NumSize + Len(code)) % NumMod = NumSize + Len(code)
    BY <1>0, <1>1, <2>1
  <2>3. hi - lo = NumSize + Len(code)
    BY <1>0, <1>1, <1>2, <1>3
  <2>4. QED
    BY <1>0, <1>1, <1>2, <2>2, <2>3 DEF BytesFit
<1>5. QED
  BY <1>1, <1>2, <1>3, <1>4

-----------------------------------------------------------------------------
(* The source *)

\* The source that is between two places, as the loader takes it.
SourceOf(lo, hi) ==
  LET inner == lo + NumSize
  IN  IF Num(lo) = 1 THEN ExistingCell(Num(inner), Value(inner + NumSize, 2 * NumSize))
      ELSE Bytes(Cells(inner + NumSize, hi))

\* And what the verification asks of it.
SourceIsThere(lo, hi) ==
  /\ hi - lo >= NumSize
  /\ \/ Num(lo) = 0 /\ BytesFit(lo + NumSize, hi)
     \/ Num(lo) = 1 /\ hi - (lo + NumSize) = 3 * NumSize

\* The sources there are.
Sources ==
  { Bytes(code) : code \in Seq(Cell) }
  \union { ExistingCell(index, source) : index \in 0 .. NumMod - 1,
                                         source \in 0 .. Power(2 * NumSize) - 1 }

\* The cells of a source.
LEMMA EncodedSource ==
  /\ \A code \in Seq(Cell) :
       EncodeSource(Bytes(code)) = Pack(0) \o EncodeBytes(code)
  /\ \A index, source \in Nat :
       EncodeSource(ExistingCell(index, source)) = Pack(1) \o (Pack(index) \o Digits(source, 2 * NumSize))
  BY DEF EncodeSource, Bytes, ExistingCell

\* Every source has cells.
LEMMA SourceHasCells ==
  ASSUME NEW s \in Sources
  PROVE  EncodeSource(s) \in Seq(Cell) /\ Len(EncodeSource(s)) \in Nat /\ Len(EncodeSource(s)) >= NumSize
<1>1. NumSize \in Nat /\ 2 * NumSize \in Nat
  BY Division
<1>2. \A m \in Nat : Pack(m) \in Seq(Cell) /\ Len(Pack(m)) = NumSize
  BY <1>1, PackIs DEF Pack
<1>3. \A a, b \in Seq(Cell) : a \o b \in Seq(Cell) /\ Len(a \o b) = Len(a) + Len(b) /\ Len(b) \in Nat
  BY ConcatProperties, LenProperties
<1>4. ASSUME NEW tag \in Nat, NEW b \in Seq(Cell), EncodeSource(s) = Pack(tag) \o b
      PROVE  EncodeSource(s) \in Seq(Cell) /\ Len(EncodeSource(s)) \in Nat /\ Len(EncodeSource(s)) >= NumSize
  <2>1. Len(Pack(tag) \o b) = NumSize + Len(b) /\ Len(b) \in Nat /\ Pack(tag) \o b \in Seq(Cell)
    BY <1>2, <1>3
  <2>2. QED
    BY <1>1, <1>4, <2>1
<1>5. CASE \E code \in Seq(Cell) : s = Bytes(code)
  <2>1. PICK code \in Seq(Cell) : s = Bytes(code)
    BY <1>5
  <2>2. EncodeSource(s) = Pack(0) \o EncodeBytes(code) /\ EncodeBytes(code) \in Seq(Cell)
    BY <2>1, EncodedSource, EncodedBytes
  <2>3. QED
    BY <1>4, <2>2
<1>6. CASE \E index \in 0 .. NumMod - 1, source \in 0 .. Power(2 * NumSize) - 1 : s = ExistingCell(index, source)
  <2>1. PICK index \in Nat, source \in Nat : s = ExistingCell(index, source)
    BY <1>6
  <2>2. EncodeSource(s) = Pack(1) \o (Pack(index) \o Digits(source, 2 * NumSize))
    BY <2>1, EncodedSource
  <2>3. Pack(index) \o Digits(source, 2 * NumSize) \in Seq(Cell)
    BY <1>1, <1>2, <1>3, PackIs
  <2>4. QED
    BY <1>4, <2>2, <2>3
<1>7. QED
  BY <1>5, <1>6 DEF Sources

\* What the verification lets through is, cell for cell, the source the loader takes.
LEMMA SourceThere ==
  ASSUME text \in Seq(Cell), NEW lo \in Nat, NEW hi \in Nat, hi - lo < NumMod, SourceIsThere(lo, hi)
  PROVE  SourceOf(lo, hi) \in Sources /\ Piece(lo, hi, EncodeSource(SourceOf(lo, hi)))
<1>1. SUFFICES ASSUME NEW inner, inner = lo + NumSize
               PROVE  SourceOf(lo, hi) \in Sources /\ Piece(lo, hi, EncodeSource(SourceOf(lo, hi)))
  OBVIOUS
<1>2. NumSize \in Nat /\ NumSize > 0 /\ inner \in Nat /\ inner <= hi /\ inner + NumSize \in Nat
  BY <1>1, Division DEF SourceIsThere
<1>3. Piece(lo, inner, Pack(Num(lo))) /\ Piece(inner, inner + NumSize, Pack(Num(inner)))
  BY <1>1, <1>2, NumberThere DEF Pack, Num
<1>4. CASE Num(lo) = 0 /\ BytesFit(inner, hi)
  <2>1. SUFFICES ASSUME NEW code, code = Cells(inner + NumSize, hi)
                 PROVE  SourceOf(lo, hi) \in Sources /\ Piece(lo, hi, EncodeSource(SourceOf(lo, hi)))
    OBVIOUS
  <2>2. SourceOf(lo, hi) = Bytes(code)
    BY <1>1, <1>4, <2>1 DEF SourceOf
  <2>3. inner + NumSize <= hi /\ Num(inner) = hi - (inner + NumSize)
    <3>1. hi - inner < NumMod
      BY <1>1, <1>2, NumbersAreLarge
    <3>2. QED
      BY <1>2, <1>4, <3>1, BytesFitIs
  <2>4. code \in Seq(Cell) /\ Piece(inner, hi, EncodeBytes(code))
    BY <1>2, <2>1, <2>3, BytesThere
  <2>5. Piece(lo, hi, Pack(0) \o EncodeBytes(code))
    BY <1>3, <1>4, <2>4, PiecesMeet
  <2>6. Piece(lo, hi, EncodeSource(SourceOf(lo, hi)))
    BY <2>2, <2>4, <2>5, EncodedSource
  <2>7. QED
    BY <2>2, <2>4, <2>6 DEF Sources
<1>5. CASE Num(lo) = 1 /\ hi - inner = 3 * NumSize
  <2>1. SUFFICES ASSUME NEW index, index = Num(inner), NEW at, at = inner + NumSize,
                        NEW n, n = 2 * NumSize, NEW source, source = Value(at, n)
                 PROVE  SourceOf(lo, hi) \in Sources /\ Piece(lo, hi, EncodeSource(SourceOf(lo, hi)))
    OBVIOUS
  <2>2. SourceOf(lo, hi) = ExistingCell(index, source)
    BY <1>1, <1>5, <2>1 DEF SourceOf
  <2>3. at \in Nat /\ n \in Nat /\ hi = at + n
    BY <1>2, <1>5, <2>1
  <2>4. index \in Nat /\ source \in Nat /\ SourceOf(lo, hi) \in Sources
    <3>1. index \in Nat /\ index < Power(NumSize) /\ source \in Nat /\ source < Power(n)
      BY <1>2, <2>1, <2>3, NumberRead DEF Num
    <3>2. index \in 0 .. NumMod - 1 /\ source \in 0 .. Power(2 * NumSize) - 1
      <4>1. Power(n) \in Nat /\ NumMod \in Nat /\ NumMod = Power(NumSize)
        BY <2>3, Powers, NumbersAreLarge
      <4>2. QED
        BY <2>1, <3>1, <4>1
    <3>3. QED
      BY <2>2, <3>1, <3>2 DEF Sources
  <2>5. Piece(at, hi, Digits(source, n))
    BY <2>1, <2>3, NumberThere
  <2>6. Piece(inner, hi, Pack(index) \o Digits(source, n))
    BY <1>3, <2>1, <2>5, PiecesMeet
  <2>7. Piece(lo, hi, Pack(1) \o (Pack(index) \o Digits(source, n)))
    BY <1>3, <1>5, <2>6, PiecesMeet
  <2>8. EncodeSource(ExistingCell(index, source)) = Pack(1) \o (Pack(index) \o Digits(source, n))
    BY <2>1, <2>4, EncodedSource
  <2>9. QED
    BY <2>2, <2>4, <2>7, <2>8
<1>6. QED
  BY <1>1, <1>4, <1>5 DEF SourceIsThere

\* A source that was packed is let through, and taken.
LEMMA SourceRead ==
  ASSUME text \in Seq(Cell), NEW s \in Sources, NEW lo, NEW hi,
         Piece(lo, hi, EncodeSource(s)), Len(EncodeSource(s)) < NumMod
  PROVE  SourceIsThere(lo, hi) /\ SourceOf(lo, hi) = s
<1>1. NumSize \in Nat /\ NumSize > 0 /\ 2 * NumSize \in Nat /\ NumMod \in Nat /\ 1 < NumMod /\ NumMod = Power(NumSize)
  BY Division, NumbersAreLarge
<1>2. CASE \E code \in Seq(Cell) : s = Bytes(code)
  <2>1. PICK code \in Seq(Cell) : s = Bytes(code)
    BY <1>2
  <2>2. EncodeSource(s) = Pack(0) \o EncodeBytes(code) /\ EncodeBytes(code) \in Seq(Cell)
    BY <2>1, EncodedSource, EncodedBytes
  <2>3. SUFFICES ASSUME NEW inner, inner = lo + NumSize
                 PROVE  SourceIsThere(lo, hi) /\ SourceOf(lo, hi) = s
    OBVIOUS
  <2>4. /\ lo \in Nat /\ hi \in Nat /\ inner \in Nat /\ inner <= hi
        /\ Num(lo) = 0 /\ Piece(inner, hi, EncodeBytes(code))
    <3>1. 0 \in Nat /\ 0 < NumMod
      BY <1>1
    <3>2. Piece(lo, hi, Pack(0) \o EncodeBytes(code))
      BY <2>2
    <3>3. QED
      BY <2>2, <2>3, <3>1, <3>2, NumberFirst
  <2>5. NumSize + Len(code) < NumMod
    <3>1. Len(EncodeBytes(code)) = NumSize + Len(code) /\ Len(code) \in Nat
      BY EncodedBytes
    <3>2. Len(EncodeSource(s)) = hi - lo /\ Len(EncodeBytes(code)) = hi - inner
      BY <2>4, PieceCells
    <3>3. QED
      BY <1>1, <2>3, <2>4, <3>1, <3>2
  <2>6. BytesFit(inner, hi) /\ Cells(inner + NumSize, hi) = code
    BY <2>4, <2>5, BytesRead
  <2>7. SourceOf(lo, hi) = s
    BY <2>1, <2>3, <2>4, <2>6 DEF SourceOf
  <2>8. hi - lo >= NumSize
    BY <1>1, <2>3, <2>4
  <2>9. QED
    BY <2>3, <2>4, <2>6, <2>7, <2>8 DEF SourceIsThere
<1>3. CASE \E index \in 0 .. NumMod - 1, source \in 0 .. Power(2 * NumSize) - 1 : s = ExistingCell(index, source)
  <2>1. PICK index \in 0 .. NumMod - 1, source \in 0 .. Power(2 * NumSize) - 1 : s = ExistingCell(index, source)
    BY <1>3
  <2>2. SUFFICES ASSUME NEW n, n = 2 * NumSize, NEW d, d = Digits(source, n),
                        NEW inner, inner = lo + NumSize, NEW at, at = inner + NumSize
                 PROVE  SourceIsThere(lo, hi) /\ SourceOf(lo, hi) = s
    OBVIOUS
  <2>3. /\ n \in Nat /\ index \in Nat /\ index < NumMod /\ source \in Nat /\ source < Power(n)
    <3>1. n \in Nat /\ Power(n) \in Nat
      BY <1>1, <2>2, Powers
    <3>2. QED
      BY <1>1, <2>1, <2>2, <3>1
  <2>4. d \in Seq(Cell) /\ Pack(index) \o d \in Seq(Cell)
    <3>1. d \in Seq(Cell) /\ Pack(index) \in Seq(Cell)
      BY <1>1, <2>2, <2>3, PackIs DEF Pack
    <3>2. QED
      BY <3>1, ConcatProperties
  <2>5. Piece(lo, hi, Pack(1) \o (Pack(index) \o d))
    BY <2>1, <2>2, <2>3, EncodedSource
  <2>6. lo \in Nat /\ inner \in Nat /\ inner <= hi /\ Num(lo) = 1 /\ Piece(inner, hi, Pack(index) \o d)
    <3>1. 1 \in Nat /\ 1 < NumMod
      BY <1>1
    <3>2. QED
      BY <2>2, <2>4, <2>5, <3>1, NumberFirst
  <2>7. hi \in Nat /\ at \in Nat /\ Num(inner) = index /\ Piece(at, hi, d)
    BY <2>2, <2>3, <2>4, <2>6, NumberFirst
  <2>8. hi = at + n /\ Value(at, n) = source
    BY <2>2, <2>3, <2>7, PieceRead
  <2>9. SourceOf(lo, hi) = s
    BY <2>1, <2>2, <2>6, <2>7, <2>8 DEF SourceOf
  <2>10. hi - (lo + NumSize) = 3 * NumSize /\ hi - lo >= NumSize
    BY <1>1, <2>2, <2>6, <2>7, <2>8
  <2>11. QED
    BY <2>6, <2>9, <2>10 DEF SourceIsThere
<1>4. QED
  BY <1>2, <1>3 DEF Sources

-----------------------------------------------------------------------------
(* The arguments *)

\* What a row is made of, joined, is a piece.
LEMMA RowThere ==
  ASSUME text \in Seq(Cell), NEW seqs \in Seq(Seq(Cell)), NEW lo \in Nat, NEW hi, NEW c, Row(lo, hi, seqs, c)
  PROVE  Piece(lo, hi, FlattenSeq(seqs))
<1>1. PICK f \in [ 0 .. Len(seqs) -> Seq(Cell) ] : Joined(f, seqs)
  BY JoinedIs
<1>2. \A i \in 0 .. Len(seqs) : Piece(lo, c[i], f[i])
  BY <1>1, RowJoins
<1>3. FlattenSeq(seqs) = f[Len(seqs)]
  BY <1>1, FlattenIs
<1>4. Len(seqs) \in 0 .. Len(seqs) /\ c[Len(seqs)] = hi
  BY LenProperties DEF Row
<1>5. QED
  BY <1>2, <1>3, <1>4

\* The places of a row are in order.
LEMMA RowOrdered ==
  ASSUME text \in Seq(Cell), NEW seqs \in Seq(Seq(Cell)), NEW lo \in Nat, NEW hi, NEW c, Row(lo, hi, seqs, c)
  PROVE  /\ Len(seqs) \in Nat /\ lo \in Nat /\ hi \in Nat
         /\ \A i \in 0 .. Len(seqs) : c[i] \in Nat /\ lo <= c[i] /\ c[i] <= hi
         /\ \A i \in 1 .. Len(seqs) : i - 1 \in 0 .. Len(seqs) /\ c[i - 1] <= c[i]
                                      /\ c[i] = c[i - 1] + Len(seqs[i])
<1>1. SUFFICES ASSUME NEW n, n = Len(seqs)
               PROVE  /\ n \in Nat /\ lo \in Nat /\ hi \in Nat
                      /\ \A i \in 0 .. n : c[i] \in Nat /\ lo <= c[i] /\ c[i] <= hi
                      /\ \A i \in 1 .. n : i - 1 \in 0 .. n /\ c[i - 1] <= c[i] /\ c[i] = c[i - 1] + Len(seqs[i])
  OBVIOUS
<1>2. /\ n \in Nat /\ c \in [ 0 .. n -> Nat ] /\ c[0] = lo /\ c[n] = hi
      /\ \A i \in 1 .. n : Piece(c[i - 1], c[i], seqs[i])
  BY <1>1, LenProperties DEF Row
<1>3. \A i \in 0 .. n : c[i] \in Nat
  BY <1>2
<1>4. ASSUME NEW i \in 1 .. n
      PROVE  i - 1 \in 0 .. n /\ c[i - 1] <= c[i] /\ c[i] = c[i - 1] + Len(seqs[i])
  <2>1. i - 1 \in 0 .. n
    BY <1>2
  <2>2. Piece(c[i - 1], c[i], seqs[i])
    BY <1>2
  <2>3. c[i - 1] <= c[i] /\ c[i] = c[i - 1] + Len(seqs[i])
    BY <2>2, PieceCells
  <2>4. QED
    BY <2>1, <2>3
<1>5. \A i \in 0 .. n : lo <= c[i]
  <2> DEFINE S == { i \in Nat : i <= n => lo <= c[i] }
  <2>1. 0 \in S
    BY <1>2
  <2>2. ASSUME NEW i \in Nat, i \in S PROVE i + 1 \in S
    <3>1. SUFFICES ASSUME NEW j, j = i + 1, j <= n PROVE lo <= c[j]
      OBVIOUS
    <3>2. j \in 1 .. n /\ j - 1 = i /\ i <= n /\ i \in 0 .. n /\ j \in 0 .. n
      BY <1>2, <3>1
    <3>3. c[i] <= c[j] /\ lo <= c[i] /\ c[i] \in Nat /\ c[j] \in Nat
      BY <1>3, <1>4, <2>2, <3>2
    <3>4. QED
      BY <3>3
  <2>3. \A i \in Nat : i \in S
    <3> HIDE DEF S
    <3>1. QED
      BY <2>1, <2>2, Induction
  <2>4. QED
    BY <2>3
<1>6. \A i \in 0 .. n : c[i] <= hi
  <2> DEFINE S == { k \in Nat : k <= n => c[n - k] <= hi }
  <2>1. 0 \in S
    <3>1. n - 0 = n /\ n \in 0 .. n
      BY <1>2
    <3>2. c[n - 0] <= hi
      BY <1>2, <1>3, <3>1
    <3>3. QED
      BY <3>2
  <2>2. ASSUME NEW k \in Nat, k \in S PROVE k + 1 \in S
    <3>1. SUFFICES ASSUME k + 1 <= n, NEW i, i = n - k, NEW j, j = n - (k + 1) PROVE c[j] <= hi
      OBVIOUS
    <3>2. i \in 1 .. n /\ i - 1 = j /\ k <= n /\ i \in 0 .. n /\ j \in 0 .. n
      BY <1>2, <3>1
    <3>3. c[j] <= c[i] /\ c[i] <= hi /\ c[i] \in Nat /\ c[j] \in Nat /\ hi \in Nat
      <4>1. c[j] <= c[i]
        BY <1>4, <3>2
      <4>2. c[i] <= hi
        BY <2>2, <3>1, <3>2
      <4>3. c[i] \in Nat /\ c[j] \in Nat /\ hi \in Nat
        BY <1>2, <3>2
      <4>4. QED
        BY <4>1, <4>2, <4>3
    <3>4. QED
      BY <3>3
  <2>3. \A k \in Nat : k \in S
    <3> HIDE DEF S
    <3>1. QED
      BY <2>1, <2>2, Induction
  <2>4. TAKE i \in 0 .. n
  <2>5. n - i \in Nat /\ n - i <= n /\ n - (n - i) = i
    BY <1>2
  <2>6. c[n - (n - i)] <= hi
    BY <2>3, <2>5
  <2>7. QED
    BY <2>5, <2>6
<1>7. hi \in Nat
  BY <1>2
<1>8. QED
  BY <1>2, <1>3, <1>4, <1>5, <1>6, <1>7

\* The items of a vector and their offsets.
Items(args) == [ i \in DOMAIN args |-> EncodeBytes(args[i]) ]
Header(args) == NumSize * (Len(args) + 1)
Offsets(args) ==
  [ i \in DOMAIN args |-> Pack(Header(args) + Len(FlattenSeq(SubSeq(Items(args), 1, i - 1)))) ]

\* A multiple, and the next one.
LEMMA Multiples == \A a, b \in Nat : a * b \in Nat /\ a * (b + 1) = a * b + a /\ a * 0 = 0
  OBVIOUS

\* How a vector is put together: f has the items, joined.
LEMMA EncodedVec ==
  ASSUME NEW args \in Seq(Seq(Cell))
  PROVE  /\ Len(args) \in Nat /\ Header(args) \in Nat
         /\ Items(args) \in Seq(Seq(Cell)) /\ Len(Items(args)) = Len(args)
         /\ Offsets(args) \in Seq(Seq(Cell)) /\ Len(Offsets(args)) = Len(args)
         /\ \E f \in [ 0 .. Len(args) -> Seq(Cell) ] :
              /\ Joined(f, Items(args))
              /\ \A i \in 0 .. Len(args) : Header(args) + Len(f[i]) \in Nat
              /\ \A i \in 1 .. Len(args) : Offsets(args)[i] = Pack(Header(args) + Len(f[i - 1]))
              /\ EncodeVec(args) = Pack(Header(args) + Len(f[Len(args)])) \o FlattenSeq(Offsets(args))
                                   \o f[Len(args)]
<1>1. SUFFICES ASSUME NEW n, n = Len(args), NEW header, header = Header(args),
                      NEW items, items = Items(args), NEW offsets, offsets = Offsets(args)
               PROVE  /\ n \in Nat /\ header \in Nat
                      /\ items \in Seq(Seq(Cell)) /\ Len(items) = n
                      /\ offsets \in Seq(Seq(Cell)) /\ Len(offsets) = n
                      /\ \E f \in [ 0 .. n -> Seq(Cell) ] :
                           /\ Joined(f, items)
                           /\ \A i \in 0 .. n : header + Len(f[i]) \in Nat
                           /\ \A i \in 1 .. n : offsets[i] = Pack(header + Len(f[i - 1]))
                           /\ EncodeVec(args) = Pack(header + Len(f[n])) \o FlattenSeq(offsets) \o f[n]
  OBVIOUS
<1>2. n \in Nat /\ DOMAIN args = 1 .. n /\ \A i \in 1 .. n : args[i] \in Seq(Cell)
  BY <1>1, LenProperties, ElementOfSeq
<1>3. header \in Nat /\ header = NumSize * (n + 1)
  <2>1. NumSize \in Nat /\ n + 1 \in Nat
    BY <1>2, Division
  <2>2. QED
    BY <1>1, <2>1, Multiples DEF Header
<1>4. items = [ i \in 1 .. n |-> EncodeBytes(args[i]) ]
  BY <1>1, <1>2 DEF Items
<1>5. items \in Seq(Seq(Cell)) /\ Len(items) = n
  <2>1. \A i \in 1 .. n : EncodeBytes(args[i]) \in Seq(Cell)
    BY <1>2, EncodedBytes
  <2>2. items \in [ 1 .. n -> Seq(Cell) ]
    BY <1>4, <2>1
  <2>3. QED
    BY <1>2, <2>2
<1>6. PICK f \in [ 0 .. n -> Seq(Cell) ] : Joined(f, items)
  BY <1>5, JoinedIs
<1>7. \A i \in 0 .. n : FlattenSeq(SubSeq(items, 1, i)) = f[i]
  BY <1>5, <1>6, FlattenFirst
<1>8. \A i \in 0 .. n : Len(f[i]) \in Nat /\ header + Len(f[i]) \in Nat
  <2>1. \A i \in 0 .. n : Len(f[i]) \in Nat
    BY <1>6, LenProperties
  <2>2. QED
    BY <1>3, <2>1
<1>9. offsets = [ i \in 1 .. n |-> Pack(header + Len(FlattenSeq(SubSeq(items, 1, i - 1)))) ]
  BY <1>1, <1>2 DEF Offsets
<1>10. \A i \in 1 .. n : i - 1 \in 0 .. n /\ offsets[i] = Pack(header + Len(f[i - 1]))
  <2>1. TAKE i \in 1 .. n
  <2>2. i - 1 \in 0 .. n
    BY <1>2
  <2>3. FlattenSeq(SubSeq(items, 1, i - 1)) = f[i - 1]
    BY <1>7, <2>2
  <2>4. QED
    BY <1>9, <2>2, <2>3
<1>11. offsets \in Seq(Seq(Cell)) /\ Len(offsets) = n
  <2>1. \A m \in Nat : Pack(m) \in Seq(Cell)
    BY PackIs, Division DEF Pack
  <2>2. \A i \in 1 .. n : offsets[i] \in Seq(Cell)
    BY <1>8, <1>10, <2>1
  <2>3. offsets \in [ 1 .. n -> Seq(Cell) ]
    BY <1>9, <2>2
  <2>4. QED
    BY <1>2, <2>3
<1>12. EncodeVec(args) = Pack(header + Len(f[n])) \o FlattenSeq(offsets) \o f[n]
  <2>1. EncodeVec(args) = Pack(header + Len(FlattenSeq(SubSeq(items, 1, n)))) \o FlattenSeq(offsets)
                          \o FlattenSeq(SubSeq(items, 1, n))
    BY <1>1, <1>3 DEF EncodeVec, Items, Offsets, Header
  <2>2. n \in 0 .. n
    BY <1>2
  <2>3. FlattenSeq(SubSeq(items, 1, n)) = f[n]
    BY <1>7, <2>2
  <2>4. QED
    BY <2>1, <2>3
<1>13. QED
  BY <1>2, <1>3, <1>5, <1>6, <1>8, <1>10, <1>11, <1>12

\* Where the number i from lo is.
Place(lo, i) == lo + NumSize * i

\* It is a place, and one number further is the next.
LEMMA Places ==
  ASSUME NEW lo \in Nat
  PROVE  /\ Place(lo, 0) = lo
         /\ \A i \in Nat : /\ Place(lo, i) \in Nat /\ Place(lo, i + 1) = Place(lo, i) + NumSize
                          /\ Place(lo + NumSize, i) = Place(lo, i + 1)
<1>1. NumSize \in Nat
  BY Division
<1>2. \A a, b \in Nat : a * b \in Nat /\ a * (b + 1) = a * b + a /\ a * 0 = 0
  BY Multiples
<1>3. Place(lo, 0) = lo
  BY <1>1, <1>2 DEF Place
<1>4. ASSUME NEW i \in Nat
      PROVE  /\ Place(lo, i) \in Nat /\ Place(lo, i + 1) = Place(lo, i) + NumSize
             /\ Place(lo + NumSize, i) = Place(lo, i + 1)
  <2>1. SUFFICES ASSUME NEW p \in Nat, p = NumSize * i, NEW q \in Nat, q = NumSize * (i + 1), q = p + NumSize
                 PROVE  /\ Place(lo, i) \in Nat /\ Place(lo, i + 1) = Place(lo, i) + NumSize
                        /\ Place(lo + NumSize, i) = Place(lo, i + 1)
    BY <1>1, <1>2
  <2>2. Place(lo, i) = lo + p /\ Place(lo, i + 1) = lo + q /\ Place(lo + NumSize, i) = lo + NumSize + p
    BY <2>1 DEF Place
  <2>3. \A l, k, x, y \in Nat : y = x + k => l + x \in Nat /\ l + y = l + x + k /\ l + k + x = l + y
    OBVIOUS
  <2>4. QED
    BY <1>1, <2>1, <2>2, <2>3
<1>5. QED
  BY <1>3, <1>4

\* A vector between two places: c has the places between its items.
IsVec(lo, hi, args, c) ==
  /\ Num(lo) = hi - lo
  /\ \A i \in 1 .. Len(args) : Num(Place(lo, i)) = c[i - 1] - lo
  /\ Row(lo + Header(args), hi, Items(args), c)

\* What is laid out as a vector is, cell for cell, the vector that is packed.
LEMMA VecThere ==
  ASSUME text \in Seq(Cell), NEW args \in Seq(Seq(Cell)), NEW lo \in Nat, NEW hi, NEW c,
         IsVec(lo, hi, args, c)
  PROVE  Piece(lo, hi, EncodeVec(args))
<1>1. SUFFICES ASSUME NEW n, n = Len(args), NEW header, header = Header(args),
                      NEW items, items = Items(args), NEW offsets, offsets = Offsets(args),
                      NEW first, first = lo + NumSize, NEW start, start = lo + header
               PROVE  Piece(lo, hi, EncodeVec(args))
  OBVIOUS
<1>0. start = Place(lo, n + 1)
  BY <1>1 DEF Header, Place
<1>2. /\ n \in Nat /\ header \in Nat /\ NumSize \in Nat
      /\ items \in Seq(Seq(Cell)) /\ Len(items) = n
      /\ offsets \in Seq(Seq(Cell)) /\ Len(offsets) = n
  BY <1>1, EncodedVec, Division
<1>3. PICK f \in [ 0 .. n -> Seq(Cell) ] :
        /\ Joined(f, items)
        /\ \A i \in 0 .. n : header + Len(f[i]) \in Nat
        /\ \A i \in 1 .. n : offsets[i] = Pack(header + Len(f[i - 1]))
        /\ EncodeVec(args) = Pack(header + Len(f[n])) \o FlattenSeq(offsets) \o f[n]
  BY <1>1, EncodedVec
<1>4. /\ Num(lo) = hi - lo
      /\ \A i \in 1 .. n : Num(Place(lo, i)) = c[i - 1] - lo
      /\ Row(start, hi, items, c)
  BY <1>1 DEF IsVec
<1>5. first \in Nat /\ start \in Nat /\ start = Place(first, n)
  <2>1. Place(lo + NumSize, n) = Place(lo, n + 1) /\ Place(lo, n + 1) = Place(lo, n) + NumSize /\ Place(lo, n) \in Nat
    BY <1>2, Places
  <2>2. first = lo + NumSize /\ start = Place(lo, n + 1)
    BY <1>0, <1>1
  <2>3. QED
    BY <1>2, <2>1, <2>2
<1>6. ASSUME NEW i \in 0 .. n
      PROVE  c[i] \in Nat /\ c[i] - lo = header + Len(f[i]) /\ Piece(start, c[i], f[i])
  <2>1. Piece(start, c[i], f[i])
    BY <1>2, <1>3, <1>4, <1>5, RowJoins
  <2>2. c[i] \in Nat /\ Len(f[i]) \in Nat /\ c[i] = start + Len(f[i])
    BY <2>1, PieceCells
  <2>3. QED
    BY <1>1, <1>2, <2>1, <2>2
<1>7. c[n] = hi /\ n \in 0 .. n
  BY <1>2, <1>4 DEF Row
\* The total.
<1>8. Piece(lo, first, Pack(header + Len(f[n])))
  <2>1. Num(lo) = header + Len(f[n])
    BY <1>4, <1>6, <1>7
  <2>2. Piece(lo, first, Pack(Num(lo)))
    BY <1>1, <1>2, NumberThere DEF Pack, Num
  <2>3. QED
    BY <2>1, <2>2
\* The offsets.
<1>9. Piece(first, start, FlattenSeq(offsets))
  <2>1. SUFFICES ASSUME NEW d, d = [ i \in 0 .. n |-> Place(first, i) ]
                 PROVE  Row(first, start, offsets, d)
    BY <1>2, <1>5, RowThere
  <2>2. \A i \in 0 .. n : d[i] = Place(first, i) /\ d[i] \in Nat
    <3>1. \A i \in 0 .. n : i \in Nat
      OBVIOUS
    <3>2. QED
      BY <1>5, <2>1, <3>1, Places
  <2>3. d \in [ 0 .. n -> Nat ] /\ d[0] = first /\ d[n] = start
    <3>1. 0 \in 0 .. n /\ n \in 0 .. n /\ Place(first, 0) = first
      BY <1>2, <1>5, Places
    <3>2. d[0] = first /\ d[n] = start
      BY <1>5, <2>2, <3>1
    <3>3. QED
      BY <2>1, <2>2, <3>2
  <2>4. ASSUME NEW i \in 1 .. n
        PROVE  Piece(d[i - 1], d[i], offsets[i])
    <3>1. SUFFICES ASSUME NEW at, at = Place(lo, i), NEW j, j = i - 1
                   PROVE  Piece(d[j], d[i], offsets[i])
      OBVIOUS
    <3>2. j \in 0 .. n /\ i \in 0 .. n /\ j \in Nat /\ i \in Nat /\ i = j + 1
      BY <1>2, <3>1
    <3>3. at \in Nat /\ Place(first, j) = at /\ Place(first, i) = at + NumSize
      <4>1. at \in Nat /\ Place(lo, i + 1) = at + NumSize
        BY <3>1, <3>2, Places
      <4>2. Place(first, j) = Place(lo, j + 1) /\ Place(first, i) = Place(lo, i + 1)
        BY <1>1, <3>2, Places
      <4>3. QED
        BY <3>1, <3>2, <4>1, <4>2
    <3>4. d[j] = at /\ d[i] = at + NumSize
      BY <2>2, <3>2, <3>3
    <3>5. offsets[i] = Pack(Num(at))
      BY <1>3, <1>4, <1>6, <3>1, <3>2
    <3>6. Piece(at, at + NumSize, Pack(Num(at)))
      BY <1>2, <3>3, NumberThere DEF Pack, Num
    <3>7. QED
      BY <3>4, <3>5, <3>6
  <2>5. QED
    BY <1>2, <2>3, <2>4 DEF Row
\* And the items.
<1>10. Piece(start, hi, f[n])
  BY <1>6, <1>7
<1>11. Piece(lo, start, Pack(header + Len(f[n])) \o FlattenSeq(offsets))
  BY <1>8, <1>9, PiecesMeet
<1>12. Piece(lo, hi, Pack(header + Len(f[n])) \o FlattenSeq(offsets) \o f[n])
  BY <1>10, <1>11, PiecesMeet
<1>13. QED
  BY <1>3, <1>12

\* A row of numbers is as long as there are numbers.
LEMMA RowOfNumbers ==
  ASSUME text \in Seq(Cell), NEW seqs \in Seq(Seq(Cell)), NEW lo \in Nat, NEW hi, NEW c,
         Row(lo, hi, seqs, c), \A i \in 1 .. Len(seqs) : Len(seqs[i]) = NumSize
  PROVE  \A i \in 0 .. Len(seqs) : c[i] = Place(lo, i)
<1>1. SUFFICES ASSUME NEW n, n = Len(seqs) PROVE \A i \in 0 .. n : c[i] = Place(lo, i)
  OBVIOUS
<1>2. /\ n \in Nat /\ NumSize \in Nat /\ c[0] = lo
      /\ \A i \in 1 .. n : c[i] = c[i - 1] + NumSize
  <2>1. \A i \in 1 .. n : c[i] = c[i - 1] + Len(seqs[i]) /\ Len(seqs[i]) = NumSize
    <3>1. \A i \in 1 .. Len(seqs) : c[i] = c[i - 1] + Len(seqs[i])
      BY RowOrdered
    <3>2. \A i \in 1 .. Len(seqs) : Len(seqs[i]) = NumSize
      OBVIOUS
    <3>3. QED
      BY <1>1, <3>1, <3>2
  <2>2. n \in Nat /\ c[0] = lo
    BY <1>1, LenProperties DEF Row
  <2>3. QED
    BY <2>1, <2>2, Division
<1> DEFINE S == { i \in Nat : i <= n => c[i] = Place(lo, i) }
<1>3. 0 \in S
  <2>1. Place(lo, 0) = lo
    BY Places
  <2>2. QED
    BY <1>2, <2>1
<1>4. ASSUME NEW i \in Nat, i \in S PROVE i + 1 \in S
  <2>1. SUFFICES ASSUME NEW j, j = i + 1, j <= n PROVE c[j] = Place(lo, j)
    OBVIOUS
  <2>2. j \in 1 .. n /\ j - 1 = i /\ i <= n
    BY <1>2, <2>1
  <2>3. c[j] = c[i] + NumSize /\ c[i] = Place(lo, i)
    BY <1>2, <1>4, <2>2
  <2>4. Place(lo, j) = Place(lo, i) + NumSize
    BY <2>1, Places
  <2>5. QED
    BY <2>3, <2>4
<1>5. \A i \in Nat : i \in S
  <2> HIDE DEF S
  <2>1. QED
    BY <1>3, <1>4, Induction
<1>6. QED
  BY <1>5

\* A vector that was packed is laid out as one.
LEMMA VecRead ==
  ASSUME text \in Seq(Cell), NEW args \in Seq(Seq(Cell)), NEW lo, NEW hi,
         Piece(lo, hi, EncodeVec(args)), Len(EncodeVec(args)) < NumMod
  PROVE  /\ lo \in Nat /\ hi \in Nat /\ lo + Header(args) \in Nat /\ hi - lo < NumMod
         /\ \E c : IsVec(lo, hi, args, c)
<1>1. SUFFICES ASSUME NEW n, n = Len(args), NEW header, header = Header(args),
                      NEW items, items = Items(args), NEW offsets, offsets = Offsets(args),
                      NEW first, first = lo + NumSize, NEW start, start = lo + header
               PROVE  lo \in Nat /\ hi \in Nat /\ start \in Nat /\ hi - lo < NumMod /\ \E c : IsVec(lo, hi, args, c)
  OBVIOUS
<1>0. start = Place(lo, n + 1)
  BY <1>1 DEF Header, Place
<1>2. /\ n \in Nat /\ header \in Nat /\ NumSize \in Nat /\ NumMod \in Nat
      /\ items \in Seq(Seq(Cell)) /\ Len(items) = n
      /\ offsets \in Seq(Seq(Cell)) /\ Len(offsets) = n
  BY <1>1, EncodedVec, Division, NumbersAreLarge
<1>3. PICK f \in [ 0 .. n -> Seq(Cell) ] :
        /\ Joined(f, items)
        /\ \A i \in 0 .. n : header + Len(f[i]) \in Nat
        /\ \A i \in 1 .. n : offsets[i] = Pack(header + Len(f[i - 1]))
        /\ EncodeVec(args) = Pack(header + Len(f[n])) \o FlattenSeq(offsets) \o f[n]
  BY <1>1, EncodedVec
<1>4. \A m \in Nat : Pack(m) \in Seq(Cell) /\ Len(Pack(m)) = NumSize
  BY <1>2, PackIs DEF Pack
<1>5. /\ n \in 0 .. n /\ header + Len(f[n]) \in Nat /\ f[n] \in Seq(Cell)
      /\ Pack(header + Len(f[n])) \in Seq(Cell)
  <2>1. n \in 0 .. n
    BY <1>2
  <2>2. header + Len(f[n]) \in Nat /\ f[n] \in Seq(Cell)
    BY <1>3, <2>1
  <2>3. QED
    BY <1>4, <2>1, <2>2
<1>6. FlattenSeq(offsets) \in Seq(Cell)
  <2>1. PICK g \in [ 0 .. n -> Seq(Cell) ] : Joined(g, offsets)
    BY <1>2, JoinedIs
  <2>2. FlattenSeq(offsets) = g[n]
    BY <1>2, <2>1, FlattenIs
  <2>3. QED
    BY <1>5, <2>1, <2>2
<1>7. lo \in Nat /\ hi \in Nat /\ hi - lo < NumMod
  BY PieceCells
<1>8. PICK mid : Piece(lo, mid, Pack(header + Len(f[n])) \o FlattenSeq(offsets)) /\ Piece(mid, hi, f[n])
  <2>1. Pack(header + Len(f[n])) \o FlattenSeq(offsets) \in Seq(Cell)
    BY <1>5, <1>6, ConcatProperties
  <2>2. Piece(lo, hi, (Pack(header + Len(f[n])) \o FlattenSeq(offsets)) \o f[n])
    BY <1>3
  <2>3. QED
    BY <1>5, <2>1, <2>2, PieceSplits
<1>9. PICK second : Piece(lo, second, Pack(header + Len(f[n]))) /\ Piece(second, mid, FlattenSeq(offsets))
  BY <1>5, <1>6, <1>8, PieceSplits
<1>10. second = first /\ first \in Nat
  <2>1. second = lo + Len(Pack(header + Len(f[n])))
    BY <1>9, PieceCells
  <2>2. Len(Pack(header + Len(f[n]))) = NumSize
    BY <1>4, <1>5
  <2>3. second = lo + NumSize
    BY <2>1, <2>2
  <2>4. QED
    BY <1>1, <1>2, <1>7, <2>3
\* The offsets.
<1>11. PICK d : Row(first, mid, offsets, d)
  BY <1>2, <1>9, <1>10, RowIs
<1>12. /\ \A i \in 0 .. n : d[i] = Place(first, i)
       /\ \A i \in 1 .. n : Piece(d[i - 1], d[i], offsets[i])
       /\ d[n] = mid
  <2>1. \A i \in 1 .. n : i - 1 \in 0 .. n
    BY <1>2
  <2>2. \A i \in 1 .. n : Len(offsets[i]) = NumSize
    BY <1>3, <1>4, <2>1
  <2>3. \A i \in 0 .. n : d[i] = Place(first, i)
    <3>1. \A i \in 1 .. Len(offsets) : Len(offsets[i]) = NumSize
      BY <1>2, <2>2
    <3>2. \A i \in 0 .. Len(offsets) : d[i] = Place(first, i)
      <4>1. offsets \in Seq(Seq(Cell)) /\ first \in Nat /\ Row(first, mid, offsets, d)
        BY <1>2, <1>10, <1>11
      <4>2. QED
        BY <3>1, <4>1, RowOfNumbers
    <3>3. QED
      BY <1>2, <3>2
  <2>4. QED
    BY <1>2, <1>11, <2>3 DEF Row
<1>13. mid = start /\ start \in Nat
  <2>1. mid = Place(first, n)
    BY <1>5, <1>12
  <2>2. Place(first, n) = Place(lo, n + 1) /\ Place(first, n) \in Nat
    BY <1>1, <1>2, <1>7, <1>10, Places
  <2>3. QED
    BY <1>0, <2>1, <2>2
\* The items.
<1>14. PICK c : Row(start, hi, items, c)
  <2>1. FlattenSeq(items) = f[n]
    BY <1>2, <1>3, FlattenIs
  <2>2. QED
    BY <1>2, <1>8, <1>13, <2>1, RowIs
<1>15. ASSUME NEW i \in 0 .. n
       PROVE  c[i] - lo = header + Len(f[i]) /\ c[i] - lo \in Nat /\ c[i] - lo < NumMod
  <2>1. Piece(start, c[i], f[i])
    BY <1>2, <1>3, <1>13, <1>14, RowJoins
  <2>2. c[i] \in Nat /\ Len(f[i]) \in Nat /\ c[i] = start + Len(f[i])
    BY <2>1, PieceCells
  <2>3. c[i] <= hi
    BY <1>2, <1>13, <1>14, RowOrdered
  <2>4. \A a, h, l, m, e, M \in Nat : m = a + h + l /\ m <= e /\ e - a < M
                                   => m - a = h + l /\ m - a \in Nat /\ m - a < M
    OBVIOUS
  <2>5. c[i] = lo + header + Len(f[i])
    BY <1>1, <2>2
  <2>6. QED
    BY <1>2, <1>7, <2>2, <2>3, <2>4, <2>5
\* The numbers as they are read.
<1>16. ASSUME NEW m \in Nat, m < NumMod, NEW at, NEW to, Piece(at, to, Pack(m))
       PROVE  Num(at) = m
  BY <1>2, <1>16, NumbersAreLarge, PieceRead DEF Pack, Num
<1>17. Num(lo) = hi - lo
  <2>1. c[n] = hi
    BY <1>2, <1>14 DEF Row
  <2>2. hi - lo = header + Len(f[n]) /\ hi - lo \in Nat /\ hi - lo < NumMod
    BY <1>5, <1>15, <2>1
  <2>3. QED
    BY <1>9, <1>16, <2>2
<1>18. ASSUME NEW i \in 1 .. n
       PROVE  Num(Place(lo, i)) = c[i - 1] - lo
  <2>1. SUFFICES ASSUME NEW j, j = i - 1, NEW m, m = c[j] - lo, NEW at, at = Place(lo, i)
                 PROVE  Num(at) = m
    OBVIOUS
  <2>2. j \in 0 .. n /\ j \in Nat /\ i = j + 1
    BY <1>2, <2>1
  <2>3. m \in Nat /\ m < NumMod /\ offsets[i] = Pack(m)
    BY <1>3, <1>15, <2>1, <2>2
  <2>4. Place(first, j) = at
    BY <1>1, <1>7, <2>1, <2>2, Places
  <2>5. d[j] = at
    <3>1. d[j] = Place(first, j)
      BY <1>12, <2>2
    <3>2. QED
      BY <2>4, <3>1
  <2>6. Piece(at, d[i], Pack(m))
    <3>1. Piece(d[j], d[i], offsets[i])
      BY <1>12, <2>1
    <3>2. QED
      BY <2>3, <2>5, <3>1
  <2>7. QED
    BY <1>16, <2>3, <2>6
<1>19. IsVec(lo, hi, args, c)
  BY <1>1, <1>14, <1>17, <1>18 DEF IsVec
<1>20. QED
  BY <1>7, <1>13, <1>19

\* A vector has a total at least.
LEMMA VecHasCells ==
  ASSUME NEW args \in Seq(Seq(Cell))
  PROVE  EncodeVec(args) \in Seq(Cell) /\ Len(EncodeVec(args)) \in Nat /\ Len(EncodeVec(args)) >= NumSize
<1>1. SUFFICES ASSUME NEW n, n = Len(args), NEW offsets, offsets = Offsets(args), NEW header, header = Header(args)
               PROVE  EncodeVec(args) \in Seq(Cell) /\ Len(EncodeVec(args)) \in Nat
                      /\ Len(EncodeVec(args)) >= NumSize
  OBVIOUS
<1>2. n \in Nat /\ n \in 0 .. n /\ NumSize \in Nat /\ offsets \in Seq(Seq(Cell)) /\ Len(offsets) = n
  <2>1. n \in Nat /\ NumSize \in Nat /\ offsets \in Seq(Seq(Cell)) /\ Len(offsets) = n
    BY <1>1, EncodedVec, Division
  <2>2. QED
    BY <2>1
<1>3. PICK f \in [ 0 .. n -> Seq(Cell) ] :
        /\ \A i \in 0 .. n : header + Len(f[i]) \in Nat
        /\ EncodeVec(args) = Pack(header + Len(f[n])) \o FlattenSeq(offsets) \o f[n]
  BY <1>1, EncodedVec
<1>4. FlattenSeq(offsets) \in Seq(Cell)
  <2>1. PICK g \in [ 0 .. n -> Seq(Cell) ] : Joined(g, offsets)
    BY <1>2, JoinedIs
  <2>2. FlattenSeq(offsets) = g[n]
    BY <1>2, <2>1, FlattenIs
  <2>3. QED
    BY <1>2, <2>1, <2>2
<1>5. SUFFICES ASSUME NEW a \in Seq(Cell), Len(a) = NumSize, NEW b \in Seq(Cell), NEW c \in Seq(Cell),
                      EncodeVec(args) = a \o b \o c
               PROVE  EncodeVec(args) \in Seq(Cell) /\ Len(EncodeVec(args)) \in Nat
                      /\ Len(EncodeVec(args)) >= NumSize
  <2>1. f[n] \in Seq(Cell) /\ header + Len(f[n]) \in Nat
    BY <1>2, <1>3
  <2>2. Pack(header + Len(f[n])) \in Seq(Cell) /\ Len(Pack(header + Len(f[n]))) = NumSize
    BY <1>2, <2>1, PackIs DEF Pack
  <2>3. QED
    BY <1>3, <1>4, <2>1, <2>2
<1>6. \A s, t \in Seq(Cell) : s \o t \in Seq(Cell) /\ Len(s \o t) = Len(s) + Len(t) /\ Len(t) \in Nat
  BY ConcatProperties, LenProperties
<1>7. a \o b \in Seq(Cell) /\ Len(a \o b) = NumSize + Len(b) /\ Len(b) \in Nat /\ Len(c) \in Nat
  BY <1>5, <1>6
<1>8. (a \o b) \o c \in Seq(Cell) /\ Len((a \o b) \o c) = NumSize + Len(b) + Len(c)
  BY <1>6, <1>7
<1>9. QED
  BY <1>2, <1>5, <1>7, <1>8

\* The text of an Input.
LEMMA EncodedInput ==
  ASSUME NEW v, v.source \in Sources, v.args \in Seq(Seq(Cell))
  PROVE  /\ EncodeSource(v.source) \in Seq(Cell) /\ Len(EncodeSource(v.source)) \in Nat
         /\ EncodeVec(v.args) \in Seq(Cell) /\ Len(EncodeVec(v.args)) \in Nat
         /\ Encode(v) = Pack(3 * NumSize + Len(EncodeSource(v.source)) + Len(EncodeVec(v.args)))
                        \o Pack(3 * NumSize) \o Pack(3 * NumSize + Len(EncodeSource(v.source)))
                        \o EncodeSource(v.source) \o EncodeVec(v.args)
<1>1. SUFFICES ASSUME NEW s, s = EncodeSource(v.source), NEW w, w = EncodeVec(v.args)
               PROVE  /\ s \in Seq(Cell) /\ Len(s) \in Nat /\ w \in Seq(Cell) /\ Len(w) \in Nat
                      /\ Encode(v) = Pack(3 * NumSize + Len(s) + Len(w)) \o Pack(3 * NumSize)
                                     \o Pack(3 * NumSize + Len(s)) \o s \o w
  OBVIOUS
<1>2. s \in Seq(Cell) /\ Len(s) \in Nat /\ Len(s) >= NumSize
  BY <1>1, SourceHasCells
<1>3. w \in Seq(Cell) /\ Len(w) \in Nat /\ Len(w) >= NumSize
  BY <1>1, VecHasCells
<1>4. s # << >> /\ w # << >>
  BY <1>2, <1>3, Division
<1>5. QED
  BY <1>1, <1>2, <1>3, <1>4 DEF Encode, MolBuilder_Input_build, OrDefault

\* Where the parts of an Input are: the arguments begin at p.
IsInput(v, p) ==
  /\ Num(0) = Size /\ Num(NumSize) = 3 * NumSize /\ Num(2 * NumSize) = p
  /\ Piece(3 * NumSize, p, EncodeSource(v.source)) /\ Piece(p, Size, EncodeVec(v.args))

\* What has its parts there is, cell for cell, the text of the Input.
LEMMA InputThere ==
  ASSUME text \in Seq(Cell), NEW v, v.source \in Sources, v.args \in Seq(Seq(Cell)), NEW p, IsInput(v, p)
  PROVE  text = Encode(v)
<1>0. /\ EncodeSource(v.source) \in Seq(Cell) /\ Len(EncodeSource(v.source)) \in Nat
      /\ EncodeVec(v.args) \in Seq(Cell) /\ Len(EncodeVec(v.args)) \in Nat
      /\ Encode(v) = Pack(3 * NumSize + Len(EncodeSource(v.source)) + Len(EncodeVec(v.args)))
                     \o Pack(3 * NumSize) \o Pack(3 * NumSize + Len(EncodeSource(v.source)))
                     \o EncodeSource(v.source) \o EncodeVec(v.args)
  BY EncodedInput
<1>1. SUFFICES ASSUME NEW s, s = EncodeSource(v.source), NEW w, w = EncodeVec(v.args),
                      NEW n, n = 2 * NumSize, NEW m, m = 3 * NumSize
               PROVE  text = Encode(v)
  OBVIOUS
<1>2. NumSize \in Nat /\ n \in Nat /\ m \in Nat /\ n = NumSize + NumSize /\ m = n + NumSize
  BY <1>1, Division
<1>3. /\ s \in Seq(Cell) /\ w \in Seq(Cell) /\ Len(s) \in Nat /\ Len(w) \in Nat
      /\ Encode(v) = Pack(m + Len(s) + Len(w)) \o Pack(m) \o Pack(m + Len(s)) \o s \o w
  BY <1>0, <1>1
<1>4. /\ Num(0) = Size /\ Num(NumSize) = m /\ Num(n) = p
      /\ Piece(m, p, s) /\ Piece(p, Size, w)
  BY <1>1 DEF IsInput
<1>5. p = m + Len(s) /\ Size = m + Len(s) + Len(w)
  <2>1. p = m + Len(s)
    BY <1>4, PieceCells
  <2>2. Size = p + Len(w)
    BY <1>4, PieceCells
  <2>3. QED
    BY <2>1, <2>2
<1>6. /\ Piece(0, NumSize, Pack(m + Len(s) + Len(w)))
      /\ Piece(NumSize, n, Pack(m)) /\ Piece(n, m, Pack(m + Len(s)))
  <2>1. \A at \in Nat : Piece(at, at + NumSize, Pack(Num(at)))
    BY <1>2, NumberThere DEF Pack, Num
  <2>2. Piece(0, 0 + NumSize, Pack(Num(0))) /\ 0 + NumSize = NumSize
    BY <1>2, <2>1
  <2>3. Piece(NumSize, n, Pack(Num(NumSize))) /\ Piece(n, m, Pack(Num(n)))
    BY <1>2, <2>1
  <2>4. QED
    BY <1>4, <1>5, <2>2, <2>3
<1>7. Piece(0, m, Pack(m + Len(s) + Len(w)) \o Pack(m) \o Pack(m + Len(s)))
  <2>1. Piece(0, n, Pack(m + Len(s) + Len(w)) \o Pack(m))
    BY <1>6, PiecesMeet
  <2>2. QED
    BY <1>6, <2>1, PiecesMeet
<1>8. Piece(0, Size, Encode(v))
  <2>1. Piece(0, p, Pack(m + Len(s) + Len(w)) \o Pack(m) \o Pack(m + Len(s)) \o s)
    BY <1>4, <1>7, PiecesMeet
  <2>2. Piece(0, Size, Pack(m + Len(s) + Len(w)) \o Pack(m) \o Pack(m + Len(s)) \o s \o w)
    BY <1>4, <2>1, PiecesMeet
  <2>3. QED
    BY <1>3, <2>2
<1>9. Cells(0, Size) = Encode(v)
  BY <1>8, PieceCells
<1>10. QED
  BY <1>9, WholeText

\* And the text of an Input has its parts there.
LEMMA InputRead ==
  ASSUME text \in Seq(Cell), NEW v, v.source \in Sources, v.args \in Seq(Seq(Cell)),
         text = Encode(v), Len(text) < NumMod
  PROVE  /\ \E p : IsInput(v, p)
         /\ Len(EncodeSource(v.source)) < NumMod /\ Len(EncodeVec(v.args)) < NumMod
<1>0. /\ EncodeSource(v.source) \in Seq(Cell) /\ Len(EncodeSource(v.source)) \in Nat
      /\ EncodeVec(v.args) \in Seq(Cell) /\ Len(EncodeVec(v.args)) \in Nat
      /\ Encode(v) = Pack(3 * NumSize + Len(EncodeSource(v.source)) + Len(EncodeVec(v.args)))
                     \o Pack(3 * NumSize) \o Pack(3 * NumSize + Len(EncodeSource(v.source)))
                     \o EncodeSource(v.source) \o EncodeVec(v.args)
  BY EncodedInput
<1>1. SUFFICES ASSUME NEW s, s = EncodeSource(v.source), NEW w, w = EncodeVec(v.args),
                      NEW n, n = 2 * NumSize, NEW m, m = 3 * NumSize
               PROVE  (\E p : IsInput(v, p)) /\ Len(s) < NumMod /\ Len(w) < NumMod
  OBVIOUS
<1>2. /\ NumSize \in Nat /\ NumMod \in Nat /\ NumMod = Power(NumSize)
      /\ n \in Nat /\ m \in Nat /\ n = NumSize + NumSize /\ m = n + NumSize
  BY <1>1, Division, NumbersAreLarge
<1>3. /\ s \in Seq(Cell) /\ w \in Seq(Cell) /\ Len(s) \in Nat /\ Len(w) \in Nat
      /\ Encode(v) = Pack(m + Len(s) + Len(w)) \o Pack(m) \o Pack(m + Len(s)) \o s \o w
  BY <1>0, <1>1
<1>4. SUFFICES ASSUME NEW total \in Nat, total = m + Len(s) + Len(w), NEW at \in Nat, at = m + Len(s)
               PROVE  (\E p : IsInput(v, p)) /\ Len(s) < NumMod /\ Len(w) < NumMod
  BY <1>2, <1>3
<1>5. /\ Pack(total) \in Seq(Cell) /\ Pack(m) \in Seq(Cell) /\ Pack(at) \in Seq(Cell)
      /\ Len(Pack(total)) = NumSize /\ Len(Pack(m)) = NumSize /\ Len(Pack(at)) = NumSize
  BY <1>2, PackIs DEF Pack
<1>6. \A a, b \in Seq(Cell) : a \o b \in Seq(Cell) /\ Len(a \o b) = Len(a) + Len(b)
  BY ConcatProperties
<1>7. SUFFICES ASSUME NEW a, a = Pack(total) \o Pack(m), NEW b, b = a \o Pack(at), NEW c, c = b \o s
               PROVE  (\E p : IsInput(v, p)) /\ Len(s) < NumMod /\ Len(w) < NumMod
  OBVIOUS
<1>8. a \in Seq(Cell) /\ b \in Seq(Cell) /\ c \in Seq(Cell)
  BY <1>3, <1>5, <1>6, <1>7
<1>9. Piece(0, Size, c \o w)
  <2>1. Piece(0, Size, Cells(0, Size))
    <3>1. Size \in Nat /\ 0 <= Size
      BY LenProperties DEF Size
    <3>2. QED
      BY <3>1, PieceAt
  <2>2. Cells(0, Size) = c \o w
    BY <1>3, <1>4, <1>7, WholeText
  <2>3. QED
    BY <2>1, <2>2
<1>10. PICK p4 : Piece(0, p4, b \o s) /\ Piece(p4, Size, w)
  BY <1>3, <1>7, <1>8, <1>9, PieceSplits
<1>11. PICK p3 : Piece(0, p3, a \o Pack(at)) /\ Piece(p3, p4, s)
  BY <1>3, <1>7, <1>8, <1>10, PieceSplits
<1>12. PICK p2 : Piece(0, p2, Pack(total) \o Pack(m)) /\ Piece(p2, p3, Pack(at))
  BY <1>5, <1>7, <1>8, <1>11, PieceSplits
<1>13. PICK p1 : Piece(0, p1, Pack(total)) /\ Piece(p1, p2, Pack(m))
  BY <1>5, <1>12, PieceSplits
<1>14. p1 = NumSize /\ p2 = n /\ p3 = m /\ p4 = at /\ Size = total
  <2>1. p1 = 0 + NumSize
    BY <1>5, <1>13, PieceCells
  <2>2. p2 = p1 + NumSize
    BY <1>5, <1>13, PieceCells
  <2>3. p3 = p2 + NumSize
    BY <1>5, <1>12, PieceCells
  <2>4. p4 = p3 + Len(s)
    BY <1>11, PieceCells
  <2>5. Size = p4 + Len(w)
    BY <1>10, PieceCells
  <2>6. p1 = NumSize /\ p2 = n /\ p3 = m
    BY <1>2, <2>1, <2>2, <2>3
  <2>7. QED
    BY <1>4, <2>4, <2>5, <2>6
<1>15. total < NumMod /\ m < NumMod /\ at < NumMod /\ Len(s) < NumMod /\ Len(w) < NumMod
  BY <1>2, <1>3, <1>4, <1>14 DEF Size
<1>16. ASSUME NEW x \in Nat, x < NumMod, NEW lo, NEW hi, Piece(lo, hi, Pack(x))
       PROVE  Num(lo) = x
  BY <1>2, <1>16, PieceRead DEF Pack, Num
<1>17. Num(0) = total /\ Num(p1) = m /\ Num(p2) = at
  BY <1>2, <1>12, <1>13, <1>15, <1>16
<1>18. IsInput(v, p4)
  BY <1>1, <1>10, <1>11, <1>14, <1>17 DEF IsInput
<1>19. QED
  BY <1>15, <1>18

\* The first n arguments, as the loader takes them.
ArgsOf(n) == [ i \in 1 .. n |-> Cells(ArgStart(i - 1) + NumSize, ArgEnd(i - 1)) ]

\* The places between the items the loader goes by.
ItemPlaces == [ i \in 0 .. VecLength |-> IF i = VecLength THEN Size ELSE ArgStart(i) ]

\* What the verification knows of the part with the arguments.
InBounds ==
  args_at \in Nat /\ Size \in Nat /\ Size < NumMod /\ args_at <= Size

\* How many arguments there are: as many as there are offsets.
LEMMA LengthIs ==
  ASSUME text \in Seq(Cell), InBounds, VectorFits
  PROVE  /\ VecLength \in Nat /\ Num(args_at) = Size - args_at
         /\ VecLength = 0 => Size = args_at + NumSize
         /\ VecLength # 0 => Num(args_at + NumSize) = NumSize * (VecLength + 1)
         /\ \A i \in 0 .. VecLength - 1 : ArgEnd(i) <= Size /\ BytesFit(ArgStart(i), ArgEnd(i))
<1>1. SUFFICES ASSUME NEW q, q = Num(args_at + NumSize), NEW room, room = Size - args_at, NEW n, n = VecLength
               PROVE  /\ n \in Nat /\ Num(args_at) = room
                      /\ n = 0 => Size = args_at + NumSize
                      /\ n # 0 => q = NumSize * (n + 1)
                      /\ \A i \in 0 .. n - 1 : ArgEnd(i) <= Size /\ BytesFit(ArgStart(i), ArgEnd(i))
  OBVIOUS
<1>2. NumSize \in Nat /\ NumSize >= 1 /\ args_at \in Nat /\ Size \in Nat /\ room \in Nat /\ args_at + NumSize \in Nat
  BY <1>1, Division DEF InBounds
<1>3. q \in Nat
  BY <1>1, <1>2, NumberRead DEF Num
<1>4. /\ room >= NumSize /\ Num(args_at) = room
      /\ \/ room = NumSize
         \/ /\ room >= 2 * NumSize /\ Aligned(q)
            /\ \A i \in 0 .. n - 1 : ArgEnd(i) <= Size /\ BytesFit(ArgStart(i), ArgEnd(i))
  BY <1>1 DEF VectorFits
<1>5. n = IF room = NumSize THEN 0 ELSE (q \div NumSize) - 1
  BY <1>1, <1>4 DEF VecLength
<1>6. CASE room = NumSize
  BY <1>1, <1>2, <1>4, <1>5, <1>6
<1>7. CASE room # NumSize
  <2>1. q % NumSize = 0 /\ q >= 2 * NumSize /\ n = (q \div NumSize) - 1
    BY <1>4, <1>5, <1>7 DEF Aligned
  <2>2. \A b, x \in Nat : b >= 1 /\ x % b = 0 /\ x >= 2 * b =>
          x \div b \in Nat /\ x = b * (x \div b) /\ x \div b >= 2
    <3>1. \A b, x \in Nat : b >= 1 => x \div b \in Nat /\ x = b * (x \div b) + (x % b)
      OBVIOUS
    <3>2. \A b, y \in Nat : b >= 1 /\ b * y >= 2 * b => y >= 2
      OBVIOUS
    <3>3. QED
      BY <3>1, <3>2
  <2>3. q \div NumSize \in Nat /\ q = NumSize * (q \div NumSize) /\ q \div NumSize >= 2
    BY <1>2, <1>3, <2>1, <2>2
  <2>4. n \in Nat /\ n # 0 /\ n + 1 = q \div NumSize
    <3>1. SUFFICES ASSUME NEW d \in Nat, d = q \div NumSize, d >= 2
                   PROVE  n \in Nat /\ n # 0 /\ n + 1 = d
      BY <2>3
    <3>2. QED
      BY <2>1, <3>1
  <2>5. QED
    BY <1>4, <1>7, <2>3, <2>4
<1>8. QED
  BY <1>6, <1>7

\* What the verification lets through is laid out as the vector of the arguments
\* the loader takes.
LEMMA VectorIs ==
  ASSUME text \in Seq(Cell), InBounds, VectorFits
  PROVE  ArgsOf(VecLength) \in Seq(Seq(Cell)) /\ IsVec(args_at, Size, ArgsOf(VecLength), ItemPlaces)
<1>1. SUFFICES ASSUME NEW n, n = VecLength, NEW args, args = ArgsOf(n), NEW c, c = ItemPlaces
               PROVE  args \in Seq(Seq(Cell)) /\ IsVec(args_at, Size, args, c)
  OBVIOUS
<1>2. NumSize \in Nat /\ args_at \in Nat /\ Size \in Nat /\ Size < NumMod /\ args_at <= Size
  BY Division DEF InBounds
<1>3. /\ n \in Nat /\ Num(args_at) = Size - args_at
      /\ n = 0 => Size = args_at + NumSize
      /\ n # 0 => Num(args_at + NumSize) = NumSize * (n + 1)
      /\ \A i \in 0 .. n - 1 : ArgEnd(i) <= Size /\ BytesFit(ArgStart(i), ArgEnd(i))
  BY <1>1, LengthIs
<1>4. c = [ i \in 0 .. n |-> IF i = n THEN Size ELSE ArgStart(i) ]
  BY <1>1 DEF ItemPlaces
<1>5. ASSUME NEW i \in Nat
      PROVE  ArgStart(i) \in Nat /\ ArgStart(i) = args_at + Num(Place(args_at, i + 1))
  <2>1. ArgStart(i) = args_at + Num(Place(args_at, i + 1))
    BY DEF ArgStart, Place
  <2>2. i + 1 \in Nat
    OBVIOUS
  <2>3. Place(args_at, i + 1) \in Nat
    BY <1>2, <2>2, Places
  <2>4. Num(Place(args_at, i + 1)) \in Nat
    BY <1>2, <2>3, NumberRead DEF Num
  <2>5. QED
    BY <1>2, <2>1, <2>4
<1>6. ASSUME NEW i \in 0 .. n PROVE c[i] \in Nat /\ (i < n => c[i] = ArgStart(i))
  <2>1. i \in Nat /\ c[i] = IF i = n THEN Size ELSE ArgStart(i)
    BY <1>4
  <2>2. QED
    BY <1>2, <1>3, <1>5, <2>1
<1>7. c \in [ 0 .. n -> Nat ] /\ c[n] = Size /\ n \in 0 .. n
  <2>1. n \in 0 .. n
    BY <1>3
  <2>2. c[n] = Size
    BY <1>4, <2>1
  <2>3. QED
    BY <1>4, <1>6, <2>1, <2>2
\* One argument.
<1>8. ASSUME NEW i \in 1 .. n
      PROVE  /\ args[i] \in Seq(Cell) /\ Piece(c[i - 1], c[i], EncodeBytes(args[i]))
             /\ Num(Place(args_at, i)) = c[i - 1] - args_at
  <2>1. SUFFICES ASSUME NEW j, j = i - 1, NEW lo, lo = ArgStart(j), NEW hi, hi = ArgEnd(j)
                 PROVE  /\ args[i] \in Seq(Cell) /\ Piece(c[j], c[i], EncodeBytes(args[i]))
                        /\ Num(Place(args_at, i)) = c[j] - args_at
    OBVIOUS
  <2>2. j \in Nat /\ j \in 0 .. n - 1 /\ j \in 0 .. n /\ i \in 0 .. n /\ j + 1 = i /\ j < n
    BY <1>3, <2>1
  <2>3. c[j] = lo /\ lo \in Nat
    BY <1>5, <1>6, <2>1, <2>2
  <2>4. c[i] = hi /\ hi \in Nat
    <3>1. hi = IF i = n THEN Size ELSE ArgStart(i)
      BY <1>1, <2>1, <2>2 DEF ArgEnd
    <3>2. QED
      BY <1>4, <1>6, <2>2, <3>1
  <2>5. hi <= Size /\ BytesFit(lo, hi)
    BY <1>3, <2>1, <2>2
  <2>6. lo + NumSize <= hi /\ Num(lo) = hi - (lo + NumSize)
    <3>1. hi - lo < NumMod
      BY <1>2, <2>3, <2>4, <2>5, NumbersAreLarge
    <3>2. QED
      BY <2>3, <2>4, <2>5, <3>1, BytesFitIs
  <2>7. args[i] = Cells(lo + NumSize, hi)
    BY <1>1, <2>1 DEF ArgsOf
  <2>8. args[i] \in Seq(Cell) /\ Piece(lo, hi, EncodeBytes(args[i]))
    BY <2>3, <2>4, <2>6, <2>7, BytesThere
  <2>9. Num(Place(args_at, i)) = lo - args_at
    <3>1. lo = args_at + Num(Place(args_at, i))
      BY <1>5, <2>1, <2>2
    <3>2. Num(Place(args_at, i)) \in Nat
      <4>1. Place(args_at, i) \in Nat
        <5>1. i \in Nat
          BY <1>3
        <5>2. QED
          BY <1>2, <5>1, Places
      <4>2. QED
        BY <1>2, <4>1, NumberRead DEF Num
    <3>3. QED
      BY <1>2, <3>1, <3>2
  <2>10. QED
    BY <2>3, <2>4, <2>8, <2>9
<1>9. args \in Seq(Seq(Cell)) /\ Len(args) = n /\ DOMAIN args = 1 .. n
  <2>1. args = [ i \in 1 .. n |-> Cells(ArgStart(i - 1) + NumSize, ArgEnd(i - 1)) ]
    BY <1>1 DEF ArgsOf
  <2>2. args \in [ 1 .. n -> Seq(Cell) ]
    BY <1>8, <2>1
  <2>3. QED
    BY <1>3, <2>1, <2>2
\* Where the first one begins.
<1>10. c[0] = args_at + Header(args)
  <2>1. Header(args) = NumSize * (n + 1)
    BY <1>9 DEF Header
  <2>2. CASE n = 0
    <3>1. NumSize * (0 + 1) = NumSize
      BY <1>2
    <3>2. QED
      BY <1>3, <1>7, <2>1, <2>2, <3>1
  <2>3. CASE n # 0
    <3>1. 0 \in 0 .. n /\ 0 < n /\ 0 \in Nat
      BY <1>3, <2>3
    <3>2. c[0] = args_at + Num(Place(args_at, 0 + 1))
      BY <1>5, <1>6, <3>1
    <3>3. Place(args_at, 0 + 1) = args_at + NumSize
      BY <1>2 DEF Place
    <3>4. QED
      BY <1>3, <2>1, <2>3, <3>2, <3>3
  <2>4. QED
    BY <2>2, <2>3
<1>11. Row(args_at + Header(args), Size, Items(args), c)
  <2>1. SUFFICES ASSUME NEW items, items = Items(args)
                 PROVE  Row(args_at + Header(args), Size, items, c)
    OBVIOUS
  <2>2. Len(items) = n
    BY <1>9, <2>1, EncodedVec
  <2>3. \A i \in 1 .. n : items[i] = EncodeBytes(args[i])
    BY <1>9, <2>1 DEF Items
  <2>4. QED
    BY <1>7, <1>8, <1>10, <2>2, <2>3 DEF Row
<1>12. IsVec(args_at, Size, args, c)
  BY <1>3, <1>8, <1>9, <1>11 DEF IsVec
<1>13. QED
  BY <1>9, <1>12

\* A vector is let through and taken.
LEMMA VectorMade ==
  ASSUME text \in Seq(Cell), InBounds, NEW args \in Seq(Seq(Cell)), NEW c, IsVec(args_at, Size, args, c)
  PROVE  VectorFits /\ VecLength = Len(args) /\ ArgsOf(VecLength) = args
<1>1. SUFFICES ASSUME NEW n, n = Len(args), NEW items, items = Items(args), NEW start, start = Place(args_at, n + 1),
                      NEW room, room = Size - args_at
               PROVE  VectorFits /\ VecLength = n /\ ArgsOf(n) = args
  OBVIOUS
<1>2. NumSize \in Nat /\ NumSize >= 1 /\ NumMod \in Nat /\ args_at \in Nat /\ Size \in Nat /\ Size < NumMod
      /\ args_at <= Size /\ room \in Nat
  BY <1>1, Division, NumbersAreLarge DEF InBounds
<1>3. n \in Nat /\ items \in Seq(Seq(Cell)) /\ Len(items) = n /\ DOMAIN args = 1 .. n
      /\ \A i \in 1 .. n : args[i] \in Seq(Cell) /\ items[i] = EncodeBytes(args[i])
  <2>1. n \in Nat /\ items \in Seq(Seq(Cell)) /\ Len(items) = n
    BY <1>1, EncodedVec
  <2>2. DOMAIN args = 1 .. n /\ \A i \in 1 .. n : args[i] \in Seq(Cell)
    BY <1>1, LenProperties, ElementOfSeq
  <2>3. QED
    BY <1>1, <2>1, <2>2 DEF Items
<1>4. start \in Nat /\ start = args_at + Header(args) /\ start = Place(args_at, n) + NumSize
  <2>1. start \in Nat /\ start = Place(args_at, n) + NumSize
    <3>1. n + 1 \in Nat
      BY <1>3
    <3>2. QED
      BY <1>1, <1>2, <1>3, <3>1, Places
  <2>2. start = args_at + Header(args)
    BY <1>1 DEF Place, Header
  <2>3. QED
    BY <2>1, <2>2
<1>5. /\ Num(args_at) = room /\ Row(start, Size, items, c)
      /\ \A i \in 1 .. n : Num(Place(args_at, i)) = c[i - 1] - args_at
  BY <1>1, <1>4 DEF IsVec
<1>6. /\ c[0] = start /\ c[n] = Size
      /\ \A i \in 0 .. n : c[i] \in Nat /\ start <= c[i] /\ c[i] <= Size
      /\ \A i \in 1 .. n : Piece(c[i - 1], c[i], items[i])
  <2>1. \A i \in 0 .. n : c[i] \in Nat /\ start <= c[i] /\ c[i] <= Size
    BY <1>3, <1>4, <1>5, RowOrdered
  <2>2. QED
    BY <1>3, <1>5, <2>1 DEF Row
\* Their number.
<1>7. VecLength = n /\ (n = 0 => room = NumSize)
      /\ (n # 0 => Num(args_at + NumSize) = NumSize * (n + 1) /\ room >= NumSize * (n + 1) /\ room >= 2 * NumSize)
  <2>1. CASE n = 0
    <3>1. start = args_at + NumSize
      BY <1>2, <1>4, <2>1, Places
    <3>2. room = NumSize
      BY <1>1, <1>2, <1>6, <2>1, <3>1
    <3>3. VecLength = 0
      BY <1>5, <3>2 DEF VecLength
    <3>4. QED
      BY <2>1, <3>2, <3>3
  <2>2. CASE n # 0
    <3>1. SUFFICES ASSUME NEW h \in Nat, h = NumSize * (n + 1), h >= 2 * NumSize, h \div NumSize = n + 1
                   PROVE  VecLength = n /\ Num(args_at + NumSize) = h /\ room >= h /\ room >= 2 * NumSize
      <4>1. \A b, x \in Nat : b >= 1 /\ x >= 2 => b * x \in Nat /\ b * x >= 2 * b /\ (b * x) \div b = x
        OBVIOUS
      <4>2. n + 1 \in Nat /\ n + 1 >= 2
        BY <1>3, <2>2
      <4>3. NumSize * (n + 1) \in Nat /\ NumSize * (n + 1) >= 2 * NumSize /\ (NumSize * (n + 1)) \div NumSize = n + 1
        BY <1>2, <4>1, <4>2
      <4>4. QED
        BY <2>2, <4>3
    <3>2. start = args_at + h
      BY <1>1, <3>1 DEF Place
    <3>3. room >= h
      <4>1. start <= Size
        BY <1>3, <1>6
      <4>2. QED
        BY <1>1, <1>2, <3>1, <3>2, <4>1
    <3>4. Num(args_at + NumSize) = h
      <4>1. 1 \in 1 .. n /\ 1 - 1 = 0
        BY <1>3, <2>2
      <4>2. Num(Place(args_at, 1)) = c[0] - args_at
        BY <1>5, <4>1
      <4>3. Place(args_at, 1) = args_at + NumSize
        BY <1>2 DEF Place
      <4>4. c[0] - args_at = h
        BY <1>2, <1>6, <3>1, <3>2
      <4>5. QED
        BY <4>2, <4>3, <4>4
    <3>5. room # NumSize /\ room >= 2 * NumSize
      BY <1>2, <3>1, <3>3
    <3>6. VecLength = n
      BY <1>3, <1>5, <3>1, <3>4, <3>5 DEF VecLength
    <3>7. QED
      BY <3>3, <3>4, <3>5, <3>6
  <2>3. QED
    BY <2>1, <2>2
\* Each of them.
<1>8. ASSUME NEW i \in 0 .. n - 1
      PROVE  /\ ArgStart(i) = c[i] /\ ArgEnd(i) = c[i + 1] /\ ArgEnd(i) <= Size
             /\ BytesFit(ArgStart(i), ArgEnd(i))
             /\ Cells(ArgStart(i) + NumSize, ArgEnd(i)) = args[i + 1]
  <2>1. SUFFICES ASSUME NEW j, j = i + 1
                 PROVE  /\ ArgStart(i) = c[i] /\ ArgEnd(i) = c[j] /\ ArgEnd(i) <= Size
                        /\ BytesFit(ArgStart(i), ArgEnd(i))
                        /\ Cells(ArgStart(i) + NumSize, ArgEnd(i)) = args[j]
    OBVIOUS
  <2>2. i \in Nat /\ j \in 1 .. n /\ j \in 0 .. n /\ i \in 0 .. n /\ j - 1 = i /\ i \in 0 .. n - 1
    BY <1>3, <2>1
  <2>3. \A k \in 0 .. n - 1 : ArgStart(k) = c[k]
    <3>1. TAKE k \in 0 .. n - 1
    <3>2. k + 1 \in 1 .. n /\ k + 1 - 1 = k /\ k \in 0 .. n
      BY <1>3
    <3>3. Num(Place(args_at, k + 1)) = c[k] - args_at /\ c[k] \in Nat
      BY <1>5, <1>6, <3>2
    <3>4. ArgStart(k) = args_at + Num(Place(args_at, k + 1))
      BY DEF ArgStart, Place
    <3>5. QED
      BY <1>2, <3>3, <3>4
  <2>4. ArgStart(i) = c[i]
    BY <2>2, <2>3
  <2>5. ArgEnd(i) = c[j]
    <3>1. ArgEnd(i) = IF j = n THEN Size ELSE ArgStart(j)
      BY <1>7, <2>1 DEF ArgEnd
    <3>2. j # n => j \in 0 .. n - 1
      BY <1>3, <2>2
    <3>3. QED
      BY <1>6, <2>3, <3>1, <3>2
  <2>6. SUFFICES ASSUME NEW lo, lo = c[i], NEW hi, hi = c[j], NEW code, code = args[j]
                 PROVE  hi <= Size /\ BytesFit(lo, hi) /\ Cells(lo + NumSize, hi) = code
    BY <2>4, <2>5
  <2>7. Piece(lo, hi, EncodeBytes(code)) /\ code \in Seq(Cell) /\ lo \in Nat /\ hi \in Nat /\ hi <= Size
    <3>1. Piece(c[j - 1], c[j], items[j]) /\ items[j] = EncodeBytes(args[j]) /\ args[j] \in Seq(Cell)
      BY <1>3, <1>6, <2>2
    <3>2. QED
      BY <1>6, <2>2, <2>6, <3>1
  <2>8. NumSize + Len(code) < NumMod
    <3>1. Len(EncodeBytes(code)) = NumSize + Len(code)
      BY <2>7, EncodedBytes
    <3>2. Len(EncodeBytes(code)) = hi - lo
      BY <2>7, PieceCells
    <3>3. QED
      BY <1>2, <2>7, <3>1, <3>2
  <2>9. QED
    BY <2>7, <2>8, BytesRead
<1>9. VectorFits
  <2>1. CASE n = 0
    BY <1>1, <1>2, <1>5, <1>7, <2>1 DEF VectorFits
  <2>2. CASE n # 0
    <3>1. Aligned(NumSize * (n + 1))
      <4>1. \A b, x \in Nat : b >= 1 /\ x >= 2 => (b * x) % b = 0 /\ b * x >= 2 * b
        OBVIOUS
      <4>2. n + 1 \in Nat /\ n + 1 >= 2
        BY <1>3, <2>2
      <4>3. QED
        BY <1>2, <4>1, <4>2 DEF Aligned
    <3>2. room >= 2 * NumSize /\ Aligned(Num(args_at + NumSize)) /\ room >= Num(args_at + NumSize)
      BY <1>7, <2>2, <3>1
    <3>3. room >= NumSize
      BY <1>2, <3>2
    <3>4. \A i \in 0 .. VecLength - 1 : ArgEnd(i) <= Size /\ BytesFit(ArgStart(i), ArgEnd(i))
      BY <1>7, <1>8
    <3>5. QED
      BY <1>1, <1>5, <3>2, <3>3, <3>4 DEF VectorFits
  <2>3. QED
    BY <2>1, <2>2
<1>10. ArgsOf(n) = args
  <2>1. SUFFICES ASSUME NEW a, a = ArgsOf(n) PROVE a = args
    OBVIOUS
  <2>2. a = [ i \in 1 .. n |-> Cells(ArgStart(i - 1) + NumSize, ArgEnd(i - 1)) ]
    BY <2>1 DEF ArgsOf
  <2>3. ASSUME NEW i \in 1 .. n PROVE a[i] = args[i]
    <3>1. SUFFICES ASSUME NEW j, j = i - 1 PROVE a[i] = args[i]
      OBVIOUS
    <3>2. j \in 0 .. n - 1 /\ j + 1 = i
      BY <1>3, <3>1
    <3>3. a[i] = Cells(ArgStart(j) + NumSize, ArgEnd(j))
      BY <2>2, <3>1
    <3>4. QED
      BY <1>8, <3>2, <3>3
  <2>4. args = [ i \in 1 .. n |-> args[i] ]
    BY <1>3
  <2>5. QED
    BY <2>2, <2>3, <2>4
<1>11. QED
  BY <1>7, <1>9, <1>10

-----------------------------------------------------------------------------
(* The steps *)

\* As long as the text stays, so does what the loader takes.
LEMMA SameParts ==
  ASSUME text' = text
  PROVE  /\ \A at, n : Value(at, n)' = Value(at, n)
         /\ \A lo, hi : SourceOf(lo, hi)' = SourceOf(lo, hi)
         /\ args_at' = args_at => VecLength' = VecLength /\ \A n : ArgsOf(n)' = ArgsOf(n)
<1>1. Size' = Size
  BY DEF Size
<1>2. \A i : CellAt(i)' = CellAt(i)
  BY <1>1 DEF CellAt
<1>3. \A at, n : Value(at, n)' = Value(at, n)
  BY <1>2 DEF Value
<1>4. \A at : Num(at)' = Num(at)
  BY <1>3 DEF Num
<1>5. \A lo, hi : Cells(lo, hi)' = Cells(lo, hi)
  BY <1>2 DEF Cells
<1>6. \A lo, hi : SourceOf(lo, hi)' = SourceOf(lo, hi)
  BY <1>3, <1>4, <1>5 DEF SourceOf
<1>7. ASSUME args_at' = args_at
      PROVE  VecLength' = VecLength /\ \A n : ArgsOf(n)' = ArgsOf(n)
  <2>1. VecLength' = VecLength
    BY <1>4, <1>7 DEF VecLength
  <2>2. \A i : ArgStart(i)' = ArgStart(i)
    BY <1>4, <1>7 DEF ArgStart
  <2>3. \A i : ArgEnd(i)' = ArgEnd(i)
    BY <1>1, <2>1, <2>2 DEF ArgEnd
  <2>4. \A n : ArgsOf(n)' = ArgsOf(n)
    BY <1>5, <2>2, <2>3 DEF ArgsOf
  <2>5. QED
    BY <2>1, <2>4
<1>8. QED
  BY <1>3, <1>6, <1>7

\* One argument more.
LEMMA ArgsGrow ==
  /\ ArgsOf(0) = << >>
  /\ \A n \in Nat : Append(ArgsOf(n), Cells(ArgStart(n) + NumSize, ArgEnd(n))) = ArgsOf(n + 1)
<1>1. ArgsOf(0) = << >>
  BY DEF ArgsOf
<1>2. ASSUME NEW n \in Nat
      PROVE  Append(ArgsOf(n), Cells(ArgStart(n) + NumSize, ArgEnd(n))) = ArgsOf(n + 1)
  <2>1. SUFFICES ASSUME NEW a, a = ArgsOf(n), NEW b, b = ArgsOf(n + 1), NEW x, x = Cells(ArgStart(n) + NumSize, ArgEnd(n))
                 PROVE  Append(a, x) = b
    OBVIOUS
  <2>2. /\ a = [ i \in 1 .. n |-> Cells(ArgStart(i - 1) + NumSize, ArgEnd(i - 1)) ]
        /\ b = [ i \in 1 .. n + 1 |-> Cells(ArgStart(i - 1) + NumSize, ArgEnd(i - 1)) ]
    BY <2>1 DEF ArgsOf
  <2>3. Len(a) = n /\ DOMAIN a = 1 .. n
    BY <2>2
  <2>4. SUFFICES ASSUME NEW S, S = { b[i] : i \in 1 .. n + 1 }
                 PROVE  Append(a, x) = b
    OBVIOUS
  <2>5. b \in Seq(S) /\ Len(b) = n + 1
    BY <2>2, <2>4
  <2>6. (\A i \in 1 .. n : a[i] = b[i]) /\ b[n + 1] = x
    <3>1. \A i \in 1 .. n : i \in 1 .. n + 1
      OBVIOUS
    <3>2. n + 1 \in 1 .. n + 1 /\ n + 1 - 1 = n
      OBVIOUS
    <3>3. b[n + 1] = Cells(ArgStart(n) + NumSize, ArgEnd(n))
      BY <2>2, <3>2
    <3>4. QED
      BY <2>1, <2>2, <3>1, <3>3
  <2>7. a \in Seq(S) /\ x \in S
    <3>1. \A i \in 1 .. n : a[i] \in S
      BY <2>4, <2>6
    <3>2. a \in [ 1 .. n -> S ]
      BY <2>2, <3>1
    <3>3. QED
      BY <2>4, <2>6, <3>2
  <2>8. /\ Append(a, x) \in Seq(S) /\ Len(Append(a, x)) = n + 1
        /\ \A i \in 1 .. n : Append(a, x)[i] = a[i]
        /\ Append(a, x)[n + 1] = x
    BY <2>3, <2>7, AppendProperties
  <2>9. \A i \in 1 .. n + 1 : Append(a, x)[i] = b[i]
    <3>1. \A i \in 1 .. n + 1 : i \in 1 .. n \/ i = n + 1
      OBVIOUS
    <3>2. QED
      BY <2>6, <2>8, <3>1
  <2>10. QED
    BY <2>5, <2>8, <2>9, SeqEqual
<1>3. QED
  BY <1>1, <1>2

\* The checks that are behind.
PastTotal == pc \in { "offset", "offsets", "source", "vector", "args", "take", "taken" }
PastOffsets == pc \in { "source", "vector", "args", "take", "taken" }
Verifying == pc \in { "size", "total", "offset", "offsets", "source", "vector" }

\* The loader has taken what is there, as far as it got.
TakenInv ==
  /\ PastTotal => Num(0) = Size
  /\ PastOffsets => args_at = Num(2 * NumSize)
  /\ Verifying => item = 0 /\ found = Nothing
  /\ pc = "args" => item <= VecLength /\ found = [ source |-> Bytes(<< >>), args |-> ArgsOf(item) ]
  /\ pc = "take" => found = [ source |-> Bytes(<< >>), args |-> ArgsOf(VecLength) ]
  /\ pc = "taken" => found = [ source |-> SourceOf(SourceAt, args_at), args |-> ArgsOf(VecLength) ]

\* No text of an Input is turned away.
AcceptInv == \A v \in Inputs : text = Encode(v) => pc # "rejected"

\* The inputs there are.
LEMMA InputsAre ==
  ASSUME NEW v \in Inputs
  PROVE  /\ v = [ source |-> v.source, args |-> v.args ]
         /\ v.source \in Sources /\ v.args \in Seq(Seq(Cell)) /\ Len(Encode(v)) < NumMod
  BY InputsAssumption DEF Sources, Cell

\* The text of an Input passes every check, and the loader takes that Input out of it.
LEMMA InputPasses ==
  ASSUME text \in Seq(Cell), NEW v \in Inputs, text = Encode(v)
  PROVE  /\ Size >= 3 * NumSize /\ Num(0) = Size
         /\ FieldsFit(Num(NumSize)) /\ OffsetsFit(Num(2 * NumSize))
         /\ args_at = Num(2 * NumSize) =>
              /\ SourceFits /\ SourceOf(SourceAt, args_at) = v.source
              /\ VectorFits /\ ArgsOf(VecLength) = v.args
<1>1. v.source \in Sources /\ v.args \in Seq(Seq(Cell)) /\ Len(text) < NumMod
  BY InputsAre
<1>2. PICK p : IsInput(v, p)
  BY <1>1, InputRead
<1>3. SUFFICES ASSUME NEW m, m = 3 * NumSize
               PROVE  /\ Size >= m /\ Num(0) = Size
                      /\ FieldsFit(Num(NumSize)) /\ OffsetsFit(Num(2 * NumSize))
                      /\ args_at = Num(2 * NumSize) =>
                           /\ SourceFits /\ SourceOf(SourceAt, args_at) = v.source
                           /\ VectorFits /\ ArgsOf(VecLength) = v.args
  OBVIOUS
<1>4. /\ Num(0) = Size /\ Num(NumSize) = m /\ Num(2 * NumSize) = p /\ SourceAt = m
      /\ Piece(m, p, EncodeSource(v.source)) /\ Piece(p, Size, EncodeVec(v.args))
  BY <1>2, <1>3 DEF IsInput, SourceAt
<1>5. m \in Nat /\ p \in Nat /\ Size \in Nat /\ m <= p /\ p <= Size
  <2>1. m \in Nat /\ p \in Nat /\ m <= p
    BY <1>4, PieceCells
  <2>2. Size \in Nat /\ p <= Size
    BY <1>4, PieceCells
  <2>3. QED
    BY <2>1, <2>2
<1>6. NumSize \in Nat /\ NumSize >= 1
  BY Division
<1>7. FieldsFit(m)
  <2>1. m % NumSize = 0 /\ m \div NumSize = 3
    <3>1. \A b \in Nat : b >= 1 => (3 * b) % b = 0 /\ (3 * b) \div b = 3
      OBVIOUS
    <3>2. QED
      BY <1>3, <1>6, <3>1
  <2>2. Size >= NumSize * (2 + 1)
    BY <1>3, <1>5, <1>6
  <2>3. FieldCount(m) = 2
    BY <2>1 DEF FieldCount
  <2>4. m >= 2 * NumSize
    BY <1>3, <1>6
  <2>5. QED
    BY <2>1, <2>2, <2>3, <2>4 DEF FieldsFit, Aligned
<1>8. OffsetsFit(p)
  BY <1>4, <1>5 DEF OffsetsFit
<1>9. ASSUME args_at = p
      PROVE  /\ SourceFits /\ SourceOf(SourceAt, args_at) = v.source
             /\ VectorFits /\ ArgsOf(VecLength) = v.args
  <2>1. Len(EncodeSource(v.source)) < NumMod /\ Len(EncodeVec(v.args)) < NumMod
    BY <1>1, InputRead
  <2>2. SourceIsThere(m, p) /\ SourceOf(m, p) = v.source
    BY <1>1, <1>4, <2>1, SourceRead
  <2>3. SourceFits
    BY <1>4, <1>9, <2>2 DEF SourceFits, SourceIsThere
  <2>4. PICK c : IsVec(p, Size, v.args, c)
    BY <1>1, <1>4, <2>1, VecRead
  <2>5. InBounds
    BY <1>1, <1>5, <1>9 DEF InBounds, Size
  <2>6. VectorFits /\ ArgsOf(VecLength) = v.args
    BY <1>1, <1>9, <2>4, <2>5, VectorMade
  <2>7. QED
    BY <1>4, <1>9, <2>2, <2>3, <2>6
<1>10. QED
  BY <1>4, <1>5, <1>7, <1>8, <1>9

\* What the verification lets through is the text of what the loader takes.
LEMMA TakenIsCanonical ==
  ASSUME IInv, TakenInv
  PROVE  Canonical
<1>1. SUFFICES ASSUME pc = "taken" PROVE text = Encode(found)
  BY DEF Canonical
<1>2. text \in Seq(Cell) /\ NumSize \in Nat /\ NumSize >= 1
  BY Division DEF IInv, Cell
<1>3. /\ SourceAt = 3 * NumSize /\ args_at \in Nat /\ SourceAt <= args_at /\ args_at <= Size
      /\ SourceFits /\ VectorFits
  BY <1>1 DEF IInv, HeaderInv, PartsInv
<1>4. /\ Num(0) = Size /\ args_at = Num(2 * NumSize)
      /\ found.source = SourceOf(SourceAt, args_at) /\ found.args = ArgsOf(VecLength)
  BY <1>1 DEF TakenInv, PastTotal, PastOffsets
<1>5. InBounds
  <2>1. Size \in Nat /\ Num(0) < NumMod
    <3>1. NumMod = Power(NumSize)
      BY NumbersAreLarge
    <3>2. Num(0) \in Nat /\ Num(0) < Power(NumSize)
      BY <1>2, NumberRead DEF Num
    <3>3. QED
      BY <1>4, <3>1, <3>2
  <2>2. QED
    BY <1>3, <1>4, <2>1 DEF InBounds
<1>6. found.args \in Seq(Seq(Cell)) /\ IsVec(args_at, Size, found.args, ItemPlaces)
  BY <1>2, <1>3, <1>4, <1>5, VectorIs
<1>7. Piece(args_at, Size, EncodeVec(found.args))
  BY <1>2, <1>3, <1>6, VecThere
<1>8. found.source \in Sources /\ Piece(SourceAt, args_at, EncodeSource(found.source))
  <2>1. SourceIsThere(SourceAt, args_at)
    BY <1>3 DEF SourceFits, SourceIsThere
  <2>2. SourceAt \in Nat /\ args_at - SourceAt < NumMod
    BY <1>2, <1>3, <1>5, NumbersAreLarge DEF InBounds
  <2>3. QED
    BY <1>2, <1>3, <1>4, <2>1, <2>2, SourceThere
<1>9. IsInput(found, args_at)
  BY <1>3, <1>4, <1>7, <1>8 DEF IsInput, SourceAt
<1>10. QED
  BY <1>2, <1>6, <1>8, <1>9, InputThere

\* What was accepted and taken is what the text was made of.
LEMMA TakenIsWhatWasMade ==
  ASSUME IInv, TakenInv, AcceptInv
  PROVE  RoundTrip
<1>1. SUFFICES ASSUME NEW v \in Inputs, text = Encode(v)
               PROVE  pc # "rejected" /\ (pc = "taken" => found = v)
  BY DEF RoundTrip
<1>2. pc # "rejected"
  BY <1>1 DEF AcceptInv
<1>3. ASSUME pc = "taken" PROVE found = v
  <2>1. text \in Seq(Cell)
    BY DEF IInv, Cell
  <2>2. /\ args_at = Num(2 * NumSize)
        /\ found = [ source |-> SourceOf(SourceAt, args_at), args |-> ArgsOf(VecLength) ]
    BY <1>3 DEF TakenInv, PastOffsets
  <2>3. SourceOf(SourceAt, args_at) = v.source /\ ArgsOf(VecLength) = v.args
    BY <1>1, <2>1, <2>2, InputPasses
  <2>4. v = [ source |-> v.source, args |-> v.args ]
    BY InputsAre
  <2>5. QED
    BY <2>2, <2>3, <2>4
<1>4. QED
  BY <1>2, <1>3

\* Nothing is taken at the beginning.
LEMMA InitTaken ==
  ASSUME Init
  PROVE  TakenInv /\ AcceptInv
  BY DEF Init, TakenInv, AcceptInv, PastTotal, PastOffsets, Verifying

\* Every step takes what is there.
LEMMA StepTaken ==
  ASSUME IInv, TakenInv, [Next]_vars
  PROVE  TakenInv'
<1>1. SUFFICES ASSUME text' = text
               PROVE  TakenInv'
  BY DEF Next, Verify, vars, CheckSize, CheckTotal, CheckOffset, CheckOffsets, CheckSource,
         CheckVector, TakeArg, EndArgs, TakeSource
<1>2. text \in Seq(Cell) /\ item \in Nat
  BY DEF IInv, Cell
<1>3. /\ Size' = Size /\ SourceAt' = SourceAt /\ Num(0)' = Num(0) /\ Num(2 * NumSize)' = Num(2 * NumSize)
      /\ \A lo, hi : SourceOf(lo, hi)' = SourceOf(lo, hi)
      /\ args_at' = args_at => VecLength' = VecLength /\ \A n : ArgsOf(n)' = ArgsOf(n)
  BY <1>1, SameText, SameParts
<1>4. /\ PastTotal => Num(0) = Size
      /\ PastOffsets => args_at = Num(2 * NumSize)
      /\ Verifying => item = 0 /\ found = Nothing
      /\ pc = "args" => item <= VecLength /\ found = [ source |-> Bytes(<< >>), args |-> ArgsOf(item) ]
      /\ pc = "take" => found = [ source |-> Bytes(<< >>), args |-> ArgsOf(VecLength) ]
      /\ pc = "taken" => found = [ source |-> SourceOf(SourceAt, args_at), args |-> ArgsOf(VecLength) ]
  BY DEF TakenInv
<1>5. CASE CheckSize \/ CheckTotal \/ CheckOffset
  <2>1. pc' \in { "total", "offset", "offsets", "rejected" } /\ item' = item /\ found' = found
        /\ Verifying /\ (pc' \in { "offset", "offsets" } => Num(0) = Size)
    BY <1>4, <1>5 DEF CheckSize, CheckTotal, CheckOffset, At, Check, Verifying, PastTotal
  <2>2. QED
    BY <1>3, <1>4, <2>1 DEF TakenInv, PastTotal, PastOffsets, Verifying
<1>6. CASE CheckOffsets
  <2>1. pc' \in { "source", "rejected" } /\ item' = item /\ found' = found
        /\ Verifying /\ PastTotal /\ args_at' = Num(2 * NumSize)
    BY <1>6 DEF CheckOffsets, At, Check, Verifying, PastTotal
  <2>2. QED
    BY <1>3, <1>4, <2>1 DEF TakenInv, PastTotal, PastOffsets, Verifying
<1>7. CASE CheckSource
  <2>1. pc' \in { "vector", "rejected" } /\ item' = item /\ found' = found
        /\ Verifying /\ PastTotal /\ PastOffsets /\ args_at' = args_at
    BY <1>7 DEF CheckSource, At, Check, Verifying, PastTotal, PastOffsets
  <2>2. QED
    BY <1>3, <1>4, <2>1 DEF TakenInv, PastTotal, PastOffsets, Verifying
<1>8. CASE CheckVector
  <2>1. pc' \in { "args", "rejected" } /\ item' = item /\ found' = found
        /\ Verifying /\ PastTotal /\ PastOffsets /\ args_at' = args_at /\ pc = "vector"
        /\ (pc' = "args" => VectorFits)
    BY <1>8 DEF CheckVector, At, Check, Verifying, PastTotal, PastOffsets
  <2>2. pc' = "args" => VecLength \in Nat
    <3>1. SUFFICES ASSUME VectorFits PROVE VecLength \in Nat
      BY <2>1
    <3>2. InBounds
      <4>1. NumSize \in Nat /\ NumMod = Power(NumSize)
        BY Division, NumbersAreLarge
      <4>2. Num(0) \in Nat /\ Num(0) < NumMod
        BY <1>2, <4>1, NumberRead DEF Num
      <4>3. args_at \in Nat /\ args_at <= Size /\ Num(0) = Size
        BY <1>4, <2>1 DEF IInv, PartsInv
      <4>4. QED
        BY <4>2, <4>3 DEF InBounds
    <3>3. QED
      BY <1>2, <3>1, <3>2, LengthIs
  <2>3. found = [ source |-> Bytes(<< >>), args |-> ArgsOf(0) ] /\ item = 0
    BY <1>4, <2>1, ArgsGrow DEF Nothing
  <2>4. pc' = "args" => item' <= VecLength' /\ found' = [ source |-> Bytes(<< >>), args |-> ArgsOf(item)' ]
    BY <1>3, <2>1, <2>2, <2>3
  <2>5. QED
    BY <1>3, <1>4, <2>1, <2>4 DEF TakenInv, PastTotal, PastOffsets, Verifying
<1>9. CASE TakeArg
  <2>1. /\ pc = "args" /\ pc' = "args" /\ args_at' = args_at /\ item' = item + 1 /\ item < VecLength
        /\ found' = [ found EXCEPT !.args = Append(@, Cells(ArgStart(item) + NumSize, ArgEnd(item))) ]
    BY <1>9 DEF TakeArg, At
  <2>2. found' = [ source |-> Bytes(<< >>), args |-> ArgsOf(item + 1) ]
    <3>1. found = [ source |-> Bytes(<< >>), args |-> ArgsOf(item) ]
      BY <1>4, <2>1
    <3>2. Append(ArgsOf(item), Cells(ArgStart(item) + NumSize, ArgEnd(item))) = ArgsOf(item + 1)
      BY <1>2, ArgsGrow
    <3>3. QED
      BY <2>1, <3>1, <3>2
  <2>3. item + 1 <= VecLength
    <3>1. VecLength \in Int
      <4>1. NumSize \in Nat /\ NumSize >= 1 /\ args_at \in Nat
        BY <2>1, Division DEF IInv, PartsInv
      <4>2. Num(args_at + NumSize) \in Nat
        <5>1. args_at + NumSize \in Nat
          BY <4>1
        <5>2. QED
          BY <1>2, <4>1, <5>1, NumberRead DEF Num
      <4>3. QED
        BY <4>1, <4>2 DEF VecLength
    <3>2. QED
      BY <1>2, <2>1, <3>1
  <2>4. PastTotal /\ PastOffsets
    BY <2>1 DEF PastTotal, PastOffsets
  <2>5. item' <= VecLength'
    BY <1>3, <2>1, <2>3
  <2>6. found' = [ source |-> Bytes(<< >>), args |-> ArgsOf(item)' ]
    <3>1. SUFFICES ASSUME NEW n, n = item', n = item + 1
                   PROVE  found' = [ source |-> Bytes(<< >>), args |-> ArgsOf(item)' ]
      BY <2>1
    <3>2. ArgsOf(item)' = ArgsOf(n)'
      BY <3>1 DEF ArgsOf
    <3>3. ArgsOf(n)' = ArgsOf(n)
      BY <1>3, <2>1
    <3>4. QED
      BY <2>2, <3>1, <3>2, <3>3
  <2>7. QED
    BY <1>3, <1>4, <2>1, <2>4, <2>5, <2>6 DEF TakenInv, PastTotal, PastOffsets, Verifying
<1>10. CASE EndArgs
  <2>1. pc = "args" /\ pc' = "take" /\ item = VecLength /\ args_at' = args_at /\ found' = found
        /\ PastTotal /\ PastOffsets
    BY <1>10 DEF EndArgs, At, PastTotal, PastOffsets
  <2>2. found' = [ source |-> Bytes(<< >>), args |-> ArgsOf(VecLength)' ]
    BY <1>3, <1>4, <2>1
  <2>3. QED
    BY <1>3, <1>4, <2>1, <2>2 DEF TakenInv, PastTotal, PastOffsets, Verifying
<1>11. CASE TakeSource
  <2>1. /\ pc = "take" /\ pc' = "taken" /\ args_at' = args_at /\ PastTotal /\ PastOffsets
        /\ found' = [ found EXCEPT !.source = SourceOf(SourceAt, args_at) ]
    BY <1>11 DEF TakeSource, At, PastTotal, PastOffsets, SourceOf
  <2>2. found' = [ source |-> SourceOf(SourceAt, args_at), args |-> ArgsOf(VecLength) ]
    BY <1>4, <2>1
  <2>3. QED
    BY <1>3, <1>4, <2>1, <2>2 DEF TakenInv, PastTotal, PastOffsets, Verifying
<1>12. CASE UNCHANGED vars
  <2>1. pc' = pc /\ args_at' = args_at /\ item' = item /\ found' = found
    BY <1>12 DEF vars
  <2>2. VecLength' = VecLength
    BY <1>3, <2>1
  <2>3. ArgsOf(item)' = ArgsOf(item) /\ ArgsOf(VecLength)' = ArgsOf(VecLength)
    <3>1. SUFFICES ASSUME NEW n, n = item, NEW m, m = VecLength
                   PROVE  ArgsOf(item)' = ArgsOf(n) /\ ArgsOf(VecLength)' = ArgsOf(m)
      OBVIOUS
    <3>2. ArgsOf(n)' = ArgsOf(n) /\ ArgsOf(m)' = ArgsOf(m)
      BY <1>3, <2>1
    <3>3. ArgsOf(item)' = ArgsOf(n)' /\ ArgsOf(VecLength)' = ArgsOf(m)'
      BY <2>1, <2>2, <3>1 DEF ArgsOf
    <3>4. QED
      BY <3>2, <3>3
  <2>4. SourceOf(SourceAt, args_at)' = SourceOf(SourceAt, args_at)
    <3>1. SUFFICES ASSUME NEW lo, lo = SourceAt, NEW hi, hi = args_at
                   PROVE  SourceOf(SourceAt, args_at)' = SourceOf(lo, hi)
      OBVIOUS
    <3>2. SourceOf(SourceAt, args_at)' = SourceOf(lo, hi)'
      BY <1>3, <2>1, <3>1 DEF SourceOf
    <3>3. QED
      BY <1>3, <3>2
  <2>5. QED
    BY <1>3, <1>4, <2>1, <2>2, <2>3, <2>4 DEF TakenInv, PastTotal, PastOffsets, Verifying
<1>13. QED
  BY <1>5, <1>6, <1>7, <1>8, <1>9, <1>10, <1>11, <1>12 DEF Next, Verify

\* No check turns the text of an Input away.
LEMMA StepAccepts ==
  ASSUME IInv, TakenInv, AcceptInv, [Next]_vars
  PROVE  AcceptInv'
<1>1. SUFFICES ASSUME text' = text, NEW v \in Inputs, text = Encode(v), pc # "rejected"
               PROVE  pc' # "rejected"
  <2>1. text' = text
    BY DEF Next, Verify, vars, CheckSize, CheckTotal, CheckOffset, CheckOffsets, CheckSource,
           CheckVector, TakeArg, EndArgs, TakeSource
  <2>2. QED
    BY <1>1, <2>1 DEF AcceptInv
<1>2. text \in Seq(Cell) /\ NumSize \in Nat
  BY Division DEF IInv, Cell
<1>3. /\ Size >= 3 * NumSize /\ Num(0) = Size
      /\ FieldsFit(Num(NumSize)) /\ OffsetsFit(Num(2 * NumSize))
      /\ args_at = Num(2 * NumSize) => SourceFits /\ VectorFits
  BY <1>1, <1>2, InputPasses
<1>4. PastOffsets => args_at = Num(2 * NumSize)
  BY DEF TakenInv
<1>5. Size >= NumSize /\ Size >= 2 * NumSize
  <2>1. Size \in Nat
    BY <1>2, LenProperties DEF Size
  <2>2. QED
    BY <1>2, <1>3, <2>1
<1>6. CASE CheckSize \/ CheckTotal \/ CheckOffset \/ CheckOffsets
  BY <1>3, <1>5, <1>6 DEF CheckSize, CheckTotal, CheckOffset, CheckOffsets, Check
<1>7. CASE CheckSource \/ CheckVector
  <2>1. SourceFits /\ VectorFits
    BY <1>3, <1>4, <1>7 DEF CheckSource, CheckVector, At, PastOffsets
  <2>2. QED
    BY <1>7, <2>1 DEF CheckSource, CheckVector, Check
<1>8. CASE TakeArg \/ EndArgs \/ TakeSource \/ UNCHANGED vars
  BY <1>1, <1>8 DEF TakeArg, EndArgs, TakeSource, vars, At
<1>9. QED
  BY <1>6, <1>7, <1>8 DEF Next, Verify

\* Both stay true along every behaviour.
THEOREM TakenInvariance == Spec => [](TakenInv /\ AcceptInv)
<1>1. Init => TakenInv /\ AcceptInv
  BY InitTaken
<1>2. IInv /\ TakenInv /\ AcceptInv /\ [Next]_vars => TakenInv' /\ AcceptInv'
  BY StepTaken, StepAccepts
<1>3. QED
  BY <1>1, <1>2, Invariance, PTL DEF Spec

\* What the verification accepts is, cell for cell, what the builder makes of the Input
\* the loader takes: an Input has one text (schema/args.h:83-203, c/glue.h:563-627).
THEOREM OneTextForAnInput == Spec => []Canonical
<1>1. IInv /\ TakenInv => Canonical
  BY TakenIsCanonical
<1>2. QED
  BY <1>1, Invariance, TakenInvariance, PTL

\* The loader takes out what the assembler put in: every text the builder makes is
\* accepted, with just the source and the arguments it was made of.
THEOREM LoaderTakesWhatWasBuilt == Spec => []RoundTrip
<1>1. IInv /\ TakenInv /\ AcceptInv => RoundTrip
  BY TakenIsWhatWasMade
<1>2. QED
  BY <1>1, Invariance, TakenInvariance, PTL

=============================================================================
