----------------------------- MODULE LayoutProofs ----------------------------
(***************************************************************************)
(* Proofs about the layout of the message view, for any number of widgets, *)
(* any texts, any sizes of the window and of the view's margins.           *)
(*                                                                         *)
(* A position is a sum of heights over the widgets above, and a height is  *)
(* a number of lines that a recursive function counts.  No induction       *)
(* principle over an operator can be used here; the proofs by induction go *)
(* over the set of the numbers for which a fact holds (Induction, below).  *)
(***************************************************************************)
EXTENDS MessageLayout, TLAPS, FiniteSetTheorems, SequenceTheorems, WellFoundedInduction

-----------------------------------------------------------------------------
(* Induction.                                                              *)

\* A set of numbers that is not empty has a least one.
LEMMA LeastNumber ==
    ASSUME NEW I \in SUBSET Nat, I # {}
    PROVE  \E x \in I : \A y \in I : x <= y
<1> DEFINE less == OpToRel(<, Nat)
<1>1. IsWellFoundedOn(less, Nat)
  BY NatLessThanWellFounded
<1>2. ASSUME NEW y \in Nat, NEW x \in Nat, y < x
      PROVE  <<y, x>> \in less
  <2>1. <<y, x>> \in Nat \X Nat /\ <<y, x>>[1] = y /\ <<y, x>>[2] = x
    OBVIOUS
  <2> QED
    BY <1>2, <2>1 DEF OpToRel
<1> HIDE DEF less
<1>3. PICK x \in I : \A y \in I : <<y, x>> \notin less
  BY <1>1, WFMin
<1>4. ASSUME NEW y \in I PROVE x <= y
  <2>1. x \in Nat /\ y \in Nat
    OBVIOUS
  <2>2. CASE y < x
    BY <1>2, <1>3, <2>1, <2>2
  <2> QED
    BY <2>1, <2>2
<1> QED
  BY <1>4

\* What holds of 0, and of the next number with every number, holds of all.
LEMMA Induction ==
    ASSUME NEW I, 0 \in I, \A n \in Nat : n \in I => n + 1 \in I
    PROVE  \A n \in Nat : n \in I
<1> DEFINE others == {n \in Nat : n \notin I}
<1>1. SUFFICES ASSUME others # {} PROVE FALSE
  OBVIOUS
<1>2. PICK x \in others : \A y \in others : x <= y
  BY <1>1, LeastNumber
<1>3. x # 0 /\ x - 1 \in Nat /\ x - 1 \notin others
  BY <1>2
<1>4. x - 1 \in I
  BY <1>3
<1>5. (x - 1) + 1 \in I /\ (x - 1) + 1 = x
  BY <1>3, <1>4
<1> QED
  BY <1>5

-----------------------------------------------------------------------------
(* Sums of heights.                                                        *)

\* f is the row at which every widget of v ends.
AddsUp(ws, v, f) ==
    /\ f[0] = 0
    /\ \A i \in 1..Len(v) : f[i] = f[i - 1] + Height(ws[v[i]])

NextSum(ws, v, f, i) == IF i = 0 THEN 0 ELSE f[i - 1] + Height(ws[v[i]])

\* The recursive function of Total exists.
LEMMA SumsExist ==
    ASSUME NEW ws, NEW v
    PROVE  \A n \in Nat : \E f : f = [i \in 0..n |-> NextSum(ws, v, f, i)]
<1> DEFINE Good == {n \in Nat : \E f : f = [i \in 0..n |-> NextSum(ws, v, f, i)]}
<1>1. 0 \in Good
  <2> DEFINE f == [i \in 0..0 |-> 0]
  <2>1. f = [i \in 0..0 |-> NextSum(ws, v, f, i)]
    BY DEF NextSum
  <2> QED
    BY <2>1
<1>2. ASSUME NEW n \in Nat, n \in Good PROVE n + 1 \in Good
  <2>1. PICK f : f = [i \in 0..n |-> NextSum(ws, v, f, i)]
    BY <1>2
  <2> DEFINE g == [i \in 0..n + 1 |-> IF i = n + 1 THEN f[n] + Height(ws[v[n + 1]]) ELSE f[i]]
  <2>2. ASSUME NEW i \in 0..n + 1 PROVE g[i] = NextSum(ws, v, g, i)
    <3>1. CASE i = n + 1
      <4>1. g[i] = f[n] + Height(ws[v[n + 1]]) /\ g[n] = f[n] /\ i # 0 /\ i - 1 = n
        BY <3>1
      <4> QED
        BY <3>1, <4>1 DEF NextSum
    <3>2. CASE i = 0
      <4>1. g[i] = f[0] /\ f[0] = 0
        BY <2>1, <3>2 DEF NextSum
      <4> QED
        BY <3>2, <4>1 DEF NextSum
    <3>3. CASE i # 0 /\ i # n + 1
      <4>1. i \in 0..n /\ i - 1 \in 0..n /\ i - 1 # n + 1 /\ i - 1 \in 0..n + 1
        BY <3>3
      <4>2. g[i] = f[i] /\ g[i - 1] = f[i - 1]
        BY <3>3, <4>1
      <4>3. f[i] = f[i - 1] + Height(ws[v[i]])
        BY <2>1, <3>3, <4>1 DEF NextSum
      <4> HIDE DEF g
      <4> QED
        BY <3>3, <4>2, <4>3 DEF NextSum
    <3> QED
      BY <3>1, <3>2, <3>3
  <2>3. g = [i \in 0..n + 1 |-> NextSum(ws, v, g, i)]
    <3>1. g = [i \in 0..n + 1 |-> g[i]]
      OBVIOUS
    <3> HIDE DEF g
    <3> QED
      BY <2>2, <3>1
  <2> HIDE DEF g
  <2> QED
    BY <2>3
<1> HIDE DEF Good
<1>3. \A n \in Nat : n \in Good
  BY <1>1, <1>2, Induction
<1> QED
  BY <1>3 DEF Good

LEMMA TotalAddsUp ==
    ASSUME NEW ws, NEW v, Len(v) \in Nat
    PROVE  \E f : AddsUp(ws, v, f) /\ Total(ws, v) = f[Len(v)]
<1> DEFINE f == CHOOSE g : g = [i \in 0..Len(v) |-> NextSum(ws, v, g, i)]
<1>1. f = [i \in 0..Len(v) |-> NextSum(ws, v, f, i)]
  BY SumsExist
<1>2. Total(ws, v) = f[Len(v)]
  BY DEF Total, NextSum
<1> HIDE DEF f
<1>3. f[0] = 0
  BY <1>1 DEF NextSum
<1>4. ASSUME NEW i \in 1..Len(v) PROVE f[i] = f[i - 1] + Height(ws[v[i]])
  BY <1>1 DEF NextSum
<1> QED
  BY <1>2, <1>3, <1>4 DEF AddsUp

\* Sums over equal heights are equal.
LEMMA EqualSums ==
    ASSUME NEW ws, NEW v, NEW f, AddsUp(ws, v, f), Len(v) \in Nat,
           NEW us, NEW u, NEW g, AddsUp(us, u, g), Len(u) \in Nat,
           NEW k \in Nat, k <= Len(v), k <= Len(u),
           \A i \in 1..k : Height(ws[v[i]]) = Height(us[u[i]])
    PROVE  \A i \in 0..k : f[i] = g[i]
<1> DEFINE Good == {n \in Nat : n <= k => f[n] = g[n]}
<1>1. 0 \in Good
  BY DEF AddsUp
<1>2. ASSUME NEW n \in Nat, n \in Good PROVE n + 1 \in Good
  <2> SUFFICES ASSUME n + 1 <= k PROVE f[n + 1] = g[n + 1]
    OBVIOUS
  <2>1. n + 1 \in 1..Len(v) /\ n + 1 \in 1..Len(u) /\ n + 1 \in 1..k /\ (n + 1) - 1 = n
    OBVIOUS
  <2>2. f[n] = g[n]
    BY <1>2
  <2>3. f[n + 1] = f[n] + Height(ws[v[n + 1]])
    BY <2>1 DEF AddsUp
  <2>4. g[n + 1] = g[n] + Height(us[u[n + 1]])
    BY <2>1 DEF AddsUp
  <2> QED
    BY <2>1, <2>2, <2>3, <2>4
<1>3. \A n \in Nat : n \in Good
  <2> HIDE DEF Good
  <2> QED
    BY <1>1, <1>2, Induction
<1> QED
  BY <1>3

\* The heights of the widgets of v are numbers.
Measured(ws, v) == \A i \in 1..Len(v) : Height(ws[v[i]]) \in Nat

\* With such heights the rows are numbers, and do not decrease.
LEMMA SumsAreNumbers ==
    ASSUME NEW ws, NEW v, NEW f, AddsUp(ws, v, f), Len(v) \in Nat, Measured(ws, v)
    PROVE  \A i \in 0..Len(v) : f[i] \in Nat
<1> DEFINE Good == {n \in Nat : n <= Len(v) => f[n] \in Nat}
<1>1. 0 \in Good
  BY DEF AddsUp
<1>2. ASSUME NEW n \in Nat, n \in Good PROVE n + 1 \in Good
  <2> SUFFICES ASSUME n + 1 <= Len(v) PROVE f[n + 1] \in Nat
    OBVIOUS
  <2>1. n + 1 \in 1..Len(v) /\ (n + 1) - 1 = n
    OBVIOUS
  <2>2. f[n] \in Nat
    BY <1>2
  <2>3. f[n + 1] = f[n] + Height(ws[v[n + 1]]) /\ Height(ws[v[n + 1]]) \in Nat
    BY <2>1 DEF AddsUp, Measured
  <2> QED
    BY <2>2, <2>3
<1>3. \A n \in Nat : n \in Good
  <2> HIDE DEF Good
  <2> QED
    BY <1>1, <1>2, Induction
<1> QED
  BY <1>3

\* Total, of the widgets above a place, is the row at which they end.
LEMMA TotalOfPrefix ==
    ASSUME NEW ws, NEW v \in Seq(Widget), NEW f, AddsUp(ws, v, f), NEW n \in 0..Len(v)
    PROVE  Total(ws, SubSeq(v, 1, n)) = f[n]
<1> DEFINE s == SubSeq(v, 1, n)
<1>1. Len(s) = n /\ \A i \in 1..n : s[i] = v[i]
  <2>1. n \in Int /\ \A i \in 1..n : v[i] \in Widget
    OBVIOUS
  <2> QED
    BY <2>1, SubSeqProperties
<1> HIDE DEF s
<1>2. Len(s) \in Nat
  BY <1>1
<1>3. PICK g : AddsUp(ws, s, g) /\ Total(ws, s) = g[Len(s)]
  BY <1>2, TotalAddsUp
<1>4. \A i \in 1..n : Height(ws[s[i]]) = Height(ws[v[i]])
  BY <1>1
<1>5. \A i \in 0..n : g[i] = f[i]
  BY <1>1, <1>2, <1>3, <1>4, EqualSums
<1> QED
  BY <1>1, <1>3, <1>5 DEF s

LEMMA TotalIsNumber ==
    ASSUME NEW ws, NEW v, Len(v) \in Nat, Measured(ws, v)
    PROVE  Total(ws, v) \in Nat
<1>1. PICK f : AddsUp(ws, v, f) /\ Total(ws, v) = f[Len(v)]
  BY TotalAddsUp
<1> QED
  BY <1>1, SumsAreNumbers

\* Sums depend on the heights only.
LEMMA EqualTotals ==
    ASSUME NEW ws, NEW us, NEW v, Len(v) \in Nat, NEW u, Len(u) = Len(v),
           \A i \in 1..Len(v) : Height(ws[v[i]]) = Height(us[u[i]])
    PROVE  Total(ws, v) = Total(us, u)
<1>1. PICK f : AddsUp(ws, v, f) /\ Total(ws, v) = f[Len(v)]
  BY TotalAddsUp
<1>2. PICK g : AddsUp(us, u, g) /\ Total(us, u) = g[Len(u)]
  BY TotalAddsUp
<1>3. \A i \in 0..Len(v) : f[i] = g[i]
  BY <1>1, <1>2, EqualSums
<1> QED
  BY <1>1, <1>2, <1>3

\* The widgets of s above those of t.
LEMMA TotalOfConcat ==
    ASSUME NEW ws, NEW s \in Seq(Widget), NEW t \in Seq(Widget),
           Measured(ws, s), Measured(ws, t)
    PROVE  Total(ws, s \o t) = Total(ws, s) + Total(ws, t)
<1> DEFINE v == s \o t
<1>1. /\ v \in Seq(Widget) /\ Len(v) = Len(s) + Len(t)
      /\ \A i \in 1..Len(s) + Len(t) : v[i] = IF i <= Len(s) THEN s[i] ELSE t[i - Len(s)]
  BY ConcatProperties
<1> HIDE DEF v
<1>2. Len(s) \in Nat /\ Len(t) \in Nat /\ Len(v) \in Nat
  BY <1>1
<1>3. PICK f : AddsUp(ws, v, f) /\ Total(ws, v) = f[Len(v)]
  BY <1>2, TotalAddsUp
<1>4. PICK g : AddsUp(ws, s, g) /\ Total(ws, s) = g[Len(s)]
  BY <1>2, TotalAddsUp
<1>5. PICK h : AddsUp(ws, t, h) /\ Total(ws, t) = h[Len(t)]
  BY <1>2, TotalAddsUp
<1>6. f[Len(s)] = g[Len(s)]
  <2>1. \A i \in 1..Len(s) : Height(ws[v[i]]) = Height(ws[s[i]])
    <3>1. \A i \in 1..Len(s) : v[i] = s[i]
      BY <1>1, <1>2
    <3> QED
      BY <3>1
  <2>2. Len(s) <= Len(v) /\ Len(s) <= Len(s)
    BY <1>1, <1>2
  <2>3. AddsUp(ws, v, f) /\ AddsUp(ws, s, g)
    BY <1>3, <1>4
  <2>4. \A i \in 0..Len(s) : f[i] = g[i]
    BY <1>2, <2>1, <2>2, <2>3, EqualSums
  <2> QED
    BY <1>2, <2>4
<1>7. g[Len(s)] \in Nat /\ \A i \in 0..Len(t) : h[i] \in Nat
  BY <1>2, <1>4, <1>5, SumsAreNumbers
<1> DEFINE Good == {n \in Nat : n <= Len(t) => f[Len(s) + n] = g[Len(s)] + h[n]}
<1>8. 0 \in Good
  BY <1>2, <1>5, <1>6, <1>7 DEF AddsUp
<1>9. ASSUME NEW n \in Nat, n \in Good PROVE n + 1 \in Good
  <2> SUFFICES ASSUME n + 1 <= Len(t) PROVE f[Len(s) + (n + 1)] = g[Len(s)] + h[n + 1]
    OBVIOUS
  <2>1. /\ n + 1 \in 1..Len(t) /\ (n + 1) - 1 = n
        /\ Len(s) + (n + 1) \in 1..Len(v) /\ (Len(s) + (n + 1)) - 1 = Len(s) + n
    BY <1>1, <1>2
  <2>2. v[Len(s) + (n + 1)] = t[n + 1]
    <3>1. ~(Len(s) + (n + 1) <= Len(s)) /\ (Len(s) + (n + 1)) - Len(s) = n + 1
      BY <1>2
    <3> QED
      BY <1>1, <1>2, <2>1, <3>1
  <2>3. f[Len(s) + (n + 1)] = f[Len(s) + n] + Height(ws[t[n + 1]])
    BY <1>3, <2>1, <2>2 DEF AddsUp
  <2>4. h[n + 1] = h[n] + Height(ws[t[n + 1]]) /\ Height(ws[t[n + 1]]) \in Nat
    BY <1>5, <2>1 DEF AddsUp, Measured
  <2>5. f[Len(s) + n] = g[Len(s)] + h[n] /\ h[n] \in Nat
    BY <1>2, <1>7, <1>9
  <2> QED
    BY <1>7, <2>3, <2>4, <2>5
<1>10. \A n \in Nat : n \in Good
  <2> HIDE DEF Good
  <2> QED
    BY <1>8, <1>9, Induction
<1>11. f[Len(s) + Len(t)] = g[Len(s)] + h[Len(t)]
  BY <1>2, <1>10
<1> QED
  BY <1>1, <1>3, <1>4, <1>5, <1>11 DEF v

LEMMA ReverseIs ==
    ASSUME NEW S, NEW s \in Seq(S)
    PROVE  /\ Reverse(s) \in Seq(S) /\ Len(Reverse(s)) = Len(s)
           /\ \A i \in 1..Len(s) : Reverse(s)[i] = s[(Len(s) - i) + 1]
           /\ ToSet(Reverse(s)) = ToSet(s)
<1>1. Len(s) \in Nat /\ \A i \in 1..Len(s) : (Len(s) - i) + 1 \in 1..Len(s)
  OBVIOUS
<1>2. Reverse(s) \in [1..Len(s) -> S]
  BY <1>1 DEF Reverse
<1>3. Reverse(s) \in Seq(S) /\ Len(Reverse(s)) = Len(s) /\ DOMAIN Reverse(s) = 1..Len(s)
  BY <1>1, <1>2
<1>4. \A i \in 1..Len(s) : Reverse(s)[i] = s[(Len(s) - i) + 1]
  BY DEF Reverse
<1>5. ASSUME NEW i \in 1..Len(s) PROVE s[i] \in ToSet(Reverse(s))
  <2>1. (Len(s) - i) + 1 \in 1..Len(s) /\ (Len(s) - ((Len(s) - i) + 1)) + 1 = i
    BY <1>1
  <2>2. Reverse(s)[(Len(s) - i) + 1] = s[i]
    BY <1>4, <2>1
  <2> QED
    BY <1>3, <2>1, <2>2 DEF ToSet
<1>6. ToSet(Reverse(s)) = ToSet(s)
  <2>1. DOMAIN s = 1..Len(s)
    OBVIOUS
  <2>2. ToSet(s) \subseteq ToSet(Reverse(s))
    BY <1>5, <2>1 DEF ToSet
  <2>3. ASSUME NEW i \in 1..Len(s) PROVE Reverse(s)[i] \in ToSet(s)
    BY <1>1, <1>4, <2>1 DEF ToSet
  <2>4. ToSet(Reverse(s)) \subseteq ToSet(s)
    <3>1. ASSUME NEW x \in ToSet(Reverse(s)) PROVE x \in ToSet(s)
      <4>1. PICK i \in DOMAIN Reverse(s) : x = Reverse(s)[i]
        BY DEF ToSet
      <4> QED
        BY <1>3, <2>3, <4>1
    <3> QED
      BY <3>1
  <2> QED
    BY <2>2, <2>4
<1> QED
  BY <1>3, <1>4, <1>6

\* The order of the widgets is of no matter to what they take up together.
LEMMA TotalOfReverse ==
    ASSUME NEW ws, NEW s \in Seq(Widget), Measured(ws, s)
    PROVE  Total(ws, Reverse(s)) = Total(ws, s)
<1> DEFINE v == Reverse(s)
<1>1. Len(v) = Len(s) /\ \A i \in 1..Len(s) : v[i] = s[(Len(s) - i) + 1]
  BY ReverseIs
<1> HIDE DEF v
<1>2. Len(s) \in Nat /\ Len(v) \in Nat
  BY <1>1
<1>3. PICK f : AddsUp(ws, s, f) /\ Total(ws, s) = f[Len(s)]
  BY <1>2, TotalAddsUp
<1>4. PICK g : AddsUp(ws, v, g) /\ Total(ws, v) = g[Len(v)]
  BY <1>2, TotalAddsUp
<1>5. \A i \in 0..Len(s) : f[i] \in Nat
  BY <1>2, <1>3, SumsAreNumbers
<1> DEFINE Good == {n \in Nat : n <= Len(s) => g[n] = f[Len(s)] - f[Len(s) - n]}
<1>6. 0 \in Good
  BY <1>2, <1>4, <1>5 DEF AddsUp
<1>7. ASSUME NEW n \in Nat, n \in Good PROVE n + 1 \in Good
  <2> SUFFICES ASSUME n + 1 <= Len(s) PROVE g[n + 1] = f[Len(s)] - f[Len(s) - (n + 1)]
    OBVIOUS
  <2>1. /\ n + 1 \in 1..Len(v) /\ n + 1 \in 1..Len(s) /\ (n + 1) - 1 = n
        /\ Len(s) - n \in 1..Len(s) /\ (Len(s) - n) - 1 = Len(s) - (n + 1)
        /\ (Len(s) - (n + 1)) + 1 = Len(s) - n /\ Len(s) - (n + 1) \in 0..Len(s)
        /\ Len(s) - n \in 0..Len(s) /\ Len(s) \in 0..Len(s)
    BY <1>1, <1>2
  <2>2. g[n + 1] = g[n] + Height(ws[s[Len(s) - n]])
    BY <1>1, <1>4, <2>1 DEF AddsUp
  <2>3. f[Len(s) - n] = f[Len(s) - (n + 1)] + Height(ws[s[Len(s) - n]])
    BY <1>3, <2>1 DEF AddsUp
  <2>4. Height(ws[s[Len(s) - n]]) \in Nat
    BY <2>1 DEF Measured
  <2>5. g[n] = f[Len(s)] - f[Len(s) - n]
    BY <1>2, <1>7
  <2>6. f[Len(s)] \in Nat /\ f[Len(s) - n] \in Nat /\ f[Len(s) - (n + 1)] \in Nat
    BY <1>5, <2>1
  <2> QED
    BY <2>2, <2>3, <2>4, <2>5, <2>6
<1>8. \A n \in Nat : n \in Good
  <2> HIDE DEF Good
  <2> QED
    BY <1>6, <1>7, Induction
<1>9. g[Len(s)] = f[Len(s)] - f[Len(s) - Len(s)]
  BY <1>2, <1>8
<1>10. f[Len(s) - Len(s)] = 0 /\ f[Len(s)] \in Nat
  BY <1>2, <1>3, <1>5 DEF AddsUp
<1> QED
  BY <1>1, <1>3, <1>4, <1>9, <1>10 DEF v

-----------------------------------------------------------------------------
(* Texts, their lines and heights.                                         *)

\* What the function of Lines has read when it has come to the unit at i.
Tokens(s, f, i) == IF i = 0 THEN [done |-> <<>>, line |-> <<>>] ELSE NextUnit(f[i - 1], s[i])

LEMMA TokensExist ==
    ASSUME NEW s
    PROVE  \A n \in Nat : \E f : f = [i \in 0..n |-> Tokens(s, f, i)]
<1> DEFINE Good == {n \in Nat : \E f : f = [i \in 0..n |-> Tokens(s, f, i)]}
<1>1. 0 \in Good
  <2> DEFINE f == [i \in 0..0 |-> [done |-> <<>>, line |-> <<>>]]
  <2>1. f = [i \in 0..0 |-> Tokens(s, f, i)]
    BY DEF Tokens
  <2> QED
    BY <2>1
<1>2. ASSUME NEW n \in Nat, n \in Good PROVE n + 1 \in Good
  <2>1. PICK f : f = [i \in 0..n |-> Tokens(s, f, i)]
    BY <1>2
  <2> DEFINE g == [i \in 0..n + 1 |-> IF i = n + 1 THEN NextUnit(f[n], s[n + 1]) ELSE f[i]]
  <2>2. ASSUME NEW i \in 0..n + 1 PROVE g[i] = Tokens(s, g, i)
    <3>1. CASE i = n + 1
      <4>1. g[i] = NextUnit(f[n], s[n + 1]) /\ g[n] = f[n] /\ i # 0 /\ i - 1 = n
        BY <3>1
      <4> HIDE DEF g
      <4> QED
        BY <3>1, <4>1 DEF Tokens
    <3>2. CASE i = 0
      <4>1. g[i] = f[0] /\ f[0] = [done |-> <<>>, line |-> <<>>]
        BY <2>1, <3>2 DEF Tokens
      <4> HIDE DEF g
      <4> QED
        BY <3>2, <4>1 DEF Tokens
    <3>3. CASE i # 0 /\ i # n + 1
      <4>1. i \in 0..n /\ i - 1 \in 0..n /\ i - 1 # n + 1 /\ i - 1 \in 0..n + 1
        BY <3>3
      <4>2. g[i] = f[i] /\ g[i - 1] = f[i - 1]
        BY <3>3, <4>1
      <4>3. f[i] = NextUnit(f[i - 1], s[i])
        BY <2>1, <3>3, <4>1 DEF Tokens
      <4> HIDE DEF g
      <4> QED
        BY <3>3, <4>2, <4>3 DEF Tokens
    <3> QED
      BY <3>1, <3>2, <3>3
  <2>3. g = [i \in 0..n + 1 |-> Tokens(s, g, i)]
    <3>1. g = [i \in 0..n + 1 |-> g[i]]
      OBVIOUS
    <3> HIDE DEF g
    <3> QED
      BY <2>2, <3>1
  <2> HIDE DEF g
  <2> QED
    BY <2>3
<1> HIDE DEF Good
<1>3. \A n \in Nat : n \in Good
  BY <1>1, <1>2, Induction
<1> QED
  BY <1>3 DEF Good

\* The units a text is shown with.
Shows == Unit \cup {Newline}

Tokenized == [done : Seq(Seq(Shows)), line : Seq(Shows)]

LEMMA TokensAreRead ==
    ASSUME NEW tokens \in Tokenized, NEW unit \in Shows
    PROVE  EndLine(tokens) \in Tokenized /\ NextUnit(tokens, unit) \in Tokenized
<1>1. tokens.done \in Seq(Seq(Shows)) /\ tokens.line \in Seq(Shows)
  BY DEF Tokenized
<1>2. Append(tokens.done, tokens.line) \in Seq(Seq(Shows)) /\ Append(tokens.line, unit) \in Seq(Shows)
  BY <1>1
<1>3. <<>> \in Seq(Shows)
  OBVIOUS
<1>4. EndLine(tokens) \in Tokenized
  BY <1>1, <1>2, <1>3 DEF EndLine, Tokenized
<1>5. [tokens EXCEPT !.line = Append(@, unit)] \in Tokenized
  BY <1>1, <1>2 DEF Tokenized
<1> QED
  BY <1>4, <1>5 DEF NextUnit

\* A label has a number of lines.
LEMMA LinesAreCounted ==
    ASSUME NEW s \in Seq(Shows)
    PROVE  Lines(s) \in Seq(Seq(Shows)) /\ LineCount(s) \in Nat
<1> DEFINE f == CHOOSE g : g = [i \in 0..Len(s) |-> Tokens(s, g, i)]
<1>1. Len(s) \in Nat
  OBVIOUS
<1>2. f = [i \in 0..Len(s) |-> Tokens(s, f, i)]
  BY <1>1, TokensExist
<1>3. Lines(s) = EndLine(f[Len(s)]).done
  BY DEF Lines, Tokens
<1> HIDE DEF f
<1> DEFINE Good == {n \in Nat : n <= Len(s) => f[n] \in Tokenized}
<1>4. 0 \in Good
  <2>1. f[0] = [done |-> <<>>, line |-> <<>>]
    BY <1>1, <1>2 DEF Tokens
  <2>2. <<>> \in Seq(Seq(Shows)) /\ <<>> \in Seq(Shows)
    OBVIOUS
  <2>3. f[0] \in Tokenized
    BY <2>1, <2>2 DEF Tokenized
  <2> QED
    BY <2>3
<1>5. ASSUME NEW n \in Nat, n \in Good PROVE n + 1 \in Good
  <2> SUFFICES ASSUME n + 1 <= Len(s) PROVE f[n + 1] \in Tokenized
    OBVIOUS
  <2>1. n + 1 \in 0..Len(s) /\ n + 1 # 0 /\ (n + 1) - 1 = n /\ n + 1 \in 1..Len(s)
    BY <1>1
  <2>2. f[n] \in Tokenized /\ s[n + 1] \in Shows
    BY <1>1, <1>5, <2>1
  <2>3. f[n + 1] = NextUnit(f[n], s[n + 1])
    BY <1>2, <2>1 DEF Tokens
  <2> QED
    BY <2>2, <2>3, TokensAreRead
<1>6. \A n \in Nat : n \in Good
  <2> HIDE DEF Good
  <2> QED
    BY <1>4, <1>5, Induction
<1>7. f[Len(s)] \in Tokenized
  BY <1>1, <1>6
<1>8. EndLine(f[Len(s)]) \in Tokenized
  BY <1>7, TokensAreRead DEF Shows
<1>9. Lines(s) \in Seq(Seq(Shows))
  BY <1>3, <1>8 DEF Tokenized
<1>10. Len(Lines(s)) \in Nat
  BY <1>9
<1> QED
  BY <1>9, <1>10 DEF LineCount

\* The characters of s from the unit at i on, as the function of Characters has them.
From(s, f, i) ==
    IF i > Len(s) THEN <<>>
    ELSE IF IsPair(s, i) THEN <<SubSeq(s, i, i + 1)>> \o f[i + 2]
    ELSE <<SubSeq(s, i, i)>> \o f[i + 1]

LEMMA FromLooksAhead ==
    ASSUME NEW s, Len(s) \in Nat, NEW f, NEW g, NEW i \in 1..Len(s) + 1,
           \A j \in i + 1..Len(s) + 1 : f[j] = g[j]
    PROVE  From(s, f, i) = From(s, g, i)
<1>1. CASE i > Len(s)
  BY <1>1 DEF From
<1>2. CASE i <= Len(s)
  <2>1. f[i + 1] = g[i + 1]
    BY <1>2
  <2>2. IsPair(s, i) => f[i + 2] = g[i + 2]
    BY <1>2 DEF IsPair
  <2> QED
    BY <1>2, <2>1, <2>2 DEF From
<1> QED
  BY <1>1, <1>2

LEMMA FromExists ==
    ASSUME NEW s, Len(s) \in Nat
    PROVE  \E f : f = [i \in 1..Len(s) + 1 |-> From(s, f, i)]
<1> DEFINE last == Len(s) + 1
           Good == {n \in Nat : n < last => \E f : f = [i \in last - n..last |-> From(s, f, i)]}
<1>1. 0 \in Good
  <2> DEFINE f == [i \in last - 0..last |-> <<>>]
  <2>1. \A i \in last - 0..last : i > Len(s)
    OBVIOUS
  <2>2. f = [i \in last - 0..last |-> From(s, f, i)]
    BY <2>1 DEF From
  <2> HIDE DEF f
  <2> QED
    BY <2>2
<1>2. ASSUME NEW n \in Nat, n \in Good PROVE n + 1 \in Good
  <2> SUFFICES ASSUME n + 1 < last
               PROVE  \E f : f = [i \in last - (n + 1)..last |-> From(s, f, i)]
    OBVIOUS
  <2>1. PICK f : f = [i \in last - n..last |-> From(s, f, i)]
    BY <1>2
  <2> DEFINE k == last - (n + 1)
             g == [i \in k..last |-> IF i = k THEN From(s, f, k) ELSE f[i]]
  <2>2. k \in 1..last /\ last - n = k + 1 /\ last \in Nat
    OBVIOUS
  <2> HIDE DEF k, last
  <2>3. \A j \in k + 1..last : f[j] = g[j]
    BY <2>2
  <2>4. g = [i \in k..last |-> g[i]]
    OBVIOUS
  <2>5. g[k] = From(s, f, k)
    BY <2>2
  <2> HIDE DEF g
  <2>6. ASSUME NEW i \in k..last PROVE g[i] = From(s, g, i)
    <3>1. i \in 1..Len(s) + 1 /\ \A j \in i + 1..Len(s) + 1 : f[j] = g[j]
      BY <2>2, <2>3 DEF last
    <3>2. From(s, f, i) = From(s, g, i)
      BY <3>1, FromLooksAhead
    <3>3. CASE i = k
      BY <2>5, <3>2, <3>3
    <3>4. CASE i # k
      <4>1. i \in k + 1..last
        BY <2>2, <3>4
      <4>2. f[i] = From(s, f, i) /\ f[i] = g[i]
        BY <2>1, <2>2, <2>3, <4>1
      <4> QED
        BY <3>2, <4>2
    <3> QED
      BY <3>3, <3>4
  <2>7. g = [i \in k..last |-> From(s, g, i)]
    BY <2>4, <2>6
  <2> QED
    BY <2>7 DEF k
<1>3. \A n \in Nat : n \in Good
  <2> HIDE DEF Good
  <2> QED
    BY <1>1, <1>2, Induction
<1>4. Len(s) \in Nat /\ Len(s) < last /\ last - Len(s) = 1
  OBVIOUS
<1>5. \E f : f = [i \in last - Len(s)..last |-> From(s, f, i)]
  BY <1>3, <1>4
<1> QED
  BY <1>4, <1>5

\* The characters of a text are sequences of units.
LEMMA CharactersAreOfUnits ==
    ASSUME NEW s \in Seq(Shows)
    PROVE  Characters(s) \in Seq(Seq(Shows))
<1> DEFINE f == CHOOSE g : g = [i \in 1..Len(s) + 1 |-> From(s, g, i)]
           last == Len(s) + 1
<1>1. Len(s) \in Nat
  OBVIOUS
<1>2. f = [i \in 1..Len(s) + 1 |-> From(s, f, i)]
  BY <1>1, FromExists
<1>3. Characters(s) = f[1]
  BY DEF Characters, From
<1> HIDE DEF f
<1> DEFINE Good == {n \in Nat : n < last => \A i \in last - n..last : f[i] \in Seq(Seq(Shows))}
<1>4. 0 \in Good
  <2>1. f[last] = <<>>
    BY <1>1, <1>2 DEF From
  <2>2. <<>> \in Seq(Seq(Shows)) /\ \A i \in last - 0..last : i = last
    BY <1>1
  <2> QED
    BY <2>1, <2>2
<1>5. ASSUME NEW n \in Nat, n \in Good PROVE n + 1 \in Good
  <2> SUFFICES ASSUME n + 1 < last, NEW i \in last - (n + 1)..last
               PROVE  f[i] \in Seq(Seq(Shows))
    OBVIOUS
  <2>1. \A j \in last - n..last : f[j] \in Seq(Seq(Shows))
    BY <1>1, <1>5
  <2>2. CASE i # last - (n + 1)
    <3>1. i \in last - n..last
      BY <1>1, <2>2
    <3> QED
      BY <2>1, <3>1
  <2>3. CASE i = last - (n + 1)
    <3>1. i \in 1..Len(s) /\ i + 1 \in last - n..last /\ i \in 1..Len(s) + 1
      BY <1>1, <2>3
    <3>2. f[i] = From(s, f, i)
      BY <1>2, <3>1
    <3>3. f[i + 1] \in Seq(Seq(Shows))
      BY <2>1, <3>1
    <3>4. CASE IsPair(s, i)
      <4>1. i + 1 <= Len(s) /\ i + 2 \in last - n..last
        BY <1>1, <3>1, <3>4, <2>3 DEF IsPair
      <4>2. \A j \in i..i + 1 : s[j] \in Shows
        BY <3>1, <4>1
      <4>3. SubSeq(s, i, i + 1) \in Seq(Shows)
        BY <3>1, <4>2, SubSeqProperties
      <4>4. f[i + 2] \in Seq(Seq(Shows))
        BY <2>1, <4>1
      <4>5. f[i] = <<SubSeq(s, i, i + 1)>> \o f[i + 2]
        BY <3>1, <3>2, <3>4 DEF From
      <4> QED
        BY <4>3, <4>4, <4>5
    <3>5. CASE ~IsPair(s, i)
      <4>1. \A j \in i..i : s[j] \in Shows
        BY <3>1
      <4>2. SubSeq(s, i, i) \in Seq(Shows)
        BY <3>1, <4>1, SubSeqProperties
      <4>3. f[i] = <<SubSeq(s, i, i)>> \o f[i + 1]
        <5>1. ~(i > Len(s))
          BY <1>1, <3>1
        <5> QED
          BY <3>2, <3>5, <5>1 DEF From
      <4> QED
        BY <3>3, <4>2, <4>3
    <3> QED
      BY <3>4, <3>5
  <2> QED
    BY <2>2, <2>3
<1>6. \A n \in Nat : n \in Good
  <2> HIDE DEF Good
  <2> QED
    BY <1>4, <1>5, Induction
<1>7. Len(s) < last /\ 1 \in last - Len(s)..last
  BY <1>1
<1>8. f[1] \in Seq(Seq(Shows))
  BY <1>1, <1>6, <1>7
<1> QED
  BY <1>3, <1>8

\* What is trimmed is the beginning of what there was.
LEMMA TrimmedIsOfUnits ==
    ASSUME NEW s \in Seq(Shows)
    PROVE  TrimRight(s) \in Seq(Shows)
<1> DEFINE kept == {0} \cup {i \in 1..Len(s) : s[i] \notin {Blank, Newline}}
           rest == {Len(s) - i : i \in kept}
<1>1. Len(s) \in Nat /\ kept \subseteq 0..Len(s) /\ rest \in SUBSET Nat /\ rest # {}
  OBVIOUS
<1> HIDE DEF kept
<1>2. PICK x \in rest : \A y \in rest : x <= y
  BY <1>1, LeastNumber
<1>3. PICK m \in kept : x = Len(s) - m
  BY <1>2
<1>4. ASSUME NEW i \in kept PROVE m >= i
  <2>1. Len(s) - i \in rest /\ i \in 0..Len(s) /\ m \in 0..Len(s)
    BY <1>1, <1>3
  <2>2. Len(s) - m <= Len(s) - i
    BY <1>2, <1>3, <2>1
  <2> QED
    BY <1>1, <2>1, <2>2
<1>5. Max(kept) \in kept
  BY <1>3, <1>4 DEF Max
<1>6. Max(kept) \in Int /\ \A i \in 1..Max(kept) : s[i] \in Shows
  <2>1. Max(kept) \in 0..Len(s)
    BY <1>1, <1>5
  <2>2. \A i \in 1..Len(s) : s[i] \in Shows
    OBVIOUS
  <2> QED
    BY <1>1, <2>1, <2>2
<1>7. SubSeq(s, 1, Max(kept)) \in Seq(Shows)
  BY <1>6, SubSeqProperties
<1> QED
  BY <1>7 DEF TrimRight, kept

\* How far the function of Wrap is when it has put the character at i.
Wrapped(characters, width, f, i) ==
    IF i = 0 THEN [done |-> <<>>, line |-> <<>>, width |-> 0]
    ELSE Put(f[i - 1], characters[i], width)

LEMMA WrappedExists ==
    ASSUME NEW cs, NEW width
    PROVE  \A n \in Nat : \E f : f = [i \in 0..n |-> Wrapped(cs, width, f, i)]
<1> DEFINE Good == {n \in Nat : \E f : f = [i \in 0..n |-> Wrapped(cs, width, f, i)]}
<1>1. 0 \in Good
  <2> DEFINE f == [i \in 0..0 |-> [done |-> <<>>, line |-> <<>>, width |-> 0]]
  <2>1. f = [i \in 0..0 |-> Wrapped(cs, width, f, i)]
    BY DEF Wrapped
  <2> QED
    BY <2>1
<1>2. ASSUME NEW n \in Nat, n \in Good PROVE n + 1 \in Good
  <2>1. PICK f : f = [i \in 0..n |-> Wrapped(cs, width, f, i)]
    BY <1>2
  <2> DEFINE g == [i \in 0..n + 1 |-> IF i = n + 1 THEN Put(f[n], cs[n + 1], width) ELSE f[i]]
  <2>2. ASSUME NEW i \in 0..n + 1 PROVE g[i] = Wrapped(cs, width, g, i)
    <3>1. CASE i = n + 1
      <4>1. g[i] = Put(f[n], cs[n + 1], width) /\ g[n] = f[n] /\ i # 0 /\ i - 1 = n
        BY <3>1
      <4> HIDE DEF g
      <4> QED
        BY <3>1, <4>1 DEF Wrapped
    <3>2. CASE i = 0
      <4>1. g[i] = f[0] /\ f[0] = [done |-> <<>>, line |-> <<>>, width |-> 0]
        BY <2>1, <3>2 DEF Wrapped
      <4> HIDE DEF g
      <4> QED
        BY <3>2, <4>1 DEF Wrapped
    <3>3. CASE i # 0 /\ i # n + 1
      <4>1. i \in 0..n /\ i - 1 \in 0..n /\ i - 1 # n + 1 /\ i - 1 \in 0..n + 1
        BY <3>3
      <4>2. g[i] = f[i] /\ g[i - 1] = f[i - 1]
        BY <3>3, <4>1
      <4>3. f[i] = Put(f[i - 1], cs[i], width)
        BY <2>1, <3>3, <4>1 DEF Wrapped
      <4> HIDE DEF g
      <4> QED
        BY <3>3, <4>2, <4>3 DEF Wrapped
    <3> QED
      BY <3>1, <3>2, <3>3
  <2>3. g = [i \in 0..n + 1 |-> Wrapped(cs, width, g, i)]
    <3>1. g = [i \in 0..n + 1 |-> g[i]]
      OBVIOUS
    <3> HIDE DEF g
    <3> QED
      BY <2>2, <3>1
  <2> HIDE DEF g
  <2> QED
    BY <2>3
<1> HIDE DEF Good
<1>3. \A n \in Nat : n \in Good
  BY <1>1, <1>2, Induction
<1> QED
  BY <1>3 DEF Good

IsWrapping(x) == \E W : x \in [done : Seq(Shows), line : Seq(Shows), width : W]

LEMMA BreakWraps ==
    ASSUME NEW x, IsWrapping(x)
    PROVE  IsWrapping(Break(x)) /\ x.line \in Seq(Shows) /\ x.done \in Seq(Shows)
<1>1. x.line \in Seq(Shows) /\ x.done \in Seq(Shows)
  BY DEF IsWrapping
<1>2. TrimRight(x.line) \in Seq(Shows)
  BY <1>1, TrimmedIsOfUnits
<1>3. <<Newline>> \in Seq(Shows) /\ <<>> \in Seq(Shows)
  BY DEF Shows
<1>4. x.done \o TrimRight(x.line) \o <<Newline>> \in Seq(Shows)
  BY <1>1, <1>2, <1>3
<1>5. Break(x) \in [done : Seq(Shows), line : Seq(Shows), width : {0}]
  BY <1>3, <1>4 DEF Break
<1> QED
  BY <1>1, <1>5 DEF IsWrapping

LEMMA PutWraps ==
    ASSUME NEW x, IsWrapping(x), NEW character \in Seq(Shows), NEW width
    PROVE  IsWrapping(Put(x, character, width))
<1>1. IsWrapping(Break(x))
  BY BreakWraps
<1>2. ASSUME NEW y, IsWrapping(y)
      PROVE  IsWrapping([y EXCEPT !.line = @ \o character, !.width = @ + WidthOf(character)])
  <2>1. PICK W : y \in [done : Seq(Shows), line : Seq(Shows), width : W]
    BY <1>2 DEF IsWrapping
  <2>2. y.line \o character \in Seq(Shows)
    BY <2>1
  <2>3. ASSUME NEW l \in Seq(Shows), NEW w
        PROVE  [y EXCEPT !.line = l, !.width = w]
                  \in [done : Seq(Shows), line : Seq(Shows), width : {w}]
    BY <2>1
  <2>4. [y EXCEPT !.line = @ \o character, !.width = @ + WidthOf(character)]
            \in [done : Seq(Shows), line : Seq(Shows), width : {y.width + WidthOf(character)}]
    BY <2>2, <2>3
  <2> QED
    BY <2>4 DEF IsWrapping
<1> QED
  BY <1>1, <1>2 DEF Put

LEMMA WrapIsOfUnits ==
    ASSUME NEW cs \in Seq(Seq(Shows)), NEW width
    PROVE  Wrap(cs, width) \in Seq(Shows)
<1> DEFINE f == CHOOSE g : g = [i \in 0..Len(cs) |-> Wrapped(cs, width, g, i)]
<1>1. Len(cs) \in Nat
  OBVIOUS
<1>2. f = [i \in 0..Len(cs) |-> Wrapped(cs, width, f, i)]
  BY <1>1, WrappedExists
<1>3. Wrap(cs, width) = f[Len(cs)].done \o TrimRight(f[Len(cs)].line)
  BY DEF Wrap, Wrapped
<1> HIDE DEF f
<1> DEFINE Good == {n \in Nat : n <= Len(cs) => IsWrapping(f[n])}
<1>4. 0 \in Good
  <2>1. f[0] = [done |-> <<>>, line |-> <<>>, width |-> 0]
    BY <1>1, <1>2 DEF Wrapped
  <2>2. <<>> \in Seq(Shows)
    OBVIOUS
  <2>3. f[0] \in [done : Seq(Shows), line : Seq(Shows), width : {0}]
    BY <2>1, <2>2
  <2>4. IsWrapping(f[0])
    BY <2>3 DEF IsWrapping
  <2> QED
    BY <2>4
<1>5. ASSUME NEW n \in Nat, n \in Good PROVE n + 1 \in Good
  <2> SUFFICES ASSUME n + 1 <= Len(cs) PROVE IsWrapping(f[n + 1])
    OBVIOUS
  <2>1. n + 1 \in 0..Len(cs) /\ n + 1 # 0 /\ (n + 1) - 1 = n /\ n + 1 \in 1..Len(cs)
    BY <1>1
  <2>2. IsWrapping(f[n]) /\ cs[n + 1] \in Seq(Shows)
    BY <1>1, <1>5, <2>1
  <2>3. f[n + 1] = Put(f[n], cs[n + 1], width)
    BY <1>2, <2>1 DEF Wrapped
  <2> QED
    BY <2>2, <2>3, PutWraps
<1>6. \A n \in Nat : n \in Good
  <2> HIDE DEF Good
  <2> QED
    BY <1>4, <1>5, Induction
<1>7. IsWrapping(f[Len(cs)])
  BY <1>1, <1>6
<1>8. f[Len(cs)].done \in Seq(Shows) /\ f[Len(cs)].line \in Seq(Shows)
  BY <1>7, BreakWraps
<1>9. TrimRight(f[Len(cs)].line) \in Seq(Shows)
  BY <1>8, TrimmedIsOfUnits
<1> QED
  BY <1>3, <1>8, <1>9

\* A wrapped text is of the units of the text, and line breaks.
LEMMA WrapTextIsOfUnits ==
    ASSUME NEW text \in Text, NEW width
    PROVE  WrapText(text, width) \in Seq(Shows)
<1>1. text \in Seq(Unit) /\ Unit \subseteq Shows
  BY TextsAssumption DEF Shows
<1>2. text \in Seq(Shows)
  BY <1>1, SeqMonotonic
<1>3. Wrap(Characters(text), width) \in Seq(Shows)
  BY <1>2, CharactersAreOfUnits, WrapIsOfUnits
<1> QED
  BY <1>2, <1>3 DEF WrapText

\* What the function of EscapeMnemonics has escaped when it has come to the unit at i.
EscapedTo(s, f, i) == IF i = 0 THEN <<>> ELSE f[i - 1] \o Escaped(s[i])

LEMMA EscapedExists ==
    ASSUME NEW s
    PROVE  \A n \in Nat : \E f : f = [i \in 0..n |-> EscapedTo(s, f, i)]
<1> DEFINE Good == {n \in Nat : \E f : f = [i \in 0..n |-> EscapedTo(s, f, i)]}
<1>1. 0 \in Good
  <2> DEFINE f == [i \in 0..0 |-> <<>>]
  <2>1. f = [i \in 0..0 |-> EscapedTo(s, f, i)]
    BY DEF EscapedTo
  <2> QED
    BY <2>1
<1>2. ASSUME NEW n \in Nat, n \in Good PROVE n + 1 \in Good
  <2>1. PICK f : f = [i \in 0..n |-> EscapedTo(s, f, i)]
    BY <1>2
  <2> DEFINE g == [i \in 0..n + 1 |-> IF i = n + 1 THEN f[n] \o Escaped(s[n + 1]) ELSE f[i]]
  <2>2. ASSUME NEW i \in 0..n + 1 PROVE g[i] = EscapedTo(s, g, i)
    <3>1. CASE i = n + 1
      <4>1. g[i] = f[n] \o Escaped(s[n + 1]) /\ g[n] = f[n] /\ i # 0 /\ i - 1 = n
        BY <3>1
      <4> HIDE DEF g
      <4> QED
        BY <3>1, <4>1 DEF EscapedTo
    <3>2. CASE i = 0
      <4>1. g[i] = f[0] /\ f[0] = <<>>
        BY <2>1, <3>2 DEF EscapedTo
      <4> HIDE DEF g
      <4> QED
        BY <3>2, <4>1 DEF EscapedTo
    <3>3. CASE i # 0 /\ i # n + 1
      <4>1. i \in 0..n /\ i - 1 \in 0..n /\ i - 1 # n + 1 /\ i - 1 \in 0..n + 1
        BY <3>3
      <4>2. g[i] = f[i] /\ g[i - 1] = f[i - 1]
        BY <3>3, <4>1
      <4>3. f[i] = f[i - 1] \o Escaped(s[i])
        BY <2>1, <3>3, <4>1 DEF EscapedTo
      <4> HIDE DEF g
      <4> QED
        BY <3>3, <4>2, <4>3 DEF EscapedTo
    <3> QED
      BY <3>1, <3>2, <3>3
  <2>3. g = [i \in 0..n + 1 |-> EscapedTo(s, g, i)]
    <3>1. g = [i \in 0..n + 1 |-> g[i]]
      OBVIOUS
    <3> HIDE DEF g
    <3> QED
      BY <2>2, <3>1
  <2> HIDE DEF g
  <2> QED
    BY <2>3
<1> HIDE DEF Good
<1>3. \A n \in Nat : n \in Good
  BY <1>1, <1>2, Induction
<1> QED
  BY <1>3 DEF Good

\* A text that is escaped is of its own units.
LEMMA EscapedIsOfUnits ==
    ASSUME NEW s \in Seq(Shows)
    PROVE  EscapeMnemonics(s) \in Seq(Shows)
<1> DEFINE f == CHOOSE g : g = [i \in 0..Len(s) |-> EscapedTo(s, g, i)]
<1>1. Len(s) \in Nat
  OBVIOUS
<1>2. f = [i \in 0..Len(s) |-> EscapedTo(s, f, i)]
  BY <1>1, EscapedExists
<1>3. EscapeMnemonics(s) = f[Len(s)]
  BY DEF EscapeMnemonics, EscapedTo
<1> HIDE DEF f
<1> DEFINE Good == {n \in Nat : n <= Len(s) => f[n] \in Seq(Shows)}
<1>4. 0 \in Good
  <2>1. f[0] = <<>>
    BY <1>1, <1>2 DEF EscapedTo
  <2>2. <<>> \in Seq(Shows)
    OBVIOUS
  <2>3. f[0] \in Seq(Shows)
    BY <2>1, <2>2
  <2> QED
    BY <2>3
<1>5. ASSUME NEW n \in Nat, n \in Good PROVE n + 1 \in Good
  <2> SUFFICES ASSUME n + 1 <= Len(s) PROVE f[n + 1] \in Seq(Shows)
    OBVIOUS
  <2>1. n + 1 \in 0..Len(s) /\ n + 1 # 0 /\ (n + 1) - 1 = n /\ n + 1 \in 1..Len(s)
    BY <1>1
  <2>2. f[n] \in Seq(Shows) /\ s[n + 1] \in Shows
    BY <1>1, <1>5, <2>1
  <2>3. f[n + 1] = f[n] \o Escaped(s[n + 1])
    BY <1>2, <2>1 DEF EscapedTo
  <2>4. Escaped(s[n + 1]) \in Seq(Shows)
    BY <2>2 DEF Escaped
  <2> QED
    BY <2>2, <2>3, <2>4
<1>6. \A n \in Nat : n \in Good
  <2> HIDE DEF Good
  <2> QED
    BY <1>4, <1>5, Induction
<1> QED
  BY <1>1, <1>3, <1>6

\* However a text is wrapped, its lines are counted.
LEMMA TextsHaveHeights ==
    ASSUME NEW text \in Text, NEW width
    PROVE  LineCount(WrapText(text, width)) \in Nat
BY WrapTextIsOfUnits, LinesAreCounted

-----------------------------------------------------------------------------
(* What the operations on a widget leave of its caches.                    *)

Drawing(w) == [lines |-> Lines(w.label), lit |-> w.lit, size |-> w.size]

Drawings == [lines : Seq(Seq(Shows)), lit : BOOLEAN, size : Nat \X Nat]

WidgetState ==
    [text : Text \cup {<<>>}, label : Seq(Shows), lines : Nat \cup {Nothing},
     bitmap : Drawings \cup {Nothing}, lit : BOOLEAN, shown : BOOLEAN, y : Int, size : Nat \X Nat]

\* A cache is empty, or holds what would be computed anew.
CachesAreTrue(w) ==
    /\ w.lines \in {Nothing, LineCount(w.label)}
    /\ w.bitmap \in {Nothing, Drawing(w)}

Sound(w) == w \in WidgetState /\ CachesAreTrue(w)

\* w became u, which shows the same text.
SameText(w, u) == u.text = w.text /\ u.label = w.label

LEMMA DrawingIsOne ==
    ASSUME NEW w \in WidgetState
    PROVE  Drawing(w) \in Drawings
<1>1. w.label \in Seq(Shows) /\ w.lit \in BOOLEAN /\ w.size \in Nat \X Nat
  BY DEF WidgetState
<1>2. Lines(w.label) \in Seq(Seq(Shows))
  BY <1>1, LinesAreCounted
<1> QED
  BY <1>1, <1>2 DEF Drawing, Drawings

LEMMA HeightIs ==
    ASSUME NEW w, Sound(w)
    PROVE  /\ Height(w) = HeaderHeight + LineCount(w.label)
           /\ LineCount(w.label) \in Nat
           /\ Height(w) \in Nat \ {0}
           /\ Len(Lines(w.label)) + HeaderHeight <= Height(w)
<1>1. w \in WidgetState /\ w.lines \in {Nothing, LineCount(w.label)} /\ w.label \in Seq(Shows)
  BY DEF Sound, CachesAreTrue, WidgetState
<1>2. LineCount(w.label) \in Nat /\ Lines(w.label) \in Seq(Seq(Shows))
  BY <1>1, LinesAreCounted
<1>3. DoGetBestSize(w).lines = LineCount(w.label)
  <2>1. [w EXCEPT !.lines = LineCount(w.label)].lines = LineCount(w.label)
    BY <1>1 DEF WidgetState
  <2> QED
    BY <1>1, <2>1 DEF DoGetBestSize
<1>4. Height(w) = HeaderHeight + LineCount(w.label)
  BY <1>3 DEF Height
<1>5. Len(Lines(w.label)) \in Nat /\ Len(Lines(w.label)) <= LineCount(w.label)
  <2>1. Len(Lines(w.label)) \in Nat
    BY <1>2
  <2> QED
    BY <2>1 DEF LineCount
<1> QED
  BY <1>2, <1>4, <1>5, PixelsAssumption

LEMMA NewIsSound == Sound(NewWidget) /\ ~NewWidget.shown
<1>1. /\ <<>> \in Seq(Shows) /\ <<0, 0>> \in Nat \X Nat
  OBVIOUS
<1>2. NewWidget \in WidgetState
  BY <1>1 DEF NewWidget, WidgetState
<1> QED
  BY <1>2 DEF NewWidget, Sound, CachesAreTrue

LEMMA InvalidateIsSound ==
    ASSUME NEW w \in WidgetState
    PROVE  /\ InvalidateCache(w) \in WidgetState
           /\ InvalidateCache(w).bitmap = Nothing
           /\ SameText(w, InvalidateCache(w))
           /\ InvalidateCache(w).lines = w.lines /\ InvalidateCache(w).lit = w.lit
           /\ InvalidateCache(w).shown = w.shown /\ InvalidateCache(w).y = w.y
           /\ InvalidateCache(w).size = w.size
BY DEF InvalidateCache, WidgetState, SameText

LEMMA HideIsSound ==
    ASSUME NEW w, Sound(w)
    PROVE  Sound(Hide(w)) /\ SameText(w, Hide(w)) /\ ~Hide(w).shown
<1>1. w \in WidgetState
  BY DEF Sound
<1>2. /\ Hide(w) \in WidgetState /\ SameText(w, Hide(w)) /\ ~Hide(w).shown
      /\ Hide(w).lines = w.lines /\ Hide(w).bitmap = w.bitmap
      /\ Hide(w).lit = w.lit /\ Hide(w).size = w.size
  <2>1. Hide(w) \in WidgetState
    <3>1. PICK b \in BOOLEAN : b = FALSE
      OBVIOUS
    <3>2. PICK n \in Int : n = 0
      OBVIOUS
    <3>3. [w EXCEPT !.shown = b, !.y = n] \in WidgetState
      BY <1>1 DEF WidgetState
    <3>4. Hide(w) = [w EXCEPT !.shown = b, !.y = n]
      BY <3>1, <3>2, Zenon DEF Hide
    <3> QED
      BY <3>3, <3>4
  <2>2. SameText(w, Hide(w)) /\ Hide(w).lines = w.lines /\ Hide(w).bitmap = w.bitmap
    BY <1>1 DEF Hide, WidgetState, SameText
  <2>3. Hide(w).lit = w.lit /\ Hide(w).size = w.size /\ ~Hide(w).shown
    BY <1>1 DEF Hide, WidgetState
  <2> QED
    BY <2>1, <2>2, <2>3
<1>3. Drawing(Hide(w)) = Drawing(w)
  BY <1>2 DEF Drawing, SameText
<1> QED
  BY <1>2, <1>3 DEF Sound, CachesAreTrue, SameText

LEMMA BestSizeIsSound ==
    ASSUME NEW w, Sound(w)
    PROVE  /\ Sound(DoGetBestSize(w)) /\ SameText(w, DoGetBestSize(w))
           /\ DoGetBestSize(w).shown = w.shown /\ DoGetBestSize(w).size = w.size
           /\ DoGetBestSize(w).y = w.y
<1>1. w \in WidgetState /\ LineCount(w.label) \in Nat
  BY HeightIs DEF Sound
<1> DEFINE u == [w EXCEPT !.lines = LineCount(w.label)]
<1>2. /\ u \in WidgetState /\ SameText(w, u) /\ u.lines = LineCount(w.label)
      /\ u.bitmap = w.bitmap /\ u.lit = w.lit /\ u.size = w.size /\ u.shown = w.shown /\ u.y = w.y
  BY <1>1 DEF WidgetState, SameText
<1> HIDE DEF u
<1>3. Drawing(u) = Drawing(w)
  BY <1>2 DEF Drawing, SameText
<1>4. Sound(u)
  BY <1>2, <1>3 DEF Sound, CachesAreTrue, SameText
<1> QED
  BY <1>2, <1>4 DEF DoGetBestSize, u, SameText

\* A widget gets another label: both caches are emptied.
LEMMA SetLabelIsSound ==
    ASSUME NEW w, Sound(w), NEW label \in Seq(Shows)
    PROVE  /\ Sound(SetLabel(w, label)) /\ SetLabel(w, label).label = label
           /\ SetLabel(w, label).text = w.text /\ SetLabel(w, label).shown = w.shown
<1>1. w \in WidgetState
  BY DEF Sound
<1> DEFINE u == InvalidateLayoutCaches(InvalidateCache([w EXCEPT !.label = label]))
<1>2. /\ u \in WidgetState /\ u.label = label /\ u.text = w.text /\ u.shown = w.shown
      /\ u.lines = Nothing /\ u.bitmap = Nothing
  BY <1>1 DEF WidgetState, InvalidateLayoutCaches, InvalidateCache
<1> HIDE DEF u
<1>3. Sound(u)
  BY <1>2 DEF Sound, CachesAreTrue
<1> QED
  BY <1>2, <1>3 DEF SetLabel, u

\* Soundness does not depend on the text itself, which is not drawn.
LEMMA UpdateIsSound ==
    ASSUME NEW w, Sound(w), NEW text \in Text, NEW width
    PROVE  /\ Sound(Update(w, text, width)) /\ Update(w, text, width).text = text
           /\ Update(w, text, width).label \in Labels(text, width)
           /\ Update(w, text, width).shown = w.shown
<1>1. w \in WidgetState
  BY DEF Sound
<1> DEFINE u == [w EXCEPT !.text = text]
<1>2. /\ u \in WidgetState /\ u.label = w.label /\ u.text = text /\ u.shown = w.shown
      /\ u.lines = w.lines /\ u.bitmap = w.bitmap /\ u.lit = w.lit /\ u.size = w.size
  BY <1>1 DEF WidgetState
<1> DEFINE label == EscapeMnemonics(WrapText(text, width))
<1>3. Update(w, text, width) = SetLabel(u, label) /\ label \in Labels(text, width)
  BY DEF Update, SetLabelText, Labels
<1> HIDE DEF u
<1>4. Drawing(u) = Drawing(w)
  BY <1>2 DEF Drawing
<1>5. Sound(u)
  BY <1>2, <1>4 DEF Sound, CachesAreTrue
<1>6. label \in Seq(Shows)
  BY WrapTextIsOfUnits, EscapedIsOfUnits
<1> HIDE DEF label
<1> QED
  BY <1>2, <1>3, <1>5, <1>6, SetLabelIsSound

LEMMA RewrapIsSound ==
    ASSUME NEW w, Sound(w), w.text \in Text, NEW width
    PROVE  /\ Sound(SetWrappedMessage(w, width)) /\ SetWrappedMessage(w, width).text = w.text
           /\ SetWrappedMessage(w, width).label \in Labels(w.text, width)
           /\ SetWrappedMessage(w, width).shown = w.shown
<1>1. WrapText(w.text, width) \in Seq(Shows)
  BY WrapTextIsOfUnits
<1> QED
  BY <1>1, SetLabelIsSound DEF SetWrappedMessage, Labels

\* A widget in sight is shown where it belongs, drawn anew if that changed.
LEMMA PlaceIsSound ==
    ASSUME NEW w, Sound(w), NEW y \in Int, NEW size \in Nat \X Nat
    PROVE  /\ Sound(Place(w, y, size)) /\ SameText(w, Place(w, y, size))
           /\ Place(w, y, size).shown /\ Place(w, y, size).y = y /\ Place(w, y, size).size = size
<1>1. w \in WidgetState
  BY DEF Sound
<1> DEFINE sized == OnSize(w, size)
<1>2. /\ Sound(sized) /\ SameText(w, sized) /\ sized.size = size
  <2>1. CASE size = w.size
    BY <1>1, <2>1 DEF OnSize, SameText
  <2>2. CASE size # w.size
    <3>1. /\ sized \in WidgetState /\ SameText(w, sized) /\ sized.size = size
          /\ sized.lines = Nothing /\ sized.bitmap = Nothing
      BY <1>1, <2>2 DEF OnSize, WidgetState, InvalidateLayoutCaches, InvalidateCache, SameText
    <3> QED
      BY <3>1 DEF Sound, CachesAreTrue
  <2> QED
    BY <2>1, <2>2
<1> HIDE DEF sized
<1> DEFINE placed == [sized EXCEPT !.y = y, !.shown = TRUE]
<1>3. sized \in WidgetState
  BY <1>2 DEF Sound
<1>4. /\ placed \in WidgetState /\ SameText(sized, placed) /\ placed.size = sized.size
      /\ placed.y = y /\ placed.shown /\ placed.lines = sized.lines /\ placed.bitmap = sized.bitmap
      /\ placed.lit = sized.lit
  BY <1>3 DEF WidgetState, SameText
<1> HIDE DEF placed
<1>5. Drawing(placed) = Drawing(sized)
  BY <1>4 DEF Drawing, SameText
<1>6. Sound(placed)
  BY <1>2, <1>4, <1>5 DEF Sound, CachesAreTrue, SameText
<1> DEFINE fresh == InvalidateCache(placed)
<1>7. /\ fresh \in WidgetState /\ SameText(placed, fresh) /\ fresh.bitmap = Nothing
      /\ fresh.lines = placed.lines /\ fresh.shown /\ fresh.y = y /\ fresh.size = placed.size
  BY <1>4, InvalidateIsSound
<1> HIDE DEF fresh
<1>8. Sound(fresh)
  BY <1>6, <1>7 DEF Sound, CachesAreTrue, SameText
<1>9. Place(w, y, size) = IF w.shown THEN placed ELSE fresh
  BY DEF Place, placed, fresh, sized
<1> QED
  BY <1>2, <1>4, <1>6, <1>7, <1>8, <1>9 DEF SameText

\* What happens to a widget in sight changes what is drawn, and nothing else.
LEMMA TouchIsSound ==
    ASSUME NEW w, Sound(w), NEW u \in {OnPaint(w), OnMouseEnter(w), OnMouseLeave(w), InvalidateCache(w)}
    PROVE  /\ Sound(u) /\ SameText(w, u)
           /\ u.shown = w.shown /\ u.y = w.y /\ u.size = w.size
<1>1. w \in WidgetState /\ Drawing(w) \in Drawings
  BY DrawingIsOne DEF Sound
<1>2. CASE u = OnPaint(w)
  <2> DEFINE p == [w EXCEPT !.bitmap = Drawing(w)]
  <2>1. /\ p \in WidgetState /\ SameText(w, p) /\ p.bitmap = Drawing(w) /\ p.lit = w.lit
        /\ p.lines = w.lines /\ p.shown = w.shown /\ p.y = w.y /\ p.size = w.size
    BY <1>1 DEF WidgetState, SameText
  <2>2. u = w \/ u = p
    BY <1>2 DEF OnPaint, RenderToCache, Drawing
  <2> HIDE DEF p
  <2>3. Drawing(p) = Drawing(w)
    BY <2>1 DEF Drawing, SameText
  <2>4. Sound(p)
    BY <2>1, <2>3 DEF Sound, CachesAreTrue, SameText
  <2> QED
    BY <2>1, <2>2, <2>4 DEF SameText
<1>3. ASSUME NEW lit \in BOOLEAN, u = InvalidateCache([w EXCEPT !.lit = lit])
      PROVE  /\ Sound(u) /\ SameText(w, u)
             /\ u.shown = w.shown /\ u.y = w.y /\ u.size = w.size
  <2>1. /\ u \in WidgetState /\ SameText(w, u) /\ u.bitmap = Nothing
        /\ u.lines = w.lines /\ u.shown = w.shown /\ u.y = w.y /\ u.size = w.size
    BY <1>1, <1>3 DEF WidgetState, SameText, InvalidateCache
  <2> QED
    BY <2>1 DEF Sound, CachesAreTrue, SameText
<1>4. CASE u = InvalidateCache(w)
  BY <1>1, <1>4, InvalidateIsSound DEF Sound, CachesAreTrue, SameText
<1> QED
  BY <1>2, <1>3, <1>4 DEF OnMouseEnter, OnMouseLeave

-----------------------------------------------------------------------------
(* The inductive invariant.                                                *)

Distinct(s) == \A i, j \in DOMAIN s : s[i] = s[j] => i = j

\* Every widget is in the view or in the pool, once.
Split(v, p) ==
    /\ v \in Seq(Widget) /\ Distinct(v)
    /\ p \in Seq(Widget) /\ Distinct(p)
    /\ ToSet(v) \cup ToSet(p) = Widget /\ ToSet(v) \cap ToSet(p) = {}
    /\ Len(v) + Len(p) = MaxMessages + ChunkSize
    /\ Len(v) <= MaxMessages

AllSound(ws) == ws \in [Widget -> WidgetState] /\ \A x \in Widget : Sound(ws[x])

\* The widgets of v show messages, wrapped at the width and escaped or not; others
\* are hidden.
InViewTrue(ws, v, width) ==
    \A x \in ToSet(v) : ws[x].text \in Text /\ ws[x].label \in Labels(ws[x].text, width)
HiddenOutside(ws, v) == \A x \in Widget \ ToSet(v) : ~ws[x].shown

\* What is in sight is where it belongs.
InPlace(ws, v, row, size) ==
    \A x \in ToSet(v) :
        Top(ws, v, x) < row + size[2] /\ Top(ws, v, x) + Height(ws[x]) > row =>
            /\ ws[x].shown /\ ws[x].y = Top(ws, v, x) - row
            /\ ws[x].size = <<size[1], Height(ws[x])>>

TypedLayout ==
    /\ scroll \in Nat /\ units \in Nat /\ area \in Size /\ asked \in Nat
    /\ loadingOlder \in BOOLEAN /\ loadingNewer \in BOOLEAN
    /\ lastSnap \in BOOLEAN /\ button \in BOOLEAN /\ stale \in BOOLEAN

WidgetsInv ==
    /\ AllSound(widget)
    /\ InViewTrue(widget, view, area[1]) /\ HiddenOutside(widget, view)
    /\ InPlace(widget, view, scroll, area)

\* The view knows whether it is at its end, and the panel knows what the view
\* knows; but the panel that was reset knows better until the first page comes.
ButtonInv ==
    /\ view # <<>> => lastSnap = IsSnappedToBottom(view, scroll, units, area[2])
    /\ button => ~lastSnap
    /\ ~stale => \/ button = ~lastSnap
                 \/ view = <<>> /\ ~button /\ ~lastSnap /\ loadingOlder

LayoutInv == TypedLayout /\ Split(view, pool) /\ WidgetsInv /\ ButtonInv

-----------------------------------------------------------------------------
(* Positions.                                                              *)

LEMMA IndexOfMember ==
    ASSUME NEW v \in Seq(Widget), NEW x \in ToSet(v)
    PROVE  /\ IndexOf(v, x) \in 1..Len(v) /\ v[IndexOf(v, x)] = x /\ x \in Widget
           /\ Distinct(v) => \A i \in 1..Len(v) : v[i] = x => i = IndexOf(v, x)
<1>1. DOMAIN v = 1..Len(v) /\ \A i \in 1..Len(v) : v[i] \in Widget
  OBVIOUS
<1>2. PICK i \in DOMAIN v : v[i] = x
  BY DEF ToSet
<1>3. IndexOf(v, x) \in DOMAIN v /\ v[IndexOf(v, x)] = x
  BY <1>2 DEF IndexOf
<1> QED
  BY <1>1, <1>3 DEF Distinct

LEMMA Above ==
    ASSUME NEW v \in Seq(Widget), NEW n \in 0..Len(v)
    PROVE  /\ SubSeq(v, 1, n) \in Seq(Widget) /\ Len(SubSeq(v, 1, n)) = n
           /\ \A i \in 1..n : SubSeq(v, 1, n)[i] = v[i] /\ v[i] \in ToSet(v)
<1>1. n \in Int /\ \A i \in 1..n : v[i] \in Widget /\ i \in DOMAIN v
  OBVIOUS
<1>2. \A i \in 1..n : v[i] \in ToSet(v)
  BY <1>1 DEF ToSet
<1> QED
  BY <1>1, <1>2, SubSeqProperties

\* The heights of sound widgets are numbers.
LEMMA SoundIsMeasured ==
    ASSUME NEW ws, AllSound(ws), NEW v \in Seq(Widget)
    PROVE  Measured(ws, v) /\ Total(ws, v) \in Nat
<1>1. Len(v) \in Nat /\ \A i \in 1..Len(v) : v[i] \in Widget
  OBVIOUS
<1>2. \A x \in Widget : Height(ws[x]) \in Nat
  BY HeightIs DEF AllSound
<1>3. Measured(ws, v)
  BY <1>1, <1>2 DEF Measured
<1> QED
  BY <1>1, <1>3, TotalIsNumber

LEMMA TopIsNumber ==
    ASSUME NEW ws, AllSound(ws), NEW v \in Seq(Widget), NEW x \in ToSet(v)
    PROVE  Top(ws, v, x) \in Nat
<1>1. IndexOf(v, x) \in 1..Len(v)
  BY IndexOfMember
<1>2. IndexOf(v, x) - 1 \in 0..Len(v)
  BY <1>1
<1>3. SubSeq(v, 1, IndexOf(v, x) - 1) \in Seq(Widget)
  BY <1>2, Above
<1> QED
  BY <1>3, SoundIsMeasured DEF Top

\* Tops depend on the heights only.
LEMMA TopsAreEqual ==
    ASSUME NEW ws, NEW us, NEW v \in Seq(Widget), NEW x \in ToSet(v),
           \A y \in ToSet(v) : Height(us[y]) = Height(ws[y])
    PROVE  Top(us, v, x) = Top(ws, v, x)
<1>1. IndexOf(v, x) \in 1..Len(v)
  BY IndexOfMember
<1> DEFINE n == IndexOf(v, x) - 1
           s == SubSeq(v, 1, n)
<1>2. n \in 0..Len(v)
  BY <1>1
<1> HIDE DEF n
<1>3. Len(s) = n /\ \A i \in 1..n : s[i] \in ToSet(v)
  BY <1>2, Above
<1> HIDE DEF s
<1>4. Len(s) \in Nat /\ \A i \in 1..Len(s) : Height(us[s[i]]) = Height(ws[s[i]])
  BY <1>2, <1>3
<1>5. Total(us, s) = Total(ws, s)
  BY <1>4, EqualTotals
<1> QED
  BY <1>5 DEF Top, s, n

LEMMA SizesAre ==
    ASSUME NEW size \in Size
    PROVE  size[1] \in Nat \ {0} /\ size[2] \in Nat
BY PixelsAssumption

LEMMA RowsAreNumbers ==
    ASSUME NEW rows \in Nat, NEW height \in Nat, NEW row \in Int, NEW current \in Nat
    PROVE  ScrollToRow(rows, height, row, current) \in Nat
BY DEF ScrollToRow, LastRow

\* After the widgets of v are placed, what is seen is true.
LEMMA WidgetsArePlaced ==
    ASSUME NEW ws, AllSound(ws), NEW v \in Seq(Widget), NEW row \in Nat, NEW size \in Size,
           InViewTrue(ws, v, size[1]), HiddenOutside(ws, v),
           NEW us, us = UpdateWidgetPositions(ws, v, row, size)
    PROVE  /\ AllSound(us) /\ InViewTrue(us, v, size[1]) /\ HiddenOutside(us, v)
           /\ InPlace(us, v, row, size)
           /\ \A x \in Widget : Height(us[x]) = Height(ws[x])
<1> DEFINE w(x) == DoGetBestSize(ws[x])
           sight(x) == /\ Top(ws, v, x) + Height(w(x)) > row - Padding
                       /\ Top(ws, v, x) < row + size[2] + Padding
           place(x) == Place(w(x), Top(ws, v, x) - row, <<size[1], Height(w(x))>>)
<1>1. us = [x \in Widget |-> IF x \notin ToSet(v) THEN ws[x]
                             ELSE IF sight(x) THEN place(x) ELSE Hide(w(x))]
  BY DEF UpdateWidgetPositions
<1>2. size[1] \in Nat /\ size[2] \in Nat /\ Padding \in Nat
  BY SizesAre, PixelsAssumption
<1>3. ToSet(v) \subseteq Widget
  BY IndexOfMember
<1>4. ASSUME NEW x \in Widget
      PROVE  /\ Sound(w(x)) /\ SameText(ws[x], w(x)) /\ Height(w(x)) = Height(ws[x])
             /\ Height(ws[x]) \in Nat
  <2>1. Sound(ws[x])
    BY DEF AllSound
  <2>2. Sound(w(x)) /\ SameText(ws[x], w(x))
    BY <2>1, BestSizeIsSound
  <2> HIDE DEF w
  <2> QED
    BY <2>1, <2>2, HeightIs DEF SameText
<1> HIDE DEF w
<1>5. ASSUME NEW x \in ToSet(v), sight(x)
      PROVE  /\ Sound(place(x)) /\ SameText(ws[x], place(x)) /\ place(x).shown
             /\ place(x).y = Top(ws, v, x) - row /\ place(x).size = <<size[1], Height(ws[x])>>
  <2>1. Top(ws, v, x) - row \in Int /\ <<size[1], Height(w(x))>> \in Nat \X Nat /\ Sound(w(x))
    BY <1>2, <1>3, <1>4, TopIsNumber
  <2>2. /\ Sound(place(x)) /\ SameText(w(x), place(x)) /\ place(x).shown
        /\ place(x).y = Top(ws, v, x) - row /\ place(x).size = <<size[1], Height(w(x))>>
    BY <2>1, PlaceIsSound
  <2> QED
    BY <1>3, <1>4, <2>2 DEF SameText
<1>6. ASSUME NEW x \in ToSet(v)
      PROVE  Sound(Hide(w(x))) /\ SameText(ws[x], Hide(w(x)))
  BY <1>3, <1>4, HideIsSound DEF SameText
<1> HIDE DEF place, sight
<1>7. ASSUME NEW x \in Widget
      PROVE  Sound(us[x]) /\ SameText(ws[x], us[x]) /\ Height(us[x]) = Height(ws[x])
  <2>1. Sound(ws[x]) /\ SameText(ws[x], ws[x])
    BY DEF AllSound, SameText
  <2>2. Sound(us[x]) /\ SameText(ws[x], us[x])
    BY <1>1, <1>5, <1>6, <2>1
  <2> QED
    BY <2>1, <2>2, HeightIs DEF SameText
<1>8. us \in [Widget -> WidgetState]
  BY <1>1, <1>7 DEF Sound
<1>9. AllSound(us)
  BY <1>7, <1>8 DEF AllSound
<1>10. InViewTrue(us, v, size[1])
  BY <1>3, <1>7 DEF InViewTrue, SameText
<1>11. HiddenOutside(us, v)
  BY <1>1 DEF HiddenOutside
<1>12. ASSUME NEW x \in ToSet(v),
              Top(us, v, x) < row + size[2], Top(us, v, x) + Height(us[x]) > row
       PROVE  /\ us[x].shown /\ us[x].y = Top(us, v, x) - row
              /\ us[x].size = <<size[1], Height(us[x])>>
  <2>1. Top(us, v, x) = Top(ws, v, x) /\ Height(us[x]) = Height(ws[x]) /\ x \in Widget
    BY <1>3, <1>7, TopsAreEqual
  <2>2. Top(ws, v, x) \in Nat /\ Height(ws[x]) \in Nat
    BY <1>4, <2>1, TopIsNumber
  <2>3. sight(x)
    BY <1>2, <1>4, <1>12, <2>1, <2>2 DEF sight
  <2>4. us[x] = place(x)
    BY <1>1, <2>1, <2>3
  <2> QED
    BY <1>5, <2>1, <2>3, <2>4
<1>13. InPlace(us, v, row, size)
  BY <1>12 DEF InPlace
<1> QED
  BY <1>7, <1>9, <1>10, <1>11, <1>13

-----------------------------------------------------------------------------
(* Sequences of widgets without repetition.                                *)

Once(s) == s \in Seq(Widget) /\ Distinct(s)

LEMMA MembersAre ==
    ASSUME NEW s \in Seq(Widget)
    PROVE  /\ DOMAIN s = 1..Len(s) /\ Len(s) \in Nat
           /\ ToSet(s) \subseteq Widget
           /\ \A i \in 1..Len(s) : s[i] \in ToSet(s)
           /\ \A x \in ToSet(s) : \E i \in 1..Len(s) : s[i] = x
           /\ s = <<>> => ToSet(s) = {}
           /\ s # <<>> => Len(s) > 0 /\ ToSet(s) # {}
<1>1. DOMAIN s = 1..Len(s) /\ Len(s) \in Nat /\ \A i \in 1..Len(s) : s[i] \in Widget
  OBVIOUS
<1>2. s # <<>> => Len(s) > 0
  OBVIOUS
<1> QED
  BY <1>1, <1>2 DEF ToSet

LEMMA JoinOnce ==
    ASSUME NEW s, NEW t, Once(s), Once(t), ToSet(s) \cap ToSet(t) = {}
    PROVE  /\ Once(s \o t) /\ Len(s \o t) = Len(s) + Len(t)
           /\ ToSet(s \o t) = ToSet(s) \cup ToSet(t)
<1>1. s \in Seq(Widget) /\ t \in Seq(Widget)
  BY DEF Once
<1> DEFINE v == s \o t
<1>2. /\ v \in Seq(Widget) /\ Len(v) = Len(s) + Len(t)
      /\ \A i \in 1..Len(s) + Len(t) : v[i] = IF i <= Len(s) THEN s[i] ELSE t[i - Len(s)]
  BY <1>1, ConcatProperties
<1> HIDE DEF v
<1>3. /\ Len(s) \in Nat /\ Len(t) \in Nat /\ DOMAIN v = 1..Len(v)
      /\ DOMAIN s = 1..Len(s) /\ DOMAIN t = 1..Len(t)
  BY <1>1, <1>2
<1>4. ASSUME NEW i \in 1..Len(v)
      PROVE  \/ i \in 1..Len(s) /\ v[i] = s[i] /\ v[i] \in ToSet(s)
             \/ i - Len(s) \in 1..Len(t) /\ v[i] = t[i - Len(s)] /\ v[i] \in ToSet(t)
  <2>1. CASE i <= Len(s)
    <3>1. i \in 1..Len(s) /\ v[i] = s[i]
      BY <1>2, <1>3, <2>1
    <3> QED
      BY <1>1, <3>1, MembersAre
  <2>2. CASE ~(i <= Len(s))
    <3>1. i - Len(s) \in 1..Len(t) /\ v[i] = t[i - Len(s)]
      BY <1>2, <1>3, <2>2
    <3> QED
      BY <1>1, <3>1, MembersAre
  <2> QED
    BY <2>1, <2>2
<1>5. ToSet(v) = ToSet(s) \cup ToSet(t)
  <2>1. ASSUME NEW x \in ToSet(v) PROVE x \in ToSet(s) \cup ToSet(t)
    BY <1>2, <1>4, MembersAre
  <2>2. ASSUME NEW x \in ToSet(s) PROVE x \in ToSet(v)
    <3>1. PICK i \in 1..Len(s) : s[i] = x
      BY <1>1, MembersAre
    <3>2. i \in 1..Len(v) /\ v[i] = x
      BY <1>2, <1>3, <3>1
    <3> QED
      BY <1>2, <3>2, MembersAre
  <2>3. ASSUME NEW x \in ToSet(t) PROVE x \in ToSet(v)
    <3>1. PICK i \in 1..Len(t) : t[i] = x
      BY <1>1, MembersAre
    <3>2. /\ Len(s) + i \in 1..Len(v) /\ ~(Len(s) + i <= Len(s))
          /\ (Len(s) + i) - Len(s) = i
      BY <1>2, <1>3
    <3>3. v[Len(s) + i] = x
      BY <1>2, <1>3, <3>1, <3>2
    <3> QED
      BY <1>2, <3>2, <3>3, MembersAre
  <2> QED
    BY <2>1, <2>2, <2>3
<1>6. Distinct(v)
  <2> SUFFICES ASSUME NEW i \in 1..Len(v), NEW j \in 1..Len(v), v[i] = v[j]
               PROVE  i = j
    BY <1>3 DEF Distinct
  <2>1. CASE i \in 1..Len(s) /\ v[i] = s[i] /\ j \in 1..Len(s) /\ v[j] = s[j]
    BY <1>3, <2>1 DEF Once, Distinct
  <2>2. CASE /\ i - Len(s) \in 1..Len(t) /\ v[i] = t[i - Len(s)]
             /\ j - Len(s) \in 1..Len(t) /\ v[j] = t[j - Len(s)]
    <3>1. i - Len(s) = j - Len(s)
      BY <1>3, <2>2 DEF Once, Distinct
    <3> QED
      BY <1>3, <3>1
  <2> QED
    BY <1>4, <2>1, <2>2
<1> QED
  BY <1>2, <1>5, <1>6 DEF Once, v

\* The two parts a sequence is cut into after its n-th element.
LEMMA CutOnce ==
    ASSUME NEW s, Once(s), NEW n \in 0..Len(s)
    PROVE  LET a == SubSeq(s, 1, n)
               b == SubSeq(s, n + 1, Len(s))
           IN  /\ Once(a) /\ Len(a) = n /\ Once(b) /\ Len(b) = Len(s) - n
               /\ ToSet(a) \cup ToSet(b) = ToSet(s) /\ ToSet(a) \cap ToSet(b) = {}
               /\ \A i \in 1..n : a[i] = s[i]
               /\ \A i \in 1..(Len(s) - n) : b[i] = s[n + i]
<1>1. /\ s \in Seq(Widget) /\ Len(s) \in Nat /\ DOMAIN s = 1..Len(s)
      /\ \A i \in 1..Len(s) : s[i] \in Widget
  BY MembersAre DEF Once
<1> DEFINE a == SubSeq(s, 1, n)
           b == SubSeq(s, n + 1, Len(s))
<1>2. a \in Seq(Widget) /\ Len(a) = n /\ \A i \in 1..n : a[i] = s[i]
  BY <1>1, Above
<1>3. b \in Seq(Widget) /\ Len(b) = Len(s) - n /\ \A i \in 1..(Len(s) - n) : b[i] = s[n + i]
  <2>1. n + 1 \in Int /\ Len(s) \in Int /\ \A i \in n + 1..Len(s) : s[i] \in Widget
    BY <1>1
  <2>2. /\ b \in Seq(Widget) /\ Len(b) = IF n + 1 <= Len(s) THEN Len(s) - (n + 1) + 1 ELSE 0
        /\ \A i \in 1..(Len(s) - (n + 1) + 1) : b[i] = s[(n + 1) + i - 1]
    BY <2>1, SubSeqProperties
  <2> HIDE DEF b
  <2>3. Len(b) = Len(s) - n /\ Len(s) - (n + 1) + 1 = Len(s) - n
    <3>1. Len(s) - (n + 1) + 1 = Len(s) - n
      BY <1>1
    <3>2. CASE n + 1 <= Len(s)
      <4>1. Len(b) = Len(s) - (n + 1) + 1
        BY <2>2, <3>2
      <4> QED
        BY <3>1, <4>1
    <3>3. CASE ~(n + 1 <= Len(s))
      <4>1. Len(b) = 0
        BY <2>2, <3>3
      <4>2. Len(s) \in Nat /\ n \in Nat /\ n <= Len(s)
        BY <1>1
      <4>3. n = Len(s)
        BY <3>3, <4>2
      <4> QED
        BY <4>1, <4>2, <4>3
    <3> QED
      BY <3>2, <3>3
  <2>4. ASSUME NEW i \in 1..(Len(s) - n) PROVE b[i] = s[n + i]
    <3>1. (n + 1) + i - 1 = n + i
      BY <1>1
    <3> QED
      BY <2>2, <2>3, <3>1
  <2> QED
    BY <2>2, <2>3, <2>4
<1> HIDE DEF a, b
<1>4. DOMAIN a = 1..n /\ DOMAIN b = 1..(Len(s) - n)
  BY <1>2, <1>3, MembersAre
<1>5. ASSUME NEW i \in 1..n PROVE i \in DOMAIN s
  BY <1>1
<1>6. ASSUME NEW i \in 1..(Len(s) - n) PROVE n + i \in DOMAIN s /\ n + i \in 1..Len(s)
  BY <1>1
<1>7. Distinct(a)
  BY <1>2, <1>4, <1>5 DEF Once, Distinct
<1>8. Distinct(b)
  <2> SUFFICES ASSUME NEW i \in 1..(Len(s) - n), NEW j \in 1..(Len(s) - n), b[i] = b[j]
               PROVE  i = j
    BY <1>4 DEF Distinct
  <2>1. n + i = n + j
    BY <1>3, <1>6 DEF Once, Distinct
  <2> QED
    BY <1>1, <2>1
<1>9. ToSet(a) \cup ToSet(b) = ToSet(s)
  <2>1. ASSUME NEW x \in ToSet(s) PROVE x \in ToSet(a) \cup ToSet(b)
    <3>1. PICK i \in 1..Len(s) : s[i] = x
      BY <1>1, MembersAre
    <3>2. CASE i <= n
      <4>1. i \in 1..n /\ a[i] = x
        BY <1>1, <1>2, <3>1, <3>2
      <4> QED
        BY <1>2, <4>1, MembersAre
    <3>3. CASE ~(i <= n)
      <4>1. i - n \in 1..(Len(s) - n) /\ n + (i - n) = i
        BY <1>1, <3>3
      <4>2. b[i - n] = x
        BY <1>3, <3>1, <4>1
      <4> QED
        BY <1>3, <4>1, <4>2, MembersAre
    <3> QED
      BY <3>2, <3>3
  <2>2. ASSUME NEW x \in ToSet(a) PROVE x \in ToSet(s)
    BY <1>1, <1>2, <1>5, MembersAre
  <2>3. ASSUME NEW x \in ToSet(b) PROVE x \in ToSet(s)
    BY <1>1, <1>3, <1>6, MembersAre
  <2> QED
    BY <2>1, <2>2, <2>3
<1>10. ASSUME NEW x \in ToSet(a), x \in ToSet(b) PROVE FALSE
  <2>1. PICK i \in 1..n : a[i] = x
    BY <1>2, MembersAre
  <2>2. PICK j \in 1..(Len(s) - n) : b[j] = x
    BY <1>3, <1>10, MembersAre
  <2>3. s[i] = s[n + j] /\ i \in DOMAIN s /\ n + j \in DOMAIN s
    BY <1>2, <1>3, <1>5, <1>6, <2>1, <2>2
  <2>4. i = n + j
    BY <2>3 DEF Once, Distinct
  <2> QED
    BY <1>1, <2>4
<1> QED
  BY <1>2, <1>3, <1>7, <1>8, <1>9, <1>10 DEF Once, a, b

LEMMA ReverseOnce ==
    ASSUME NEW s, Once(s)
    PROVE  Once(Reverse(s)) /\ Len(Reverse(s)) = Len(s) /\ ToSet(Reverse(s)) = ToSet(s)
<1>1. s \in Seq(Widget) /\ Len(s) \in Nat /\ DOMAIN s = 1..Len(s)
  BY MembersAre DEF Once
<1> DEFINE r == Reverse(s)
<1>2. /\ r \in Seq(Widget) /\ Len(r) = Len(s) /\ ToSet(r) = ToSet(s)
      /\ \A i \in 1..Len(s) : r[i] = s[(Len(s) - i) + 1]
  BY <1>1, ReverseIs
<1> HIDE DEF r
<1>3. DOMAIN r = 1..Len(s)
  BY <1>2, MembersAre
<1>4. Distinct(r)
  <2> SUFFICES ASSUME NEW i \in 1..Len(s), NEW j \in 1..Len(s), r[i] = r[j]
               PROVE  i = j
    BY <1>3 DEF Distinct
  <2>1. (Len(s) - i) + 1 \in DOMAIN s /\ (Len(s) - j) + 1 \in DOMAIN s
    BY <1>1
  <2>2. (Len(s) - i) + 1 = (Len(s) - j) + 1
    BY <1>2, <2>1 DEF Once, Distinct
  <2> QED
    BY <1>1, <2>2
<1> QED
  BY <1>2, <1>4 DEF Once, r

-----------------------------------------------------------------------------
(* Widgets are taken from the pool and come back.                          *)

LEMMA DressedAreSound ==
    ASSUME AllSound(widget), NEW batch \in Seq(Text), Split(view, pool), Len(batch) <= Len(pool),
           NEW taken, taken = Taken(Len(batch)), NEW ws, ws = Dressed(batch)
    PROVE  /\ AllSound(ws)
           /\ \A x \in Widget : ws[x].shown = widget[x].shown
           /\ \A x \in ToSet(taken) : /\ ws[x].text \in Text
                                      /\ ws[x].label \in Labels(ws[x].text, area[1])
           /\ \A x \in Widget \ ToSet(taken) : ws[x] = widget[x]
<1>1. /\ Once(pool) /\ Len(batch) \in 0..Len(pool)
      /\ DOMAIN batch = 1..Len(batch) /\ \A i \in 1..Len(batch) : batch[i] \in Text
  <2>1. pool \in Seq(Widget) /\ Distinct(pool)
    BY DEF Split
  <2>2. Len(pool) \in Nat /\ Len(batch) \in Nat
    BY <2>1
  <2> QED
    BY <2>1, <2>2 DEF Once
<1>2. /\ Once(taken) /\ Len(taken) = Len(batch)
      /\ \A i \in 1..Len(batch) : taken[i] = pool[i]
  <2>1. PICK s : s = pool
    OBVIOUS
  <2>2. Once(s) /\ Len(batch) \in 0..Len(s) /\ taken = SubSeq(s, 1, Len(batch))
    BY <1>1, <2>1 DEF Taken
  <2> QED
    BY <2>1, <2>2, CutOnce
<1>3. taken \in Seq(Widget) /\ ToSet(taken) \subseteq Widget
  BY <1>2, MembersAre DEF Once
<1> DEFINE text(x) == batch[CHOOSE i \in DOMAIN batch : pool[i] = x]
<1>4. ASSUME NEW x \in ToSet(taken)
      PROVE  text(x) \in Text /\ \E i \in DOMAIN batch : taken[i] = x
  <2>1. PICK i \in 1..Len(batch) : taken[i] = x
    BY <1>2, <1>3, MembersAre
  <2>2. i \in DOMAIN batch /\ pool[i] = x
    BY <1>1, <1>2, <2>1
  <2>3. (CHOOSE j \in DOMAIN batch : pool[j] = x) \in 1..Len(batch)
    BY <1>1, <2>2
  <2> QED
    BY <1>1, <2>1, <2>2, <2>3
<1> HIDE DEF text
<1>5. ws = [x \in Widget |-> IF x \in ToSet(taken) THEN Update(widget[x], text(x), area[1]) ELSE widget[x]]
  <2>1. ASSUME NEW x \in Widget
        PROVE  (\E i \in DOMAIN batch : taken[i] = x) <=> x \in ToSet(taken)
    BY <1>1, <1>2, <1>3, <1>4, MembersAre
  <2>2. ws = [x \in Widget |-> IF \E i \in DOMAIN batch : taken[i] = x
                               THEN Update(widget[x], text(x), area[1]) ELSE widget[x]]
    BY DEF Dressed, text
  <2> QED
    BY <2>1, <2>2
<1>6. ASSUME NEW x \in ToSet(taken)
      PROVE  /\ Sound(ws[x]) /\ ws[x].text \in Text /\ ws[x].shown = widget[x].shown
             /\ ws[x].label \in Labels(ws[x].text, area[1])
  <2>1. ws[x] = Update(widget[x], text(x), area[1]) /\ Sound(widget[x]) /\ text(x) \in Text
    BY <1>3, <1>4, <1>5 DEF AllSound
  <2> QED
    BY <2>1, UpdateIsSound
<1>7. ASSUME NEW x \in Widget \ ToSet(taken)
      PROVE  ws[x] = widget[x] /\ Sound(ws[x])
  BY <1>5 DEF AllSound
<1>8. \A x \in Widget : Sound(ws[x]) /\ ws[x].shown = widget[x].shown
  BY <1>6, <1>7
<1>9. AllSound(ws)
  BY <1>5, <1>8 DEF AllSound, Sound
<1> QED
  BY <1>6, <1>7, <1>8, <1>9

LEMMA ReturnedAreSound ==
    ASSUME NEW us, AllSound(us), NEW xs \in Seq(Widget), NEW ws, ws = Returned(us, xs)
    PROVE  /\ AllSound(ws)
           /\ \A x \in Widget : SameText(us[x], ws[x]) /\ Height(ws[x]) = Height(us[x])
           /\ \A x \in ToSet(xs) : ~ws[x].shown
           /\ \A x \in Widget \ ToSet(xs) : ws[x] = us[x]
<1>1. ToSet(xs) \subseteq Widget
  BY MembersAre
<1>2. ws = [x \in Widget |-> IF x \in ToSet(xs) THEN Hide(us[x]) ELSE us[x]]
  BY DEF Returned
<1>3. ASSUME NEW x \in Widget PROVE Sound(us[x])
  BY DEF AllSound
<1>4. ASSUME NEW x \in Widget PROVE Sound(ws[x]) /\ SameText(us[x], ws[x])
  <2>1. CASE x \in ToSet(xs)
    BY <1>2, <1>3, <2>1, HideIsSound
  <2>2. CASE x \notin ToSet(xs)
    BY <1>2, <1>3, <2>2 DEF SameText
  <2> QED
    BY <2>1, <2>2
<1>5. ASSUME NEW x \in ToSet(xs) PROVE ~ws[x].shown
  BY <1>1, <1>2, <1>3, HideIsSound
<1>6. ASSUME NEW x \in Widget PROVE Height(ws[x]) = Height(us[x])
  BY <1>3, <1>4, HeightIs DEF SameText
<1>7. AllSound(ws)
  BY <1>2, <1>4 DEF AllSound, Sound
<1> QED
  BY <1>2, <1>4, <1>5, <1>6, <1>7

\* After a batch: the view is kept, the pool is rest, and the heights of the
\* widgets that the view had are as they were.
Arrived(batch, kept, rest, ws) ==
    /\ Split(kept, rest)
    /\ AllSound(ws) /\ InViewTrue(ws, kept, area[1]) /\ HiddenOutside(ws, kept)
    /\ \A x \in ToSet(view) : Height(ws[x]) = Height(widget[x])
    /\ AllSound(Dressed(batch))
    /\ \A x \in Widget : Height(ws[x]) = Height(Dressed(batch)[x])

\* A batch dresses widgets of the pool; those that are trimmed go back there.
LEMMA BatchIsSound ==
    ASSUME AllSound(widget), InViewTrue(widget, view, area[1]), HiddenOutside(widget, view),
           Split(view, pool), NEW batch \in Seq(Text), Len(batch) <= Len(pool),
           NEW taken, taken = Taken(Len(batch)),
           NEW kept, Once(kept), Len(kept) <= MaxMessages,
           NEW trimmed, Once(trimmed), ToSet(kept) \cap ToSet(trimmed) = {},
           ToSet(kept) \cup ToSet(trimmed) = ToSet(view) \cup ToSet(taken),
           Len(kept) + Len(trimmed) = Len(view) + Len(batch),
           NEW ws, ws = Returned(Dressed(batch), trimmed),
           NEW rest, rest = SubSeq(pool, Len(batch) + 1, Len(pool)) \o trimmed
    PROVE  Arrived(batch, kept, rest, ws)
<1>1. /\ Once(view) /\ Once(pool) /\ Len(batch) \in 0..Len(pool) /\ Len(view) \in Nat
      /\ Len(pool) \in Nat /\ Len(kept) \in Nat /\ Len(trimmed) \in Nat
      /\ ToSet(view) \subseteq Widget /\ ToSet(kept) \subseteq Widget
      /\ ToSet(trimmed) \subseteq Widget
  <2>1. view \in Seq(Widget) /\ pool \in Seq(Widget) /\ kept \in Seq(Widget) /\ trimmed \in Seq(Widget)
    BY DEF Split, Once
  <2>2. PICK v, p : v = view /\ p = pool
    OBVIOUS
  <2>3. ToSet(v) \subseteq Widget /\ ToSet(kept) \subseteq Widget /\ ToSet(trimmed) \subseteq Widget
    BY <2>1, <2>2, MembersAre
  <2>4. Len(view) \in Nat /\ Len(pool) \in Nat /\ Len(kept) \in Nat /\ Len(trimmed) \in Nat /\ Len(batch) \in Nat
    BY <2>1
  <2> QED
    BY <2>1, <2>2, <2>3, <2>4 DEF Split, Once
<1> DEFINE left == SubSeq(pool, Len(batch) + 1, Len(pool))
<1>2. /\ Once(taken) /\ Once(left) /\ Len(left) = Len(pool) - Len(batch)
      /\ ToSet(taken) \cup ToSet(left) = ToSet(pool) /\ ToSet(taken) \cap ToSet(left) = {}
  <2>1. PICK s : s = pool
    OBVIOUS
  <2>2. /\ Once(s) /\ Len(batch) \in 0..Len(s) /\ taken = SubSeq(s, 1, Len(batch))
        /\ left = SubSeq(s, Len(batch) + 1, Len(s))
    BY <1>1, <2>1 DEF Taken
  <2> HIDE DEF left
  <2> QED
    BY <2>1, <2>2, CutOnce
<1> HIDE DEF left
<1>3. /\ ToSet(view) \cup ToSet(pool) = Widget /\ ToSet(view) \cap ToSet(pool) = {}
      /\ Len(view) + Len(pool) = MaxMessages + ChunkSize
  BY DEF Split
<1>4. ToSet(left) \cap ToSet(trimmed) = {}
  BY <1>2, <1>3
<1>5. /\ Once(rest) /\ Len(rest) = Len(left) + Len(trimmed)
      /\ ToSet(rest) = ToSet(left) \cup ToSet(trimmed)
  BY <1>2, <1>4, JoinOnce DEF left
<1>6. Split(kept, rest)
  <2>1. ToSet(kept) \cup ToSet(rest) = Widget
    BY <1>2, <1>3, <1>5
  <2>2. ToSet(kept) \cap ToSet(rest) = {}
    BY <1>2, <1>3, <1>5
  <2>3. Len(kept) + Len(rest) = MaxMessages + ChunkSize
    BY <1>1, <1>2, <1>3, <1>5, WidgetsAssumption
  <2> QED
    BY <1>5, <2>1, <2>2, <2>3 DEF Split, Once
<1>7. PICK us : us = Dressed(batch)
  OBVIOUS
<1>8. /\ AllSound(us)
      /\ \A x \in Widget : us[x].shown = widget[x].shown
      /\ \A x \in ToSet(taken) : us[x].text \in Text /\ us[x].label \in Labels(us[x].text, area[1])
      /\ \A x \in Widget \ ToSet(taken) : us[x] = widget[x]
  BY <1>7, DressedAreSound
<1>9. /\ AllSound(ws)
      /\ \A x \in Widget : SameText(us[x], ws[x]) /\ Height(ws[x]) = Height(us[x])
      /\ \A x \in ToSet(trimmed) : ~ws[x].shown
      /\ \A x \in Widget \ ToSet(trimmed) : ws[x] = us[x]
  <2>1. ws = Returned(us, trimmed) /\ trimmed \in Seq(Widget)
    BY <1>7 DEF Once
  <2> QED
    BY <1>8, <2>1, ReturnedAreSound
<1>10. ToSet(taken) \cap ToSet(view) = {}
  BY <1>2, <1>3
<1>11. InViewTrue(ws, kept, area[1])
  <2> SUFFICES ASSUME NEW x \in ToSet(kept)
               PROVE  ws[x].text \in Text /\ ws[x].label \in Labels(ws[x].text, area[1])
    BY DEF InViewTrue
  <2>1. x \in Widget /\ x \notin ToSet(trimmed) /\ ws[x] = us[x]
    BY <1>1, <1>9
  <2>2. CASE x \in ToSet(taken)
    BY <1>8, <2>1, <2>2
  <2>3. CASE x \notin ToSet(taken)
    <3>1. x \in ToSet(view) /\ us[x] = widget[x]
      BY <1>8, <2>1, <2>3
    <3> QED
      BY <2>1, <3>1 DEF InViewTrue
  <2> QED
    BY <2>2, <2>3
<1>12. HiddenOutside(ws, kept)
  <2> SUFFICES ASSUME NEW x \in Widget \ ToSet(kept) PROVE ~ws[x].shown
    BY DEF HiddenOutside
  <2>1. CASE x \in ToSet(trimmed)
    BY <1>9, <2>1
  <2>2. CASE x \notin ToSet(trimmed)
    <3>1. x \notin ToSet(view) /\ x \notin ToSet(taken) /\ ws[x] = us[x] /\ us[x] = widget[x]
      BY <1>8, <1>9, <2>2
    <3> QED
      BY <3>1 DEF HiddenOutside
  <2> QED
    BY <2>1, <2>2
<1>13. ASSUME NEW x \in ToSet(view) PROVE Height(ws[x]) = Height(widget[x])
  BY <1>1, <1>8, <1>9, <1>10
<1>14. ASSUME NEW x \in Widget PROVE Height(ws[x]) = Height(Dressed(batch)[x])
  BY <1>7, <1>9
<1> QED
  BY <1>6, <1>7, <1>8, <1>9, <1>11, <1>12, <1>13, <1>14 DEF Arrived

-----------------------------------------------------------------------------
(* What a step that ends with LayOut leaves true.                          *)

LEMMA LayOutIsTrue ==
    ASSUME NEW ws, AllSound(ws), NEW v \in Seq(Widget), NEW row \in Nat, NEW rows \in Nat,
           NEW size \in Size, InViewTrue(ws, v, size[1]), HiddenOutside(ws, v),
           lastSnap \in BOOLEAN, button \in BOOLEAN, LayOut(ws, v, row, rows, size)
    PROVE  /\ WidgetsInv'
           /\ scroll' \in Nat /\ units' \in Nat /\ area' \in Size
           /\ lastSnap' \in BOOLEAN /\ button' \in BOOLEAN
           /\ view' = v /\ scroll' = row /\ units' = rows /\ area' = size
           /\ \A x \in Widget : Height(widget'[x]) = Height(ws[x])
<1>1. PICK us : us = UpdateWidgetPositions(ws, v, row, size)
  OBVIOUS
<1>2. /\ AllSound(us) /\ InViewTrue(us, v, size[1]) /\ HiddenOutside(us, v)
      /\ InPlace(us, v, row, size) /\ \A x \in Widget : Height(us[x]) = Height(ws[x])
  BY <1>1, WidgetsArePlaced
<1>3. widget' = us /\ view' = v /\ scroll' = row /\ units' = rows /\ area' = size
  BY <1>1 DEF LayOut
<1>4. WidgetsInv'
  BY <1>2, <1>3 DEF WidgetsInv
<1>5. lastSnap' \in BOOLEAN /\ button' \in BOOLEAN
  BY DEF LayOut, CheckAndUpdateSnapState, IsSnappedToBottom
<1> QED
  BY <1>2, <1>3, <1>4, <1>5

\* The panel learns where the view is, if one of them was right before.
LEMMA LayOutTellsThePanel ==
    ASSUME NEW ws, NEW v, NEW row \in Nat, NEW rows \in Nat, NEW size \in Size,
           lastSnap \in BOOLEAN, button \in BOOLEAN, LayOut(ws, v, row, rows, size),
           stale' = stale, button => ~lastSnap,
           ~stale => \/ button = ~lastSnap
                     \/ ~button /\ ~lastSnap /\ IsSnappedToBottom(v, row, rows, size[2])
    PROVE  ButtonInv'
<1>1. PICK snapped \in BOOLEAN : snapped = IsSnappedToBottom(v, row, rows, size[2])
  BY DEF IsSnappedToBottom
<1>2. /\ view' = v /\ scroll' = row /\ units' = rows /\ area' = size
      /\ lastSnap' = snapped /\ button' = IF snapped = lastSnap THEN button ELSE ~snapped
  BY <1>1 DEF LayOut, CheckAndUpdateSnapState
<1>3. lastSnap' = IsSnappedToBottom(view', scroll', units', area'[2])
  BY <1>1, <1>2
<1>4. ~stale => button' = ~lastSnap'
  <2>1. CASE stale
    BY <2>1
  <2>2. CASE button = ~lastSnap
    BY <1>2, <2>2
  <2>3. CASE ~button /\ ~lastSnap /\ snapped
    BY <1>2, <2>3
  <2> QED
    BY <1>1, <2>1, <2>2, <2>3
<1>5. button' => ~lastSnap'
  BY <1>2
<1> QED
  BY <1>3, <1>4, <1>5 DEF ButtonInv

-----------------------------------------------------------------------------
(* The first state.                                                        *)

\* The pool is made of all widgets, each once.
LEMMA PoolIsFull ==
    LET p == SetToSeq(Widget)
    IN  Once(p) /\ ToSet(p) = Widget /\ Len(p) = MaxMessages + ChunkSize
<1> DEFINE p == SetToSeq(Widget)
           n == MaxMessages + ChunkSize
<1>1. n \in Nat /\ IsFiniteSet(Widget) /\ Cardinality(Widget) = n
  BY WidgetsAssumption
<1>2. PICK f \in Bijection(1..n, Widget) : TRUE
  BY <1>1, FS_CardinalityType DEF ExistsBijection
<1>3. f \in [1..n -> Widget] /\ IsInjective(f)
  BY <1>2 DEF Bijection, Injection, IsInjective, Surjection
<1>4. p \in [1..n -> Widget] /\ IsInjective(p)
  BY <1>1, <1>3 DEF SetToSeq
<1> HIDE DEF p
<1>5. p \in Seq(Widget) /\ Len(p) = n /\ DOMAIN p = 1..n
  BY <1>1, <1>4
<1>6. p \in Injection(1..n, Widget)
  BY <1>4 DEF Injection, IsInjective
<1>7. IsFiniteSet(1..n) /\ Cardinality(1..n) = n
  BY <1>1, FS_Interval
<1>8. p \in Surjection(1..n, Widget)
  BY <1>1, <1>6, <1>7, FS_Injection
<1>9. ToSet(p) = Widget
  BY <1>5, <1>8 DEF Surjection, ToSet
<1>10. Distinct(p)
  BY <1>4 DEF Distinct, IsInjective
<1> QED
  BY <1>5, <1>9, <1>10 DEF Once, p

LEMMA InitIsTrue == Init => LayoutInv
<1> SUFFICES ASSUME Init PROVE LayoutInv
  OBVIOUS
<1>1. PICK p : p = SetToSeq(Widget)
  OBVIOUS
<1>2. Once(p) /\ ToSet(p) = Widget /\ Len(p) = MaxMessages + ChunkSize /\ pool = p /\ view = <<>>
  BY <1>1, PoolIsFull DEF Init
<1>3. TypedLayout
  BY DEF Init, TypedLayout
<1>4. ToSet(<<>>) = {} /\ Len(<<>>) = 0 /\ <<>> \in Seq(Widget) /\ Distinct(<<>>)
  BY DEF ToSet, Distinct
<1>5. MaxMessages \in Nat /\ ChunkSize \in Nat
  BY WidgetsAssumption
<1>6. Split(<<>>, p)
  BY <1>2, <1>4, <1>5 DEF Split, Once
<1>7. WidgetsInv
  <2>1. PICK new : new = NewWidget
    OBVIOUS
  <2>2. Sound(new) /\ ~new.shown /\ widget = [x \in Widget |-> new]
    BY <2>1, NewIsSound DEF Init
  <2>3. AllSound(widget)
    BY <2>2 DEF AllSound, Sound
  <2>4. InViewTrue(widget, <<>>, area[1]) /\ InPlace(widget, <<>>, scroll, area)
    BY <1>4 DEF InViewTrue, InPlace
  <2>5. HiddenOutside(widget, <<>>)
    BY <2>2 DEF HiddenOutside
  <2> QED
    BY <1>2, <2>3, <2>4, <2>5 DEF WidgetsInv
<1>8. ButtonInv
  BY <1>2 DEF Init, ButtonInv
<1> QED
  BY <1>2, <1>3, <1>6, <1>7, <1>8 DEF LayoutInv

-----------------------------------------------------------------------------
(* Messages come.                                                          *)

\* Something that is shown takes up a row.
LEMMA TotalIsPositive ==
    ASSUME NEW ws, AllSound(ws), NEW v \in Seq(Widget), v # <<>>
    PROVE  Total(ws, v) \in Nat \ {0}
<1>1. Len(v) \in Nat /\ Len(v) > 0 /\ \A i \in 1..Len(v) : v[i] \in Widget
  OBVIOUS
<1>2. Measured(ws, v)
  BY SoundIsMeasured
<1>3. PICK f : AddsUp(ws, v, f) /\ Total(ws, v) = f[Len(v)]
  BY <1>1, TotalAddsUp
<1>4. \A i \in 0..Len(v) : f[i] \in Nat
  BY <1>1, <1>2, <1>3, SumsAreNumbers
<1>5. /\ Len(v) \in 1..Len(v) /\ Len(v) - 1 \in 0..Len(v)
      /\ f[Len(v)] = f[Len(v) - 1] + Height(ws[v[Len(v)]])
  BY <1>1, <1>3 DEF AddsUp
<1>6. Height(ws[v[Len(v)]]) \in Nat \ {0}
  <2>1. v[Len(v)] \in Widget
    BY <1>1
  <2> QED
    BY <2>1, HeightIs DEF AllSound
<1>7. f[Len(v) - 1] \in Nat
  BY <1>4, <1>5
<1> QED
  BY <1>3, <1>5, <1>6, <1>7

LEMMA BatchFits ==
    ASSUME Split(view, pool), NEW batch \in Seq(Text), batch # <<>>, Len(batch) <= ChunkSize,
           NEW taken, taken = Taken(Len(batch))
    PROVE  /\ Len(batch) <= Len(pool) /\ Len(batch) \in Nat \ {0}
           /\ Once(view) /\ Once(taken) /\ Len(taken) = Len(batch)
           /\ ToSet(taken) \cap ToSet(view) = {} /\ Len(view) \in Nat
<1>1. /\ Once(view) /\ Once(pool) /\ Len(view) \in Nat /\ Len(pool) \in Nat
      /\ Len(view) + Len(pool) = MaxMessages + ChunkSize /\ Len(view) <= MaxMessages
      /\ ToSet(view) \cap ToSet(pool) = {}
  BY DEF Split, Once
<1>2. Len(batch) \in Nat \ {0} /\ MaxMessages \in Nat /\ ChunkSize \in Nat
  BY WidgetsAssumption
<1>3. Len(batch) \in 0..Len(pool)
  BY <1>1, <1>2
<1>4. PICK s : s = pool
  OBVIOUS
<1>5. taken = SubSeq(s, 1, Len(batch)) /\ Once(s) /\ Len(batch) \in 0..Len(s)
  BY <1>1, <1>3, <1>4 DEF Taken
<1>6. Once(taken) /\ Len(taken) = Len(batch) /\ ToSet(taken) \subseteq ToSet(s)
  BY <1>5, CutOnce
<1> QED
  BY <1>1, <1>2, <1>3, <1>4, <1>6

\* What Prepend does: the widgets it took, all there would be, those that the
\* view keeps as they then are, and where it scrolls to in how many rows.
Prepended(batch, taken, all, kept, ws, row, rows) ==
    /\ Once(taken) /\ ToSet(taken) \cap ToSet(view) = {}
    /\ Arrived(batch, kept, pool', ws)
    /\ Once(all) /\ all = Reverse(taken) \o view
    /\ \E n \in 0..Len(all) : kept = SubSeq(all, 1, n)
    /\ rows = Total(ws, kept) /\ rows \in Nat \ {0}
    /\ row = ScrollToRow(rows, area[2], IF view = <<>> THEN rows - area[2]
                                        ELSE scroll + Total(ws, taken), scroll)
    /\ row \in Nat
    /\ LayOut(ws, kept, row, rows, area)

LEMMA PrependIs ==
    ASSUME TypedLayout, Split(view, pool), WidgetsInv, NEW batch \in Seq(Text), batch # <<>>,
           Len(batch) <= ChunkSize, Prepend(batch)
    PROVE  \E taken, all, kept, ws, row, rows : Prepended(batch, taken, all, kept, ws, row, rows)
<1>1. PICK taken : taken = Taken(Len(batch))
  OBVIOUS
<1>2. /\ Len(batch) <= Len(pool) /\ Len(batch) \in Nat \ {0}
      /\ Once(view) /\ Once(taken) /\ Len(taken) = Len(batch)
      /\ ToSet(taken) \cap ToSet(view) = {} /\ Len(view) \in Nat
  BY <1>1, BatchFits
<1>3. PICK all : all = Reverse(taken) \o view
  OBVIOUS
<1>4. /\ Once(all) /\ Len(all) = Len(batch) + Len(view)
      /\ ToSet(all) = ToSet(taken) \cup ToSet(view)
  <2>1. PICK v : v = view
    OBVIOUS
  <2>2. PICK r : r = Reverse(taken)
    OBVIOUS
  <2>3. Once(r) /\ Len(r) = Len(batch) /\ ToSet(r) = ToSet(taken)
    BY <1>2, <2>2, ReverseOnce
  <2>4. /\ Once(r \o v) /\ Len(r \o v) = Len(r) + Len(v)
        /\ ToSet(r \o v) = ToSet(r) \cup ToSet(v)
    BY <1>2, <2>1, <2>3, JoinOnce
  <2> QED
    BY <1>3, <2>1, <2>2, <2>3, <2>4
<1>5. PICK n : n = IF Len(all) < MaxMessages THEN Len(all) ELSE MaxMessages
  OBVIOUS
<1>6. n \in 0..Len(all) /\ n # 0 /\ n <= MaxMessages /\ MaxMessages \in Nat
  BY <1>2, <1>4, <1>5, WidgetsAssumption
<1>7. PICK kept, cut, trimmed :
         /\ kept = SubSeq(all, 1, n) /\ cut = SubSeq(all, n + 1, Len(all))
         /\ trimmed = Reverse(cut)
  OBVIOUS
<1>8. /\ Once(kept) /\ Len(kept) = n /\ Once(trimmed) /\ Len(trimmed) = Len(all) - n
      /\ ToSet(kept) \cup ToSet(trimmed) = ToSet(view) \cup ToSet(taken)
      /\ ToSet(kept) \cap ToSet(trimmed) = {}
  <2>1. /\ Once(kept) /\ Len(kept) = n /\ Once(cut) /\ Len(cut) = Len(all) - n
        /\ ToSet(kept) \cup ToSet(cut) = ToSet(all) /\ ToSet(kept) \cap ToSet(cut) = {}
    BY <1>4, <1>6, <1>7, CutOnce
  <2>2. Once(trimmed) /\ Len(trimmed) = Len(cut) /\ ToSet(trimmed) = ToSet(cut)
    BY <1>7, <2>1, ReverseOnce
  <2> QED
    BY <1>4, <2>1, <2>2
<1>9. Len(kept) <= MaxMessages /\ kept # <<>> /\ Len(kept) + Len(trimmed) = Len(view) + Len(batch)
  BY <1>2, <1>4, <1>6, <1>8
<1>10. PICK ws, rest, rows :
         /\ ws = Returned(Dressed(batch), trimmed)
         /\ rest = SubSeq(pool, Len(batch) + 1, Len(pool)) \o trimmed
         /\ rows = Total(ws, kept)
  OBVIOUS
<1>11. AllSound(widget) /\ InViewTrue(widget, view, area[1]) /\ HiddenOutside(widget, view)
  BY DEF WidgetsInv
<1>12. Arrived(batch, kept, rest, ws)
  BY <1>1, <1>2, <1>8, <1>9, <1>10, <1>11, BatchIsSound
<1>13. rows \in Nat \ {0}
  BY <1>8, <1>9, <1>10, <1>12, TotalIsPositive DEF Once, Arrived
<1>14. Total(Dressed(batch), taken) = Total(ws, taken) /\ Total(ws, taken) \in Nat
  <2>1. PICK us : us = Dressed(batch)
    OBVIOUS
  <2>2. taken \in Seq(Widget) /\ Len(taken) \in Nat /\ \A i \in 1..Len(taken) : taken[i] \in Widget
    BY <1>2 DEF Once
  <2>3. \A i \in 1..Len(taken) : Height(us[taken[i]]) = Height(ws[taken[i]])
    BY <1>12, <2>1, <2>2 DEF Arrived
  <2>4. Total(us, taken) = Total(ws, taken)
    BY <2>2, <2>3, EqualTotals
  <2>5. Total(ws, taken) \in Nat
    BY <1>12, <2>2, SoundIsMeasured DEF Arrived
  <2> QED
    BY <2>1, <2>4, <2>5
<1>15. PICK target, row :
         /\ target = IF view = <<>> THEN rows - area[2] ELSE scroll + Total(ws, taken)
         /\ row = ScrollToRow(rows, area[2], target, scroll)
  OBVIOUS
<1>16. row \in Nat
  <2>1. scroll \in Nat /\ area[2] \in Nat
    BY SizesAre DEF TypedLayout
  <2>2. target \in Int
    BY <1>13, <1>14, <1>15, <2>1
  <2>3. PICK height, current : height = area[2] /\ current = scroll
    OBVIOUS
  <2> QED
    BY <1>13, <1>15, <2>1, <2>2, <2>3, RowsAreNumbers
<1>17. pool' = rest /\ LayOut(ws, kept, row, rows, area)
  BY <1>1, <1>3, <1>5, <1>7, <1>10, <1>14, <1>15 DEF Prepend
<1>18. Arrived(batch, kept, pool', ws)
  BY <1>12, <1>17
<1> QED
  BY <1>2, <1>3, <1>4, <1>6, <1>7, <1>10, <1>13, <1>15, <1>16, <1>17, <1>18 DEF Prepended

\* The same of AppendBatch, which takes what is trimmed above, n widgets at
\* most, from the scroll position.
Appended(batch, isHistory, taken, all, kept, ws, row, rows, n, removed) ==
    /\ Once(taken) /\ ToSet(taken) \cap ToSet(view) = {}
    /\ Arrived(batch, kept, pool', ws)
    /\ Once(all) /\ all = view \o taken
    /\ n \in 0..Len(all) /\ kept = SubSeq(all, n + 1, Len(all))
    /\ rows = Total(ws, kept) /\ rows \in Nat \ {0}
    /\ removed = Total(widget, SubSeq(view, 1, IF n < Len(view) THEN n ELSE Len(view)))
    /\ removed \in Nat
    /\ row = ScrollToRow(rows, area[2], IF ~isHistory /\ WasAtBottom THEN rows
                                        ELSE IF scroll > removed THEN scroll - removed ELSE 0, scroll)
    /\ row \in Nat
    /\ LayOut(ws, kept, row, rows, area)

LEMMA AppendIs ==
    ASSUME TypedLayout, Split(view, pool), WidgetsInv, NEW batch \in Seq(Text), batch # <<>>,
           Len(batch) <= ChunkSize, NEW isHistory \in BOOLEAN, AppendBatch(batch, isHistory)
    PROVE  \E taken, all, kept, ws, row, rows, n, removed :
              Appended(batch, isHistory, taken, all, kept, ws, row, rows, n, removed)
<1>1. PICK taken : taken = Taken(Len(batch))
  OBVIOUS
<1>2. /\ Len(batch) <= Len(pool) /\ Len(batch) \in Nat \ {0}
      /\ Once(view) /\ Once(taken) /\ Len(taken) = Len(batch)
      /\ ToSet(taken) \cap ToSet(view) = {} /\ Len(view) \in Nat
  BY <1>1, BatchFits
<1>3. PICK all : all = view \o taken
  OBVIOUS
<1>4. /\ Once(all) /\ Len(all) = Len(batch) + Len(view)
      /\ ToSet(all) = ToSet(taken) \cup ToSet(view)
  <2>1. PICK v : v = view
    OBVIOUS
  <2>2. /\ Once(v \o taken) /\ Len(v \o taken) = Len(v) + Len(taken)
        /\ ToSet(v \o taken) = ToSet(v) \cup ToSet(taken)
    BY <1>2, <2>1, JoinOnce
  <2> QED
    BY <1>2, <1>3, <2>1, <2>2
<1>5. PICK n : n = IF Len(all) > MaxMessages THEN Len(all) - MaxMessages ELSE 0
  OBVIOUS
<1>6. n \in 0..Len(all) /\ Len(all) - n > 0 /\ Len(all) - n <= MaxMessages
  <2>1. Len(all) \in Nat \ {0} /\ MaxMessages \in Nat \ {0}
    BY <1>2, <1>4, WidgetsAssumption
  <2>2. CASE Len(all) > MaxMessages
    <3>1. n = Len(all) - MaxMessages
      BY <1>5, <2>2
    <3>2. Len(all) - n = MaxMessages /\ n \in Nat /\ n <= Len(all)
      BY <2>1, <2>2, <3>1
    <3> QED
      BY <2>1, <3>2
  <2>3. CASE ~(Len(all) > MaxMessages)
    BY <1>5, <2>1, <2>3
  <2> QED
    BY <2>2, <2>3
<1>7. PICK kept, trimmed :
         kept = SubSeq(all, n + 1, Len(all)) /\ trimmed = SubSeq(all, 1, n)
  OBVIOUS
<1>8. /\ Once(kept) /\ Len(kept) = Len(all) - n /\ Once(trimmed) /\ Len(trimmed) = n
      /\ ToSet(kept) \cup ToSet(trimmed) = ToSet(view) \cup ToSet(taken)
      /\ ToSet(kept) \cap ToSet(trimmed) = {}
  <2>1. /\ Once(trimmed) /\ Len(trimmed) = n /\ Once(kept) /\ Len(kept) = Len(all) - n
        /\ ToSet(trimmed) \cup ToSet(kept) = ToSet(all) /\ ToSet(trimmed) \cap ToSet(kept) = {}
    BY <1>4, <1>6, <1>7, CutOnce
  <2> QED
    BY <1>4, <2>1
<1>9. Len(kept) <= MaxMessages /\ kept # <<>> /\ Len(kept) + Len(trimmed) = Len(view) + Len(batch)
  BY <1>2, <1>4, <1>6, <1>8
<1>10. PICK ws, rest, rows :
         /\ ws = Returned(Dressed(batch), trimmed)
         /\ rest = SubSeq(pool, Len(batch) + 1, Len(pool)) \o trimmed
         /\ rows = Total(ws, kept)
  OBVIOUS
<1>11. AllSound(widget) /\ InViewTrue(widget, view, area[1]) /\ HiddenOutside(widget, view)
  BY DEF WidgetsInv
<1>12. Arrived(batch, kept, rest, ws)
  BY <1>1, <1>2, <1>8, <1>9, <1>10, <1>11, BatchIsSound
<1>13. rows \in Nat \ {0}
  BY <1>8, <1>9, <1>10, <1>12, TotalIsPositive DEF Once, Arrived
<1>14. PICK removed : removed = Total(widget, SubSeq(view, 1, IF n < Len(view) THEN n ELSE Len(view)))
  OBVIOUS
<1>15. removed \in Nat
  <2>1. PICK v, us : v = view /\ us = widget
    OBVIOUS
  <2>2. PICK k : k = IF n < Len(view) THEN n ELSE Len(view)
    OBVIOUS
  <2>3. k \in 0..Len(v) /\ v \in Seq(Widget) /\ AllSound(us) /\ removed = Total(us, SubSeq(v, 1, k))
    BY <1>2, <1>6, <1>11, <1>14, <2>1, <2>2 DEF Once
  <2>4. SubSeq(v, 1, k) \in Seq(Widget)
    BY <2>3, Above
  <2> QED
    BY <2>3, <2>4, SoundIsMeasured
<1>16. PICK target, row :
         /\ target = IF ~isHistory /\ WasAtBottom THEN rows
                     ELSE IF scroll > removed THEN scroll - removed ELSE 0
         /\ row = ScrollToRow(rows, area[2], target, scroll)
  OBVIOUS
<1>17. row \in Nat
  <2>1. scroll \in Nat /\ area[2] \in Nat
    BY SizesAre DEF TypedLayout
  <2>2. target \in Int
    BY <1>13, <1>15, <1>16, <2>1
  <2>3. PICK height, current : height = area[2] /\ current = scroll
    OBVIOUS
  <2> QED
    BY <1>13, <1>16, <2>1, <2>2, <2>3, RowsAreNumbers
<1>18. pool' = rest /\ LayOut(ws, kept, row, rows, area)
  BY <1>1, <1>3, <1>5, <1>7, <1>10, <1>14, <1>16 DEF AppendBatch
<1>19. Arrived(batch, kept, pool', ws)
  BY <1>12, <1>18
<1> QED
  BY <1>2, <1>3, <1>4, <1>6, <1>7, <1>10, <1>13, <1>14, <1>15, <1>16, <1>17, <1>18, <1>19 DEF Appended

\* A step that ends with LayOut keeps the invariant, where the panel that was
\* reset learns nothing else than that the view is at its end.
LEMMA LaidOutIsTrue ==
    ASSUME LayoutInv, NEW ws, AllSound(ws), NEW v, NEW row \in Nat, NEW rows \in Nat,
           NEW size \in Size, InViewTrue(ws, v, size[1]), HiddenOutside(ws, v), Split(v, pool'),
           LayOut(ws, v, row, rows, size), stale' = stale,
           asked' \in Nat, loadingOlder' \in BOOLEAN, loadingNewer' \in BOOLEAN,
           view = <<>> /\ loadingOlder => IsSnappedToBottom(v, row, rows, size[2])
    PROVE  LayoutInv'
<1>1. lastSnap \in BOOLEAN /\ button \in BOOLEAN /\ stale \in BOOLEAN /\ v \in Seq(Widget)
  BY DEF LayoutInv, TypedLayout, Split
<1>2. /\ WidgetsInv' /\ scroll' \in Nat /\ units' \in Nat /\ area' \in Size
      /\ lastSnap' \in BOOLEAN /\ button' \in BOOLEAN /\ view' = v
  BY <1>1, LayOutIsTrue
<1>3. /\ button => ~lastSnap
      /\ ~stale => \/ button = ~lastSnap
                   \/ ~button /\ ~lastSnap /\ IsSnappedToBottom(v, row, rows, size[2])
  BY DEF LayoutInv, ButtonInv
<1>4. ButtonInv'
  BY <1>1, <1>3, LayOutTellsThePanel
<1>5. TypedLayout'
  BY <1>1, <1>2 DEF TypedLayout
<1>6. Split(view, pool)'
  BY <1>2
<1> QED
  BY <1>2, <1>4, <1>5, <1>6 DEF LayoutInv

\* The first messages of a room are shown from their end.
LEMMA FirstArePlacedAtTheEnd ==
    ASSUME NEW rows \in Nat \ {0}, NEW height \in Nat, NEW current, NEW row,
           row = ScrollToRow(rows, height, rows - height, current), NEW v
    PROVE  IsSnappedToBottom(v, row, rows, height)
<1>1. SnapSlack \in Nat
  BY PixelsAssumption
<1>2. row + height >= rows
  BY DEF ScrollToRow, LastRow
<1>3. row \in Nat
  BY DEF ScrollToRow, LastRow
<1> QED
  BY <1>1, <1>2, <1>3 DEF IsSnappedToBottom

LEMMA ReceivedIsTrue ==
    ASSUME LayoutInv, NEW batch \in Seq(Text), Len(batch) <= ChunkSize, NEW isHistory \in BOOLEAN,
           OnMessagesReceived(batch, isHistory)
    PROVE  LayoutInv'
<1>1. TypedLayout /\ Split(view, pool) /\ WidgetsInv /\ ButtonInv
  BY DEF LayoutInv
<1>2. asked' \in Nat /\ loadingOlder' = FALSE /\ loadingNewer' = FALSE
  BY <1>1 DEF TypedLayout, OnMessagesReceived
<1>3. CASE batch = <<>>
  <2>1. UNCHANGED <<widget, view, pool, scroll, units, area, lastSnap, button>>
    BY <1>3 DEF OnMessagesReceived
  <2>2. stale' = (stale \/ (view = <<>> /\ button = lastSnap))
    BY <1>3 DEF OnMessagesReceived
  <2>3. TypedLayout'
    BY <1>1, <1>2, <2>1, <2>2 DEF TypedLayout
  <2>4. Split(view, pool)' /\ WidgetsInv'
    BY <1>1, <2>1 DEF WidgetsInv
  <2>5. ButtonInv'
    <3>1. view' # <<>> => lastSnap' = IsSnappedToBottom(view', scroll', units', area'[2])
      BY <1>1, <2>1 DEF ButtonInv
    <3>2. ~stale' => button' = ~lastSnap'
      BY <1>1, <2>1, <2>2 DEF ButtonInv, TypedLayout
    <3>3. button' => ~lastSnap'
      BY <1>1, <2>1 DEF ButtonInv
    <3> QED
      BY <3>1, <3>2, <3>3 DEF ButtonInv
  <2> QED
    BY <2>3, <2>4, <2>5 DEF LayoutInv
<1>4. CASE batch # <<>> /\ loadingOlder
  <2>1. Prepend(batch) /\ stale' = stale
    BY <1>1, <1>4 DEF OnMessagesReceived, TypedLayout
  <2>2. PICK taken, all, kept, ws, row, rows : Prepended(batch, taken, all, kept, ws, row, rows)
    BY <1>1, <1>4, <2>1, PrependIs
  <2>3. /\ Arrived(batch, kept, pool', ws)
         /\ rows \in Nat \ {0} /\ row \in Nat
         /\ LayOut(ws, kept, row, rows, area)
    BY <2>2 DEF Prepended
  <2>4. area \in Size /\ area[2] \in Nat
    BY <1>1, SizesAre DEF TypedLayout
  <2>5. PICK size : size = area
    OBVIOUS
  <2>6. view = <<>> => IsSnappedToBottom(kept, row, rows, size[2])
    <3> SUFFICES ASSUME view = <<>> PROVE IsSnappedToBottom(kept, row, rows, size[2])
      OBVIOUS
    <3>1. PICK current : current = scroll
      OBVIOUS
    <3>2. row = ScrollToRow(rows, size[2], rows - size[2], current)
      BY <2>2, <2>5, <3>1 DEF Prepended
    <3> QED
      BY <2>3, <2>4, <2>5, <3>2, FirstArePlacedAtTheEnd
  <2> QED
    BY <1>2, <2>1, <2>3, <2>4, <2>5, <2>6, LaidOutIsTrue DEF Arrived
<1>5. CASE batch # <<>> /\ ~loadingOlder
  <2>1. AppendBatch(batch, isHistory) /\ stale' = stale
    BY <1>1, <1>5 DEF OnMessagesReceived, TypedLayout
  <2>2. PICK taken, all, kept, ws, row, rows, n, removed :
           Appended(batch, isHistory, taken, all, kept, ws, row, rows, n, removed)
    BY <1>1, <1>5, <2>1, AppendIs
  <2>3. /\ Arrived(batch, kept, pool', ws)
         /\ rows \in Nat \ {0} /\ row \in Nat
         /\ LayOut(ws, kept, row, rows, area)
    BY <2>2 DEF Appended
  <2>4. PICK size : size = area
    OBVIOUS
  <2>5. size \in Size
    BY <1>1, <2>4 DEF TypedLayout
  <2> QED
    BY <1>2, <1>5, <2>1, <2>3, <2>4, <2>5, LaidOutIsTrue DEF Arrived
<1> QED
  BY <1>3, <1>4, <1>5

-----------------------------------------------------------------------------
(* The other steps.                                                        *)

LEMMA StartIsTrue ==
    ASSUME LayoutInv, JumpToPresent \/ ResetState
    PROVE  LayoutInv'
<1>1. TypedLayout /\ Split(view, pool) /\ WidgetsInv /\ ButtonInv
  BY DEF LayoutInv
<1>2. PICK v, p, ws : v = view /\ p = pool /\ ws = Returned(widget, view)
  OBVIOUS
<1>3. /\ widget' = ws /\ pool' = p \o v /\ view' = <<>> /\ units' = 0
      /\ loadingOlder' = TRUE /\ loadingNewer' = FALSE /\ asked' = asked + 1
      /\ scroll' = scroll /\ area' = area /\ lastSnap' = lastSnap /\ stale' = stale
  BY <1>2 DEF JumpToPresent, ResetState, Start, Clear, LoadOlderMessages
<1>4. (button' = button /\ button) \/ button' = FALSE
  BY DEF JumpToPresent, ResetState
<1>5. TypedLayout'
  <2>1. button' \in BOOLEAN
    BY <1>1, <1>4, Zenon DEF TypedLayout
  <2>2. /\ loadingOlder' \in BOOLEAN /\ loadingNewer' \in BOOLEAN
        /\ lastSnap' \in BOOLEAN /\ stale' \in BOOLEAN
    BY <1>1, <1>3, Zenon DEF TypedLayout
  <2>3. scroll' \in Nat /\ units' \in Nat /\ area' \in Size /\ asked' \in Nat
    BY <1>1, <1>3 DEF TypedLayout
  <2> QED
    BY <2>1, <2>2, <2>3 DEF TypedLayout
<1>6. ToSet(<<>>) = {} /\ Len(<<>>) = 0 /\ <<>> \in Seq(Widget) /\ Distinct(<<>>)
  BY DEF ToSet, Distinct
<1>7. /\ Once(v) /\ Once(p) /\ Len(v) + Len(p) = MaxMessages + ChunkSize
      /\ ToSet(v) \cup ToSet(p) = Widget /\ ToSet(v) \cap ToSet(p) = {}
  BY <1>1, <1>2 DEF Split, Once
<1>8. Split(<<>>, p \o v)
  <2>1. /\ Once(p \o v) /\ Len(p \o v) = Len(p) + Len(v)
        /\ ToSet(p \o v) = ToSet(p) \cup ToSet(v)
    BY <1>7, JoinOnce
  <2>2. Len(p) \in Nat /\ Len(v) \in Nat
    BY <1>7 DEF Once
  <2>3. MaxMessages \in Nat
    BY WidgetsAssumption
  <2> QED
    BY <1>6, <1>7, <2>1, <2>2, <2>3 DEF Split, Once
<1>9. WidgetsInv'
  <2>1. PICK us : us = widget
    OBVIOUS
  <2>2. AllSound(us) /\ HiddenOutside(us, v) /\ v \in Seq(Widget) /\ ws = Returned(us, v)
    BY <1>1, <1>2, <1>7, <2>1 DEF WidgetsInv, Once
  <2>3. /\ AllSound(ws) /\ \A x \in ToSet(v) : ~ws[x].shown
        /\ \A x \in Widget \ ToSet(v) : ws[x] = us[x]
    BY <2>2, ReturnedAreSound
  <2>4. HiddenOutside(ws, <<>>)
    BY <2>2, <2>3 DEF HiddenOutside
  <2>5. InViewTrue(ws, <<>>, area[1]) /\ InPlace(ws, <<>>, scroll, area)
    BY <1>6 DEF InViewTrue, InPlace
  <2> QED
    BY <1>3, <2>3, <2>4, <2>5 DEF WidgetsInv
<1>10. ButtonInv'
  <2>1. ~stale' => \/ button' = ~lastSnap'
                   \/ view' = <<>> /\ ~button' /\ ~lastSnap' /\ loadingOlder'
    <3>1. CASE stale
      BY <1>3, <3>1
    <3>2. CASE button' = FALSE
      BY <1>1, <1>3, <3>2 DEF TypedLayout
    <3>3. CASE ~stale /\ button' = button /\ button
      BY <1>1, <1>3, <3>3 DEF ButtonInv
    <3> QED
      BY <1>1, <1>4, <3>1, <3>2, <3>3 DEF TypedLayout
  <2>2. button' => ~lastSnap'
    BY <1>1, <1>3, <1>4 DEF ButtonInv
  <2> QED
    BY <1>3, <2>1, <2>2 DEF ButtonInv
<1> QED
  BY <1>3, <1>5, <1>8, <1>9, <1>10 DEF LayoutInv

LEMMA ScrolledIsTrue ==
    ASSUME LayoutInv, NEW by \in Int, OnMouseWheel(by)
    PROVE  LayoutInv'
<1>1. TypedLayout /\ Split(view, pool) /\ WidgetsInv
  BY DEF LayoutInv
<1>2. PICK row : row = ScrollToRow(units, area[2], IF scroll + by < 0 THEN 0 ELSE scroll + by, scroll)
  OBVIOUS
<1>3. OnScrolled(row)
  BY <1>2 DEF OnMouseWheel
<1>4. PICK ws, v, rows, size : ws = widget /\ v = view /\ rows = units /\ size = area
  OBVIOUS
<1>5. /\ AllSound(ws) /\ InViewTrue(ws, v, size[1]) /\ HiddenOutside(ws, v)
      /\ size \in Size /\ rows \in Nat /\ scroll \in Nat
  BY <1>1, <1>4 DEF WidgetsInv, TypedLayout
<1>6. row \in Nat
  <2>1. PICK wanted, current : /\ wanted = IF scroll + by < 0 THEN 0 ELSE scroll + by
                               /\ current = scroll
    OBVIOUS
  <2>2. wanted \in Int /\ current \in Nat /\ size[2] \in Nat
    BY <1>5, <2>1, SizesAre
  <2>3. row = ScrollToRow(rows, size[2], wanted, current)
    BY <1>2, <1>4, <2>1
  <2> QED
    BY <1>5, <2>2, <2>3, RowsAreNumbers
<1>7. LayOut(ws, v, row, rows, size) /\ pool' = pool /\ stale' = stale
  BY <1>3, <1>4 DEF OnScrolled
<1>8. asked' \in Nat /\ loadingOlder' \in BOOLEAN /\ loadingNewer' \in BOOLEAN
  <2>1. \/ LoadOlderMessages /\ UNCHANGED loadingNewer
        \/ LoadNewerMessages /\ UNCHANGED loadingOlder
        \/ UNCHANGED loading
    BY <1>3, Zenon DEF OnScrolled
  <2>2. asked \in Nat /\ loadingOlder \in BOOLEAN /\ loadingNewer \in BOOLEAN
    BY <1>1 DEF TypedLayout
  <2>3. CASE UNCHANGED loading
    BY <2>2, <2>3 DEF loading
  <2>4. CASE LoadOlderMessages /\ UNCHANGED loadingNewer
    BY <2>2, <2>4 DEF LoadOlderMessages
  <2>5. CASE LoadNewerMessages /\ UNCHANGED loadingOlder
    BY <2>2, <2>5 DEF LoadNewerMessages
  <2> QED
    BY <2>1, <2>3, <2>4, <2>5
<1>9. Split(v, pool')
  BY <1>1, <1>4, <1>7
<1>10. view = <<>> /\ loadingOlder => IsSnappedToBottom(v, row, rows, size[2])
  BY <1>4 DEF IsSnappedToBottom
<1> QED
  BY <1>5, <1>6, <1>7, <1>8, <1>9, <1>10, LaidOutIsTrue

LEMMA ResizedIsTrue ==
    ASSUME LayoutInv, NEW size \in Size, DoSetSize(size)
    PROVE  LayoutInv'
<1>1. TypedLayout /\ Split(view, pool) /\ WidgetsInv
  BY DEF LayoutInv
<1>2. PICK us, v, old : us = widget /\ v = view /\ old = area
  OBVIOUS
<1>3. /\ AllSound(us) /\ InViewTrue(us, v, old[1]) /\ HiddenOutside(us, v)
      /\ old \in Size /\ scroll \in Nat /\ v \in Seq(Widget) /\ ToSet(v) \subseteq Widget
  <2>1. /\ AllSound(us) /\ InViewTrue(us, v, old[1]) /\ HiddenOutside(us, v)
        /\ old \in Size /\ scroll \in Nat /\ v \in Seq(Widget)
    BY <1>1, <1>2 DEF WidgetsInv, TypedLayout, Split
  <2> QED
    BY <2>1, MembersAre
<1>4. PICK ws : ws = IF size[1] = area[1] THEN widget ELSE ReWrapAllMessages(size[1])
  OBVIOUS
<1>5. AllSound(ws) /\ InViewTrue(ws, v, size[1]) /\ HiddenOutside(ws, v)
  <2>1. CASE size[1] = area[1]
    <3>1. ws = us /\ size[1] = old[1]
      BY <1>2, <1>4, <2>1
    <3> QED
      BY <1>3, <3>1
  <2>2. CASE size[1] # area[1]
    <3>1. ws = [x \in Widget |-> IF x \in ToSet(v) THEN SetWrappedMessage(us[x], size[1]) ELSE us[x]]
      BY <1>2, <1>4, <2>2 DEF ReWrapAllMessages
    <3>2. ASSUME NEW x \in ToSet(v)
          PROVE  /\ Sound(ws[x]) /\ ws[x].text \in Text /\ ws[x].label \in Labels(ws[x].text, size[1])
      <4>1. Sound(us[x]) /\ us[x].text \in Text /\ ws[x] = SetWrappedMessage(us[x], size[1])
        BY <1>3, <3>1 DEF AllSound, InViewTrue
      <4> QED
        BY <4>1, RewrapIsSound
    <3>3. ASSUME NEW x \in Widget \ ToSet(v) PROVE Sound(ws[x]) /\ ws[x] = us[x]
      BY <1>3, <3>1 DEF AllSound
    <3>4. AllSound(ws)
      BY <3>1, <3>2, <3>3 DEF AllSound, Sound
    <3>5. InViewTrue(ws, v, size[1])
      BY <3>2 DEF InViewTrue
    <3>6. HiddenOutside(ws, v)
      BY <1>3, <3>3 DEF HiddenOutside
    <3> QED
      BY <3>4, <3>5, <3>6
  <2> QED
    BY <2>1, <2>2
<1>6. PICK rows : rows = Total(ws, v)
  OBVIOUS
<1>7. rows \in Nat
  BY <1>3, <1>5, <1>6, SoundIsMeasured
<1>8. PICK row : row = ScrollToRow(rows, size[2], scroll + area[2] - size[2], scroll)
  OBVIOUS
<1>9. row \in Nat
  <2>1. PICK wanted, current : wanted = scroll + area[2] - size[2] /\ current = scroll
    OBVIOUS
  <2>2. wanted \in Int /\ current \in Nat /\ size[2] \in Nat
    BY <1>2, <1>3, <2>1, SizesAre
  <2> QED
    BY <1>7, <1>8, <2>1, <2>2, RowsAreNumbers
<1>10. LayOut(ws, v, row, rows, size) /\ pool' = pool /\ stale' = stale
  BY <1>2, <1>4, <1>6, <1>8 DEF DoSetSize
<1>11. asked' \in Nat /\ loadingOlder' \in BOOLEAN /\ loadingNewer' \in BOOLEAN
  BY <1>1 DEF DoSetSize, loading, TypedLayout
<1>12. Split(v, pool')
  BY <1>1, <1>2, <1>10
<1>13. view = <<>> /\ loadingOlder => IsSnappedToBottom(v, row, rows, size[2])
  BY <1>2 DEF IsSnappedToBottom
<1> QED
  BY <1>5, <1>7, <1>9, <1>10, <1>11, <1>12, <1>13, LaidOutIsTrue

\* A widget is taken out of a sequence.
LEMMA RemovedOnce ==
    ASSUME NEW s, Once(s), NEW i \in 1..Len(s)
    PROVE  /\ Once(RemoveAt(s, i)) /\ Len(RemoveAt(s, i)) = Len(s) - 1
           /\ ToSet(RemoveAt(s, i)) = ToSet(s) \ {s[i]}
<1>1. s \in Seq(Widget) /\ Len(s) \in Nat /\ DOMAIN s = 1..Len(s)
  BY MembersAre DEF Once
<1> DEFINE a == SubSeq(s, 1, i - 1)
           to == SubSeq(s, 1, i)
           b == SubSeq(s, i + 1, Len(s))
<1>2. Once(a) /\ Len(a) = i - 1 /\ \A j \in 1..(i - 1) : a[j] = s[j]
  <2>1. i - 1 \in 0..Len(s)
    BY <1>1
  <2> QED
    BY <2>1, CutOnce
<1>3. /\ Once(to) /\ Len(to) = i /\ Once(b) /\ Len(b) = Len(s) - i
      /\ ToSet(to) \cup ToSet(b) = ToSet(s) /\ ToSet(to) \cap ToSet(b) = {}
      /\ \A j \in 1..i : to[j] = s[j]
  <2>1. i \in 0..Len(s)
    BY <1>1
  <2> QED
    BY <2>1, CutOnce
<1> HIDE DEF a, to, b
<1>4. a \in Seq(Widget) /\ to \in Seq(Widget)
  BY <1>2, <1>3 DEF Once
<1>5. ToSet(to) = ToSet(a) \cup {s[i]}
  <2>1. ASSUME NEW x \in ToSet(to) PROVE x \in ToSet(a) \cup {s[i]}
    <3>1. PICK j \in 1..i : to[j] = x
      BY <1>3, <1>4, MembersAre
    <3>2. CASE j = i
      BY <1>3, <3>1, <3>2
    <3>3. CASE j # i
      <4>1. j \in 1..(i - 1)
        BY <3>3
      <4>2. a[j] = x
        BY <1>2, <1>3, <3>1, <4>1
      <4> QED
        BY <1>2, <1>4, <4>1, <4>2, MembersAre
    <3> QED
      BY <3>2, <3>3
  <2>2. ASSUME NEW x \in ToSet(a) PROVE x \in ToSet(to)
    <3>1. PICK j \in 1..(i - 1) : a[j] = x
      BY <1>2, <1>4, MembersAre
    <3>2. j \in 1..i
      OBVIOUS
    <3>3. to[j] = x
      BY <1>2, <1>3, <3>1, <3>2
    <3> QED
      BY <1>3, <1>4, <3>2, <3>3, MembersAre
  <2>3. s[i] \in ToSet(to)
    <3>1. i \in 1..i
      OBVIOUS
    <3> QED
      BY <1>3, <1>4, <3>1, MembersAre
  <2> QED
    BY <2>1, <2>2, <2>3
<1>6. s[i] \notin ToSet(a)
  <2> SUFFICES ASSUME s[i] \in ToSet(a) PROVE FALSE
    OBVIOUS
  <2>1. PICK j \in 1..(i - 1) : a[j] = s[i]
    BY <1>2, <1>4, MembersAre
  <2>2. s[j] = s[i] /\ j \in DOMAIN s /\ i \in DOMAIN s
    BY <1>1, <1>2, <2>1
  <2>3. i = j
    BY <2>2 DEF Once, Distinct
  <2> QED
    BY <2>3
<1>7. /\ Once(a \o b) /\ Len(a \o b) = Len(a) + Len(b)
      /\ ToSet(a \o b) = ToSet(a) \cup ToSet(b)
  <2>1. ToSet(a) \cap ToSet(b) = {}
    BY <1>3, <1>5
  <2> QED
    BY <1>2, <1>3, <2>1, JoinOnce
<1>8. RemoveAt(s, i) = a \o b
  BY DEF RemoveAt, a, b
<1>9. ToSet(a) \cup ToSet(b) = ToSet(s) \ {s[i]}
  BY <1>3, <1>5, <1>6
<1>10. Len(a) + Len(b) = Len(s) - 1
  BY <1>1, <1>2, <1>3
<1> QED
  BY <1>7, <1>8, <1>9, <1>10

LEMMA AppendedOnce ==
    ASSUME NEW s, Once(s), NEW x \in Widget, x \notin ToSet(s)
    PROVE  /\ Once(Append(s, x)) /\ Len(Append(s, x)) = Len(s) + 1
           /\ ToSet(Append(s, x)) = ToSet(s) \cup {x}
<1>1. PICK t : t = <<x>>
  OBVIOUS
<1>2. t \in Seq(Widget) /\ Len(t) = 1 /\ DOMAIN t = 1..1 /\ t[1] = x
  BY <1>1
<1>3. Once(t) /\ ToSet(t) = {x}
  <2>1. ToSet(t) = {x}
    BY <1>2 DEF ToSet
  <2> QED
    BY <1>2, <2>1 DEF Once, Distinct
<1>4. Append(s, x) = s \o t
  <2>1. s \in Seq(Widget)
    BY DEF Once
  <2> QED
    BY <1>1, <2>1
<1>5. ToSet(s) \cap ToSet(t) = {}
  BY <1>3
<1> QED
  BY <1>2, <1>3, <1>4, <1>5, JoinOnce

LEMMA DeletedIsTrue ==
    ASSUME LayoutInv, NEW x \in ToSet(view), DeleteMessageById(x)
    PROVE  LayoutInv'
<1>1. TypedLayout /\ Split(view, pool) /\ WidgetsInv
  BY DEF LayoutInv
<1>2. PICK us, v, p, size : us = widget /\ v = view /\ p = pool /\ size = area
  OBVIOUS
<1>3. /\ AllSound(us) /\ InViewTrue(us, v, size[1]) /\ HiddenOutside(us, v)
      /\ size \in Size /\ scroll \in Nat /\ Once(v) /\ Once(p)
      /\ ToSet(v) \cup ToSet(p) = Widget /\ ToSet(v) \cap ToSet(p) = {}
      /\ Len(v) + Len(p) = MaxMessages + ChunkSize /\ Len(v) <= MaxMessages
      /\ x \in ToSet(v) /\ v \in Seq(Widget) /\ p \in Seq(Widget)
  BY <1>1, <1>2 DEF WidgetsInv, TypedLayout, Split, Once
<1>4. PICK i : i = IndexOf(v, x)
  OBVIOUS
<1>5. i \in 1..Len(v) /\ v[i] = x /\ x \in Widget
  BY <1>3, <1>4, IndexOfMember
<1>6. PICK rest, ws, rows : /\ rest = RemoveAt(v, i)
                            /\ ws = [us EXCEPT ![x] = Hide(@)]
                            /\ rows = Total(ws, rest)
  OBVIOUS
<1>7. Once(rest) /\ Len(rest) = Len(v) - 1 /\ ToSet(rest) = ToSet(v) \ {x}
  BY <1>3, <1>5, <1>6, RemovedOnce
<1>8. /\ Once(Append(p, x)) /\ Len(Append(p, x)) = Len(p) + 1
      /\ ToSet(Append(p, x)) = ToSet(p) \cup {x}
  BY <1>3, <1>5, AppendedOnce
<1>9. Split(rest, Append(p, x))
  <2>1. Len(v) \in Nat /\ Len(p) \in Nat /\ MaxMessages \in Nat /\ ChunkSize \in Nat
    BY <1>3, WidgetsAssumption
  <2>2. Len(rest) + Len(Append(p, x)) = MaxMessages + ChunkSize /\ Len(rest) <= MaxMessages
    BY <1>3, <1>7, <1>8, <2>1
  <2>3. /\ ToSet(rest) \cup ToSet(Append(p, x)) = Widget
        /\ ToSet(rest) \cap ToSet(Append(p, x)) = {}
    BY <1>3, <1>5, <1>7, <1>8
  <2> QED
    BY <1>7, <1>8, <2>2, <2>3 DEF Split, Once
<1>10. AllSound(ws) /\ InViewTrue(ws, rest, size[1]) /\ HiddenOutside(ws, rest)
  <2>1. ws = [y \in Widget |-> IF y = x THEN Hide(us[x]) ELSE us[y]]
    BY <1>3, <1>6 DEF AllSound
  <2>2. Sound(ws[x]) /\ ~ws[x].shown
    BY <1>3, <1>5, <2>1, HideIsSound DEF AllSound
  <2>3. ASSUME NEW y \in Widget, y # x PROVE ws[y] = us[y] /\ Sound(ws[y])
    BY <1>3, <2>1, <2>3 DEF AllSound
  <2>4. \A y \in Widget : Sound(ws[y])
    BY <2>2, <2>3
  <2>5. AllSound(ws)
    BY <2>1, <2>4 DEF AllSound, Sound
  <2>6. ASSUME NEW y \in ToSet(rest)
        PROVE  ws[y].text \in Text /\ ws[y].label \in Labels(ws[y].text, size[1])
    <3>1. y \in Widget /\ y # x /\ y \in ToSet(v)
      BY <1>3, <1>7
    <3> QED
      BY <1>3, <2>3, <3>1 DEF InViewTrue
  <2>7. ASSUME NEW y \in Widget \ ToSet(rest) PROVE ~ws[y].shown
    BY <1>3, <1>7, <2>2, <2>3 DEF HiddenOutside
  <2> QED
    BY <2>5, <2>6, <2>7 DEF InViewTrue, HiddenOutside
<1>11. rows \in Nat
  BY <1>6, <1>7, <1>10, SoundIsMeasured DEF Once
<1>12. PICK row : row = ScrollToRow(rows, area[2], scroll, scroll)
  OBVIOUS
<1>13. row \in Nat
  <2>1. PICK current : current = scroll
    OBVIOUS
  <2>2. current \in Nat /\ current \in Int /\ size[2] \in Nat
    BY <1>3, <2>1, SizesAre
  <2>3. row = ScrollToRow(rows, size[2], current, current)
    BY <1>2, <1>12, <2>1
  <2> QED
    BY <1>11, <2>2, <2>3, RowsAreNumbers
<1>14. LayOut(ws, rest, row, rows, size) /\ pool' = Append(p, x) /\ stale' = stale
  BY <1>2, <1>4, <1>6, <1>12 DEF DeleteMessageById
<1>15. asked' \in Nat /\ loadingOlder' \in BOOLEAN /\ loadingNewer' \in BOOLEAN
  BY <1>1 DEF DeleteMessageById, loading, TypedLayout
<1>16. view # <<>>
  BY DEF ToSet
<1>17. Split(rest, pool')
  BY <1>9, <1>14
<1> QED
  BY <1>10, <1>11, <1>13, <1>14, <1>15, <1>16, <1>17, <1>3, LaidOutIsTrue

\* The messages of a user are updated, and laid out where they are.
LEMMA RenamedIsTrue ==
    ASSUME LayoutInv, NEW xs \in SUBSET ToSet(view), UpdateUsername(xs)
    PROVE  LayoutInv'
<1>1. TypedLayout /\ Split(view, pool) /\ WidgetsInv
  BY DEF LayoutInv
<1>2. PICK us, v, row, rows, size :
         us = widget /\ v = view /\ row = scroll /\ rows = units /\ size = area
  OBVIOUS
<1>3. /\ AllSound(us) /\ InViewTrue(us, v, size[1]) /\ HiddenOutside(us, v)
      /\ size \in Size /\ row \in Nat /\ rows \in Nat /\ v \in Seq(Widget)
  BY <1>1, <1>2 DEF WidgetsInv, TypedLayout, Split
<1>4. xs \subseteq ToSet(v) /\ ToSet(v) \subseteq Widget
  BY <1>2, <1>3, MembersAre
<1>5. PICK ws : ws = [x \in Widget |-> IF x \in xs THEN Update(us[x], us[x].text, size[1]) ELSE us[x]]
  OBVIOUS
<1>6. ASSUME NEW x \in xs
      PROVE  /\ Sound(ws[x]) /\ ws[x].text \in Text
             /\ ws[x].label \in Labels(ws[x].text, size[1])
  <2>1. Sound(us[x]) /\ us[x].text \in Text /\ ws[x] = Update(us[x], us[x].text, size[1])
    BY <1>3, <1>4, <1>5 DEF AllSound, InViewTrue
  <2> QED
    BY <2>1, UpdateIsSound
<1>7. ASSUME NEW x \in Widget \ xs PROVE Sound(ws[x]) /\ ws[x] = us[x]
  BY <1>3, <1>5 DEF AllSound
<1>8. AllSound(ws)
  BY <1>5, <1>6, <1>7 DEF AllSound, Sound
<1>9. InViewTrue(ws, v, size[1])
  BY <1>3, <1>4, <1>6, <1>7 DEF InViewTrue
<1>10. HiddenOutside(ws, v)
  BY <1>3, <1>4, <1>7 DEF HiddenOutside
<1>11. LayOut(ws, v, row, rows, size) /\ pool' = pool /\ stale' = stale
  BY <1>2, <1>5 DEF UpdateUsername
<1>12. asked' \in Nat /\ loadingOlder' \in BOOLEAN /\ loadingNewer' \in BOOLEAN
  BY <1>1 DEF UpdateUsername, loading, TypedLayout
<1>13. Split(v, pool')
  BY <1>1, <1>2, <1>11
<1>14. view = <<>> /\ loadingOlder => IsSnappedToBottom(v, row, rows, size[2])
  BY <1>2 DEF IsSnappedToBottom
<1> QED
  BY <1>3, <1>8, <1>9, <1>10, <1>11, <1>12, <1>13, <1>14, LaidOutIsTrue

\* What is drawn of a widget changes, and nothing else.
LEMMA RedrawnIsTrue ==
    ASSUME LayoutInv, UNCHANGED <<view, pool, scroll, units, area, loading, lastSnap, button, stale>>,
           NEW ws, widget' = ws, ws = [x \in Widget |-> ws[x]],
           \A x \in Widget : ws[x] \in {widget[x], OnPaint(widget[x]), OnMouseEnter(widget[x]),
                                        OnMouseLeave(widget[x]), InvalidateCache(widget[x])}
    PROVE  LayoutInv'
<1>1. TypedLayout /\ Split(view, pool) /\ WidgetsInv /\ ButtonInv
  BY DEF LayoutInv
<1>2. PICK us, v, row, size : us = widget /\ v = view /\ row = scroll /\ size = area
  OBVIOUS
<1>3. /\ AllSound(us) /\ InViewTrue(us, v, size[1]) /\ HiddenOutside(us, v)
      /\ InPlace(us, v, row, size) /\ v \in Seq(Widget) /\ ToSet(v) \subseteq Widget
  <2>1. /\ AllSound(us) /\ InViewTrue(us, v, size[1]) /\ HiddenOutside(us, v)
        /\ InPlace(us, v, row, size) /\ v \in Seq(Widget)
    BY <1>1, <1>2 DEF WidgetsInv, Split
  <2> QED
    BY <2>1, MembersAre
<1>4. ASSUME NEW x \in Widget
      PROVE  /\ Sound(ws[x]) /\ SameText(us[x], ws[x]) /\ ws[x].shown = us[x].shown
             /\ ws[x].y = us[x].y /\ ws[x].size = us[x].size
             /\ Height(ws[x]) = Height(us[x])
  <2>1. PICK w, u : w = us[x] /\ u = ws[x]
    OBVIOUS
  <2>2. Sound(w) /\ u \in {w, OnPaint(w), OnMouseEnter(w), OnMouseLeave(w), InvalidateCache(w)}
    BY <1>2, <1>3, <2>1 DEF AllSound
  <2>3. /\ Sound(u) /\ SameText(w, u) /\ u.shown = w.shown /\ u.y = w.y /\ u.size = w.size
    BY <2>2, TouchIsSound DEF SameText
  <2>4. Height(u) = Height(w)
    BY <2>2, <2>3, HeightIs DEF SameText
  <2> QED
    BY <2>1, <2>3, <2>4
<1>5. AllSound(ws)
  BY <1>4 DEF AllSound, Sound
<1>6. InViewTrue(ws, v, size[1])
  BY <1>3, <1>4 DEF InViewTrue, SameText
<1>7. HiddenOutside(ws, v)
  BY <1>3, <1>4 DEF HiddenOutside
<1>8. InPlace(ws, v, row, size)
  <2> SUFFICES ASSUME NEW x \in ToSet(v),
                      Top(ws, v, x) < row + size[2], Top(ws, v, x) + Height(ws[x]) > row
               PROVE  /\ ws[x].shown /\ ws[x].y = Top(ws, v, x) - row
                      /\ ws[x].size = <<size[1], Height(ws[x])>>
    BY DEF InPlace
  <2>1. x \in Widget /\ \A y \in ToSet(v) : Height(ws[y]) = Height(us[y])
    BY <1>3, <1>4
  <2>2. Top(ws, v, x) = Top(us, v, x)
    BY <1>3, <2>1, TopsAreEqual
  <2>3. /\ us[x].shown /\ us[x].y = Top(us, v, x) - row
        /\ us[x].size = <<size[1], Height(us[x])>>
    BY <1>3, <2>1, <2>2 DEF InPlace
  <2> QED
    BY <1>4, <2>1, <2>2, <2>3
<1>9. view' = v /\ scroll' = row /\ area' = size
  BY <1>2
<1>10. WidgetsInv'
  BY <1>5, <1>6, <1>7, <1>8, <1>9 DEF WidgetsInv
<1>11. TypedLayout'
  BY <1>1 DEF TypedLayout, loading
<1>12. Split(view, pool)'
  BY <1>1
<1>13. ButtonInv'
  BY <1>1 DEF ButtonInv, loading
<1> QED
  BY <1>10, <1>11, <1>12, <1>13 DEF LayoutInv

LEMMA TouchedIsTrue ==
    ASSUME LayoutInv, NEW x \in ToSet(view), Touch(x)
    PROVE  LayoutInv'
<1>1. PICK u : /\ u \in {OnPaint(widget[x]), OnMouseEnter(widget[x]), OnMouseLeave(widget[x])}
               /\ widget' = [widget EXCEPT ![x] = u]
  BY DEF Touch
<1>2. UNCHANGED <<view, pool, scroll, units, area, loading, lastSnap, button, stale>>
  BY DEF Touch
<1>3. PICK us, ws : us = widget /\ ws = [us EXCEPT ![x] = u]
  OBVIOUS
<1>4. us \in [Widget -> WidgetState] /\ widget' = ws
  BY <1>1, <1>3 DEF LayoutInv, WidgetsInv, AllSound
<1>5. ws = [y \in Widget |-> ws[y]] /\ \A y \in Widget : ws[y] = IF y = x THEN u ELSE us[y]
  BY <1>3, <1>4
<1>6. ASSUME NEW y \in Widget
      PROVE  ws[y] \in {widget[y], OnPaint(widget[y]), OnMouseEnter(widget[y]),
                        OnMouseLeave(widget[y]), InvalidateCache(widget[y])}
  BY <1>1, <1>3, <1>5
<1> QED
  BY <1>2, <1>4, <1>5, <1>6, RedrawnIsTrue

LEMMA InvalidatedIsTrue ==
    ASSUME LayoutInv, InvalidateCaches
    PROVE  LayoutInv'
<1>1. PICK ws : ws = [x \in Widget |-> IF x \in ToSet(view) /\ widget[x].shown
                                       THEN InvalidateCache(widget[x]) ELSE widget[x]]
  OBVIOUS
<1>2. widget' = ws /\ UNCHANGED <<view, pool, scroll, units, area, loading, lastSnap, button, stale>>
  BY <1>1 DEF InvalidateCaches
<1>3. ws = [x \in Widget |-> ws[x]]
  BY <1>1
<1>4. ASSUME NEW x \in Widget
      PROVE  ws[x] \in {widget[x], OnPaint(widget[x]), OnMouseEnter(widget[x]),
                        OnMouseLeave(widget[x]), InvalidateCache(widget[x])}
  BY <1>1
<1> QED
  BY <1>2, <1>3, <1>4, RedrawnIsTrue

LEMMA BatchesAreOfTexts ==
    ASSUME NEW n \in Nat, NEW batch \in Batch(n)
    PROVE  batch \in Seq(Text) /\ Len(batch) <= n
BY DEF Batch

\* Every step keeps the invariant.
LEMMA NextIsTrue == LayoutInv /\ [Next]_vars => LayoutInv'
<1> SUFFICES ASSUME LayoutInv, [Next]_vars PROVE LayoutInv'
  OBVIOUS
<1>1. ChunkSize \in Nat \ {0}
  BY WidgetsAssumption
<1>2. CASE \E batch \in Batch(ChunkSize) : OnMessagesReceived(batch, TRUE)
  <2>1. PICK batch \in Batch(ChunkSize) : OnMessagesReceived(batch, TRUE)
    BY <1>2
  <2>2. batch \in Seq(Text) /\ Len(batch) <= ChunkSize
    BY <1>1, BatchesAreOfTexts
  <2> QED
    BY <2>1, <2>2, ReceivedIsTrue
<1>3. CASE \E text \in Text : OnMessagesReceived(<<text>>, FALSE)
  <2>1. PICK text \in Text : OnMessagesReceived(<<text>>, FALSE)
    BY <1>3
  <2>2. <<text>> \in Seq(Text) /\ Len(<<text>>) <= ChunkSize
    BY <1>1
  <2> QED
    BY <2>1, <2>2, ReceivedIsTrue
<1>4. CASE JumpToPresent \/ ResetState
  BY <1>4, StartIsTrue
<1>5. CASE InvalidateCaches
  BY <1>5, InvalidatedIsTrue
<1>6. CASE \E by \in {-WheelStep, WheelStep} : OnMouseWheel(by)
  <2>1. -WheelStep \in Int /\ WheelStep \in Int
    BY PixelsAssumption
  <2> QED
    BY <1>6, <2>1, ScrolledIsTrue
<1>7. CASE \E size \in Size : DoSetSize(size)
  BY <1>7, ResizedIsTrue
<1>8. CASE \E x \in ToSet(view) : DeleteMessageById(x)
  BY <1>8, DeletedIsTrue
<1>9. CASE \E x \in ToSet(view) : Touch(x)
  BY <1>9, TouchedIsTrue
<1>10. CASE UNCHANGED vars
  <2>1. TypedLayout' /\ Split(view, pool)' /\ WidgetsInv' /\ ButtonInv'
    BY <1>10 DEF vars, LayoutInv, TypedLayout, WidgetsInv, ButtonInv
  <2> QED
    BY <2>1 DEF LayoutInv
<1>11. CASE \E xs \in SUBSET ToSet(view) : UpdateUsername(xs)
  BY <1>11, RenamedIsTrue
<1> QED
  BY <1>2, <1>3, <1>4, <1>5, <1>6, <1>7, <1>8, <1>9, <1>10, <1>11 DEF Next

(***************************************************************************)
(* The invariant holds, whatever the messages, the window and its margins. *)
(***************************************************************************)
THEOREM LayoutIsTrue == Spec => []LayoutInv
<1>1. Init => LayoutInv
  BY InitIsTrue
<1>2. LayoutInv /\ [Next]_vars => LayoutInv'
  BY NextIsTrue
<1> QED
  BY <1>1, <1>2, PTL DEF Spec

(***************************************************************************)
(* What is seen is true: a widget that was taken from the pool, renamed,   *)
(* rewrapped, lit, resized, hidden and shown again draws its own text, its *)
(* ampersands once or twice, wrapped at the width of the view and where it *)
(* belongs, and no widget is lost or used twice.                           *)
(***************************************************************************)
THEOREM SeenIsTrue == Spec => []WhatIsSeenIsTrue
<1>1. LayoutInv => WhatIsSeenIsTrue
  <2> SUFFICES ASSUME LayoutInv PROVE WhatIsSeenIsTrue
    OBVIOUS
  <2>1. PICK us, v, p, row, size :
           us = widget /\ v = view /\ p = pool /\ row = scroll /\ size = area
    OBVIOUS
  <2>2. /\ AllSound(us) /\ InViewTrue(us, v, size[1]) /\ HiddenOutside(us, v)
        /\ InPlace(us, v, row, size) /\ Split(v, p)
    BY <2>1 DEF LayoutInv, WidgetsInv
  <2>3. /\ Once(v) /\ Once(p) /\ ToSet(v) \cup ToSet(p) = Widget /\ ToSet(v) \cap ToSet(p) = {}
        /\ Len(v) + Len(p) = MaxMessages + ChunkSize
    BY <2>2 DEF Split, Once
  <2>4. ToSet(v \o p) = Widget /\ Len(v \o p) = Cardinality(Widget)
    <3>1. Len(v \o p) = Len(v) + Len(p) /\ ToSet(v \o p) = ToSet(v) \cup ToSet(p)
      BY <2>3, JoinOnce
    <3> QED
      BY <2>3, <3>1, WidgetsAssumption
  <2>5. \A x \in ToSet(p) : ~us[x].shown
    BY <2>2, <2>3 DEF HiddenOutside
  <2>6. ASSUME NEW x \in ToSet(v)
        PROVE  /\ us[x].label \in Labels(us[x].text, size[1])
               /\ us[x].lines \in {Nothing, LineCount(us[x].label)}
               /\ Len(Lines(us[x].label)) + HeaderHeight <= Height(us[x])
               /\ us[x].bitmap \in {Nothing, Drawing(us[x])}
               /\ Top(us, v, x) < row + size[2] /\ Top(us, v, x) + Height(us[x]) > row =>
                     us[x].shown /\ us[x].y = Top(us, v, x) - row /\ us[x].size = <<size[1], Height(us[x])>>
    <3>1. x \in Widget /\ Sound(us[x])
      BY <2>2, <2>3 DEF AllSound
    <3>2. us[x].lines \in {Nothing, LineCount(us[x].label)} /\ us[x].bitmap \in {Nothing, Drawing(us[x])}
      BY <3>1 DEF Sound, CachesAreTrue
    <3>3. Len(Lines(us[x].label)) + HeaderHeight <= Height(us[x])
      BY <3>1, HeightIs
    <3>4. us[x].label \in Labels(us[x].text, size[1])
      BY <2>2 DEF InViewTrue
    <3> QED
      BY <2>2, <3>2, <3>3, <3>4 DEF InPlace
  <2> QED
    BY <2>1, <2>4, <2>5, <2>6 DEF WhatIsSeenIsTrue, Drawing
<1> QED
  BY <1>1, LayoutIsTrue, PTL

(***************************************************************************)
(* The button is shown only when the end is out of sight, and then always, *)
(* but after an empty page for a view that was cleared away from its end.  *)
(***************************************************************************)
THEOREM ButtonIsTrue == Spec => []ButtonShowsTheWay
<1>1. LayoutInv => ButtonShowsTheWay
  <2> SUFFICES ASSUME LayoutInv, view # <<>>
               PROVE  /\ button => ~IsSnappedToBottom(view, scroll, units, area[2])
                      /\ ~IsSnappedToBottom(view, scroll, units, area[2]) => button \/ stale
    BY DEF ButtonShowsTheWay
  <2>1. /\ lastSnap = IsSnappedToBottom(view, scroll, units, area[2])
        /\ button => ~lastSnap
        /\ ~stale => button = ~lastSnap
    BY DEF LayoutInv, ButtonInv
  <2>2. lastSnap \in BOOLEAN /\ button \in BOOLEAN /\ stale \in BOOLEAN
    BY DEF LayoutInv, TypedLayout
  <2> QED
    BY <2>1, <2>2
<1> QED
  BY <1>1, LayoutIsTrue, PTL

-----------------------------------------------------------------------------
(* Where a widget is when others come.                                     *)

\* all begins with kept.
Begins(all, kept) == Len(kept) <= Len(all) /\ \A i \in 1..Len(kept) : kept[i] = all[i]

\* What is below a widget is of no matter to where it is.
LEMMA TopInPrefix ==
    ASSUME NEW ws, NEW all, Once(all), NEW kept, Once(kept), Begins(all, kept),
           NEW x \in ToSet(kept)
    PROVE  Top(ws, kept, x) = Top(ws, all, x)
<1>1. all \in Seq(Widget) /\ Len(all) \in Nat /\ kept \in Seq(Widget) /\ Len(kept) \in Nat
  BY DEF Once
<1>2. PICK i : i \in 1..Len(kept) /\ kept[i] = x
  BY <1>1, MembersAre
<1>3. i \in 1..Len(all) /\ all[i] = x
  BY <1>1, <1>2 DEF Begins
<1>4. x \in ToSet(all)
  BY <1>1, <1>3, MembersAre
<1>5. IndexOf(kept, x) = i /\ IndexOf(all, x) = i
  BY <1>1, <1>2, <1>3, <1>4, IndexOfMember DEF Once
<1> DEFINE a == SubSeq(kept, 1, i - 1)
           b == SubSeq(all, 1, i - 1)
<1>6. i - 1 \in 0..Len(kept) /\ i - 1 \in 0..Len(all)
  BY <1>1, <1>2, <1>3
<1>7. Len(a) = i - 1 /\ Len(b) = i - 1 /\ \A j \in 1..(i - 1) : a[j] = kept[j] /\ b[j] = all[j]
  BY <1>1, <1>6, Above
<1> HIDE DEF a, b
<1>8. Len(a) \in Nat /\ Len(b) = Len(a) /\ \A j \in 1..Len(a) : Height(ws[a[j]]) = Height(ws[b[j]])
  <2>1. ASSUME NEW j \in 1..(i - 1) PROVE a[j] = b[j]
    <3>1. j \in 1..Len(kept)
      BY <1>1, <1>2
    <3> QED
      BY <1>7, <3>1 DEF Begins
  <2>2. i - 1 \in Nat
    BY <1>2
  <2> QED
    BY <1>7, <2>1, <2>2
<1>9. Total(ws, a) = Total(ws, b)
  BY <1>8, EqualTotals
<1> QED
  BY <1>5, <1>9 DEF Top, a, b

\* What is above moves it down.
LEMMA TopBelow ==
    ASSUME NEW ws, AllSound(ws), NEW s, Once(s), NEW t, Once(t), ToSet(s) \cap ToSet(t) = {},
           NEW x \in ToSet(t)
    PROVE  Top(ws, s \o t, x) = Total(ws, s) + Top(ws, t, x)
<1>1. s \in Seq(Widget) /\ t \in Seq(Widget) /\ Len(s) \in Nat /\ Len(t) \in Nat
  BY DEF Once
<1> DEFINE v == s \o t
<1>2. /\ Once(v) /\ Len(v) = Len(s) + Len(t) /\ ToSet(v) = ToSet(s) \cup ToSet(t)
      /\ \A i \in 1..Len(s) + Len(t) : v[i] = IF i <= Len(s) THEN s[i] ELSE t[i - Len(s)]
  BY <1>1, JoinOnce, ConcatProperties
<1> HIDE DEF v
<1>3. v \in Seq(Widget) /\ x \in ToSet(v)
  BY <1>2 DEF Once
<1>4. PICK j \in 1..Len(t) : t[j] = x
  BY <1>1, MembersAre
<1>5. PICK k : k = Len(s) + j
  OBVIOUS
<1>6. k \in 1..Len(v) /\ ~(k <= Len(s)) /\ k - Len(s) = j /\ k - 1 = Len(s) + (j - 1)
  <2>1. j \in Nat /\ j >= 1 /\ j <= Len(t) /\ Len(s) \in Nat /\ Len(v) = Len(s) + Len(t)
    BY <1>1, <1>2
  <2>2. Len(t) \in Nat
    BY <1>1
  <2> QED
    BY <1>5, <2>1, <2>2
<1>7. v[k] = x
  BY <1>1, <1>2, <1>4, <1>6
<1>8. IndexOf(v, x) = k /\ IndexOf(t, x) = j
  BY <1>1, <1>2, <1>3, <1>4, <1>6, <1>7, IndexOfMember DEF Once
<1> DEFINE a == SubSeq(v, 1, k - 1)
           b == SubSeq(t, 1, j - 1)
           c == s \o b
<1>9. k - 1 \in 0..Len(v) /\ j - 1 \in 0..Len(t)
  BY <1>1, <1>6
<1>10. Len(a) = k - 1 /\ \A i \in 1..(k - 1) : a[i] = v[i]
  BY <1>3, <1>9, Above
<1>11. b \in Seq(Widget) /\ Len(b) = j - 1 /\ \A i \in 1..(j - 1) : b[i] = t[i]
  BY <1>1, <1>9, Above
<1> HIDE DEF a, b
<1>12. /\ Len(c) = Len(s) + Len(b)
       /\ \A i \in 1..Len(s) + Len(b) : c[i] = IF i <= Len(s) THEN s[i] ELSE b[i - Len(s)]
  BY <1>1, <1>11, ConcatProperties
<1> HIDE DEF c
<1>13. Len(c) = k - 1 /\ Len(a) = k - 1 /\ k - 1 \in Nat
  BY <1>1, <1>6, <1>9, <1>10, <1>11, <1>12
<1>14. ASSUME NEW i \in 1..(k - 1) PROVE a[i] = c[i]
  <2>1. i \in 1..Len(s) + Len(t) /\ i \in 1..Len(s) + Len(b) /\ i \in Nat
    BY <1>1, <1>2, <1>6, <1>11
  <2>2. CASE i <= Len(s)
    <3>1. v[i] = s[i] /\ c[i] = s[i]
      BY <1>2, <1>12, <2>1, <2>2
    <3> QED
      BY <1>10, <3>1
  <2>3. CASE ~(i <= Len(s))
    <3>1. v[i] = t[i - Len(s)] /\ c[i] = b[i - Len(s)]
      BY <1>2, <1>12, <2>1, <2>3
    <3>2. i - Len(s) \in 1..(j - 1)
      BY <1>1, <1>6, <2>1, <2>3
    <3>3. b[i - Len(s)] = t[i - Len(s)]
      BY <1>11, <3>2
    <3> QED
      BY <1>10, <3>1, <3>3
  <2> QED
    BY <2>2, <2>3
<1>15. Total(ws, a) = Total(ws, c)
  <2>1. Len(a) \in Nat /\ Len(c) = Len(a) /\ \A i \in 1..Len(a) : Height(ws[a[i]]) = Height(ws[c[i]])
    BY <1>13, <1>14
  <2> QED
    BY <2>1, EqualTotals
<1>16. Total(ws, c) = Total(ws, s) + Total(ws, b)
  <2>1. Measured(ws, s) /\ Measured(ws, b)
    BY <1>1, <1>11, SoundIsMeasured
  <2> QED
    BY <1>1, <1>11, <2>1, TotalOfConcat DEF c
<1> QED
  BY <1>8, <1>15, <1>16 DEF Top, a, b, v

LEMMA TopAbove ==
    ASSUME NEW ws, NEW s, Once(s), NEW t, Once(t), ToSet(s) \cap ToSet(t) = {}, NEW x \in ToSet(s)
    PROVE  Top(ws, s \o t, x) = Top(ws, s, x)
<1>1. s \in Seq(Widget) /\ t \in Seq(Widget) /\ Len(s) \in Nat /\ Len(t) \in Nat
  BY DEF Once
<1> DEFINE v == s \o t
<1>2. /\ Once(v) /\ Len(v) = Len(s) + Len(t)
      /\ \A i \in 1..Len(s) + Len(t) : v[i] = IF i <= Len(s) THEN s[i] ELSE t[i - Len(s)]
  BY <1>1, JoinOnce, ConcatProperties
<1> HIDE DEF v
<1>3. Begins(v, s)
  BY <1>1, <1>2 DEF Begins
<1> QED
  BY <1>2, <1>3, TopInPrefix DEF v

\* A sequence is cut after its n-th element.
Parts(s, n, a, b) ==
    n \in 0..Len(s) /\ a = SubSeq(s, 1, n) /\ b = SubSeq(s, n + 1, Len(s))

LEMMA PartsAre ==
    ASSUME NEW s, Once(s), NEW n, NEW a, NEW b, Parts(s, n, a, b)
    PROVE  /\ Once(a) /\ Len(a) = n /\ n \in Nat /\ Once(b) /\ Begins(s, a) /\ a \o b = s
           /\ ToSet(a) \cup ToSet(b) = ToSet(s) /\ ToSet(a) \cap ToSet(b) = {}
<1>1. s \in Seq(Widget) /\ Len(s) \in Nat /\ n \in 0..Len(s)
  BY DEF Once, Parts
<1>2. /\ Once(a) /\ Len(a) = n /\ Once(b) /\ \A i \in 1..n : a[i] = s[i]
      /\ ToSet(a) \cup ToSet(b) = ToSet(s) /\ ToSet(a) \cap ToSet(b) = {}
  BY CutOnce DEF Parts
<1>3. a \o b = s
  <2>1. PICK k : k = Len(s)
    OBVIOUS
  <2>2. 1 \in 1..Len(s) + 1 /\ n \in (1 - 1)..Len(s) /\ k \in n..Len(s)
    BY <1>1, <2>1
  <2>3. SubSeq(s, 1, n) \o SubSeq(s, n + 1, k) = SubSeq(s, 1, k)
    BY <1>1, <2>2, ConcatAdjacentSubSeq
  <2>4. SubSeq(s, 1, k) = s
    BY <1>1, <2>1, SubSeqFull
  <2> QED
    BY <2>1, <2>3, <2>4 DEF Parts
<1>4. Begins(s, a) /\ n \in Nat
  BY <1>1, <1>2 DEF Begins
<1> QED
  BY <1>2, <1>3, <1>4

Joined(all, v, taken) ==
    Once(all) /\ all = v \o taken /\ Once(v) /\ Once(taken) /\ ToSet(taken) \cap ToSet(v) = {}

SameHeights(us, ws, v) ==
    AllSound(us) /\ AllSound(ws) /\ \A x \in ToSet(v) : Height(ws[x]) = Height(us[x])

\* When n widgets are taken away above, those below move up by their heights.
LEMMA TopsAfterTrim ==
    ASSUME NEW all, NEW v, NEW taken, Joined(all, v, taken),
           NEW us, NEW ws, SameHeights(us, ws, v),
           NEW n, NEW above, NEW kept, Parts(all, n, above, kept),
           NEW x, x \in ToSet(v), x \in ToSet(kept)
    PROVE  /\ n < Len(v) /\ n \in 0..Len(v)
           /\ Top(ws, kept, x) = Top(us, v, x) - Total(us, SubSeq(v, 1, n))
           /\ Top(us, v, x) \in Nat
<1>1. /\ Once(above) /\ Len(above) = n /\ n \in Nat /\ Once(kept) /\ Begins(all, above)
      /\ above \o kept = all /\ ToSet(above) \cap ToSet(kept) = {}
  <2>1. Once(all)
    BY DEF Joined
  <2> QED
    BY <2>1, PartsAre
<1>2. /\ v \in Seq(Widget) /\ Len(v) \in Nat /\ above \in Seq(Widget) /\ kept \in Seq(Widget)
      /\ taken \in Seq(Widget)
  BY <1>1 DEF Once, Joined
<1>3. Begins(all, v)
  BY <1>2, ConcatProperties DEF Begins, Joined
<1>4. PICK i : i \in 1..Len(v) /\ v[i] = x
  BY <1>2, MembersAre
<1>5. n < i
  <2> SUFFICES ASSUME ~(n < i) PROVE FALSE
    OBVIOUS
  <2>1. i \in 1..n /\ i \in 1..Len(above)
    BY <1>1, <1>4
  <2>2. above[i] = x
    BY <1>1, <1>3, <1>4, <2>1 DEF Begins
  <2>3. x \in ToSet(above)
    BY <1>2, <2>1, <2>2, MembersAre
  <2> QED
    BY <1>1, <2>3
<1>6. n < Len(v) /\ n \in 0..Len(v)
  BY <1>1, <1>2, <1>4, <1>5
<1>7. PICK cut : cut = SubSeq(v, 1, n)
  OBVIOUS
<1>8. Len(cut) = n /\ \A j \in 1..n : cut[j] = v[j] /\ v[j] \in ToSet(v)
  BY <1>2, <1>6, <1>7, Above
<1>9. Total(us, cut) = Total(ws, above)
  <2>1. ASSUME NEW j \in 1..n PROVE Height(us[cut[j]]) = Height(ws[above[j]])
    <3>1. j \in 1..Len(v) /\ j \in 1..Len(above)
      BY <1>1, <1>2, <1>6
    <3>2. above[j] = v[j]
      BY <1>1, <1>3, <3>1 DEF Begins
    <3>3. cut[j] = v[j] /\ v[j] \in ToSet(v)
      BY <1>8
    <3>4. PICK y : y = v[j]
      OBVIOUS
    <3> QED
      BY <3>2, <3>3, <3>4 DEF SameHeights
  <2>2. Len(cut) \in Nat /\ Len(above) = Len(cut)
    BY <1>1, <1>8
  <2>3. \A j \in 1..Len(cut) : Height(us[cut[j]]) = Height(ws[above[j]])
    BY <1>8, <2>1
  <2> QED
    BY <2>2, <2>3, EqualTotals
<1>10. Top(ws, all, x) = Total(ws, above) + Top(ws, kept, x)
  <2>1. AllSound(ws) /\ Once(above) /\ Once(kept) /\ ToSet(above) \cap ToSet(kept) = {}
    BY <1>1 DEF SameHeights
  <2>2. Top(ws, above \o kept, x) = Total(ws, above) + Top(ws, kept, x)
    BY <2>1, TopBelow, Zenon
  <2> QED
    BY <1>1, <2>2
<1>11. Top(ws, all, x) = Top(ws, v, x)
  BY TopAbove DEF Joined
<1>12. Top(ws, v, x) = Top(us, v, x) /\ Top(us, v, x) \in Nat
  BY <1>2, TopsAreEqual, TopIsNumber DEF SameHeights
<1>13. Top(ws, kept, x) \in Nat /\ Total(ws, above) \in Nat
  BY <1>2, TopIsNumber, SoundIsMeasured DEF SameHeights
<1> QED
  BY <1>6, <1>7, <1>9, <1>10, <1>11, <1>12, <1>13

\* After LayOut the widgets are where their heights put them.
LEMMA LaidOutTops ==
    ASSUME TypedLayout, NEW ws, AllSound(ws), NEW v \in Seq(Widget), NEW row \in Nat,
           NEW rows \in Nat, InViewTrue(ws, v, area[1]), HiddenOutside(ws, v),
           LayOut(ws, v, row, rows, area)
    PROVE  /\ view' = v /\ scroll' = row /\ units' = rows
           /\ \A x \in ToSet(v) : OnScreen(x)' = Top(ws, v, x) - row
<1>1. PICK size, us : size = area /\ us = widget'
  OBVIOUS
<1>2. size \in Size /\ lastSnap \in BOOLEAN /\ button \in BOOLEAN
  BY <1>1 DEF TypedLayout
<1>3. /\ view' = v /\ scroll' = row /\ units' = rows
      /\ \A x \in Widget : Height(widget'[x]) = Height(ws[x])
  BY <1>1, <1>2, LayOutIsTrue
<1>4. ASSUME NEW x \in ToSet(v) PROVE OnScreen(x)' = Top(ws, v, x) - row
  <2>1. \A y \in ToSet(v) : Height(us[y]) = Height(ws[y])
    BY <1>1, <1>3, MembersAre
  <2>2. Top(us, v, x) = Top(ws, v, x)
    BY <2>1, TopsAreEqual
  <2>3. Top(widget, view, x)' = Top(us, v, x)
    BY <1>1, <1>3
  <2> QED
    BY <1>3, <2>2, <2>3 DEF OnScreen
<1> QED
  BY <1>3, <1>4

LEMMA PrependAnchors ==
    ASSUME LayoutInv, NEW batch \in Seq(Text), batch # <<>>, Len(batch) <= ChunkSize,
           Prepend(batch), view # <<>>
    PROVE  \/ scroll' \in {0, LastRow(units', area[2])}
           \/ \A x \in ToSet(view) \cap ToSet(view') : OnScreen(x)' = OnScreen(x)
<1>1. TypedLayout /\ Split(view, pool) /\ WidgetsInv
  BY DEF LayoutInv
<1>2. PICK taken, all, kept, ws, row, rows : Prepended(batch, taken, all, kept, ws, row, rows)
  BY <1>1, PrependIs
<1>3. PICK v, us, height, r : v = view /\ us = widget /\ height = area[2] /\ r = Reverse(taken)
  OBVIOUS
<1>4. /\ Once(taken) /\ Once(all) /\ Once(v) /\ all = r \o v
      /\ ToSet(taken) \cap ToSet(v) = {}
      /\ AllSound(ws) /\ InViewTrue(ws, kept, area[1]) /\ HiddenOutside(ws, kept)
      /\ \A x \in ToSet(v) : Height(ws[x]) = Height(us[x])
      /\ Split(kept, pool') /\ rows \in Nat /\ row \in Nat /\ LayOut(ws, kept, row, rows, area)
      /\ AllSound(us)
  BY <1>1, <1>2, <1>3 DEF Prepended, Arrived, Split, Once, WidgetsInv
<1>5. /\ row = ScrollToRow(rows, height, scroll + Total(ws, taken), scroll)
      /\ rows # 0
  BY <1>2, <1>3 DEF Prepended
<1>6. Once(kept) /\ Begins(all, kept)
  <2>1. PICK n \in 0..Len(all) : kept = SubSeq(all, 1, n)
    BY <1>2 DEF Prepended
  <2> QED
    <3>1. PICK b : Parts(all, n, kept, b)
      BY <2>1 DEF Parts
    <3> QED
      BY <1>4, <3>1, PartsAre
<1>7. /\ view' = kept /\ scroll' = row /\ units' = rows
      /\ \A x \in ToSet(kept) : OnScreen(x)' = Top(ws, kept, x) - row
  BY <1>1, <1>4, <1>6, LaidOutTops DEF Once
<1>8. CASE row = LastRow(rows, height)
  BY <1>3, <1>7, <1>8
<1>9. CASE row = scroll + Total(ws, taken)
  <2> SUFFICES ASSUME NEW x \in ToSet(v) \cap ToSet(kept)
               PROVE  OnScreen(x)' = Top(us, v, x) - scroll
    BY <1>3, <1>7 DEF OnScreen
  <2>1. Top(ws, kept, x) = Top(ws, all, x)
    BY <1>4, <1>6, TopInPrefix
  <2>2. Once(r) /\ ToSet(r) = ToSet(taken) /\ Total(ws, r) = Total(ws, taken) /\ Total(ws, taken) \in Nat
    <3>1. taken \in Seq(Widget)
      BY <1>4 DEF Once
    <3>2. Measured(ws, taken) /\ Total(ws, taken) \in Nat
      BY <1>4, <3>1, SoundIsMeasured
    <3> QED
      BY <1>3, <1>4, <3>1, <3>2, ReverseOnce, TotalOfReverse
  <2>3. Top(ws, all, x) = Total(ws, r) + Top(ws, v, x)
    BY <1>4, <2>2, TopBelow
  <2>4. Top(ws, v, x) = Top(us, v, x) /\ Top(us, v, x) \in Nat
    BY <1>4, TopsAreEqual, TopIsNumber DEF Once
  <2>5. OnScreen(x)' = (Total(ws, taken) + Top(us, v, x)) - (scroll + Total(ws, taken))
    BY <1>7, <1>9, <2>1, <2>2, <2>3, <2>4
  <2>6. scroll \in Nat
    BY <1>1 DEF TypedLayout
  <2> QED
    BY <2>2, <2>4, <2>5, <2>6
<1> QED
  BY <1>5, <1>8, <1>9 DEF ScrollToRow

LEMMA AppendAnchors ==
    ASSUME LayoutInv, NEW batch \in Seq(Text), batch # <<>>, Len(batch) <= ChunkSize,
           NEW isHistory \in BOOLEAN, AppendBatch(batch, isHistory)
    PROVE  IF ~isHistory /\ WasAtBottom
           THEN scroll' = LastRow(units', area[2])
           ELSE \/ scroll' \in {0, LastRow(units', area[2])}
                \/ \A x \in ToSet(view) \cap ToSet(view') : OnScreen(x)' = OnScreen(x)
<1>1. TypedLayout /\ Split(view, pool) /\ WidgetsInv
  BY DEF LayoutInv
<1>2. PICK taken, all, kept, ws, row, rows, n, removed :
         Appended(batch, isHistory, taken, all, kept, ws, row, rows, n, removed)
  BY <1>1, AppendIs
<1>3. PICK v, us, height, here : v = view /\ us = widget /\ height = area[2] /\ here = scroll
  OBVIOUS
<1>4. /\ Once(taken) /\ Once(all) /\ Once(v) /\ all = v \o taken
      /\ ToSet(taken) \cap ToSet(v) = {}
      /\ AllSound(ws) /\ InViewTrue(ws, kept, area[1]) /\ HiddenOutside(ws, kept)
      /\ \A x \in ToSet(v) : Height(ws[x]) = Height(us[x])
      /\ Split(kept, pool') /\ rows \in Nat \ {0} /\ row \in Nat
      /\ LayOut(ws, kept, row, rows, area) /\ AllSound(us)
  BY <1>1, <1>2, <1>3 DEF Appended, Arrived, Split, Once, WidgetsInv
<1>5. /\ row = ScrollToRow(rows, height, IF ~isHistory /\ WasAtBottom THEN rows
                                         ELSE IF here > removed THEN here - removed ELSE 0, here)
      /\ removed = Total(us, SubSeq(v, 1, IF n < Len(v) THEN n ELSE Len(v))) /\ removed \in Nat
      /\ n \in 0..Len(all) /\ kept = SubSeq(all, n + 1, Len(all))
  BY <1>2, <1>3 DEF Appended
<1>6. height \in Nat /\ here \in Nat
  BY <1>1, <1>3, SizesAre DEF TypedLayout
<1>7. PICK above : above = SubSeq(all, 1, n)
  OBVIOUS
<1>8. Parts(all, n, above, kept) /\ Once(kept)
  <2>1. Parts(all, n, above, kept)
    BY <1>5, <1>7 DEF Parts
  <2> QED
    BY <1>4, <2>1, PartsAre
<1>9. /\ view' = kept /\ scroll' = row /\ units' = rows
      /\ \A x \in ToSet(kept) : OnScreen(x)' = Top(ws, kept, x) - row
  BY <1>1, <1>4, <1>8, LaidOutTops DEF Once
<1>10. CASE ~isHistory /\ WasAtBottom
  <2>1. row = ScrollToRow(rows, height, rows, here)
    BY <1>5, <1>10
  <2>2. row = LastRow(rows, height)
    BY <1>4, <1>6, <2>1 DEF ScrollToRow, LastRow
  <2> QED
    BY <1>3, <1>9, <1>10, <2>2
<1>11. CASE ~(~isHistory /\ WasAtBottom)
  <2>1. row = ScrollToRow(rows, height, IF here > removed THEN here - removed ELSE 0, here)
    BY <1>5, <1>11
  <2>2. row = 0 \/ row = LastRow(rows, height) \/ row = here - removed
    BY <1>4, <2>1 DEF ScrollToRow
  <2>3. CASE row = 0 \/ row = LastRow(rows, height)
    BY <1>3, <1>9, <1>11, <2>3
  <2>4. CASE row = here - removed
    <3>1. ASSUME NEW x \in ToSet(v) \cap ToSet(kept)
          PROVE  OnScreen(x)' = Top(us, v, x) - here
      <4>1. /\ n < Len(v) /\ n \in 0..Len(v)
            /\ Top(ws, kept, x) = Top(us, v, x) - Total(us, SubSeq(v, 1, n))
            /\ Top(us, v, x) \in Nat
        <5>1. Joined(all, v, taken) /\ SameHeights(us, ws, v) /\ Parts(all, n, above, kept)
          BY <1>4, <1>8 DEF Joined, SameHeights
        <5>2. x \in ToSet(v) /\ x \in ToSet(kept)
          OBVIOUS
        <5> QED
          BY <5>1, <5>2, TopsAfterTrim, Zenon
      <4>2. removed = Total(us, SubSeq(v, 1, n))
        BY <1>5, <4>1
      <4>3. OnScreen(x)' = (Top(us, v, x) - removed) - (here - removed)
        BY <1>9, <2>4, <4>1, <4>2
      <4>4. removed \in Nat
        BY <1>5
      <4> QED
        BY <1>6, <4>1, <4>3, <4>4
    <3> QED
      BY <1>3, <1>9, <1>11, <3>1 DEF OnScreen
  <2> QED
    BY <2>2, <2>3, <2>4
<1> QED
  BY <1>10, <1>11

(***************************************************************************)
(* Messages that come leave those in sight where they are on the screen,   *)
(* but where the view would leave its ends, and a reader at the end        *)
(* follows live messages: whatever is put in front, appended and trimmed,  *)
(* the scroll position moves by as much as the widgets do.                 *)
(***************************************************************************)
THEOREM AnchorHolds == Spec => AnchorStays
<1> DEFINE Anchored ==
      Came # {} /\ view # <<>> =>
         IF asked' = asked /\ WasAtBottom /\ ~loadingOlder
         THEN scroll' = LastRow(units', area[2])
         ELSE \/ scroll' \in {0, LastRow(units', area[2])}
              \/ \A x \in ToSet(view) \cap ToSet(view') : OnScreen(x)' = OnScreen(x)
<1>1. ASSUME LayoutInv, NEW batch \in Seq(Text), Len(batch) <= ChunkSize, NEW isHistory \in BOOLEAN,
             OnMessagesReceived(batch, isHistory), Came # {}, view # <<>>
      PROVE  Anchored
  <2>1. batch # <<>>
    BY <1>1 DEF OnMessagesReceived, Came
  <2>2. isHistory => asked' # asked
    BY <1>1 DEF OnMessagesReceived, LayoutInv, TypedLayout
  <2>3. CASE loadingOlder
    <3>1. Prepend(batch)
      BY <1>1, <2>1, <2>3 DEF OnMessagesReceived
    <3> QED
      BY <1>1, <2>1, <2>3, <3>1, PrependAnchors
  <2>4. CASE ~loadingOlder
    <3>1. AppendBatch(batch, isHistory)
      BY <1>1, <2>1, <2>4 DEF OnMessagesReceived
    <3>2. IF ~isHistory /\ WasAtBottom
          THEN scroll' = LastRow(units', area[2])
          ELSE \/ scroll' \in {0, LastRow(units', area[2])}
               \/ \A x \in ToSet(view) \cap ToSet(view') : OnScreen(x)' = OnScreen(x)
      BY <1>1, <2>1, <3>1, AppendAnchors
    <3>3. CASE ~isHistory /\ WasAtBottom
      BY <3>2, <3>3
    <3>4. CASE ~(~isHistory /\ WasAtBottom)
      BY <2>2, <3>2, <3>4
    <3> QED
      BY <3>3, <3>4
  <2> QED
    BY <2>3, <2>4
<1>2. ASSUME LayoutInv, NEW x \in ToSet(view), DeleteMessageById(x)
      PROVE  Came = {}
  <2>1. PICK v, i : v = view /\ i = IndexOf(v, x)
    OBVIOUS
  <2>2. Once(v) /\ v \in Seq(Widget) /\ x \in ToSet(v)
    BY <1>2, <2>1 DEF LayoutInv, Split, Once
  <2>3. i \in 1..Len(v)
    BY <2>1, <2>2, IndexOfMember
  <2>4. ToSet(RemoveAt(v, i)) = ToSet(v) \ {v[i]}
    BY <2>2, <2>3, RemovedOnce
  <2>5. view' = RemoveAt(v, i)
    BY <1>2, <2>1 DEF DeleteMessageById, LayOut
  <2> QED
    BY <2>1, <2>4, <2>5 DEF Came
<1>3. LayoutInv /\ [Next]_vars => [Anchored]_vars
  <2> SUFFICES ASSUME LayoutInv, Next, Came # {}, view # <<>> PROVE Anchored
    OBVIOUS
  <2> HIDE DEF Anchored
  <2>1. ChunkSize \in Nat \ {0}
    BY WidgetsAssumption
  <2>2. CASE \E batch \in Batch(ChunkSize) : OnMessagesReceived(batch, TRUE)
    <3>1. PICK batch \in Batch(ChunkSize) : OnMessagesReceived(batch, TRUE)
      BY <2>2
    <3>2. batch \in Seq(Text) /\ Len(batch) <= ChunkSize
      BY <2>1, BatchesAreOfTexts
    <3> QED
      BY <1>1, <3>1, <3>2
  <2>3. CASE \E text \in Text : OnMessagesReceived(<<text>>, FALSE)
    <3>1. PICK text \in Text : OnMessagesReceived(<<text>>, FALSE)
      BY <2>3
    <3>2. <<text>> \in Seq(Text) /\ Len(<<text>>) <= ChunkSize
      BY <2>1
    <3> QED
      BY <1>1, <3>1, <3>2
  <2>4. CASE \E x \in ToSet(view) : DeleteMessageById(x)
    BY <1>2, <2>4
  <2>5. CASE view' = view
    BY <2>5 DEF Came
  <2>6. CASE view' = <<>>
    <3>1. ToSet(<<>>) = {}
      BY DEF ToSet
    <3> QED
      BY <2>6, <3>1 DEF Came
  <2>7. JumpToPresent \/ ResetState => view' = <<>>
    BY DEF JumpToPresent, ResetState, Start, Clear
  <2>8. InvalidateCaches => view' = view
    BY DEF InvalidateCaches
  <2>9. ASSUME NEW by, OnMouseWheel(by) PROVE view' = view
    BY <2>9 DEF OnMouseWheel, OnScrolled, LayOut
  <2>10. ASSUME NEW size, DoSetSize(size) PROVE view' = view
    BY <2>10 DEF DoSetSize, LayOut
  <2>11. ASSUME NEW x, Touch(x) PROVE view' = view
    BY <2>11 DEF Touch
  <2>12. ASSUME NEW xs, UpdateUsername(xs) PROVE view' = view
    BY <2>12 DEF UpdateUsername, LayOut
  <2> QED
    BY <2>2, <2>3, <2>4, <2>5, <2>6, <2>7, <2>8, <2>9, <2>10, <2>11, <2>12 DEF Next
<1>4. Spec => [][Anchored]_vars
  BY <1>3, LayoutIsTrue, PTL DEF Spec
<1> QED
  BY <1>4 DEF AnchorStays

=============================================================================
