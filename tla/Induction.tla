------------------------------ MODULE Induction ------------------------------
(***************************************************************************)
(* Induction over the natural numbers as a fact about a set of them, and   *)
(* what it yields for functions that are defined by recursion.             *)
(***************************************************************************)
EXTENDS Integers, WellFoundedInduction, TLAPS

LEMMA Induct ==
    ASSUME NEW T, 0 \in T, \A n \in Nat : n \in T => n + 1 \in T
    PROVE  \A n \in Nat : n \in T
<1> DEFINE Less == {ss \in Nat \X Nat : ss[1] < ss[2]}
           Rest == Nat \ T
<1> SUFFICES ASSUME Rest # {} PROVE FALSE
  OBVIOUS
<1>1. IsWellFoundedOn(Less, Nat)
  BY NatLessThanWellFounded, Zenon DEF OpToRel
<1>2. \A x, y \in Nat : x < y => <<x, y>> \in Less
  OBVIOUS
<1> HIDE DEF Less
<1>3. PICK x \in Rest : \A y \in Rest : ~ (<<y, x>> \in Less)
  <2>1. Rest \subseteq Nat
    OBVIOUS
  <2> HIDE DEF Rest
  <2> QED  BY <1>1, <2>1, WFMin
<1>4. x # 0 /\ x - 1 \in Nat /\ x - 1 < x /\ (x - 1) + 1 = x
  BY <1>3
<1>5. x - 1 \in T
  BY <1>2, <1>3, <1>4
<1> QED
  BY <1>3, <1>4, <1>5

(* The same for an initial segment.                                        *)
LEMMA InductTo ==
    ASSUME NEW m \in Nat, NEW T, 0 \in T, \A n \in 0..(m - 1) : n \in T => n + 1 \in T
    PROVE  \A n \in 0..m : n \in T
<1> DEFINE U == {n \in Nat : n <= m => n \in T}
<1>1. 0 \in U
  OBVIOUS
<1>2. ASSUME NEW n \in Nat, n \in U PROVE n + 1 \in U
  BY <1>2
<1> HIDE DEF U
<1>3. \A n \in Nat : n \in U
  BY <1>1, <1>2, Induct
<1> QED
  BY <1>3 DEF U

(* f holds the values of a recursion from 0 to m, with values in S.        *)
Recurs(f, m, S, base, step) ==
    /\ f \in [0..m -> S]
    /\ f[0] = base
    /\ \A i \in 1..m : f[i] = step[<<f[i - 1], i>>]

(* Every recursion from 0 to m has values.                                 *)
LEMMA RecursionExists ==
    ASSUME NEW m \in Nat, NEW S, NEW base \in S, NEW step \in [S \X (1..m) -> S]
    PROVE  \E f : Recurs(f, m, S, base, step)
<1> DEFINE Solves(f, k) == Recurs(f, k, S, base, step)
           T == {k \in 0..m : \E f : Solves(f, k)}
<1>1. 0 \in T
  <2>1. Solves([i \in 0..0 |-> base], 0)
    BY DEF Recurs
  <2>2. 0 \in 0..m
    OBVIOUS
  <2> HIDE DEF Solves
  <2> QED  BY <2>1, <2>2
<1>2. ASSUME NEW k \in 0..(m - 1), k \in T PROVE k + 1 \in T
  <2>1. PICK f : Solves(f, k)
    BY <1>2
  <2> USE DEF Recurs
  <2> DEFINE x == step[<<f[k], k + 1>>]
             g == [i \in 0..(k + 1) |-> IF i = k + 1 THEN x ELSE f[i]]
  <2>2. k \in 0..k /\ k + 1 \in 1..m /\ f[k] \in S
    BY <2>1
  <2>3. x \in S
    BY <2>2
  <2>4. ASSUME NEW i \in 0..(k + 1) PROVE g[i] \in S
    BY <2>1, <2>3
  <2>5. g \in [0..(k + 1) -> S]
    BY <2>4
  <2>6. g[0] = base
    BY <2>1
  <2>7. ASSUME NEW i \in 1..(k + 1) PROVE g[i] = step[<<g[i - 1], i>>]
    <3>1. CASE i = k + 1
      <4>1. g[i] = x /\ g[i - 1] = f[k]
        BY <3>1
      <4> QED  BY <3>1, <4>1
    <3>2. CASE i # k + 1
      <4>1. i \in 1..k /\ g[i] = f[i] /\ g[i - 1] = f[i - 1]
        BY <3>2
      <4> QED  BY <2>1, <4>1
    <3> QED  BY <3>1, <3>2
  <2>8. Solves(g, k + 1)
    BY <2>5, <2>6, <2>7
  <2> HIDE DEF Solves
  <2> QED  BY <2>8
<1>3. m \in T
  <2> HIDE DEF T
  <2>1. \A n \in 0..m : n \in T
    BY <1>1, <1>2, InductTo
  <2> QED  BY <2>1
<1> QED
  BY <1>3
=============================================================================
