----------------------------- MODULE ChaseProofs -----------------------------
(***************************************************************************)
(* The arithmetic of a chase, for any steps.                               *)
(***************************************************************************)
EXTENDS ChaseEffect, Induction

(* The starts of the steps are times, whatever the sum goes round to.      *)
LEMMA OffsetType ==
    ASSUME NEW steps \in Seq(Step), NEW n \in 1..(Len(steps) + 1)
    PROVE  Offset(steps, n) \in Nat
<1> DEFINE m == n - 1
           Def(f) == f = [i \in 0..m |-> IF i = 0 THEN 0 ELSE (f[i - 1] + steps[i].time) % Wrap]
           step == [x \in Nat \X (1..m) |-> (x[1] + steps[x[2]].time) % Wrap]
           sum == CHOOSE f : Def(f)
<1>1. m \in Nat /\ \A i \in 1..m : steps[i].time \in Nat
  <2>1. \A i \in 1..Len(steps) : steps[i] \in Step
    OBVIOUS
  <2> QED  BY <2>1 DEF Step
<1>2. \A x \in Nat, i \in 1..m : (x + steps[i].time) % Wrap \in Nat
  BY <1>1, WrapAssumption
<1>3. step \in [Nat \X (1..m) -> Nat]
  BY <1>2
<1>4. Offset(steps, n) = sum[m]
  BY DEF Offset
<1> HIDE DEF m
<1>5. PICK f : Recurs(f, m, Nat, 0, step)
  <2> HIDE DEF step
  <2> QED  BY <1>1, <1>3, RecursionExists
<1>6. Def(f)
  <2>1. f = [i \in 0..m |-> f[i]] /\ f[0] = 0 /\ \A i \in 1..m : f[i] = step[<<f[i - 1], i>>]
    BY <1>5 DEF Recurs
  <2>2. ASSUME NEW i \in 1..m PROVE step[<<f[i - 1], i>>] = (f[i - 1] + steps[i].time) % Wrap
    <3>1. i - 1 \in 0..m
      BY <1>1
    <3>2. f[i - 1] \in Nat
      BY <1>5, <3>1 DEF Recurs
    <3> QED  BY <3>2
  <2> HIDE DEF step
  <2>3. \A i \in 0..m : i # 0 => i \in 1..m
    BY <1>1
  <2>4. \A i \in 0..m : f[i] = IF i = 0 THEN 0 ELSE (f[i - 1] + steps[i].time) % Wrap
    BY <2>1, <2>2, <2>3
  <2> QED  BY <2>1, <2>4, Zenon
<1>7. Def(sum)
  <2> HIDE DEF Def
  <2> QED  BY <1>6
<1> HIDE DEF sum
<1> DEFINE T == {i \in 0..m : sum[i] \in Nat}
<1>8. 0 \in T
  BY <1>1, <1>7
<1>9. ASSUME NEW i \in 0..(m - 1), i \in T PROVE i + 1 \in T
  <2>1. i + 1 \in 1..m /\ (i + 1) - 1 = i /\ i + 1 # 0 /\ i + 1 \in 0..m
    BY <1>1
  <2>2. sum[i + 1] = (sum[i] + steps[i + 1].time) % Wrap
    BY <1>7, <2>1
  <2> QED  BY <1>2, <1>9, <2>1, <2>2
<1> HIDE DEF T
<1>10. \A i \in 0..m : i \in T
  BY <1>1, <1>8, <1>9, InductTo
<1> QED
  BY <1>1, <1>4, <1>10 DEF T

LEMMA LengthType == \A steps \in Seq(Step) : EffectLength(steps) \in Nat
<1> SUFFICES ASSUME NEW steps \in Seq(Step) PROVE EffectLength(steps) \in Nat
  OBVIOUS
<1>1. Len(steps) + 1 \in 1..(Len(steps) + 1)
  OBVIOUS
<1> QED
  BY <1>1, OffsetType DEF EffectLength

(* A position moves by the time that passed, and back by q whole passes.   *)
WrapsBy(progress, first_pass, rate, time, length, q) ==
    LET a == Advance(progress, first_pass, rate, time, length)
    IN  /\ progress + time * rate = q * length + a.progress
        /\ q = 0 => a.first_pass = first_pass
        /\ q # 0 => a.first_pass = FALSE

LEMMA AdvanceFacts ==
    ASSUME NEW progress \in Nat, NEW first_pass \in BOOLEAN, NEW rate \in Nat, NEW time \in Nat,
           NEW length \in Nat
    PROVE  LET a == Advance(progress, first_pass, rate, time, length)
           IN  /\ a.progress \in Nat /\ a.first_pass \in BOOLEAN
               /\ length # 0 =>
                    /\ a.progress < length
                    /\ \E q \in Nat : WrapsBy(progress, first_pass, rate, time, length, q)
<1> DEFINE p == progress + time * rate
           a == Advance(progress, first_pass, rate, time, length)
<1>1. p \in Nat
  <2>1. time * rate \in Nat
    OBVIOUS
  <2> QED  BY <2>1
<1>2. a = IF p < length THEN [progress |-> p, first_pass |-> first_pass]
          ELSE [progress |-> IF length = 0 THEN p ELSE p % length, first_pass |-> FALSE]
  BY DEF Advance
<1>3. a.progress \in Nat /\ a.first_pass \in BOOLEAN
  <2> HIDE DEF p, a
  <2>1. length # 0 => p % length \in Nat
    BY <1>1
  <2> QED  BY <1>1, <1>2, <2>1
<1>4. ASSUME length # 0
      PROVE  /\ a.progress < length
             /\ \E q \in Nat : /\ p = q * length + a.progress
                               /\ q = 0 => a.first_pass = first_pass
                               /\ q # 0 => a.first_pass = FALSE
  <2> HIDE DEF p, a
  <2>1. CASE p < length
    <3>1. a.progress = p /\ a.first_pass = first_pass
      BY <1>2, <2>1
    <3>2. p = 0 * length + p
      BY <1>1
    <3> QED  BY <2>1, <3>1, <3>2
  <2>2. CASE ~(p < length)
    <3> DEFINE q == p \div length
    <3>1. q \in Nat /\ p % length \in 0..(length - 1) /\ p = q * length + (p % length)
      BY <1>1, <1>4
    <3>2. a.progress = p % length /\ a.first_pass = FALSE
      BY <1>2, <1>4, <2>2
    <3> HIDE DEF q
    <3>3. q # 0
      BY <1>1, <2>2, <3>1
    <3>4. a.progress < length /\ p = q * length + a.progress
      BY <1>4, <3>1, <3>2
    <3> QED  BY <3>1, <3>2, <3>3, <3>4
  <2> QED  BY <2>1, <2>2
<1>5. length # 0 => \E q \in Nat : WrapsBy(progress, first_pass, rate, time, length, q)
  BY <1>4 DEF WrapsBy
<1> QED
  BY <1>3, <1>4, <1>5

(* A step is dark before it starts and after it has faded out.             *)
Shape(s) == Prepared(s).in + Prepared(s).dwell + Prepared(s).out

LEMMA ShapeType ==
    ASSUME NEW s \in Step
    PROVE  Prepared(s).in \in Nat /\ Prepared(s).dwell \in Nat /\ Prepared(s).out \in Nat
BY DEF Prepared, Step

LEMMA DarkOutside ==
    ASSUME NEW s \in Step, NEW p \in Int, p <= 0 \/ p >= Shape(s)
    PROVE  Fade(s, p) = 0
<1>1. Prepared(s).in \in Nat /\ Prepared(s).dwell \in Nat /\ Prepared(s).out \in Nat
  BY ShapeType
<1> QED
  BY <1>1 DEF Fade, Shape

LEMMA DimmedDark == \A l, y : Dimmed(l, 0, y) = 0
BY FullAssumption DEF Dimmed, MultiplyLevels
-----------------------------------------------------------------------------
(* What the steps of a chase add to a channel.                             *)
Lit(steps, level, ch, n, p) == Dimmed(level, Fade(steps[n], p), steps[n].level[ch])

Lights(steps, level, progress, first_pass, ch) ==
    {Lit(steps, level, ch, n, ProgressInStep(steps, n, progress, first_pass)) : n \in 1..Len(steps)}

LaidLights(steps, level, now, ch) ==
    {Lit(steps, level, ch, n, now - k * EffectLength(steps) - Offset(steps, n)) :
        n \in 1..Len(steps),
        k \in 0..(IF EffectLength(steps) = 0 THEN 0 ELSE now \div EffectLength(steps))}

LEMMA LitDark ==
    ASSUME NEW steps \in Seq(Step), Fits(steps), NEW n \in 1..Len(steps), NEW p \in Int,
           p <= 0 \/ p >= EffectLength(steps), NEW level, NEW ch
    PROVE  Lit(steps, level, ch, n, p) = 0
<1>1. steps[n] \in Step /\ Shape(steps[n]) <= EffectLength(steps)
  BY DEF Fits, Shape
<1>2. Shape(steps[n]) \in Nat /\ EffectLength(steps) \in Nat
  BY <1>1, ShapeType, LengthType DEF Shape
<1>3. p >= Shape(steps[n]) \/ p <= 0
  BY <1>1, <1>2
<1>4. Fade(steps[n], p) = 0
  BY <1>1, <1>3, DarkOutside
<1> QED
  BY <1>4, DimmedDark DEF Lit

LEMMA TimesMonotonic == \A a, b \in Int, c \in Nat : a <= b => a * c <= b * c
OBVIOUS

LEMMA WholePasses ==
    ASSUME NEW length \in Nat \ {0}, NEW q \in Nat, NEW r \in 0..(length - 1)
    PROVE  (q * length + r) \div length = q
<1> DEFINE now == q * length + r
           d == now \div length
<1>1. now \in Nat
  BY TimesMonotonic
<1>2. d \in Nat /\ d * length <= now /\ now < d * length + length
  <2> HIDE DEF now
  <2> QED  BY <1>1
<1>3. q * length <= now /\ now < q * length + length
  BY TimesMonotonic
<1>4. \A a \in Nat : (a + 1) * length = a * length + length
  OBVIOUS
<1> HIDE DEF d, now
<1>5. ~(d + 1 <= q)
  <2>1. d + 1 <= q => d * length + length <= q * length
    BY <1>2, <1>4, TimesMonotonic
  <2> QED  BY <1>1, <1>2, <1>3, <2>1
<1>6. ~(q + 1 <= d)
  <2>1. q + 1 <= d => q * length + length <= d * length
    BY <1>2, <1>4, TimesMonotonic
  <2> QED  BY <1>1, <1>2, <1>3, <2>1
<1> QED
  BY <1>2, <1>5, <1>6 DEF d, now

(* In a chase with a length, what shows at a position is what a time line  *)
(* shows that has come there after q passes.                               *)
LEMMA Seam ==
    ASSUME NEW steps \in Seq(Step), Fits(steps), Unwrapped(steps), EffectLength(steps) # 0,
           NEW q \in Nat, NEW r \in 0..(EffectLength(steps) - 1),
           NEW first_pass \in BOOLEAN, first_pass <=> q = 0, NEW level, NEW ch
    PROVE  {0} \cup Lights(steps, level, r, first_pass, ch)
               = {0} \cup LaidLights(steps, level, q * EffectLength(steps) + r, ch)
<1> DEFINE L == EffectLength(steps)
           now == q * L + r
           o(n) == Offset(steps, n)
           F(n, p) == Lit(steps, level, ch, n, p)
           X == Lights(steps, level, r, first_pass, ch)
           Y == LaidLights(steps, level, now, ch)
<1>1. L \in Nat \ {0} /\ r \in Nat /\ r < L
  BY LengthType
<1>2. \A n \in 1..Len(steps) : o(n) \in Nat /\ o(n) <= L
  <2>1. \A n \in 1..Len(steps) : n \in 1..(Len(steps) + 1)
    OBVIOUS
  <2> QED  BY <2>1, OffsetType DEF Unwrapped
<1>3. now \div L = q
  BY <1>1, WholePasses
<1>4. Y = {F(n, now - k * L - o(n)) : n \in 1..Len(steps), k \in 0..q}
  <2> DEFINE last == IF L = 0 THEN 0 ELSE now \div L
  <2>1. Y = {F(n, now - k * L - o(n)) : n \in 1..Len(steps), k \in 0..last}
    BY DEF LaidLights
  <2>2. last = q
    BY <1>1, <1>3
  <2> HIDE DEF last, Y, F, L, now, o
  <2> QED  BY <2>1, <2>2
<1>5. X = {F(n, ProgressInStep(steps, n, r, first_pass)) : n \in 1..Len(steps)}
  BY DEF Lights
<1>6. \A n \in 1..Len(steps) :
        ProgressInStep(steps, n, r, first_pass) = IF r - o(n) < 0 /\ q # 0 THEN r - o(n) + L ELSE r - o(n)
  BY DEF ProgressInStep
<1>7. now - q * L = r /\ q * L \in Nat
  <2>1. q * L \in Nat
    BY <1>1, TimesMonotonic
  <2> QED  BY <1>1, <2>1
<1>8. q # 0 => q - 1 \in 0..q /\ now - (q - 1) * L = r + L
  <2>1. q # 0 => q - 1 \in Nat /\ (q - 1) * L = q * L - L
    BY <1>1
  <2> QED  BY <1>1, <1>7, <2>1
<1>9. \A k \in 0..q : k # q /\ k # q - 1 => now - k * L \in Int /\ now - k * L >= r + L + L
  <2> SUFFICES ASSUME NEW k \in 0..q, k # q, k # q - 1
               PROVE  now - k * L \in Int /\ now - k * L >= r + L + L
    OBVIOUS
  <2>1. k + 2 <= q /\ k \in Nat /\ k + 2 \in Nat
    OBVIOUS
  <2>2. (k + 2) * L <= q * L
    BY <1>1, <2>1, TimesMonotonic
  <2>3. (k + 2) * L = k * L + L + L /\ k * L \in Nat
    BY <1>1, <2>1
  <2>4. now = q * L + r
    OBVIOUS
  <2> DEFINE a == k * L
             z == q * L
  <2>5. a \in Nat /\ a + L + L <= z /\ z \in Nat /\ now = z + r
    BY <1>7, <2>2, <2>3, <2>4
  <2> HIDE DEF a, z, now, L
  <2>6. now - a \in Int /\ now - a >= r + L + L
    BY <1>1, <2>5
  <2> QED  BY <2>6 DEF a
<1>10. \A n \in 1..Len(steps), p \in Int : p <= 0 \/ p >= L => F(n, p) = 0
  BY LitDark
<1> HIDE DEF L, o, F, X, Y, now
<1>11. ASSUME NEW n \in 1..Len(steps)
       PROVE  F(n, ProgressInStep(steps, n, r, first_pass)) \in Y
  <2>1. CASE r - o(n) < 0 /\ q # 0
    <3>1. ProgressInStep(steps, n, r, first_pass) = now - (q - 1) * L - o(n)
      BY <1>1, <1>2, <1>6, <1>8, <2>1
    <3> QED  BY <1>4, <1>8, <2>1, <3>1
  <2>2. CASE ~(r - o(n) < 0 /\ q # 0)
    <3>1. ProgressInStep(steps, n, r, first_pass) = now - q * L - o(n)
      BY <1>1, <1>2, <1>6, <1>7, <2>2
    <3>2. q \in 0..q
      OBVIOUS
    <3> QED  BY <1>4, <3>1, <3>2
  <2> QED  BY <2>1, <2>2
<1>12. ASSUME NEW n \in 1..Len(steps), NEW k \in 0..q
       PROVE  F(n, now - k * L - o(n)) \in {0} \cup X
  <2>1. CASE k = q
    <3>1. now - k * L - o(n) = r - o(n) /\ r - o(n) \in Int
      BY <1>1, <1>2, <1>7, <2>1
    <3>2. CASE r - o(n) < 0 /\ q # 0
      <4>1. F(n, r - o(n)) = 0
        BY <1>10, <3>1, <3>2
      <4> QED  BY <3>1, <4>1
    <3>3. CASE ~(r - o(n) < 0 /\ q # 0)
      <4>1. ProgressInStep(steps, n, r, first_pass) = r - o(n)
        BY <1>6, <3>3
      <4> QED  BY <1>5, <3>1, <4>1
    <3> QED  BY <3>2, <3>3
  <2>2. CASE k # q /\ k = q - 1
    <3>1. now - k * L - o(n) = r - o(n) + L /\ r - o(n) + L \in Int /\ q # 0
      BY <1>1, <1>2, <1>8, <2>2
    <3>2. CASE r - o(n) < 0
      <4>1. ProgressInStep(steps, n, r, first_pass) = r - o(n) + L
        BY <1>6, <3>1, <3>2
      <4> QED  BY <1>5, <3>1, <4>1
    <3>3. CASE ~(r - o(n) < 0)
      <4>1. r - o(n) + L >= L
        BY <1>1, <1>2, <3>3
      <4>2. F(n, r - o(n) + L) = 0
        BY <1>10, <3>1, <4>1
      <4> QED  BY <3>1, <4>2
    <3> QED  BY <3>2, <3>3
  <2>3. CASE k # q /\ k # q - 1
    <3>1. now - k * L - o(n) \in Int /\ now - k * L - o(n) >= L
      BY <1>1, <1>2, <1>9, <2>3
    <3> QED  BY <1>10, <3>1
  <2> QED  BY <2>1, <2>2, <2>3
<1>13. X \subseteq Y
  BY <1>5, <1>11
<1>14. Y \subseteq {0} \cup X
  BY <1>4, <1>12
<1> QED
  BY <1>13, <1>14 DEF X, Y, now, L

(* A chase without a length shows nothing when its steps fit into it.      *)
LEMMA NoLength ==
    ASSUME NEW steps \in Seq(Step), Fits(steps), EffectLength(steps) = 0,
           NEW progress \in Nat, NEW first_pass \in BOOLEAN, NEW now \in Nat, NEW level, NEW ch
    PROVE  {0} \cup Lights(steps, level, progress, first_pass, ch)
               = {0} \cup LaidLights(steps, level, now, ch)
<1>1. \A n \in 1..Len(steps) : Offset(steps, n) \in Nat
  <2>1. \A n \in 1..Len(steps) : n \in 1..(Len(steps) + 1)
    OBVIOUS
  <2> QED  BY <2>1, OffsetType
<1>2. \A n \in 1..Len(steps), p \in Int : Lit(steps, level, ch, n, p) = 0
  BY LitDark
<1>3. \A n \in 1..Len(steps) : ProgressInStep(steps, n, progress, first_pass) \in Int
  BY <1>1 DEF ProgressInStep
<1>4. Lights(steps, level, progress, first_pass, ch) \subseteq {0}
  BY <1>2, <1>3 DEF Lights
<1>5. ASSUME NEW n \in 1..Len(steps), NEW k \in 0..0
      PROVE  now - k * EffectLength(steps) - Offset(steps, n) \in Int
  BY <1>1
<1>6. LaidLights(steps, level, now, ch) \subseteq {0}
  BY <1>2, <1>5 DEF LaidLights
<1> QED
  BY <1>4, <1>6
=============================================================================
