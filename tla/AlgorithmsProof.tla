-------------------------- MODULE AlgorithmsProof --------------------------
(***************************************************************************)
(* What holds of the algorithms for all values of the constants: for every *)
(* generator, every controller and every table of options.  A behaviour of *)
(* WorkSpec is one of one algorithm, the others as they were at first.     *)
(***************************************************************************)
EXTENDS MCAlgorithms, SequenceTheorems, FiniteSetTheorems, WellFoundedInduction, TLAPS

----------------------------------------------------------------------------
(* The search never loses the maximum of a generator that has one, however *)
(* many currents there are and wherever the halves fall.                   *)

(* The currents that count are in order, the second of them in the middle  *)
(* but for a rounded half, and the power that is kept is its own.          *)
Ordered ==
    /\ power \in [0 .. N -> Int]
    /\ I \in [0 .. 4 -> Int] /\ P \in [0 .. 4 -> Int]
    /\ 0 <= I[0] /\ I[0] <= I[2] /\ I[2] <= I[4] /\ I[4] <= N
    /\ -1 <= (I[4] - I[2]) - (I[2] - I[0]) /\ (I[4] - I[2]) - (I[2] - I[0]) <= 1
    /\ P[2] = power[I[2]]

SearchInv == Ordered /\ PeakIsBracketed

(* A half lies between what it is the half of.                             *)
LEMMA HalfIsBetween ==
    ASSUME NEW a \in Int, NEW b \in Int, a <= b
    PROVE  /\ Half(a, b) \in Int /\ a <= Half(a, b) /\ Half(a, b) <= b
           /\ 0 <= (b - Half(a, b)) - (Half(a, b) - a) /\ (b - Half(a, b)) - (Half(a, b) - a) <= 1
BY DEF Half

(* Of two currents, a peak is not beyond the one with the lower power.     *)
LEMMA Slopes ==
    ASSUME power \in [0 .. N -> Int], N \in Nat,
           NEW p \in 0 .. N, IsPeak(p), NEW i \in 0 .. N, NEW j \in 0 .. N, i <= j
    PROVE  /\ power[i] > power[j] => p <= j
           /\ power[i] <= power[j] => i = j \/ i <= p
BY DEF IsPeak

(* The peak is a property of the generator, which no step changes.         *)
LEMMA PeakStays ==
    ASSUME UNCHANGED power, NEW p \in 0 .. N
    PROVE  IsPeak(p)' <=> IsPeak(p)
BY DEF IsPeak

(* What halving twice leaves: the middle stays in the middle.              *)
LEMMA Quarters ==
    ASSUME NEW u \in Int, NEW y \in Int, NEW z \in Int, NEW v \in Int, NEW w \in Int,
           -1 <= (z - y) - (y - u), (z - y) - (y - u) <= 1,
           0 <= (y - v) - (v - u), (y - v) - (v - u) <= 1,
           0 <= (z - w) - (w - y), (z - w) - (w - y) <= 1
    PROVE  /\ -1 <= (w - y) - (y - v) /\ (w - y) - (y - v) <= 1
           /\ z - u > 3 => v < y /\ y < w
OBVIOUS

(* What an iteration computes; the power in the middle was kept before.    *)
LEMMA IterationIs ==
    ASSUME Ordered, I1 \in 0 .. N, I3 \in 0 .. N, N \in Nat
    PROVE  /\ NewI \in [0 .. 4 -> Int] /\ NewP \in [0 .. 4 -> Int]
           /\ NewI[0] = I[0] /\ NewI[1] = I1 /\ NewI[2] = I[2]
           /\ NewI[3] = I3 /\ NewI[4] = I[4]
           /\ NewP[1] = power[I1] /\ NewP[2] = power[I[2]] /\ NewP[3] = power[I3]
<1>1. /\ I \in [0 .. 4 -> Int] /\ P \in [0 .. 4 -> Int] /\ P[2] = power[I[2]]
  BY DEF Ordered
<1>5. I1 \in Int /\ I3 \in Int /\ power[I1] \in Int /\ power[I3] \in Int
  <2>1. power \in [0 .. N -> Int]
    BY DEF Ordered
  <2> QED
    BY <2>1
<1>2. NewI \in [0 .. 4 -> Int] /\ NewP \in [0 .. 4 -> Int]
  BY <1>1, <1>5 DEF NewI, NewP
<1>3. /\ NewI[0] = I[0] /\ NewI[1] = I1 /\ NewI[2] = I[2]
      /\ NewI[3] = I3 /\ NewI[4] = I[4]
  BY <1>1, <1>5, SMTT(30) DEF NewI
<1>4. NewP[1] = power[I1] /\ NewP[2] = power[I[2]] /\ NewP[3] = power[I3]
  BY <1>1, <1>5, SMTT(30) DEF NewP
<1> QED
  BY <1>2, <1>3, <1>4

(* Three ordered currents are kept, between which every peak is.           *)
LEMMA KeepKeeps ==
    ASSUME SearchInv, N \in Nat, I1 \in 0 .. N, I3 \in 0 .. N,
           NEW a \in 0 .. 4, NEW b \in 1 .. 3, NEW c \in 0 .. 4,
           NEW i \in Int, NEW j \in Int, NEW l \in Int,
           NewI[a] = i, NewI[b] = j, NewI[c] = l,
           0 <= i, i <= j, j <= l, l <= N,
           -1 <= (l - j) - (j - i), (l - j) - (j - i) <= 1,
           \A p \in 0 .. N : IsPeak(p) => i <= p /\ p <= l,
           Keep(a, b, c)
    PROVE  SearchInv'
<1>1. I' = Shifted(NewI, a, b, c) /\ P' = Shifted(NewP, a, b, c) /\ power' = power
  BY DEF Keep
<1>2. Ordered
  BY DEF SearchInv
<1>3. NewI \in [0 .. 4 -> Int] /\ NewP \in [0 .. 4 -> Int]
  BY <1>2, IterationIs
<1>4. NewP[b] = power[j]
  <2>1. b = 1 \/ b = 2 \/ b = 3
    OBVIOUS
  <2> QED
    BY <1>2, <2>1, IterationIs
<1>5. I' \in [0 .. 4 -> Int] /\ P' \in [0 .. 4 -> Int]
  BY <1>1, <1>3 DEF Shifted
<1>6. I'[0] = i /\ I'[2] = j /\ I'[4] = l
  BY <1>1, <1>3, SMTT(30) DEF Shifted
<1>7. P'[2] = power[j]
  BY <1>1, <1>3, <1>4 DEF Shifted
<1>8. power' \in [0 .. N -> Int]
  BY <1>1, <1>2 DEF Ordered
<1>9. Ordered'
  BY <1>1, <1>5, <1>6, <1>7, <1>8 DEF Ordered
<1>10. PeakIsBracketed'
  BY <1>1, <1>6, PeakStays DEF PeakIsBracketed
<1> QED
  BY <1>9, <1>10 DEF SearchInv

LEMMA StartsInside == Init => SearchInv
<1>1. SUFFICES ASSUME Init PROVE SearchInv
  OBVIOUS
<1>2. N \in Nat /\ power \in [0 .. N -> Int]
  BY <1>1, SearchAssumption DEF Init, SearchAssumption
<1>3. /\ Half(0, N) \in Int /\ 0 <= Half(0, N) /\ Half(0, N) <= N
      /\ 0 <= (N - Half(0, N)) - (Half(0, N) - 0) /\ (N - Half(0, N)) - (Half(0, N) - 0) <= 1
  BY <1>2, HalfIsBetween
<1>4. /\ I \in [0 .. 4 -> Int] /\ I[0] = 0 /\ I[2] = Half(0, N) /\ I[4] = N
      /\ \A k \in 0 .. 4 : I[k] \in 0 .. N
  BY <1>1, <1>2, <1>3 DEF Init
<1>5. P \in [0 .. 4 -> Int] /\ P[2] = power[I[2]]
  BY <1>1, <1>2, <1>4 DEF Init
<1>6. Ordered
  <2>1. 0 <= I[0] /\ I[0] <= I[2] /\ I[2] <= I[4] /\ I[4] <= N
    BY <1>2, <1>3, <1>4
  <2>2. -1 <= (I[4] - I[2]) - (I[2] - I[0]) /\ (I[4] - I[2]) - (I[2] - I[0]) <= 1
    BY <1>2, <1>3, <1>4
  <2>3. QED
    BY <1>2, <1>4, <1>5, <2>1, <2>2 DEF Ordered
<1>7. PeakIsBracketed
  BY <1>2, <1>4 DEF PeakIsBracketed
<1>8. QED
  BY <1>6, <1>7 DEF SearchInv

(* One step for each way on: what is dropped holds no peak.                *)
LEMMA StepsStayInside == SearchInv /\ [Next]_vars => SearchInv'
<1>1. SUFFICES ASSUME SearchInv, [Next]_vars PROVE SearchInv'
  OBVIOUS
<1>2. N \in Nat /\ eMax \in Nat /\ eMax >= 3
  BY SearchAssumption DEF SearchAssumption
<1>3. /\ power \in [0 .. N -> Int] /\ P[2] = power[I[2]]
      /\ I[0] \in Int /\ I[2] \in Int /\ I[4] \in Int
  BY <1>1 DEF SearchInv, Ordered
<1>4. 0 <= I[0] /\ I[0] <= I[2] /\ I[2] <= I[4] /\ I[4] <= N
  BY <1>1 DEF SearchInv, Ordered
<1>5. /\ -1 <= (I[4] - I[2]) - (I[2] - I[0]) /\ (I[4] - I[2]) - (I[2] - I[0]) <= 1
  BY <1>1 DEF SearchInv, Ordered
<1>6. /\ power \in [0 .. N -> Int] /\ P[2] = power[I[2]]
      /\ I[0] \in 0 .. N /\ I[2] \in 0 .. N /\ I[4] \in 0 .. N
      /\ I[0] \in Int /\ I[2] \in Int /\ I[4] \in Int
      /\ I[0] <= I[2] /\ I[2] <= I[4]
  BY <1>2, <1>3, <1>4
<1>7. /\ I1 \in 0 .. N /\ I3 \in 0 .. N
      /\ I[0] <= I1 /\ I1 <= I[2] /\ I[2] <= I3 /\ I3 <= I[4]
      /\ 0 <= (I[2] - I1) - (I1 - I[0]) /\ (I[2] - I1) - (I1 - I[0]) <= 1
      /\ 0 <= (I[4] - I3) - (I3 - I[2]) /\ (I[4] - I3) - (I3 - I[2]) <= 1
  <2>1. /\ I1 \in Int /\ I[0] <= I1 /\ I1 <= I[2]
        /\ 0 <= (I[2] - I1) - (I1 - I[0]) /\ (I[2] - I1) - (I1 - I[0]) <= 1
    BY <1>6, HalfIsBetween DEF I1
  <2>2. /\ I3 \in Int /\ I[2] <= I3 /\ I3 <= I[4]
        /\ 0 <= (I[4] - I3) - (I3 - I[2]) /\ (I[4] - I3) - (I3 - I[2]) <= 1
    BY <1>6, HalfIsBetween DEF I3
  <2>3. I1 \in 0 .. N
    BY <1>2, <1>3, <1>4, <2>1
  <2>4. I3 \in 0 .. N
    BY <1>2, <1>3, <1>4, <2>2
  <2>5. QED
    BY <2>1, <2>2, <2>3, <2>4
<1>8. I1 \in Int /\ I3 \in Int
  BY <1>7
<1>9. /\ -1 <= (I[2] - I1) - (I1 - I[0]) /\ (I[2] - I1) - (I1 - I[0]) <= 1
      /\ -1 <= (I[4] - I3) - (I3 - I[2]) /\ (I[4] - I3) - (I3 - I[2]) <= 1
  <2>1. \A e \in Int : 0 <= e => -1 <= e
    OBVIOUS
  <2>2. (I[2] - I1) - (I1 - I[0]) \in Int /\ (I[4] - I3) - (I3 - I[2]) \in Int
    BY <1>3, <1>8, SMTT(30)
  <2>3. QED
    BY <2>1, <2>2, <1>7
<1>0. /\ NewI[0] = I[0] /\ NewI[1] = I1 /\ NewI[2] = I[2]
      /\ NewI[3] = I3 /\ NewI[4] = I[4]
      /\ NewP[1] = power[I1] /\ NewP[2] = power[I[2]] /\ NewP[3] = power[I3]
  BY <1>1, <1>2, <1>7, IterationIs DEF SearchInv
<1>10. CASE MoveLeft
  <2>1. \A p \in 0 .. N : IsPeak(p) => I[0] <= p /\ p <= I[2]
    <3>1. TAKE p \in 0 .. N
    <3>2. HAVE IsPeak(p)
    <3>3. power[I1] > power[I[2]]
      BY <1>0, <1>10 DEF MoveLeft, LeftIsBest
    <3>4. p <= I[2]
      BY <1>2, <1>6, <1>7, <3>2, <3>3, Slopes
    <3>5. QED
      BY <1>1, <3>2, <3>4 DEF SearchInv, PeakIsBracketed
  <2>2. Keep(0, 1, 2)
    BY <1>10 DEF MoveLeft
  <2>3. /\ I1 \in Int /\ 0 <= I[0] /\ I[2] <= N
    BY <1>2, <1>3, <1>4, <1>8
  <2>4. /\ NewI[0] = I[0] /\ NewI[1] = I1 /\ NewI[2] = I[2]
        /\ I[0] \in Int /\ I1 \in Int /\ I[2] \in Int
        /\ I[0] <= I1 /\ I1 <= I[2]
    BY <1>0, <1>3, <1>7, <1>8
  <2>5. -1 <= (I[2] - I1) - (I1 - I[0]) /\ (I[2] - I1) - (I1 - I[0]) <= 1
    BY <1>9
  <2>6. 0 \in 0 .. 4 /\ 1 \in 1 .. 3 /\ 2 \in 0 .. 4
    OBVIOUS
  <2>7. QED
    BY <1>1, <1>2, <1>7, <2>1, <2>2, <2>3, <2>4, <2>5, <2>6, KeepKeeps, Zenon
<1>11. /\ -1 <= (I3 - I[2]) - (I[2] - I1) /\ (I3 - I[2]) - (I[2] - I1) <= 1
  BY <1>3, <1>5, <1>8, <1>7, Quarters
<1>12. I[4] - I[0] > 3 => I1 < I[2] /\ I[2] < I3
  BY <1>3, <1>5, <1>8, <1>7, Quarters, ZenonT(30)
<1>13. ASSUME Scanning PROVE I1 < I[2] /\ I[2] < I3
  <2>1. I[4] - I[0] > 3
    BY <1>2, <1>3, <1>13 DEF Scanning
  <2>2. QED
    BY <2>1, <1>12
<1>14. CASE StayMiddle
  <2>1. \A p \in 0 .. N : IsPeak(p) => I1 <= p /\ p <= I3
    <3>1. TAKE p \in 0 .. N
    <3>2. HAVE IsPeak(p)
    <3>3. power[I[2]] > power[I3] /\ power[I1] <= power[I[2]]
      <4>1. I1 \in 0 .. N /\ I[2] \in 0 .. N /\ I3 \in 0 .. N
        BY <1>6, <1>7
      <4>2. power[I1] \in Int /\ power[I[2]] \in Int /\ power[I3] \in Int
        BY <1>6, <4>1
      <4>3. power[I[2]] > power[I3] /\ ~(power[I1] > power[I[2]] /\ power[I1] > power[I3])
        BY <1>0, <1>14 DEF StayMiddle, LeftIsBest, MiddleIsBest
      <4>4. QED
        BY <4>2, <4>3
    <3>4. p <= I3
      BY <1>2, <1>6, <1>7, <3>2, <3>3, Slopes
    <3>5. I1 = I[2] \/ I1 <= p
      BY <1>2, <1>6, <1>7, <3>2, <3>3, Slopes
    <3>6. I1 < I[2]
      BY <1>13, <1>14 DEF StayMiddle
    <3>7. I1 <= p
      BY <1>6, <1>7, <3>5, <3>6
    <3>8. QED
      BY <3>4, <3>7
  <2>2. Keep(1, 2, 3)
    BY <1>14 DEF StayMiddle
  <2>3. I1 \in Int /\ I3 \in Int /\ 0 <= I1 /\ I3 <= N
    BY <1>2, <1>7
  <2>4. /\ NewI[1] = I1 /\ NewI[2] = I[2] /\ NewI[3] = I3
        /\ I1 \in Int /\ I[2] \in Int /\ I3 \in Int
        /\ I1 <= I[2] /\ I[2] <= I3
    BY <1>0, <1>3, <1>7, <1>8
  <2>5. -1 <= (I3 - I[2]) - (I[2] - I1) /\ (I3 - I[2]) - (I[2] - I1) <= 1
    BY <1>11
  <2>6. 1 \in 0 .. 4 /\ 2 \in 1 .. 3 /\ 3 \in 0 .. 4
    OBVIOUS
  <2>7. QED
    BY <1>1, <1>2, <1>7, <2>1, <2>2, <2>3, <2>4, <2>5, <2>6, KeepKeeps, Zenon
<1>15. CASE MoveRight
  <2>1. \A p \in 0 .. N : IsPeak(p) => I[2] <= p /\ p <= I[4]
    <3>1. TAKE p \in 0 .. N
    <3>2. HAVE IsPeak(p)
    <3>3. power[I[2]] <= power[I3]
      <4>1. power[I[2]] \in Int /\ power[I3] \in Int
        BY <1>6, <1>7
      <4>2. ~(power[I[2]] > power[I3])
        BY <1>0, <1>15 DEF MoveRight, MiddleIsBest
      <4>3. QED
        BY <4>1, <4>2
    <3>4. I[2] = I3 \/ I[2] <= p
      BY <1>2, <1>6, <1>7, <3>2, <3>3, Slopes
    <3>5. I[2] < I3
      BY <1>13, <1>15 DEF MoveRight
    <3>6. I[2] <= p
      BY <1>6, <1>7, <3>4, <3>5
    <3>7. QED
      BY <1>1, <3>2, <3>6 DEF SearchInv, PeakIsBracketed
  <2>2. Keep(2, 3, 4)
    BY <1>15 DEF MoveRight
  <2>3. /\ I3 \in Int /\ 0 <= I[2] /\ I[4] <= N
    BY <1>2, <1>3, <1>4, <1>8
  <2>4. /\ NewI[2] = I[2] /\ NewI[3] = I3 /\ NewI[4] = I[4]
        /\ I[2] \in Int /\ I3 \in Int /\ I[4] \in Int
        /\ I[2] <= I3 /\ I3 <= I[4]
    BY <1>0, <1>3, <1>7, <1>8
  <2>5. -1 <= (I[4] - I3) - (I3 - I[2]) /\ (I[4] - I3) - (I3 - I[2]) <= 1
    BY <1>9
  <2>6. 2 \in 0 .. 4 /\ 3 \in 1 .. 3 /\ 4 \in 0 .. 4
    OBVIOUS
  <2>7. QED
    BY <1>1, <1>2, <1>7, <2>1, <2>2, <2>3, <2>4, <2>5, <2>6, KeepKeeps, Zenon
<1>16. CASE Stop \/ UNCHANGED vars
  <2>1. UNCHANGED <<power, I, P>>
    BY <1>16 DEF Stop, vars
  <2>2. QED
    BY <1>1, <2>1, PeakStays DEF SearchInv, Ordered, PeakIsBracketed
<1>17. QED
  BY <1>1, <1>10, <1>14, <1>15, <1>16 DEF Next

(* The search brackets the maximum from its first step to its last         *)
(* (pvgen_mpp_I.cpp:51-70).                                                *)
THEOREM Bracketed == Spec => []PeakIsBracketed
<1>1. SearchInv => PeakIsBracketed
  BY DEF SearchInv
<1>2. QED
  BY StartsInside, StepsStayInside, <1>1, PTL DEF Spec

----------------------------------------------------------------------------
(* The integrators of the controllers come back from their limits.         *)

(* A bounded integrator is below its bound by Ki for every negative error; *)
(* with what was cut off taken away at once, the output that was wanted is *)
(* out of its limits by what the error adds at most.                       *)
Returns ==
    /\ ctl \in Settings /\ Mi \in Int /\ awe \in Int /\ falls \in Nat
    /\ NoWindUp
    /\ ctl.kind = "AntiWindup" /\ ctl.Ki * ctl.kaw = -1 =>
          LET moves == ctl.Kp * Control!Largest(Errors)
          IN  Mi + awe \in ctl.Min - moves .. ctl.Max + moves

LEMMA LargestError ==
    LET E == Control!Largest(Errors)
    IN  E \in Nat /\ E \in Errors /\ Errors \subseteq -E .. E
<1>1. PICK e \in Errors : e \in Nat /\ Errors \subseteq -e .. e
  BY ControllersAssumption DEF ControllersAssumption
<1>2. \A m \in Errors : m <= e
  BY <1>1
<1>3. Control!Largest(Errors) \in Errors /\ e <= Control!Largest(Errors)
  BY <1>2 DEF Control!Largest
<1>4. \A n \in Errors : e <= n => n = e
  BY <1>1
<1>5. Control!Largest(Errors) = e
  BY <1>3, <1>4, Zenon
<1> QED
  BY <1>1, <1>5, Zenon

(* The gains that take away at once what was cut off.                      *)
LEMMA AtOnce ==
    ASSUME NEW a \in Nat, NEW b \in Int, a * b = -1
    PROVE  a = 1 /\ b = -1
<1>1. b < 0
  BY SMT
<1>2. a = 0 \/ a = 1 \/ a >= 2
  OBVIOUS
<1>3. a >= 2 => a * b <= 2 * b
  BY <1>1, SMT
<1> QED
  BY <1>1, <1>2, <1>3, SMT

LEMMA ClampedIsBetween ==
    ASSUME NEW v \in Int, NEW low \in Int, NEW high \in Int
    PROVE  LET r == Control!Clamped(v, low, high)
           IN  /\ r \in Int
               /\ low <= high => low <= r /\ r <= high
               /\ r <= v \/ r = low
               /\ r <= high \/ r = low
BY DEF Control!Clamped

LEMMA LargestOfTwo ==
    ASSUME NEW a \in Int, NEW b \in Int
    PROVE  LET l == Control!Largest({a, b})
           IN  l \in {a, b} /\ a <= l /\ b <= l
<1>1. \E n \in {a, b} : \A m \in {a, b} : m <= n
  <2>1. CASE a <= b BY <2>1
  <2>2. CASE b <= a BY <2>2
  <2> QED BY <2>1, <2>2
<1> QED
  BY <1>1 DEF Control!Largest

(* What an enabled step of the bounded controller leaves of the bound.     *)
LEMMA LosesKi ==
    ASSUME ctl \in Settings, NEW e \in Int, NEW m \in Int, NEW f \in Nat,
           f > 0 => m <= Control!Largest({ctl.MiMin, ctl.MiMax - (f - 1) * ctl.Ki}),
           NEW n, n = Control!Clamped(m + ctl.Ki * e, ctl.MiMin, ctl.MiMax),
           e < 0
    PROVE  n <= Control!Largest({ctl.MiMin, ctl.MiMax - f * ctl.Ki})
<1> DEFINE Ki == ctl.Ki
           low == ctl.MiMin
           high == ctl.MiMax
<1>1. Ki \in Nat /\ low \in Int /\ high \in Int
  BY ControllersAssumption DEF ControllersAssumption
<1>2. n = Control!Clamped(m + Ki * e, low, high)
  OBVIOUS
<1>3. f > 0 => m <= Control!Largest({low, high - (f - 1) * Ki})
  OBVIOUS
<1> SUFFICES n <= Control!Largest({low, high - f * Ki})
  OBVIOUS
<1> HIDE DEF Ki, low, high
<1>4. Ki * e \in Int /\ Ki * e <= -Ki
  BY <1>1, SMT
<1>5. f * Ki \in Int /\ (f - 1) * Ki \in Int /\ (f - 1) * Ki = f * Ki - Ki
  BY <1>1, SMT
<1>6. m + Ki * e \in Int
  BY <1>4
<1>7. n \in Int /\ (n <= m + Ki * e \/ n = low) /\ (n <= high \/ n = low)
  <2>1. PICK v \in Int : v = m + Ki * e
    BY <1>6
  <2>2. n = Control!Clamped(v, low, high)
    BY <1>2, <2>1
  <2>3. n \in Int /\ (n <= v \/ n = low) /\ (n <= high \/ n = low)
    BY <1>1, <2>2 DEF Control!Clamped
  <2> QED
    BY <2>1, <2>3
<1>8. PICK l : l = Control!Largest({low, high - f * Ki})
  OBVIOUS
<1>9. l \in Int /\ low <= l /\ high - f * Ki <= l
  <2>1. high - f * Ki \in Int
    BY <1>1, <1>5
  <2> QED
    BY <1>1, <1>8, <2>1, LargestOfTwo
<1>10. CASE f = 0
  <2>1. f * Ki = 0
    BY <1>1, <1>10, SMT
  <2> QED
    BY <1>1, <1>7, <1>8, <1>9, <2>1
<1>11. CASE f > 0
  <2>1. PICK k : k = Control!Largest({low, high - (f - 1) * Ki})
    OBVIOUS
  <2>2. m <= k /\ (k = low \/ k = high - (f - 1) * Ki)
    <3>1. high - (f - 1) * Ki \in Int
      BY <1>1, <1>5
    <3> QED
      BY <1>1, <1>3, <1>11, <2>1, <3>1, LargestOfTwo
  <2>3. PICK u \in Int : u = f * Ki
    BY <1>5
  <2>4. PICK w \in Int : w = Ki * e
    BY <1>4
  <2>5. k = low \/ k = high - (u - Ki)
    BY <1>5, <2>2, <2>3
  <2>6. w <= -Ki /\ (n <= m + w \/ n = low) /\ high - u <= l
    BY <1>4, <1>7, <1>9, <2>3, <2>4
  <2>7. n <= l
    BY <1>1, <1>7, <1>9, <2>2, <2>5, <2>6
  <2> QED
    BY <1>8, <2>7
<1> QED
  BY <1>10, <1>11

LEMMA StartReturns == Control!Init => Returns
<1> SUFFICES ASSUME Control!Init PROVE Returns
  OBVIOUS
<1>1. ctl \in Settings /\ awe = 0 /\ falls = 0
  BY DEF Control!Init
<1>2. PICK n \in Starts : Mi = IF ctl.Ki = 0 THEN n ELSE n \div ctl.Ki
  BY DEF Control!Init
<1>3. ctl.Ki \in Nat /\ n \in Int
  BY <1>1, ControllersAssumption DEF ControllersAssumption
<1>4. Mi \in Int
  BY <1>2, <1>3
<1>5. ASSUME ctl.kind = "AntiWindup", ctl.Ki * ctl.kaw = -1
      PROVE  Mi = n /\ ctl.Min <= Mi /\ Mi <= ctl.Max
  <2>1. ctl.Ki = 1
    BY <1>1, <1>5, AtOnce, ControllersAssumption DEF ControllersAssumption
  <2>2. Mi = n
    BY <1>2, <1>3, <2>1
  <2> QED
    BY <1>1, <1>5, <2>2, ControllersAssumption DEF ControllersAssumption
<1>6. ASSUME NEW k \in Nat, ctl.kind = "AntiWindup", ctl.Ki * ctl.kaw = -1
      PROVE  Mi \in ctl.Min - k .. ctl.Max + k
  BY <1>1, <1>4, <1>5, <1>6, ControllersAssumption DEF ControllersAssumption
<1>7. ctl.Kp * Control!Largest(Errors) \in Nat /\ (ctl.Kp + ctl.Ki) * Control!Largest(Errors) \in Nat
  BY <1>1, LargestError, ControllersAssumption DEF ControllersAssumption
<1>8. Mi + awe = Mi
  BY <1>1, <1>4
<1> QED
  BY <1>1, <1>4, <1>6, <1>7, <1>8 DEF Returns, NoWindUp, Control!NoWindUp

(* Where the output is bounded, what is wanted and what is cut off of it   *)
(* move by no more than errors do.                                         *)
LEMMA CutOffIsTaken ==
    ASSUME NEW e \in Errors, NEW Kp \in Nat, NEW low \in Int, NEW high \in Int, low <= high,
           NEW m \in Int, NEW a \in Int, NEW n, n = m + (e + a),
           NEW o, o = Control!Clamped(Kp * e + n, low, high),
           NEW b, b = o - (Kp * e + n),
           m + a \in low - Kp * Control!Largest(Errors) .. high + Kp * Control!Largest(Errors)
    PROVE  /\ n \in Int /\ b \in Int
           /\ n + b \in low - Kp * Control!Largest(Errors) .. high + Kp * Control!Largest(Errors)
           /\ n \in low - (Kp + 1) * Control!Largest(Errors) .. high + (Kp + 1) * Control!Largest(Errors)
<1>1. PICK E \in Nat : E = Control!Largest(Errors)
  BY LargestError
<1>2. e \in Int /\ -E <= e /\ e <= E
  BY <1>1, LargestError
<1>3. Kp * E \in Nat /\ Kp * e \in Int /\ -(Kp * E) <= Kp * e /\ Kp * e <= Kp * E
  BY <1>2, SMT
<1>4. PICK k \in Nat : k = Kp * E
  BY <1>3
<1>5. PICK d \in Int : d = Kp * e
  BY <1>3
<1>6. (Kp + 1) * E = k + E
  BY <1>4, SMT
<1>7. -k <= d /\ d <= k /\ low - k <= m + a /\ m + a <= high + k
  BY <1>1, <1>3, <1>4, <1>5
<1>8. n \in Int /\ d + n \in Int
  BY <1>2, <1>5
<1>9. o \in Int /\ low <= o /\ o <= high
  BY <1>5, <1>8, ClampedIsBetween
<1>10. b = o - (d + n)
  BY <1>5
<1>11. n + b \in low - k .. high + k
  BY <1>7, <1>8, <1>9, <1>10
<1>12. n \in low - (k + E) .. high + (k + E)
  BY <1>2, <1>7, <1>8
<1> QED
  BY <1>1, <1>4, <1>6, <1>8, <1>9, <1>10, <1>11, <1>12

LEMMA StepReturns ==
    ASSUME Returns, [Control!Next]_controlVars
    PROVE  Returns'
<1>1. /\ ctl \in Settings /\ Mi \in Int /\ awe \in Int /\ falls \in Nat
      /\ Control!NoWindUp
  BY DEF Returns, NoWindUp
<1>2. /\ ctl.Kp \in Nat /\ ctl.Ki \in Nat /\ ctl.kaw \in Int
      /\ ctl.MiMin \in Int /\ ctl.MiMax \in Int /\ ctl.Min \in Int /\ ctl.Max \in Int
  BY <1>1, ControllersAssumption DEF ControllersAssumption
<1>3. Errors \subseteq Int /\ Starts \subseteq Int
  <2>1. Control!Largest(Errors) \in Nat /\ Errors \subseteq -Control!Largest(Errors) .. Control!Largest(Errors)
    BY LargestError
  <2> QED
    BY <2>1, ControllersAssumption DEF ControllersAssumption
<1>4. ASSUME NEW e \in Errors, NEW cond \in BOOLEAN, Control!PI_controller(e, cond)
      PROVE  Returns'
  <2>1. ctl' = ctl /\ ctl.kind = "PI" /\ awe' = awe /\ falls' = falls
    BY <1>4 DEF Control!PI_controller
  <2>2. Mi' \in Int
    BY <1>1, <1>2, <1>3, <1>4 DEF Control!PI_controller
  <2> QED
    BY <1>1, <2>1, <2>2 DEF Returns, NoWindUp, Control!NoWindUp
<1>5. ASSUME NEW e \in Errors, NEW cond \in BOOLEAN, Control!Bounded_PI_controller(e, cond)
      PROVE  Returns'
  <2>1. ctl' = ctl /\ ctl.kind = "Bounded" /\ awe' = awe
    BY <1>5 DEF Control!Bounded_PI_controller
  <2>2. CASE ~cond
    <3>1. Mi' = Mi /\ falls' = falls
      BY <1>5, <2>2 DEF Control!Bounded_PI_controller
    <3> QED
      BY <1>1, <2>1, <3>1 DEF Returns, NoWindUp, Control!NoWindUp
  <2>3. CASE cond
    <3>1. /\ Mi' = Control!Clamped(Mi + ctl.Ki * e, ctl.MiMin, ctl.MiMax)
          /\ falls' = IF e < 0 THEN falls + 1 ELSE 0
      BY <1>5, <2>3 DEF Control!Bounded_PI_controller, Control!Count
    <3>2. Mi' \in Int
      <4>1. Mi + ctl.Ki * e \in Int
        BY <1>1, <1>2, <1>3, SMT
      <4> QED
        BY <1>2, <3>1, <4>1, ClampedIsBetween
    <3>3. ASSUME e < 0
          PROVE  Mi' <= Control!Largest({ctl.MiMin, ctl.MiMax - (falls' - 1) * ctl.Ki})
      <4>1. falls > 0 => Mi <= Control!Largest({ctl.MiMin, ctl.MiMax - (falls - 1) * ctl.Ki})
        BY <1>1, <2>1 DEF Control!NoWindUp
      <4>2. Mi' <= Control!Largest({ctl.MiMin, ctl.MiMax - falls * ctl.Ki})
        BY <1>1, <1>3, <3>1, <3>3, <4>1, LosesKi
      <4>3. falls' - 1 = falls
        BY <1>1, <3>1, <3>3
      <4> QED
        BY <4>2, <4>3
    <3>4. falls' \in Nat /\ (falls' > 0 => e < 0)
      BY <1>1, <3>1
    <3> QED
      BY <1>1, <2>1, <3>2, <3>3, <3>4 DEF Returns, NoWindUp, Control!NoWindUp
  <2> QED
    BY <2>2, <2>3
<1>6. ASSUME NEW e \in Errors, Control!AntiWindup_PI_controller(e)
      PROVE  Returns'
  <2>1. /\ ctl' = ctl /\ ctl.kind = "AntiWindup" /\ falls' = falls
        /\ Mi' = Mi + ctl.Ki * (e - ctl.kaw * awe)
        /\ out' = Control!Clamped(ctl.Kp * e + Mi', ctl.Min, ctl.Max)
        /\ awe' = out' - (ctl.Kp * e + Mi')
    BY <1>6 DEF Control!AntiWindup_PI_controller
  <2>2. Mi' \in Int
    BY <1>1, <1>2, <1>3, <2>1, SMT
  <2>3. awe' \in Int
    <3>1. ctl.Kp * e + Mi' \in Int
      BY <1>2, <1>3, <2>2, SMT
    <3> QED
      BY <1>2, <2>1, <3>1, ClampedIsBetween
  <2>4. ASSUME ctl.Ki * ctl.kaw = -1
        PROVE  LET moves == ctl.Kp * Control!Largest(Errors)
                   reach == (ctl.Kp + ctl.Ki) * Control!Largest(Errors)
               IN  /\ Mi' + awe' \in ctl.Min - moves .. ctl.Max + moves
                   /\ Mi' \in ctl.Min - reach .. ctl.Max + reach
    <3>1. ctl.Ki = 1 /\ ctl.kaw = -1
      BY <1>2, <2>4, AtOnce
    <3>2. Mi' = Mi + (e + awe)
      BY <1>1, <1>2, <1>3, <2>1, <3>1
    <3>3. Mi + awe \in ctl.Min - ctl.Kp * Control!Largest(Errors) .. ctl.Max + ctl.Kp * Control!Largest(Errors)
      BY <2>1, <2>4 DEF Returns
    <3>4. ctl.Min <= ctl.Max
      BY <1>1, <2>1, ControllersAssumption DEF ControllersAssumption
    <3>5. /\ Mi' + awe' \in ctl.Min - ctl.Kp * Control!Largest(Errors) .. ctl.Max + ctl.Kp * Control!Largest(Errors)
          /\ Mi' \in ctl.Min - (ctl.Kp + 1) * Control!Largest(Errors) .. ctl.Max + (ctl.Kp + 1) * Control!Largest(Errors)
      BY <1>1, <1>2, <2>1, <3>2, <3>3, <3>4, CutOffIsTaken
    <3> QED
      BY <3>1, <3>5
  <2> QED
    BY <1>1, <2>1, <2>2, <2>3, <2>4 DEF Returns, NoWindUp, Control!NoWindUp
<1>7. ASSUME NEW n \in Starts, Control!reset(n)
      PROVE  Returns'
  <2>1. /\ ctl' = ctl /\ Mi' = n /\ falls' = 0 /\ n \in Int
        /\ awe' = IF ctl.kind = "AntiWindup" THEN 0 ELSE awe
    BY <1>3, <1>7 DEF Control!reset
  <2>2. ASSUME NEW k \in Nat, ctl.kind = "AntiWindup"
        PROVE  n \in ctl.Min - k .. ctl.Max + k
    <3>1. ctl.Min <= n /\ n <= ctl.Max
      BY <1>1, <1>2, <2>2, ControllersAssumption DEF ControllersAssumption
    <3> QED
      BY <1>2, <2>1, <3>1
  <2>3. ctl.Kp * Control!Largest(Errors) \in Nat /\ (ctl.Kp + ctl.Ki) * Control!Largest(Errors) \in Nat
    BY <1>2, LargestError
  <2>4. awe' \in Int /\ (ctl.kind = "AntiWindup" => Mi' + awe' = n)
    BY <1>1, <2>1
  <2> QED
    BY <1>1, <2>1, <2>2, <2>3, <2>4 DEF Returns, NoWindUp, Control!NoWindUp
<1>8. CASE UNCHANGED controlVars
  BY <1>1, <1>8 DEF controlVars, Returns, NoWindUp, Control!NoWindUp
<1> QED
  BY <1>4, <1>5, <1>6, <1>7, <1>8 DEF Control!Next

(* A step of the work is one of the controller or leaves it alone.         *)
LEMMA WorkOnControl ==
    [WorkNext]_<<part, vars, stringVars, fixedVars, argVars, controlVars>>
        => [Control!Next]_controlVars
BY DEF WorkNext

(* However long an error drove the output into its limit, the integrator   *)
(* comes back: the bounded one loses Ki with every negative error; the one *)
(* with feedback, where Ki * kaw = -1, so that exactly what was cut off is *)
(* taken away, stays within what two errors move it (stdctl.h:111-121,     *)
(* 175-189).  With integers that is Ki = 1 and kaw = -1.                   *)
THEOREM IntegratorsComeBack == WorkSpec => []NoWindUp
<1>1. WorkInit => Returns
  BY StartReturns DEF WorkInit
<1>2. Returns /\ [WorkNext]_<<part, vars, stringVars, fixedVars, argVars, controlVars>> => Returns'
  BY StepReturns, WorkOnControl
<1>3. Returns => NoWindUp
  BY DEF Returns
<1> QED
  BY <1>1, <1>2, <1>3, PTL DEF WorkSpec

----------------------------------------------------------------------------
(* The command line can be read back from the variables.                   *)

(* Every set of natural numbers has a least one.                           *)
LEMMA LeastExists ==
    ASSUME NEW S \in SUBSET Nat, S # {}
    PROVE  \E n \in S : \A m \in S : n <= m
  <1> DEFINE T == {0 .. u : u \in S}
  <1>1. T \subseteq FiniteSubsetsOf(Nat) /\ T # {}
    <2>1. ASSUME NEW u \in S PROVE 0 .. u \in FiniteSubsetsOf(Nat)
      <3>1. IsFiniteSet(0 .. u) 
        BY FS_Interval
      <3>2. 0 .. u \in SUBSET Nat
        OBVIOUS
      <3> QED
        BY <3>1, <3>2, Zenon DEF FiniteSubsetsOf
    <2> QED
      BY <2>1
  <1>2. PICK X \in T : \A Y \in T : ~(<<Y, X>> \in StrictSubsetOrdering(Nat))
    <2> HIDE DEF T
    <2> QED
      BY <1>1, FS_StrictSubsetOrderingWellFounded, WFMin, Zenon
  <1>3. PICK u \in S : X = 0 .. u
    OBVIOUS
  <1>4. ASSUME NEW y \in S, y < u PROVE FALSE
    <2>1. 0 .. y \in T /\ 0 .. y \in SUBSET Nat /\ 0 .. u \in SUBSET Nat
      OBVIOUS
    <2>2. 0 .. y \subseteq 0 .. u /\ u \in 0 .. u /\ u \notin 0 .. y
      <3>1. y \in Nat /\ u \in Nat
        OBVIOUS
      <3> QED
        BY <1>4, <3>1
    <2>3. <<0 .. y, 0 .. u>> \in StrictSubsetOrdering(Nat)
      BY <2>1, <2>2 DEF StrictSubsetOrdering
    <2> QED
      BY <1>2, <1>3, <2>1, <2>3
  <1>5. ASSUME NEW y \in S PROVE u <= y
    <2>1. y \in Nat /\ u \in Nat
      OBVIOUS
    <2> QED
      BY <1>4, <2>1
  <1> QED
    BY <1>5

(* What a search of a sequence selects.                                    *)
LEMMA SelectsTheFirst ==
    ASSUME NEW n \in Nat, NEW S \in SUBSET (1 .. n)
    PROVE  LET r == IF S # {} THEN Options!Min(S) ELSE 0
           IN  r \in 0 .. n /\ (r = 0 <=> S = {}) /\ (r # 0 => r \in S)
<1>1. CASE S = {}
  BY <1>1
<1>2. CASE S # {}
  <2>1. S \in SUBSET Nat
    OBVIOUS
  <2>2. PICK r : r = Options!Min(S)
    OBVIOUS
  <2>3. r \in S
    BY <1>2, <2>1, <2>2, LeastExists DEF Options!Min
  <2>4. r \in 0 .. n /\ r # 0
    BY <2>3
  <2> QED
    BY <1>2, <2>2, <2>3, <2>4
<1> QED
  BY <1>1, <1>2

(* The arguments up to k that are parameters, those that are options, and  *)
(* those that set v, with ix the variables of table t and command line l.  *)
ParametersTo(t, l, ix, k) ==
    {n \in 2 .. k : \E i \in DOMAIN t : /\ t[i].type = "default" /\ ~t[i].end
                                         /\ t[i].id = l[n - 1] /\ ix[t[i].index] = n}

OptionsTo(t, l, ix, k) == 1 .. k \ ParametersTo(t, l, ix, k)

Setting(t, l, n, v) ==
    \E i \in DOMAIN t : t[i].id = l[n] /\ t[i].index = v /\ (t[i].type # "none" \/ t[i].end)

(* The arguments up to k can be read back.                                 *)
ReadTo(t, l, ix, k) ==
    /\ \A n \in ParametersTo(t, l, ix, k) : n - 1 \in OptionsTo(t, l, ix, k)
    /\ \A n \in OptionsTo(t, l, ix, k) : \E i \in DOMAIN t :
          /\ t[i].id = l[n]
          /\ t[i].type = "default" /\ ~t[i].end => n + 1 \in ParametersTo(t, l, ix, k)
    /\ \A i \in DOMAIN t :
          /\ (\E n \in OptionsTo(t, l, ix, k) : Setting(t, l, n, t[i].index)) <=> ix[t[i].index] # 0
          /\ \A m, n \in OptionsTo(t, l, ix, k) :
                Setting(t, l, m, t[i].index) /\ Setting(t, l, n, t[i].index) => m = n

Unambiguous(t) ==
    \A i, j \in DOMAIN t : /\ t[i].id = t[j].id => i = j
                           /\ t[i].index = t[j].index => t[i].end = t[j].end

(* Argument k + 1 is option j, and its parameter, if it has one, is next.  *)
LEMMA ReadOn ==
    ASSUME NEW t \in Seq(Options!Option), Unambiguous(t), NEW l, NEW k \in Nat,
           NEW ix, \A i \in DOMAIN t : ix[t[i].index] \in 0 .. k,
           ReadTo(t, l, ix, k),
           NEW j \in DOMAIN t, t[j].id = l[k + 1], ix[t[j].index] = 0,
           NEW jx, \A i \in DOMAIN t : t[i].index # t[j].index => jx[t[i].index] = ix[t[i].index],
           t[j].end => jx[t[j].index] = k + 2,
           ~t[j].end /\ t[j].type = "flag" => jx[t[j].index] = 1,
           ~t[j].end /\ t[j].type = "default" => jx[t[j].index] = k + 2,
           ~t[j].end /\ t[j].type = "none" => jx[t[j].index] = 0,
           NEW m, m = IF ~t[j].end /\ t[j].type = "default" THEN k + 2 ELSE k + 1
    PROVE  ReadTo(t, l, jx, m)
<1> DEFINE Pars == ParametersTo(t, l, ix, k)
           NewPars == ParametersTo(t, l, jx, m)
           Takes == t[j].type = "default" /\ ~t[j].end
<1>1. \A i \in DOMAIN t : t[i] \in Options!Option
  BY ElementOfSeq
<1>2. \A i \in DOMAIN t : t[i].id = l[k + 1] => i = j
  BY DEF Unambiguous
<1>3. NewPars = Pars \cup (IF Takes THEN {k + 2} ELSE {})
  <2>1. ASSUME NEW n \in Pars PROVE n \in NewPars
    <3>1. PICK i \in DOMAIN t : /\ t[i].type = "default" /\ ~t[i].end
                                /\ t[i].id = l[n - 1] /\ ix[t[i].index] = n /\ n \in 2 .. k
      BY <2>1 DEF ParametersTo
    <3>2. t[i].index # t[j].index
      BY <3>1
    <3>3. jx[t[i].index] = n /\ n \in 2 .. m
      BY <3>1, <3>2
    <3> QED
      BY <3>1, <3>3 DEF ParametersTo
  <2>2. ASSUME Takes PROVE k + 2 \in NewPars
    <3>1. jx[t[j].index] = k + 2 /\ m = k + 2
      BY <2>2
    <3>2. t[j].id = l[(k + 2) - 1] /\ k + 2 \in 2 .. m
      BY <3>1
    <3> QED
      BY <2>2, <3>1, <3>2 DEF ParametersTo
  <2>3. ASSUME NEW n \in NewPars, n \notin Pars PROVE Takes /\ n = k + 2
    <3>1. PICK i \in DOMAIN t : /\ t[i].type = "default" /\ ~t[i].end
                                /\ t[i].id = l[n - 1] /\ jx[t[i].index] = n /\ n \in 2 .. m
      BY <2>3 DEF ParametersTo
    <3>2. CASE t[i].index # t[j].index
      <4>1. ix[t[i].index] = n /\ n \in 2 .. k
        BY <3>1, <3>2
      <4> QED
        BY <2>3, <3>1, <4>1 DEF ParametersTo
    <3>3. CASE t[i].index = t[j].index
      <4>1. t[j].end = t[i].end
        BY <3>3 DEF Unambiguous
      <4>2. t[j].type \in {"default", "flag", "none"}
        BY <1>1 DEF Options!Option
      <4> QED
        BY <3>1, <3>3, <4>1, <4>2
    <3> QED
      BY <3>2, <3>3
  <2> HIDE DEF Pars, NewPars, Takes
  <2> QED
    BY <2>1, <2>2, <2>3
<1>4. Pars \subseteq 2 .. k /\ NewPars \subseteq 2 .. m
  BY DEF ParametersTo
<1>5. OptionsTo(t, l, jx, m) = OptionsTo(t, l, ix, k) \cup {k + 1}
  BY <1>3, <1>4 DEF OptionsTo
<1>6. OptionsTo(t, l, ix, k) \subseteq 1 .. k
  BY DEF OptionsTo
<1>7. \A n \in NewPars : n - 1 \in OptionsTo(t, l, jx, m)
  <2>1. \A n \in Pars : n - 1 \in OptionsTo(t, l, ix, k)
    BY DEF ReadTo
  <2> QED
    BY <1>3, <1>5, <2>1
<1>8. ASSUME NEW n \in OptionsTo(t, l, jx, m)
      PROVE  \E i \in DOMAIN t :
                /\ t[i].id = l[n]
                /\ t[i].type = "default" /\ ~t[i].end => n + 1 \in NewPars
  <2>1. CASE n = k + 1
    <3>1. Takes => n + 1 \in NewPars
      BY <1>3, <2>1
    <3> QED
      BY <2>1, <3>1
  <2>2. CASE n \in OptionsTo(t, l, ix, k)
    <3>1. PICK i \in DOMAIN t :
                /\ t[i].id = l[n]
                /\ t[i].type = "default" /\ ~t[i].end => n + 1 \in Pars
      BY <2>2 DEF ReadTo
    <3> QED
      BY <1>3, <3>1
  <2> QED
    BY <1>5, <2>1, <2>2
<1>9. \A v : Setting(t, l, k + 1, v) <=> v = t[j].index /\ (t[j].type # "none" \/ t[j].end)
  BY <1>2 DEF Setting
<1>10. ASSUME NEW i \in DOMAIN t
       PROVE  /\ (\E n \in OptionsTo(t, l, jx, m) : Setting(t, l, n, t[i].index)) <=> jx[t[i].index] # 0
              /\ \A n, o \in OptionsTo(t, l, jx, m) :
                    Setting(t, l, n, t[i].index) /\ Setting(t, l, o, t[i].index) => n = o
  <2> DEFINE v == t[i].index
             Old == OptionsTo(t, l, ix, k)
  <2>1. /\ (\E n \in Old : Setting(t, l, n, v)) <=> ix[v] # 0
        /\ \A n, o \in Old : Setting(t, l, n, v) /\ Setting(t, l, o, v) => n = o
    BY DEF ReadTo
  <2>2. CASE v # t[j].index
    <3>1. ~Setting(t, l, k + 1, v) /\ jx[v] = ix[v]
      BY <1>9, <2>2
    <3> QED
      BY <1>5, <2>1, <3>1
  <2>3. CASE v = t[j].index
    <3>1. \A n \in Old : ~Setting(t, l, n, v)
      BY <2>1, <2>3
    <3>2. Setting(t, l, k + 1, v) <=> t[j].type # "none" \/ t[j].end
      BY <1>9, <2>3
    <3>3. t[j].type \in {"default", "flag", "none"}
      BY <1>1 DEF Options!Option
    <3>4. jx[v] # 0 <=> t[j].type # "none" \/ t[j].end
      BY <2>3, <3>3
    <3> QED
      BY <1>5, <3>1, <3>2, <3>4
  <2> QED
    BY <2>2, <2>3
<1> QED
  BY <1>7, <1>8, <1>10 DEF ReadTo

(* The options that ended the command line.                                *)
Ended == {i \in DOMAIN args : args[i].end /\ index[args[i].index] # 0}

(* The command line is read up to k, where it ends.                        *)
ReadAll(k) ==
    /\ ReadTo(args, argv, index, k)
    /\ Ended = {} => k = Len(argv)
    /\ \A i \in Ended : k >= 1 /\ index[args[i].index] = k + 1

(* What has been looked up can be read back, nothing ended it before, and  *)
(* what is checked for required options is the whole of it.                *)
Parsed ==
    /\ args \in Tables /\ argv \in Lines
    /\ Options!TypeOK
    /\ DOMAIN index = Options!Variables
    /\ index = [v \in DOMAIN index |-> index[v]]
    /\ argPc = "zero" => arg = 1
    /\ argPc = "match" =>
          /\ Ended = {}
          /\ \A v \in DOMAIN index : index[v] <= arg - 1
          /\ ReadTo(args, argv, index, arg - 1)
    /\ argPc = "required" => \E k \in 0 .. Len(argv) : ReadAll(k)
    /\ Options!CommandLineIsRead

LEMMA TableTypes ==
    ASSUME Parsed
    PROVE  /\ args \in Seq(Options!Option) /\ argv \in Seq(STRING) /\ Unambiguous(args)
           /\ Len(argv) \in Nat /\ Len(args) \in Nat /\ DOMAIN args = 1 .. Len(args)
           /\ arg \in 1 .. Len(argv) + 1
           /\ \A i \in DOMAIN args :
                 /\ args[i] \in Options!Option /\ args[i].index \in DOMAIN index
                 /\ index[args[i].index] \in 0 .. Len(argv) + 1
<1>1. args \in Seq(Options!Option) /\ argv \in Seq(STRING) /\ Unambiguous(args)
  BY OptionsAssumption DEF OptionsAssumption, Parsed, Unambiguous
<1>2. \A i \in DOMAIN args : args[i].index \in DOMAIN index
  BY DEF Parsed, Options!Variables
<1>3. arg \in 1 .. Len(argv) + 1 /\ \A v \in DOMAIN index : index[v] \in 0 .. Len(argv) + 1
  BY DEF Parsed, Options!TypeOK
<1>4. \A i \in DOMAIN args : args[i] \in Options!Option
  BY <1>1, ElementOfSeq
<1>5. Len(argv) \in Nat /\ Len(args) \in Nat /\ DOMAIN args = 1 .. Len(args)
  BY <1>1, LenProperties
<1> QED
  BY <1>1, <1>2, <1>3, <1>4, <1>5

(* A command line that is read to its end, with all that is required, is   *)
(* read.                                                                   *)
LEMMA ReadAllIsRead ==
    ASSUME Parsed, UNCHANGED <<args, argv, index>>,
           NEW k \in 0 .. Len(argv), ReadAll(k),
           \A i \in DOMAIN args : args[i].required => index[args[i].index] # 0
    PROVE  Options!CommandLineIsRead'
<1> DEFINE Ends == {i \in DOMAIN args : args[i].end /\ index[args[i].index] # 0}
           stop == IF Ends = {} THEN Len(argv)
                   ELSE CHOOSE n \in 1 .. Len(argv) : \E i \in Ends : index[args[i].index] = n + 1
           Pars == {n \in 2 .. stop : \E i \in DOMAIN args :
                        /\ args[i].type = "default" /\ ~args[i].end
                        /\ args[i].id = argv[n - 1] /\ index[args[i].index] = n}
           Opts == 1 .. stop \ Pars
           Given(v) == {n \in Opts : \E i \in DOMAIN args :
                            args[i].id = argv[n] /\ args[i].index = v
                                /\ (args[i].type # "none" \/ args[i].end)}
<1>1. Len(argv) \in Nat /\ \A i \in DOMAIN args : index[args[i].index] \in 0 .. Len(argv) + 1
  BY TableTypes
<1>2. stop = k
  <2>1. CASE Ends = {}
    BY <2>1 DEF ReadAll, Ended
  <2>2. CASE Ends # {}
    <3>1. \A i \in Ends : k >= 1 /\ index[args[i].index] = k + 1
      BY DEF ReadAll, Ended
    <3>2. k \in 1 .. Len(argv) /\ \E i \in Ends : index[args[i].index] = k + 1
      BY <1>1, <2>2, <3>1
    <3>3. \A n \in 1 .. Len(argv) : (\E i \in Ends : index[args[i].index] = n + 1) => n = k
      BY <3>1
    <3> HIDE DEF Ends
    <3> QED
      BY <2>2, <3>2, <3>3
  <2> QED
    BY <2>1, <2>2
<1>3. Pars = ParametersTo(args, argv, index, k) /\ Opts = OptionsTo(args, argv, index, k)
  <2> HIDE DEF stop
  <2> QED
    BY <1>2 DEF ParametersTo, OptionsTo
<1>4. \A v, n : n \in Given(v) <=> n \in Opts /\ Setting(args, argv, n, v)
  <2> HIDE DEF Opts
  <2> QED
    BY DEF Setting
<1>5. /\ \A n \in Pars : n - 1 \in Opts
      /\ \A n \in Opts : \E i \in DOMAIN args :
            /\ args[i].id = argv[n]
            /\ args[i].type = "default" /\ ~args[i].end => n + 1 \in Pars
      /\ \A i \in DOMAIN args :
            /\ (\E n \in Opts : Setting(args, argv, n, args[i].index)) <=> index[args[i].index] # 0
            /\ \A m, n \in Opts :
                  Setting(args, argv, m, args[i].index) /\ Setting(args, argv, n, args[i].index) => m = n
  <2> HIDE DEF Pars, Opts
  <2> QED
    BY <1>3 DEF ReadAll, ReadTo
<1>6. ASSUME NEW i \in DOMAIN args
      PROVE  /\ Given(args[i].index) = {} <=> index[args[i].index] = 0
             /\ \A m, n \in Given(args[i].index) : m = n
             /\ args[i].required => index[args[i].index] # 0
  <2> HIDE DEF Given, Opts, Pars
  <2>1. Given(args[i].index) = {} <=> ~\E n \in Opts : Setting(args, argv, n, args[i].index)
    BY <1>4
  <2> QED
    BY <1>4, <1>5, <2>1
<1>7. Options!ReadsBack
  BY <1>5, <1>6, Zenon DEF Options!ReadsBack
<1>8. Options!ReadsBack' <=> Options!ReadsBack
  BY DEF Options!ReadsBack
<1> QED
  BY <1>7, <1>8 DEF Options!CommandLineIsRead

LEMMA StartParsed == Options!Init => Parsed
<1> SUFFICES ASSUME Options!Init PROVE Parsed
  OBVIOUS
<1>1. /\ args \in Tables /\ argv \in Lines /\ arg = 1 /\ argPc = "zero" /\ ret = 0
      /\ index \in {[v \in Options!Variables |-> n] : n \in {0, 1}}
  BY DEF Options!Init
<1>2. args \in Seq(Options!Option) /\ Len(args) \in Nat /\ Len(argv) \in Nat
  BY <1>1, OptionsAssumption, LenProperties DEF OptionsAssumption
<1>3. Options!ToSet(args) \subseteq Options!Option
  BY <1>2, ElementOfSeq DEF Options!ToSet
<1>4. PICK n \in {0, 1} : index = [v \in Options!Variables |-> n]
  BY <1>1
<1>5. DOMAIN index = Options!Variables /\ index = [v \in DOMAIN index |-> index[v]]
      /\ \A v \in DOMAIN index : index[v] \in 0 .. Len(argv) + 1
  BY <1>2, <1>4
<1>6. Options!TypeOK
  BY <1>1, <1>2, <1>3, <1>5 DEF Options!TypeOK
<1>7. Options!CommandLineIsRead
  BY <1>1 DEF Options!CommandLineIsRead
<1> QED
  BY <1>1, <1>5, <1>6, <1>7 DEF Parsed

(* The option of the argument.                                             *)
LEMMA FoundIs ==
    ASSUME Parsed
    PROVE  /\ Options!Found \in 0 .. Len(args)
           /\ Options!Found # 0 => /\ Options!Found \in DOMAIN args
                                  /\ args[Options!Found].id = argv[arg]
<1> DEFINE S == {i \in 1 .. Len(args) : args[i].id = argv[arg]}
<1>1. Options!Found = IF S # {} THEN Options!Min(S) ELSE 0
  BY DEF Options!Found, Options!SelectInSeq
<1>2. Len(args) \in Nat /\ DOMAIN args = 1 .. Len(args) /\ S \in SUBSET (1 .. Len(args))
  BY TableTypes
<1>3. /\ Options!Found \in 0 .. Len(args)
      /\ Options!Found # 0 => Options!Found \in S
  <2> HIDE DEF S
  <2> QED
    BY <1>1, <1>2, SelectsTheFirst
<1> QED
  BY <1>2, <1>3

(* An argument is accepted; ix is what becomes of the variables.           *)
LEMMA LooksUp ==
    ASSUME Parsed, Options!Fresh
    PROVE  /\ arg \in Nat /\ arg - 1 \in Nat /\ arg <= Len(argv) /\ argPc = "match"
           /\ Options!Found \in DOMAIN args /\ Options!This = args[Options!Found]
           /\ args[Options!Found].id = argv[(arg - 1) + 1]
           /\ index[args[Options!Found].index] = 0
           /\ args[Options!Found].index \in DOMAIN index
           /\ Ended = {}
           /\ \A i \in DOMAIN args : index[args[i].index] \in 0 .. arg - 1
           /\ ReadTo(args, argv, index, arg - 1)
<1>1. argPc = "match" /\ arg <= Len(argv) /\ Options!Found # 0 /\ index[Options!This.index] = 0
  BY DEF Options!Fresh, Options!Looks
<1>2. Options!Found \in DOMAIN args /\ args[Options!Found].id = argv[arg] /\ Options!This = args[Options!Found]
  BY <1>1, FoundIs DEF Options!This
<1>3. Ended = {} /\ (\A v \in DOMAIN index : index[v] <= arg - 1) /\ ReadTo(args, argv, index, arg - 1)
  BY <1>1 DEF Parsed
<1>4. arg \in Nat /\ arg >= 1 /\ (arg - 1) + 1 = arg
  BY TableTypes
<1>5. \A i \in DOMAIN args : args[i].index \in DOMAIN index /\ index[args[i].index] \in 0 .. arg - 1
  BY <1>3, <1>4, TableTypes
<1> QED
  BY <1>1, <1>2, <1>3, <1>4, <1>5

(* A variable is set: what is read then, and what it leaves alone.         *)
LEMMA SetsVariable ==
    ASSUME Parsed, Options!Fresh,
           NEW n \in Nat, index' = [index EXCEPT ![Options!This.index] = n],
           n <= Len(argv) + 1,
           UNCHANGED <<args, argv, ret>>
    PROVE  /\ DOMAIN index' = Options!Variables'
           /\ index' = [v \in DOMAIN index' |-> index'[v]]
           /\ index'[args[Options!Found].index] = n
           /\ \A i \in DOMAIN args : args[i].index # args[Options!Found].index =>
                 index'[args[i].index] = index[args[i].index]
           /\ \A v \in DOMAIN index' : index'[v] = n \/ (index'[v] = index[v] /\ v \in DOMAIN index)
           /\ arg' \in 1 .. Len(argv) + 1 => Options!TypeOK'
<1>1. /\ Options!This = args[Options!Found] /\ args[Options!Found].index \in DOMAIN index
      /\ Options!Found \in DOMAIN args
  BY LooksUp
<1>2. DOMAIN index' = DOMAIN index /\ DOMAIN index = Options!Variables /\ Options!Variables' = Options!Variables
  BY DEF Parsed, Options!Variables
<1>3. index'[args[Options!Found].index] = n
  BY <1>1
<1>4. \A v \in DOMAIN index : v # args[Options!Found].index => index'[v] = index[v]
  BY <1>1
<1>5. \A i \in DOMAIN args : args[i].index \in DOMAIN index
  BY TableTypes
<1>6. \A v \in DOMAIN index' : index'[v] = n \/ (index'[v] = index[v] /\ v \in DOMAIN index)
  BY <1>2, <1>3, <1>4
<1>7. Len(argv) \in Nat /\ \A v \in DOMAIN index' : index'[v] \in 0 .. Len(argv) + 1
  BY <1>6, TableTypes DEF Parsed, Options!TypeOK
<1>8. arg' \in 1 .. Len(argv) + 1 => Options!TypeOK'
  BY <1>7 DEF Parsed, Options!TypeOK
<1>9. index' = [v \in DOMAIN index' |-> index'[v]]
  OBVIOUS
<1> QED
  BY <1>2, <1>3, <1>4, <1>5, <1>6, <1>8, <1>9

LEMMA ZeroParses == ASSUME Parsed, Options!Zero PROVE Parsed'
<1> DEFINE S == {i \in 1 .. Len(args) : args[i].index = "null"}
           bad == IF S # {} THEN Options!Min(S) ELSE 0
           seen == IF bad = 0 THEN args ELSE SubSeq(args, 1, bad - 1)
<1>1. /\ index' = [v \in Options!Variables |-> IF \E i \in DOMAIN seen : seen[i].index = v THEN 0
                                               ELSE index[v]]
      /\ IF bad # 0 THEN argPc' = "done" /\ ret' = -bad ELSE argPc' = "match" /\ ret' = ret
      /\ args' = args /\ argv' = argv /\ arg' = arg
  BY DEF Options!Zero, Options!SelectInSeq, Options!Return
<1>2. /\ Len(args) \in Nat /\ Len(argv) \in Nat /\ arg \in 1 .. Len(argv) + 1
      /\ DOMAIN args = 1 .. Len(args)
      /\ \A v \in DOMAIN index : index[v] \in 0 .. Len(argv) + 1
  BY TableTypes DEF Parsed, Options!TypeOK
<1>3. bad \in 0 .. Len(args)
  <2>1. S \in SUBSET (1 .. Len(args))
    OBVIOUS
  <2> HIDE DEF S
  <2> QED
    BY <1>2, <2>1, SelectsTheFirst
<1>4. DOMAIN index = Options!Variables /\ Options!Variables' = Options!Variables
  BY <1>1 DEF Parsed, Options!Variables
<1>5. /\ DOMAIN index' = Options!Variables' /\ index' = [v \in DOMAIN index' |-> index'[v]]
      /\ \A v \in DOMAIN index' : index'[v] \in 0 .. Len(argv) + 1
  <2> HIDE DEF seen
  <2> QED
    BY <1>1, <1>2, <1>4
<1>6. Options!TypeOK'
  <2>1. Options!ToSet(args) \subseteq Options!Option /\ ret \in -Len(args) .. Len(argv)
    BY DEF Parsed, Options!TypeOK
  <2>2. ret' \in -Len(args) .. Len(argv)
    <3> HIDE DEF bad
    <3> QED
      BY <1>1, <1>2, <1>3, <2>1
  <2> QED
    BY <1>1, <1>2, <1>5, <2>1, <2>2 DEF Options!TypeOK
<1>7. CASE bad # 0
  <2>1. argPc' = "done" /\ ret' # 0
    <3> HIDE DEF bad
    <3> QED
      BY <1>1, <1>2, <1>3, <1>7
  <2> QED
    BY <1>1, <1>5, <1>6, <2>1 DEF Parsed, Options!CommandLineIsRead
<1>8. CASE bad = 0
  <2>1. argPc' = "match" /\ index' = [v \in Options!Variables |-> IF \E i \in DOMAIN args : args[i].index = v THEN 0
                                                                ELSE index[v]]
    BY <1>1, <1>8
  <2>2. \A v \in Options!Variables : \E i \in DOMAIN args : args[i].index = v
    BY DEF Options!Variables
  <2>3. \A v \in DOMAIN index' : index'[v] = 0
    BY <2>1, <2>2
  <2>4. \A i \in DOMAIN args : args[i].index \in DOMAIN index'
    BY <1>4, <1>5, <2>1 DEF Options!Variables
  <2>5. \A i \in DOMAIN args : index'[args[i].index] = 0
    BY <2>3, <2>4
  <2>6. Ended' = {}
    BY <1>1, <2>5 DEF Ended
  <2>7. arg = 1
    BY DEF Parsed, Options!Zero
  <2>8. ReadTo(args', argv', index', arg' - 1)
    <3>1. ParametersTo(args, argv, index', 0) = {}
      BY DEF ParametersTo
    <3>2. OptionsTo(args, argv, index', 0) = {}
      BY <3>1 DEF OptionsTo
    <3>3. arg' - 1 = 0 /\ args' = args /\ argv' = argv
      BY <1>1, <2>7
    <3>4. ReadTo(args, argv, index', 0)
      BY <2>5, <3>1, <3>2 DEF ReadTo
    <3> QED
      BY <3>3, <3>4, Zenon
  <2>9. \A v \in DOMAIN index' : index'[v] <= arg' - 1
    <3>1. arg' - 1 = 0
      BY <1>1, <2>7
    <3>2. \A n : n = 0 => n <= 0
      OBVIOUS
    <3> QED
      BY <2>3, <3>1, <3>2
  <2> QED
    BY <1>1, <1>5, <1>6, <2>1, <2>6, <2>8, <2>9 DEF Parsed, Options!CommandLineIsRead
<1> QED
  BY <1>7, <1>8

LEMMA RefuseParses == ASSUME Parsed, Options!Refuse PROVE Parsed'
<1>1. /\ args' = args /\ argv' = argv /\ arg' = arg /\ index' = index
      /\ argPc' = "done" /\ ret' = arg /\ arg <= Len(argv)
  BY DEF Options!Refuse, Options!Return, Options!Looks
<1>2. ret' # 0 /\ ret' \in -Len(args) .. Len(argv)
  BY <1>1, TableTypes
<1>3. Options!TypeOK'
  BY <1>1, <1>2 DEF Parsed, Options!TypeOK
<1> QED
  BY <1>1, <1>2, <1>3 DEF Parsed, Options!Variables, Options!CommandLineIsRead

(* What accepting an argument needs of the step to the next one.           *)
LEMMA NextArgument ==
    ASSUME Parsed, Options!Fresh, ~Options!This.end,
           UNCHANGED <<args, argv, ret, argPc>>,
           DOMAIN index' = Options!Variables', index' = [v \in DOMAIN index' |-> index'[v]],
           Options!TypeOK',
           \A v \in DOMAIN index' : index'[v] <= arg' - 1,
           \A i \in DOMAIN args : args[i].index # args[Options!Found].index =>
                 index'[args[i].index] = index[args[i].index],
           ReadTo(args, argv, index', arg' - 1)
    PROVE  Parsed'
<1>1. argPc = "match" /\ Ended = {} /\ Options!This = args[Options!Found] /\ Options!Found \in DOMAIN args
  BY LooksUp
<1>2. Unambiguous(args)
  BY TableTypes
<1>3. ASSUME NEW i \in DOMAIN args, args[i].end PROVE index'[args[i].index] = 0
  <2>1. args[i].index # args[Options!Found].index
    BY <1>1, <1>2, <1>3 DEF Unambiguous
  <2>2. index[args[i].index] = 0
    BY <1>1, <1>3 DEF Ended
  <2> QED
    BY <2>1, <2>2
<1>4. Ended' = {}
  BY <1>3 DEF Ended
<1>5. ReadTo(args', argv', index', arg' - 1)
  BY Zenon
<1> QED
  BY <1>1, <1>4, <1>5 DEF Parsed, Options!CommandLineIsRead

LEMMA FlagParses == ASSUME Parsed, Options!TakeFlag PROVE Parsed'
<1>1. /\ Options!Fresh /\ ~Options!This.end /\ Options!This.type = "flag"
      /\ index' = [index EXCEPT ![Options!This.index] = 1]
      /\ arg' = arg + 1 /\ UNCHANGED <<args, argv, argPc, ret>>
  BY DEF Options!TakeFlag
<1> DEFINE j == Options!Found
<1>2. /\ arg \in Nat /\ arg - 1 \in Nat /\ arg <= Len(argv) /\ argPc = "match"
      /\ j \in DOMAIN args /\ Options!This = args[j]
      /\ args[j].id = argv[(arg - 1) + 1]
      /\ index[args[j].index] = 0
      /\ \A i \in DOMAIN args : index[args[i].index] \in 0 .. arg - 1
      /\ ReadTo(args, argv, index, arg - 1)
  BY <1>1, LooksUp
<1>3. args \in Seq(Options!Option) /\ Unambiguous(args) /\ Len(argv) \in Nat
  BY TableTypes
<1>4. 1 \in Nat /\ 1 <= Len(argv) + 1
  BY <1>3
<1>5. /\ DOMAIN index' = Options!Variables'
      /\ index' = [v \in DOMAIN index' |-> index'[v]]
      /\ index'[args[j].index] = 1
      /\ \A i \in DOMAIN args : args[i].index # args[j].index =>
            index'[args[i].index] = index[args[i].index]
      /\ \A v \in DOMAIN index' : index'[v] = 1 \/ (index'[v] = index[v] /\ v \in DOMAIN index)
      /\ arg' \in 1 .. Len(argv) + 1 => Options!TypeOK'
  BY <1>1, <1>4, SetsVariable
<1>6. Options!TypeOK'
  BY <1>1, <1>2, <1>3, <1>5
<1>7. \A v \in DOMAIN index' : index'[v] <= arg' - 1
  <2>1. \A v \in DOMAIN index : index[v] <= arg - 1 /\ index[v] \in Int
    BY <1>2, <1>3 DEF Parsed, Options!TypeOK
  <2> QED
    BY <1>1, <1>2, <1>5, <2>1
<1>8. arg = (arg - 1) + 1 /\ arg' - 1 = arg
  BY <1>1, <1>2
<1> HIDE DEF j
<1>9. ReadTo(args, argv, index', arg)
  <2>1. ~args[j].end /\ args[j].type = "flag" /\ index'[args[j].index] = 1
    BY <1>1, <1>2, <1>5
  <2>2. PICK k \in Nat : k = arg - 1
    BY <1>2
  <2>3. arg = IF ~args[j].end /\ args[j].type = "default" THEN k + 2 ELSE k + 1
    BY <1>8, <2>1, <2>2
  <2>4. /\ \A i \in DOMAIN args : index[args[i].index] \in 0 .. k
        /\ ReadTo(args, argv, index, k)
        /\ args[j].id = argv[k + 1]
    BY <1>2, <2>2
  <2>6. /\ args[j].end => index'[args[j].index] = k + 2
        /\ ~args[j].end /\ args[j].type = "flag" => index'[args[j].index] = 1
        /\ ~args[j].end /\ args[j].type = "default" => index'[args[j].index] = k + 2
        /\ ~args[j].end /\ args[j].type = "none" => index'[args[j].index] = 0
    BY <2>1, <2>4
  <2>7. /\ \A i \in DOMAIN args : args[i].index # args[j].index => index'[args[i].index] = index[args[i].index]
        /\ j \in DOMAIN args /\ index[args[j].index] = 0
    BY <1>2, <1>5
  <2> QED
    BY <1>3, <2>3, <2>4, <2>6, <2>7, ReadOn, ZenonT(30)
<1>10. ReadTo(args, argv, index', arg' - 1)
  BY <1>8, <1>9
<1> QED
  BY <1>1, <1>5, <1>6, <1>7, <1>10, NextArgument DEF j

LEMMA ParameterParses == ASSUME Parsed, Options!TakeParameter PROVE Parsed'
<1>1. /\ Options!Fresh /\ ~Options!This.end /\ Options!This.type = "default" /\ arg + 1 <= Len(argv)
      /\ index' = [index EXCEPT ![Options!This.index] = arg + 1]
      /\ arg' = arg + 2 /\ UNCHANGED <<args, argv, argPc, ret>>
  BY DEF Options!TakeParameter
<1> DEFINE j == Options!Found
<1>2. /\ arg \in Nat /\ arg - 1 \in Nat /\ arg <= Len(argv) /\ argPc = "match"
      /\ j \in DOMAIN args /\ Options!This = args[j]
      /\ args[j].id = argv[(arg - 1) + 1]
      /\ index[args[j].index] = 0
      /\ \A i \in DOMAIN args : index[args[i].index] \in 0 .. arg - 1
      /\ ReadTo(args, argv, index, arg - 1)
  BY <1>1, LooksUp
<1>3. args \in Seq(Options!Option) /\ Unambiguous(args) /\ Len(argv) \in Nat
  BY TableTypes
<1>4. arg + 1 \in Nat /\ arg + 1 <= Len(argv) + 1
  BY <1>1, <1>2, <1>3
<1>5. /\ DOMAIN index' = Options!Variables'
      /\ index' = [v \in DOMAIN index' |-> index'[v]]
      /\ index'[args[j].index] = arg + 1
      /\ \A i \in DOMAIN args : args[i].index # args[j].index =>
            index'[args[i].index] = index[args[i].index]
      /\ \A v \in DOMAIN index' : index'[v] = arg + 1 \/ (index'[v] = index[v] /\ v \in DOMAIN index)
      /\ arg' \in 1 .. Len(argv) + 1 => Options!TypeOK'
  BY <1>1, <1>4, SetsVariable
<1>6. Options!TypeOK'
  BY <1>1, <1>2, <1>3, <1>5
<1>7. \A v \in DOMAIN index' : index'[v] <= arg' - 1
  <2>1. \A v \in DOMAIN index : index[v] <= arg - 1 /\ index[v] \in Int
    BY <1>2, <1>3 DEF Parsed, Options!TypeOK
  <2> QED
    BY <1>1, <1>2, <1>5, <2>1
<1>8. arg = (arg - 1) + 1 /\ arg' - 1 = (arg - 1) + 2 /\ arg + 1 = (arg - 1) + 2
  BY <1>1, <1>2
<1> HIDE DEF j
<1>9. ReadTo(args, argv, index', (arg - 1) + 2)
  <2>1. ~args[j].end /\ args[j].type = "default" /\ index'[args[j].index] = (arg - 1) + 2
    BY <1>1, <1>2, <1>5, <1>8
  <2>2. PICK k \in Nat : k = arg - 1
    BY <1>2
  <2>3. k + 2 = IF ~args[j].end /\ args[j].type = "default" THEN k + 2 ELSE k + 1
    BY <2>1
  <2>4. /\ \A i \in DOMAIN args : index[args[i].index] \in 0 .. k
        /\ ReadTo(args, argv, index, k)
        /\ args[j].id = argv[k + 1] /\ index'[args[j].index] = k + 2
    BY <1>2, <2>1, <2>2
  <2>6. /\ args[j].end => index'[args[j].index] = k + 2
        /\ ~args[j].end /\ args[j].type = "flag" => index'[args[j].index] = 1
        /\ ~args[j].end /\ args[j].type = "default" => index'[args[j].index] = k + 2
        /\ ~args[j].end /\ args[j].type = "none" => index'[args[j].index] = 0
    BY <2>1, <2>4
  <2>7. /\ \A i \in DOMAIN args : args[i].index # args[j].index => index'[args[i].index] = index[args[i].index]
        /\ j \in DOMAIN args /\ index[args[j].index] = 0
    BY <1>2, <1>5
  <2>5. ReadTo(args, argv, index', k + 2)
    BY <1>3, <2>3, <2>4, <2>6, <2>7, ReadOn
  <2> QED
    BY <2>2, <2>5
<1>10. ReadTo(args, argv, index', arg' - 1)
  BY <1>8, <1>9
<1> QED
  BY <1>1, <1>5, <1>6, <1>7, <1>10, NextArgument DEF j

LEMMA PassOverParses == ASSUME Parsed, Options!PassOver PROVE Parsed'
<1>1. /\ Options!Fresh /\ ~Options!This.end /\ Options!This.type = "none"
      /\ arg' = arg + 1 /\ UNCHANGED <<args, argv, index, argPc, ret>>
  BY DEF Options!PassOver
<1> DEFINE j == Options!Found
<1>2. /\ arg \in Nat /\ arg - 1 \in Nat /\ arg <= Len(argv) /\ argPc = "match"
      /\ j \in DOMAIN args /\ Options!This = args[j]
      /\ args[j].id = argv[(arg - 1) + 1]
      /\ index[args[j].index] = 0
      /\ \A i \in DOMAIN args : index[args[i].index] \in 0 .. arg - 1
      /\ ReadTo(args, argv, index, arg - 1)
  BY <1>1, LooksUp
<1>3. args \in Seq(Options!Option) /\ Unambiguous(args) /\ Len(argv) \in Nat
  BY TableTypes
<1>4. /\ DOMAIN index' = Options!Variables'
      /\ index' = [v \in DOMAIN index' |-> index'[v]]
  BY <1>1 DEF Parsed, Options!Variables
<1>5. Options!TypeOK'
  BY <1>1, <1>2, <1>3 DEF Parsed, Options!TypeOK
<1>6. \A v \in DOMAIN index' : index'[v] <= arg' - 1
  <2>1. \A v \in DOMAIN index : index[v] <= arg - 1 /\ index[v] \in Int
    BY <1>2, <1>3 DEF Parsed, Options!TypeOK
  <2> QED
    BY <1>1, <1>2, <2>1
<1>7. arg = (arg - 1) + 1 /\ arg' - 1 = arg
  BY <1>1, <1>2
<1> HIDE DEF j
<1>8. ReadTo(args, argv, index', arg)
  <2>1. ~args[j].end /\ args[j].type = "none" /\ index'[args[j].index] = 0
    BY <1>1, <1>2
  <2>2. PICK k \in Nat : k = arg - 1
    BY <1>2
  <2>3. arg = IF ~args[j].end /\ args[j].type = "default" THEN k + 2 ELSE k + 1
    BY <1>7, <2>1, <2>2
  <2>4. /\ \A i \in DOMAIN args : index[args[i].index] \in 0 .. k
        /\ ReadTo(args, argv, index, k)
        /\ args[j].id = argv[k + 1]
    BY <1>2, <2>2
  <2>5. \A i \in DOMAIN args : args[i].index # args[j].index => index'[args[i].index] = index[args[i].index]
    BY <1>1
  <2> QED
    BY <1>2, <1>3, <2>1, <2>3, <2>4, <2>5, ReadOn
<1>9. ReadTo(args, argv, index', arg' - 1)
  BY <1>7, <1>8
<1> QED
  BY <1>1, <1>4, <1>5, <1>6, <1>9, NextArgument DEF j

LEMMA EndParses == ASSUME Parsed, Options!TakeEnd PROVE Parsed'
<1>1. /\ Options!Fresh /\ Options!This.end
      /\ index' = [index EXCEPT ![Options!This.index] = arg + 1]
      /\ argPc' = "required" /\ UNCHANGED <<args, argv, arg, ret>>
  BY DEF Options!TakeEnd
<1> DEFINE j == Options!Found
<1>2. /\ arg \in Nat /\ arg - 1 \in Nat /\ arg <= Len(argv) /\ argPc = "match"
      /\ j \in DOMAIN args /\ Options!This = args[j]
      /\ args[j].id = argv[(arg - 1) + 1]
      /\ index[args[j].index] = 0 /\ Ended = {}
      /\ \A i \in DOMAIN args : index[args[i].index] \in 0 .. arg - 1
      /\ ReadTo(args, argv, index, arg - 1)
  BY <1>1, LooksUp
<1>3. args \in Seq(Options!Option) /\ Unambiguous(args) /\ Len(argv) \in Nat
  BY TableTypes
<1>4. arg + 1 \in Nat /\ arg + 1 <= Len(argv) + 1
  BY <1>2, <1>3
<1>5. /\ DOMAIN index' = Options!Variables'
      /\ index' = [v \in DOMAIN index' |-> index'[v]]
      /\ index'[args[j].index] = arg + 1
      /\ \A i \in DOMAIN args : args[i].index # args[j].index =>
            index'[args[i].index] = index[args[i].index]
      /\ arg' \in 1 .. Len(argv) + 1 => Options!TypeOK'
  BY <1>1, <1>4, SetsVariable
<1>6. Options!TypeOK' /\ arg \in 0 .. Len(argv) /\ arg >= 1
  BY <1>1, <1>2, <1>3, <1>5
<1>7. arg = (arg - 1) + 1 /\ arg + 1 = (arg - 1) + 2
  BY <1>2
<1> HIDE DEF j
<1>8. ReadTo(args, argv, index', arg)
  <2>1. args[j].end /\ index'[args[j].index] = (arg - 1) + 2
    BY <1>1, <1>2, <1>5, <1>7
  <2>2. PICK k \in Nat : k = arg - 1
    BY <1>2
  <2>3. arg = IF ~args[j].end /\ args[j].type = "default" THEN k + 2 ELSE k + 1
    BY <1>7, <2>1, <2>2
  <2>4. /\ \A i \in DOMAIN args : index[args[i].index] \in 0 .. k
        /\ ReadTo(args, argv, index, k)
        /\ args[j].id = argv[k + 1] /\ index'[args[j].index] = k + 2
    BY <1>2, <2>1, <2>2
  <2>5. \A i \in DOMAIN args : args[i].index # args[j].index => index'[args[i].index] = index[args[i].index]
    BY <1>5
  <2> QED
    BY <1>2, <1>3, <2>1, <2>3, <2>4, <2>5, ReadOn, ZenonT(30)
<1>9. ASSUME NEW i \in Ended' PROVE index'[args[i].index] = arg + 1
  <2>1. i \in DOMAIN args /\ args[i].end /\ index'[args[i].index] # 0
    BY <1>1, <1>9 DEF Ended
  <2>2. index[args[i].index] = 0
    BY <1>2, <2>1 DEF Ended
  <2> QED
    BY <1>5, <2>1, <2>2
<1>10. j \in Ended'
  <2>1. arg + 1 # 0
    BY <1>2
  <2> QED
    BY <1>1, <1>2, <1>5, <2>1 DEF Ended
<1>11. ReadAll(arg)'
  <2>1. ReadTo(args', argv', index', arg')
    BY <1>1, <1>8, Zenon
  <2>2. \A i \in Ended' : arg' >= 1 /\ index'[args'[i].index] = arg' + 1
    BY <1>1, <1>6, <1>9
  <2> QED
    BY <1>10, <2>1, <2>2 DEF ReadAll
<1>12. \E k \in 0 .. Len(argv') : ReadAll(k)'
  <2>1. arg' = arg /\ argv' = argv
    BY <1>1
  <2> DEFINE Whole(k) == ReadAll(k)'
  <2>2. ReadTo(args', argv', index', arg) /\ (Ended' = {} => arg = Len(argv'))
        /\ \A i \in Ended' : arg >= 1 /\ index'[args'[i].index] = arg + 1
    BY <1>11, <2>1 DEF ReadAll
  <2> QED
    BY <1>6, <2>1, <2>2 DEF ReadAll
<1> QED
  BY <1>1, <1>5, <1>6, <1>12 DEF Parsed, Options!CommandLineIsRead

LEMMA NoneLeftParses == ASSUME Parsed, Options!NoneLeft PROVE Parsed'
<1>1. /\ argPc = "match" /\ arg > Len(argv) /\ argPc' = "required"
      /\ args' = args /\ argv' = argv /\ arg' = arg /\ index' = index /\ ret' = ret
  BY DEF Options!NoneLeft
<1>2. arg \in 1 .. Len(argv) + 1 /\ Len(argv) \in Nat
  BY TableTypes
<1>3. arg - 1 = Len(argv)
  BY <1>1, <1>2
<1>4. ReadAll(Len(argv))
  BY <1>1, <1>3 DEF Parsed, ReadAll
<1>5. Len(argv) \in 0 .. Len(argv)
  BY <1>2
<1> QED
  BY <1>1, <1>4, <1>5
  DEF Parsed, Options!TypeOK, Options!Variables, Options!CommandLineIsRead, ReadAll, Ended

LEMMA RequiredParses == ASSUME Parsed, Options!Required PROVE Parsed'
<1> DEFINE S == {i \in 1 .. Len(args) : args[i].required /\ index[args[i].index] = 0}
           missing == IF S # {} THEN Options!Min(S) ELSE 0
<1>1. /\ args' = args /\ argv' = argv /\ arg' = arg /\ index' = index
      /\ argPc = "required" /\ argPc' = "done" /\ ret' = -missing
  BY DEF Options!Required, Options!SelectInSeq, Options!Return
<1>2. Len(args) \in Nat /\ Len(argv) \in Nat /\ DOMAIN args = 1 .. Len(args)
  BY TableTypes
<1>3. missing \in 0 .. Len(args) /\ (missing = 0 <=> S = {})
  <2>1. S \in SUBSET (1 .. Len(args))
    OBVIOUS
  <2> HIDE DEF S
  <2> QED
    BY <1>2, <2>1, SelectsTheFirst
<1>4. ret' \in -Len(args) .. Len(argv) /\ (ret' = 0 => missing = 0)
  <2> HIDE DEF missing
  <2> QED
    BY <1>1, <1>2, <1>3
<1>5. Options!TypeOK'
  BY <1>1, <1>4 DEF Parsed, Options!TypeOK
<1>6. CASE ret' = 0
  <2>1. \A i \in DOMAIN args : args[i].required => index[args[i].index] # 0
    BY <1>2, <1>3, <1>4, <1>6
  <2>2. PICK k \in 0 .. Len(argv) : ReadAll(k)
    BY <1>1 DEF Parsed
  <2>3. Options!CommandLineIsRead'
    BY <1>1, <2>1, <2>2, ReadAllIsRead
  <2> QED
    BY <1>1, <1>5, <2>3 DEF Parsed, Options!Variables
<1>7. CASE ret' # 0
  BY <1>1, <1>5, <1>7 DEF Parsed, Options!Variables, Options!CommandLineIsRead
<1> QED
  BY <1>6, <1>7

LEMMA WorkOnOptions ==
    [WorkNext]_<<part, vars, stringVars, fixedVars, argVars, controlVars>>
        => [Options!Next]_argVars
BY DEF WorkNext

(* A command line that arg_eval accepts (arg_tool.cpp:26-91) can be read   *)
(* back from the variables: every argument up to the end is an option or   *)
(* the parameter of the one before it, a variable is set exactly if one of *)
(* its options is there, once, and whatever is required is there.          *)
THEOREM AcceptedIsRead == WorkSpec => []CommandLineIsRead
<1>1. WorkInit => Parsed
  BY StartParsed DEF WorkInit
<1>2. ASSUME Parsed, [Options!Next]_argVars PROVE Parsed'
  <2>1. CASE UNCHANGED argVars
    <3>1. UNCHANGED <<args, argv, arg, index, argPc, ret>>
      BY <2>1 DEF argVars
    <3>2. Options!ReadsBack' <=> Options!ReadsBack
      BY <3>1 DEF Options!ReadsBack
    <3>3. Options!CommandLineIsRead'
      BY <1>2, <3>1, <3>2 DEF Parsed, Options!CommandLineIsRead
    <3>4. Ended' = Ended
      BY <3>1 DEF Ended
    <3>5. Options!TypeOK'
      BY <1>2, <3>1 DEF Parsed, Options!TypeOK
    <3> QED
      BY <1>2, <3>1, <3>3, <3>4, <3>5 DEF Parsed, Options!Variables, ReadAll
  <2> QED
    BY <1>2, <2>1, ZeroParses, RefuseParses, EndParses, FlagParses, ParameterParses,
       PassOverParses, NoneLeftParses, RequiredParses DEF Options!Next
<1>3. Parsed /\ [WorkNext]_<<part, vars, stringVars, fixedVars, argVars, controlVars>> => Parsed'
  BY <1>2, WorkOnOptions
<1>4. Parsed => CommandLineIsRead
  BY DEF Parsed, CommandLineIsRead
<1> QED
  BY <1>1, <1>3, <1>4, PTL DEF WorkSpec

----------------------------------------------------------------------------
(* Numbers are exact.  A word is wrapped by a multiple of the modulus, so  *)
(* that what comes out of an addition of wrapped words is right whenever   *)
(* it is in range; a scale divides half of the range, so that rounding to  *)
(* the scale never leaves it; and cutting the bits off a quotient that was *)
(* rounded towards 0 is wrong by one at the most.                          *)

(* Powers of two are well defined.                                         *)
LEMMA PowersExist ==
    \E f : f = [n \in Nat |-> IF n = 0 THEN 1 ELSE 2 * f[n - 1]]
<1> DEFINE Upto(m, f) == f = [n \in 0 .. m |-> IF n = 0 THEN 1 ELSE 2 * f[n - 1]]
           Good(m) == \E f : Upto(m, f)
           Bad == {m \in Nat : ~Good(m)}
<1>1. Good(0)
  <2>1. Upto(0, [n \in 0 .. 0 |-> 1])
    OBVIOUS
  <2> QED
    BY <2>1
<1>2. ASSUME NEW m \in Nat, m # 0, NEW f, Upto(m - 1, f)
      PROVE  Upto(m, [n \in 0 .. m |-> IF n < m THEN f[n] ELSE 2 * f[m - 1]])
  <2> DEFINE g == [n \in 0 .. m |-> IF n < m THEN f[n] ELSE 2 * f[m - 1]]
  <2>1. ASSUME NEW n \in 0 .. m
        PROVE  g[n] = IF n = 0 THEN 1 ELSE 2 * g[n - 1]
    <3>1. n # 0 => g[n - 1] = f[n - 1]
      BY <1>2
    <3>2. CASE n < m
      <4>1. n \in 0 .. m - 1 /\ g[n] = f[n]
        BY <1>2, <3>2
      <4> HIDE DEF g
      <4> QED
        BY <1>2, <3>1, <4>1
    <3>3. CASE n = m
      <4>1. g[n] = 2 * f[m - 1]
        BY <1>2, <3>3
      <4> HIDE DEF g
      <4> QED
        BY <1>2, <3>1, <3>3, <4>1
    <3> QED
      BY <1>2, <3>2, <3>3
  <2>2. DOMAIN g = 0 .. m /\ g = [n \in DOMAIN g |-> g[n]]
    OBVIOUS
  <2> HIDE DEF g
  <2>3. Upto(m, g)
    BY <2>1, <2>2
  <2> QED
    BY <2>3 DEF g
<1>3. Bad = {}
  <2> SUFFICES ASSUME Bad # {} PROVE FALSE
    OBVIOUS
  <2> HIDE DEF Good
  <2>1. PICK m \in Bad : \A k \in Bad : m <= k
    <3>1. Bad \in SUBSET Nat
      OBVIOUS
    <3> HIDE DEF Bad
    <3> QED
      BY <3>1, LeastExists
  <2>2. m \in Nat /\ ~Good(m) /\ m # 0
    BY <1>1
  <2>3. m - 1 \in Nat /\ ~(m <= m - 1)
    BY <2>2
  <2>4. Good(m - 1)
    BY <2>1, <2>3
  <2>5. PICK f : Upto(m - 1, f)
    BY <2>4 DEF Good
  <2> HIDE DEF Upto
  <2>6. \E g : Upto(m, g)
    BY <1>2, <2>2, <2>5
  <2> QED
    BY <2>2, <2>6 DEF Good
<1>4. \A m \in Nat : \E f : Upto(m, f)
  BY <1>3
<1> HIDE DEF Upto
<1> DEFINE F(m) == CHOOSE f : Upto(m, f)
<1>5. \A m \in Nat : Upto(m, F(m))
  BY <1>4
<1> HIDE DEF F
<1>6. ASSUME NEW m \in Nat
      PROVE  /\ F(m)[0] = 1
             /\ \A n \in 0 .. m : n # 0 => F(m)[n] = 2 * F(m)[n - 1]
  BY <1>5 DEF Upto
(* Longer tables agree with shorter ones.                                  *)
<1>7. ASSUME NEW m \in Nat, NEW k \in Nat, k >= m
      PROVE  \A n \in 0 .. m : F(k)[n] = F(m)[n]
  <2> DEFINE Differ == {n \in 0 .. m : F(k)[n] # F(m)[n]}
  <2> SUFFICES ASSUME Differ # {} PROVE FALSE
    OBVIOUS
  <2>1. PICK n \in Differ : \A j \in Differ : n <= j
    <3>1. Differ \in SUBSET Nat
      OBVIOUS
    <3> HIDE DEF Differ
    <3> QED
      BY <3>1, LeastExists
  <2>2. n \in 0 .. m /\ n \in 0 .. k /\ n # 0
    BY <1>6, <1>7
  <2>3. n - 1 \in 0 .. m /\ ~(n <= n - 1)
    BY <2>2
  <2>4. F(k)[n - 1] = F(m)[n - 1]
    BY <2>1, <2>3
  <2> QED
    BY <1>6, <2>1, <2>2, <2>4
<1> DEFINE f == [n \in Nat |-> F(n)[n]]
<1>8. ASSUME NEW n \in Nat
      PROVE  f[n] = IF n = 0 THEN 1 ELSE 2 * f[n - 1]
  <2>1. CASE n = 0
    BY <1>6, <2>1
  <2>2. CASE n # 0
    <3>1. n - 1 \in Nat /\ n - 1 \in 0 .. n - 1 /\ n >= n - 1 /\ n \in 0 .. n
      BY <2>2
    <3>2. F(n)[n] = 2 * F(n)[n - 1]
      BY <1>6, <2>2, <3>1
    <3>3. F(n)[n - 1] = F(n - 1)[n - 1]
      BY <1>7, <3>1
    <3> QED
      BY <2>2, <3>1, <3>2, <3>3
  <2> QED
    BY <2>1, <2>2
<1>9. f = [n \in Nat |-> IF n = 0 THEN 1 ELSE 2 * f[n - 1]]
  <2>1. DOMAIN f = Nat /\ f = [n \in DOMAIN f |-> f[n]]
    OBVIOUS
  <2> HIDE DEF f
  <2> QED
    BY <1>8, <2>1
<1> QED
  BY <1>9

P2(n) == Fixed!Power2[n]

LEMMA PowersAre ==
    /\ P2(0) = 1
    /\ \A n \in Nat : n # 0 => P2(n) = 2 * P2(n - 1)
<1> DEFINE f == CHOOSE f : f = [n \in Nat |-> IF n = 0 THEN 1 ELSE 2 * f[n - 1]]
<1>1. Fixed!Power2 = f
  BY DEF Fixed!Power2
<1>2. f = [n \in Nat |-> IF n = 0 THEN 1 ELSE 2 * f[n - 1]]
  BY PowersExist
<1> HIDE DEF f
<1> QED
  BY <1>1, <1>2 DEF P2

LEMMA PowersArePositive == \A n \in Nat : P2(n) \in Nat \ {0}
<1> DEFINE Bad == {n \in Nat : P2(n) \notin Nat \ {0}}
<1> SUFFICES ASSUME Bad # {} PROVE FALSE
  OBVIOUS
<1>1. PICK m \in Bad : \A k \in Bad : m <= k
  <2>1. Bad \in SUBSET Nat
    OBVIOUS
  <2> HIDE DEF Bad
  <2> QED
    BY <2>1, LeastExists
<1>2. m \in Nat /\ m # 0 /\ P2(m) \notin Nat \ {0}
  BY PowersAre
<1>3. m - 1 \in Nat /\ ~(m <= m - 1)
  BY <1>2
<1>4. P2(m - 1) \in Nat \ {0}
  BY <1>1, <1>3
<1>5. P2(m) = 2 * P2(m - 1)
  BY <1>2, PowersAre
<1> QED
  BY <1>2, <1>4, <1>5

LEMMA PowersAdd == \A m, n \in Nat : P2(m + n) = P2(m) * P2(n)
<1> SUFFICES ASSUME NEW m \in Nat PROVE \A n \in Nat : P2(m + n) = P2(m) * P2(n)
  OBVIOUS
<1> DEFINE Bad == {n \in Nat : P2(m + n) # P2(m) * P2(n)}
<1> SUFFICES ASSUME Bad # {} PROVE FALSE
  OBVIOUS
<1>1. PICK n \in Bad : \A k \in Bad : n <= k
  <2>1. Bad \in SUBSET Nat
    OBVIOUS
  <2> HIDE DEF Bad
  <2> QED
    BY <2>1, LeastExists
<1>2. n \in Nat /\ n # 0 /\ P2(m + n) # P2(m) * P2(n)
  BY PowersAre, PowersArePositive
<1>3. n - 1 \in Nat /\ ~(n <= n - 1) /\ m + n \in Nat /\ m + n # 0 /\ (m + n) - 1 = m + (n - 1)
  BY <1>2
<1>4. P2(m + (n - 1)) = P2(m) * P2(n - 1)
  BY <1>1, <1>3
<1>5. P2(m + n) = 2 * P2(m + (n - 1)) /\ P2(n) = 2 * P2(n - 1)
  BY <1>2, <1>3, PowersAre
<1>6. P2(m) \in Int /\ P2(n - 1) \in Int
  BY <1>3, PowersArePositive
<1> QED
  BY <1>2, <1>4, <1>5, <1>6

----------------------------------------------------------------------------
LEMMA Division ==
    ASSUME NEW n \in Int, NEW d \in Nat \ {0}
    PROVE  n = d * (n \div d) + (n % d) /\ n % d \in 0 .. d - 1 /\ n \div d \in Int
OBVIOUS

LEMMA NoSmallMultiple ==
    ASSUME NEW d \in Nat \ {0}, NEW k \in Int, d * k < d, d * k > -d
    PROVE  k = 0
<1>1. k >= 1 => d * k >= d
  OBVIOUS
<1>2. k <= -1 => d * k <= -d
  OBVIOUS
<1> QED
  BY <1>1, <1>2

LEMMA DivisionIs ==
    ASSUME NEW n \in Int, NEW d \in Nat \ {0}, NEW k \in Int, NEW r \in 0 .. d - 1, n = d * k + r
    PROVE  n \div d = k /\ n % d = r
<1> DEFINE j == n \div d
           t == n % d
<1>1. n = d * j + t /\ t \in 0 .. d - 1 /\ j \in Int
  BY Division
<1> HIDE DEF j, t
<1>2. d * (k - j) = t - r
  BY <1>1
<1>3. k - j = 0
  <2>1. t - r < d /\ t - r > -d /\ k - j \in Int
    BY <1>1
  <2> QED
    BY <1>2, <2>1, NoSmallMultiple
<1>4. k = j /\ t = r
  BY <1>1, <1>2, <1>3
<1> QED
  BY <1>4 DEF j, t

LEMMA QuotientIsLess ==
    ASSUME NEW n \in Int, NEW d \in Nat \ {0}, NEW k \in Int
    PROVE  n \div d < k <=> n < d * k
<1> DEFINE j == n \div d
           t == n % d
<1>1. n = d * j + t /\ t \in 0 .. d - 1 /\ j \in Int
  BY Division
<1> HIDE DEF j, t
<1>2. j < k => d * j + d <= d * k
  <2>1. j < k => d * (j + 1) <= d * k
    BY <1>1
  <2> QED
    BY <1>1, <2>1
<1>3. j >= k => d * j >= d * k
  BY <1>1
<1>4. j < k <=> n < d * k
  BY <1>1, <1>2, <1>3
<1> QED
  BY <1>4 DEF j

----------------------------------------------------------------------------
(* Words.                                                                  *)
M == Fixed!Modulus
H == P2(Bits - 1)

LEMMA ModulusIs ==
    /\ M = P2(Bits) /\ M \in Nat \ {0} /\ H \in Nat \ {0} /\ M = 2 * H
    /\ M \div 2 = H
<1>1. Bits \in Nat /\ Bits # 0 /\ Bits - 1 \in Nat
  BY NumbersAssumption DEF NumbersAssumption
<1>2. M = P2(Bits)
  BY DEF M, P2, Fixed!Modulus
<1>3. M \in Nat \ {0} /\ H \in Nat \ {0} /\ M = 2 * H
  BY <1>1, <1>2, PowersAre, PowersArePositive DEF H
<1> HIDE DEF M, H
<1>4. M \div 2 = H
  BY <1>3
<1> QED
  BY <1>2, <1>3, <1>4

LEMMA RangeIs ==
    ASSUME NEW n \in Int
    PROVE  Fixed!InRange(n) <=> -H <= n /\ n < H
<1>1. M = 2 * H /\ H \in Nat
  BY ModulusIs
<1>2. Fixed!InRange(n) <=> -M <= 2 * n /\ 2 * n < M
  BY DEF Fixed!InRange, M
<1> HIDE DEF M, H
<1> QED
  BY <1>1, <1>2

LEMMA WrapIs ==
    ASSUME NEW n \in Int
    PROVE  /\ Fixed!Wrap(n) \in Int /\ Fixed!InRange(Fixed!Wrap(n))
           /\ \E k \in Int : n = Fixed!Wrap(n) + M * k
<1>1. M = 2 * H /\ H \in Nat /\ M \div 2 = H /\ M \in Nat \ {0}
  BY ModulusIs
<1>2. Fixed!Wrap(n) = ((n + H) % M) - H
  BY <1>1 DEF Fixed!Wrap, M
<1> HIDE DEF M, H
<1>3. /\ n + H = M * ((n + H) \div M) + ((n + H) % M)
      /\ (n + H) % M \in 0 .. M - 1 /\ (n + H) \div M \in Int
  <2> DEFINE u == n + H
  <2>1. u \in Int
    BY <1>1
  <2> HIDE DEF u
  <2>2. u = M * (u \div M) + (u % M) /\ u % M \in 0 .. M - 1 /\ u \div M \in Int
    BY <1>1, <2>1, Division
  <2> QED
    BY <2>2 DEF u
<1> DEFINE r == (n + H) % M
           k == (n + H) \div M
<1>4. Fixed!Wrap(n) = r - H /\ n + H = M * k + r /\ r \in 0 .. M - 1 /\ k \in Int
  BY <1>2, <1>3
<1> HIDE DEF r, k
<1>5. Fixed!Wrap(n) \in Int /\ -H <= Fixed!Wrap(n) /\ Fixed!Wrap(n) < H
  BY <1>1, <1>4
<1>6. n = Fixed!Wrap(n) + M * k
  <2>1. M * k \in Int
    BY <1>1, <1>4
  <2> QED
    BY <1>1, <1>4, <2>1
<1> QED
  BY <1>4, <1>5, <1>6, RangeIs

LEMMA WrapOf ==
    ASSUME NEW n \in Int, NEW u \in Int, Fixed!InRange(u), NEW k \in Int, n = u + M * k
    PROVE  Fixed!Wrap(n) = u
<1>1. M = 2 * H /\ H \in Nat /\ M \in Nat \ {0} /\ -H <= u /\ u < H
  BY ModulusIs, RangeIs
<1>2. PICK j \in Int : n = Fixed!Wrap(n) + M * j
  BY WrapIs
<1> DEFINE w == Fixed!Wrap(n)
<1>3. w \in Int /\ -H <= w /\ w < H
  BY WrapIs, RangeIs
<1> HIDE DEF M, H, w
<1>4. M * (k - j) = w - u
  <2>1. M * (k - j) = M * k - M * j /\ M * k \in Int /\ M * j \in Int
    BY <1>1
  <2>2. n = w + M * j
    BY <1>2 DEF w
  <2> QED
    BY <1>3, <2>1, <2>2
<1>5. w - u < M /\ w - u > -M /\ k - j \in Int
  BY <1>1, <1>3
<1>6. k - j = 0
  BY <1>1, <1>4, <1>5, NoSmallMultiple
<1>7. w = u
  BY <1>1, <1>3, <1>4, <1>6
<1> QED
  BY <1>7 DEF w

LEMMA WrapKeeps ==
    ASSUME NEW n \in Int, Fixed!InRange(n)
    PROVE  Fixed!Wrap(n) = n
<1>1. n = n + M * 0
  BY ModulusIs
<1> QED
  BY <1>1, WrapOf

LEMMA WrapAdds ==
    ASSUME NEW m \in Int, NEW n \in Int, NEW sign \in {1, -1}, Fixed!InRange(m + sign * n)
    PROVE  Fixed!Wrap(Fixed!Wrap(m) + sign * Fixed!Wrap(n)) = m + sign * n
<1> DEFINE u == Fixed!Wrap(m)
           w == Fixed!Wrap(n)
<1>1. u \in Int /\ w \in Int /\ M \in Int
  BY WrapIs, ModulusIs
<1>2. PICK j \in Int, k \in Int : m = u + M * j /\ n = w + M * k
  BY WrapIs
<1> HIDE DEF u, w, M
<1>3. u + sign * w = (m + sign * n) + M * (-(j + sign * k)) /\ u + sign * w \in Int
  <2>1. M * (-(j + k)) = -(M * j) - M * k /\ M * (-(j - k)) = -(M * j) + M * k
    BY <1>1, <1>2
  <2>2. M * j \in Int /\ M * k \in Int
    BY <1>1, <1>2
  <2>3. CASE sign = 1
    BY <1>1, <1>2, <2>1, <2>2, <2>3
  <2>4. CASE sign = -1
    BY <1>1, <1>2, <2>1, <2>2, <2>4
  <2> QED
    BY <2>3, <2>4
<1>4. -(j + sign * k) \in Int /\ m + sign * n \in Int
  OBVIOUS
<1> QED
  BY <1>3, <1>4, WrapOf DEF u, w

LEMMA ShiftedIs ==
    ASSUME NEW v \in Int, Fixed!InRange(v), NEW n \in Nat
    PROVE  v \div P2(n) \in Int /\ Fixed!InRange(v \div P2(n))
<1> DEFINE d == P2(n)
           j == v \div d
<1>1. d \in Nat \ {0} /\ H \in Nat \ {0} /\ -H <= v /\ v < H
  BY PowersArePositive, ModulusIs, RangeIs
<1> HIDE DEF d, H
<1>2. j \in Int
  BY <1>1, Division
<1>3. d * H \in Int /\ d * H >= H /\ d * (-H) <= -H
  BY <1>1
<1>4. ~(j < -H) /\ j < H
  <2>1. j < -H <=> v < d * (-H)
    BY <1>1, QuotientIsLess
  <2>2. j < H <=> v < d * H
    BY <1>1, QuotientIsLess
  <2> HIDE DEF j
  <2>3. d * (-H) \in Int
    BY <1>1
  <2> QED
    BY <1>1, <1>3, <2>1, <2>2, <2>3
<1>5. -H <= j /\ j < H
  <2> HIDE DEF j
  <2> QED
    BY <1>1, <1>2, <1>4
<1> QED
  BY <1>2, <1>5, RangeIs DEF j, d

LEMMA Scaled ==
    ASSUME NEW B \in Nat \ {0}, NEW m \in Int, NEW n \in Int
    PROVE  (m * B < n * B <=> m < n) /\ (m * B = n * B <=> m = n)
<1>1. m < n => m * B < n * B
  <2>1. ASSUME m < n PROVE (n - m) * B > 0
    BY <2>1
  <2>2. (n - m) * B = n * B - m * B /\ n * B \in Int /\ m * B \in Int
    OBVIOUS
  <2> QED
    BY <2>1, <2>2
<1>2. n < m => n * B < m * B
  <2>1. ASSUME n < m PROVE (m - n) * B > 0
    BY <2>1
  <2>2. (m - n) * B = m * B - n * B /\ n * B \in Int /\ m * B \in Int
    OBVIOUS
  <2> QED
    BY <2>1, <2>2
<1>3. n * B \in Int /\ m * B \in Int
  OBVIOUS
<1> QED
  BY <1>1, <1>2, <1>3

(* What a comparison of scales p >= q looks at.                            *)
Same(m, q, n, p) == m * P2(q) = n * P2(p)

LEMMA Compared ==
    ASSUME NEW p \in Nat, NEW q \in Nat, p >= q, NEW m \in Int, NEW n \in Int
    PROVE  /\ m * P2(q) < n * P2(p) <=> m \div P2(p - q) < n
           /\ Same(m, q, n, p) <=> m = n * P2(p - q)
<1> DEFINE B == P2(q)
           K == P2(p - q)
<1>1. p - q \in Nat /\ p = q + (p - q)
  OBVIOUS
<1>2. B \in Nat \ {0} /\ K \in Nat \ {0} /\ P2(p) = B * K
  BY <1>1, PowersArePositive, PowersAdd
<1> HIDE DEF B, K
<1>3. n * P2(p) = (n * K) * B /\ n * K \in Int /\ n * K = K * n
  <2>1. n * (B * K) = (n * K) * B
    BY <1>2
  <2> QED
    BY <1>2, <2>1
<1>4. (m * B < n * P2(p) <=> m < n * K) /\ (m * B = n * P2(p) <=> m = n * K)
  BY <1>2, <1>3, Scaled
<1>5. m \div K < n <=> m < n * K
  BY <1>2, <1>3, QuotientIsLess
<1> QED
  BY <1>4, <1>5 DEF B, K, Same

LEMMA EqualAs ==
    ASSUME NEW a \in Int, Fixed!InRange(a), NEW b \in Int, NEW d \in 0 .. Bits
    PROVE  a = Fixed!Wrap(b * P2(d)) /\ a \div P2(d) = b <=> a = b * P2(d)
<1> DEFINE K == P2(d)
<1>1. d \in Nat /\ Bits - d \in Nat /\ Bits = d + (Bits - d)
  BY NumbersAssumption DEF NumbersAssumption
<1>2. K \in Nat \ {0} /\ P2(Bits - d) \in Nat \ {0} /\ M = K * P2(Bits - d) /\ M \in Nat \ {0}
  BY <1>1, PowersArePositive, PowersAdd, ModulusIs
<1>3. K <= M
  <2> HIDE DEF K, M
  <2> QED
    BY <1>2
<1> HIDE DEF K, M
<1>4. ASSUME a = b * K PROVE a = Fixed!Wrap(b * K) /\ a \div K = b
  <2>1. a = Fixed!Wrap(b * K)
    BY <1>4, WrapKeeps
  <2>2. a \div K = b
    <3>1. a = K * b + 0 /\ 0 \in 0 .. K - 1
      BY <1>2, <1>4
    <3> QED
      BY <1>2, <3>1, DivisionIs
  <2> QED
    BY <2>1, <2>2
<1>5. ASSUME a = Fixed!Wrap(b * K), a \div K = b PROVE a = b * K
  <2> DEFINE r == a % K
  <2>1. a = K * b + r /\ r \in 0 .. K - 1
    BY <1>2, <1>5, Division
  <2>2. b * K \in Int /\ b * K = K * b
    BY <1>2
  <2>3. PICK k \in Int : b * K = a + M * k
    BY <1>5, <2>2, WrapIs DEF M
  <2> HIDE DEF r
  <2>4. M * k = -r
    <3> DEFINE up == M * k
               bk == b * K
    <3>1. up \in Int /\ bk \in Int /\ r \in Int
      BY <1>2, <2>1
    <3>2. bk = a + up /\ a = bk + r
      BY <2>1, <2>2, <2>3, Zenon
    <3> HIDE DEF up, bk
    <3>3. up = -r
      BY <3>1, <3>2
    <3> QED
      BY <3>3 DEF up
  <2>5. M * k < M /\ M * k > -M
    BY <1>2, <1>3, <2>1, <2>4
  <2>6. k = 0
    BY <1>2, <2>5, NoSmallMultiple
  <2> QED
    BY <1>2, <2>2, <2>3, <2>6
<1> QED
  BY <1>4, <1>5 DEF K

----------------------------------------------------------------------------
(* Numbers.                                                                *)
Words == {v \in Int : Fixed!InRange(v)}

NumberTyped == x \in [q : Scales, val : Words]

LEMMA NumbersAre ==
    ASSUME NEW b \in Fixed!Number
    PROVE  b \in [q : Scales, val : Words]
BY NumbersAssumption DEF NumbersAssumption, Fixed!Number, Fixed!fixed32, Words

LEMMA ScalesAre == Scales \subseteq Nat /\ Scales \subseteq 0 .. Bits /\ Bits \in Nat \ {0}
                   /\ \A p, q \in Scales : p >= q => p - q \in 0 .. Bits
BY NumbersAssumption DEF NumbersAssumption

LEMMA OneAnswer ==
    ASSUME NEW g \in BOOLEAN, NEW h \in BOOLEAN, g <=> h
    PROVE  {g} = {h}
<1>1. g = h
  BY Zenon
<1> QED
  BY <1>1, Zenon

LEMMA EqualIsRight ==
    ASSUME NEW a \in [q : Scales, val : Words], NEW b \in [q : Scales, val : Words]
    PROVE  Fixed!Equal(a, b) = {a.val * P2(b.q) = b.val * P2(a.q)}
<1>1. /\ a.q \in Nat /\ b.q \in Nat /\ a.val \in Int /\ b.val \in Int
      /\ Fixed!InRange(a.val) /\ Fixed!InRange(b.val)
      /\ a.q >= b.q => a.q - b.q \in 0 .. Bits
      /\ b.q >= a.q => b.q - a.q \in 0 .. Bits
  BY ScalesAre DEF Words
<1> DEFINE exact == a.val * P2(b.q) = b.val * P2(a.q)
<1>2. CASE a.q > b.q
  <2> DEFINE found == a.val = Fixed!Wrap(b.val * P2(a.q - b.q)) /\ a.val \div P2(a.q - b.q) = b.val
  <2>1. found <=> exact
    <3>1. a.q >= b.q /\ a.q - b.q \in 0 .. Bits
      BY <1>1, <1>2
    <3>2. found <=> a.val = b.val * P2(a.q - b.q)
      BY <1>1, <3>1, EqualAs, Zenon
    <3>3. exact <=> a.val = b.val * P2(a.q - b.q)
      <4>1. Same(a.val, b.q, b.val, a.q) <=> a.val = b.val * P2(a.q - b.q)
        BY <1>1, <3>1, Compared
      <4> QED
        BY <4>1, Zenon DEF Same
    <3> QED
      BY <3>2, <3>3, Zenon
  <2>2. Fixed!Equal(a, b) = {found}
    BY <1>1, <1>2 DEF Fixed!Equal, Fixed!Shl, Fixed!Shr, P2
  <2>3. {found} = {exact}
    <3> HIDE DEF found, exact
    <3>1. found \in BOOLEAN /\ exact \in BOOLEAN
      BY Zenon DEF found, exact
    <3> QED
      BY <2>1, <3>1, OneAnswer
  <2> QED
    BY <2>2, <2>3, Zenon
<1>3. CASE a.q < b.q
  <2> DEFINE found == a.val = b.val \div P2(b.q - a.q) /\ Fixed!Wrap(a.val * P2(b.q - a.q)) = b.val
  <2>1. found <=> exact
    <3>1. (b.val = Fixed!Wrap(a.val * P2(b.q - a.q)) /\ b.val \div P2(b.q - a.q) = a.val)
          <=> b.val = a.val * P2(b.q - a.q)
      BY <1>1, <1>3, EqualAs
    <3>2. b.val * P2(a.q) = a.val * P2(b.q) <=> b.val = a.val * P2(b.q - a.q)
      <4>1. b.q >= a.q
        BY <1>1, <1>3
      <4>2. Same(b.val, a.q, a.val, b.q) <=> b.val = a.val * P2(b.q - a.q)
        BY <1>1, <4>1, Compared
      <4> QED
        BY <4>2, Zenon DEF Same
    <3> QED
      BY <3>1, <3>2, Zenon
  <2>2. Fixed!Equal(a, b) = {found}
    BY <1>1, <1>3 DEF Fixed!Equal, Fixed!Shl, Fixed!Shr, P2
  <2>3. {found} = {exact}
    <3> HIDE DEF found, exact
    <3>1. found \in BOOLEAN /\ exact \in BOOLEAN
      BY Zenon DEF found, exact
    <3> QED
      BY <2>1, <3>1, OneAnswer
  <2> QED
    BY <2>2, <2>3, Zenon
<1>4. CASE a.q = b.q
  <2> DEFINE found == a.val = b.val
  <2>1. found <=> exact
    BY <1>1, <1>4, Scaled, PowersArePositive
  <2>2. Fixed!Equal(a, b) = {found}
    BY <1>1, <1>4 DEF Fixed!Equal
  <2>3. {found} = {exact}
    <3> HIDE DEF found, exact
    <3>1. found \in BOOLEAN /\ exact \in BOOLEAN
      BY Zenon DEF found, exact
    <3> QED
      BY <2>1, <3>1, OneAnswer
  <2> QED
    BY <2>2, <2>3, Zenon
<1> QED
  BY <1>1, <1>2, <1>3, <1>4

LEMMA GreaterIsRight ==
    ASSUME NEW a \in [q : Scales, val : Words], NEW b \in [q : Scales, val : Words]
    PROVE  Fixed!Greater(a, b) = IF a.q > b.q THEN {} ELSE {a.val * P2(b.q) > b.val * P2(a.q)}
<1>1. a.q \in Nat /\ b.q \in Nat /\ a.val \in Int /\ b.val \in Int
  BY ScalesAre DEF Words
<1>2. CASE a.q > b.q
  BY <1>2 DEF Fixed!Greater
<1>3. CASE ~(a.q > b.q)
  <2> DEFINE found == a.val > b.val \div P2(b.q - a.q)
             exact == a.val * P2(b.q) > b.val * P2(a.q)
  <2>1. found <=> exact
    <3>1. b.val * P2(a.q) < a.val * P2(b.q) <=> b.val \div P2(b.q - a.q) < a.val
      <4>1. b.q >= a.q
        BY <1>1, <1>3
      <4> QED
        BY <1>1, <4>1, Compared, Zenon
    <3>2. b.val * P2(a.q) \in Int /\ a.val * P2(b.q) \in Int /\ b.val \div P2(b.q - a.q) \in Int
      <4>1. P2(a.q) \in Nat \ {0} /\ P2(b.q) \in Nat \ {0} /\ P2(b.q - a.q) \in Nat \ {0}
        BY <1>1, <1>3, PowersArePositive
      <4>2. b.val * P2(a.q) \in Int /\ a.val * P2(b.q) \in Int
        BY <1>1, <4>1
      <4>3. b.val \div P2(b.q - a.q) \in Int
        BY <1>1, <4>1, Division, Zenon
      <4> QED
        BY <4>2, <4>3, Zenon
    <3> DEFINE s == b.val * P2(a.q)
               t == a.val * P2(b.q)
               w == b.val \div P2(b.q - a.q)
    <3> HIDE DEF s, t, w
    <3>3. (s < t <=> w < a.val) => (a.val > w <=> t > s)
      BY <1>1, <3>2 DEF s, t, w
    <3> QED
      BY <3>1, <3>3 DEF s, t, w
  <2>2. Fixed!Greater(a, b) = {found}
    BY <1>3 DEF Fixed!Greater, Fixed!Shr, P2
  <2>3. {found} = {exact}
    <3> HIDE DEF found, exact
    <3>1. found \in BOOLEAN /\ exact \in BOOLEAN
      BY DEF found, exact
    <3> QED
      BY <2>1, <3>1, OneAnswer
  <2> QED
    BY <1>3, <2>2, <2>3, Zenon
<1> QED
  BY <1>2, <1>3

LEMMA LessIsRight ==
    ASSUME NEW a \in [q : Scales, val : Words], NEW b \in [q : Scales, val : Words]
    PROVE  Fixed!Less(a, b) = IF a.q < b.q THEN {} ELSE {a.val * P2(b.q) < b.val * P2(a.q)}
<1>1. a.q \in Nat /\ b.q \in Nat /\ a.val \in Int /\ b.val \in Int
  BY ScalesAre DEF Words
<1>2. CASE a.q < b.q
  BY <1>2 DEF Fixed!Less
<1>3. CASE ~(a.q < b.q)
  <2> DEFINE found == a.val \div P2(a.q - b.q) < b.val
             exact == a.val * P2(b.q) < b.val * P2(a.q)
  <2>1. found <=> exact
    <3>1. a.q >= b.q
      BY <1>1, <1>3
    <3> QED
      BY <1>1, <3>1, Compared, Zenon
  <2>2. Fixed!Less(a, b) = {found}
    BY <1>3 DEF Fixed!Less, Fixed!Shr, P2
  <2>3. {found} = {exact}
    <3> HIDE DEF found, exact
    <3>1. found \in BOOLEAN /\ exact \in BOOLEAN
      BY DEF found, exact
    <3> QED
      BY <2>1, <3>1, OneAnswer
  <2> QED
    BY <1>3, <2>2, <2>3, Zenon
<1> QED
  BY <1>2, <1>3

LEMMA OrderHolds ==
    ASSUME NumberTyped
    PROVE  Fixed!OrderIsRight
<1> SUFFICES ASSUME NEW b \in Fixed!Number
             PROVE  LET u == x.val * P2(b.q)
                        v == b.val * P2(x.q)
                    IN  /\ Fixed!Equal(x, b) = {u = v}
                        /\ Fixed!Greater(x, b) \subseteq {u > v} /\ Fixed!Less(x, b) \subseteq {u < v}
                        /\ Fixed!GreaterEqual(x, b) \subseteq {u >= v}
                        /\ u # v => Fixed!LessEqual(x, b) \subseteq {u <= v}
                        /\ x.q = b.q => Fixed!Greater(x, b) # {} /\ Fixed!Less(x, b) # {}
                              /\ Fixed!GreaterEqual(x, b) # {} /\ Fixed!LessEqual(x, b) # {}
  BY DEF Fixed!OrderIsRight, P2
<1> DEFINE u == x.val * P2(b.q)
           v == b.val * P2(x.q)
<1>1. x \in [q : Scales, val : Words] /\ b \in [q : Scales, val : Words]
  BY NumbersAre DEF NumberTyped
<1>2. Fixed!Equal(x, b) = {u = v}
  BY <1>1, EqualIsRight
<1>3. Fixed!Greater(x, b) = IF x.q > b.q THEN {} ELSE {u > v}
  BY <1>1, GreaterIsRight
<1>4. Fixed!Less(x, b) = IF x.q < b.q THEN {} ELSE {u < v}
  BY <1>1, LessIsRight
<1>5. Fixed!LessEqual(x, b) = IF b.q > x.q THEN {} ELSE {v > u}
  BY <1>1, GreaterIsRight DEF Fixed!LessEqual
<1>6. Fixed!GreaterEqual(x, b) = IF b.q > x.q THEN {} ELSE {~(v > u)}
  <2> DEFINE g == v > u
  <2>1. Fixed!Greater(b, x) = IF b.q > x.q THEN {} ELSE {g}
    BY <1>1, GreaterIsRight
  <2> HIDE DEF g
  <2>2. Fixed!GreaterEqual(x, b) = {~answer : answer \in Fixed!Greater(b, x)}
    BY Zenon DEF Fixed!GreaterEqual
  <2>3. CASE b.q > x.q
    BY <2>1, <2>2, <2>3
  <2>4. CASE ~(b.q > x.q)
    <3>1. Fixed!Greater(b, x) = {g}
      BY <2>1, <2>4, Zenon
    <3>2. {~answer : answer \in {g}} = {~g}
      OBVIOUS
    <3> QED
      BY <2>2, <2>4, <3>1, <3>2, Zenon DEF g
  <2> QED
    BY <2>3, <2>4
<1>7. x.q \in Nat /\ b.q \in Nat /\ u \in Int /\ v \in Int
  <2>1. x.q \in Nat /\ b.q \in Nat /\ x.val \in Int /\ b.val \in Int
    BY <1>1, ScalesAre DEF Words
  <2>2. P2(b.q) \in Nat /\ P2(x.q) \in Nat
    BY <2>1, PowersArePositive
  <2> QED
    BY <2>1, <2>2
<1> HIDE DEF u, v
<1>8. {v > u} = {u < v} /\ {~(v > u)} = {u >= v}
  <2> DEFINE more == v > u
             less == u < v
             notMore == ~(v > u)
             atLeast == u >= v
  <2>1. (more <=> less) /\ (notMore <=> atLeast)
    BY <1>7
  <2>2. more \in BOOLEAN /\ less \in BOOLEAN /\ notMore \in BOOLEAN /\ atLeast \in BOOLEAN
    BY DEF more, less, notMore, atLeast
  <2> HIDE DEF more, less, notMore, atLeast
  <2>3. {more} = {less} /\ {notMore} = {atLeast}
    BY <2>1, <2>2, OneAnswer
  <2> QED
    BY <2>3 DEF more, less, notMore, atLeast
<1>9. u # v => {v > u} = {u <= v}
  <2> DEFINE more == v > u
             most == u <= v
  <2>1. u # v => (more <=> most)
    BY <1>7
  <2>2. more \in BOOLEAN /\ most \in BOOLEAN
    BY DEF more, most
  <2> HIDE DEF more, most
  <2>3. u # v => {more} = {most}
    BY <2>1, <2>2, OneAnswer
  <2> QED
    BY <2>3 DEF more, most
<1>10. /\ Fixed!Greater(x, b) \subseteq {u > v} /\ Fixed!Less(x, b) \subseteq {u < v}
       /\ Fixed!GreaterEqual(x, b) \subseteq {u >= v}
       /\ u # v => Fixed!LessEqual(x, b) \subseteq {u <= v}
  <2>1. Fixed!Greater(x, b) \subseteq {u > v}
    BY <1>3, Zenon
  <2>2. Fixed!Less(x, b) \subseteq {u < v}
    BY <1>4, Zenon
  <2>3. u # v => Fixed!LessEqual(x, b) \subseteq {u <= v}
    BY <1>5, <1>9, Zenon
  <2>4. Fixed!GreaterEqual(x, b) \subseteq {~(v > u)}
    BY <1>6, Zenon
  <2> QED
    BY <1>8, <2>1, <2>2, <2>3, <2>4, Zenon
<1>11. ASSUME x.q = b.q
       PROVE  /\ Fixed!Greater(x, b) # {} /\ Fixed!Less(x, b) # {}
              /\ Fixed!GreaterEqual(x, b) # {} /\ Fixed!LessEqual(x, b) # {}
  <2>1. ~(x.q > b.q) /\ ~(x.q < b.q) /\ ~(b.q > x.q)
    BY <1>7, <1>11
  <2>2. Fixed!Greater(x, b) # {}
    BY <1>3, <2>1, Zenon
  <2>3. Fixed!Less(x, b) # {}
    BY <1>4, <2>1, Zenon
  <2>4. Fixed!GreaterEqual(x, b) # {}
    BY <1>6, <2>1, Zenon
  <2>5. Fixed!LessEqual(x, b) # {}
    BY <1>5, <2>1, Zenon
  <2> QED
    BY <2>2, <2>3, <2>4, <2>5
<1> QED
  BY <1>2, <1>10, <1>11 DEF u, v

(* Dividing in steps.                                                      *)
LEMMA Truncated ==
    ASSUME NEW n \in Int, NEW d \in Nat \ {0}
    PROVE  LET t == IF n >= 0 THEN n \div d ELSE -((-n) \div d)
           IN  t \in Int /\ (t = n \div d \/ (t = n \div d + 1 /\ n % d # 0))
<1> DEFINE j == n \div d
           r == n % d
           g == (-n) \div d
           h == (-n) % d
<1>1. n = d * j + r /\ r \in 0 .. d - 1 /\ j \in Int
  BY Division
<1>2. -n = d * g + h /\ h \in 0 .. d - 1 /\ g \in Int
  BY Division
<1>3. -g = j \/ (-g = j + 1 /\ r # 0)
  <2>1. CASE h = 0
    <3>1. n = d * (-g) + 0 /\ 0 \in 0 .. d - 1 /\ -g \in Int
      <4> HIDE DEF g, h
      <4> QED
        BY <1>2, <2>1
    <3>2. n \div d = -g
      BY <3>1, DivisionIs
    <3> QED
      BY <3>2
  <2>2. CASE h # 0
    <3>1. n = d * (-g - 1) + (d - h) /\ d - h \in 0 .. d - 1 /\ -g - 1 \in Int /\ d - h # 0
      <4> HIDE DEF g, h
      <4>1. d * (-g - 1) = -(d * g) - d /\ d * g \in Int
        BY <1>2
      <4> QED
        BY <1>2, <2>2, <4>1
    <3>2. j = -g - 1 /\ r = d - h
      BY <3>1, DivisionIs
    <3> HIDE DEF j, r, g, h
    <3> QED
      BY <1>1, <1>2, <3>1, <3>2
  <2> QED
    BY <2>1, <2>2
<1> HIDE DEF j, r, g, h
<1>4. j \in Int /\ -g \in Int
  BY <1>1, <1>2
<1> QED
  BY <1>3, <1>4 DEF j, r, g

LEMMA Quotients ==
    ASSUME NEW n \in Int, NEW d \in Nat \ {0}, NEW K \in Nat \ {0}
    PROVE  LET t == IF n * K >= 0 THEN (n * K) \div d ELSE -((-(n * K)) \div d)
           IN  /\ t \in Int
               /\ t \div K = n \div d \/ (t \div K = n \div d + 1 /\ n % d # 0)
<1> DEFINE nK == n * K
           t == IF nK >= 0 THEN nK \div d ELSE -((-nK) \div d)
           low == n \div d
           r == n % d
           s == (r * K) \div d
<1>1. n = d * low + r /\ r \in 0 .. d - 1 /\ low \in Int
  BY Division
<1>2. nK \in Int
  OBVIOUS
<1>3. t \in Int /\ (t = nK \div d \/ (t = nK \div d + 1 /\ nK % d # 0))
  <2> HIDE DEF nK
  <2> QED
    BY <1>2, Truncated
<1> HIDE DEF t, low, r
<1>4. r * K \in Nat /\ r * K < d * K /\ (r = 0 => r * K = 0)
  <2>1. (d - r) * K > 0 /\ (d - r) * K = d * K - r * K /\ r * K >= 0 /\ r * K \in Int /\ d * K \in Int
    BY <1>1
  <2> QED
    BY <1>1, <2>1
<1>5. /\ r * K = d * s + ((r * K) % d) /\ (r * K) % d \in 0 .. d - 1 /\ s \in Int
  <2> DEFINE u == r * K
  <2>1. u \in Int
    BY <1>4
  <2> HIDE DEF u
  <2>2. u = d * (u \div d) + (u % d) /\ u % d \in 0 .. d - 1 /\ u \div d \in Int
    BY <2>1, Division
  <2> QED
    BY <2>2 DEF u
<1> DEFINE h == (r * K) % d
<1>6. s < K /\ s >= 0
  <2>1. s < K
    BY <1>4, QuotientIsLess
  <2>2. ~(s < 0)
    <3>1. s < 0 <=> r * K < d * 0
      BY <1>4, QuotientIsLess
    <3> QED
      BY <1>4, <3>1
  <2> HIDE DEF s
  <2> QED
    BY <1>5, <2>1, <2>2
<1>7. nK = d * (K * low + s) + h /\ K * low + s \in Int
  <2> HIDE DEF s, h
  <2>1. nK = K * (d * low) + r * K /\ K * (d * low) = d * (K * low)
    BY <1>1
  <2>2. d * (K * low + s) = d * (K * low) + d * s /\ K * low \in Int
    BY <1>1, <1>5
  <2> DEFINE dKl == d * (K * low)
             rK == r * K
             ds == d * s
  <2>3. dKl \in Int /\ rK \in Int /\ ds \in Int /\ h \in Int
    BY <1>1, <1>5 DEF h
  <2>4. nK = dKl + rK /\ rK = ds + h /\ d * (K * low + s) = dKl + ds
    BY <1>5, <2>1, <2>2 DEF h
  <2> HIDE DEF nK, dKl, rK, ds
  <2>5. nK = d * (K * low + s) + h
    BY <2>3, <2>4
  <2> QED
    BY <1>5, <2>2, <2>5
<1>8. nK \div d = K * low + s /\ nK % d = h
  <2> HIDE DEF nK, s
  <2>1. h \in 0 .. d - 1
    BY <1>5
  <2> HIDE DEF h
  <2> QED
    BY <1>2, <1>7, <2>1, DivisionIs
<1>9. r = 0 => h = 0
  BY <1>4
<1> HIDE DEF nK, s, h
<1>10. K * low \in Int
  BY <1>1
<1>11. CASE t = K * low + s
  <2>1. t = K * low + s /\ s \in 0 .. K - 1
    BY <1>5, <1>6, <1>11
  <2>2. t \div K = low
    BY <1>1, <1>3, <2>1, DivisionIs
  <2> QED
    BY <1>3, <2>2 DEF t, nK, low
<1>12. CASE t = (K * low + s) + 1 /\ h # 0 /\ s + 1 < K
  <2>1. t = K * low + (s + 1) /\ s + 1 \in 0 .. K - 1
    BY <1>5, <1>6, <1>10, <1>12
  <2>2. t \div K = low
    BY <1>1, <1>3, <2>1, DivisionIs
  <2> QED
    BY <1>3, <2>2 DEF t, nK, low
<1>13. CASE t = (K * low + s) + 1 /\ h # 0 /\ s + 1 = K
  <2>1. t = K * (low + 1) + 0 /\ 0 \in 0 .. K - 1 /\ low + 1 \in Int
    <3>1. K * (low + 1) = K * low + K
      BY <1>1
    <3> QED
      BY <1>1, <1>5, <1>10, <1>13, <3>1
  <2>2. t \div K = low + 1
    BY <1>3, <2>1, DivisionIs
  <2>3. r # 0
    BY <1>9, <1>13
  <2> QED
    BY <1>3, <2>2, <2>3 DEF t, nK, low, r
<1>14. s + 1 < K \/ s + 1 = K
  BY <1>5, <1>6
<1> QED
  BY <1>3, <1>8, <1>11, <1>12, <1>13, <1>14

LEMMA ByOne == \A n \in Int : n \div 1 = n /\ n * 1 = n /\ n \div P2(0) = n /\ n * P2(0) = n
<1>1. P2(0) = 1
  BY PowersAre
<1>2. \A n \in Int : n \div 1 = n /\ n * 1 = n
  OBVIOUS
<1> QED
  BY <1>1, <1>2

----------------------------------------------------------------------------
(* What is exact, of an operation on a with b that gives y.                *)
ExactOf(op, a, b, q) ==
    LET S(r) == r.val * P2(q - r.q)
    IN  CASE op = "plus"   -> [n |-> S(a) + S(b), d |-> 1]
          [] op = "minus"  -> [n |-> S(a) - S(b), d |-> 1]
          [] op = "times"  -> [n |-> a.val * b.val, d |-> P2(b.q)]
          [] op = "divide" -> [n |-> (IF b.val < 0 THEN -1 ELSE 1) * a.val * P2(b.q),
                               d |-> IF b.val < 0 THEN -b.val ELSE b.val]
          [] op = "right"  -> [n |-> a.val, d |-> P2(b.val)]
          [] op = "left"   -> [n |-> a.val * P2(b.val), d |-> 1]
          [] op = "floor"  -> [n |-> (a.val \div P2(q)) * P2(q), d |-> 1]
          [] op = "ceil"   -> [n |-> -((-a.val) \div P2(q)) * P2(q), d |-> 1]
          [] op = "double" -> [n |-> a.val, d |-> 1]

IsExact(op, a, b, y) ==
    LET e == ExactOf(op, a, b, y.q)
        low == e.n \div e.d
    IN  Fixed!InRange(low) /\ (op = "divide" => Fixed!InRange(low + 1)) =>
            \/ y.val = low
            \/ op = "divide" /\ e.n % e.d # 0 /\ y.val = low + 1
            \/ op = "double" /\ e.n < 0

Numbers == [q : Scales, val : Words]

LEMMA StepIsExact ==
    ASSUME NEW op, NEW b, NEW y \in Numbers, Fixed!Becomes(op, b, y), IsExact(op, x, b, y)
    PROVE  NumberTyped' /\ Fixed!ResultsAreExact'
<1>1. x' = y /\ last' = [op |-> op, by |-> b, was |-> x]
  BY DEF Fixed!Becomes
<1>2. last'.op = op /\ last'.by = b /\ last'.was = x
  BY <1>1
<1>3. Fixed!Exact' = ExactOf(op, x, b, y.q)
  BY <1>1, <1>2, Zenon DEF Fixed!Exact, ExactOf, P2
<1>4. Fixed!ResultsAreExact'
  <2> SUFFICES LET low == Fixed!Exact'.n \div Fixed!Exact'.d
               IN  Fixed!InRange(low) /\ (last'.op = "divide" => Fixed!InRange(low + 1)) =>
                \/ x'.val = low
                \/ last'.op = "divide" /\ Fixed!Exact'.n % Fixed!Exact'.d # 0 /\ x'.val = low + 1
                \/ last'.op = "double" /\ Fixed!Exact'.n < 0
    BY Zenon DEF Fixed!ResultsAreExact
  <2> QED
    BY <1>1, <1>2, <1>3, Zenon DEF IsExact
<1>5. NumberTyped'
  BY <1>1 DEF NumberTyped, Numbers
<1> QED
  BY <1>4, <1>5

LEMMA NumbersHave ==
    ASSUME NEW a \in Numbers
    PROVE  /\ a.q \in Scales /\ a.q \in Nat /\ a.q < Bits /\ Bits - 1 - a.q \in Nat
           /\ a.val \in Int /\ Fixed!InRange(a.val)
<1>1. a.q \in Scales /\ a.val \in Int /\ Fixed!InRange(a.val)
  BY DEF Numbers, Words
<1>2. Bits \in Nat /\ a.q \in 0 .. Bits - 1
  BY <1>1, NumbersAssumption DEF NumbersAssumption
<1>3. a.q \in Nat /\ a.q < Bits /\ Bits - 1 - a.q \in Nat
  BY <1>2
<1> QED
  BY <1>1, <1>3

LEMMA IsNumber ==
    ASSUME NEW q \in Scales, NEW v \in Int, Fixed!InRange(v)
    PROVE  Fixed!fixed32(q, v) \in Numbers /\ Fixed!fixed32(q, v).q = q /\ Fixed!fixed32(q, v).val = v
BY DEF Numbers, Words, Fixed!fixed32

LEMMA WrapIsInt == ASSUME NEW n \in Int PROVE Fixed!Wrap(n) \in Int /\ Fixed!InRange(Fixed!Wrap(n))
BY WrapIs

LEMMA ConvertedUpwards ==
    ASSUME NEW a \in Numbers, NEW q \in Scales, q >= a.q
    PROVE  Fixed!Converted(a, q).val = Fixed!Wrap(a.val * P2(q - a.q)) /\ a.val * P2(q - a.q) \in Int
<1>1. a.q \in Nat /\ q \in Nat /\ a.val \in Int /\ q - a.q \in Nat
  BY NumbersHave, ScalesAre
<1>2. a.val * P2(q - a.q) \in Int
  <2>1. P2(q - a.q) \in Nat
    BY <1>1, PowersArePositive
  <2> QED
    BY <1>1, <2>1
<1>3. CASE q > a.q
  BY <1>2, <1>3 DEF Fixed!Converted, Fixed!fixed32, Fixed!Shl, P2
<1>4. CASE q = a.q
  <2>1. ~(q > a.q) /\ a.q - q = 0 /\ q - a.q = 0
    BY <1>1, <1>4
  <2>2. Fixed!Converted(a, q).val = Fixed!Wrap(a.val \div P2(0))
    BY <2>1 DEF Fixed!Converted, Fixed!fixed32, Fixed!Shr, P2
  <2>3. a.val \div P2(0) = a.val * P2(0)
    BY <1>1, ByOne
  <2> QED
    BY <1>2, <2>1, <2>2, <2>3, Zenon
<1> QED
  BY <1>1, <1>2, <1>3, <1>4

LEMMA SumsAre ==
    ASSUME NEW a \in Numbers, NEW b \in Numbers, NEW sign \in {1, -1}
    PROVE  LET y == Fixed!Sum(a, b, sign)
           IN  /\ y \in Numbers
               /\ y.q = Fixed!Larger(a.q, b.q)
               /\ LET n == a.val * P2(y.q - a.q) + sign * (b.val * P2(y.q - b.q))
                  IN  Fixed!InRange(n) => y.val = n
<1> DEFINE q == Fixed!Larger(a.q, b.q)
           m == a.val * P2(q - a.q)
           n == b.val * P2(q - b.q)
           w == Fixed!Wrap(m) + sign * Fixed!Wrap(n)
<1>1. q \in Scales /\ q >= a.q /\ q >= b.q
  BY NumbersHave DEF Fixed!Larger
<1>2. /\ Fixed!Converted(a, q).val = Fixed!Wrap(m) /\ m \in Int
      /\ Fixed!Converted(b, q).val = Fixed!Wrap(n) /\ n \in Int
  <2> HIDE DEF q
  <2> QED
    BY <1>1, ConvertedUpwards
<1>3. Fixed!Sum(a, b, sign) = Fixed!fixed32(q, Fixed!Wrap(w))
  <2>1. Fixed!Sum(a, b, sign)
            = Fixed!fixed32(q, Fixed!Wrap(Fixed!Converted(a, q).val + sign * Fixed!Converted(b, q).val))
    BY Zenon DEF Fixed!Sum
  <2> QED
    BY <1>2, <2>1, Zenon
<1> HIDE DEF m, n, q
<1>4. w \in Int
  <2>1. Fixed!Wrap(m) \in Int /\ Fixed!Wrap(n) \in Int
    BY <1>2, WrapIsInt
  <2> QED
    BY <2>1
<1>5. Fixed!InRange(m + sign * n) => Fixed!Wrap(w) = m + sign * n
  BY <1>2, WrapAdds
<1> HIDE DEF w
<1>6. Fixed!Wrap(w) \in Int /\ Fixed!InRange(Fixed!Wrap(w))
  BY <1>4, WrapIsInt
<1> DEFINE y == Fixed!Sum(a, b, sign)
<1>7. y \in Numbers /\ y.q = q /\ y.val = Fixed!Wrap(w)
  BY <1>1, <1>3, <1>6, IsNumber
<1> HIDE DEF y
<1>8. Fixed!InRange(a.val * P2(y.q - a.q) + sign * (b.val * P2(y.q - b.q)))
        => y.val = a.val * P2(y.q - a.q) + sign * (b.val * P2(y.q - b.q))
  BY <1>5, <1>7, Zenon DEF m, n
<1> QED
  BY <1>7, <1>8, Zenon DEF y, q

LEMMA PlusIsExact ==
    ASSUME NEW a \in Numbers, NEW b \in Numbers
    PROVE  /\ Fixed!Sum(a, b, 1) \in Numbers /\ Fixed!Sum(a, b, -1) \in Numbers
           /\ IsExact("plus", a, b, Fixed!Sum(a, b, 1))
           /\ IsExact("minus", a, b, Fixed!Sum(a, b, -1))
<1>1. ASSUME NEW sign \in {1, -1}, NEW op, op # "divide", NEW n \in Int,
             ExactOf(op, a, b, Fixed!Sum(a, b, sign).q) = [n |-> n, d |-> 1],
             Fixed!InRange(n) => Fixed!Sum(a, b, sign).val = n
      PROVE  IsExact(op, a, b, Fixed!Sum(a, b, sign))
  <2> DEFINE e == ExactOf(op, a, b, Fixed!Sum(a, b, sign).q)
  <2>1. e.n = n /\ e.d = 1
    BY <1>1
  <2>2. e.n \div e.d = n
    <3>1. n \div 1 = n
      BY ByOne
    <3> QED
      BY <2>1, <3>1, Zenon
  <2> HIDE DEF e
  <2>3. Fixed!InRange(e.n \div e.d) => Fixed!Sum(a, b, sign).val = e.n \div e.d
    BY <1>1, <2>2, Zenon
  <2> QED
    BY <2>3, Zenon DEF IsExact, e
<1>2. ASSUME NEW sign \in {1, -1}
      PROVE  LET q == Fixed!Sum(a, b, sign).q
             IN  /\ a.val * P2(q - a.q) \in Int /\ b.val * P2(q - b.q) \in Int
                 /\ Fixed!Sum(a, b, sign) \in Numbers
  <2>1. Fixed!Sum(a, b, sign) \in Numbers /\ Fixed!Sum(a, b, sign).q = Fixed!Larger(a.q, b.q)
    BY SumsAre
  <2> DEFINE q == Fixed!Sum(a, b, sign).q
  <2>2. q - a.q \in Nat /\ q - b.q \in Nat /\ a.val \in Int /\ b.val \in Int
    BY <2>1, NumbersHave DEF Fixed!Larger
  <2> HIDE DEF q
  <2>3. P2(q - a.q) \in Nat /\ P2(q - b.q) \in Nat
    BY <2>2, PowersArePositive
  <2>4. a.val * P2(q - a.q) \in Int /\ b.val * P2(q - b.q) \in Int
    BY <2>2, <2>3
  <2> QED
    BY <2>1, <2>4 DEF q
<1>3. IsExact("plus", a, b, Fixed!Sum(a, b, 1))
  <2> DEFINE y == Fixed!Sum(a, b, 1)
             u == a.val * P2(y.q - a.q)
             v == b.val * P2(y.q - b.q)
  <2>1. ExactOf("plus", a, b, y.q) = [n |-> u + v, d |-> 1]
    BY DEF ExactOf
  <2>2. u \in Int /\ v \in Int
    BY <1>2
  <2>3. Fixed!InRange(u + 1 * v) => y.val = u + 1 * v
    BY SumsAre
  <2>4. u + 1 * v = u + v /\ u + v \in Int
    <3> HIDE DEF u, v
    <3> QED
      BY <2>2
  <2> QED
    BY <1>1, <2>1, <2>3, <2>4, "plus" # "divide"
<1>4. IsExact("minus", a, b, Fixed!Sum(a, b, -1))
  <2> DEFINE y == Fixed!Sum(a, b, -1)
             u == a.val * P2(y.q - a.q)
             v == b.val * P2(y.q - b.q)
  <2>1. ExactOf("minus", a, b, y.q) = [n |-> u - v, d |-> 1]
    BY DEF ExactOf
  <2>2. u \in Int /\ v \in Int
    BY <1>2
  <2>3. Fixed!InRange(u + (-1) * v) => y.val = u + (-1) * v
    BY SumsAre
  <2>4. u + (-1) * v = u - v /\ u - v \in Int
    <3> HIDE DEF u, v
    <3> QED
      BY <2>2
  <2> QED
    BY <1>1, <2>1, <2>3, <2>4, "minus" # "divide"
<1>5. Fixed!Sum(a, b, 1) \in Numbers /\ Fixed!Sum(a, b, -1) \in Numbers
  BY <1>2
<1> QED
  BY <1>3, <1>4, <1>5

LEMMA TimesIsExact ==
    ASSUME NEW a \in Numbers, NEW b \in Numbers
    PROVE  LET y == Fixed!Converted(Fixed!Product(a, b), a.q)
           IN  y \in Numbers /\ IsExact("times", a, b, y)
<1> DEFINE n == a.val * b.val
           low == n \div P2(b.q)
           y == Fixed!Converted(Fixed!Product(a, b), a.q)
<1>1. /\ a.q \in Scales /\ a.q \in Nat /\ b.q \in Nat /\ n \in Int
      /\ a.val \in Int /\ b.val \in Int
  BY NumbersHave
<1>2. ~(a.q > a.q + b.q) /\ (a.q + b.q) - a.q = b.q
  BY <1>1
<1>3. y = Fixed!fixed32(a.q, Fixed!Wrap(low))
  BY <1>2 DEF Fixed!Converted, Fixed!Product, Fixed!fixed64, Fixed!Shr, P2
<1>4. P2(b.q) \in Nat \ {0}
  BY <1>1, PowersArePositive
<1> HIDE DEF n
<1>5. low \in Int
  BY <1>1, <1>4, Division
<1> HIDE DEF low, y
<1>6. y \in Numbers /\ y.val = Fixed!Wrap(low)
  BY <1>1, <1>3, <1>5, WrapIsInt, IsNumber
<1>7. Fixed!InRange(low) => y.val = low
  BY <1>5, <1>6, WrapKeeps
<1> DEFINE e == ExactOf("times", a, b, y.q)
<1>8. e = [n |-> n, d |-> P2(b.q)]
  BY DEF ExactOf, n
<1>9. e.n \div e.d = low
  BY <1>8 DEF low
<1> HIDE DEF e
<1>10. IsExact("times", a, b, y)
  BY <1>7, <1>9, Zenon DEF IsExact, e
<1> QED
  BY <1>6, <1>10 DEF y

LEMMA RightIsExact ==
    ASSUME NEW a \in Numbers, NEW n \in Nat
    PROVE  LET y == Fixed!fixed32(a.q, Fixed!Shr(a.val, n))
           IN  y \in Numbers /\ IsExact("right", a, Fixed!fixed32(0, n), y)
<1> DEFINE low == a.val \div P2(n)
           b == Fixed!fixed32(0, n)
           y == Fixed!fixed32(a.q, Fixed!Shr(a.val, n))
<1>1. a.q \in Scales /\ a.val \in Int /\ Fixed!InRange(a.val)
  BY NumbersHave
<1>2. low \in Int /\ Fixed!InRange(low)
  BY <1>1, ShiftedIs
<1>3. y = Fixed!fixed32(a.q, low)
  BY DEF Fixed!Shr, P2
<1>4. b.val = n
  BY DEF Fixed!fixed32
<1> HIDE DEF low, y, b
<1>5. y \in Numbers /\ y.val = low
  BY <1>1, <1>2, <1>3, IsNumber
<1> DEFINE e == ExactOf("right", a, b, y.q)
<1>6. e = [n |-> a.val, d |-> P2(n)]
  BY <1>4 DEF ExactOf
<1>7. e.n \div e.d = low
  BY <1>6 DEF low
<1> HIDE DEF e
<1>8. IsExact("right", a, b, y)
  BY <1>5, <1>7, Zenon DEF IsExact, e
<1> QED
  BY <1>5, <1>8 DEF y, b

LEMMA LeftIsExact ==
    ASSUME NEW a \in Numbers, NEW n \in Nat
    PROVE  LET y == Fixed!fixed32(a.q, Fixed!Wrap(Fixed!Shl(a.val, n)))
           IN  y \in Numbers /\ IsExact("left", a, Fixed!fixed32(0, n), y)
<1> DEFINE low == a.val * P2(n)
           b == Fixed!fixed32(0, n)
           y == Fixed!fixed32(a.q, Fixed!Wrap(Fixed!Shl(a.val, n)))
<1>1. a.q \in Scales /\ a.val \in Int /\ P2(n) \in Nat
  BY NumbersHave, PowersArePositive
<1>2. low \in Int
  BY <1>1
<1>3. y = Fixed!fixed32(a.q, Fixed!Wrap(low))
  BY DEF Fixed!Shl, P2
<1>4. b.val = n
  BY DEF Fixed!fixed32
<1> HIDE DEF y, b
<1>5. ExactOf("left", a, b, y.q) = [n |-> low, d |-> 1]
  BY <1>4 DEF ExactOf
<1> HIDE DEF low
<1>6. y \in Numbers /\ y.val = Fixed!Wrap(low)
  BY <1>1, <1>2, <1>3, WrapIsInt, IsNumber
<1>7. Fixed!InRange(low) => y.val = low
  BY <1>2, <1>6, WrapKeeps
<1> DEFINE e == ExactOf("left", a, b, y.q)
<1>8. e.n \div e.d = low
  BY <1>2, <1>5, ByOne
<1> HIDE DEF e
<1>9. IsExact("left", a, b, y)
  BY <1>7, <1>8, Zenon DEF IsExact, e
<1> QED
  BY <1>6, <1>9 DEF y, b

(* Half of the range is a number of whole units.                           *)
LEMMA HalfIsWhole ==
    ASSUME NEW q \in Scales
    PROVE  /\ P2(q) \in Nat \ {0} /\ (P2(q) - 1) + 1 = P2(q)
           /\ \E g \in Nat \ {0} : H = P2(q) * g
<1>1. q \in Nat /\ (Bits - 1) - q \in Nat /\ Bits - 1 = q + ((Bits - 1) - q)
  <2>1. Bits \in Nat /\ q \in 0 .. Bits - 1
    BY NumbersAssumption DEF NumbersAssumption
  <2> QED
    BY <2>1
<1>2. P2(q) \in Nat \ {0} /\ P2((Bits - 1) - q) \in Nat \ {0}
  BY <1>1, PowersArePositive
<1>3. H = P2(q) * P2((Bits - 1) - q)
  BY <1>1, PowersAdd DEF H
<1> QED
  BY <1>2, <1>3

LEMMA WholeBelow ==
    ASSUME NEW v \in Int, Fixed!InRange(v), NEW q \in Scales
    PROVE  /\ v - (v % P2(q)) = (v \div P2(q)) * P2(q)
           /\ v - (v % P2(q)) \in Int /\ Fixed!InRange(v - (v % P2(q)))
<1> DEFINE p == P2(q)
           j == v \div p
           r == v % p
<1>1. p \in Nat \ {0}
  BY HalfIsWhole
<1>2. PICK g \in Nat \ {0} : H = p * g
  BY HalfIsWhole
<1>3. -H <= v /\ v < H
  BY RangeIs
<1> HIDE DEF p
<1>4. v = p * j + r /\ r \in 0 .. p - 1 /\ j \in Int
  BY <1>1, Division
<1>5. j < -g <=> v < p * (-g)
  BY <1>1, QuotientIsLess
<1>6. p * (-g) = -H /\ H \in Nat
  BY <1>1, <1>2
<1> HIDE DEF j, r, H
<1>7. j >= -g
  BY <1>3, <1>4, <1>5, <1>6
<1>8. p * j >= p * (-g) /\ p * j \in Int /\ j * p = p * j
  <2>1. p * (j + g) >= 0 /\ p * (j + g) = p * j - p * (-g) /\ p * j \in Int /\ p * (-g) \in Int
    BY <1>1, <1>4, <1>7
  <2> QED
    BY <1>1, <1>4, <2>1
<1>9. v - r = j * p /\ v - r \in Int /\ -H <= v - r /\ v - r < H
  BY <1>1, <1>3, <1>4, <1>6, <1>8
<1>10. Fixed!InRange(v - r)
  BY <1>9, RangeIs
<1> QED
  BY <1>9, <1>10 DEF j, r, p

LEMMA FloorIsExact ==
    ASSUME NEW a \in Numbers
    PROVE  LET y == Fixed!fixed32(a.q, a.val - (a.val % ((P2(a.q) - 1) + 1)))
           IN  y \in Numbers /\ IsExact("floor", a, a, y)
<1> DEFINE low == (a.val \div P2(a.q)) * P2(a.q)
           y == Fixed!fixed32(a.q, a.val - (a.val % ((P2(a.q) - 1) + 1)))
<1>1. a.q \in Scales /\ a.val \in Int /\ Fixed!InRange(a.val)
  BY NumbersHave
<1>2. (P2(a.q) - 1) + 1 = P2(a.q)
  BY <1>1, HalfIsWhole
<1>3. low \in Int /\ Fixed!InRange(low) /\ a.val - (a.val % P2(a.q)) = low
  BY <1>1, WholeBelow
<1>4. y = Fixed!fixed32(a.q, low)
  BY <1>2, <1>3
<1> HIDE DEF y, low
<1>5. y \in Numbers /\ y.q = a.q /\ y.val = low
  BY <1>1, <1>3, <1>4, IsNumber
<1> DEFINE e == ExactOf("floor", a, a, y.q)
<1>6. e = [n |-> low, d |-> 1]
  BY <1>5 DEF ExactOf, low
<1> HIDE DEF e
<1>7. e.n \div e.d = low
  BY <1>3, <1>6, ByOne
<1>8. IsExact("floor", a, a, y)
  BY <1>5, <1>7, Zenon DEF IsExact, e
<1> QED
  BY <1>5, <1>8 DEF y

LEMMA CeilIsExact ==
    ASSUME NEW a \in Numbers
    PROVE  LET w == Fixed!Wrap(a.val + (P2(a.q) - 1))
               y == Fixed!fixed32(a.q, w - (w % ((P2(a.q) - 1) + 1)))
           IN  y \in Numbers /\ IsExact("ceil", a, a, y)
<1> DEFINE p == P2(a.q)
           v == a.val
           w == Fixed!Wrap(v + (p - 1))
           c == -((-v) \div p)
           s == (-v) % p
           y == Fixed!fixed32(a.q, w - (w % ((p - 1) + 1)))
<1>1. a.q \in Scales /\ v \in Int /\ Fixed!InRange(v) /\ -H <= v /\ v < H
  BY NumbersHave, RangeIs
<1>2. p \in Nat \ {0} /\ (p - 1) + 1 = p
  BY <1>1, HalfIsWhole
<1>3. PICK g \in Nat \ {0} : H = p * g
  BY <1>1, HalfIsWhole
<1>4. v + (p - 1) \in Int
  BY <1>1, <1>2
<1>5. w \in Int /\ Fixed!InRange(w)
  BY <1>4, WrapIsInt
<1>6. /\ w - (w % p) = (w \div p) * p
      /\ w - (w % p) \in Int /\ Fixed!InRange(w - (w % p))
  BY <1>1, <1>5, WholeBelow
<1>7. y = Fixed!fixed32(a.q, w - (w % p))
  BY <1>2, Zenon
<1> HIDE DEF y
<1>8. y \in Numbers /\ y.q = a.q /\ y.val = w - (w % p)
  BY <1>1, <1>6, <1>7, IsNumber
<1>9. c \in Int /\ v = p * c - s /\ s \in 0 .. p - 1
  <2> DEFINE u == -v
             j == u \div p
             t == u % p
  <2>1. u \in Int /\ v = -u
    BY <1>1
  <2> HIDE DEF u, v, p
  <2>2. u = p * j + t /\ t \in 0 .. p - 1 /\ j \in Int
    BY <1>2, <2>1, Division
  <2> HIDE DEF j, t
  <2>3. p * (-j) = -(p * j) /\ p * j \in Int
    BY <1>2, <2>2
  <2>4. v = p * (-j) - t /\ -j \in Int /\ t \in 0 .. p - 1
    BY <2>1, <2>2, <2>3
  <2> QED
    BY <2>4 DEF j, t, u
<1> DEFINE low == c * p
<1> HIDE DEF c, s, p, v
<1>10. low \in Int /\ low = p * c
  BY <1>2, <1>9
<1>11. ASSUME Fixed!InRange(low) PROVE y.val = low
  <2>1. -H <= low /\ low < H
    BY <1>10, <1>11, RangeIs
  <2>2. c < g
    <3>1. ASSUME c >= g PROVE p * c >= p * g
      <4>1. p * (c - g) >= 0 /\ p * (c - g) = p * c - p * g /\ p * c \in Int /\ p * g \in Int
        BY <1>2, <1>9, <3>1
      <4> QED
        BY <4>1
    <3>2. p * g \in Int
      BY <1>2
    <3> HIDE DEF low, H
    <3> QED
      BY <1>3, <1>9, <1>10, <2>1, <3>1, <3>2
  <2>3. low + p <= H
    <3>1. p * (g - c - 1) >= 0 /\ p * (g - c - 1) = p * g - p * c - p /\ p * c \in Int /\ p * g \in Int
      BY <1>2, <1>9, <2>2
    <3> HIDE DEF low, H
    <3> QED
      BY <1>2, <1>3, <1>10, <3>1
  <2>4. v + (p - 1) = low + ((p - 1) - s) /\ (p - 1) - s \in 0 .. p - 1
    <3> HIDE DEF low
    <3> QED
      BY <1>1, <1>2, <1>9, <1>10
  <2>5. -H <= v + (p - 1) /\ v + (p - 1) < H
    <3>1. H \in Int
      BY ModulusIs
    <3> HIDE DEF low, H
    <3> QED
      BY <1>2, <1>4, <1>10, <2>1, <2>3, <2>4, <3>1
  <2>6. Fixed!InRange(v + (p - 1))
    BY <1>4, <2>5, RangeIs
  <2>7. w = v + (p - 1)
    BY <1>4, <2>6, WrapKeeps
  <2>8. w = p * c + ((p - 1) - s)
    BY <1>10, <2>4, <2>7, Zenon
  <2>9. w % p = (p - 1) - s
    BY <1>2, <1>5, <1>9, <2>4, <2>8, DivisionIs, ZenonT(30)
  <2> HIDE DEF low, w
  <2>10. w - (w % p) = low
    BY <1>2, <1>10, <2>4, <2>7, <2>9
  <2> QED
    BY <1>8, <2>10
<1> DEFINE e == ExactOf("ceil", a, a, y.q)
<1>12. e = [n |-> low, d |-> 1]
  <2>1. e = [n |-> -((-a.val) \div P2(a.q)) * P2(a.q), d |-> 1]
    BY <1>8 DEF ExactOf
  <2>2. -((-a.val) \div P2(a.q)) * P2(a.q) = low
    <3>1. \A j, k \in Int : -j * k = (-j) * k
      OBVIOUS
    <3>2. (-a.val) \div P2(a.q) \in Int /\ P2(a.q) \in Int
      <4>1. -a.val \in Int /\ P2(a.q) \in Nat \ {0}
        BY <1>1, <1>2 DEF v, p
      <4> QED
        BY <4>1, Division
    <3> QED
      BY <3>1, <3>2, Zenon DEF c, p, v
  <2> QED
    BY <2>1, <2>2
<1> HIDE DEF e, low
<1>13. e.n \div e.d = low
  BY <1>10, <1>12, ByOne
<1>14. IsExact("ceil", a, a, y)
  BY <1>11, <1>13, Zenon DEF IsExact, e
<1> QED
  BY <1>8, <1>14 DEF y, p, v

LEMMA DoubleIsExact ==
    ASSUME NEW a \in Numbers
    PROVE  LET y == Fixed!fixed32(a.q, IF a.val < 0 THEN a.val + 1 ELSE a.val)
           IN  y \in Numbers /\ IsExact("double", a, a, y)
<1> DEFINE v == a.val
           t == IF v < 0 THEN v + 1 ELSE v
           y == Fixed!fixed32(a.q, t)
<1>1. a.q \in Scales /\ v \in Int /\ Fixed!InRange(v) /\ -H <= v /\ v < H
  BY NumbersHave, RangeIs
<1>2. t \in Int /\ -H <= t /\ t < H
  <2>1. H \in Nat \ {0}
    BY ModulusIs
  <2> HIDE DEF v, H
  <2> QED
    BY <1>1, <2>1
<1> HIDE DEF t
<1>3. y \in Numbers /\ y.val = t
  BY <1>1, <1>2, RangeIs, IsNumber
<1> HIDE DEF y
<1> DEFINE e == ExactOf("double", a, a, y.q)
<1>4. e = [n |-> v, d |-> 1]
  BY DEF ExactOf
<1> HIDE DEF e, v
<1>5. e.n \div e.d = v /\ e.n = v
  BY <1>1, <1>4, ByOne
<1>6. v < 0 \/ y.val = v
  BY <1>1, <1>3 DEF t
<1>7. IsExact("double", a, a, y)
  BY <1>5, <1>6, Zenon DEF IsExact, e
<1> QED
  BY <1>3, <1>7 DEF y, t, v

(* A quotient towards 0 of n * 2^k by b, of which 2^k is cut off.          *)
LEMMA Towards0Is ==
    ASSUME NEW n \in Int, NEW b \in Int, b # 0
    PROVE  LET d == IF b < 0 THEN -b ELSE b
               m == IF b < 0 THEN -n ELSE n
           IN  /\ d \in Nat \ {0} /\ m \in Int
               /\ Fixed!Towards0(n, b) = IF m >= 0 THEN m \div d ELSE -((-m) \div d)
<1> DEFINE d == IF b < 0 THEN -b ELSE b
           m == IF b < 0 THEN -n ELSE n
<1>1. d \in Nat \ {0} /\ m \in Int
  OBVIOUS
<1>2. n * b >= 0 <=> m >= 0
  <2>1. CASE b > 0
    <3>1. n >= 0 => n * b >= 0
      BY <2>1
    <3>2. n < 0 => n * b < 0
      BY <2>1
    <3>3. n * b \in Int
      OBVIOUS
    <3> QED
      BY <2>1, <3>1, <3>2, <3>3
  <2>2. CASE b < 0
    <3>1. n <= 0 => n * b >= 0
      BY <2>2
    <3>2. n > 0 => n * b < 0
      BY <2>2
    <3>3. n * b \in Int
      OBVIOUS
    <3> QED
      BY <2>2, <3>1, <3>2, <3>3
  <2> QED
    BY <2>1, <2>2
<1>3. CASE n * b >= 0
  BY <1>2, <1>3 DEF Fixed!Towards0
<1>4. CASE ~(n * b >= 0)
  <2>1. (IF n < 0 THEN -n ELSE n) = -m
    <3>1. ~(m >= 0)
      BY <1>2, <1>4
    <3> QED
      BY <3>1
  <2>2. Fixed!Towards0(n, b) = -((IF n < 0 THEN -n ELSE n) \div d)
    BY <1>4 DEF Fixed!Towards0
  <2> QED
    BY <1>1, <1>2, <1>4, <2>1, <2>2
<1> QED
  BY <1>1, <1>3, <1>4

LEMMA DivideIsExact ==
    ASSUME NEW a \in Numbers, NEW b \in Numbers, b.val # 0
    PROVE  LET y == Fixed!Converted(Fixed!Quotient(a, b), a.q)
           IN  y \in Numbers /\ IsExact("divide", a, b, y)
<1> DEFINE k == Bits - b.q
           K == P2(k)
           d == IF b.val < 0 THEN -b.val ELSE b.val
           n == (IF b.val < 0 THEN -1 ELSE 1) * a.val * P2(b.q)
           t == Fixed!Towards0(a.val * P2(Bits), b.val)
           y == Fixed!Converted(Fixed!Quotient(a, b), a.q)
<1>1. /\ a.q \in Scales /\ a.q \in Nat /\ b.q \in Nat /\ b.q < Bits /\ Bits \in Nat
      /\ a.val \in Int /\ b.val \in Int
  BY NumbersHave, ScalesAre
<1>2. k \in Nat /\ Bits = b.q + k /\ ~(a.q > a.q + Bits - b.q) /\ (a.q + Bits - b.q) - a.q = k
  BY <1>1
<1>3. y = Fixed!fixed32(a.q, Fixed!Wrap(t \div K))
  <2>1. Fixed!Quotient(a, b).q = a.q + Bits - b.q /\ Fixed!Quotient(a, b).val = t
    BY DEF Fixed!Quotient, Fixed!fixed64, Fixed!Shl, P2
  <2> HIDE DEF t
  <2>2. Fixed!Converted(Fixed!Quotient(a, b), a.q)
            = Fixed!fixed32(a.q, Fixed!Wrap(t \div P2((a.q + Bits - b.q) - a.q)))
    BY <1>2, <2>1 DEF Fixed!Converted, Fixed!Shr, P2
  <2> QED
    BY <1>2, <2>2, Zenon
<1>4. P2(b.q) \in Nat \ {0} /\ K \in Nat \ {0} /\ P2(Bits) = P2(b.q) * K /\ P2(Bits) \in Nat \ {0}
  <2>1. P2(b.q) \in Nat \ {0} /\ K \in Nat \ {0}
    BY <1>1, <1>2, PowersArePositive
  <2>2. P2(b.q + k) = P2(b.q) * K
    BY <1>1, <1>2, PowersAdd
  <2> HIDE DEF K
  <2>3. P2(Bits) = P2(b.q) * K /\ P2(b.q) * K \in Nat \ {0}
    BY <1>2, <2>1, <2>2
  <2> QED
    BY <2>1, <2>3
<1> HIDE DEF K, k, y
<1>5. n \in Int /\ d \in Nat \ {0}
  <2>1. (IF b.val < 0 THEN -1 ELSE 1) * a.val \in Int
    BY <1>1
  <2>2. n \in Int
    BY <1>4, <2>1
  <2> QED
    BY <1>1, <2>2
(* The numerator, shifted, is that of the exact quotient and the bits that *)
(* are cut off.                                                            *)
<1>6. /\ a.val * P2(Bits) \in Int
      /\ n * K = IF b.val < 0 THEN -(a.val * P2(Bits)) ELSE a.val * P2(Bits)
  <2> DEFINE p == P2(b.q)
             v == a.val
  <2>1. v * (p * K) = (v * p) * K /\ v * (p * K) \in Int
    BY <1>1, <1>4
  <2>2. CASE b.val < 0
    <3>1. n = -(v * p) /\ v * p \in Int
      <4>1. n = (-1) * v * p
        BY <2>2
      <4> HIDE DEF n, v, p
      <4>2. v \in Int /\ p \in Int
        BY <1>1, <1>4 DEF v, p
      <4> QED
        BY <4>1, <4>2
    <3> HIDE DEF n, v, p
    <3>2. (-(v * p)) * K = -((v * p) * K)
      BY <1>4, <3>1
    <3> QED
      BY <1>4, <2>1, <2>2, <3>1, <3>2, Zenon DEF v, p
  <2>3. CASE ~(b.val < 0)
    <3>1. n = v * p
      <4>1. n = 1 * v * p
        BY <2>3
      <4> HIDE DEF n, v, p
      <4>2. v \in Int /\ p \in Int
        BY <1>1, <1>4 DEF v, p
      <4> QED
        BY <4>1, <4>2
    <3> HIDE DEF n, v, p
    <3> QED
      BY <1>4, <2>1, <2>3, <3>1, Zenon DEF v, p
  <2> QED
    BY <2>2, <2>3
<1> DEFINE nK == n * K
<1>7. t = IF nK >= 0 THEN nK \div d ELSE -((-nK) \div d)
  <2> DEFINE u == a.val * P2(Bits)
             m == IF b.val < 0 THEN -u ELSE u
  <2>1. m = nK
    BY <1>6, Zenon
  <2>2. t = IF m >= 0 THEN m \div d ELSE -((-m) \div d)
    <3>1. u \in Int
      BY <1>6
    <3> HIDE DEF u
    <3>2. Fixed!Towards0(u, b.val) = IF m >= 0 THEN m \div d ELSE -((-m) \div d)
      BY <1>1, <3>1, Towards0Is
    <3> QED
      BY <3>2 DEF u
  <2> HIDE DEF m, nK, d, t
  <2> QED
    BY <2>1, <2>2
<1>8. t \in Int /\ (t \div K = n \div d \/ (t \div K = n \div d + 1 /\ n % d # 0))
  <2> HIDE DEF n, d, t
  <2> QED
    BY <1>4, <1>5, <1>7, Quotients
<1> HIDE DEF t, nK
<1> DEFINE e == ExactOf("divide", a, b, y.q)
<1>9. e.n = n /\ e.d = d
  BY DEF ExactOf
<1> HIDE DEF n, d, e
<1>10. t \div K \in Int
  BY <1>4, <1>8, Division
<1>11. y \in Numbers /\ y.val = Fixed!Wrap(t \div K)
  BY <1>1, <1>3, <1>10, WrapIsInt, IsNumber
<1>12. ASSUME Fixed!InRange(n \div d), Fixed!InRange(n \div d + 1)
       PROVE  y.val = n \div d \/ (n % d # 0 /\ y.val = n \div d + 1)
  <2>1. Fixed!InRange(t \div K)
    BY <1>8, <1>12, Zenon
  <2>2. y.val = t \div K
    BY <1>10, <1>11, <2>1, WrapKeeps
  <2> QED
    BY <1>8, <2>2, Zenon
<1>13. IsExact("divide", a, b, y)
  BY <1>9, <1>12, Zenon DEF IsExact, e
<1> QED
  BY <1>11, <1>13 DEF y

----------------------------------------------------------------------------
FixedInv == NumberTyped /\ Fixed!ResultsAreExact

LEMMA FixedKept ==
    ASSUME FixedInv, UNCHANGED fixedVars
    PROVE  FixedInv'
<1>1. x' = x /\ last' = last /\ lost' = lost
  BY DEF fixedVars
<1>2. NumberTyped'
  BY <1>1 DEF FixedInv, NumberTyped
<1>3. Fixed!Exact' = Fixed!Exact
  BY <1>1, Zenon DEF Fixed!Exact
<1>4. Fixed!ResultsAreExact'
  BY <1>1, <1>3, Zenon DEF FixedInv, Fixed!ResultsAreExact
<1> QED
  BY <1>2, <1>4 DEF FixedInv

LEMMA FixedStep ==
    ASSUME FixedInv, Fixed!Next
    PROVE  FixedInv'
<1>1. x \in Numbers
  BY DEF FixedInv, NumberTyped, Numbers
<1>2. ASSUME NEW op, NEW b, NEW y, Fixed!Becomes(op, b, y), y \in Numbers, IsExact(op, x, b, y)
      PROVE  FixedInv'
  BY <1>2, StepIsExact DEF FixedInv
<1>3. ASSUME Fixed!Lost PROVE FixedInv'
  <2>1. x' = x /\ lost' = TRUE
    BY <1>3 DEF Fixed!Lost
  <2>2. NumberTyped'
    BY <2>1 DEF FixedInv, NumberTyped
  <2>3. Fixed!ResultsAreExact'
    BY <2>1, Zenon DEF Fixed!ResultsAreExact
  <2> QED
    BY <2>2, <2>3 DEF FixedInv
<1>4. ASSUME NEW b \in Fixed!Number
      PROVE  /\ Fixed!Plus(b, 1, "plus") => FixedInv'
             /\ Fixed!Plus(b, -1, "minus") => FixedInv'
             /\ Fixed!PlusAssign(b, 1, "plus") => FixedInv'
             /\ Fixed!PlusAssign(b, -1, "minus") => FixedInv'
             /\ Fixed!TimesAssign(b) => FixedInv'
             /\ Fixed!DivideAssign(b) => FixedInv'
  <2>1. b \in Numbers
    BY NumbersAre DEF Numbers
  <2>2. ASSUME Fixed!Becomes("plus", b, Fixed!Sum(x, b, 1)) PROVE FixedInv'
    BY <1>1, <1>2, <2>1, <2>2, PlusIsExact
  <2>3. ASSUME Fixed!Becomes("minus", b, Fixed!Sum(x, b, -1)) PROVE FixedInv'
    BY <1>1, <1>2, <2>1, <2>3, PlusIsExact
  <2>4. ASSUME Fixed!TimesAssign(b) PROVE FixedInv'
    BY <1>1, <1>2, <2>1, <2>4, TimesIsExact DEF Fixed!TimesAssign
  <2>5. ASSUME Fixed!DivideAssign(b) PROVE FixedInv'
    <3>1. CASE Fixed!Lost
      BY <1>3, <3>1
    <3>2. CASE ~Fixed!Traps(x, b) /\ Fixed!Becomes("divide", b, Fixed!Converted(Fixed!Quotient(x, b), x.q))
      <4>1. b.val # 0
        BY <3>2 DEF Fixed!Traps
      <4> QED
        BY <1>1, <1>2, <2>1, <3>2, <4>1, DivideIsExact
    <3> QED
      BY <2>5, <3>1, <3>2 DEF Fixed!DivideAssign
  <2>6. Fixed!PlusAssign(b, 1, "plus") => FixedInv'
    BY <1>3, <2>2 DEF Fixed!PlusAssign
  <2>7. Fixed!PlusAssign(b, -1, "minus") => FixedInv'
    BY <1>3, <2>3 DEF Fixed!PlusAssign
  <2>8. Fixed!Plus(b, 1, "plus") => FixedInv'
    BY <2>2 DEF Fixed!Plus
  <2>9. Fixed!Plus(b, -1, "minus") => FixedInv'
    BY <2>3 DEF Fixed!Plus
  <2> QED
    BY <2>4, <2>5, <2>6, <2>7, <2>8, <2>9
<1>5. ASSUME NEW n \in 0 .. 2 PROVE Fixed!ShiftRight(n) \/ Fixed!ShiftLeft(n) => FixedInv'
  <2>1. n \in Nat
    OBVIOUS
  <2>2. ASSUME Fixed!ShiftRight(n) PROVE FixedInv'
    BY <1>1, <1>2, <2>1, <2>2, RightIsExact DEF Fixed!ShiftRight
  <2>3. ASSUME Fixed!ShiftLeft(n) PROVE FixedInv'
    BY <1>1, <1>2, <2>1, <2>3, LeftIsExact DEF Fixed!ShiftLeft
  <2> QED
    BY <2>2, <2>3
<1>6. Fixed!Mask = P2(x.q) - 1
  BY DEF Fixed!Mask, P2
<1>7. ASSUME Fixed!floor PROVE FixedInv'
  BY <1>1, <1>2, <1>6, <1>7, FloorIsExact DEF Fixed!floor
<1>8. ASSUME Fixed!ceil PROVE FixedInv'
  BY <1>1, <1>2, <1>6, <1>8, CeilIsExact DEF Fixed!ceil
<1>9. ASSUME Fixed!ThroughDouble PROVE FixedInv'
  BY <1>1, <1>2, <1>9, DoubleIsExact DEF Fixed!ThroughDouble
<1> QED
  BY <1>4, <1>5, <1>7, <1>8, <1>9, Zenon DEF Fixed!Next

(* Comparisons that return are right, and the results of fixed point       *)
(* arithmetic that can be represented are exact, for integers of every     *)
(* width, every scale and every operand (fixed.h:95-242).                  *)
THEOREM ResultsAreTheExactOnes == WorkSpec => []NumbersAreExact
<1>1. WorkInit => FixedInv
  <2> SUFFICES ASSUME WorkInit PROVE FixedInv
    OBVIOUS
  <2>1. x \in Fixed!Number /\ last = [op |-> "none"]
    BY DEF WorkInit, Fixed!Init
  <2>2. NumberTyped
    BY <2>1, NumbersAre DEF NumberTyped
  <2>3. last.op = "none"
    BY <2>1
  <2>4. Fixed!ResultsAreExact
    BY <2>3, Zenon DEF Fixed!ResultsAreExact
  <2> QED
    BY <2>2, <2>4 DEF FixedInv
<1>2. FixedInv /\ [WorkNext]_<<part, vars, stringVars, fixedVars, argVars, controlVars>> => FixedInv'
  <2> SUFFICES ASSUME FixedInv,
                      [WorkNext]_<<part, vars, stringVars, fixedVars, argVars, controlVars>>
               PROVE  FixedInv'
    OBVIOUS
  <2>1. Fixed!Next \/ UNCHANGED fixedVars
    BY Zenon DEF WorkNext
  <2> QED
    BY <2>1, FixedStep, FixedKept
<1>3. FixedInv => NumbersAreExact
  BY OrderHolds DEF FixedInv, NumbersAreExact
<1> QED
  BY <1>1, <1>2, <1>3, PTL DEF WorkSpec

----------------------------------------------------------------------------
(* Texts.  What a helper keeps of a text is a recursion over its places;   *)
(* V are the values, U the characters.                                     *)
Follows(f, s, V, base, step) ==
    /\ f[0] = base
    /\ \A n \in 1 .. Len(s) : f[n - 1] \in V => f[n] = step[<<f[n - 1], s[n]>>]

Steps(step, V, base, U) == base \in V /\ step \in [V \X U -> V]

Leads(f, s, V, base, step) ==
    /\ f \in [0 .. Len(s) -> V] /\ f[0] = base
    /\ \A n \in 1 .. Len(s) : f[n - 1] \in V /\ f[n] = step[<<f[n - 1], s[n]>>]

(* One that stays among the values can be followed.                        *)
LEMMA FollowedTo ==
    ASSUME NEW V, NEW U, NEW base, NEW step, Steps(step, V, base, U), NEW s \in Seq(U)
    PROVE  \E f : Leads(f, s, V, base, step)
<1>a. base \in V /\ step \in [V \X U -> V]
  BY DEF Steps
<1> DEFINE n == Len(s)
           Upto(m, f) == /\ f \in [0 .. m -> V] /\ f[0] = base
                         /\ \A i \in 1 .. m : f[i] = step[<<f[i - 1], s[i]>>]
           Good(m) == \E f : Upto(m, f)
           Bad == {m \in 0 .. n : ~Good(m)}
<1>0. n \in Nat /\ \A i \in 1 .. n : s[i] \in U
  OBVIOUS
<1> HIDE DEF n
<1>1. Good(0)
  <2>1. Upto(0, [i \in 0 .. 0 |-> base])
    BY <1>a
  <2> QED
    BY <2>1
<1>2. ASSUME NEW m \in 1 .. n, NEW f, Upto(m - 1, f) PROVE Good(m)
  <2> DEFINE v == step[<<f[m - 1], s[m]>>]
             g == [i \in 0 .. m |-> IF i < m THEN f[i] ELSE v]
  <2>1. m - 1 \in Nat /\ f[m - 1] \in V /\ m \in Nat \ {0}
    BY <1>0, <1>2
  <2>2. v \in V
    BY <1>0, <1>a, <2>1
  <2> HIDE DEF v
  <2>3. g \in [0 .. m -> V] /\ g[0] = base
    BY <1>2, <1>a, <2>1, <2>2
  <2>4. ASSUME NEW i \in 1 .. m PROVE g[i] = step[<<g[i - 1], s[i]>>]
    <3>1. g[i - 1] = f[i - 1]
      BY <2>1
    <3>2. CASE i = m
      <4>1. g[m] = v
        BY <2>1
      <4> QED
        BY <3>1, <3>2, <4>1, Zenon DEF v
    <3>3. CASE i # m
      <4>1. g[i] = f[i] /\ i \in 1 .. m - 1
        BY <2>1, <3>3
      <4>2. f[i] = step[<<f[i - 1], s[i]>>]
        BY <1>2, <4>1
      <4> QED
        BY <3>1, <4>1, <4>2, Zenon
    <3> QED
      BY <3>2, <3>3
  <2> HIDE DEF g
  <2> QED
    BY <2>3, <2>4
<1>3. Bad = {}
  <2> SUFFICES ASSUME Bad # {} PROVE FALSE
    OBVIOUS
  <2> HIDE DEF Good
  <2>1. PICK m \in Bad : \A k \in Bad : m <= k
    <3>1. Bad \in SUBSET Nat
      BY <1>0
    <3> HIDE DEF Bad
    <3> QED
      BY <3>1, LeastExists
  <2>2. m \in 1 .. n /\ m - 1 \in 0 .. n /\ ~(m <= m - 1) /\ ~Good(m)
    BY <1>0, <1>1
  <2>3. Good(m - 1)
    BY <2>1, <2>2
  <2> HIDE DEF Upto
  <2> QED
    BY <1>2, <2>2, <2>3 DEF Good
<1> HIDE DEF Good
<1>4. Good(n)
  BY <1>0, <1>3
<1> QED
  <2>1. PICK f : Upto(n, f)
    BY <1>4 DEF Good
  <2>2. \A i \in 1 .. n : i - 1 \in 0 .. n
    BY <1>0
  <2>3. Leads(f, s, V, base, step)
    BY <2>1, <2>2 DEF n, Leads
  <2> QED
    BY <2>3

(* Along a text and a longer one the same is kept, and the next character  *)
(* is one more step.                                                       *)
LEMMA OneMore ==
    ASSUME NEW V, NEW U, NEW base, NEW step, Steps(step, V, base, U), NEW s \in Seq(U), NEW c \in U,
           NEW f, Follows(f, s, V, base, step), NEW g, Follows(g, Append(s, c), V, base, step)
    PROVE  f[Len(s)] \in V /\ g[Len(Append(s, c))] = step[<<f[Len(s)], c>>]
<1> DEFINE q == Append(s, c)  n == Len(s)
<1>0. base \in V /\ step \in [V \X U -> V]
  BY DEF Steps
<1>1. /\ n \in Nat /\ Len(q) = n + 1 /\ q[n + 1] = c
      /\ \A i \in 1 .. n : q[i] = s[i] /\ s[i] \in U
  OBVIOUS
<1> HIDE DEF q
<1> DEFINE Bad == {i \in 0 .. n : ~(f[i] \in V /\ g[i] = f[i])}
<1>2. Bad = {}
  <2> SUFFICES ASSUME Bad # {} PROVE FALSE
    OBVIOUS
  <2>1. PICK i \in Bad : \A j \in Bad : i <= j
    <3>1. Bad \in SUBSET Nat
      BY <1>1
    <3> HIDE DEF Bad
    <3> QED
      BY <3>1, LeastExists
  <2>2. i # 0
    BY <1>0, <2>1 DEF Follows
  <2>3. i \in 1 .. n /\ i \in 1 .. Len(q) /\ i - 1 \in 0 .. n /\ ~(i <= i - 1)
    BY <1>1, <2>1, <2>2
  <2>4. f[i - 1] \in V /\ g[i - 1] = f[i - 1]
    BY <2>1, <2>3
  <2>5. f[i] = step[<<f[i - 1], s[i]>>] /\ g[i] = step[<<g[i - 1], q[i]>>]
    BY <2>3, <2>4 DEF Follows, q
  <2>6. f[i] \in V /\ g[i] = f[i]
    BY <1>0, <1>1, <2>3, <2>4, <2>5
  <2> QED
    BY <2>1, <2>6
<1>3. f[n] \in V /\ g[n] = f[n]
  BY <1>1, <1>2
<1>4. g[n + 1] = step[<<g[(n + 1) - 1], q[n + 1]>>]
  <2>1. n + 1 \in 1 .. Len(q) /\ (n + 1) - 1 = n
    BY <1>1
  <2> QED
    BY <1>3, <2>1 DEF Follows, q
<1> QED
  BY <1>1, <1>3, <1>4 DEF q

(* A beginning of a text is a shorter one and a character.                 *)
LEMMA PrefixIs ==
    ASSUME NEW U, NEW t \in Seq(U), NEW n \in 1 .. Len(t)
    PROVE  /\ SubSeq(t, 1, n - 1) \in Seq(U) /\ t[n] \in U
           /\ SubSeq(t, 1, n) = Append(SubSeq(t, 1, n - 1), t[n])
<1>1. Len(t) \in Nat /\ t[n] \in U
  OBVIOUS
<1> DEFINE a == SubSeq(t, 1, n)
           b == SubSeq(t, 1, n - 1)
<1>2. a \in Seq(U) /\ Len(a) = n /\ \A i \in 1 .. n : a[i] = t[i]
  BY <1>1
<1>3. b \in Seq(U) /\ Len(b) = n - 1 /\ \A i \in 1 .. n - 1 : b[i] = t[i]
  BY <1>1
<1> HIDE DEF a, b
<1>4. /\ Append(b, t[n]) \in Seq(U) /\ Len(Append(b, t[n])) = n
      /\ \A i \in 1 .. n - 1 : Append(b, t[n])[i] = b[i]
      /\ Append(b, t[n])[n] = t[n]
  BY <1>1, <1>3, AppendProperties
<1>5. \A i \in 1 .. n : Append(b, t[n])[i] = a[i]
  BY <1>2, <1>3, <1>4
<1> DEFINE d == Append(b, t[n])
<1> HIDE DEF d
<1>6. a = d
  BY <1>2, <1>4, <1>5, SeqEqual DEF d
<1> QED
  BY <1>1, <1>3, <1>6 DEF a, b, d

(* What holds of the empty text and is kept by one more character holds of *)
(* every text.                                                             *)
LEMMA TextsGrow ==
    ASSUME NEW U, NEW S \in SUBSET Seq(U), <<>> \in S,
           \A s \in S, c \in U : Append(s, c) \in S
    PROVE  S = Seq(U)
<1> SUFFICES ASSUME NEW s \in Seq(U) PROVE s \in S
  OBVIOUS
<1> DEFINE p(n) == SubSeq(s, 1, n)
           Bad == {n \in 0 .. Len(s) : p(n) \notin S}
<1>1. Len(s) \in Nat /\ p(0) = <<>> /\ p(Len(s)) = s
  OBVIOUS
<1>2. \A n \in 1 .. Len(s) : s[n] \in U /\ p(n) = Append(p(n - 1), s[n])
  BY PrefixIs
<1> HIDE DEF p
<1>3. Bad = {}
  <2> SUFFICES ASSUME Bad # {} PROVE FALSE
    OBVIOUS
  <2>1. PICK i \in Bad : \A j \in Bad : i <= j
    <3>1. Bad \in SUBSET Nat
      BY <1>1
    <3> HIDE DEF Bad
    <3> QED
      BY <3>1, LeastExists
  <2>2. i # 0
    BY <1>1, <2>1
  <2>3. i \in 1 .. Len(s) /\ i - 1 \in 0 .. Len(s) /\ ~(i <= i - 1)
    BY <1>1, <2>1, <2>2
  <2>4. p(i - 1) \in S
    BY <2>1, <2>3
  <2>5. p(i) \in S
    BY <1>2, <2>3, <2>4
  <2> QED
    BY <2>1, <2>5
<1>4. Len(s) \in 0 .. Len(s)
  BY <1>1
<1>5. p(Len(s)) \in S
  BY <1>3, <1>4
<1> QED
  BY <1>1, <1>5

(* The characters of texts: those of strings, and those that the helpers   *)
(* write.                                                                  *)
Chars ==
    STRING \cup {"0", "1", "2", "3", "4", "5", "6", "7", "8", "9", "A", "B", "C", "D", "E", "F",
                 "-", ":", ",", "\\", "r", "n", "a", "b", "f", "t", "v", "'", "\"",
                 " ", "BACKQUOTE", "?", "$", ";", "[", "]", "{", "}", "(", ")"}

(* The values that helpers keep, and those at the start.                   *)
Texts        == Seq(Chars)
Pieces       == Seq(Texts) \ {<<>>}
Cleaned      == [r : Seq(Chars), x : Seq(Chars)]
NoneClean    == [r |-> <<>>, x |-> <<>>]
NoDigits     == [r |-> 0, end |-> FALSE]
Stamped      == [acc : Int, x : Int, k : Nat, bad : BOOLEAN]
NoStamp      == [acc |-> 0, x |-> 0, k |-> Text!Second, bad |-> FALSE]
AnyChar      == Chars \cup {"NUL", "\r", "\n", "BEL", "BS", "\f", "\t", "VT"}
NothingMeant == [r |-> <<>>, after |-> FALSE]

Kept(r, c, unix) == IF c \in DOMAIN Text!Escapes(unix) THEN Append(r, c) ELSE r
Sep              == ";"
Glued(r, piece)  == (r \o <<Sep>>) \o piece

(* What a character counts, 255 for what is no digit.                      *)
LEMMA DigitsAre == \A c : Text!deconv(c) \in 0 .. 15 \cup {255}
<1> SUFFICES ASSUME NEW c PROVE Text!deconv(c) \in 0 .. 15 \cup {255}
  OBVIOUS
<1>1. DOMAIN Text!conv = 1 .. 16 /\ DOMAIN Text!lower = 1 .. 6
  BY DEF Text!conv, Text!lower
<1>2. \A s : c \in Text!ToSet(s) => Text!Place(s, c) \in DOMAIN s
  BY DEF Text!ToSet, Text!Place
<1> QED
  BY <1>1, <1>2 DEF Text!deconv

(* Every step of a helper stays among its values.                          *)
LEMMA SplitTyped ==
    ASSUME NEW v \in Pieces, NEW d \in Chars
    PROVE  Text!SplitStep(v, d, ";") \in Pieces
<1>1. v \in Seq(Seq(Chars)) /\ v # <<>> /\ Len(v) \in 1 .. Len(v) /\ v[Len(v)] \in Seq(Chars)
  BY DEF Pieces, Texts
<1>2. <<>> \in Seq(Chars) /\ Append(v[Len(v)], d) \in Seq(Chars)
  BY <1>1
<1>3. Append(v, <<>>) \in Seq(Seq(Chars)) /\ Append(v, <<>>) # <<>>
  BY <1>1, <1>2
<1> DEFINE w == [v EXCEPT ![Len(v)] = Append(@, d)]
<1>4. w \in Seq(Seq(Chars)) /\ Len(w) = Len(v)
  BY <1>1, <1>2, ExceptSeq
<1>5. w # <<>>
  BY <1>1, <1>4
<1> HIDE DEF w
<1> QED
  BY <1>3, <1>4, <1>5 DEF Text!SplitStep, Pieces, Texts, w

LEMMA CleanTyped == \A v \in Cleaned, d \in Chars : Text!CleanStep(v, d) \in Cleaned
<1> SUFFICES ASSUME NEW v \in Cleaned, NEW d \in Chars PROVE Text!CleanStep(v, d) \in Cleaned
  OBVIOUS
<1>1. v.r \in Seq(Chars) /\ v.x \in Seq(Chars) /\ v.r \o v.x \in Seq(Chars)
  BY DEF Cleaned
<1>2. <<>> \in Seq(Chars) /\ <<d>> \in Seq(Chars) /\ Append(v.r \o v.x, d) \in Seq(Chars) /\ Append(v.x, d) \in Seq(Chars)
  BY <1>1
<1> QED
  BY <1>1, <1>2 DEF Text!CleanStep, Cleaned

LEMMA DigitTyped ==
    ASSUME NEW base \in Bases, NEW v \in [r : Nat, end : BOOLEAN], NEW d
    PROVE  Text!DigitStep(v, d, base, Word) \in [r : Nat, end : BOOLEAN]
<1>1. base \in Nat /\ Word \in Nat \ {0} /\ Text!deconv(d) \in Nat
  BY DigitsAre, StringsAssumption DEF StringsAssumption
<1>2. (v.r * base + Text!deconv(d)) % Word \in Nat
  <2>1. v.r * base + Text!deconv(d) \in Nat
    BY <1>1
  <2> QED
    BY <1>1, <2>1
<1> QED
  BY <1>2 DEF Text!DigitStep

(* What a character is to a time stamp.                                    *)
LEMMA StampStepIs ==
    ASSUME NEW v \in Stamped, NEW d
    PROVE  /\ v.bad \/ d \notin Text!Digit \cup {":", ","} =>
                Text!StampStep(v, d) = [v EXCEPT !.bad = TRUE]
           /\ ~v.bad /\ d = ":" =>
                Text!StampStep(v, d) = [v EXCEPT !.acc = (@ + v.x) * 60, !.x = 0]
           /\ ~v.bad /\ d = "," =>
                Text!StampStep(v, d) = [v EXCEPT !.acc = @ + v.x, !.x = 0, !.k = Text!Second \div 10]
           /\ ~v.bad /\ d \in Text!Digit =>
                Text!StampStep(v, d) = IF v.k = Text!Second THEN [v EXCEPT !.x = @ * 10 + v.k * Text!deconv(d)]
                                       ELSE [v EXCEPT !.x = @ + v.k * Text!deconv(d), !.k = @ \div 10]
<1>1. ":" \notin Text!Digit /\ "," \notin Text!Digit
  BY DEF Text!Digit
<1>2. v.bad \in BOOLEAN
  BY DEF Stamped
<1>3. CASE v.bad \/ d \notin Text!Digit \cup {":", ","}
  BY <1>2, <1>3 DEF Text!StampStep
<1>4. CASE ~v.bad /\ d = ":"
  BY <1>1, <1>4 DEF Text!StampStep
<1>5. CASE ~v.bad /\ d = ","
  BY <1>1, <1>5 DEF Text!StampStep
<1>6. CASE ~v.bad /\ d \in Text!Digit
  BY <1>1, <1>6 DEF Text!StampStep
<1> QED
  BY <1>1, <1>2, <1>3, <1>4, <1>5, <1>6, Zenon

LEMMA StampTyped ==
    ASSUME NEW v \in Stamped, NEW d
    PROVE  Text!StampStep(v, d) \in Stamped
<1>1. Text!deconv(d) \in Nat /\ v.acc \in Int /\ v.x \in Int /\ v.k \in Nat /\ v.bad \in BOOLEAN
  BY DigitsAre DEF Stamped
<1> DEFINE n == (v.acc + v.x) * 60
           a == v.acc + v.x
           y == v.x * 10 + v.k * Text!deconv(d)
           z == v.x + v.k * Text!deconv(d)
           k == v.k \div 10
           h == Text!Second \div 10
           o == 0
<1>2. n \in Int /\ a \in Int /\ y \in Int /\ z \in Int /\ k \in Nat /\ h \in Nat /\ o \in Int
  <2>1. v.k * Text!deconv(d) \in Int
    BY <1>1
  <2> QED
    BY <1>1, <2>1 DEF Text!Second
<1>3. \/ v.bad \/ d \notin Text!Digit \cup {":", ","}
      \/ ~v.bad /\ d = ":"
      \/ ~v.bad /\ d = ","
      \/ ~v.bad /\ d \in Text!Digit
  BY <1>1, Zenon
<1>4. CASE v.bad \/ d \notin Text!Digit \cup {":", ","}
  <2>1. Text!StampStep(v, d) = [v EXCEPT !.bad = TRUE]
    BY <1>4, StampStepIs, Zenon
  <2> QED
    BY <2>1 DEF Stamped
<1>5. CASE ~v.bad /\ d = ":"
  <2>1. Text!StampStep(v, d) = [v EXCEPT !.acc = n, !.x = o]
    BY <1>5, StampStepIs, Zenon
  <2> HIDE DEF n, a, y, z, k, h, o
  <2>2. [v EXCEPT !.acc = n, !.x = o] \in Stamped
    BY <1>2 DEF Stamped
  <2> QED
    BY <2>1, <2>2
<1>6. CASE ~v.bad /\ d = ","
  <2>1. Text!StampStep(v, d) = [v EXCEPT !.acc = a, !.x = o, !.k = h]
    BY <1>6, StampStepIs, Zenon
  <2> HIDE DEF n, a, y, z, k, h, o
  <2>2. [v EXCEPT !.acc = a, !.x = o, !.k = h] \in Stamped
    BY <1>2 DEF Stamped
  <2> QED
    BY <2>1, <2>2
<1>7. CASE ~v.bad /\ d \in Text!Digit
  <2>1. Text!StampStep(v, d) = IF v.k = Text!Second THEN [v EXCEPT !.x = y]
                               ELSE [v EXCEPT !.x = z, !.k = k]
    BY <1>7, StampStepIs, Zenon
  <2> HIDE DEF n, a, y, z, k, h, o
  <2> QED
    BY <1>2, <2>1 DEF Stamped
<1> QED
  BY <1>3, <1>4, <1>5, <1>6, <1>7

(* What is escaped, and what it is written as, are characters.             *)
LEMMA EscapesAre ==
    ASSUME NEW unix \in BOOLEAN, NEW c \in DOMAIN Text!Escapes(unix)
    PROVE  Text!Escapes(unix)[c] \in Chars /\ c \in AnyChar
BY DEF Text!Escapes, Text!Plain, Text!Shell, Chars, AnyChar

LEMMA EscapeTyped ==
    ASSUME NEW unix \in BOOLEAN, NEW v \in Seq(Chars), NEW d \in Chars
    PROVE  Text!EscapeStep(v, d, unix) \in Seq(Chars)
<1> DEFINE e == Text!Escapes(unix)[d]
<1>1. ASSUME d \in DOMAIN Text!Escapes(unix) PROVE v \o <<"\\", e>> \in Seq(Chars)
  <2>1. e \in Chars /\ "\\" \in Chars
    BY <1>1, EscapesAre DEF Chars
  <2> HIDE DEF e
  <2>2. <<"\\", e>> \in Seq(Chars)
    BY <2>1
  <2> QED
    BY <2>2
<1>2. Append(v, d) \in Seq(Chars)
  OBVIOUS
<1> QED
  BY <1>1, <1>2 DEF Text!EscapeStep

LEMMA MeaningTyped ==
    ASSUME NEW unix \in BOOLEAN, NEW v \in [r : Seq(AnyChar), after : BOOLEAN], NEW d \in Chars
    PROVE  Text!UnescapeStep(v, d, unix) \in [r : Seq(AnyChar), after : BOOLEAN]
<1>1. Text!Meant(d, unix) \in AnyChar
  <2>1. d \in AnyChar /\ "NUL" \in AnyChar
    BY DEF AnyChar
  <2>2. \A e \in DOMAIN Text!Escapes(unix) : e \in AnyChar
    BY EscapesAre
  <2> QED
    BY <2>1, <2>2 DEF Text!Meant
<1>2. Append(v.r, Text!Meant(d, unix)) \in Seq(AnyChar)
  BY <1>1
<1> QED
  BY <1>2 DEF Text!UnescapeStep

LEMMA GluedTyped ==
    ASSUME NEW v \in Seq(Chars), NEW d \in Seq(Chars)
    PROVE  Glued(v, d) \in Seq(Chars)
<1>1. Sep \in Chars
  BY Zenon DEF Chars, Sep
<1>a. \A c \in Chars : <<c>> \in Seq(Chars)
  OBVIOUS
<1>2. <<Sep>> \in Seq(Chars)
  BY <1>1, <1>a, Zenon
<1>3. v \o <<Sep>> \in Seq(Chars)
  BY <1>2, ConcatProperties
<1>4. (v \o <<Sep>>) \o d \in Seq(Chars)
  BY <1>3, ConcatProperties
<1> QED
  BY <1>4 DEF Glued

(* What each helper keeps of a text, and what one more character makes of  *)
(* it.                                                                     *)
IntOf(t) == Text!After(Text!IntStep, 0, t)

(* A text of one more character is taken one step further (159-179).       *)
LEMMA IntGoesOn ==
    ASSUME NEW s \in Seq(Chars), NEW c \in Chars
    PROVE  /\ IntOf(s) \in -1 .. 2 /\ IntOf(<<>>) = 0
           /\ IntOf(Append(s, c)) = Text!IntStep(IntOf(s), c)
<1> DEFINE V == -1 .. 2
           start == 0
           Step(v, d) == Text!IntStep(v, d)
           step == [e \in V \X Chars |-> Step(e[1], e[2])]
           Is(f, t) == f = [n \in 0 .. Len(t) |-> IF n = 0 THEN start ELSE Step(f[n - 1], t[n])]
           F(t) == CHOOSE f : Is(f, t)
<1>1. start \in V /\ \A v \in V, d \in Chars : Step(v, d) \in V
  BY DEF Text!IntStep, Text!Reject
<1>2. \A t : IntOf(t) = F(t)[Len(t)]
  BY DEF IntOf, Text!After
<1> HIDE DEF Step, V, start
<1>3. Steps(step, V, start, Chars) /\ \A v \in V, d \in Chars : step[<<v, d>>] = Step(v, d)
  BY <1>1 DEF Steps
<1> HIDE DEF step
<1>4. ASSUME NEW t \in Seq(Chars)
      PROVE  Follows(F(t), t, V, start, step) /\ F(t)[0] = start
  <2>0. Len(t) \in Nat
    OBVIOUS
  <2>1. \A n \in 1 .. Len(t) : t[n] \in Chars
    OBVIOUS
  <2>2. PICK f : Leads(f, t, V, start, step)
    BY <1>3, FollowedTo
  <2>3. f \in [0 .. Len(t) -> V] /\ f[0] = start /\ \A n \in 1 .. Len(t) : f[n] = Step(f[n - 1], t[n])
    BY <1>3, <2>0, <2>1, <2>2 DEF Leads
  <2>4. Is(f, t)
    BY <2>3
  <2>5. Is(F(t), t)
    BY <2>4
  <2> HIDE DEF F
  <2>6. F(t)[0] = start /\ \A n \in 1 .. Len(t) : F(t)[n] = Step(F(t)[n - 1], t[n])
    BY ONLY <2>0, <2>5
  <2> QED
    BY <1>3, <2>0, <2>1, <2>6 DEF Follows
<1> HIDE DEF F
<1>5. F(s)[Len(s)] \in V /\ F(Append(s, c))[Len(Append(s, c))] = step[<<F(s)[Len(s)], c>>]
  <2>1. Append(s, c) \in Seq(Chars)
    OBVIOUS
  <2>2. Follows(F(s), s, V, start, step) /\ Follows(F(Append(s, c)), Append(s, c), V, start, step)
    BY <1>4, <2>1
  <2> QED
    BY <1>3, <2>2, OneMore
<1>6. IntOf(<<>>) = start
  <2>1. <<>> \in Seq(Chars) /\ Len(<<>>) = 0
    OBVIOUS
  <2> QED
    BY <1>2, <1>4, <2>1
<1>7. IntOf(s) \in V /\ IntOf(Append(s, c)) = Step(IntOf(s), c)
  BY <1>2, <1>3, <1>5
<1> QED
  BY <1>6, <1>7 DEF Step, V, start

FloatOf(t) == Text!After(Text!FloatStep, 0, t)

(* So it is for strIsFloat (29-71),                                        *)
LEMMA FloatGoesOn ==
    ASSUME NEW s \in Seq(Chars), NEW c \in Chars
    PROVE  /\ FloatOf(s) \in -1 .. 7 /\ FloatOf(<<>>) = 0
           /\ FloatOf(Append(s, c)) = Text!FloatStep(FloatOf(s), c)
<1> DEFINE V == -1 .. 7
           start == 0
           Step(v, d) == Text!FloatStep(v, d)
           step == [e \in V \X Chars |-> Step(e[1], e[2])]
           Is(f, t) == f = [n \in 0 .. Len(t) |-> IF n = 0 THEN start ELSE Step(f[n - 1], t[n])]
           F(t) == CHOOSE f : Is(f, t)
<1>1. start \in V /\ \A v \in V, d \in Chars : Step(v, d) \in V
  BY DEF Text!FloatStep, Text!Reject
<1>2. \A t : FloatOf(t) = F(t)[Len(t)]
  BY DEF FloatOf, Text!After
<1> HIDE DEF Step, V, start
<1>3. Steps(step, V, start, Chars) /\ \A v \in V, d \in Chars : step[<<v, d>>] = Step(v, d)
  BY <1>1 DEF Steps
<1> HIDE DEF step
<1>4. ASSUME NEW t \in Seq(Chars)
      PROVE  Follows(F(t), t, V, start, step) /\ F(t)[0] = start
  <2>0. Len(t) \in Nat
    OBVIOUS
  <2>1. \A n \in 1 .. Len(t) : t[n] \in Chars
    OBVIOUS
  <2>2. PICK f : Leads(f, t, V, start, step)
    BY <1>3, FollowedTo
  <2>3. f \in [0 .. Len(t) -> V] /\ f[0] = start /\ \A n \in 1 .. Len(t) : f[n] = Step(f[n - 1], t[n])
    BY <1>3, <2>0, <2>1, <2>2 DEF Leads
  <2>4. Is(f, t)
    BY <2>3
  <2>5. Is(F(t), t)
    BY <2>4
  <2> HIDE DEF F
  <2>6. F(t)[0] = start /\ \A n \in 1 .. Len(t) : F(t)[n] = Step(F(t)[n - 1], t[n])
    BY ONLY <2>0, <2>5
  <2> QED
    BY <1>3, <2>0, <2>1, <2>6 DEF Follows
<1> HIDE DEF F
<1>5. F(s)[Len(s)] \in V /\ F(Append(s, c))[Len(Append(s, c))] = step[<<F(s)[Len(s)], c>>]
  <2>1. Append(s, c) \in Seq(Chars)
    OBVIOUS
  <2>2. Follows(F(s), s, V, start, step) /\ Follows(F(Append(s, c)), Append(s, c), V, start, step)
    BY <1>4, <2>1
  <2> QED
    BY <1>3, <2>2, OneMore
<1>6. FloatOf(<<>>) = start
  <2>1. <<>> \in Seq(Chars) /\ Len(<<>>) = 0
    OBVIOUS
  <2> QED
    BY <1>2, <1>4, <2>1
<1>7. FloatOf(s) \in V /\ FloatOf(Append(s, c)) = Step(FloatOf(s), c)
  BY <1>2, <1>3, <1>5
<1> QED
  BY <1>6, <1>7 DEF Step, V, start

SplitOf(t) == Text!After(LAMBDA r, d : Text!SplitStep(r, d, ";"), <<(<<>>)>>, t)

(* for strSplit (181-192),                                                 *)
LEMMA SplitGoesOn ==
    ASSUME NEW s \in Seq(Chars), NEW c \in Chars
    PROVE  /\ SplitOf(s) \in Pieces /\ SplitOf(<<>>) = <<(<<>>)>>
           /\ SplitOf(Append(s, c)) = Text!SplitStep(SplitOf(s), c, ";")
<1> DEFINE V == Pieces
           start == <<(<<>>)>>
           Step(v, d) == Text!SplitStep(v, d, ";")
           step == [e \in V \X Chars |-> Step(e[1], e[2])]
           Is(f, t) == f = [n \in 0 .. Len(t) |-> IF n = 0 THEN start ELSE Step(f[n - 1], t[n])]
           F(t) == CHOOSE f : Is(f, t)
<1>1. start \in V /\ \A v \in V, d \in Chars : Step(v, d) \in V
  <2>1. ASSUME NEW v \in Pieces, NEW d \in Chars PROVE Text!SplitStep(v, d, ";") \in Pieces
    BY SplitTyped
  <2>2. <<(<<>>)>> \in Pieces
    BY DEF Pieces, Texts
  <2> QED
    BY <2>1, <2>2
<1>2. \A t : SplitOf(t) = F(t)[Len(t)]
  BY DEF SplitOf, Text!After
<1> HIDE DEF Step, V, start
<1>3. Steps(step, V, start, Chars) /\ \A v \in V, d \in Chars : step[<<v, d>>] = Step(v, d)
  BY <1>1 DEF Steps
<1> HIDE DEF step
<1>4. ASSUME NEW t \in Seq(Chars)
      PROVE  Follows(F(t), t, V, start, step) /\ F(t)[0] = start
  <2>0. Len(t) \in Nat
    OBVIOUS
  <2>1. \A n \in 1 .. Len(t) : t[n] \in Chars
    OBVIOUS
  <2>2. PICK f : Leads(f, t, V, start, step)
    BY <1>3, FollowedTo
  <2>3. f \in [0 .. Len(t) -> V] /\ f[0] = start /\ \A n \in 1 .. Len(t) : f[n] = Step(f[n - 1], t[n])
    BY <1>3, <2>0, <2>1, <2>2 DEF Leads
  <2>4. Is(f, t)
    BY <2>3
  <2>5. Is(F(t), t)
    BY <2>4
  <2> HIDE DEF F
  <2>6. F(t)[0] = start /\ \A n \in 1 .. Len(t) : F(t)[n] = Step(F(t)[n - 1], t[n])
    BY ONLY <2>0, <2>5
  <2> QED
    BY <1>3, <2>0, <2>1, <2>6 DEF Follows
<1> HIDE DEF F
<1>5. F(s)[Len(s)] \in V /\ F(Append(s, c))[Len(Append(s, c))] = step[<<F(s)[Len(s)], c>>]
  <2>1. Append(s, c) \in Seq(Chars)
    OBVIOUS
  <2>2. Follows(F(s), s, V, start, step) /\ Follows(F(Append(s, c)), Append(s, c), V, start, step)
    BY <1>4, <2>1
  <2> QED
    BY <1>3, <2>2, OneMore
<1>6. SplitOf(<<>>) = start
  <2>1. <<>> \in Seq(Chars) /\ Len(<<>>) = 0
    OBVIOUS
  <2> QED
    BY <1>2, <1>4, <2>1
<1>7. SplitOf(s) \in V /\ SplitOf(Append(s, c)) = Step(SplitOf(s), c)
  BY <1>2, <1>3, <1>5
<1> QED
  BY <1>6, <1>7 DEF Step, V, start

CleanOf(t) == Text!After(Text!CleanStep, NoneClean, t)

(* for strClean (307-320),                                                 *)
LEMMA CleanGoesOn ==
    ASSUME NEW s \in Seq(Chars), NEW c \in Chars
    PROVE  /\ CleanOf(s) \in Cleaned /\ CleanOf(<<>>) = NoneClean
           /\ CleanOf(Append(s, c)) = Text!CleanStep(CleanOf(s), c)
<1> DEFINE V == Cleaned
           start == NoneClean
           Step(v, d) == Text!CleanStep(v, d)
           step == [e \in V \X Chars |-> Step(e[1], e[2])]
           Is(f, t) == f = [n \in 0 .. Len(t) |-> IF n = 0 THEN start ELSE Step(f[n - 1], t[n])]
           F(t) == CHOOSE f : Is(f, t)
<1>1. start \in V /\ \A v \in V, d \in Chars : Step(v, d) \in V
  <2>1. \A v \in Cleaned, d \in Chars : Text!CleanStep(v, d) \in Cleaned
    BY CleanTyped
  <2> QED
    BY <2>1 DEF NoneClean, Cleaned
<1>2. \A t : CleanOf(t) = F(t)[Len(t)]
  BY DEF CleanOf, Text!After
<1> HIDE DEF Step, V, start
<1>3. Steps(step, V, start, Chars) /\ \A v \in V, d \in Chars : step[<<v, d>>] = Step(v, d)
  BY <1>1 DEF Steps
<1> HIDE DEF step
<1>4. ASSUME NEW t \in Seq(Chars)
      PROVE  Follows(F(t), t, V, start, step) /\ F(t)[0] = start
  <2>0. Len(t) \in Nat
    OBVIOUS
  <2>1. \A n \in 1 .. Len(t) : t[n] \in Chars
    OBVIOUS
  <2>2. PICK f : Leads(f, t, V, start, step)
    BY <1>3, FollowedTo
  <2>3. f \in [0 .. Len(t) -> V] /\ f[0] = start /\ \A n \in 1 .. Len(t) : f[n] = Step(f[n - 1], t[n])
    BY <1>3, <2>0, <2>1, <2>2 DEF Leads
  <2>4. Is(f, t)
    BY <2>3
  <2>5. Is(F(t), t)
    BY <2>4
  <2> HIDE DEF F
  <2>6. F(t)[0] = start /\ \A n \in 1 .. Len(t) : F(t)[n] = Step(F(t)[n - 1], t[n])
    BY ONLY <2>0, <2>5
  <2> QED
    BY <1>3, <2>0, <2>1, <2>6 DEF Follows
<1> HIDE DEF F
<1>5. F(s)[Len(s)] \in V /\ F(Append(s, c))[Len(Append(s, c))] = step[<<F(s)[Len(s)], c>>]
  <2>1. Append(s, c) \in Seq(Chars)
    OBVIOUS
  <2>2. Follows(F(s), s, V, start, step) /\ Follows(F(Append(s, c)), Append(s, c), V, start, step)
    BY <1>4, <2>1
  <2> QED
    BY <1>3, <2>2, OneMore
<1>6. CleanOf(<<>>) = start
  <2>1. <<>> \in Seq(Chars) /\ Len(<<>>) = 0
    OBVIOUS
  <2> QED
    BY <1>2, <1>4, <2>1
<1>7. CleanOf(s) \in V /\ CleanOf(Append(s, c)) = Step(CleanOf(s), c)
  BY <1>2, <1>3, <1>5
<1> QED
  BY <1>6, <1>7 DEF Step, V, start

NumberOf(t, base) == Text!After(LAMBDA a, d : Text!DigitStep(a, d, base, Word), NoDigits, t)

(* for strToInt (239-248),                                                 *)
LEMMA NumberGoesOn ==
    ASSUME NEW s \in Seq(Chars), NEW c \in Chars, NEW base \in Bases
    PROVE  /\ NumberOf(s, base) \in [r : Nat, end : BOOLEAN] /\ NumberOf(<<>>, base) = NoDigits
           /\ NumberOf(Append(s, c), base) = Text!DigitStep(NumberOf(s, base), c, base, Word)
<1> DEFINE V == [r : Nat, end : BOOLEAN]
           start == NoDigits
           Step(v, d) == Text!DigitStep(v, d, base, Word)
           step == [e \in V \X Chars |-> Step(e[1], e[2])]
           Is(f, t) == f = [n \in 0 .. Len(t) |-> IF n = 0 THEN start ELSE Step(f[n - 1], t[n])]
           F(t) == CHOOSE f : Is(f, t)
<1>1. start \in V /\ \A v \in V, d \in Chars : Step(v, d) \in V
  <2>1. ASSUME NEW v \in [r : Nat, end : BOOLEAN], NEW d \in Chars
        PROVE  Text!DigitStep(v, d, base, Word) \in [r : Nat, end : BOOLEAN]
    BY DigitTyped
  <2> QED
    BY <2>1 DEF NoDigits
<1>2. \A t : NumberOf(t, base) = F(t)[Len(t)]
  BY DEF NumberOf, Text!After
<1> HIDE DEF Step, V, start
<1>3. Steps(step, V, start, Chars) /\ \A v \in V, d \in Chars : step[<<v, d>>] = Step(v, d)
  BY <1>1 DEF Steps
<1> HIDE DEF step
<1>4. ASSUME NEW t \in Seq(Chars)
      PROVE  Follows(F(t), t, V, start, step) /\ F(t)[0] = start
  <2>0. Len(t) \in Nat
    OBVIOUS
  <2>1. \A n \in 1 .. Len(t) : t[n] \in Chars
    OBVIOUS
  <2>2. PICK f : Leads(f, t, V, start, step)
    BY <1>3, FollowedTo
  <2>3. f \in [0 .. Len(t) -> V] /\ f[0] = start /\ \A n \in 1 .. Len(t) : f[n] = Step(f[n - 1], t[n])
    BY <1>3, <2>0, <2>1, <2>2 DEF Leads
  <2>4. Is(f, t)
    BY <2>3
  <2>5. Is(F(t), t)
    BY <2>4
  <2> HIDE DEF F
  <2>6. F(t)[0] = start /\ \A n \in 1 .. Len(t) : F(t)[n] = Step(F(t)[n - 1], t[n])
    BY ONLY <2>0, <2>5
  <2> QED
    BY <1>3, <2>0, <2>1, <2>6 DEF Follows
<1> HIDE DEF F
<1>5. F(s)[Len(s)] \in V /\ F(Append(s, c))[Len(Append(s, c))] = step[<<F(s)[Len(s)], c>>]
  <2>1. Append(s, c) \in Seq(Chars)
    OBVIOUS
  <2>2. Follows(F(s), s, V, start, step) /\ Follows(F(Append(s, c)), Append(s, c), V, start, step)
    BY <1>4, <2>1
  <2> QED
    BY <1>3, <2>2, OneMore
<1>6. NumberOf(<<>>, base) = start
  <2>1. <<>> \in Seq(Chars) /\ Len(<<>>) = 0
    OBVIOUS
  <2> QED
    BY <1>2, <1>4, <2>1
<1>7. NumberOf(s, base) \in V /\ NumberOf(Append(s, c), base) = Step(NumberOf(s, base), c)
  BY <1>2, <1>3, <1>5
<1> QED
  BY <1>6, <1>7 DEF Step, V, start

CountOf(t, base) == Text!After(LAMBDA n, d : base * n, 1, t)

(* for the number of values of as many digits,                             *)
LEMMA CountGoesOn ==
    ASSUME NEW s \in Seq(Chars), NEW c \in Chars, NEW base \in Bases
    PROVE  /\ CountOf(s, base) \in Nat /\ CountOf(<<>>, base) = 1
           /\ CountOf(Append(s, c), base) = base * CountOf(s, base)
<1> DEFINE V == Nat
           start == 1
           Step(v, d) == base * v
           step == [e \in V \X Chars |-> Step(e[1], e[2])]
           Is(f, t) == f = [n \in 0 .. Len(t) |-> IF n = 0 THEN start ELSE Step(f[n - 1], t[n])]
           F(t) == CHOOSE f : Is(f, t)
<1>1. start \in V /\ \A v \in V, d \in Chars : Step(v, d) \in V
  BY StringsAssumption DEF StringsAssumption
<1>2. \A t : CountOf(t, base) = F(t)[Len(t)]
  BY DEF CountOf, Text!After
<1> HIDE DEF Step, V, start
<1>3. Steps(step, V, start, Chars) /\ \A v \in V, d \in Chars : step[<<v, d>>] = Step(v, d)
  BY <1>1 DEF Steps
<1> HIDE DEF step
<1>4. ASSUME NEW t \in Seq(Chars)
      PROVE  Follows(F(t), t, V, start, step) /\ F(t)[0] = start
  <2>0. Len(t) \in Nat
    OBVIOUS
  <2>1. \A n \in 1 .. Len(t) : t[n] \in Chars
    OBVIOUS
  <2>2. PICK f : Leads(f, t, V, start, step)
    BY <1>3, FollowedTo
  <2>3. f \in [0 .. Len(t) -> V] /\ f[0] = start /\ \A n \in 1 .. Len(t) : f[n] = Step(f[n - 1], t[n])
    BY <1>3, <2>0, <2>1, <2>2 DEF Leads
  <2>4. Is(f, t)
    BY <2>3
  <2>5. Is(F(t), t)
    BY <2>4
  <2> HIDE DEF F
  <2>6. F(t)[0] = start /\ \A n \in 1 .. Len(t) : F(t)[n] = Step(F(t)[n - 1], t[n])
    BY ONLY <2>0, <2>5
  <2> QED
    BY <1>3, <2>0, <2>1, <2>6 DEF Follows
<1> HIDE DEF F
<1>5. F(s)[Len(s)] \in V /\ F(Append(s, c))[Len(Append(s, c))] = step[<<F(s)[Len(s)], c>>]
  <2>1. Append(s, c) \in Seq(Chars)
    OBVIOUS
  <2>2. Follows(F(s), s, V, start, step) /\ Follows(F(Append(s, c)), Append(s, c), V, start, step)
    BY <1>4, <2>1
  <2> QED
    BY <1>3, <2>2, OneMore
<1>6. CountOf(<<>>, base) = start
  <2>1. <<>> \in Seq(Chars) /\ Len(<<>>) = 0
    OBVIOUS
  <2> QED
    BY <1>2, <1>4, <2>1
<1>7. CountOf(s, base) \in V /\ CountOf(Append(s, c), base) = Step(CountOf(s, base), c)
  BY <1>2, <1>3, <1>5
<1> QED
  BY <1>6, <1>7 DEF Step, V, start

StampOf(t) == Text!After(Text!StampStep, NoStamp, t)

(* for strToTimestamp (250-271),                                           *)
LEMMA StampGoesOn ==
    ASSUME NEW s \in Seq(Chars), NEW c \in Chars
    PROVE  /\ StampOf(s) \in Stamped /\ StampOf(<<>>) = NoStamp
           /\ StampOf(Append(s, c)) = Text!StampStep(StampOf(s), c)
<1> DEFINE V == Stamped
           start == NoStamp
           Step(v, d) == Text!StampStep(v, d)
           step == [e \in V \X Chars |-> Step(e[1], e[2])]
           Is(f, t) == f = [n \in 0 .. Len(t) |-> IF n = 0 THEN start ELSE Step(f[n - 1], t[n])]
           F(t) == CHOOSE f : Is(f, t)
<1>1. start \in V /\ \A v \in V, d \in Chars : Step(v, d) \in V
  <2>1. ASSUME NEW v \in Stamped, NEW d \in Chars PROVE Text!StampStep(v, d) \in Stamped
    BY StampTyped
  <2> QED
    BY <2>1 DEF NoStamp, Stamped, Text!Second
<1>2. \A t : StampOf(t) = F(t)[Len(t)]
  BY DEF StampOf, Text!After
<1> HIDE DEF Step, V, start
<1>3. Steps(step, V, start, Chars) /\ \A v \in V, d \in Chars : step[<<v, d>>] = Step(v, d)
  BY <1>1 DEF Steps
<1> HIDE DEF step
<1>4. ASSUME NEW t \in Seq(Chars)
      PROVE  Follows(F(t), t, V, start, step) /\ F(t)[0] = start
  <2>0. Len(t) \in Nat
    OBVIOUS
  <2>1. \A n \in 1 .. Len(t) : t[n] \in Chars
    OBVIOUS
  <2>2. PICK f : Leads(f, t, V, start, step)
    BY <1>3, FollowedTo
  <2>3. f \in [0 .. Len(t) -> V] /\ f[0] = start /\ \A n \in 1 .. Len(t) : f[n] = Step(f[n - 1], t[n])
    BY <1>3, <2>0, <2>1, <2>2 DEF Leads
  <2>4. Is(f, t)
    BY <2>3
  <2>5. Is(F(t), t)
    BY <2>4
  <2> HIDE DEF F
  <2>6. F(t)[0] = start /\ \A n \in 1 .. Len(t) : F(t)[n] = Step(F(t)[n - 1], t[n])
    BY ONLY <2>0, <2>5
  <2> QED
    BY <1>3, <2>0, <2>1, <2>6 DEF Follows
<1> HIDE DEF F
<1>5. F(s)[Len(s)] \in V /\ F(Append(s, c))[Len(Append(s, c))] = step[<<F(s)[Len(s)], c>>]
  <2>1. Append(s, c) \in Seq(Chars)
    OBVIOUS
  <2>2. Follows(F(s), s, V, start, step) /\ Follows(F(Append(s, c)), Append(s, c), V, start, step)
    BY <1>4, <2>1
  <2> QED
    BY <1>3, <2>2, OneMore
<1>6. StampOf(<<>>) = start
  <2>1. <<>> \in Seq(Chars) /\ Len(<<>>) = 0
    OBVIOUS
  <2> QED
    BY <1>2, <1>4, <2>1
<1>7. StampOf(s) \in V /\ StampOf(Append(s, c)) = Step(StampOf(s), c)
  BY <1>2, <1>3, <1>5
<1> QED
  BY <1>6, <1>7 DEF Step, V, start

EscapedOf(t, unix) == Text!After(LAMBDA r, d : Text!EscapeStep(r, d, unix), <<>>, t)

(* for strEscape (353-363),                                                *)
LEMMA EscapeGoesOn ==
    ASSUME NEW s \in Seq(Chars), NEW c \in Chars, NEW unix \in BOOLEAN
    PROVE  /\ EscapedOf(s, unix) \in Seq(Chars) /\ EscapedOf(<<>>, unix) = <<>>
           /\ EscapedOf(Append(s, c), unix) = Text!EscapeStep(EscapedOf(s, unix), c, unix)
<1> DEFINE V == Seq(Chars)
           start == <<>>
           Step(v, d) == Text!EscapeStep(v, d, unix)
           step == [e \in V \X Chars |-> Step(e[1], e[2])]
           Is(f, t) == f = [n \in 0 .. Len(t) |-> IF n = 0 THEN start ELSE Step(f[n - 1], t[n])]
           F(t) == CHOOSE f : Is(f, t)
<1>1. start \in V /\ \A v \in V, d \in Chars : Step(v, d) \in V
  <2>1. ASSUME NEW v \in Seq(Chars), NEW d \in Chars PROVE Text!EscapeStep(v, d, unix) \in Seq(Chars)
    BY EscapeTyped
  <2> QED
    BY <2>1
<1>2. \A t : EscapedOf(t, unix) = F(t)[Len(t)]
  BY DEF EscapedOf, Text!After
<1> HIDE DEF Step, V, start
<1>3. Steps(step, V, start, Chars) /\ \A v \in V, d \in Chars : step[<<v, d>>] = Step(v, d)
  BY <1>1 DEF Steps
<1> HIDE DEF step
<1>4. ASSUME NEW t \in Seq(Chars)
      PROVE  Follows(F(t), t, V, start, step) /\ F(t)[0] = start
  <2>0. Len(t) \in Nat
    OBVIOUS
  <2>1. \A n \in 1 .. Len(t) : t[n] \in Chars
    OBVIOUS
  <2>2. PICK f : Leads(f, t, V, start, step)
    BY <1>3, FollowedTo
  <2>3. f \in [0 .. Len(t) -> V] /\ f[0] = start /\ \A n \in 1 .. Len(t) : f[n] = Step(f[n - 1], t[n])
    BY <1>3, <2>0, <2>1, <2>2 DEF Leads
  <2>4. Is(f, t)
    BY <2>3
  <2>5. Is(F(t), t)
    BY <2>4
  <2> HIDE DEF F
  <2>6. F(t)[0] = start /\ \A n \in 1 .. Len(t) : F(t)[n] = Step(F(t)[n - 1], t[n])
    BY ONLY <2>0, <2>5
  <2> QED
    BY <1>3, <2>0, <2>1, <2>6 DEF Follows
<1> HIDE DEF F
<1>5. F(s)[Len(s)] \in V /\ F(Append(s, c))[Len(Append(s, c))] = step[<<F(s)[Len(s)], c>>]
  <2>1. Append(s, c) \in Seq(Chars)
    OBVIOUS
  <2>2. Follows(F(s), s, V, start, step) /\ Follows(F(Append(s, c)), Append(s, c), V, start, step)
    BY <1>4, <2>1
  <2> QED
    BY <1>3, <2>2, OneMore
<1>6. EscapedOf(<<>>, unix) = start
  <2>1. <<>> \in Seq(Chars) /\ Len(<<>>) = 0
    OBVIOUS
  <2> QED
    BY <1>2, <1>4, <2>1
<1>7. EscapedOf(s, unix) \in V /\ EscapedOf(Append(s, c), unix) = Step(EscapedOf(s, unix), c)
  BY <1>2, <1>3, <1>5
<1> QED
  BY <1>6, <1>7 DEF Step, V, start

MeantOf(t, unix) == Text!After(LAMBDA a, d : Text!UnescapeStep(a, d, unix), NothingMeant, t)

(* for strUnescape (365-380),                                              *)
LEMMA MeaningGoesOn ==
    ASSUME NEW s \in Seq(Chars), NEW c \in Chars, NEW unix \in BOOLEAN
    PROVE  /\ MeantOf(s, unix) \in [r : Seq(AnyChar), after : BOOLEAN] /\ MeantOf(<<>>, unix) = NothingMeant
           /\ MeantOf(Append(s, c), unix) = Text!UnescapeStep(MeantOf(s, unix), c, unix)
<1> DEFINE V == [r : Seq(AnyChar), after : BOOLEAN]
           start == NothingMeant
           Step(v, d) == Text!UnescapeStep(v, d, unix)
           step == [e \in V \X Chars |-> Step(e[1], e[2])]
           Is(f, t) == f = [n \in 0 .. Len(t) |-> IF n = 0 THEN start ELSE Step(f[n - 1], t[n])]
           F(t) == CHOOSE f : Is(f, t)
<1>1. start \in V /\ \A v \in V, d \in Chars : Step(v, d) \in V
  <2>1. ASSUME NEW v \in [r : Seq(AnyChar), after : BOOLEAN], NEW d \in Chars
        PROVE  Text!UnescapeStep(v, d, unix) \in [r : Seq(AnyChar), after : BOOLEAN]
    BY MeaningTyped
  <2> QED
    BY <2>1 DEF NothingMeant
<1>2. \A t : MeantOf(t, unix) = F(t)[Len(t)]
  BY DEF MeantOf, Text!After
<1> HIDE DEF Step, V, start
<1>3. Steps(step, V, start, Chars) /\ \A v \in V, d \in Chars : step[<<v, d>>] = Step(v, d)
  BY <1>1 DEF Steps
<1> HIDE DEF step
<1>4. ASSUME NEW t \in Seq(Chars)
      PROVE  Follows(F(t), t, V, start, step) /\ F(t)[0] = start
  <2>0. Len(t) \in Nat
    OBVIOUS
  <2>1. \A n \in 1 .. Len(t) : t[n] \in Chars
    OBVIOUS
  <2>2. PICK f : Leads(f, t, V, start, step)
    BY <1>3, FollowedTo
  <2>3. f \in [0 .. Len(t) -> V] /\ f[0] = start /\ \A n \in 1 .. Len(t) : f[n] = Step(f[n - 1], t[n])
    BY <1>3, <2>0, <2>1, <2>2 DEF Leads
  <2>4. Is(f, t)
    BY <2>3
  <2>5. Is(F(t), t)
    BY <2>4
  <2> HIDE DEF F
  <2>6. F(t)[0] = start /\ \A n \in 1 .. Len(t) : F(t)[n] = Step(F(t)[n - 1], t[n])
    BY ONLY <2>0, <2>5
  <2> QED
    BY <1>3, <2>0, <2>1, <2>6 DEF Follows
<1> HIDE DEF F
<1>5. F(s)[Len(s)] \in V /\ F(Append(s, c))[Len(Append(s, c))] = step[<<F(s)[Len(s)], c>>]
  <2>1. Append(s, c) \in Seq(Chars)
    OBVIOUS
  <2>2. Follows(F(s), s, V, start, step) /\ Follows(F(Append(s, c)), Append(s, c), V, start, step)
    BY <1>4, <2>1
  <2> QED
    BY <1>3, <2>2, OneMore
<1>6. MeantOf(<<>>, unix) = start
  <2>1. <<>> \in Seq(Chars) /\ Len(<<>>) = 0
    OBVIOUS
  <2> QED
    BY <1>2, <1>4, <2>1
<1>7. MeantOf(s, unix) \in V /\ MeantOf(Append(s, c), unix) = Step(MeantOf(s, unix), c)
  BY <1>2, <1>3, <1>5
<1> QED
  BY <1>6, <1>7 DEF Step, V, start

KeptOf(t, unix) == Text!After(LAMBDA r, d : Kept(r, d, unix), <<>>, t)

(* for what needed an escape,                                              *)
LEMMA KeepingGoesOn ==
    ASSUME NEW s \in Seq(Chars), NEW c \in Chars, NEW unix \in BOOLEAN
    PROVE  /\ KeptOf(s, unix) \in Seq(Chars) /\ KeptOf(<<>>, unix) = <<>>
           /\ KeptOf(Append(s, c), unix) = Kept(KeptOf(s, unix), c, unix)
<1> DEFINE V == Seq(Chars)
           start == <<>>
           Step(v, d) == Kept(v, d, unix)
           step == [e \in V \X Chars |-> Step(e[1], e[2])]
           Is(f, t) == f = [n \in 0 .. Len(t) |-> IF n = 0 THEN start ELSE Step(f[n - 1], t[n])]
           F(t) == CHOOSE f : Is(f, t)
<1>1. start \in V /\ \A v \in V, d \in Chars : Step(v, d) \in V
  <2>1. ASSUME NEW v \in Seq(Chars), NEW d \in Chars PROVE Kept(v, d, unix) \in Seq(Chars)
    BY DEF Kept
  <2> QED
    BY <2>1
<1>2. \A t : KeptOf(t, unix) = F(t)[Len(t)]
  BY DEF KeptOf, Text!After
<1> HIDE DEF Step, V, start
<1>3. Steps(step, V, start, Chars) /\ \A v \in V, d \in Chars : step[<<v, d>>] = Step(v, d)
  BY <1>1 DEF Steps
<1> HIDE DEF step
<1>4. ASSUME NEW t \in Seq(Chars)
      PROVE  Follows(F(t), t, V, start, step) /\ F(t)[0] = start
  <2>0. Len(t) \in Nat
    OBVIOUS
  <2>1. \A n \in 1 .. Len(t) : t[n] \in Chars
    OBVIOUS
  <2>2. PICK f : Leads(f, t, V, start, step)
    BY <1>3, FollowedTo
  <2>3. f \in [0 .. Len(t) -> V] /\ f[0] = start /\ \A n \in 1 .. Len(t) : f[n] = Step(f[n - 1], t[n])
    BY <1>3, <2>0, <2>1, <2>2 DEF Leads
  <2>4. Is(f, t)
    BY <2>3
  <2>5. Is(F(t), t)
    BY <2>4
  <2> HIDE DEF F
  <2>6. F(t)[0] = start /\ \A n \in 1 .. Len(t) : F(t)[n] = Step(F(t)[n - 1], t[n])
    BY ONLY <2>0, <2>5
  <2> QED
    BY <1>3, <2>0, <2>1, <2>6 DEF Follows
<1> HIDE DEF F
<1>5. F(s)[Len(s)] \in V /\ F(Append(s, c))[Len(Append(s, c))] = step[<<F(s)[Len(s)], c>>]
  <2>1. Append(s, c) \in Seq(Chars)
    OBVIOUS
  <2>2. Follows(F(s), s, V, start, step) /\ Follows(F(Append(s, c)), Append(s, c), V, start, step)
    BY <1>4, <2>1
  <2> QED
    BY <1>3, <2>2, OneMore
<1>6. KeptOf(<<>>, unix) = start
  <2>1. <<>> \in Seq(Chars) /\ Len(<<>>) = 0
    OBVIOUS
  <2> QED
    BY <1>2, <1>4, <2>1
<1>7. KeptOf(s, unix) \in V /\ KeptOf(Append(s, c), unix) = Step(KeptOf(s, unix), c)
  BY <1>2, <1>3, <1>5
<1> QED
  BY <1>6, <1>7 DEF Step, V, start

JoinedOf(t) == Text!After(LAMBDA r, piece : Glued(r, piece), <<>>, t)

(* and for what pieces are joined to.                                      *)
LEMMA JoiningGoesOn ==
    ASSUME NEW s \in Seq(Texts), NEW c \in Texts
    PROVE  /\ JoinedOf(s) \in Seq(Chars) /\ JoinedOf(<<>>) = <<>>
           /\ JoinedOf(Append(s, c)) = Glued(JoinedOf(s), c)
<1> DEFINE V == Seq(Chars)
           start == <<>>
           Step(v, d) == Glued(v, d)
           step == [e \in V \X Texts |-> Step(e[1], e[2])]
           Is(f, t) == f = [n \in 0 .. Len(t) |-> IF n = 0 THEN start ELSE Step(f[n - 1], t[n])]
           F(t) == CHOOSE f : Is(f, t)
<1>1. start \in V /\ \A v \in V, d \in Texts : Step(v, d) \in V
  <2>1. ASSUME NEW v \in Seq(Chars), NEW d \in Texts PROVE Glued(v, d) \in Seq(Chars)
    BY GluedTyped DEF Texts
  <2> QED
    BY <2>1
<1>2. \A t : JoinedOf(t) = F(t)[Len(t)]
  BY DEF JoinedOf, Text!After
<1> HIDE DEF Step, V, start
<1>3. Steps(step, V, start, Texts) /\ \A v \in V, d \in Texts : step[<<v, d>>] = Step(v, d)
  BY <1>1 DEF Steps
<1> HIDE DEF step
<1>4. ASSUME NEW t \in Seq(Texts)
      PROVE  Follows(F(t), t, V, start, step) /\ F(t)[0] = start
  <2>0. Len(t) \in Nat
    OBVIOUS
  <2>1. \A n \in 1 .. Len(t) : t[n] \in Texts
    OBVIOUS
  <2>2. PICK f : Leads(f, t, V, start, step)
    BY <1>3, FollowedTo
  <2>3. f \in [0 .. Len(t) -> V] /\ f[0] = start /\ \A n \in 1 .. Len(t) : f[n] = Step(f[n - 1], t[n])
    BY <1>3, <2>0, <2>1, <2>2 DEF Leads
  <2>4. Is(f, t)
    BY <2>3
  <2>5. Is(F(t), t)
    BY <2>4
  <2> HIDE DEF F
  <2>6. F(t)[0] = start /\ \A n \in 1 .. Len(t) : F(t)[n] = Step(F(t)[n - 1], t[n])
    BY ONLY <2>0, <2>5
  <2> QED
    BY <1>3, <2>0, <2>1, <2>6 DEF Follows
<1> HIDE DEF F
<1>5. F(s)[Len(s)] \in V /\ F(Append(s, c))[Len(Append(s, c))] = step[<<F(s)[Len(s)], c>>]
  <2>1. Append(s, c) \in Seq(Texts)
    OBVIOUS
  <2>2. Follows(F(s), s, V, start, step) /\ Follows(F(Append(s, c)), Append(s, c), V, start, step)
    BY <1>4, <2>1
  <2> QED
    BY <1>3, <2>2, OneMore
<1>6. JoinedOf(<<>>) = start
  <2>1. <<>> \in Seq(Texts) /\ Len(<<>>) = 0
    OBVIOUS
  <2> QED
    BY <1>2, <1>4, <2>1
<1>7. JoinedOf(s) \in V /\ JoinedOf(Append(s, c)) = Step(JoinedOf(s), c)
  BY <1>2, <1>3, <1>5
<1> QED
  BY <1>6, <1>7 DEF Step, V, start

----------------------------------------------------------------------------
(* What a character is written as stands for that character.               *)
LEMMA EscapesMean ==
    ASSUME NEW unix \in BOOLEAN, NEW c \in DOMAIN Text!Escapes(unix)
    PROVE  Text!Meant(Text!Escapes(unix)[c], unix) = c
<1> DEFINE E == Text!Escapes(unix)
           e == E[c]
<1>1. e # "\n"
  BY DEF Text!Escapes, Text!Plain, Text!Shell
<1>2. \A d \in DOMAIN E : E[d] = e => d = c
  <2>1. ASSUME NEW d \in DOMAIN E
        PROVE  \/ d = "\r" /\ E[d] = "r"
               \/ d = "\n" /\ E[d] = "n"
               \/ d = "BEL" /\ E[d] = "a"
               \/ d = "BS" /\ E[d] = "b"
               \/ d = "\f" /\ E[d] = "f"
               \/ d = "\t" /\ E[d] = "t"
               \/ d = "VT" /\ E[d] = "v"
               \/ d \in {"\\", "'", "\""} \cup Text!Shell /\ E[d] = d
    <3>1. /\ E[d] = IF d \in DOMAIN Text!Plain THEN Text!Plain[d] ELSE d
          /\ d \notin DOMAIN Text!Plain => d \in Text!Shell
      BY <2>1 DEF Text!Escapes
    <3>2. CASE d \in DOMAIN Text!Plain
      <4>1. DOMAIN Text!Plain = {"\r", "\n", "BEL", "BS", "\f", "\t", "VT", "\\", "'", "\""}
        BY DEF Text!Plain
      <4>2. E[d] = Text!Plain[d]
        BY <3>1, <3>2
      <4> HIDE DEF E
      <4> QED
        BY <3>2, <4>1, <4>2 DEF Text!Plain
    <3>3. CASE d \notin DOMAIN Text!Plain
      BY <3>1, <3>3
    <3> QED
      BY <3>2, <3>3
  <2>0. c \in DOMAIN E
    OBVIOUS
  <2> HIDE DEF E
  <2>2. ASSUME NEW d \in DOMAIN E, E[d] = e PROVE d = c
    BY <2>0, <2>1, <2>2 DEF Text!Shell
  <2> QED
    BY <2>2
<1> HIDE DEF E
<1>3. \E d \in DOMAIN E : E[d] = e
  BY DEF E
<1> HIDE DEF e
<1>4. Text!Meant(e, unix) = CHOOSE d \in DOMAIN E : E[d] = e
  BY <1>1, <1>3 DEF Text!Meant, E
<1>5. (CHOOSE d \in DOMAIN E : E[d] = e) = c
  BY <1>2, <1>3
<1> QED
  BY <1>4, <1>5 DEF e, E

(* Only a backslash is waited for.                                         *)
LEMMA WaitingIs ==
    ASSUME NEW k, NEW c, NEW unix
    PROVE  Text!UnescapeStep([r |-> k, after |-> FALSE], c, unix)
               = [r |-> k, after |-> IF c = "\\" THEN TRUE ELSE FALSE]
<1> DEFINE m == [r |-> k, after |-> FALSE]
<1>1. Text!UnescapeStep(m, c, unix) = [m EXCEPT !.after = c = "\\"]
  BY Zenon DEF Text!UnescapeStep
<1>2. CASE c = "\\"
  BY <1>1, <1>2
<1>3. CASE c # "\\"
  BY <1>1, <1>3
<1> QED
  BY <1>2, <1>3

(* What needed an escape comes back, and nothing else.                     *)
LEMMA MeantIsKept ==
    ASSUME NEW unix \in BOOLEAN, NEW t \in Seq(Chars)
    PROVE  MeantOf(EscapedOf(t, unix), unix) = [r |-> KeptOf(t, unix), after |-> FALSE]
<1> DEFINE S == {s \in Seq(Chars) :
                   MeantOf(EscapedOf(s, unix), unix) = [r |-> KeptOf(s, unix), after |-> FALSE]}
<1>a. "0" \in Chars /\ "\\" \in Chars
  BY DEF Chars
<1>0. "0" \in Chars /\ "\\" \in Chars /\ <<>> \in Seq(Chars)
  BY <1>a
<1>1. <<>> \in S
  <2>1. EscapedOf(<<>>, unix) = <<>> /\ MeantOf(<<>>, unix) = NothingMeant /\ KeptOf(<<>>, unix) = <<>>
    BY <1>0, EscapeGoesOn, MeaningGoesOn, KeepingGoesOn
  <2> QED
    BY <1>0, <2>1 DEF NothingMeant
<1>2. ASSUME NEW s \in S, NEW c \in Chars PROVE Append(s, c) \in S
  <2> DEFINE a == EscapedOf(s, unix)
             m == MeantOf(a, unix)
             e == Text!Escapes(unix)[c]
             k == KeptOf(s, unix)
  <2>0. s \in Seq(Chars) /\ Append(s, c) \in Seq(Chars) /\ m = [r |-> k, after |-> FALSE]
    BY <1>2
  <2>1. /\ a \in Seq(Chars) /\ EscapedOf(Append(s, c), unix) = Text!EscapeStep(a, c, unix)
        /\ KeptOf(Append(s, c), unix) = Kept(k, c, unix)
    BY <2>0, EscapeGoesOn, KeepingGoesOn
  <2> HIDE DEF a, k, S
  <2>2. \A b \in Seq(Chars), d \in Chars :
            MeantOf(Append(b, d), unix) = Text!UnescapeStep(MeantOf(b, unix), d, unix)
    BY MeaningGoesOn
  <2>3. CASE c \in DOMAIN Text!Escapes(unix)
    <3>1. e \in Chars /\ Text!Meant(e, unix) = c
      BY <2>3, EscapesAre, EscapesMean
    <3> HIDE DEF e
    <3>2. Text!EscapeStep(a, c, unix) = a \o <<"\\", e>>
      BY <2>3 DEF Text!EscapeStep, e
    <3>3. Append(a, "\\") \in Seq(Chars) /\ a \o <<"\\", e>> = Append(Append(a, "\\"), e)
      BY <1>0, <2>1, <3>1
    <3>4. MeantOf(Append(a, "\\"), unix) = [r |-> k, after |-> TRUE]
      <4>1. MeantOf(Append(a, "\\"), unix) = Text!UnescapeStep(m, "\\", unix)
        BY <1>0, <2>1, <2>2
      <4> QED
        BY <2>0, <4>1, WaitingIs
    <3>5. MeantOf(Append(Append(a, "\\"), e), unix) = Text!UnescapeStep([r |-> k, after |-> TRUE], e, unix)
      BY <2>2, <3>1, <3>3, <3>4
    <3>6. Kept(k, c, unix) = Append(k, c)
      BY <2>3 DEF Kept
    <3> QED
      BY <2>0, <2>1, <3>1, <3>2, <3>3, <3>5, <3>6 DEF Text!UnescapeStep, S
  <2>4. CASE c \notin DOMAIN Text!Escapes(unix)
    <3>1. c # "\\"
      BY <2>4 DEF Text!Escapes, Text!Plain
    <3>2. Text!EscapeStep(a, c, unix) = Append(a, c) /\ Kept(k, c, unix) = k
      BY <2>4 DEF Text!EscapeStep, Kept
    <3>3. MeantOf(Append(a, c), unix) = Text!UnescapeStep(m, c, unix)
      BY <2>1, <2>2
    <3>4. Text!UnescapeStep(m, c, unix) = [r |-> k, after |-> FALSE]
      BY <2>0, <3>1, WaitingIs
    <3> QED
      BY <2>0, <2>1, <3>2, <3>3, <3>4 DEF S
  <2> QED
    BY <2>3, <2>4
<1> HIDE DEF S
<1>3. S \in SUBSET Seq(Chars)
  BY DEF S
<1>4. S = Seq(Chars)
  BY <1>1, <1>2, <1>3, TextsGrow
<1> QED
  BY <1>4 DEF S

(* That is the whole text, if all of it needed an escape.                  *)
Needs(c, unix) == c \in DOMAIN Text!Escapes(unix)
AllNeed(s, unix) == \A i \in 1 .. Len(s) : Needs(s[i], unix)

LEMMA AllIsKept ==
    ASSUME NEW unix \in BOOLEAN, NEW t \in Seq(Chars), AllNeed(t, unix)
    PROVE  KeptOf(t, unix) = t
<1> DEFINE S == {s \in Seq(Chars) : AllNeed(s, unix) => KeptOf(s, unix) = s}
<1>a. "0" \in Chars
  BY Zenon DEF Chars
<1>0. <<>> \in Seq(Chars)
  OBVIOUS
<1>1. <<>> \in S
  <2>1. KeptOf(<<>>, unix) = <<>>
    BY <1>a, <1>0, KeepingGoesOn
  <2> QED
    BY <1>0, <2>1
<1>2. ASSUME NEW s \in S, NEW c \in Chars PROVE Append(s, c) \in S
  <2>0. s \in Seq(Chars) /\ Append(s, c) \in Seq(Chars)
    OBVIOUS
  <2>1. KeptOf(Append(s, c), unix) = Kept(KeptOf(s, unix), c, unix)
    BY <2>0, KeepingGoesOn
  <2>2. ASSUME AllNeed(Append(s, c), unix)
        PROVE  AllNeed(s, unix) /\ Needs(c, unix)
    <3>1. Len(Append(s, c)) = Len(s) + 1 /\ Append(s, c)[Len(s) + 1] = c /\ Len(s) \in Nat
      BY <2>0
    <3>2. \A i \in 1 .. Len(s) : i \in 1 .. Len(s) + 1 /\ Append(s, c)[i] = s[i]
      BY <2>0
    <3>3. Len(s) + 1 \in 1 .. Len(s) + 1
      BY <3>1
    <3> QED
      BY <2>2, <3>1, <3>2, <3>3, Zenon DEF AllNeed
  <2>3. ASSUME Needs(c, unix)
        PROVE  Kept(s, c, unix) = Append(s, c)
    BY <2>3, Zenon DEF Needs, Kept
  <2>4. AllNeed(s, unix) => KeptOf(s, unix) = s
    OBVIOUS
  <2>5. AllNeed(Append(s, c), unix) => KeptOf(Append(s, c), unix) = Append(s, c)
    BY <2>1, <2>2, <2>3, <2>4, Zenon
  <2> QED
    BY <2>0, <2>5
<1> HIDE DEF S
<1>3. S \in SUBSET Seq(Chars)
  BY DEF S
<1>4. S = Seq(Chars)
  BY <1>1, <1>2, <1>3, TextsGrow
<1> QED
  BY <1>4 DEF S

(* So unescaping gives back what was escaped.                              *)
LEMMA EscapesComeBack == text \in Seq(Chars) => Text!EscapedComesBack
<1> SUFFICES ASSUME text \in Seq(Chars) PROVE Text!EscapedComesBack
  OBVIOUS
<1>1. ASSUME NEW unix \in BOOLEAN
      PROVE  Text!strUnescape(Text!strEscape(text, unix), unix) = KeptOf(text, unix)
  <2>1. \A t : Text!strEscape(t, unix) = EscapedOf(t, unix)
    BY DEF Text!strEscape, EscapedOf, Text!After
  <2>2. \A t : Text!strUnescape(t, unix) = MeantOf(t, unix).r
    BY DEF Text!strUnescape, MeantOf, Text!After, NothingMeant
  <2> QED
    BY <2>1, <2>2, MeantIsKept
<1>2. ASSUME NEW unix \in BOOLEAN, Text!ToSet(text) \subseteq DOMAIN Text!Escapes(unix)
      PROVE  AllNeed(text, unix)
  <2>1. \A i \in 1 .. Len(text) : text[i] \in Text!ToSet(text)
    BY DEF Text!ToSet
  <2> QED
    BY <1>2, <2>1, Zenon DEF AllNeed, Needs
<1> QED
  BY <1>1, <1>2, AllIsKept, Zenon DEF Text!EscapedComesBack

----------------------------------------------------------------------------
(* Numbers are written from the last digit on.                             *)
LEMMA QuotientBelow ==
    ASSUME NEW b \in Nat, b >= 2, NEW n \in Nat, n >= b
    PROVE  n \div b \in 1 .. n - 1 /\ n % b \in 0 .. b - 1
<1>1. b \in Nat \ {0} /\ n \in Int
  OBVIOUS
<1> DEFINE k == n \div b
           r == n % b
<1>2. n = b * k + r /\ r \in 0 .. b - 1 /\ k \in Int
  BY <1>1, Division
<1> HIDE DEF k, r
<1>3. k >= 1
  <2>1. k <= 0 => b * k <= 0
    BY <1>1, <1>2
  <2> QED
    BY <1>1, <1>2, <2>1
<1>4. k < n
  <2>1. b * k >= 2 * k
    BY <1>1, <1>2, <1>3
  <2> QED
    BY <1>1, <1>2, <1>3, <2>1
<1> QED
  BY <1>2, <1>3, <1>4 DEF k, r

(* The digits of all numbers are a function of the numbers.                *)
LEMMA WritingExists ==
    ASSUME NEW b \in Nat, b >= 2
    PROVE  \E f : f = [n \in Nat |-> IF n < b THEN <<Text!conv[n + 1]>>
                                     ELSE Append(f[n \div b], Text!conv[1 + (n % b)])]
<1> DEFINE One(n) == <<Text!conv[n + 1]>>
           More(t, n) == Append(t, Text!conv[1 + (n % b)])
           k(n) == n \div b
           Upto(m, f) == f = [n \in 0 .. m |-> IF n < b THEN One(n) ELSE More(f[k(n)], n)]
           Good(m) == \E f : Upto(m, f)
           Bad == {m \in Nat : ~Good(m)}
<1>0. \A n \in Nat : n >= b => k(n) \in 1 .. n - 1
  BY QuotientBelow
<1> HIDE DEF One, More, k
<1>1. Good(0)
  <2>1. Upto(0, [n \in 0 .. 0 |-> One(n)])
    OBVIOUS
  <2> QED
    BY <2>1
<1>2. ASSUME NEW m \in Nat, m # 0, NEW f, Upto(m - 1, f) PROVE Good(m)
  <2> DEFINE g == [n \in 0 .. m |-> IF n < m THEN f[n] ELSE IF m < b THEN One(m) ELSE More(f[k(m)], m)]
  <2>1. ASSUME NEW n \in 0 .. m
        PROVE  g[n] = IF n < b THEN One(n) ELSE More(g[k(n)], n)
    <3>1. n >= b => k(n) \in 1 .. n - 1 /\ k(n) \in 0 .. m - 1 /\ g[k(n)] = f[k(n)]
      BY <1>0, <1>2
    <3>2. CASE n < m
      <4>1. n \in 0 .. m - 1 /\ g[n] = f[n]
        BY <1>2, <3>2
      <4> HIDE DEF g
      <4> QED
        BY <1>2, <3>1, <4>1
    <3>3. CASE n = m
      <4>1. g[n] = IF m < b THEN One(m) ELSE More(f[k(m)], m)
        BY <1>2, <3>3
      <4> HIDE DEF g
      <4> QED
        BY <1>2, <3>1, <3>3, <4>1
    <3> QED
      BY <1>2, <3>2, <3>3
  <2>2. DOMAIN g = 0 .. m /\ g = [n \in DOMAIN g |-> g[n]]
    OBVIOUS
  <2> HIDE DEF g
  <2>3. Upto(m, g)
    BY <2>1, <2>2
  <2> QED
    BY <2>3
<1>3. Bad = {}
  <2> SUFFICES ASSUME Bad # {} PROVE FALSE
    OBVIOUS
  <2> HIDE DEF Good
  <2>1. PICK m \in Bad : \A j \in Bad : m <= j
    <3>1. Bad \in SUBSET Nat
      OBVIOUS
    <3> HIDE DEF Bad
    <3> QED
      BY <3>1, LeastExists
  <2>2. m \in Nat /\ ~Good(m) /\ m # 0
    BY <1>1
  <2>3. m - 1 \in Nat /\ ~(m <= m - 1)
    BY <2>2
  <2>4. Good(m - 1)
    BY <2>1, <2>3
  <2>5. PICK f : Upto(m - 1, f)
    BY <2>4 DEF Good
  <2> HIDE DEF Upto
  <2> QED
    BY <1>2, <2>2, <2>5
<1>4. \A m \in Nat : \E f : Upto(m, f)
  BY <1>3
<1> HIDE DEF Upto
<1> DEFINE F(m) == CHOOSE f : Upto(m, f)
<1>5. \A m \in Nat : Upto(m, F(m))
  BY <1>4
<1> HIDE DEF F
<1>6. ASSUME NEW m \in Nat, NEW n \in 0 .. m
      PROVE  F(m)[n] = IF n < b THEN One(n) ELSE More(F(m)[k(n)], n)
  BY <1>5 DEF Upto
(* Longer tables agree with shorter ones.                                  *)
<1>7. ASSUME NEW m \in Nat, NEW l \in Nat, l >= m
      PROVE  \A n \in 0 .. m : F(l)[n] = F(m)[n]
  <2> DEFINE Differ == {n \in 0 .. m : F(l)[n] # F(m)[n]}
  <2> SUFFICES ASSUME Differ # {} PROVE FALSE
    OBVIOUS
  <2>1. PICK n \in Differ : \A j \in Differ : n <= j
    <3>1. Differ \in SUBSET Nat
      OBVIOUS
    <3> HIDE DEF Differ
    <3> QED
      BY <3>1, LeastExists
  <2>2. n \in 0 .. m /\ n \in 0 .. l /\ F(l)[n] # F(m)[n]
    BY <1>7
  <2>3. F(m)[n] = IF n < b THEN One(n) ELSE More(F(m)[k(n)], n)
    BY <1>6, <2>2
  <2>4. F(l)[n] = IF n < b THEN One(n) ELSE More(F(l)[k(n)], n)
    BY <1>6, <2>2
  <2>5. n >= b
    BY <2>2, <2>3, <2>4
  <2>6. k(n) \in 0 .. m /\ ~(n <= k(n))
    BY <1>0, <2>2, <2>5
  <2>7. F(l)[k(n)] = F(m)[k(n)]
    BY <2>1, <2>6
  <2> QED
    BY <2>2, <2>3, <2>4, <2>7
<1> DEFINE f == [n \in Nat |-> F(n)[n]]
<1>8. ASSUME NEW n \in Nat
      PROVE  f[n] = IF n < b THEN One(n) ELSE More(f[k(n)], n)
  <2>1. n \in 0 .. n
    OBVIOUS
  <2>2. F(n)[n] = IF n < b THEN One(n) ELSE More(F(n)[k(n)], n)
    BY <1>6, <2>1
  <2>3. ASSUME n >= b PROVE F(n)[k(n)] = F(k(n))[k(n)] /\ k(n) \in Nat
    <3>1. k(n) \in Nat /\ n >= k(n) /\ k(n) \in 0 .. k(n)
      BY <1>0, <2>3
    <3> QED
      BY <1>7, <3>1
  <2> QED
    BY <2>2, <2>3
<1>9. f = [n \in Nat |-> IF n < b THEN One(n) ELSE More(f[k(n)], n)]
  <2>1. DOMAIN f = Nat /\ f = [n \in DOMAIN f |-> f[n]]
    OBVIOUS
  <2> HIDE DEF f
  <2> QED
    BY <1>8, <2>1
<1> HIDE DEF f
<1> QED
  BY <1>9, Zenon DEF One, More, k

(* A number has one digit more than its quotient.                          *)
LEMMA DigitsAreChars == \A n \in 0 .. 15 : Text!conv[n + 1] \in Chars /\ Text!conv[1 + n] \in Chars
<1>1. /\ "0" \in Chars /\ "1" \in Chars /\ "2" \in Chars /\ "3" \in Chars
      /\ "4" \in Chars /\ "5" \in Chars /\ "6" \in Chars /\ "7" \in Chars
      /\ "8" \in Chars /\ "9" \in Chars /\ "A" \in Chars /\ "B" \in Chars
      /\ "C" \in Chars /\ "D" \in Chars /\ "E" \in Chars /\ "F" \in Chars
  BY Zenon DEF Chars
<1> QED
  BY <1>1 DEF Text!conv

(* So the last digit of a number is written behind those before it.        *)
LEMMA WritingIs ==
    ASSUME NEW b \in 2 .. 16, NEW n \in Nat
    PROVE  /\ n < b => Text!Upto(n, b) = <<Text!conv[n + 1]>>
           /\ n >= b => Text!Upto(n, b) = Append(Text!Upto(n \div b, b), Text!conv[1 + (n % b)])
<1> DEFINE Is(f) == f = [m \in Nat |-> IF m < b THEN <<Text!conv[m + 1]>>
                                     ELSE Append(f[m \div b], Text!conv[1 + (m % b)])]
           f == CHOOSE f : Is(f)
<1>1. b \in Nat /\ b >= 2
  OBVIOUS
<1>2. \A m : Text!Upto(m, b) = f[m]
  BY DEF Text!Upto
<1>3. Is(f)
  BY <1>1, WritingExists, Zenon
<1> HIDE DEF f
<1>4. n >= b => n \div b \in Nat
  BY <1>1, QuotientBelow
<1>5. \A m \in Nat : f[m] = IF m < b THEN <<Text!conv[m + 1]>>
                            ELSE Append(f[m \div b], Text!conv[1 + (m % b)])
  BY <1>3
<1>6. CASE n < b
  <2>1. f[n] = <<Text!conv[n + 1]>>
    BY <1>5, <1>6
  <2>2. ~(n >= b)
    BY <1>1, <1>6
  <2> QED
    BY <1>2, <2>1, <2>2, Zenon
<1>7. CASE n >= b
  <2>1. f[n] = Append(f[n \div b], Text!conv[1 + (n % b)])
    <3>1. ~(n < b)
      BY <1>1, <1>7
    <3> QED
      BY <1>5, <3>1, Zenon
  <2> QED
    BY <1>1, <1>2, <1>7, <2>1
<1> QED
  BY <1>1, <1>6, <1>7

(* A number is written in one digit at least.                              *)
LEMMA Written ==
    ASSUME NEW b \in 2 .. 16, NEW n \in Nat
    PROVE  Text!Upto(n, b) \in Seq(Chars) /\ Len(Text!Upto(n, b)) \in Nat \ {0}
<1> DEFINE Bad == {m \in Nat : ~(Text!Upto(m, b) \in Seq(Chars) /\ Text!Upto(m, b) # <<>>)}
<1>0. b \in Nat /\ b >= 2
  OBVIOUS
<1>1. Bad = {}
  <2> SUFFICES ASSUME Bad # {} PROVE FALSE
    OBVIOUS
  <2>1. PICK m \in Bad : \A j \in Bad : m <= j
    <3>1. Bad \in SUBSET Nat
      OBVIOUS
    <3> HIDE DEF Bad
    <3> QED
      BY <3>1, LeastExists
  <2>2. /\ m \in Nat /\ ~(Text!Upto(m, b) \in Seq(Chars) /\ Text!Upto(m, b) # <<>>)
        /\ \A j \in Nat : j < m => Text!Upto(j, b) \in Seq(Chars)
    BY <2>1
  <2> HIDE DEF Bad
  <2>3. CASE m < b
    <3>1. m \in 0 .. 15
      BY <1>0, <2>2, <2>3
    <3>2. Text!Upto(m, b) = <<Text!conv[m + 1]>> /\ Text!conv[m + 1] \in Chars
      BY <2>2, <2>3, <3>1, WritingIs, DigitsAreChars
    <3> QED
      BY <2>2, <3>2
  <2>4. CASE m >= b
    <3>a. m \div b \in 1 .. m - 1 /\ m % b \in 0 .. b - 1
      BY <1>0, <2>2, <2>4, QuotientBelow
    <3>1. m \div b < m /\ m % b \in 0 .. 15 /\ m \div b \in Nat
      BY <1>0, <2>2, <3>a
    <3>2. Text!Upto(m \div b, b) \in Seq(Chars)
      BY <2>2, <3>1
    <3>3. Text!conv[1 + (m % b)] \in Chars
      BY <3>1, DigitsAreChars
    <3>4. Text!Upto(m, b) = Append(Text!Upto(m \div b, b), Text!conv[1 + (m % b)])
      BY <2>2, <2>4, WritingIs
    <3>b. \A u \in Seq(Chars), c \in Chars : Append(u, c) \in Seq(Chars) /\ Append(u, c) # <<>>
      BY AppendProperties
    <3>5. /\ Append(Text!Upto(m \div b, b), Text!conv[1 + (m % b)]) \in Seq(Chars)
          /\ Append(Text!Upto(m \div b, b), Text!conv[1 + (m % b)]) # <<>>
      BY <3>2, <3>3, <3>b, Zenon
    <3> QED
      BY <2>2, <3>4, <3>5
  <2> QED
    BY <1>0, <2>2, <2>3, <2>4
<1> QED
  BY <1>1

(* Zeros fill a number up.                                                 *)
Zeros(k) == [n \in 1 .. k |-> "0"]

(* They are as many as there are places left.                              *)
LEMMA ZerosAre ==
    ASSUME NEW k \in Int
    PROVE  /\ Zeros(k) \in Seq(Chars)
           /\ Len(Zeros(k)) = IF k < 0 THEN 0 ELSE k
           /\ \A i \in 1 .. k : Zeros(k)[i] = "0"
           /\ k <= 0 => Zeros(k) = <<>>
<1>0. "0" \in Chars
  BY Zenon DEF Chars
<1>1. CASE k < 0
  <2>1. 1 .. k = 1 .. 0
    BY <1>1
  <2>2. Zeros(k) = [n \in 1 .. 0 |-> "0"]
    BY <2>1, Zenon DEF Zeros
  <2>3. [n \in 1 .. 0 |-> "0"] = <<>>
    OBVIOUS
  <2>4. <<>> \in Seq(Chars) /\ Len(<<>>) = 0
    OBVIOUS
  <2> QED
    BY <1>1, <2>2, <2>3, <2>4
<1>2. CASE k >= 0
  <2>1. k \in Nat
    BY <1>2
  <2> DEFINE z == [n \in 1 .. k |-> "0"]
  <2>2. z \in Seq(Chars) /\ Len(z) = k
    BY <1>0, <2>1
  <2>3. \A i \in 1 .. k : z[i] = "0"
    OBVIOUS
  <2>4. k <= 0 => z = <<>>
    BY <2>1, <2>2
  <2> HIDE DEF z
  <2> QED
    BY <1>2, <2>2, <2>3, <2>4 DEF Zeros, z
<1> QED
  BY <1>1, <1>2

(* intToString writes zeros and the digits of a number.                    *)
LEMMA PaddedIs ==
    ASSUME NEW b \in 2 .. 16, NEW n \in Nat, NEW l \in Nat
    PROVE  /\ Text!intToString(n, l, b) = Zeros(l - Len(Text!Upto(n, b))) \o Text!Upto(n, b)
           /\ Text!intToString(n, l, b) \in Seq(Chars)
<1> DEFINE u == Text!Upto(n, b)
           z == Zeros(l - Len(u))
<1>1. u \in Seq(Chars) /\ Len(u) \in Nat \ {0}
  BY Written
<1>2. z \in Seq(Chars)
  BY <1>1, ZerosAre
<1>3. ~(n < 0) /\ ~(b < 2) /\ ~(b > 16)
  OBVIOUS
<1>4. Text!intToString(n, l, b) = (<<>> \o z) \o u
  BY <1>3, Zenon DEF Text!intToString, Zeros
<1> HIDE DEF u, z
<1>5. <<>> \o z = z /\ z \o u \in Seq(Chars)
  BY <1>1, <1>2, ConcatProperties, ConcatEmptySeq
<1> QED
  BY <1>4, <1>5 DEF u, z

(* A character is added behind what is joined.                             *)
LEMMA AppendBehind ==
    ASSUME NEW a \in Seq(Chars), NEW u \in Seq(Chars), NEW c \in Chars
    PROVE  a \o Append(u, c) = Append(a \o u, c)
<1>1. <<c>> \in Seq(Chars)
  OBVIOUS
<1>2. Append(u, c) = u \o <<c>>
  BY AppendIsConcat
<1>3. a \o u \in Seq(Chars)
  BY ConcatProperties
<1>4. Append(a \o u, c) = (a \o u) \o <<c>>
  BY <1>3, AppendIsConcat
<1>5. (a \o u) \o <<c>> = a \o (u \o <<c>>)
  BY <1>1, ConcatAssociative
<1> QED
  BY <1>2, <1>4, <1>5

LEMMA PaddedOne ==
    ASSUME NEW b \in 2 .. 16, NEW v \in 0 .. b - 1
    PROVE  Text!intToString(v, 1, b) = <<Text!conv[v + 1]>>
<1> DEFINE w == Text!Upto(v, b)
<1>0. v \in Nat /\ v < b /\ 1 \in Nat /\ v \in 0 .. 15
  OBVIOUS
<1>1. w \in Seq(Chars)
  BY <1>0, Written
<1>2. w = <<Text!conv[v + 1]>>
  BY <1>0, WritingIs
<1>3. Text!intToString(v, 1, b) = Zeros(1 - Len(w)) \o w
  BY <1>0, PaddedIs
<1>4. 1 - Len(w) = 0
  BY <1>2
<1> HIDE DEF w
<1>5. Zeros(0) = <<>> /\ <<>> \o w = w
  BY <1>1, ZerosAre, ConcatEmptySeq
<1> QED
  BY <1>2, <1>3, <1>4, <1>5, Zenon

(* One digit more.                                                         *)
LEMMA PaddedGrows ==
    ASSUME NEW b \in 2 .. 16, NEW n \in Nat, NEW d \in 0 .. b - 1, NEW l \in Nat \ {0}
    PROVE  Text!intToString(b * n + d, l + 1, b) = Append(Text!intToString(n, l, b), Text!conv[d + 1])
<1> DEFINE v == b * n + d
<1> v \in Nat /\ v = b * n + d
  <2>1. b \in Nat /\ d \in Nat /\ b * n \in Nat
    OBVIOUS
  <2> QED
    BY <2>1
<1> HIDE DEF v
<1> DEFINE u == Text!Upto(n, b)
           w == Text!Upto(v, b)
           c == Text!conv[d + 1]
<1>0. b \in Nat \ {0} /\ d \in Nat /\ d < b /\ 0 < b /\ d \in 0 .. 15
  OBVIOUS
<1>1. /\ u \in Seq(Chars) /\ Len(u) \in Nat \ {0}
      /\ w \in Seq(Chars) /\ Len(w) \in Nat \ {0}
  BY Written
<1>2. c \in Chars /\ "0" \in Chars /\ Text!conv[1] = "0"
  <2>1. "0" \in Chars
    BY Zenon DEF Chars
  <2>2. Text!conv[1] = "0"
    BY DEF Text!conv
  <2> QED
    BY <1>0, <2>1, <2>2, DigitsAreChars
<1>3. v = d => w = <<c>>
  BY <1>0, WritingIs
<1>4. v >= b => w = Append(u, c)
  <2>1. v \div b = n /\ v % b = d
    BY <1>0, DivisionIs
  <2>2. v >= b => w = Append(Text!Upto(v \div b, b), Text!conv[1 + (v % b)])
    BY WritingIs
  <2>3. 1 + d = d + 1
    BY <1>0
  <2> QED
    BY <2>1, <2>2, <2>3
<1>5. v < b => n = 0 /\ v = d
  <2>1. n >= 1 => b * n >= b
    BY <1>0
  <2> QED
    BY <1>0, <2>1
<1>6. n = 0 => u = <<"0">>
  <2>1. 0 < b /\ 0 \in Nat /\ 0 + 1 = 1
    BY <1>0
  <2>2. Text!Upto(0, b) = <<Text!conv[0 + 1]>>
    BY <2>1, WritingIs
  <2> QED
    BY <1>2, <2>1, <2>2
<1> HIDE DEF u, w, c
<1>7. Text!intToString(v, l + 1, b) = Append(Text!intToString(n, l, b), c)
  <2>1. /\ Text!intToString(v, l + 1, b) = Zeros((l + 1) - Len(w)) \o w
        /\ Text!intToString(n, l, b) = Zeros(l - Len(u)) \o u
    <3>1. l + 1 \in Nat /\ l \in Nat
      OBVIOUS
    <3>2. Text!intToString(v, l + 1, b) = Zeros((l + 1) - Len(w)) \o w
      BY <3>1, PaddedIs DEF w
    <3>3. Text!intToString(n, l, b) = Zeros(l - Len(u)) \o u
      BY <3>1, PaddedIs DEF u
    <3> QED
      BY <3>2, <3>3
  <2>2. CASE v >= b
    <3>1. Len(w) = Len(u) + 1 /\ w = Append(u, c)
      BY <1>1, <1>2, <1>4, <2>2, AppendProperties
    <3>2. (l + 1) - Len(w) = l - Len(u) /\ l - Len(u) \in Int
      BY <1>1, <3>1
    <3>3. Zeros(l - Len(u)) \in Seq(Chars)
      BY <3>2, ZerosAre
    <3>4. Zeros(l - Len(u)) \o Append(u, c) = Append(Zeros(l - Len(u)) \o u, c)
      BY <1>1, <1>2, <3>3, AppendBehind
    <3> QED
      BY <2>1, <3>1, <3>2, <3>4, Zenon
  <2>3. CASE v < b
    <3>1. w = <<c>> /\ u = <<"0">> /\ Len(w) = 1 /\ Len(u) = 1
      BY <1>3, <1>5, <1>6, <2>3
    <3>2. (l + 1) - 1 = l /\ l - 1 \in Nat
      OBVIOUS
    <3>3. Zeros(l) \in Seq(Chars) /\ Zeros(l - 1) \in Seq(Chars)
      BY <3>2, ZerosAre
    <3>4. Zeros(l) \o <<c>> = Append(Zeros(l), c) /\ Zeros(l - 1) \o <<"0">> = Append(Zeros(l - 1), "0")
      BY <1>2, <3>3, AppendIsConcat
    <3>5. Append(Zeros(l - 1), "0") = Zeros(l)
      <4>1. /\ Len(Zeros(l)) = l /\ \A i \in 1 .. l : Zeros(l)[i] = "0"
            /\ Len(Zeros(l - 1)) = l - 1 /\ \A i \in 1 .. l - 1 : Zeros(l - 1)[i] = "0"
        BY <3>2, ZerosAre
      <4>2. Append(Zeros(l - 1), "0") \in Seq(Chars) /\ Len(Append(Zeros(l - 1), "0")) = l
        BY <1>2, <3>2, <3>3, <4>1, AppendProperties
      <4>3. \A i \in 1 .. l : Append(Zeros(l - 1), "0")[i] = "0"
        BY <1>2, <3>2, <3>3, <4>1, AppendProperties
      <4> QED
        BY <3>3, <4>1, <4>2, <4>3, SeqEqual
    <3> QED
      BY <2>1, <3>1, <3>2, <3>4, <3>5
  <2> QED
    BY <1>0, <2>2, <2>3
<1> QED
  BY <1>7, Zenon DEF c

(* The digits of a text as they are written.                               *)
Digits(s) == [i \in DOMAIN s |-> Text!conv[Text!deconv(s[i]) + 1]]
AllDigits(s, b) == \A i \in 1 .. Len(s) : Text!deconv(s[i]) < b

(* One more digit of a text is one more that is written.                   *)
LEMMA DigitsGrow ==
    ASSUME NEW s \in Seq(Chars), NEW c \in Chars, NEW b \in 2 .. 16, Text!deconv(c) < b, AllDigits(s, b)
    PROVE  /\ Digits(<<c>>) = <<Text!conv[Text!deconv(c) + 1]>>
           /\ Digits(Append(s, c)) = Append(Digits(s), Text!conv[Text!deconv(c) + 1])
<1> DEFINE D(e) == Text!conv[Text!deconv(e) + 1]
<1>1. ASSUME NEW e, Text!deconv(e) < b PROVE D(e) \in Chars
  <2>1. Text!deconv(e) \in 0 .. 15
    BY <1>1, DigitsAre
  <2> QED
    BY <2>1, DigitsAreChars
<1>2. D(c) \in Chars /\ \A i \in 1 .. Len(s) : D(s[i]) \in Chars
  BY <1>1 DEF AllDigits
<1> HIDE DEF D
<1>3. Len(s) \in Nat /\ DOMAIN s = 1 .. Len(s)
  OBVIOUS
<1>4. Append(s, c) \in Seq(Chars) /\ Len(Append(s, c)) = Len(s) + 1 /\ Append(s, c)[Len(s) + 1] = c
      /\ \A i \in 1 .. Len(s) : Append(s, c)[i] = s[i]
  BY AppendProperties
<1>5. DOMAIN Append(s, c) = 1 .. Len(s) + 1
  BY <1>4, LenProperties
<1> DEFINE d == [i \in 1 .. Len(s) |-> D(s[i])]
           e == [i \in 1 .. Len(s) + 1 |-> D(Append(s, c)[i])]
<1>6. Digits(s) = d /\ Digits(Append(s, c)) = e
  BY <1>3, <1>5, Zenon DEF Digits, D
<1>7. d \in Seq(Chars) /\ Len(d) = Len(s) /\ \A i \in 1 .. Len(s) : d[i] = D(s[i])
  BY <1>2, <1>3
<1>8. \A i \in 1 .. Len(s) + 1 : e[i] = IF i = Len(s) + 1 THEN D(c) ELSE D(s[i])
  BY <1>3, <1>4
<1>9. e \in Seq(Chars) /\ Len(e) = Len(s) + 1
  <2>1. \A i \in 1 .. Len(s) + 1 : D(Append(s, c)[i]) \in Chars
    BY <1>2, <1>3, <1>4
  <2> QED
    BY <1>3, <2>1
<1> HIDE DEF d, e
<1>10. /\ Append(d, D(c)) \in Seq(Chars) /\ Len(Append(d, D(c))) = Len(s) + 1
       /\ \A i \in 1 .. Len(s) : Append(d, D(c))[i] = d[i]
       /\ Append(d, D(c))[Len(s) + 1] = D(c)
  BY <1>2, <1>7, AppendProperties
<1>11. \A i \in 1 .. Len(s) + 1 : e[i] = Append(d, D(c))[i]
  BY <1>3, <1>7, <1>8, <1>10
<1>12. e = Append(d, D(c))
  BY <1>9, <1>10, <1>11, SeqEqual
<1>13. Digits(<<c>>) = <<D(c)>>
  BY DEF Digits, D
<1> QED
  BY <1>6, <1>12, <1>13 DEF D

(* Digits are read as the number that is written with them.                *)
LEMMA DigitIsRead ==
    ASSUME NEW base \in 2 .. 16, NEW a \in [r : Nat, end : BOOLEAN], NEW c,
           a.end = FALSE, Text!deconv(c) < base, base * a.r + Text!deconv(c) < Word
    PROVE  Text!DigitStep(a, c, base, Word) = [r |-> base * a.r + Text!deconv(c), end |-> FALSE]
<1> DEFINE d == Text!deconv(c)
<1>1. d \in Nat /\ Word \in Nat \ {0} /\ a.r \in Nat
  BY DigitsAre, StringsAssumption DEF StringsAssumption
<1>2. ~(a.end \/ Text!deconv(c) >= base)
  BY <1>1
<1>3. Text!DigitStep(a, c, base, Word) = [a EXCEPT !.r = (a.r * base + d) % Word]
  BY <1>2, Zenon DEF Text!DigitStep
<1> HIDE DEF d
<1>4. (a.r * base + d) % Word = base * a.r + d
  <2>1. a.r * base = base * a.r /\ base * a.r \in Nat
    BY <1>1
  <2> DEFINE n == a.r * base
  <2>2. n + d \in 0 .. Word - 1
    BY <1>1, <2>1 DEF d
  <2> HIDE DEF n
  <2>3. n + d = Word * 0 + (n + d) /\ n + d \in Int
    BY <1>1, <2>2
  <2>4. (n + d) % Word = n + d
    BY <1>1, <2>2, <2>3, DivisionIs
  <2> QED
    BY <2>1, <2>4 DEF n
<1> QED
  BY <1>3, <1>4 DEF d

(* Digits that are read are written again as they were.                    *)
LEMMA DigitsReadBack ==
    ASSUME NEW base \in Bases, NEW t \in Seq(Chars), AllDigits(t, base), 2 * CountOf(t, base) <= Word
    PROVE  /\ NumberOf(t, base).r \in 0 .. CountOf(t, base) - 1
           /\ NumberOf(t, base).end = FALSE
           /\ t # <<>> => Text!intToString(NumberOf(t, base).r, Len(t), base) = Digits(t)
<1> DEFINE v(s) == NumberOf(s, base)
           k(s) == CountOf(s, base)
           Goal(s) == /\ v(s).r \in 0 .. k(s) - 1 /\ v(s).end = FALSE
                      /\ s # <<>> => Text!intToString(v(s).r, Len(s), base) = Digits(s)
           S == {s \in Seq(Chars) : AllDigits(s, base) /\ 2 * k(s) <= Word => Goal(s)}
<1>a. "0" \in Chars
  BY Zenon DEF Chars
<1>0. base \in 2 .. 16 /\ Word \in Nat \ {0} /\ <<>> \in Seq(Chars)
  BY StringsAssumption DEF StringsAssumption
<1>1. <<>> \in S
  <2>1. v(<<>>) = NoDigits /\ k(<<>>) = 1
    BY <1>a, <1>0, NumberGoesOn, CountGoesOn
  <2>2. Goal(<<>>)
    BY <2>1 DEF NoDigits
  <2> QED
    BY <1>0, <2>2
<1>2. ASSUME NEW s \in S, NEW c \in Chars PROVE Append(s, c) \in S
  <2> DEFINE q == Append(s, c)
             d == Text!deconv(c)
  <2>0. /\ s \in Seq(Chars) /\ q \in Seq(Chars) /\ q # <<>> /\ Len(q) = Len(s) + 1 /\ Len(s) \in Nat
        /\ AllDigits(s, base) /\ 2 * k(s) <= Word => Goal(s)
        /\ \A i \in 1 .. Len(s) : q[i] = s[i]
        /\ q[Len(s) + 1] = c
    BY <1>2, AppendProperties
  <2> HIDE DEF S
  <2> SUFFICES ASSUME AllDigits(q, base), 2 * k(q) <= Word PROVE Goal(q)
    BY <2>0 DEF S
  <2>1. AllDigits(s, base) /\ d < base
    <3>1. \A i \in 1 .. Len(s) + 1 : Text!deconv(q[i]) < base
      BY <2>0 DEF AllDigits
    <3> HIDE DEF q
    <3>2. Len(s) + 1 \in 1 .. Len(s) + 1 /\ \A i \in 1 .. Len(s) : i \in 1 .. Len(s) + 1
      BY <2>0
    <3> QED
      BY <2>0, <3>1, <3>2 DEF AllDigits
  <2>2. /\ v(s) \in [r : Nat, end : BOOLEAN] /\ v(q) = Text!DigitStep(v(s), c, base, Word)
        /\ k(s) \in Nat /\ k(q) = base * k(s)
    BY <2>0, NumberGoesOn, CountGoesOn
  <2>3. d \in Nat
    BY DigitsAre
  <2> HIDE DEF q, d, v, k
  <2>4. k(s) <= base * k(s) /\ base * k(s) \in Nat
    BY <1>0, <2>2
  <2>5. Goal(s)
    <3>1. 2 * k(s) <= Word
      BY <1>0, <2>2, <2>4
    <3> HIDE DEF Goal
    <3> QED
      BY <2>0, <2>1, <3>1
  <2> DEFINE n == v(s).r
             m == base * n + d
  <2>6. n \in Nat /\ n <= k(s) - 1 /\ v(s).end = FALSE
    BY <2>2, <2>5
  <2>7. m \in Nat /\ m < base * k(s)
    <3>1. base * n <= base * (k(s) - 1)
      BY <1>0, <2>2, <2>6
    <3>2. base * (k(s) - 1) = base * k(s) - base
      BY <1>0, <2>2
    <3>3. base * n \in Nat
      BY <1>0, <2>6
    <3> DEFINE i == base * n
               j == base * k(s)
    <3>4. i \in Nat /\ j \in Nat /\ i <= j - base
      BY <2>4, <3>1, <3>2, <3>3
    <3> HIDE DEF i, j
    <3>5. i + d \in Nat /\ i + d < j
      BY <1>0, <2>1, <2>3, <3>4
    <3> QED
      BY <3>5 DEF i, j
  <2>8. m < Word
    BY <1>0, <2>2, <2>4, <2>7
  <2>9. v(q) = [r |-> m, end |-> FALSE]
    BY <1>0, <2>1, <2>2, <2>6, <2>8, DigitIsRead DEF d
  <2>10. d \in 0 .. base - 1
    BY <1>0, <2>1, <2>3
  <2>11. Text!intToString(m, Len(q), base) = Digits(q)
    <3> HIDE DEF m
    <3>1. Digits(<<c>>) = <<Text!conv[d + 1]>> /\ Digits(q) = Append(Digits(s), Text!conv[d + 1])
      BY <1>0, <2>0, <2>1, DigitsGrow DEF d, q
    <3>2. CASE s = <<>>
      <4>1. q = <<c>> /\ Len(q) = 1 /\ k(s) = 1
        <5>1. k(<<>>) = 1
          BY <1>a, <1>0, CountGoesOn DEF k
        <5> QED
          BY <3>2, <5>1 DEF q
      <4>2. n = 0
        BY <2>6, <4>1
      <4>3. m = d
        BY <1>0, <2>3, <4>2 DEF m
      <4>4. Text!intToString(m, 1, base) = <<Text!conv[d + 1]>>
        BY <1>0, <2>10, <4>3, PaddedOne, Zenon
      <4> QED
        BY <3>1, <4>1, <4>4
    <3>3. CASE s # <<>>
      <4>1. Len(s) \in Nat \ {0}
        BY <2>0, <3>3
      <4>b. m = base * n + d
        BY DEF m
      <4> HIDE DEF n
      <4>2. Text!intToString(m, Len(s) + 1, base) = Append(Text!intToString(n, Len(s), base), Text!conv[d + 1])
        <5>1. base \in 2 .. 16 /\ n \in Nat /\ d \in 0 .. base - 1 /\ m \in Nat /\ Len(s) \in Nat \ {0}
          BY <1>0, <2>6, <2>7, <2>10, <4>1
        <5>2. Text!intToString(base * n + d, Len(s) + 1, base)
                  = Append(Text!intToString(n, Len(s), base), Text!conv[d + 1])
          BY ONLY <5>1, PaddedGrows, Zenon
        <5> QED
          BY <4>b, <5>2
      <4>3. Text!intToString(n, Len(s), base) = Digits(s)
        BY <2>5, <3>3 DEF n
      <4> QED
        BY <2>0, <3>1, <4>2, <4>3
    <3> QED
      BY <3>2, <3>3
  <2> HIDE DEF m
  <2>12. v(q).r = m /\ v(q).end = FALSE
    BY <2>9
  <2>13. m \in 0 .. k(q) - 1
    BY <2>2, <2>4, <2>7
  <2> QED
    BY <2>11, <2>12, <2>13
<1> HIDE DEF S
<1>3. S \in SUBSET Seq(Chars)
  BY DEF S
<1>4. S = Seq(Chars)
  BY <1>1, <1>2, <1>3, TextsGrow
<1>5. t \in S
  BY <1>4
<1> QED
  BY <1>5 DEF S

(* What a search of a text selects.                                        *)
LEMMA FirstIs ==
    ASSUME NEW t \in Seq(Chars), NEW S \in SUBSET (1 .. Len(t))
    PROVE  LET r == IF S # {} THEN Text!Min(S) ELSE 0
           IN  r \in 0 .. Len(t) /\ (r = 0 <=> S = {}) /\ (r # 0 => r \in S /\ \A i \in S : r <= i)
<1>0. Len(t) \in Nat
  OBVIOUS
<1>1. CASE S = {}
  BY <1>0, <1>1
<1>2. CASE S # {}
  <2>1. S \in SUBSET Nat
    BY <1>0
  <2>2. PICK r : r = Text!Min(S)
    OBVIOUS
  <2>3. r \in S /\ \A i \in S : r <= i
    BY <1>2, <2>1, <2>2, LeastExists DEF Text!Min
  <2>4. r \in 0 .. Len(t) /\ r # 0
    BY <2>3, <1>0
  <2> QED
    BY <1>2, <2>2, <2>3, <2>4
<1> QED
  BY <1>1, <1>2

(* What is no digit ends the number.                                       *)
LEMMA NumberEnds ==
    ASSUME NEW base \in Bases, NEW t \in Seq(Chars), NEW e \in 1 .. Len(t), Text!deconv(t[e]) >= base
    PROVE  NumberOf(t, base).r = NumberOf(SubSeq(t, 1, e - 1), base).r
<1> DEFINE a(n) == NumberOf(SubSeq(t, 1, n), base)
           Good(n) == a(n).r = a(e - 1).r /\ a(n).end = TRUE
           Bad == {n \in e .. Len(t) : ~Good(n)}
<1>0. Len(t) \in Nat /\ e \in Nat \ {0} /\ e <= Len(t)
  OBVIOUS
<1>1. ASSUME NEW n \in 1 .. Len(t)
      PROVE  a(n - 1) \in [r : Nat, end : BOOLEAN] /\ a(n) = Text!DigitStep(a(n - 1), t[n], base, Word)
  <2> DEFINE p == SubSeq(t, 1, n - 1)
  <2>1. p \in Seq(Chars) /\ t[n] \in Chars /\ SubSeq(t, 1, n) = Append(p, t[n])
    BY PrefixIs
  <2> HIDE DEF p
  <2>2. /\ NumberOf(p, base) \in [r : Nat, end : BOOLEAN]
        /\ NumberOf(Append(p, t[n]), base) = Text!DigitStep(NumberOf(p, base), t[n], base, Word)
    BY <2>1, NumberGoesOn
  <2> QED
    BY <2>1, <2>2 DEF p
<1>a. a(Len(t)) = NumberOf(t, base)
  BY SubSeqFull
<1> HIDE DEF a
<1>2. ASSUME NEW n \in e .. Len(t), a(n - 1).r = a(e - 1).r,
             n = e \/ a(n - 1).end = TRUE
      PROVE  Good(n)
  <2>1. n \in 1 .. Len(t)
    BY <1>0
  <2>2. a(n - 1).end \/ Text!deconv(t[n]) >= base
    BY <1>2
  <2>3. a(n) = [a(n - 1) EXCEPT !.end = TRUE]
    BY <1>1, <2>1, <2>2, Zenon DEF Text!DigitStep
  <2>4. a(n - 1) \in [r : Nat, end : BOOLEAN]
    BY <1>1, <2>1
  <2> QED
    BY <1>2, <2>3, <2>4
<1>3. Bad = {}
  <2> SUFFICES ASSUME Bad # {} PROVE FALSE
    OBVIOUS
  <2>1. PICK n \in Bad : \A j \in Bad : n <= j
    <3>1. Bad \in SUBSET Nat
      BY <1>0
    <3> HIDE DEF Bad
    <3> QED
      BY <3>1, LeastExists
  <2>2. n \in e .. Len(t) /\ ~Good(n) /\ \A j \in e .. Len(t) : j < n => Good(j)
    BY <1>0, <2>1
  <2> HIDE DEF Bad
  <2>3. CASE n = e
    BY <1>2, <2>2, <2>3
  <2>4. CASE n # e
    <3>1. n - 1 \in e .. Len(t) /\ n - 1 < n
      BY <1>0, <2>2, <2>4
    <3>2. Good(n - 1)
      BY <2>2, <3>1
    <3> QED
      BY <1>2, <2>2, <3>2
  <2> QED
    BY <2>3, <2>4
<1>4. Len(t) \in e .. Len(t)
  BY <1>0
<1>5. Good(Len(t))
  BY <1>3, <1>4
<1> QED
  BY <1>a, <1>5 DEF a

(* So the digits that strToInt reads come back.                            *)
LEMMA DigitsHold == text \in Seq(Chars) => Text!DigitsComeBack
<1> SUFFICES ASSUME text \in Seq(Chars), NEW base \in Bases
             PROVE  LET end == Text!SelectInSeq(text, LAMBDA c : Text!deconv(c) >= base)
                        digits == IF end = 0 THEN text ELSE SubSeq(text, 1, end - 1)
                        count == Text!After(LAMBDA n, c : base * n, 1, digits)
                    IN  digits # <<>> /\ 2 * count <= Word =>
                        /\ Text!strToInt(text, base, Word) \in 0 .. Word \div 2 - 1
                        /\ Text!intToString(Text!strToInt(text, base, Word), Len(digits), base)
                               = [i \in DOMAIN digits |-> Text!conv[Text!deconv(digits[i]) + 1]]
  BY Zenon DEF Text!DigitsComeBack
<1> DEFINE S == {i \in 1 .. Len(text) : Text!deconv(text[i]) >= base}
           end == IF S # {} THEN Text!Min(S) ELSE 0
           digits == IF end = 0 THEN text ELSE SubSeq(text, 1, end - 1)
           r == NumberOf(text, base).r
<1>0. base \in 2 .. 16 /\ Word \in Nat \ {0} /\ Len(text) \in Nat
  BY StringsAssumption DEF StringsAssumption
<1>1. Text!SelectInSeq(text, LAMBDA c : Text!deconv(c) >= base) = end
  BY Zenon DEF Text!SelectInSeq
<1>2. end \in 0 .. Len(text) /\ (end = 0 <=> S = {}) /\ (end # 0 => end \in S /\ \A i \in S : end <= i)
  <2>1. S \in SUBSET (1 .. Len(text))
    OBVIOUS
  <2> HIDE DEF S
  <2> QED
    BY <2>1, FirstIs
<1> HIDE DEF end
<1>3. \A n \in 1 .. Len(text) : (end = 0 \/ n < end) => Text!deconv(text[n]) < base
  <2> SUFFICES ASSUME NEW n \in 1 .. Len(text), end = 0 \/ n < end, ~(Text!deconv(text[n]) < base) PROVE FALSE
    OBVIOUS
  <2>1. Text!deconv(text[n]) \in Nat
    BY DigitsAre
  <2>2. n \in S
    BY <1>0, <2>1
  <2> HIDE DEF S
  <2> QED
    BY <1>0, <1>2, <2>2
<1>4. /\ digits \in Seq(Chars) /\ AllDigits(digits, base)
      /\ NumberOf(digits, base).r = r
  <2>1. CASE end = 0
    BY <1>3, <2>1 DEF AllDigits
  <2>2. CASE end # 0
    <3>1. end \in 1 .. Len(text) /\ Text!deconv(text[end]) >= base
      BY <1>2, <2>2
    <3> DEFINE p == SubSeq(text, 1, end - 1)
    <3>2. p \in Seq(Chars) /\ Len(p) = end - 1 /\ \A i \in 1 .. end - 1 : p[i] = text[i]
      BY <3>1
    <3>3. \A i \in 1 .. end - 1 : i \in 1 .. Len(text) /\ i < end
      BY <1>0, <3>1
    <3>5. NumberOf(p, base).r = r
      BY <3>1, NumberEnds
    <3> HIDE DEF p
    <3>4. AllDigits(p, base)
      BY <1>3, <3>2, <3>3 DEF AllDigits
    <3> QED
      BY <2>2, <3>2, <3>4, <3>5 DEF p
  <2> QED
    BY <2>1, <2>2
<1> HIDE DEF digits
<1>5. Text!strToInt(text, base, Word) = r
  BY Zenon DEF Text!strToInt, NumberOf, Text!After, NoDigits
<1>6. Text!After(LAMBDA n, c : base * n, 1, digits) = CountOf(digits, base)
  BY Zenon DEF CountOf, Text!After
<1>7. ASSUME digits # <<>>, 2 * CountOf(digits, base) <= Word
      PROVE  r \in 0 .. Word \div 2 - 1 /\ Text!intToString(r, Len(digits), base) = Digits(digits)
  <2>1. r \in 0 .. CountOf(digits, base) - 1 /\ Text!intToString(r, Len(digits), base) = Digits(digits)
    BY <1>4, <1>7, DigitsReadBack, Zenon
  <2>2. CountOf(digits, base) \in Nat
    <3>1. "0" \in Chars
      BY Zenon DEF Chars
    <3> QED
      BY <1>4, <3>1, CountGoesOn
  <2> QED
    BY <1>0, <1>7, <2>1, <2>2
<1> QED
  BY <1>1, <1>5, <1>6, <1>7, Zenon DEF digits, Digits

(* What remains of a text when leading characters are dropped.             *)
LEMMA LeadingIs ==
    ASSUME NEW chars, NEW s \in Seq(Chars)
    PROVE  /\ (\A j \in 1 .. Len(s) : s[j] \in chars) => Text!NoLeading(chars, s) = <<>>
           /\ \A i \in 1 .. Len(s) :
                 s[i] \notin chars /\ (\A j \in 1 .. i - 1 : s[j] \in chars)
                    => Text!NoLeading(chars, s) = SubSeq(s, i, Len(s))
<1> DEFINE S == {i \in 1 .. Len(s) : s[i] \notin chars}
           r == IF S # {} THEN Text!Min(S) ELSE 0
<1>0. Len(s) \in Nat
  OBVIOUS
<1>1. Text!NoLeading(chars, s) = IF r = 0 THEN <<>> ELSE SubSeq(s, r, Len(s))
  BY Zenon DEF Text!NoLeading, Text!SelectInSeq
<1>2. r \in 0 .. Len(s) /\ (r = 0 <=> S = {}) /\ (r # 0 => r \in S /\ \A i \in S : r <= i)
  <2>1. S \in SUBSET (1 .. Len(s))
    OBVIOUS
  <2> HIDE DEF S
  <2> QED
    BY <2>1, FirstIs
<1> HIDE DEF r
<1>3. ASSUME \A j \in 1 .. Len(s) : s[j] \in chars PROVE Text!NoLeading(chars, s) = <<>>
  BY <1>1, <1>2, <1>3
<1>4. ASSUME NEW i \in 1 .. Len(s), s[i] \notin chars, \A j \in 1 .. i - 1 : s[j] \in chars
      PROVE  r = i
  <2>1. i \in S
    BY <1>4
  <2>2. r \in S /\ r <= i
    BY <1>2, <2>1
  <2>3. r \in 1 .. Len(s) /\ s[r] \notin chars
    BY <2>2
  <2> QED
    BY <1>0, <1>4, <2>2, <2>3
<1>5. \A i \in 1 .. Len(s) : i # 0
  BY <1>0
<1> QED
  BY <1>1, <1>3, <1>4, <1>5

(* One more character is dropped only when all before it are.              *)
LEMMA LeadingGrows ==
    ASSUME NEW chars, NEW s \in Seq(Chars), NEW c \in Chars
    PROVE  LET n == Text!NoLeading(chars, s)
           IN  /\ n \in Seq(Chars) /\ Text!NoLeading(chars, <<>>) = <<>>
               /\ Text!NoLeading(chars, Append(s, c))
                     = IF n # <<>> THEN Append(n, c) ELSE IF c \in chars THEN <<>> ELSE <<c>>
<1> DEFINE n == Text!NoLeading(chars, s)
           q == Append(s, c)
           m == Text!NoLeading(chars, q)
           First(i) == i \in 1 .. Len(s) /\ s[i] \notin chars /\ \A j \in 1 .. i - 1 : s[j] \in chars
<1>0. Len(s) \in Nat
  OBVIOUS
<1>1. /\ q \in Seq(Chars) /\ Len(q) = Len(s) + 1 /\ q[Len(s) + 1] = c
      /\ \A i \in 1 .. Len(s) : q[i] = s[i]
  BY AppendProperties
<1> HIDE DEF q
<1>2. Text!NoLeading(chars, <<>>) = <<>>
  <2>1. <<>> \in Seq(Chars) /\ \A j \in 1 .. Len(<<>>) : <<>>[j] \in chars
    OBVIOUS
  <2> QED
    BY <2>1, LeadingIs
<1>3. CASE \A j \in 1 .. Len(s) : s[j] \in chars
  <2>1. n = <<>>
    BY <1>3, LeadingIs
  <2>2. CASE c \in chars
    <3>1. \A j \in 1 .. Len(q) : q[j] \in chars
      BY <1>0, <1>1, <1>3, <2>2
    <3>2. m = <<>>
      BY <1>1, <3>1, LeadingIs
    <3> QED
      BY <1>2, <2>1, <2>2, <3>2 DEF q
  <2>3. CASE c \notin chars
    <3>1. Len(s) + 1 \in 1 .. Len(q) /\ (Len(s) + 1) - 1 = Len(s)
      BY <1>0, <1>1
    <3>2. q[Len(s) + 1] \notin chars /\ \A j \in 1 .. Len(s) : q[j] \in chars
      BY <1>1, <1>3, <2>3
    <3>3. m = SubSeq(q, Len(s) + 1, Len(q))
      BY <1>1, <3>1, <3>2, LeadingIs
    <3>4. SubSeq(q, Len(s) + 1, Len(q)) = <<c>>
      <4> DEFINE p == SubSeq(q, Len(s) + 1, Len(q))
      <4>1. p \in Seq(Chars) /\ Len(p) = 1 /\ p[1] = q[Len(s) + 1]
        BY <1>0, <1>1
      <4> HIDE DEF p
      <4>2. <<c>> \in Seq(Chars) /\ Len(<<c>>) = 1 /\ \A j \in 1 .. 1 : <<c>>[j] = p[j]
        BY <1>1, <4>1
      <4>3. p = <<c>>
        BY <4>1, <4>2, SeqEqual
      <4> QED
        BY <4>3 DEF p
    <3> QED
      BY <1>2, <2>1, <2>3, <3>3, <3>4 DEF q
  <2> QED
    BY <2>2, <2>3
<1>4. CASE \E j \in 1 .. Len(s) : s[j] \notin chars
  <2>1. PICK i : First(i)
    <3> DEFINE S == {j \in 1 .. Len(s) : s[j] \notin chars}
    <3>1. S \in SUBSET Nat /\ S # {}
      BY <1>0, <1>4
    <3> HIDE DEF S
    <3>2. PICK i \in S : \A j \in S : i <= j
      BY <3>1, LeastExists
    <3>3. i \in 1 .. Len(s) /\ s[i] \notin chars
      BY <3>2 DEF S
    <3>4. ASSUME NEW j \in 1 .. i - 1 PROVE s[j] \in chars
      <4>1. j \in 1 .. Len(s) /\ ~(i <= j)
        BY <1>0, <3>3
      <4>2. j \notin S
        BY <3>2, <4>1
      <4> QED
        BY <4>1, <4>2 DEF S
    <3> QED
      BY <3>3, <3>4
  <2>2. n = SubSeq(s, i, Len(s))
    BY <2>1, LeadingIs
  <2>3. /\ i \in 1 .. Len(q) /\ q[i] \notin chars /\ \A j \in 1 .. i - 1 : q[j] \in chars
    <3>1. i \in 1 .. Len(q) /\ \A j \in 1 .. i - 1 : j \in 1 .. Len(s)
      BY <1>0, <1>1, <2>1
    <3> QED
      BY <1>1, <2>1, <3>1
  <2>4. m = SubSeq(q, i, Len(q))
    BY <1>1, <2>3, LeadingIs
  <2> HIDE DEF m, n
  <2>5. n \in Seq(Chars) /\ Len(n) = Len(s) - i + 1 /\ \A j \in 1 .. Len(s) - i + 1 : n[j] = s[i + j - 1]
    BY <1>0, <2>1, <2>2
  <2>6. m \in Seq(Chars) /\ Len(m) = Len(s) - i + 2 /\ \A j \in 1 .. Len(s) - i + 2 : m[j] = q[i + j - 1]
    BY <1>0, <1>1, <2>1, <2>4
  <2>7. n # <<>>
    BY <1>0, <2>1, <2>5
  <2>8. /\ Append(n, c) \in Seq(Chars) /\ Len(Append(n, c)) = Len(n) + 1
        /\ \A j \in 1 .. Len(n) : Append(n, c)[j] = n[j]
        /\ Append(n, c)[Len(n) + 1] = c
    BY <2>5, AppendProperties
  <2>9. ASSUME NEW j \in 1 .. Len(s) - i + 2 PROVE m[j] = Append(n, c)[j]
    <3>1. CASE j = Len(s) - i + 2
      <4>1. i + j - 1 = Len(s) + 1 /\ j = Len(n) + 1
        BY <1>0, <2>1, <2>5, <3>1
      <4> QED
        BY <1>1, <2>6, <2>8, <4>1
    <3>2. CASE j # Len(s) - i + 2
      <4>1. j \in 1 .. Len(s) - i + 1 /\ i + j - 1 \in 1 .. Len(s)
        BY <1>0, <2>1, <3>2
      <4> QED
        BY <1>1, <2>5, <2>6, <2>8, <4>1
    <3> QED
      BY <3>1, <3>2
  <2>10. m = Append(n, c)
    <3>1. Len(m) = Len(Append(n, c)) /\ Len(m) = Len(s) - i + 2
      BY <1>0, <2>1, <2>5, <2>6, <2>8
    <3> QED
      BY <2>6, <2>8, <2>9, <3>1, SeqEqual
  <2> QED
    BY <1>2, <2>5, <2>7, <2>10 DEF m, n, q
<1> QED
  BY <1>3, <1>4

(* Cleaning keeps a text from the first character that is not blank to the *)
(* last one, the blanks behind it apart.                                   *)
LEMMA CleanKeeps ==
    ASSUME NEW t \in Seq(Chars)
    PROVE  LET a == CleanOf(t)
               n == Text!NoLeading(Text!Blank, t)
           IN  /\ a \in Cleaned
               /\ a.r = <<>> => n = <<>>
               /\ a.r # <<>> => n = a.r \o a.x /\ a.r[Len(a.r)] \notin Text!Blank
               /\ \A j \in 1 .. Len(a.x) : a.x[j] \in Text!Blank
<1> DEFINE Is(s, a, n) == /\ a \in Cleaned
                          /\ a.r = <<>> => n = <<>>
                          /\ a.r # <<>> => n = a.r \o a.x /\ a.r[Len(a.r)] \notin Text!Blank
                          /\ \A j \in 1 .. Len(a.x) : a.x[j] \in Text!Blank
           Led(s) == Text!NoLeading(Text!Blank, s)
           S == {s \in Seq(Chars) : Is(s, CleanOf(s), Led(s))}
<1>a. "0" \in Chars
  BY Zenon DEF Chars
<1>1. <<>> \in S
  <2>1. <<>> \in Seq(Chars)
    OBVIOUS
  <2>2. CleanOf(<<>>) = NoneClean /\ CleanOf(<<>>) \in Cleaned /\ Led(<<>>) = <<>>
    BY <1>a, <2>1, CleanGoesOn, LeadingGrows
  <2>3. CleanOf(<<>>).r = <<>> /\ CleanOf(<<>>).x = <<>> /\ Len(<<>>) = 0
    BY <2>2 DEF NoneClean
  <2> HIDE DEF Led
  <2>4. Is(<<>>, CleanOf(<<>>), Led(<<>>))
    <3>1. 1 .. Len(CleanOf(<<>>).x) = {}
      BY <2>3
    <3> QED
      BY <2>2, <2>3, <3>1, Zenon
  <2> HIDE DEF Is
  <2> QED
    BY <2>1, <2>4
<1>2. ASSUME NEW s \in S, NEW c \in Chars PROVE Append(s, c) \in S
  <2> DEFINE q == Append(s, c)
             a == CleanOf(s)
             b == CleanOf(q)
             r == a.r
             y == a.x
  <2>1. s \in Seq(Chars) /\ q \in Seq(Chars) /\ Is(s, a, Led(s))
    BY <1>2, AppendProperties
  <2>2. b = Text!CleanStep(a, c) /\ b \in Cleaned
    <3>1. CleanOf(s) \in Cleaned /\ CleanOf(q) \in Cleaned /\ CleanOf(q) = Text!CleanStep(CleanOf(s), c)
      BY <2>1, CleanGoesOn
    <3> QED
      BY <3>1
  <2>a. Is(q, b, Led(q)) => q \in S
    <3> HIDE DEF Is
    <3> QED
      BY <2>1
  <2>3. Led(q) = IF Led(s) # <<>> THEN Append(Led(s), c) ELSE IF c \in Text!Blank THEN <<>> ELSE <<c>>
    BY <2>1, LeadingGrows
  <2>4. r \in Seq(Chars) /\ y \in Seq(Chars) /\ a = [r |-> r, x |-> y]
    BY <2>1 DEF Cleaned
  <2>5. /\ r = <<>> => Led(s) = <<>>
        /\ r # <<>> => Led(s) = r \o y /\ r[Len(r)] \notin Text!Blank /\ Led(s) # <<>>
        /\ \A j \in 1 .. Len(y) : y[j] \in Text!Blank
    <3>1. r # <<>> => r \o y # <<>>
      BY <2>4, ConcatEqualIffEmpty
    <3> QED
      BY <2>1, <3>1
  <2> HIDE DEF Led, S, b, q, r, y
  <2>6. CASE c \in Text!Blank
    <3>1. b = [r |-> r, x |-> Append(y, c)]
      <4>1. b = [a EXCEPT !.x = Append(a.x, c)]
        BY <2>2, <2>6, Zenon DEF Text!CleanStep
      <4>2. b = [a EXCEPT !.x = Append(y, c)]
        BY <4>1, Zenon DEF y
      <4>3. a = [r |-> r, x |-> y]
        BY <2>4
      <4> HIDE DEF a
      <4> QED
        BY <4>2, <4>3
    <3>b. b.r = r /\ b.x = Append(y, c)
      BY <3>1
    <3>2. \A j \in 1 .. Len(Append(y, c)) : Append(y, c)[j] \in Text!Blank
      <4>1. /\ Len(y) \in Nat /\ Len(Append(y, c)) = Len(y) + 1 /\ Append(y, c)[Len(y) + 1] = c
            /\ \A j \in 1 .. Len(y) : Append(y, c)[j] = y[j]
        BY <2>4, AppendProperties
      <4> QED
        BY <2>5, <2>6, <4>1
    <3>3. CASE r = <<>>
      <4>1. Is(q, b, Led(q))
        BY <2>2, <2>3, <2>5, <2>6, <3>b, <3>2, <3>3
      <4> QED
        BY <2>a, <4>1, Zenon DEF q
    <3>4. CASE r # <<>>
      <4>1. Led(q) = r \o Append(y, c)
        <5>1. Led(s) = r \o y /\ Led(s) # <<>>
          BY <2>5, <3>4
        <5>2. Led(q) = Append(r \o y, c)
          BY <2>3, <5>1
        <5>3. r \o Append(y, c) = Append(r \o y, c)
          BY <2>2, <2>4, AppendBehind, Zenon
        <5> QED
          BY <5>2, <5>3
      <4>2. Is(q, b, Led(q))
        BY <2>2, <2>5, <3>b, <3>2, <3>4, <4>1
      <4> QED
        BY <2>a, <4>2, Zenon DEF q
    <3> QED
      BY <3>3, <3>4
  <2>7. CASE c \notin Text!Blank
    <3> DEFINE z == IF r = <<>> THEN <<c>> ELSE Append(r \o y, c)
    <3>1. b = [r |-> z, x |-> <<>>]
      BY <2>2, <2>7, Zenon DEF Text!CleanStep, r, y
    <3>2. Led(q) = z
      BY <2>3, <2>5, <2>7
    <3>3. z \in Seq(Chars) /\ z # <<>> /\ z[Len(z)] = c
      <4>1. CASE r = <<>>
        BY <4>1
      <4>2. CASE r # <<>>
        <5>1. r \o y \in Seq(Chars)
          BY <2>4, ConcatProperties
        <5> DEFINE w == r \o y
        <5> HIDE DEF w
        <5>2. Append(w, c) \in Seq(Chars) /\ Append(w, c) # <<>> /\ Append(w, c)[Len(Append(w, c))] = c
          BY <5>1 DEF w
        <5> QED
          BY <4>2, <5>2 DEF w
      <4> QED
        BY <4>1, <4>2
    <3> HIDE DEF z
    <3>4. z \o <<>> = z
      BY <3>3, ConcatEmptySeq
    <3>5. \A j \in 1 .. Len(<<>>) : <<>>[j] \in Text!Blank
      OBVIOUS
    <3>6. Is(q, b, Led(q))
      BY <2>2, <2>7, <3>1, <3>2, <3>3, <3>4, <3>5
    <3> QED
      BY <2>a, <3>6, Zenon DEF q
  <2> QED
    BY <2>6, <2>7 DEF q
<1> HIDE DEF S
<1>3. S \in SUBSET Seq(Chars)
  BY DEF S
<1>4. S = Seq(Chars)
  BY <1>1, <1>2, <1>3, TextsGrow
<1>5. t \in S
  BY <1>4
<1> QED
  BY <1>5 DEF S

(* Dropping blanks from the end.                                           *)
LEMMA Reversed ==
    ASSUME NEW s \in Seq(Chars)
    PROVE  /\ Text!Reverse(s) \in Seq(Chars) /\ Len(Text!Reverse(s)) = Len(s)
           /\ \A i \in 1 .. Len(s) : Text!Reverse(s)[i] = s[Len(s) - i + 1]
<1>1. Len(s) \in Nat /\ \A i \in 1 .. Len(s) : Len(s) - i + 1 \in 1 .. Len(s) /\ s[Len(s) - i + 1] \in Chars
  OBVIOUS
<1> DEFINE e == [i \in 1 .. Len(s) |-> s[Len(s) - i + 1]]
<1>2. e \in Seq(Chars) /\ Len(e) = Len(s)
  BY <1>1
<1>3. \A i \in 1 .. Len(s) : e[i] = s[Len(s) - i + 1]
  OBVIOUS
<1>4. Text!Reverse(s) = e
  BY DEF Text!Reverse
<1> HIDE DEF e
<1> QED
  BY <1>2, <1>3, <1>4

(* Turned around, what is dropped is at the end.                           *)
LEMMA Trimmed ==
    ASSUME NEW r \in Seq(Chars), r # <<>>, r[Len(r)] \notin Text!Blank,
           NEW y \in Seq(Chars), \A j \in 1 .. Len(y) : y[j] \in Text!Blank
    PROVE  Text!Reverse(Text!NoLeading(Text!Blank, Text!Reverse(r \o y))) = r
<1> DEFINE u == r \o y
           v == Text!Reverse(u)
           n == Text!NoLeading(Text!Blank, v)
           w == Text!Reverse(n)
<1>0. Len(r) \in Nat \ {0} /\ Len(y) \in Nat
  OBVIOUS
<1>1. /\ u \in Seq(Chars) /\ Len(u) = Len(r) + Len(y)
      /\ \A j \in 1 .. Len(r) : u[j] = r[j]
      /\ \A j \in 1 .. Len(y) : u[Len(r) + j] = y[j]
  OBVIOUS
<1> HIDE DEF u
<1>2. v \in Seq(Chars) /\ Len(v) = Len(u) /\ \A i \in 1 .. Len(u) : v[i] = u[Len(u) - i + 1]
  BY <1>1, Reversed
<1> HIDE DEF v
<1>3. Len(y) + 1 \in 1 .. Len(v) /\ v[Len(y) + 1] = r[Len(r)]
  <2>1. Len(y) + 1 \in 1 .. Len(u) /\ Len(u) - (Len(y) + 1) + 1 = Len(r) /\ Len(r) \in 1 .. Len(r)
    BY <1>0, <1>1
  <2> QED
    BY <1>1, <1>2, <2>1
<1>4. ASSUME NEW j \in 1 .. (Len(y) + 1) - 1 PROVE v[j] \in Text!Blank
  <2>1. /\ j \in 1 .. Len(u) /\ Len(u) - j + 1 = Len(r) + (Len(y) - j + 1)
        /\ Len(y) - j + 1 \in 1 .. Len(y)
    BY <1>0, <1>1
  <2>2. v[j] = u[Len(u) - j + 1]
    BY <1>2, <2>1, Zenon
  <2>3. u[Len(r) + (Len(y) - j + 1)] = y[Len(y) - j + 1]
    BY <1>1, <2>1, Zenon
  <2>4. v[j] = y[Len(y) - j + 1]
    BY <2>1, <2>2, <2>3, Zenon
  <2> QED
    BY <1>0, <2>1, <2>4, Zenon
<1>5. n = SubSeq(v, Len(y) + 1, Len(v))
  BY <1>2, <1>3, <1>4, LeadingIs
<1>6. n \in Seq(Chars) /\ Len(n) = Len(r) /\ \A i \in 1 .. Len(r) : n[i] = v[Len(y) + i]
  BY <1>0, <1>1, <1>2, <1>3, <1>5
<1> HIDE DEF n
<1>7. w \in Seq(Chars) /\ Len(w) = Len(r) /\ \A i \in 1 .. Len(r) : w[i] = n[Len(r) - i + 1]
  BY <1>6, Reversed
<1>8. ASSUME NEW i \in 1 .. Len(r) PROVE w[i] = r[i]
  <2>1. /\ Len(r) - i + 1 \in 1 .. Len(r)
        /\ Len(y) + (Len(r) - i + 1) \in 1 .. Len(u)
        /\ Len(u) - (Len(y) + (Len(r) - i + 1)) + 1 = i
    BY <1>0, <1>1
  <2>2. w[i] = n[Len(r) - i + 1] /\ n[Len(r) - i + 1] = v[Len(y) + (Len(r) - i + 1)]
    BY <1>6, <1>7, <2>1
  <2>3. v[Len(y) + (Len(r) - i + 1)] = u[i]
    BY <1>2, <2>1
  <2> QED
    BY <1>1, <2>2, <2>3
<1> HIDE DEF w
<1>9. w = r
  BY <1>7, <1>8, SeqEqual
<1> QED
  BY <1>9 DEF w, n, v, u

(* So strClean drops blanks at the ends only.                              *)
LEMMA CleanHolds ==
    ASSUME text \in Seq(Chars)
    PROVE  Text!strClean(text) = Text!Reverse(Text!NoLeading(Text!Blank,
               Text!Reverse(Text!NoLeading(Text!Blank, text))))
<1> DEFINE a == CleanOf(text)
           n == Text!NoLeading(Text!Blank, text)
<1>1. Text!strClean(text) = a.r
  BY Zenon DEF Text!strClean, CleanOf, Text!After, NoneClean
<1>2. /\ a \in Cleaned
      /\ a.r = <<>> => n = <<>>
      /\ a.r # <<>> => n = a.r \o a.x /\ a.r[Len(a.r)] \notin Text!Blank
      /\ \A j \in 1 .. Len(a.x) : a.x[j] \in Text!Blank
  BY CleanKeeps
<1>3. a.r \in Seq(Chars) /\ a.x \in Seq(Chars)
  BY <1>2 DEF Cleaned
<1> HIDE DEF a, n
<1>4. CASE a.r = <<>>
  <2>1. <<>> \in Seq(Chars) /\ "0" \in Chars
    <3>1. "0" \in Chars
      BY Zenon DEF Chars
    <3> QED
      BY <3>1
  <2>2. Text!Reverse(<<>>) = <<>>
    <3>1. Text!Reverse(<<>>) \in Seq(Chars) /\ Len(Text!Reverse(<<>>)) = 0
      BY <2>1, Reversed
    <3> QED
      BY <3>1
  <2>3. Text!NoLeading(Text!Blank, <<>>) = <<>>
    BY <2>1, LeadingGrows
  <2> QED
    BY <1>1, <1>2, <1>4, <2>2, <2>3 DEF n
<1>5. CASE a.r # <<>>
  BY <1>1, <1>2, <1>3, <1>5, Trimmed DEF n
<1> QED
  BY <1>4, <1>5

(* The pieces of a text.                                                   *)
Unsplit(piece) == \A i \in 1 .. Len(piece) : piece[i] # Sep

SplitRight(t, p) ==
    /\ p \in Pieces /\ JoinedOf(p) = <<Sep>> \o t
    /\ \A i \in 1 .. Len(p) : Unsplit(p[i])

LEMMA SeparatorIs == Sep \in Chars /\ <<Sep>> \in Seq(Chars) /\ <<>> \in Texts
<1>1. Sep \in Chars
  BY Zenon DEF Chars, Sep
<1> QED
  BY <1>1 DEF Texts

(* One that begins.                                                        *)
LEMMA PieceBegins ==
    ASSUME NEW t \in Seq(Chars), NEW p, SplitRight(t, p)
    PROVE  SplitRight(Append(t, Sep), Append(p, <<>>))
<1>1. p \in Seq(Texts) /\ p # <<>> /\ JoinedOf(p) = <<Sep>> \o t
  BY DEF SplitRight, Pieces
<1>2. JoinedOf(Append(p, <<>>)) = <<Sep>> \o Append(t, Sep)
  <2>1. JoinedOf(p) \in Seq(Chars) /\ JoinedOf(Append(p, <<>>)) = (JoinedOf(p) \o <<Sep>>) \o <<>>
    BY <1>1, SeparatorIs, JoiningGoesOn DEF Glued
  <2>2. JoinedOf(p) \o <<Sep>> \in Seq(Chars)
    BY <2>1, SeparatorIs, ConcatProperties
  <2>3. (JoinedOf(p) \o <<Sep>>) \o <<>> = JoinedOf(p) \o <<Sep>>
    BY <2>2, ConcatEmptySeq
  <2>4. JoinedOf(p) \o <<Sep>> = Append(JoinedOf(p), Sep)
    BY <2>1, SeparatorIs, AppendIsConcat
  <2>5. Append(<<Sep>> \o t, Sep) = <<Sep>> \o Append(t, Sep)
    BY SeparatorIs, AppendBehind
  <2> QED
    BY <1>1, <2>1, <2>3, <2>4, <2>5, Zenon
<1>3. /\ Append(p, <<>>) \in Seq(Texts) /\ Append(p, <<>>) # <<>> /\ Len(Append(p, <<>>)) = Len(p) + 1
      /\ \A i \in 1 .. Len(p) : Append(p, <<>>)[i] = p[i]
      /\ Append(p, <<>>)[Len(p) + 1] = <<>>
  BY <1>1, SeparatorIs, AppendProperties
<1>4. Unsplit(<<>>) /\ Len(p) \in Nat
  <2>1. Len(<<>>) = 0 /\ Len(p) \in Nat
    BY <1>1
  <2> QED
    BY <2>1 DEF Unsplit
<1>5. ASSUME NEW i \in 1 .. Len(p) + 1 PROVE Unsplit(Append(p, <<>>)[i])
  <2>1. CASE i = Len(p) + 1
    BY <1>3, <1>4, <2>1
  <2>2. CASE i # Len(p) + 1
    <3>1. i \in 1 .. Len(p)
      BY <1>4, <2>2
    <3> QED
      BY <1>3, <3>1 DEF SplitRight
  <2> QED
    BY <2>1, <2>2
<1> QED
  BY <1>2, <1>3, <1>5 DEF SplitRight, Pieces

(* One that grows.                                                         *)
LEMMA PieceGrows ==
    ASSUME NEW t \in Seq(Chars), NEW p, SplitRight(t, p), NEW c \in Chars, c # Sep
    PROVE  SplitRight(Append(t, c), [p EXCEPT ![Len(p)] = Append(@, c)])
<1>1. /\ p \in Seq(Texts) /\ p # <<>> /\ JoinedOf(p) = <<Sep>> \o t
      /\ \A i \in 1 .. Len(p) : Unsplit(p[i])
  BY DEF SplitRight, Pieces
<1>2. PICK f \in Seq(Texts), l \in Texts : p = Append(f, l)
  BY <1>1, SequenceEmptyOrAppend
<1>3. /\ Len(f) \in Nat /\ Len(p) = Len(f) + 1 /\ p[Len(f) + 1] = l
      /\ \A i \in 1 .. Len(f) : p[i] = f[i]
  BY <1>2, AppendProperties
<1> DEFINE g == Append(l, c)
           q == [p EXCEPT ![Len(p)] = Append(p[Len(p)], c)]
<1>4. g \in Texts /\ l \in Seq(Chars)
  BY DEF Texts
<1>5. q = Append(f, g)
  <2> HIDE DEF g
  <2>1. q = [p EXCEPT ![Len(f) + 1] = g]
    BY <1>3 DEF g
  <2> HIDE DEF q
  <2>2. Len(f) + 1 \in 1 .. Len(p)
    BY <1>3
  <2>3. /\ q \in Seq(Texts) /\ Len(q) = Len(p)
        /\ \A i \in 1 .. Len(p) : q[i] = IF i = Len(f) + 1 THEN g ELSE p[i]
    BY <1>1, <1>4, <2>1, <2>2, ExceptSeq
  <2>4. /\ Append(f, g) \in Seq(Texts) /\ Len(Append(f, g)) = Len(f) + 1 /\ Append(f, g)[Len(f) + 1] = g
        /\ \A i \in 1 .. Len(f) : Append(f, g)[i] = f[i]
    BY <1>4, AppendProperties
  <2>5. ASSUME NEW i \in 1 .. Len(f) + 1 PROVE q[i] = Append(f, g)[i]
    <3>1. i # Len(f) + 1 => i \in 1 .. Len(f)
      BY <1>3
    <3> QED
      BY <1>3, <2>3, <2>4, <3>1
  <2> QED
    BY <1>3, <2>3, <2>4, <2>5, SeqEqual
<1> HIDE DEF q
<1>6. JoinedOf(q) = <<Sep>> \o Append(t, c)
  <2> DEFINE j == JoinedOf(f)
             k == j \o <<Sep>>
  <2>1. j \in Seq(Chars) /\ JoinedOf(p) = Glued(j, l) /\ JoinedOf(q) = Glued(j, g)
    BY <1>2, <1>4, <1>5, JoiningGoesOn
  <2> HIDE DEF j, g
  <2>2. k \in Seq(Chars)
    BY <2>1, SeparatorIs, ConcatProperties
  <2>3. Glued(j, l) = k \o l /\ Glued(j, g) = k \o g
    BY Zenon DEF Glued
  <2> HIDE DEF k
  <2>4. k \o Append(l, c) = Append(k \o l, c)
    BY <1>4, <2>2, AppendBehind
  <2>5. Append(<<Sep>> \o t, c) = <<Sep>> \o Append(t, c)
    BY SeparatorIs, AppendBehind
  <2> QED
    BY <1>1, <2>1, <2>3, <2>4, <2>5, Zenon DEF g
<1>7. q \in Pieces
  <2> HIDE DEF g
  <2>1. Append(f, g) \in Seq(Texts) /\ Append(f, g) # <<>>
    BY <1>4, AppendProperties
  <2> QED
    BY <1>5, <2>1 DEF Pieces
<1>8. Unsplit(g)
  <2>1. Unsplit(l)
    <3>1. Len(f) + 1 \in 1 .. Len(p)
      BY <1>3
    <3> QED
      BY <1>1, <1>3, <3>1
  <2>2. /\ Len(l) \in Nat /\ Len(g) = Len(l) + 1 /\ g[Len(l) + 1] = c
        /\ \A i \in 1 .. Len(l) : g[i] = l[i]
    BY <1>4, AppendProperties
  <2> HIDE DEF g
  <2> QED
    BY <2>1, <2>2 DEF Unsplit
<1>9. ASSUME NEW i \in 1 .. Len(q) PROVE Unsplit(q[i])
  <2> HIDE DEF g
  <2>1. /\ Len(q) = Len(f) + 1 /\ q[Len(f) + 1] = g
        /\ \A n \in 1 .. Len(f) : q[n] = f[n]
    BY <1>4, <1>5, AppendProperties
  <2>2. CASE i = Len(f) + 1
    BY <1>8, <2>1, <2>2
  <2>3. CASE i # Len(f) + 1
    <3>1. i \in 1 .. Len(f) /\ i \in 1 .. Len(p)
      BY <1>3, <2>1, <2>3
    <3>2. q[i] = p[i]
      BY <1>3, <2>1, <3>1
    <3> QED
      BY <1>1, <3>1, <3>2
  <2> QED
    BY <2>2, <2>3
<1> QED
  BY <1>6, <1>7, <1>9 DEF SplitRight, q

(* A separator starts a piece, another character belongs to the last.      *)
LEMMA SplitStepIs ==
    ASSUME NEW v, NEW c
    PROVE  /\ c = Sep => Text!SplitStep(v, c, ";") = Append(v, <<>>)
           /\ c # Sep => Text!SplitStep(v, c, ";") = [v EXCEPT ![Len(v)] = Append(@, c)]
BY Zenon DEF Text!SplitStep, Sep

(* The pieces so far are the text so far.                                  *)
LEMMA SplitKeeps == ASSUME NEW t \in Seq(Chars) PROVE SplitRight(t, SplitOf(t))
<1> DEFINE S == {s \in Seq(Chars) : SplitRight(s, SplitOf(s))}
<1>1. <<>> \in S
  <2>1. <<>> \in Seq(Chars) /\ <<>> \in Seq(Texts) /\ <<(<<>>)>> = Append(<<>>, <<>>)
    OBVIOUS
  <2>2. SplitOf(<<>>) = Append(<<>>, <<>>) /\ SplitOf(<<>>) \in Pieces
    BY <2>1, SeparatorIs, SplitGoesOn
  <2>3. JoinedOf(Append(<<>>, <<>>)) = Glued(<<>>, <<>>)
    BY <2>1, SeparatorIs, JoiningGoesOn
  <2>4. Glued(<<>>, <<>>) = <<Sep>> \o <<>>
    BY SeparatorIs, ConcatEmptySeq DEF Glued
  <2>5. \A i \in 1 .. Len(Append(<<>>, <<>>)) : Unsplit(Append(<<>>, <<>>)[i])
    <3>1. Len(<<>>) = 0 /\ Len(<<(<<>>)>>) = 1 /\ <<(<<>>)>>[1] = <<>>
      OBVIOUS
    <3>2. Unsplit(<<>>)
      BY <3>1 DEF Unsplit
    <3> QED
      BY <2>1, <3>1, <3>2
  <2> QED
    BY <2>1, <2>2, <2>3, <2>4, <2>5 DEF SplitRight
<1>2. ASSUME NEW s \in S, NEW c \in Chars PROVE Append(s, c) \in S
  <2>1. s \in Seq(Chars) /\ Append(s, c) \in Seq(Chars) /\ SplitRight(s, SplitOf(s))
    BY <1>2
  <2>2. SplitOf(Append(s, c)) = Text!SplitStep(SplitOf(s), c, ";")
    BY <2>1, SplitGoesOn
  <2>3. CASE c = Sep
    <3>1. SplitOf(Append(s, c)) = Append(SplitOf(s), <<>>)
      BY <2>2, <2>3, SplitStepIs
    <3> QED
      BY <2>1, <2>3, <3>1, PieceBegins
  <2>4. CASE c # Sep
    <3>1. SplitOf(Append(s, c)) = [SplitOf(s) EXCEPT ![Len(SplitOf(s))] = Append(@, c)]
      BY <2>2, <2>4, SplitStepIs
    <3> QED
      BY <2>1, <2>4, <3>1, PieceGrows
  <2> QED
    BY <2>3, <2>4
<1> HIDE DEF S
<1>3. S \in SUBSET Seq(Chars)
  BY DEF S
<1>4. S = Seq(Chars)
  BY <1>1, <1>2, <1>3, TextsGrow
<1> QED
  BY <1>4 DEF S

(* So nothing but separators and blanks is lost.                           *)
LEMMA TextKept == text \in Seq(Chars) => Text!TextIsKept
<1> SUFFICES ASSUME text \in Seq(Chars) PROVE Text!TextIsKept
  OBVIOUS
<1> DEFINE p == SplitOf(text)
<1>1. Text!strSplit(text, ";") = p
  BY Zenon DEF Text!strSplit, SplitOf, Text!After
<1>2. Text!After(LAMBDA s, piece : (s \o <<";">>) \o piece, <<>>, p) = JoinedOf(p)
  BY Zenon DEF JoinedOf, Glued, Sep, Text!After
<1>3. SplitRight(text, p)
  BY SplitKeeps
<1> HIDE DEF p
<1>4. DOMAIN p = 1 .. Len(p)
  BY <1>3 DEF SplitRight, Pieces
<1>5. \A i \in DOMAIN p : ~Text!Contains(p[i], ";")
  BY <1>3, <1>4 DEF SplitRight, Unsplit, Sep, Text!Contains
<1>6. JoinedOf(p) = <<";">> \o text
  BY <1>3 DEF SplitRight, Sep
<1> QED
  BY <1>1, <1>2, <1>5, <1>6, CleanHolds, Zenon DEF Text!TextIsKept

----------------------------------------------------------------------------
(* Numbers.  The automata are in the state that the text so far is of.     *)
IsDigit(c) == c \in Text!Digit
IsSign(c)  == c \in Text!Sign
IsSpace(c) == c \in {" ", "\t"}
IsPoint(c) == c = "."
IsExp(c)   == c \in {"e", "E"}

(* A character is of one kind only.                                        *)
LEMMA KindsAre ==
    ASSUME NEW c
    PROVE  /\ IsDigit(c) => ~IsSign(c) /\ ~IsSpace(c) /\ ~IsPoint(c) /\ ~IsExp(c)
           /\ IsSign(c) => ~IsSpace(c) /\ ~IsPoint(c) /\ ~IsExp(c)
           /\ IsSpace(c) => ~IsPoint(c) /\ ~IsExp(c)
           /\ IsPoint(c) => ~IsExp(c)
BY DEF IsDigit, IsSign, IsSpace, IsPoint, IsExp, Text!Digit, Text!Sign

(* Where strIsInt gets to, and from which states.                          *)
LEMMA IntStepIs ==
    ASSUME NEW c, NEW q \in -1 .. 2
    PROVE  LET r == Text!IntStep(q, c)
           IN  /\ r \in -1 .. 2
               /\ r = 0 <=> IsSpace(c) /\ q = 0
               /\ r = 1 <=> IsSign(c) /\ q = 0
               /\ r = 2 <=> IsDigit(c) /\ q \in 0 .. 2
<1>1. /\ IsSpace(c) /\ q = 0 => Text!IntStep(q, c) = 0
      /\ IsSign(c) /\ q = 0 => Text!IntStep(q, c) = 1
      /\ IsDigit(c) /\ q \in 0 .. 2 => Text!IntStep(q, c) = 2
      /\ ~(IsSpace(c) /\ q = 0) /\ ~(IsSign(c) /\ q = 0) /\ ~(IsDigit(c) /\ q \in 0 .. 2)
            => Text!IntStep(q, c) = -1
  BY DEF Text!IntStep, Text!Reject, IsDigit, IsSign, IsSpace, Text!Digit, Text!Sign
<1> QED
  BY <1>1, KindsAre

(* And strIsFloat.                                                         *)
LEMMA FloatStepIs ==
    ASSUME NEW c, NEW q \in -1 .. 7
    PROVE  LET r == Text!FloatStep(q, c)
           IN  /\ r \in -1 .. 7
               /\ r = 0 <=> IsSpace(c) /\ q = 0
               /\ r = 1 <=> IsSign(c) /\ q = 0
               /\ r = 2 <=> IsDigit(c) /\ q \in 0 .. 2
               /\ r = 3 <=> (IsDigit(c) /\ q \in {3, 7}) \/ (IsPoint(c) /\ q = 2)
               /\ r = 4 <=> IsExp(c) /\ q \in {2, 3, 7}
               /\ r = 5 <=> IsSign(c) /\ q = 4
               /\ r = 6 <=> IsDigit(c) /\ q \in 4 .. 6
               /\ r = 7 <=> IsPoint(c) /\ q \in {0, 1}
<1>1. Text!FloatStep(q, c) =
          CASE IsSpace(c) /\ q = 0 -> 0
            [] IsSign(c) /\ q = 0 -> 1
            [] IsSign(c) /\ q = 4 -> 5
            [] IsDigit(c) /\ q \in 0 .. 2 -> 2
            [] IsDigit(c) /\ q \in {3, 7} -> 3
            [] IsDigit(c) /\ q \in 4 .. 6 -> 6
            [] IsPoint(c) /\ q \in {0, 1} -> 7
            [] IsPoint(c) /\ q = 2 -> 3
            [] IsExp(c) /\ q \in {2, 3, 7} -> 4
            [] OTHER -> -1
  BY Zenon DEF Text!FloatStep, Text!Reject, IsDigit, IsSign, IsSpace, IsPoint, IsExp
<1>2. /\ IsDigit(c) \in BOOLEAN /\ IsSign(c) \in BOOLEAN /\ IsSpace(c) \in BOOLEAN
      /\ IsPoint(c) \in BOOLEAN /\ IsExp(c) \in BOOLEAN
  BY DEF IsDigit, IsSign, IsSpace, IsPoint, IsExp
<1>3. CASE IsDigit(c)
  BY <1>1, <1>3, KindsAre
<1>4. CASE IsSign(c)
  BY <1>1, <1>4, KindsAre
<1>5. CASE IsSpace(c)
  BY <1>1, <1>5, KindsAre
<1>6. CASE IsPoint(c)
  BY <1>1, <1>6, KindsAre
<1>7. CASE IsExp(c)
  BY <1>1, <1>7, KindsAre
<1>8. CASE ~IsDigit(c) /\ ~IsSign(c) /\ ~IsSpace(c) /\ ~IsPoint(c) /\ ~IsExp(c)
  BY <1>1, <1>8
<1> QED
  BY <1>3, <1>4, <1>5, <1>6, <1>7, <1>8

(* Digits.                                                                 *)
LEMMA DigitsWhen ==
    ASSUME NEW s \in Seq(Chars)
    PROVE  Text!IsDigits(s) <=> s # <<>> /\ \A i \in 1 .. Len(s) : IsDigit(s[i])
<1>1. DOMAIN s = 1 .. Len(s)
  OBVIOUS
<1> QED
  BY <1>1, Zenon DEF Text!IsDigits, Text!ToSet, IsDigit

(* Digits and a digit are digits.                                          *)
LEMMA DigitsGoOn ==
    ASSUME NEW s \in Seq(Chars), NEW c \in Chars
    PROVE  Text!IsDigits(Append(s, c)) <=> IsDigit(c) /\ (s = <<>> \/ Text!IsDigits(s))
<1> DEFINE q == Append(s, c)
<1>1. /\ Len(s) \in Nat /\ q \in Seq(Chars) /\ q # <<>> /\ Len(q) = Len(s) + 1
      /\ \A i \in 1 .. Len(s) : q[i] = s[i]
      /\ q[Len(s) + 1] = c
  BY AppendProperties
<1>2. s = <<>> => Len(s) = 0
  OBVIOUS
<1> HIDE DEF q
<1>3. ASSUME IsDigit(c), s = <<>> \/ Text!IsDigits(s) PROVE \A i \in 1 .. Len(q) : IsDigit(q[i])
  <2>1. \A i \in 1 .. Len(s) : IsDigit(s[i])
    BY <1>2, <1>3, DigitsWhen
  <2> SUFFICES ASSUME NEW i \in 1 .. Len(q) PROVE IsDigit(q[i])
    OBVIOUS
  <2>2. i = Len(s) + 1 \/ i \in 1 .. Len(s)
    BY <1>1
  <2> QED
    BY <1>1, <1>3, <2>1, <2>2, Zenon
<1>4. ASSUME \A i \in 1 .. Len(q) : IsDigit(q[i]) PROVE IsDigit(c) /\ \A i \in 1 .. Len(s) : IsDigit(s[i])
  <2>1. Len(s) + 1 \in 1 .. Len(q) /\ \A i \in 1 .. Len(s) : i \in 1 .. Len(q)
    BY <1>1
  <2> QED
    BY <1>1, <1>4, <2>1, Zenon
<1>5. Text!IsDigits(q) <=> \A i \in 1 .. Len(q) : IsDigit(q[i])
  BY <1>1, DigitsWhen
<1>6. s = <<>> \/ (Text!IsDigits(s) <=> \A i \in 1 .. Len(s) : IsDigit(s[i]))
  BY DigitsWhen
<1> QED
  BY <1>3, <1>4, <1>5, <1>6, Zenon DEF q

(* A point among digits.                                                   *)
Pointed(s) == \E i \in 1 .. Len(s) : IsPoint(s[i]) /\ Text!IsDigits(Text!RemoveAt(s, i))
OnlyPoint(s) == Len(s) = 1 /\ IsPoint(s[1])

(* What stands before an exponent.                                         *)
LEMMA MantissaIs ==
    ASSUME NEW s \in Seq(Chars)
    PROVE  /\ Text!IsMantissa(s) <=> Text!IsDigits(s) \/ Pointed(s)
           /\ s = <<".">> <=> OnlyPoint(s)
<1>1. DOMAIN s = 1 .. Len(s)
  OBVIOUS
<1>2. Text!IsMantissa(s) <=> Text!IsDigits(s) \/ Pointed(s)
  BY <1>1, Zenon DEF Text!IsMantissa, Pointed, IsPoint
<1>3. ASSUME OnlyPoint(s) PROVE s = <<".">>
  <2>1. s[1] = "." /\ Len(s) = 1
    BY <1>3, Zenon DEF OnlyPoint, IsPoint
  <2>2. s = <<s[1]>>
    BY <2>1
  <2> QED
    BY <2>1, <2>2, Zenon
<1>4. ASSUME s = <<".">> PROVE OnlyPoint(s)
  <2>1. <<".">>[1] = "." /\ Len(<<".">>) = 1
    OBVIOUS
  <2> QED
    BY <1>4, <2>1, Zenon DEF OnlyPoint, IsPoint
<1> QED
  BY <1>2, <1>3, <1>4

(* A text without one of its characters.                                   *)
LEMMA Without ==
    ASSUME NEW s \in Seq(Chars), NEW i \in 1 .. Len(s)
    PROVE  /\ Text!RemoveAt(s, i) = SubSeq(s, 1, i - 1) \o SubSeq(s, i + 1, Len(s))
           /\ Text!RemoveAt(s, i) \in Seq(Chars) /\ Len(Text!RemoveAt(s, i)) = Len(s) - 1
<1> DEFINE a == SubSeq(s, 1, i - 1)
           b == SubSeq(s, i + 1, Len(s))
<1>1. a \in Seq(Chars) /\ b \in Seq(Chars) /\ Len(a) = i - 1 /\ Len(b) = Len(s) - i /\ Len(s) \in Nat
  OBVIOUS
<1>2. Text!RemoveAt(s, i) = a \o b
  BY Zenon DEF Text!RemoveAt
<1> HIDE DEF a, b
<1>3. a \o b \in Seq(Chars) /\ Len(a \o b) = Len(s) - 1
  BY <1>1, ConcatProperties
<1> QED
  BY <1>2, <1>3 DEF a, b

(* The places of a longer text.                                            *)
LEMMA CutGoesOn ==
    ASSUME NEW s \in Seq(Chars), NEW c \in Chars, NEW i \in 1 .. Len(s)
    PROVE  /\ SubSeq(Append(s, c), 1, i - 1) = SubSeq(s, 1, i - 1)
           /\ SubSeq(Append(s, c), i + 1, Len(s) + 1) = Append(SubSeq(s, i + 1, Len(s)), c)
           /\ SubSeq(s, 1, i - 1) \in Seq(Chars) /\ SubSeq(s, i + 1, Len(s)) \in Seq(Chars)
           /\ Len(SubSeq(s, i + 1, Len(s))) = Len(s) - i
<1> DEFINE q == Append(s, c)
           a == SubSeq(s, 1, i - 1)
           b == SubSeq(s, i + 1, Len(s))
           d == SubSeq(q, 1, i - 1)
           e == SubSeq(q, i + 1, Len(s) + 1)
<1>1. /\ q \in Seq(Chars) /\ Len(q) = Len(s) + 1 /\ q[Len(s) + 1] = c /\ Len(s) \in Nat
      /\ \A n \in 1 .. Len(s) : q[n] = s[n]
  BY AppendProperties
<1> HIDE DEF q
<1>2. /\ a \in Seq(Chars) /\ Len(a) = i - 1 /\ \A n \in 1 .. i - 1 : a[n] = s[n]
      /\ b \in Seq(Chars) /\ Len(b) = Len(s) - i /\ \A n \in 1 .. Len(s) - i : b[n] = s[i + n]
  BY <1>1
<1>3. d \in Seq(Chars) /\ Len(d) = i - 1 /\ \A n \in 1 .. i - 1 : d[n] = q[n]
  BY <1>1
<1>4. e \in Seq(Chars) /\ Len(e) = Len(s) - i + 1 /\ \A n \in 1 .. Len(s) - i + 1 : e[n] = q[i + n]
  BY <1>1
<1> HIDE DEF a, b, d, e
<1>5. d = a
  <2>1. \A n \in 1 .. i - 1 : n \in 1 .. Len(s)
    BY <1>1
  <2>2. \A n \in 1 .. i - 1 : d[n] = a[n]
    BY <1>1, <1>2, <1>3, <2>1
  <2> QED
    BY <1>2, <1>3, <2>2, SeqEqual
<1>6. e = Append(b, c)
  <2>1. /\ Append(b, c) \in Seq(Chars) /\ Len(Append(b, c)) = Len(b) + 1
        /\ \A n \in 1 .. Len(b) : Append(b, c)[n] = b[n]
        /\ Append(b, c)[Len(b) + 1] = c
    <3>1. b \in Seq(Chars)
      BY <1>2
    <3> QED
      BY <3>1, AppendProperties
  <2>2. ASSUME NEW n \in 1 .. Len(s) - i + 1 PROVE e[n] = Append(b, c)[n]
    <3>1. CASE n = Len(s) - i + 1
      <4>1. i + n = Len(s) + 1 /\ n = Len(b) + 1
        BY <1>1, <1>2, <3>1
      <4> QED
        BY <1>1, <1>4, <2>1, <4>1
    <3>2. CASE n # Len(s) - i + 1
      <4>1. n \in 1 .. Len(b) /\ n \in 1 .. Len(s) - i /\ i + n \in 1 .. Len(s)
        <5>1. Len(s) \in Nat /\ Len(b) = Len(s) - i
          BY <1>1, <1>2
        <5> QED
          BY <3>2, <5>1
      <4>2. e[n] = q[i + n] /\ q[i + n] = s[i + n] /\ b[n] = s[i + n] /\ Append(b, c)[n] = b[n]
        BY <1>1, <1>2, <1>4, <2>1, <4>1
      <4> QED
        BY <4>2
    <3> QED
      BY <3>1, <3>2
  <2>3. Len(e) = Len(Append(b, c)) /\ Len(e) = Len(s) - i + 1
    BY <1>1, <1>2, <1>4, <2>1
  <2> QED
    BY <1>4, <2>1, <2>2, <2>3, SeqEqual
<1> QED
  BY <1>2, <1>5, <1>6 DEF a, b, d, e, q

(* A point is the last character or among those before it.                 *)
LEMMA PointGoesOn ==
    ASSUME NEW s \in Seq(Chars), NEW c \in Chars
    PROVE  Pointed(Append(s, c)) <=> \/ IsPoint(c) /\ Text!IsDigits(s)
                                     \/ IsDigit(c) /\ (Pointed(s) \/ OnlyPoint(s))
<1> DEFINE q == Append(s, c)
           Drop(t, i) == Text!RemoveAt(t, i)
<1>1. /\ q \in Seq(Chars) /\ Len(q) = Len(s) + 1 /\ q[Len(s) + 1] = c /\ Len(s) \in Nat
      /\ \A n \in 1 .. Len(s) : q[n] = s[n]
  BY AppendProperties
<1>2. ASSUME NEW i \in 1 .. Len(s)
      PROVE  Drop(q, i) = Append(Drop(s, i), c) /\ Drop(s, i) \in Seq(Chars) /\ Len(Drop(s, i)) = Len(s) - 1
  <2> DEFINE a == SubSeq(s, 1, i - 1)
             b == SubSeq(s, i + 1, Len(s))
  <2>1. /\ SubSeq(q, 1, i - 1) = a /\ SubSeq(q, i + 1, Len(s) + 1) = Append(b, c)
        /\ a \in Seq(Chars) /\ b \in Seq(Chars)
    BY CutGoesOn
  <2>2. i \in 1 .. Len(q)
    BY <1>1
  <2>3. Drop(q, i) = SubSeq(q, 1, i - 1) \o SubSeq(q, i + 1, Len(q))
    BY <1>1, <2>2, Without
  <2>4. Drop(s, i) = a \o b /\ Drop(s, i) \in Seq(Chars) /\ Len(Drop(s, i)) = Len(s) - 1
    BY Without
  <2> HIDE DEF a, b
  <2>5. a \o Append(b, c) = Append(a \o b, c)
    BY <2>1, AppendBehind
  <2> QED
    BY <1>1, <2>1, <2>3, <2>4, <2>5
<1>3. Drop(q, Len(s) + 1) = s
  <2>1. Len(s) + 1 \in 1 .. Len(q) /\ (Len(s) + 1) - 1 = Len(s)
    BY <1>1
  <2>2. Drop(q, Len(s) + 1) = SubSeq(q, 1, Len(s)) \o SubSeq(q, (Len(s) + 1) + 1, Len(q))
    BY <1>1, <2>1, Without
  <2>3. SubSeq(q, (Len(s) + 1) + 1, Len(q)) = <<>>
    BY <1>1
  <2>4. SubSeq(q, 1, Len(s)) = s
    <3> DEFINE a == SubSeq(q, 1, Len(s))
    <3> HIDE DEF q
    <3>1. a \in Seq(Chars) /\ Len(a) = Len(s) /\ \A n \in 1 .. Len(s) : a[n] = q[n]
      BY <1>1
    <3> HIDE DEF a
    <3>2. a = s
      BY <1>1, <3>1, SeqEqual
    <3> QED
      BY <3>2 DEF a
  <2>5. s \o <<>> = s
    BY ConcatEmptySeq
  <2> QED
    BY <2>2, <2>3, <2>4, <2>5
<1> HIDE DEF q, Drop
<1>4. ASSUME NEW i \in 1 .. Len(s)
      PROVE  Text!IsDigits(Drop(q, i)) <=> IsDigit(c) /\ (Len(s) = 1 \/ Text!IsDigits(Drop(s, i)))
  <2>1. Drop(s, i) = <<>> <=> Len(s) = 1
    <3>1. \A w \in Seq(Chars) : w = <<>> <=> Len(w) = 0
      OBVIOUS
    <3>2. Drop(s, i) = <<>> <=> Len(s) - 1 = 0
      BY <1>2, <3>1
    <3> QED
      BY <1>1, <3>2
  <2> QED
    BY <1>2, <2>1, DigitsGoOn
<1>5. Pointed(q) <=> \/ IsPoint(c) /\ Text!IsDigits(s)
                     \/ \E i \in 1 .. Len(s) : IsPoint(s[i]) /\ Text!IsDigits(Drop(q, i))
  <2>1. \A i \in 1 .. Len(q) : i = Len(s) + 1 \/ i \in 1 .. Len(s)
    BY <1>1
  <2>2. Len(s) + 1 \in 1 .. Len(q) /\ \A i \in 1 .. Len(s) : i \in 1 .. Len(q)
    BY <1>1
  <2> QED
    BY <1>1, <1>3, <2>1, <2>2, Zenon DEF Pointed, Drop
<1>6. (\E i \in 1 .. Len(s) : IsPoint(s[i]) /\ Text!IsDigits(Drop(q, i)))
        <=> IsDigit(c) /\ (OnlyPoint(s) \/ Pointed(s))
  <2>1. Len(s) = 1 => 1 .. Len(s) = {1}
    BY <1>1
  <2>2. 1 \in {1} /\ \A i \in {1} : i = 1
    OBVIOUS
  <2> QED
    BY <1>4, <2>1, <2>2, Zenon DEF Pointed, OnlyPoint, Drop
<1> QED
  BY <1>5, <1>6 DEF q

(* Signs.                                                                  *)
OnlySign(w) == Len(w) = 1 /\ IsSign(w[1])

(* The first character is dropped when it is a sign.                       *)
LEMMA UnsignedGoesOn ==
    ASSUME NEW w \in Seq(Chars), NEW c \in Chars
    PROVE  /\ Text!Unsigned(w) \in Seq(Chars)
           /\ Text!Unsigned(w) = <<>> <=> w = <<>> \/ OnlySign(w)
           /\ Text!Unsigned(Append(w, c)) = IF w = <<>> /\ IsSign(c) THEN <<>> ELSE Append(Text!Unsigned(w), c)
<1>0. Text!Unsigned(<<>>) = <<>>
  BY Zenon DEF Text!Unsigned
<1>1. w # <<>> => /\ Text!Unsigned(w) = IF IsSign(w[1]) THEN Tail(w) ELSE w
                  /\ Text!Unsigned(Append(w, c)) = IF IsSign(Append(w, c)[1]) THEN Tail(Append(w, c)) ELSE Append(w, c)
  <2>1. Append(w, c) # <<>>
    BY AppendProperties
  <2> QED
    BY <2>1, Zenon DEF Text!Unsigned, IsSign
<1>2. CASE w = <<>>
  <2>1. Append(w, c) = <<c>> /\ <<c>>[1] = c /\ Tail(<<c>>) = <<>> /\ <<c>> # <<>> /\ Len(w) = 0
    BY <1>2
  <2>2. Text!Unsigned(<<c>>) = IF IsSign(<<c>>[1]) THEN Tail(<<c>>) ELSE <<c>>
    BY <2>1, Zenon DEF Text!Unsigned, IsSign
  <2>3. ~OnlySign(w)
    BY <2>1 DEF OnlySign
  <2> QED
    BY <1>0, <1>2, <2>1, <2>2, <2>3
<1>3. CASE w # <<>>
  <2>1. /\ Len(w) \in Nat \ {0} /\ Tail(w) \in Seq(Chars) /\ Len(Tail(w)) = Len(w) - 1
        /\ Append(w, c)[1] = w[1] /\ Tail(Append(w, c)) = Append(Tail(w), c)
    BY <1>3, HeadTailProperties, HeadTailAppend
  <2>a. \A v \in Seq(Chars) : v = <<>> <=> Len(v) = 0
    OBVIOUS
  <2>b. Tail(w) = <<>> <=> Len(Tail(w)) = 0
    BY <2>1, <2>a, Zenon
  <2>2. Tail(w) = <<>> <=> Len(w) = 1
    BY <2>1, <2>b
  <2> QED
    BY <1>1, <1>3, <2>1, <2>2 DEF OnlySign
<1> QED
  BY <1>2, <1>3

(* A sign alone is a text of one character.                                *)
LEMMA SignGoesOn ==
    ASSUME NEW w \in Seq(Chars), NEW c \in Chars
    PROVE  OnlySign(Append(w, c)) <=> w = <<>> /\ IsSign(c)
<1>1. /\ Len(w) \in Nat /\ Len(Append(w, c)) = Len(w) + 1 /\ Append(w, c)[Len(w) + 1] = c
      /\ w = <<>> <=> Len(w) = 0
  BY AppendProperties
<1>2. CASE w = <<>>
  <2>1. Len(Append(w, c)) = 1 /\ Append(w, c)[1] = c
    BY <1>1, <1>2
  <2> QED
    BY <1>2, <2>1 DEF OnlySign
<1>3. CASE w # <<>>
  <2>1. Len(Append(w, c)) # 1
    BY <1>1, <1>3
  <2> QED
    BY <1>3, <2>1 DEF OnlySign
<1> QED
  BY <1>2, <1>3

(* Digits behind a sign.                                                   *)
LEMMA UnsignedDigits ==
    ASSUME NEW w \in Seq(Chars), NEW c \in Chars
    PROVE  Text!IsDigits(Text!Unsigned(Append(w, c)))
               <=> IsDigit(c) /\ (w = <<>> \/ OnlySign(w) \/ Text!IsDigits(Text!Unsigned(w)))
<1> DEFINE u == Text!Unsigned(w)
<1>1. /\ u \in Seq(Chars) /\ (u = <<>> <=> w = <<>> \/ OnlySign(w))
      /\ Text!Unsigned(Append(w, c)) = IF w = <<>> /\ IsSign(c) THEN <<>> ELSE Append(u, c)
  BY UnsignedGoesOn
<1> HIDE DEF u
<1>2. ~Text!IsDigits(<<>>)
  BY Zenon DEF Text!IsDigits
<1>3. Text!IsDigits(Append(u, c)) <=> IsDigit(c) /\ (u = <<>> \/ Text!IsDigits(u))
  BY <1>1, DigitsGoOn
<1>4. IsDigit(c) => ~IsSign(c)
  BY KindsAre
<1> QED
  BY <1>1, <1>2, <1>3, <1>4, Zenon DEF u

(* A mantissa and what follows the e.                                      *)
Front(m) == Text!IsMantissa(m) \/ OnlyPoint(m)
ExpIn(s, R) == \E i \in 1 .. Len(s) : /\ IsExp(s[i]) /\ Front(SubSeq(s, 1, i - 1))
                                      /\ SubSeq(s, i + 1, Len(s)) \in R
Nothing == {<<>>}
Signs == {w \in Seq(Chars) : OnlySign(w)}
Powers == {w \in Seq(Chars) : Text!IsDigits(Text!Unsigned(w))}

(* What follows an exponent grows with the text.                           *)
LEMMA ExpGoesOn ==
    ASSUME NEW s \in Seq(Chars), NEW c \in Chars, NEW R
    PROVE  ExpIn(Append(s, c), R) <=> \/ IsExp(c) /\ Front(s) /\ <<>> \in R
                                      \/ ExpIn(s, {w \in Seq(Chars) : Append(w, c) \in R})
<1> DEFINE q == Append(s, c)
           b(i) == SubSeq(s, i + 1, Len(s))
           Here(t, i) == IsExp(t[i]) /\ Front(SubSeq(t, 1, i - 1))
<1>1. /\ q \in Seq(Chars) /\ Len(q) = Len(s) + 1 /\ q[Len(s) + 1] = c /\ Len(s) \in Nat
      /\ \A n \in 1 .. Len(s) : q[n] = s[n]
  BY AppendProperties
<1>2. ASSUME NEW i \in 1 .. Len(s)
      PROVE  SubSeq(q, 1, i - 1) = SubSeq(s, 1, i - 1) /\ SubSeq(q, i + 1, Len(q)) = Append(b(i), c) /\ b(i) \in Seq(Chars)
  <2>1. /\ SubSeq(Append(s, c), 1, i - 1) = SubSeq(s, 1, i - 1)
        /\ SubSeq(Append(s, c), i + 1, Len(s) + 1) = Append(SubSeq(s, i + 1, Len(s)), c)
        /\ SubSeq(s, i + 1, Len(s)) \in Seq(Chars)
    BY CutGoesOn, Zenon
  <2> HIDE DEF b
  <2>2. Len(q) = Len(s) + 1
    BY <1>1
  <2> QED
    BY <2>1, <2>2, Zenon DEF q, b
<1> HIDE DEF q, b
<1>3. /\ SubSeq(q, (Len(s) + 1) + 1, Len(q)) = <<>>
      /\ SubSeq(q, 1, (Len(s) + 1) - 1) = s
  <2>1. SubSeq(q, (Len(s) + 1) + 1, Len(q)) = <<>>
    BY <1>1
  <2> DEFINE a == SubSeq(q, 1, Len(s))
  <2>2. a \in Seq(Chars) /\ Len(a) = Len(s) /\ \A n \in 1 .. Len(s) : a[n] = q[n]
    BY <1>1
  <2> HIDE DEF a
  <2>3. a = s
    BY <1>1, <2>2, SeqEqual
  <2>4. (Len(s) + 1) - 1 = Len(s)
    BY <1>1
  <2> QED
    BY <2>1, <2>3, <2>4 DEF a
<1>4. \A i \in 1 .. Len(s) : Here(q, i) <=> Here(s, i)
  BY <1>1, <1>2, Zenon
<1>5. Here(q, Len(s) + 1) <=> IsExp(c) /\ Front(s)
  BY <1>1, <1>3, Zenon
<1> HIDE DEF Here
<1>6. /\ \A i \in 1 .. Len(q) : i = Len(s) + 1 \/ i \in 1 .. Len(s)
      /\ Len(s) + 1 \in 1 .. Len(q) /\ \A i \in 1 .. Len(s) : i \in 1 .. Len(q)
  BY <1>1
<1>7. ExpIn(q, R) <=> \E i \in 1 .. Len(q) : Here(q, i) /\ SubSeq(q, i + 1, Len(q)) \in R
  BY Zenon DEF ExpIn, Here
<1>8. ExpIn(s, {w \in Seq(Chars) : Append(w, c) \in R})
        <=> \E i \in 1 .. Len(s) : Here(s, i) /\ b(i) \in {w \in Seq(Chars) : Append(w, c) \in R}
  BY Zenon DEF ExpIn, Here, b
<1>9. \A i \in 1 .. Len(s) : SubSeq(q, i + 1, Len(q)) \in R <=> b(i) \in {w \in Seq(Chars) : Append(w, c) \in R}
  BY <1>2
<1> QED
  BY <1>3, <1>4, <1>5, <1>6, <1>7, <1>8, <1>9, Zenon DEF q

(* It is nothing, then perhaps a sign, then digits.                        *)
LEMMA Exponents ==
    ASSUME NEW s \in Seq(Chars), NEW c \in Chars
    PROVE  /\ ExpIn(Append(s, c), Nothing) <=> IsExp(c) /\ Front(s)
           /\ ExpIn(Append(s, c), Signs) <=> IsSign(c) /\ ExpIn(s, Nothing)
           /\ ExpIn(Append(s, c), Powers)
                 <=> IsDigit(c) /\ (ExpIn(s, Nothing) \/ ExpIn(s, Signs) \/ ExpIn(s, Powers))
<1> DEFINE Over(R) == {w \in Seq(Chars) : Append(w, c) \in R}
<1>1. \A w \in Seq(Chars) : Append(w, c) \in Seq(Chars) /\ Append(w, c) # <<>>
  BY AppendProperties
<1>2. <<>> \in Nothing /\ <<>> \notin Signs /\ <<>> \notin Powers /\ <<>> \in Seq(Chars)
  <2>1. Len(<<>>) # 1 /\ <<>> \in Seq(Chars)
    OBVIOUS
  <2>2. ~Text!IsDigits(Text!Unsigned(<<>>))
    BY Zenon DEF Text!IsDigits, Text!Unsigned
  <2> QED
    BY <2>1, <2>2 DEF Nothing, Signs, Powers, OnlySign
<1>3. \A w : w \notin Over(Nothing)
  BY <1>1 DEF Nothing
<1>4. \A w : w \in Over(Signs) <=> IsSign(c) /\ w \in Nothing
  BY <1>1, <1>2, SignGoesOn DEF Nothing, Signs
<1>5. \A w : w \in Over(Powers) <=> IsDigit(c) /\ (w \in Nothing \/ w \in Signs \/ w \in Powers)
  BY <1>1, <1>2, UnsignedDigits DEF Nothing, Signs, Powers
<1> HIDE DEF Over
<1>6. \A R : ExpIn(Append(s, c), R) <=> (IsExp(c) /\ Front(s) /\ <<>> \in R) \/ ExpIn(s, Over(R))
  BY ExpGoesOn, Zenon DEF Over
<1>7. ~ExpIn(s, Over(Nothing))
  BY <1>3, Zenon DEF ExpIn
<1>8. ExpIn(s, Over(Signs)) <=> IsSign(c) /\ ExpIn(s, Nothing)
  BY <1>4, Zenon DEF ExpIn
<1>9. ExpIn(s, Over(Powers)) <=> IsDigit(c) /\ (ExpIn(s, Nothing) \/ ExpIn(s, Signs) \/ ExpIn(s, Powers))
  BY <1>5, Zenon DEF ExpIn
<1> QED
  BY <1>2, <1>6, <1>7, <1>8, <1>9, Zenon

(* What a text is of without leading blanks, and without a sign.           *)
Spaces  == {" ", "\t"}
Lead(t) == Text!NoLeading(Spaces, t)
Main(t) == Text!Unsigned(Lead(t))

(* They grow when there is more than blanks and a sign.                    *)
LEMMA MainGoesOn ==
    ASSUME NEW t \in Seq(Chars), NEW c \in Chars
    PROVE  /\ Lead(<<>>) = <<>> /\ Main(<<>>) = <<>> /\ Main(t) \in Seq(Chars)
           /\ Lead(t) = <<>> => Main(t) = <<>>
           /\ Lead(Append(t, c)) = <<>> <=> Lead(t) = <<>> /\ IsSpace(c)
           /\ Main(Append(t, c)) = IF Lead(t) = <<>> /\ (IsSpace(c) \/ IsSign(c)) THEN <<>> ELSE Append(Main(t), c)
<1> DEFINE n == Lead(t)
           m == Lead(Append(t, c))
<1>1. n \in Seq(Chars) /\ m = IF n # <<>> THEN Append(n, c) ELSE IF IsSpace(c) THEN <<>> ELSE <<c>>
  <2>1. /\ n \in Seq(Chars)
        /\ m = IF n # <<>> THEN Append(n, c) ELSE IF c \in Spaces THEN <<>> ELSE <<c>>
    BY LeadingGrows DEF Lead
  <2> QED
    BY <2>1, Zenon DEF Spaces, IsSpace
<1>2. Lead(<<>>) = <<>> /\ Main(<<>>) = <<>> /\ Text!Unsigned(<<>>) = <<>>
  <2>1. Text!Unsigned(<<>>) = <<>>
    BY Zenon DEF Text!Unsigned
  <2>2. Lead(<<>>) = <<>>
    BY LeadingGrows DEF Lead
  <2> QED
    BY <2>1, <2>2, Zenon DEF Main
<1>3. /\ Main(t) = Text!Unsigned(n) /\ Main(Append(t, c)) = Text!Unsigned(m)
  BY Zenon DEF Main
<1> HIDE DEF n, m
<1>4. /\ Text!Unsigned(n) \in Seq(Chars)
      /\ Text!Unsigned(Append(n, c)) = IF n = <<>> /\ IsSign(c) THEN <<>> ELSE Append(Text!Unsigned(n), c)
  BY <1>1, UnsignedGoesOn
<1>5. CASE n # <<>>
  <2>1. Append(n, c) # <<>>
    BY <1>1, AppendProperties
  <2> QED
    BY <1>1, <1>2, <1>3, <1>4, <1>5, <2>1, Zenon DEF n, m
<1>6. CASE n = <<>>
  <2>1. <<c>> = Append(<<>>, c) /\ <<c>> # <<>>
    OBVIOUS
  <2>2. CASE IsSpace(c)
    BY <1>1, <1>2, <1>3, <1>4, <1>6, <2>2, Zenon DEF n, m
  <2>3. CASE ~IsSpace(c)
    BY <1>1, <1>2, <1>3, <1>4, <1>6, <2>1, <2>3, Zenon DEF n, m
  <2> QED
    BY <2>2, <2>3
<1> QED
  BY <1>5, <1>6

IntStates(q, t) ==
    /\ q \in -1 .. 2
    /\ q = 0 <=> Lead(t) = <<>>
    /\ q = 1 <=> Lead(t) # <<>> /\ Main(t) = <<>>
    /\ q = 2 <=> Text!IsDigits(Main(t))

FloatStates(q, t) ==
    /\ q \in -1 .. 7
    /\ q = 0 <=> Lead(t) = <<>>
    /\ q = 1 <=> Lead(t) # <<>> /\ Main(t) = <<>>
    /\ q = 2 <=> Text!IsDigits(Main(t))
    /\ q = 3 <=> Pointed(Main(t))
    /\ q = 4 <=> ExpIn(Main(t), Nothing)
    /\ q = 5 <=> ExpIn(Main(t), Signs)
    /\ q = 6 <=> ExpIn(Main(t), Powers)
    /\ q = 7 <=> OnlyPoint(Main(t))

(* Nothing is no number.                                                   *)
LEMMA EmptyIs ==
    /\ ~Text!IsDigits(<<>>) /\ ~Pointed(<<>>) /\ ~OnlyPoint(<<>>)
    /\ \A R : ~ExpIn(<<>>, R)
<1>1. Len(<<>>) = 0 /\ 1 .. Len(<<>>) = {}
  OBVIOUS
<1>2. Len(<<>>) # 1
  BY <1>1
<1>3. ~Text!IsDigits(<<>>)
  BY Zenon DEF Text!IsDigits
<1>4. ~Pointed(<<>>) /\ ~OnlyPoint(<<>>) /\ \A R : ~ExpIn(<<>>, R)
  BY <1>1, <1>2, Zenon DEF Pointed, OnlyPoint, ExpIn
<1> QED
  BY <1>3, <1>4

(* A point alone is a text of one character.                               *)
LEMMA PointIs ==
    ASSUME NEW s \in Seq(Chars), NEW c \in Chars
    PROVE  OnlyPoint(Append(s, c)) <=> s = <<>> /\ IsPoint(c)
<1>1. /\ Len(s) \in Nat /\ Len(Append(s, c)) = Len(s) + 1 /\ Append(s, c)[Len(s) + 1] = c
      /\ s = <<>> <=> Len(s) = 0
  BY AppendProperties
<1>2. CASE s = <<>>
  <2>1. Len(Append(s, c)) = 1 /\ Append(s, c)[1] = c
    BY <1>1, <1>2
  <2> QED
    BY <1>2, <2>1 DEF OnlyPoint
<1>3. CASE s # <<>>
  <2>1. Len(Append(s, c)) # 1
    BY <1>1, <1>3
  <2> QED
    BY <1>3, <2>1 DEF OnlyPoint
<1> QED
  BY <1>2, <1>3

(* One more character takes strIsFloat to the state of the longer text.    *)
LEMMA FloatGrows ==
    ASSUME NEW t \in Seq(Chars), NEW c \in Chars, NEW q, FloatStates(q, t)
    PROVE  FloatStates(Text!FloatStep(q, c), Append(t, c))
<1> DEFINE r == Text!FloatStep(q, c)
           u == Main(t)
           v == Main(Append(t, c))
           n == Lead(t)
           m == Lead(Append(t, c))
<1>1. /\ r \in -1 .. 7
      /\ r = 0 <=> IsSpace(c) /\ q = 0
      /\ r = 1 <=> IsSign(c) /\ q = 0
      /\ r = 2 <=> IsDigit(c) /\ q \in 0 .. 2
      /\ r = 3 <=> (IsDigit(c) /\ q \in {3, 7}) \/ (IsPoint(c) /\ q = 2)
      /\ r = 4 <=> IsExp(c) /\ q \in {2, 3, 7}
      /\ r = 5 <=> IsSign(c) /\ q = 4
      /\ r = 6 <=> IsDigit(c) /\ q \in 4 .. 6
      /\ r = 7 <=> IsPoint(c) /\ q \in {0, 1}
  BY FloatStepIs DEF FloatStates
<1>2. /\ q \in -1 .. 7
      /\ q = 0 <=> n = <<>>
      /\ q = 1 <=> n # <<>> /\ u = <<>>
      /\ q = 2 <=> Text!IsDigits(u)
      /\ q = 3 <=> Pointed(u)
      /\ q = 4 <=> ExpIn(u, Nothing)
      /\ q = 5 <=> ExpIn(u, Signs)
      /\ q = 6 <=> ExpIn(u, Powers)
      /\ q = 7 <=> OnlyPoint(u)
  BY DEF FloatStates
<1>3. /\ u \in Seq(Chars) /\ (n = <<>> => u = <<>>)
      /\ m = <<>> <=> n = <<>> /\ IsSpace(c)
      /\ v = IF n = <<>> /\ (IsSpace(c) \/ IsSign(c)) THEN <<>> ELSE Append(u, c)
  BY MainGoesOn
<1> HIDE DEF r, u, v, n, m
<1>4. Append(u, c) # <<>>
  BY <1>3, AppendProperties
<1>5. /\ Text!IsDigits(Append(u, c)) <=> IsDigit(c) /\ (u = <<>> \/ Text!IsDigits(u))
      /\ Pointed(Append(u, c)) <=> (IsPoint(c) /\ Text!IsDigits(u)) \/ (IsDigit(c) /\ (Pointed(u) \/ OnlyPoint(u)))
      /\ OnlyPoint(Append(u, c)) <=> u = <<>> /\ IsPoint(c)
  BY <1>3, DigitsGoOn, PointGoesOn, PointIs
<1>6. /\ ExpIn(Append(u, c), Nothing) <=> IsExp(c) /\ Front(u)
      /\ ExpIn(Append(u, c), Signs) <=> IsSign(c) /\ ExpIn(u, Nothing)
      /\ ExpIn(Append(u, c), Powers)
            <=> IsDigit(c) /\ (ExpIn(u, Nothing) \/ ExpIn(u, Signs) \/ ExpIn(u, Powers))
  BY <1>3, Exponents
<1>7. Front(u) <=> Text!IsDigits(u) \/ Pointed(u) \/ OnlyPoint(u)
  BY <1>3, MantissaIs DEF Front
<1>8. FloatStates(r, Append(t, c)) <=>
         /\ r \in -1 .. 7
         /\ r = 0 <=> m = <<>>
         /\ r = 1 <=> m # <<>> /\ v = <<>>
         /\ r = 2 <=> Text!IsDigits(v)
         /\ r = 3 <=> Pointed(v)
         /\ r = 4 <=> ExpIn(v, Nothing)
         /\ r = 5 <=> ExpIn(v, Signs)
         /\ r = 6 <=> ExpIn(v, Powers)
         /\ r = 7 <=> OnlyPoint(v)
  BY Zenon DEF FloatStates, m, v
<1>9. /\ IsDigit(c) \in BOOLEAN /\ IsSign(c) \in BOOLEAN /\ IsSpace(c) \in BOOLEAN
      /\ IsPoint(c) \in BOOLEAN /\ IsExp(c) \in BOOLEAN
  BY DEF IsDigit, IsSign, IsSpace, IsPoint, IsExp
<1>10. CASE n = <<>> /\ (IsSpace(c) \/ IsSign(c))
  <2>1. v = <<>> /\ q = 0
    BY <1>2, <1>3, <1>10
  <2>2. r = 0 <=> m = <<>>
    BY <1>1, <1>3, <1>10, <2>1
  <2>3. r = 1 <=> m # <<>> /\ v = <<>>
    BY <1>1, <1>3, <1>10, <2>1, KindsAre
  <2>4. r = 0 \/ r = 1
    BY <1>1, <1>10, <2>1
  <2>5. r # 2 /\ r # 3 /\ r # 4 /\ r # 5 /\ r # 6 /\ r # 7
    BY <2>4
  <2>6. /\ r = 2 <=> Text!IsDigits(v)
        /\ r = 3 <=> Pointed(v)
        /\ r = 4 <=> ExpIn(v, Nothing)
        /\ r = 5 <=> ExpIn(v, Signs)
        /\ r = 6 <=> ExpIn(v, Powers)
        /\ r = 7 <=> OnlyPoint(v)
    BY <2>1, <2>5, EmptyIs, Zenon
  <2>7. r \in -1 .. 7
    BY <1>1
  <2> QED
    BY <1>8, <2>2, <2>3, <2>6, <2>7, Zenon DEF r
<1>11. CASE ~(n = <<>> /\ (IsSpace(c) \/ IsSign(c)))
  <2>1. v = Append(u, c) /\ v # <<>> /\ m # <<>>
    BY <1>3, <1>4, <1>11
  <2>2. u = <<>> <=> q \in {0, 1}
    BY <1>2, <1>3
  <2>3. r # 0 /\ r # 1
    BY <1>1, <1>2, <1>11
  <2>4. /\ r = 2 <=> Text!IsDigits(v)
        /\ r = 3 <=> Pointed(v)
        /\ r = 7 <=> OnlyPoint(v)
    BY <1>1, <1>2, <1>5, <2>1, <2>2
  <2>5. /\ r = 4 <=> ExpIn(v, Nothing)
        /\ r = 5 <=> ExpIn(v, Signs)
        /\ r = 6 <=> ExpIn(v, Powers)
    BY <1>1, <1>2, <1>6, <1>7, <2>1
  <2>6. /\ r \in -1 .. 7
        /\ r = 0 <=> m = <<>>
        /\ r = 1 <=> m # <<>> /\ v = <<>>
    BY <1>1, <2>1, <2>3
  <2> QED
    BY <1>8, <2>4, <2>5, <2>6, Zenon DEF r
<1> QED
  BY <1>10, <1>11 DEF r

(* And strIsInt.                                                           *)
LEMMA IntGrows ==
    ASSUME NEW t \in Seq(Chars), NEW c \in Chars, NEW q, IntStates(q, t)
    PROVE  IntStates(Text!IntStep(q, c), Append(t, c))
<1> DEFINE r == Text!IntStep(q, c)
           u == Main(t)
           v == Main(Append(t, c))
           n == Lead(t)
           m == Lead(Append(t, c))
<1>1. /\ r \in -1 .. 2
      /\ r = 0 <=> IsSpace(c) /\ q = 0
      /\ r = 1 <=> IsSign(c) /\ q = 0
      /\ r = 2 <=> IsDigit(c) /\ q \in 0 .. 2
  BY IntStepIs DEF IntStates
<1>2. /\ q \in -1 .. 2
      /\ q = 0 <=> n = <<>>
      /\ q = 1 <=> n # <<>> /\ u = <<>>
      /\ q = 2 <=> Text!IsDigits(u)
  BY DEF IntStates
<1>3. /\ u \in Seq(Chars) /\ (n = <<>> => u = <<>>)
      /\ m = <<>> <=> n = <<>> /\ IsSpace(c)
      /\ v = IF n = <<>> /\ (IsSpace(c) \/ IsSign(c)) THEN <<>> ELSE Append(u, c)
  BY MainGoesOn
<1> HIDE DEF r, u, v, n, m
<1>4. Append(u, c) # <<>>
  BY <1>3, AppendProperties
<1>5. Text!IsDigits(Append(u, c)) <=> IsDigit(c) /\ (u = <<>> \/ Text!IsDigits(u))
  BY <1>3, DigitsGoOn
<1>8. IntStates(r, Append(t, c)) <=>
         /\ r \in -1 .. 2
         /\ r = 0 <=> m = <<>>
         /\ r = 1 <=> m # <<>> /\ v = <<>>
         /\ r = 2 <=> Text!IsDigits(v)
  BY Zenon DEF IntStates, m, v
<1>10. CASE n = <<>> /\ (IsSpace(c) \/ IsSign(c))
  <2>1. v = <<>> /\ q = 0
    BY <1>2, <1>3, <1>10
  <2>2. r = 0 <=> m = <<>>
    BY <1>1, <1>3, <1>10, <2>1
  <2>3. r = 1 <=> m # <<>> /\ v = <<>>
    BY <1>1, <1>3, <1>10, <2>1, KindsAre
  <2>4. r = 0 \/ r = 1
    BY <1>1, <1>10, <2>1
  <2>5. r # 2
    BY <2>4
  <2>6. r = 2 <=> Text!IsDigits(v)
    BY <2>1, <2>5, EmptyIs, Zenon
  <2>7. r \in -1 .. 2
    BY <1>1
  <2> QED
    BY <1>8, <2>2, <2>3, <2>6, <2>7, Zenon DEF r
<1>11. CASE ~(n = <<>> /\ (IsSpace(c) \/ IsSign(c)))
  <2>1. v = Append(u, c) /\ v # <<>> /\ m # <<>>
    BY <1>3, <1>4, <1>11
  <2>2. u = <<>> <=> q \in {0, 1}
    BY <1>2, <1>3
  <2>3. r # 0 /\ r # 1
    BY <1>1, <1>2, <1>11
  <2>4. r = 2 <=> Text!IsDigits(v)
    BY <1>1, <1>2, <1>5, <2>1, <2>2
  <2>6. /\ r \in -1 .. 2
        /\ r = 0 <=> m = <<>>
        /\ r = 1 <=> m # <<>> /\ v = <<>>
    BY <1>1, <2>1, <2>3
  <2> QED
    BY <1>8, <2>4, <2>6, Zenon DEF r
<1> QED
  BY <1>10, <1>11 DEF r

(* The automata are in the state that a text is of, for every text.        *)
LEMMA StatesAre ==
    ASSUME NEW t \in Seq(Chars)
    PROVE  FloatStates(FloatOf(t), t) /\ IntStates(IntOf(t), t)
<1> DEFINE S == {w \in Seq(Chars) : FloatStates(FloatOf(w), w) /\ IntStates(IntOf(w), w)}
<1>0. "0" \in Chars
  BY Zenon DEF Chars
<1>1. <<>> \in S
  <2>1. <<>> \in Seq(Chars)
    OBVIOUS
  <2>2. FloatOf(<<>>) = 0 /\ IntOf(<<>>) = 0
    BY <1>0, <2>1, FloatGoesOn, IntGoesOn
  <2>3. Lead(<<>>) = <<>> /\ Main(<<>>) = <<>>
    BY <1>0, <2>1, MainGoesOn
  <2>4. 0 \in -1 .. 2 /\ 0 \in -1 .. 7 /\ 0 # 1 /\ 0 # 2 /\ 0 # 3 /\ 0 # 4 /\ 0 # 5 /\ 0 # 6 /\ 0 # 7
    OBVIOUS
  <2>5. FloatStates(0, <<>>)
    BY <2>3, <2>4, EmptyIs, Zenon DEF FloatStates
  <2>6. IntStates(0, <<>>)
    BY <2>3, <2>4, EmptyIs, Zenon DEF IntStates
  <2> QED
    BY <2>1, <2>2, <2>5, <2>6
<1>2. ASSUME NEW w \in S, NEW c \in Chars PROVE Append(w, c) \in S
  <2>1. w \in Seq(Chars) /\ FloatStates(FloatOf(w), w) /\ IntStates(IntOf(w), w)
    BY <1>2
  <2>2. Append(w, c) \in Seq(Chars)
    BY <2>1
  <2>3. FloatOf(Append(w, c)) = Text!FloatStep(FloatOf(w), c) /\ IntOf(Append(w, c)) = Text!IntStep(IntOf(w), c)
    BY <2>1, FloatGoesOn, IntGoesOn
  <2>4. FloatStates(Text!FloatStep(FloatOf(w), c), Append(w, c))
    BY <2>1, FloatGrows, Zenon
  <2>5. IntStates(Text!IntStep(IntOf(w), c), Append(w, c))
    BY <2>1, IntGrows, Zenon
  <2> QED
    BY <2>2, <2>3, <2>4, <2>5
<1>3. S \in SUBSET Seq(Chars)
  OBVIOUS
<1> HIDE DEF S
<1>4. S = Seq(Chars)
  BY <1>1, <1>2, <1>3, TextsGrow
<1> QED
  BY <1>4 DEF S

(* In the words of the property.                                           *)
LEMMA ExponentsAre ==
    ASSUME NEW s \in Seq(Chars)
    PROVE  ExpIn(s, Powers) <=> \E i \in DOMAIN s :
               /\ s[i] \in {"e", "E"}
               /\ Text!IsMantissa(SubSeq(s, 1, i - 1)) \/ SubSeq(s, 1, i - 1) = <<".">>
               /\ Text!IsDigits(Text!Unsigned(SubSeq(s, i + 1, Len(s))))
<1>1. DOMAIN s = 1 .. Len(s)
  OBVIOUS
<1>2. ASSUME NEW i \in 1 .. Len(s)
      PROVE  SubSeq(s, 1, i - 1) \in Seq(Chars) /\ SubSeq(s, i + 1, Len(s)) \in Seq(Chars)
  OBVIOUS
<1>3. ASSUME NEW i \in 1 .. Len(s)
      PROVE  /\ IsExp(s[i]) <=> s[i] \in {"e", "E"}
             /\ Front(SubSeq(s, 1, i - 1))
                   <=> Text!IsMantissa(SubSeq(s, 1, i - 1)) \/ SubSeq(s, 1, i - 1) = <<".">>
             /\ SubSeq(s, i + 1, Len(s)) \in Powers
                   <=> Text!IsDigits(Text!Unsigned(SubSeq(s, i + 1, Len(s))))
  <2>1. IsExp(s[i]) <=> s[i] \in {"e", "E"}
    BY Zenon DEF IsExp
  <2>2. SubSeq(s, 1, i - 1) = <<".">> <=> OnlyPoint(SubSeq(s, 1, i - 1))
    BY <1>2, MantissaIs, Zenon
  <2>3. SubSeq(s, i + 1, Len(s)) \in Powers <=> Text!IsDigits(Text!Unsigned(SubSeq(s, i + 1, Len(s))))
    BY <1>2, Zenon DEF Powers
  <2> QED
    BY <2>1, <2>2, <2>3, Zenon DEF Front
<1> QED
  BY <1>1, <1>3, Zenon DEF ExpIn

(* So strIsFloat and strIsInt accept the numbers they should.              *)
LEMMA FloatsHold == text \in Seq(Chars) => Text!FloatsAreNumbers
<1> SUFFICES ASSUME text \in Seq(Chars) PROVE Text!FloatsAreNumbers
  OBVIOUS
<1> DEFINE s == Main(text)
<1>0. "0" \in Chars
  BY Zenon DEF Chars
<1>1. s \in Seq(Chars) /\ s = Text!Unsigned(Text!NoLeading({" ", "\t"}, text))
  <2>1. s \in Seq(Chars)
    BY <1>0, MainGoesOn
  <2> QED
    BY <2>1, Zenon DEF Main, Lead, Spaces
<1>2. Text!strIsInt(text) <=> IntOf(text) = 2
  BY Zenon DEF Text!strIsInt, IntOf, Text!After
<1>3. Text!strIsFloat(text) <=> FloatOf(text) = 2 \/ FloatOf(text) = 3 \/ FloatOf(text) = 6
  BY Zenon DEF Text!strIsFloat, FloatOf, Text!After, Text!FloatEnds
<1>4. FloatStates(FloatOf(text), text) /\ IntStates(IntOf(text), text)
  BY StatesAre
<1>5. IntOf(text) = 2 <=> Text!IsDigits(s)
  BY <1>4, Zenon DEF IntStates
<1>6. /\ FloatOf(text) = 2 <=> Text!IsDigits(s)
      /\ FloatOf(text) = 3 <=> Pointed(s)
      /\ FloatOf(text) = 6 <=> ExpIn(s, Powers)
  BY <1>4, Zenon DEF FloatStates
<1> HIDE DEF s
<1>7. Text!IsMantissa(s) <=> Text!IsDigits(s) \/ Pointed(s)
  BY <1>1, MantissaIs
<1>8. ExpIn(s, Powers) <=> \E i \in DOMAIN s :
               /\ s[i] \in {"e", "E"}
               /\ Text!IsMantissa(SubSeq(s, 1, i - 1)) \/ SubSeq(s, 1, i - 1) = <<".">>
               /\ Text!IsDigits(Text!Unsigned(SubSeq(s, i + 1, Len(s))))
  BY <1>1, ExponentsAre, Zenon
<1>9. Text!strIsFloat(text) <=> Text!IsMantissa(s) \/ ExpIn(s, Powers)
  BY <1>3, <1>6, <1>7, Zenon
<1> DEFINE E == {i \in DOMAIN s : s[i] \in {"e", "E"}}
<1>10. ASSUME \A i \in E : SubSeq(s, 1, i - 1) # <<".">>
       PROVE  Text!strIsFloat(text) <=>
                 \/ Text!IsMantissa(s)
                 \/ \E i \in E : /\ Text!IsMantissa(SubSeq(s, 1, i - 1))
                                 /\ Text!IsDigits(Text!Unsigned(SubSeq(s, i + 1, Len(s))))
  BY <1>8, <1>9, <1>10, Zenon
<1> HIDE DEF E
<1> QED
  BY <1>1, <1>2, <1>5, <1>10, Zenon DEF Text!FloatsAreNumbers, E

----------------------------------------------------------------------------
(* Times.  What is left of a time stamp that is read, and its digits.      *)
Thousand(n)   == 1000 * n
Tenth         == 100
Read(a, v, k) == [acc |-> a, x |-> v, k |-> k, bad |-> FALSE]
Ten(n)  == Text!conv[n + 1]
Colon   == ":"
Comma   == ","

(* A decimal digit counts itself.                                          *)
LEMMA TensAre ==
    ASSUME NEW n \in 0 .. 9
    PROVE  Ten(n) \in Chars /\ Ten(n) \in Text!Digit /\ Text!deconv(Ten(n)) = n
<1>1. Ten(n) \in Chars
  <2>1. n \in 0 .. 15
    OBVIOUS
  <2> QED
    BY <2>1, DigitsAreChars DEF Ten
<1>2. n \in {0, 1, 2, 3, 4, 5, 6, 7, 8, 9}
  OBVIOUS
<1>3. Ten(n) \in Text!Digit
  BY <1>2 DEF Ten, Text!conv, Text!Digit
<1>4. DOMAIN Text!conv = 1 .. 16
  BY DEF Text!conv
<1>5. Ten(n) \in Text!ToSet(Text!conv) /\ n + 1 \in DOMAIN Text!conv
  BY <1>4 DEF Ten, Text!ToSet
<1>6. \A i \in DOMAIN Text!conv : Text!conv[i] = Ten(n) => i = n + 1
  BY <1>2, <1>4 DEF Ten, Text!conv
<1>7. Text!Place(Text!conv, Ten(n)) = n + 1
  BY <1>5, <1>6 DEF Text!Place, Ten
<1> QED
  BY <1>1, <1>3, <1>5, <1>7 DEF Text!deconv

(* The characters between the fields are no digits.                        *)
LEMMA MarksAre ==
    /\ Colon \in Chars /\ Comma \in Chars /\ Colon # Comma
    /\ Colon \notin Text!Digit /\ Comma \notin Text!Digit
<1>1. Colon \in Chars /\ Comma \in Chars
  BY Zenon DEF Chars, Colon, Comma
<1>2. Colon # Comma /\ Colon \notin Text!Digit /\ Comma \notin Text!Digit
  BY DEF Colon, Comma, Text!Digit
<1> QED
  BY <1>1, <1>2

(* At a colon and at a comma a field ends.                                 *)
LEMMA MarksAreRead ==
    ASSUME NEW a \in Int, NEW v \in Int, NEW k \in Nat
    PROVE  /\ Read(a, v, k) \in Stamped
           /\ Text!StampStep(Read(a, v, k), Colon) = Read((a + v) * 60, 0, k)
           /\ Text!StampStep(Read(a, v, k), Comma) = Read(a + v, 0, 100)
<1> DEFINE r == Read(a, v, k)
<1>1. r \in Stamped /\ ~r.bad /\ r.acc = a /\ r.x = v /\ r.k = k
  BY DEF Read, Stamped
<1>2. Text!StampStep(r, Colon) = [r EXCEPT !.acc = (@ + r.x) * 60, !.x = 0]
  BY <1>1, StampStepIs, Zenon DEF Colon
<1>3. Text!StampStep(r, Comma) = [r EXCEPT !.acc = @ + r.x, !.x = 0, !.k = Text!Second \div 10]
  BY <1>1, StampStepIs, Zenon DEF Comma
<1>4. Text!Second \div 10 = 100
  BY DEF Text!Second
<1>5. Text!StampStep(r, Colon) = [r EXCEPT !.acc = (a + v) * 60, !.x = 0]
  BY <1>1, <1>2
<1>6. Text!StampStep(r, Comma) = [r EXCEPT !.acc = a + v, !.x = 0, !.k = 100]
  BY <1>1, <1>3, <1>4
<1> QED
  BY <1>1, <1>5, <1>6 DEF Read

Moved(r, w)     == [r EXCEPT !.x = w]
Turned(r, w, l) == [r EXCEPT !.x = w, !.k = l]

LEMMA Continued ==
    ASSUME NEW a \in Int, NEW v \in Int, NEW k \in Int, NEW w \in Int, NEW l \in Int
    PROVE  /\ Moved(Read(a, v, k), w) = Read(a, w, k)
           /\ Turned(Read(a, v, k), w, l) = Read(a, w, l)
<1> DEFINE r == Read(a, v, k)
<1>1. /\ r \in [acc : Int, x : Int, k : Int, bad : BOOLEAN] /\ r.acc = a /\ r.bad = FALSE /\ r.k = k
  BY DEF Read
<1> HIDE DEF r
<1>2. [r EXCEPT !.x = w] = [acc |-> r.acc, x |-> w, k |-> r.k, bad |-> r.bad]
  BY <1>1
<1>3. [r EXCEPT !.x = w, !.k = l] = [acc |-> r.acc, x |-> w, k |-> l, bad |-> r.bad]
  <2> DEFINE q == [r EXCEPT !.x = w, !.k = l]
  <2>1. q \in [acc : Int, x : Int, k : Int, bad : BOOLEAN] /\ q.acc = r.acc /\ q.x = w /\ q.k = l /\ q.bad = r.bad
    BY <1>1
  <2> HIDE DEF q
  <2>2. q = [acc |-> q.acc, x |-> q.x, k |-> q.k, bad |-> q.bad]
    BY <2>1
  <2> QED
    BY <2>1, <2>2 DEF q
<1> QED
  BY <1>1, <1>2, <1>3 DEF Read, r, Moved, Turned

(* Before the comma a digit counts seconds, behind it parts of one.        *)
LEMMA DigitIsTime ==
    ASSUME NEW a \in Int, NEW v \in Int, NEW k \in Nat, NEW n \in 0 .. 9
    PROVE  /\ k = Text!Second => Text!StampStep(Read(a, v, k), Ten(n)) = Read(a, v * 10 + k * n, k)
           /\ k # Text!Second => Text!StampStep(Read(a, v, k), Ten(n)) = Read(a, v + k * n, k \div 10)
<1> DEFINE r == Read(a, v, k)
<1>1. r \in Stamped /\ ~r.bad /\ r.acc = a /\ r.x = v /\ r.k = k
  BY DEF Read, Stamped
<1>2. Text!StampStep(r, Ten(n)) =
         IF r.k = Text!Second THEN [r EXCEPT !.x = @ * 10 + r.k * Text!deconv(Ten(n))]
         ELSE [r EXCEPT !.x = @ + r.k * Text!deconv(Ten(n)), !.k = @ \div 10]
  BY <1>1, StampStepIs, TensAre, Zenon
<1> DEFINE y == v * 10 + k * n
           z == v + k * n
           h == k \div 10
<1>3. CASE k = Text!Second
  <2>1. Text!StampStep(r, Ten(n)) = [r EXCEPT !.x = y]
    BY <1>1, <1>2, <1>3, TensAre
  <2>0. y \in Int /\ k \in Int
    OBVIOUS
  <2> HIDE DEF y
  <2>2. Moved(r, y) = Read(a, y, k)
    BY <2>0, Continued
  <2> QED
    BY <1>3, <2>1, <2>2 DEF y, Moved
<1>4. CASE k # Text!Second
  <2>1. Text!StampStep(r, Ten(n)) = [r EXCEPT !.x = z, !.k = h]
    <3>1. r.k # Text!Second
      BY <1>1, <1>4
    <3>2. Text!StampStep(r, Ten(n)) = [r EXCEPT !.x = r.x + r.k * Text!deconv(Ten(n)), !.k = r.k \div 10]
      BY <1>2, <3>1
    <3> QED
      BY <1>1, <3>2, TensAre, Zenon
  <2>0. z \in Int /\ h \in Int /\ k \in Int
    OBVIOUS
  <2> HIDE DEF z, h
  <2>2. Turned(r, z, h) = Read(a, z, h)
    BY <2>0, Continued
  <2> QED
    BY <1>4, <2>1, <2>2 DEF z, h, Turned
<1> QED
  BY <1>3, <1>4

LEMMA DigitIsBefore ==
    ASSUME NEW a \in Int, NEW v \in Int, NEW n \in 0 .. 9, NEW w \in Int, w = v * 10 + Thousand(n)
    PROVE  Text!StampStep(Read(a, v, Text!Second), Ten(n)) = Read(a, w, Text!Second)
<1>1. /\ a \in Int /\ v \in Int /\ n \in 0 .. 9
      /\ Text!Second \in Nat /\ w = v * 10 + Text!Second * n
  BY DEF Text!Second, Thousand
<1>2. \A m \in Nat : m = Text!Second =>
          Text!StampStep(Read(a, v, m), Ten(n)) = Read(a, v * 10 + m * n, m)
  BY DigitIsTime, Zenon
<1> QED
  BY <1>1, <1>2, Zenon

LEMMA DigitIsBehind ==
    ASSUME NEW a \in Int, NEW v \in Int, NEW k \in Nat, NEW n \in 0 .. 9, k # Text!Second
    PROVE  Text!StampStep(Read(a, v, k), Ten(n)) = Read(a, v + k * n, k \div 10)
BY DigitIsTime

(* The three digits behind the comma,                                      *)
LEMMA TenthIsRead ==
    ASSUME NEW a \in Int, NEW v \in Int, NEW n \in 0 .. 9
    PROVE  Text!StampStep(Read(a, v, Tenth), Ten(n)) = Read(a, v + Tenth * n, 10)
<1> DEFINE k == Tenth
           l == 10
<1>1. /\ a \in Int /\ v \in Int /\ n \in 0 .. 9 /\ k \in Nat
      /\ k # Text!Second /\ l = k \div 10
  BY DEF Text!Second, Tenth
<1> HIDE DEF k, l
<1>2. Text!StampStep(Read(a, v, k), Ten(n)) = Read(a, v + k * n, k \div 10)
  BY ONLY <1>1, DigitIsBehind, Zenon
<1>3. Text!StampStep(Read(a, v, k), Ten(n)) = Read(a, v + k * n, l)
  BY ONLY <1>1, <1>2, Zenon
<1> QED
  BY <1>3, Zenon DEF k, l

LEMMA HundredthIsRead ==
    ASSUME NEW a \in Int, NEW v \in Int, NEW n \in 0 .. 9
    PROVE  Text!StampStep(Read(a, v, 10), Ten(n)) = Read(a, v + 10 * n, 1)
<1> DEFINE k == 10
           l == 1
<1>1. /\ a \in Int /\ v \in Int /\ n \in 0 .. 9 /\ k \in Nat
      /\ k # Text!Second /\ l = k \div 10
  BY DEF Text!Second
<1> HIDE DEF k, l
<1>2. Text!StampStep(Read(a, v, k), Ten(n)) = Read(a, v + k * n, k \div 10)
  BY ONLY <1>1, DigitIsBehind, Zenon
<1>3. Text!StampStep(Read(a, v, k), Ten(n)) = Read(a, v + k * n, l)
  BY ONLY <1>1, <1>2, Zenon
<1> QED
  BY <1>3, Zenon DEF k, l

LEMMA ThousandthIsRead ==
    ASSUME NEW a \in Int, NEW v \in Int, NEW n \in 0 .. 9
    PROVE  Text!StampStep(Read(a, v, 1), Ten(n)) = Read(a, v + 1 * n, 0)
<1> DEFINE k == 1
           l == 0
<1>1. /\ a \in Int /\ v \in Int /\ n \in 0 .. 9 /\ k \in Nat
      /\ k # Text!Second /\ l = k \div 10
  BY DEF Text!Second
<1> HIDE DEF k, l
<1>2. Text!StampStep(Read(a, v, k), Ten(n)) = Read(a, v + k * n, k \div 10)
  BY ONLY <1>1, DigitIsBehind, Zenon
<1>3. Text!StampStep(Read(a, v, k), Ten(n)) = Read(a, v + k * n, l)
  BY ONLY <1>1, <1>2, Zenon
<1> QED
  BY <1>3, Zenon DEF k, l

(* the two digits of another field,                                        *)
LEMMA FirstIsRead ==
    ASSUME NEW a \in Int, NEW p \in 0 .. 9
    PROVE  Text!StampStep(Read(a, 0, Text!Second), Ten(p)) = Read(a, Thousand(p), Text!Second)
<1> DEFINE v == 0
           w == Thousand(p)
<1>1. v \in Int /\ w \in Int /\ w = v * 10 + Thousand(p)
  BY DEF Thousand
<1> HIDE DEF v, w
<1>2. Text!StampStep(Read(a, v, Text!Second), Ten(p)) = Read(a, w, Text!Second)
  BY <1>1, DigitIsBefore, Zenon
<1> QED
  BY <1>2, Zenon DEF v, w

(* The number of two digits.                                               *)
Deca(p, q) == 10 * p + q

LEMMA SecondIsRead ==
    ASSUME NEW a \in Int, NEW p \in 0 .. 9, NEW q \in 0 .. 9
    PROVE  Text!StampStep(Read(a, Thousand(p), Text!Second), Ten(q)) = Read(a, Thousand(Deca(p, q)), Text!Second)
<1> DEFINE n == Deca(p, q)
<1>1. /\ a \in Int /\ q \in 0 .. 9
      /\ Thousand(p) \in Int /\ Thousand(n) \in Int /\ Thousand(n) = Thousand(p) * 10 + Thousand(q)
  BY DEF Thousand, Deca
<1> QED
  BY ONLY <1>1, DigitIsBefore, Zenon DEF n

(* and what is between them.                                               *)
LEMMA ColonIsRead ==
    ASSUME NEW a \in Int, NEW v \in Int, NEW k \in Nat, NEW b, b = (a + v) * 60
    PROVE  Text!StampStep(Read(a, v, k), Colon) = Read(b, 0, k)
BY MarksAreRead

LEMMA CommaIsRead ==
    ASSUME NEW a \in Int, NEW v \in Int, NEW k \in Nat, NEW b, b = a + v
    PROVE  Text!StampStep(Read(a, v, k), Comma) = Read(b, 0, Tenth)
BY MarksAreRead DEF Tenth

(* Hours have as many digits as they need.                                 *)
Hours(n)    == Text!Upto(n, 10)

(* The last digit of the hours is behind the others.                       *)
LEMMA HoursAre ==
    ASSUME NEW n \in Nat
    PROVE  /\ n < 10 => Hours(n) = Append(<<>>, Ten(n))
           /\ n >= 10 => /\ Hours(n) = Append(Hours(n \div 10), Ten(n % 10))
                         /\ n \div 10 \in 1 .. n - 1 /\ n % 10 \in 0 .. 9 /\ n = 10 * (n \div 10) + (n % 10)
<1>0. 10 \in 2 .. 16 /\ 10 \in Nat /\ 10 >= 2 /\ 10 \in Nat \ {0}
  OBVIOUS
<1>1. CASE n < 10
  <2>1. Hours(n) = <<Ten(n)>>
    BY <1>0, <1>1, WritingIs DEF Hours, Ten
  <2>2. <<Ten(n)>> = Append(<<>>, Ten(n))
    OBVIOUS
  <2> QED
    BY <1>1, <2>1, <2>2
<1>2. CASE n >= 10
  <2>1. Hours(n) = Append(Hours(n \div 10), Text!conv[1 + (n % 10)])
    BY <1>0, <1>2, WritingIs DEF Hours
  <2>2. n \div 10 \in 1 .. n - 1 /\ n % 10 \in 0 .. 10 - 1
    BY <1>0, <1>2, QuotientBelow
  <2>3. n = 10 * (n \div 10) + (n % 10)
    BY <1>2
  <2>4. 1 + (n % 10) = (n % 10) + 1
    BY <2>2
  <2> QED
    BY <1>2, <2>1, <2>2, <2>3, <2>4 DEF Ten
<1> QED
  BY <1>1, <1>2

(* Before anything is read there are no seconds.                           *)
LEMMA StartIs == StampOf(<<>>) = Read(0, 0, Text!Second)
<1>1. StampOf(<<>>) = NoStamp
  <2>1. \E c : c \in Chars
    BY Zenon DEF Chars
  <2>2. <<>> \in Seq(Chars)
    OBVIOUS
  <2> QED
    BY <2>1, <2>2, StampGoesOn
<1> QED
  BY <1>1, Zenon DEF NoStamp, Read

(* Hours are read back, however many digits they have.                     *)
LEMMA HoursAreRead ==
    ASSUME NEW n \in Nat
    PROVE  Hours(n) \in Seq(Chars) /\ StampOf(Hours(n)) = Read(0, Thousand(n), Text!Second)
<1> DEFINE Bad == {m \in Nat : ~(StampOf(Hours(m)) = Read(0, Thousand(m), Text!Second))}
<1>0. 10 \in 2 .. 16
  OBVIOUS
<1>1. \A m \in Nat : Hours(m) \in Seq(Chars)
  BY <1>0, Written DEF Hours
<1>2. Bad = {}
  <2> SUFFICES ASSUME Bad # {} PROVE FALSE
    OBVIOUS
  <2>1. PICK m \in Bad : \A j \in Bad : m <= j
    <3>1. Bad \in SUBSET Nat
      OBVIOUS
    <3> HIDE DEF Bad
    <3> QED
      BY <3>1, LeastExists
  <2>2. /\ m \in Nat /\ StampOf(Hours(m)) # Read(0, Thousand(m), Text!Second)
        /\ \A j \in Nat : j < m => StampOf(Hours(j)) = Read(0, Thousand(j), Text!Second)
    BY <2>1
  <2> HIDE DEF Bad
  <2>3. CASE m < 10
    <3>1. m \in 0 .. 9
      BY <2>2, <2>3
    <3>2. <<>> \in Seq(Chars) /\ Ten(m) \in Chars
      BY <3>1, TensAre
    <3>3. StampOf(Append(<<>>, Ten(m))) = Text!StampStep(StampOf(<<>>), Ten(m))
      BY <3>2, StampGoesOn
    <3>4. 0 \in Int /\ Thousand(m) \in Int /\ Thousand(m) = 0 * 10 + Thousand(m)
      BY <3>1 DEF Thousand
    <3>5. Text!StampStep(Read(0, 0, Text!Second), Ten(m)) = Read(0, Thousand(m), Text!Second)
      BY <3>1, <3>4, DigitIsBefore, Zenon
    <3>6. Hours(m) = Append(<<>>, Ten(m))
      BY <2>2, <2>3, HoursAre
    <3> QED
      BY <2>2, <3>3, <3>5, <3>6, StartIs, Zenon
  <2>4. CASE m >= 10
    <3> DEFINE k == m \div 10
               d == m % 10
    <3>1. /\ Hours(m) = Append(Hours(k), Ten(d))
          /\ k \in 1 .. m - 1 /\ d \in 0 .. 9 /\ m = 10 * k + d
      BY <2>2, <2>4, HoursAre
    <3> HIDE DEF k, d
    <3>2. k \in Nat /\ k < m /\ Thousand(k) \in Int
      BY <2>2, <3>1 DEF Thousand
    <3>8. Ten(d) \in Chars
      BY <3>1, TensAre
    <3>3. Hours(k) \in Seq(Chars) /\ Ten(d) \in Chars
      BY <1>1, <3>2, <3>8
    <3>6. StampOf(Hours(k)) = Read(0, Thousand(k), Text!Second)
      BY <2>2, <3>2, Zenon
    <3>4. StampOf(Append(Hours(k), Ten(d))) = Text!StampStep(StampOf(Hours(k)), Ten(d))
      BY <3>3, StampGoesOn
    <3>7. 0 \in Int /\ Thousand(m) \in Int /\ Thousand(m) = Thousand(k) * 10 + Thousand(d)
      BY <2>2, <3>1, <3>2 DEF Thousand
    <3>5. Text!StampStep(Read(0, Thousand(k), Text!Second), Ten(d)) = Read(0, Thousand(m), Text!Second)
      BY ONLY <3>1, <3>2, <3>7, DigitIsBefore, Zenon
    <3> QED
      BY <2>2, <3>1, <3>4, <3>5, <3>6, Zenon
  <2> QED
    BY <2>2, <2>3, <2>4
<1> HIDE DEF Bad
<1>3. n \notin Bad
  BY <1>2
<1> QED
  BY <1>1, <1>3, Zenon DEF Bad

(* They have two digits from ten hours on.                                 *)
LEMMA HoursHaveTwo == ASSUME NEW n \in Nat PROVE Len(Hours(n)) = 2 <=> n \in 10 .. 99
<1>0. 10 \in 2 .. 16
  OBVIOUS
<1>1. \A m \in Nat : Hours(m) \in Seq(Chars) /\ Len(Hours(m)) \in Nat \ {0}
  BY <1>0, Written DEF Hours
<1>2. ASSUME NEW m \in Nat, m < 10 PROVE Len(Hours(m)) = 1
  <2>1. <<>> \in Seq(Chars) /\ Len(<<>>) = 0 /\ Ten(m) \in Chars
    BY <1>2, TensAre
  <2>2. Len(Append(<<>>, Ten(m))) = 1
    BY <2>1, AppendProperties
  <2> QED
    BY <1>2, <2>2, HoursAre
<1>3. ASSUME NEW m \in Nat, m >= 10
      PROVE  Len(Hours(m)) = Len(Hours(m \div 10)) + 1 /\ m \div 10 \in Nat \ {0} /\ (m \div 10 < 10 <=> m < 100)
  <2>1. /\ Hours(m) = Append(Hours(m \div 10), Ten(m % 10))
        /\ m \div 10 \in 1 .. m - 1 /\ m % 10 \in 0 .. 9 /\ m = 10 * (m \div 10) + (m % 10)
    BY <1>3, HoursAre
  <2>2. m \div 10 \in Nat \ {0} /\ (m \div 10 < 10 <=> m < 100)
    BY <2>1
  <2>3. Ten(m % 10) \in Chars /\ Hours(m \div 10) \in Seq(Chars)
    BY <1>1, <2>1, <2>2, TensAre
  <2> QED
    BY <2>1, <2>2, <2>3, AppendProperties
<1>4. CASE n < 10
  BY <1>2, <1>4
<1>5. CASE n >= 10 /\ n < 100
  <2>1. Len(Hours(n)) = Len(Hours(n \div 10)) + 1 /\ n \div 10 \in Nat /\ n \div 10 < 10
    BY <1>3, <1>5
  <2>2. Len(Hours(n \div 10)) = 1
    BY <1>2, <2>1
  <2>3. n \in 10 .. 99 /\ 1 + 1 = 2
    BY <1>5
  <2> QED
    BY <2>1, <2>2, <2>3, Zenon
<1>6. CASE n >= 100
  <2>1. n >= 10
    BY <1>6
  <2>2. /\ Len(Hours(n)) = Len(Hours(n \div 10)) + 1 /\ n \div 10 \in Nat /\ n \div 10 >= 10
    BY <1>3, <1>6, <2>1
  <2>3. Len(Hours(n \div 10)) = Len(Hours((n \div 10) \div 10)) + 1 /\ (n \div 10) \div 10 \in Nat
    BY <1>3, <2>2
  <2>4. Len(Hours((n \div 10) \div 10)) \in Nat \ {0}
    BY <1>1, <2>3
  <2> QED
    BY <1>6, <2>2, <2>3, <2>4
<1> QED
  BY <1>4, <1>5, <1>6

(* The other fields have two digits, and three behind the comma.           *)
Ends(t, a, v, k) == StampOf(t) = Read(a, v, k)

Sixty(n)       == n * 60
Milli(p, q, r) == 100 * p + 10 * q + r

(* One more digit is written behind the others,                            *)
LEMMA DigitMore ==
    ASSUME NEW n \in Nat, NEW d \in 0 .. 9, NEW v \in Nat, v = 10 * n + d, NEW l \in Nat \ {0}
    PROVE  Text!intToString(v, l + 1, 10) = Append(Text!intToString(n, l, 10), Ten(d))
<1> DEFINE b == 10
<1>1. b \in 2 .. 16 /\ n \in Nat /\ d \in 0 .. b - 1 /\ l \in Nat \ {0}
  OBVIOUS
<1>3. v = b * n + d
  OBVIOUS
<1> HIDE DEF b
<1>4. Text!intToString(b * n + d, l + 1, b) = Append(Text!intToString(n, l, b), Text!conv[d + 1])
  BY ONLY <1>1, PaddedGrows, Zenon
<1>2. Text!intToString(v, l + 1, b) = Append(Text!intToString(n, l, b), Text!conv[d + 1])
  BY <1>3, <1>4, Zenon
<1> QED
  BY <1>2, Zenon DEF b, Ten

(* so a field has two digits,                                              *)
LEMMA TwoDigits ==
    ASSUME NEW p \in 0 .. 9, NEW q \in 0 .. 9
    PROVE  Text!intToString(Deca(p, q), 2, 10) = Append(<<Ten(p)>>, Ten(q))
<1> DEFINE v == Deca(p, q)
<1>1. v \in Nat /\ v = 10 * p + q
  BY DEF Deca
<1> HIDE DEF v
<1>2. Text!intToString(p, 1, 10) = <<Ten(p)>>
  <2>1. 10 \in 2 .. 16 /\ p \in 0 .. 10 - 1
    OBVIOUS
  <2> QED
    BY <2>1, PaddedOne DEF Ten
<1>3. Text!intToString(v, 1 + 1, 10) = Append(Text!intToString(p, 1, 10), Ten(q))
  <2>1. p \in Nat /\ q \in 0 .. 9 /\ v \in Nat /\ v = 10 * p + q /\ 1 \in Nat \ {0}
    BY <1>1
  <2> QED
    BY ONLY <2>1, DigitMore, Zenon
<1>4. 1 + 1 = 2
  OBVIOUS
<1> QED
  BY <1>2, <1>3, <1>4 DEF v

(* and three behind the comma.                                             *)
LEMMA ThreeDigits ==
    ASSUME NEW p \in 0 .. 9, NEW q \in 0 .. 9, NEW r \in 0 .. 9
    PROVE  Text!intToString(Milli(p, q, r), 3, 10) = Append(Append(<<Ten(p)>>, Ten(q)), Ten(r))
<1> DEFINE n == Deca(p, q)
           v == Milli(p, q, r)
<1>1. n \in Nat /\ v \in Nat /\ v = 10 * n + r
  BY DEF Milli, Deca
<1>2. Text!intToString(n, 2, 10) = Append(<<Ten(p)>>, Ten(q))
  BY TwoDigits
<1> HIDE DEF n, v
<1>3. Text!intToString(v, 2 + 1, 10) = Append(Text!intToString(n, 2, 10), Ten(r))
  <2>1. n \in Nat /\ r \in 0 .. 9 /\ v \in Nat /\ v = 10 * n + r /\ 2 \in Nat \ {0}
    BY <1>1
  <2> QED
    BY ONLY <2>1, DigitMore, Zenon
<1>4. 2 + 1 = 3
  OBVIOUS
<1> QED
  BY <1>2, <1>3, <1>4 DEF v

(* A text with one, two, three characters more.                            *)
Two(t, m, p, q)      == Append(Append(Append(t, m), Ten(p)), Ten(q))
Three(t, m, p, q, r) == Append(Two(t, m, p, q), Ten(r))

(* A mark is joined to what is before it.                                  *)
LEMMA OneMarkMore ==
    ASSUME NEW t \in Seq(Chars), NEW m \in Chars
    PROVE  t \o <<m>> = Append(t, m) /\ Append(t, m) \in Seq(Chars)
BY AppendIsConcat, AppendProperties

TwoMore(w, t, m, p, q) ==
    /\ w \in Seq(Chars) /\ Len(w) = Len(t) + 3
    /\ \A i \in 1 .. Len(t) : w[i] = t[i]
    /\ w[Len(t) + 1] = m /\ w[Len(t) + 2] = Ten(p) /\ w[Len(t) + 3] = Ten(q)

(* What a field adds to a text.                                            *)
LEMMA TwoAre ==
    ASSUME NEW t \in Seq(Chars), NEW m \in Chars, NEW p \in 0 .. 9, NEW q \in 0 .. 9
    PROVE  /\ (t \o <<m>>) \o Append(<<Ten(p)>>, Ten(q)) = Two(t, m, p, q)
           /\ TwoMore(Two(t, m, p, q), t, m, p, q)
<1> DEFINE a == Append(t, m)
           b == Append(a, Ten(p))
           c == Append(b, Ten(q))
<1>0. Ten(p) \in Chars /\ Ten(q) \in Chars /\ Len(t) \in Nat
  BY TensAre
<1>1. /\ a \in Seq(Chars) /\ t \o <<m>> = a /\ Len(a) = Len(t) + 1
      /\ \A i \in 1 .. Len(t) : a[i] = t[i]
      /\ a[Len(t) + 1] = m
  BY OneMarkMore, AppendProperties
<1> HIDE DEF a
<1>2. /\ b \in Seq(Chars) /\ a \o <<Ten(p)>> = b /\ Len(b) = Len(a) + 1
      /\ \A i \in 1 .. Len(a) : b[i] = a[i]
      /\ b[Len(a) + 1] = Ten(p)
  BY <1>0, <1>1, OneMarkMore, AppendProperties
<1> HIDE DEF b
<1>3. /\ c \in Seq(Chars) /\ Len(c) = Len(b) + 1
      /\ \A i \in 1 .. Len(b) : c[i] = b[i]
      /\ c[Len(b) + 1] = Ten(q)
  BY <1>0, <1>2, AppendProperties
<1> HIDE DEF c
<1>4. a \o Append(<<Ten(p)>>, Ten(q)) = Append(a \o <<Ten(p)>>, Ten(q))
  <2>1. <<Ten(p)>> \in Seq(Chars)
    BY <1>0
  <2> QED
    BY <1>0, <1>1, <2>1, AppendBehind
<1>5. c = Two(t, m, p, q)
  BY Zenon DEF Two, a, b, c
<1>6. (t \o <<m>>) \o Append(<<Ten(p)>>, Ten(q)) = c
  BY <1>1, <1>2, <1>4, Zenon DEF c
<1>7. /\ Len(c) = Len(t) + 3 /\ (\A i \in 1 .. Len(t) : c[i] = t[i])
      /\ c[Len(t) + 1] = m /\ c[Len(t) + 2] = Ten(p) /\ c[Len(t) + 3] = Ten(q)
  BY <1>0, <1>1, <1>2, <1>3
<1> QED
  BY <1>3, <1>5, <1>6, <1>7 DEF TwoMore

ThreeMore(w, t, m, p, q, r) ==
    /\ w \in Seq(Chars) /\ Len(w) = Len(t) + 4
    /\ \A i \in 1 .. Len(t) : w[i] = t[i]
    /\ w[Len(t) + 1] = m /\ w[Len(t) + 2] = Ten(p) /\ w[Len(t) + 3] = Ten(q) /\ w[Len(t) + 4] = Ten(r)

(* What the field behind the comma adds.                                   *)
LEMMA ThreeAre ==
    ASSUME NEW t \in Seq(Chars), NEW m \in Chars, NEW p \in 0 .. 9, NEW q \in 0 .. 9, NEW r \in 0 .. 9
    PROVE  /\ (t \o <<m>>) \o Append(Append(<<Ten(p)>>, Ten(q)), Ten(r)) = Three(t, m, p, q, r)
           /\ ThreeMore(Three(t, m, p, q, r), t, m, p, q, r)
<1> DEFINE b == Two(t, m, p, q)
           c == Append(b, Ten(r))
<1>0. Ten(p) \in Chars /\ Ten(q) \in Chars /\ Ten(r) \in Chars /\ Len(t) \in Nat
  BY TensAre
<1>2. /\ b \in Seq(Chars) /\ (t \o <<m>>) \o Append(<<Ten(p)>>, Ten(q)) = b /\ Len(b) = Len(t) + 3
      /\ \A i \in 1 .. Len(t) : b[i] = t[i]
      /\ b[Len(t) + 1] = m /\ b[Len(t) + 2] = Ten(p) /\ b[Len(t) + 3] = Ten(q)
  <2>1. (t \o <<m>>) \o Append(<<Ten(p)>>, Ten(q)) = b /\ TwoMore(b, t, m, p, q)
    BY TwoAre, Zenon
  <2> QED
    BY <2>1 DEF TwoMore
<1> HIDE DEF b
<1>3. /\ c \in Seq(Chars) /\ Len(c) = Len(b) + 1
      /\ \A i \in 1 .. Len(b) : c[i] = b[i]
      /\ c[Len(b) + 1] = Ten(r)
  BY <1>0, <1>2, AppendProperties
<1> HIDE DEF c
<1>4. (t \o <<m>>) \o Append(Append(<<Ten(p)>>, Ten(q)), Ten(r)) = Append(b, Ten(r))
  <2>1. Append(<<Ten(p)>>, Ten(q)) \in Seq(Chars) /\ t \o <<m>> \in Seq(Chars)
    BY <1>0, OneMarkMore
  <2> QED
    BY <1>0, <1>2, <2>1, AppendBehind
<1>5. c = Three(t, m, p, q, r)
  BY Zenon DEF Three, b, c
<1>7. /\ Len(c) = Len(t) + 4 /\ (\A i \in 1 .. Len(t) : c[i] = t[i])
      /\ c[Len(t) + 1] = m /\ c[Len(t) + 2] = Ten(p) /\ c[Len(t) + 3] = Ten(q) /\ c[Len(t) + 4] = Ten(r)
  <2>1. /\ Len(t) + 1 \in 1 .. Len(b) /\ Len(t) + 2 \in 1 .. Len(b) /\ Len(t) + 3 \in 1 .. Len(b)
        /\ Len(b) + 1 = Len(t) + 4 /\ 1 .. Len(t) \subseteq 1 .. Len(b)
    BY <1>0, <1>2
  <2>2. \A i \in 1 .. Len(t) : c[i] = t[i]
    BY <1>2, <1>3, <2>1
  <2>3. /\ c[Len(t) + 1] = b[Len(t) + 1] /\ c[Len(t) + 2] = b[Len(t) + 2] /\ c[Len(t) + 3] = b[Len(t) + 3]
        /\ c[Len(t) + 4] = Ten(r) /\ Len(c) = Len(t) + 4
    BY <1>3, <2>1
  <2> QED
    BY <1>2, <2>2, <2>3
<1> QED
  BY <1>3, <1>4, <1>5, <1>7 DEF c, ThreeMore

(* A field of two digits is read back,                                     *)
LEMMA TwoAreRead ==
    ASSUME NEW t \in Seq(Chars), NEW a \in Int, NEW v \in Int, StampOf(t) = Read(a, v, Text!Second),
           NEW p \in 0 .. 9, NEW q \in 0 .. 9
    PROVE  StampOf(Two(t, Colon, p, q)) = Read(Sixty(a + v), Thousand(Deca(p, q)), Text!Second)
<1>0. Ten(p) \in Chars /\ Ten(q) \in Chars /\ Colon \in Chars
  BY TensAre, MarksAre
<1> DEFINE b == Sixty(a + v)
           n == Deca(p, q)
           c == Append(t, Colon)
           d == Append(c, Ten(p))
<1>1. c \in Seq(Chars) /\ StampOf(c) = Text!StampStep(StampOf(t), Colon)
  BY <1>0, StampGoesOn, AppendProperties
<1>a. b \in Int /\ b = (a + v) * 60 /\ n \in Nat /\ n = 10 * p + q
  BY DEF Sixty, Deca
<1> HIDE DEF b, n
<1>2. Text!StampStep(Read(a, v, Text!Second), Colon) = Read(b, 0, Text!Second)
  <2>1. Text!Second \in Nat
    BY DEF Text!Second
  <2> QED
    BY <1>a, <2>1, ColonIsRead
<1> HIDE DEF c
<1>3. d \in Seq(Chars) /\ StampOf(d) = Text!StampStep(StampOf(c), Ten(p))
  BY <1>0, <1>1, StampGoesOn, AppendProperties
<1>4. Text!StampStep(Read(b, 0, Text!Second), Ten(p)) = Read(b, Thousand(p), Text!Second)
  BY <1>a, FirstIsRead
<1> HIDE DEF d
<1>5. StampOf(Append(d, Ten(q))) = Text!StampStep(StampOf(d), Ten(q))
  BY <1>0, <1>3, StampGoesOn
<1>6. Text!StampStep(Read(b, Thousand(p), Text!Second), Ten(q)) = Read(b, Thousand(n), Text!Second)
  <2>1. b \in Int /\ p \in 0 .. 9 /\ q \in 0 .. 9
    BY <1>a
  <2>2. Text!StampStep(Read(b, Thousand(p), Text!Second), Ten(q)) = Read(b, Thousand(Deca(p, q)), Text!Second)
    BY ONLY <2>1, SecondIsRead, Zenon
  <2> QED
    BY <2>2, Zenon DEF n
<1>7. Two(t, Colon, p, q) = Append(d, Ten(q))
  BY Zenon DEF Two, c, d
<1> QED
  BY <1>1, <1>2, <1>3, <1>4, <1>5, <1>6, <1>7, Zenon DEF b, n

(* and that of three digits.                                               *)
LEMMA ThreeEnd ==
    ASSUME NEW t \in Seq(Chars), NEW a \in Int, NEW v \in Int, Ends(t, a, v, Text!Second),
           NEW p \in 0 .. 9, NEW q \in 0 .. 9, NEW r \in 0 .. 9
    PROVE  Ends(Three(t, Comma, p, q, r), a + v, Milli(p, q, r), 0)
<1>a. StampOf(t) = Read(a, v, Text!Second)
  BY DEF Ends
<1>0. Ten(p) \in Chars /\ Ten(q) \in Chars /\ Ten(r) \in Chars /\ Comma \in Chars
  BY TensAre, MarksAre
<1> DEFINE n == Milli(p, q, r)
           b == a + v
           c == Append(t, Comma)
           d == Append(c, Ten(p))
           e == Append(d, Ten(q))
           k == 100 * p
           l == 100 * p + 10 * q
<1>1. c \in Seq(Chars) /\ StampOf(c) = Text!StampStep(StampOf(t), Comma)
  BY <1>0, StampGoesOn, AppendProperties
<1>2. Text!StampStep(Read(a, v, Text!Second), Comma) = Read(b, 0, Tenth)
  <2>1. Text!Second \in Nat
    BY DEF Text!Second
  <2> QED
    BY <2>1, CommaIsRead
<1> HIDE DEF c
<1>3. d \in Seq(Chars) /\ StampOf(d) = Text!StampStep(StampOf(c), Ten(p))
  BY <1>0, <1>1, StampGoesOn, AppendProperties
<1> HIDE DEF d
<1>4. e \in Seq(Chars) /\ StampOf(e) = Text!StampStep(StampOf(d), Ten(q))
  BY <1>0, <1>3, StampGoesOn, AppendProperties
<1> HIDE DEF e
<1>5. StampOf(Append(e, Ten(r))) = Text!StampStep(StampOf(e), Ten(r))
  BY <1>0, <1>4, StampGoesOn
<1>6. /\ b \in Int /\ n \in Int /\ k \in Int /\ l \in Int /\ k = 0 + 100 * p /\ l = k + 10 * q /\ n = l + 1 * r
      /\ 100 \div 10 = 10 /\ 10 \div 10 = 1 /\ 1 \div 10 = 0
  BY DEF Milli
<1> HIDE DEF b, k, l, n
<1>7. Text!StampStep(Read(b, 0, Tenth), Ten(p)) = Read(b, k, 10)
  <2> DEFINE zero == 0
  <2>1. b \in Int /\ zero \in Int /\ p \in 0 .. 9 /\ k = zero + Tenth * p
    BY <1>6 DEF Tenth
  <2> HIDE DEF zero
  <2>2. Text!StampStep(Read(b, zero, Tenth), Ten(p)) = Read(b, zero + Tenth * p, 10)
    BY ONLY <2>1, TenthIsRead, Zenon
  <2>3. Text!StampStep(Read(b, zero, Tenth), Ten(p)) = Read(b, k, 10)
    BY <2>1, <2>2
  <2> QED
    BY <2>3 DEF zero
<1>8. Text!StampStep(Read(b, k, 10), Ten(q)) = Read(b, l, 1)
  <2>1. b \in Int /\ k \in Int /\ q \in 0 .. 9
    BY <1>6
  <2>2. Text!StampStep(Read(b, k, 10), Ten(q)) = Read(b, k + 10 * q, 1)
    BY ONLY <2>1, HundredthIsRead, Zenon
  <2> QED
    BY <1>6, <2>2
<1>9. Text!StampStep(Read(b, l, 1), Ten(r)) = Read(b, n, 0)
  <2>1. b \in Int /\ l \in Int /\ r \in 0 .. 9
    BY <1>6
  <2>2. Text!StampStep(Read(b, l, 1), Ten(r)) = Read(b, l + 1 * r, 0)
    BY ONLY <2>1, ThousandthIsRead, Zenon
  <2> QED
    BY <1>6, <2>2
<1>10. Three(t, Comma, p, q, r) = Append(e, Ten(r))
  BY Zenon DEF Three, Two, c, d, e
<1>11. StampOf(Three(t, Comma, p, q, r)) = Read(b, n, 0)
  BY <1>a, <1>1, <1>2, <1>3, <1>4, <1>5, <1>7, <1>8, <1>9, <1>10
<1> QED
  BY <1>11 DEF b, n, Ends

(* The same of what a text ends as.                                        *)
LEMMA TwoEnd ==
    ASSUME NEW t \in Seq(Chars), NEW a \in Int, NEW v \in Int, Ends(t, a, v, Text!Second),
           NEW p \in 0 .. 9, NEW q \in 0 .. 9
    PROVE  Ends(Two(t, Colon, p, q), Sixty(a + v), Thousand(Deca(p, q)), Text!Second)
BY TwoAreRead DEF Ends

(* The digits of a field.                                                  *)
LEMMA TwoParts == \A v \in 0 .. 99 : \E p, q \in 0 .. 9 : v = Deca(p, q)
<1> SUFFICES ASSUME NEW v \in 0 .. 99 PROVE \E p, q \in 0 .. 9 : v = Deca(p, q)
  OBVIOUS
<1> DEFINE p == v \div 10
           q == v % 10
<1>1. v = Deca(p, q) /\ v = 10 * p + q /\ q \in 0 .. 9
  BY DEF Deca
<1>2. p \in 0 .. 9
  BY <1>1
<1> HIDE DEF p, q
<1> QED
  BY <1>1, <1>2

LEMMA SixtyParts == \A v \in 0 .. 59 : \E p, q \in 0 .. 9 : v = Deca(p, q)
<1>1. \A v \in 0 .. 59 : v \in 0 .. 99
  OBVIOUS
<1> QED
  BY <1>1, TwoParts, Zenon

Millis == {n \in Nat : n < 1000}

LEMMA ThreeParts == \A v \in Millis : \E p, q, r \in 0 .. 9 : v = Milli(p, q, r)
<1> SUFFICES ASSUME NEW v \in Millis PROVE \E p, q, r \in 0 .. 9 : v = Milli(p, q, r)
  OBVIOUS
<1> DEFINE m == v \div 10
           r == v % 10
<1>1. v = 10 * m + r /\ r \in 0 .. 9 /\ v \in Nat
  BY DEF Millis
<1>2. m \in 0 .. 99
  BY <1>1 DEF Millis
<1> HIDE DEF m, r
<1>3. PICK p \in 0 .. 9, q \in 0 .. 9 : m = Deca(p, q)
  BY <1>2, TwoParts
<1>4. v = Milli(p, q, r)
  BY <1>1, <1>3 DEF Milli, Deca
<1> QED
  BY <1>1, <1>4

Hour(s)    == s \div 3600
Secs(h, r) == 3600 * h + r
InHour     == {n \in Nat : n < 3600}

Minute(s) == (s \div 60) % 60
Rest(s)   == s % 60

Clock(h, n, w) == 3600 * h + 60 * n + w

(* Hours, minutes and seconds are those of the time.                       *)
LEMMA HourIs == \A h \in Nat, r \in InHour : Hour(Secs(h, r)) = h
BY DEF Hour, Secs, InHour

LEMMA ClockIs ==
    ASSUME NEW s \in Nat
    PROVE  /\ Hour(s) \in Nat /\ Minute(s) \in 0 .. 59 /\ Rest(s) \in 0 .. 59
           /\ s = Clock(Hour(s), Minute(s), Rest(s))
           /\ \E r \in InHour : s = Secs(Hour(s), r)
<1> DEFINE m == s \div 60
           w == s % 60
           h == m \div 60
           n == m % 60
<1>1. s = 60 * m + w /\ w \in 0 .. 59 /\ m \in Nat
  OBVIOUS
<1>2. m = 60 * h + n /\ n \in 0 .. 59 /\ h \in Nat
  OBVIOUS
<1>3. Hour(s) = h /\ \E k \in InHour : s = Secs(h, k)
  <2> DEFINE r == 60 * n + w
  <2>1. s = Secs(h, r) /\ r \in InHour /\ h \in Nat
    BY <1>1, <1>2 DEF Secs, InHour
  <2> HIDE DEF m, w, h, n, r
  <2> QED
    BY <2>1, HourIs, Zenon
<1> HIDE DEF m, w, h, n
<1>4. s = Clock(h, n, w)
  BY <1>1, <1>2 DEF Clock
<1>5. Minute(s) = n /\ Rest(s) = w
  BY Zenon DEF Minute, Rest, m, n, w
<1> QED
  BY <1>1, <1>2, <1>3, <1>4, <1>5, Zenon

(* What is written for a number of seconds and of milliseconds.            *)
Stamp(s, ms) ==
    (((((Text!intToString(Hour(s), 1, 10) \o <<Colon>>) \o Text!intToString(Minute(s), 2, 10))
           \o <<Colon>>) \o Text!intToString(Rest(s), 2, 10)) \o <<Comma>>) \o Text!intToString(ms, 3, 10)

(* The hours come first, in as many digits as they need.                   *)
LEMMA HoursAreFirst == ASSUME NEW n \in Nat PROVE Text!intToString(n, 1, 10) = Hours(n)
<1>1. 10 \in 2 .. 16 /\ 1 \in Nat
  OBVIOUS
<1>2. Hours(n) \in Seq(Chars) /\ Len(Hours(n)) \in Nat \ {0}
  BY <1>1, Written DEF Hours
<1>3. Text!intToString(n, 1, 10) = Zeros(1 - Len(Hours(n))) \o Hours(n)
  BY <1>1, PaddedIs DEF Hours
<1>4. 1 - Len(Hours(n)) \in Int /\ 1 - Len(Hours(n)) <= 0
  BY <1>2
<1>5. Zeros(1 - Len(Hours(n))) = <<>>
  BY <1>4, ZerosAre
<1>6. <<>> \o Hours(n) = Hours(n)
  BY <1>2, ConcatEmptySeq
<1> QED
  BY <1>3, <1>5, <1>6

(* A time stamp is made of those fields.                                   *)
LEMMA StampIs ==
    ASSUME NEW s \in Nat, NEW ms \in Millis
    PROVE  \E p, q, u, v, a, b, c \in 0 .. 9 :
              /\ Minute(s) = Deca(p, q) /\ Rest(s) = Deca(u, v) /\ ms = Milli(a, b, c)
              /\ Stamp(s, ms) = Three(Two(Two(Hours(Hour(s)), Colon, p, q), Colon, u, v), Comma, a, b, c)
<1>0. Hour(s) \in Nat /\ Minute(s) \in 0 .. 59 /\ Rest(s) \in 0 .. 59
  BY ClockIs, Zenon
<1>1. PICK p \in 0 .. 9, q \in 0 .. 9 : Minute(s) = Deca(p, q)
  BY <1>0, SixtyParts, Zenon
<1>2. PICK u \in 0 .. 9, v \in 0 .. 9 : Rest(s) = Deca(u, v)
  BY <1>0, SixtyParts, Zenon
<1>3. PICK a \in 0 .. 9, b \in 0 .. 9, c \in 0 .. 9 : ms = Milli(a, b, c)
  BY ThreeParts, Zenon
<1> DEFINE t0 == Hours(Hour(s))
           t1 == Two(t0, Colon, p, q)
           t2 == Two(t1, Colon, u, v)
<1>4. /\ Text!intToString(Deca(p, q), 2, 10) = Append(<<Ten(p)>>, Ten(q))
      /\ Text!intToString(Deca(u, v), 2, 10) = Append(<<Ten(u)>>, Ten(v))
      /\ Text!intToString(Milli(a, b, c), 3, 10) = Append(Append(<<Ten(a)>>, Ten(b)), Ten(c))
  <2>1. p \in 0 .. 9 /\ q \in 0 .. 9 /\ u \in 0 .. 9 /\ v \in 0 .. 9
    BY <1>1, <1>2
  <2>2. a \in 0 .. 9 /\ b \in 0 .. 9 /\ c \in 0 .. 9
    BY <1>3
  <2>3. Text!intToString(Deca(p, q), 2, 10) = Append(<<Ten(p)>>, Ten(q))
    BY ONLY <2>1, TwoDigits, Zenon
  <2>4. Text!intToString(Deca(u, v), 2, 10) = Append(<<Ten(u)>>, Ten(v))
    BY ONLY <2>1, TwoDigits, Zenon
  <2>5. Text!intToString(Milli(a, b, c), 3, 10) = Append(Append(<<Ten(a)>>, Ten(b)), Ten(c))
    BY ONLY <2>2, ThreeDigits, Zenon
  <2> QED
    BY <2>3, <2>4, <2>5, Zenon
<1>6. Text!intToString(Hour(s), 1, 10) = t0 /\ t0 \in Seq(Chars)
  BY <1>0, HoursAreFirst, HoursAreRead
<1> HIDE DEF t0
<1>7. (t0 \o <<Colon>>) \o Append(<<Ten(p)>>, Ten(q)) = t1 /\ t1 \in Seq(Chars)
  <2>1. (t0 \o <<Colon>>) \o Append(<<Ten(p)>>, Ten(q)) = t1 /\ TwoMore(t1, t0, Colon, p, q)
    <3>1. t0 \in Seq(Chars)
      BY <1>6
    <3> QED
      BY <3>1, TwoAre, MarksAre, Zenon
  <2> QED
    BY <2>1 DEF TwoMore
<1> HIDE DEF t1
<1>8. (t1 \o <<Colon>>) \o Append(<<Ten(u)>>, Ten(v)) = t2 /\ t2 \in Seq(Chars)
  <2>1. (t1 \o <<Colon>>) \o Append(<<Ten(u)>>, Ten(v)) = t2 /\ TwoMore(t2, t1, Colon, u, v)
    <3>1. t1 \in Seq(Chars)
      BY <1>7
    <3> QED
      BY <3>1, TwoAre, MarksAre, Zenon
  <2> QED
    BY <2>1 DEF TwoMore
<1> HIDE DEF t2
<1>9. (t2 \o <<Comma>>) \o Append(Append(<<Ten(a)>>, Ten(b)), Ten(c)) = Three(t2, Comma, a, b, c)
  <2>1. t2 \in Seq(Chars)
    BY <1>8
  <2> DEFINE t3 == Three(t2, Comma, a, b, c)
  <2>2. (t2 \o <<Comma>>) \o Append(Append(<<Ten(a)>>, Ten(b)), Ten(c)) = t3 /\ ThreeMore(t3, t2, Comma, a, b, c)
    BY <2>1, ThreeAre, MarksAre, Zenon
  <2> QED
    BY <2>2, Zenon
<1>10. Stamp(s, ms) = Three(t2, Comma, a, b, c)
  BY <1>1, <1>2, <1>3, <1>4, <1>6, <1>7, <1>8, <1>9, Zenon DEF Stamp
<1> QED
  BY <1>1, <1>2, <1>3, <1>10, Zenon DEF t0, t1, t2

(* A time stamp is read as the time it was written for.                    *)
LEMMA StampReadBack ==
    ASSUME NEW s \in Nat, NEW ms \in Millis
    PROVE  /\ Stamp(s, ms) \in Seq(Chars)
           /\ Text!strToTimestamp(Stamp(s, ms)) = Thousand(s) + ms
<1>0. Hour(s) \in Nat /\ Minute(s) \in 0 .. 59 /\ Rest(s) \in 0 .. 59 /\ s = Clock(Hour(s), Minute(s), Rest(s))
  BY ClockIs, Zenon
<1>1. PICK p, q, u, v, a, b, c \in 0 .. 9 :
              /\ Minute(s) = Deca(p, q) /\ Rest(s) = Deca(u, v) /\ ms = Milli(a, b, c)
              /\ Stamp(s, ms) = Three(Two(Two(Hours(Hour(s)), Colon, p, q), Colon, u, v), Comma, a, b, c)
  BY StampIs, Zenon
<1> DEFINE h == Hour(s)
           n == Minute(s)
           w == Rest(s)
           t0 == Hours(h)
           t1 == Two(t0, Colon, p, q)
           t2 == Two(t1, Colon, u, v)
           z == 0
           b1 == Sixty(z + Thousand(h))
           b2 == Sixty(b1 + Thousand(n))
<1>2. /\ h \in Nat /\ n \in Nat /\ w \in Nat /\ n = Deca(p, q) /\ w = Deca(u, v) /\ s = Clock(h, n, w)
      /\ ms = Milli(a, b, c) /\ ms \in Nat
  BY <1>0, <1>1 DEF Millis
<1>3. Stamp(s, ms) = Three(t2, Comma, a, b, c)
  BY <1>1, Zenon
<1> HIDE DEF h, n, w
<1>4. Thousand(h) \in Int /\ Thousand(n) \in Int /\ Thousand(w) \in Int
  BY <1>2 DEF Thousand
<1>5. b1 \in Int /\ b2 \in Int /\ b2 + Thousand(w) + ms = Thousand(s) + ms /\ b2 + Thousand(w) \in Int /\ z \in Int
  BY <1>2 DEF Thousand, Sixty, Clock
<1>6. t0 \in Seq(Chars) /\ StampOf(t0) = Read(z, Thousand(h), Text!Second)
  <2>1. h \in Nat
    BY <1>2
  <2> QED
    BY <2>1, HoursAreRead, Zenon
<1> HIDE DEF t0
<1>7. t1 \in Seq(Chars)
  BY <1>6, TwoAre, MarksAre, Zenon DEF TwoMore
<1>16. Thousand(n) = Thousand(Deca(p, q)) /\ Thousand(w) = Thousand(Deca(u, v)) /\ ms = Milli(a, b, c)
  BY <1>2
<1>8. Ends(t1, b1, Thousand(n), Text!Second)
  <2> HIDE DEF z
  <2>1. Ends(t0, z, Thousand(h), Text!Second)
    BY <1>6 DEF Ends
  <2>2. Ends(t1, b1, Thousand(Deca(p, q)), Text!Second)
    <3>1. t0 \in Seq(Chars) /\ z \in Int /\ Thousand(h) \in Int
      BY <1>4, <1>5, <1>6
    <3>2. Ends(Two(t0, Colon, p, q), Sixty(z + Thousand(h)), Thousand(Deca(p, q)), Text!Second)
      BY <2>1, <3>1, TwoEnd, Zenon
    <3> QED
      BY <3>2
  <2> QED
    BY <1>16, <2>2
<1> HIDE DEF t1
<1>9. t2 \in Seq(Chars)
  BY <1>7, TwoAre, MarksAre, Zenon DEF TwoMore
<1>10. Ends(t2, b2, Thousand(w), Text!Second)
  <2> HIDE DEF b1
  <2>2. Ends(t2, b2, Thousand(Deca(u, v)), Text!Second)
    <3>1. t1 \in Seq(Chars) /\ b1 \in Int /\ Thousand(n) \in Int
      BY <1>4, <1>5, <1>7
    <3>2. Ends(Two(t1, Colon, u, v), Sixty(b1 + Thousand(n)), Thousand(Deca(u, v)), Text!Second)
      BY <1>8, <3>1, TwoEnd, Zenon
    <3> QED
      BY <3>2
  <2> QED
    BY <1>16, <2>2
<1> HIDE DEF t2, b1, b2
<1>11. StampOf(Three(t2, Comma, a, b, c)) = Read(b2 + Thousand(w), ms, 0)
  <2>2. Ends(Three(t2, Comma, a, b, c), b2 + Thousand(w), Milli(a, b, c), 0)
    <3>1. t2 \in Seq(Chars) /\ b2 \in Int /\ Thousand(w) \in Int
      BY <1>4, <1>5, <1>9
    <3> QED
      BY <1>10, <3>1, ThreeEnd, Zenon
  <2> QED
    BY <1>16, <2>2 DEF Ends
<1>12. Three(t2, Comma, a, b, c) \in Seq(Chars)
  BY <1>9, ThreeAre, MarksAre, Zenon DEF ThreeMore
<1>13. \A t : Text!strToTimestamp(t) = IF StampOf(t).bad THEN Text!TimeError ELSE StampOf(t).acc + StampOf(t).x
  BY Zenon DEF Text!strToTimestamp, StampOf, Text!After, NoStamp
<1>14. LET r == Read(b2 + Thousand(w), ms, 0) IN ~r.bad /\ r.acc = b2 + Thousand(w) /\ r.x = ms
  BY DEF Read
<1>15. Text!strToTimestamp(Three(t2, Comma, a, b, c)) = b2 + Thousand(w) + ms
  BY <1>11, <1>13, <1>14
<1> QED
  BY <1>3, <1>5, <1>12, <1>15

(* It is a time stamp for strIsTimestamp when the hours have two digits.   *)
IsStamp(t) ==
    /\ Len(t) = 12
    /\ t[3] = Colon /\ t[6] = Colon /\ t[9] = Comma
    /\ \A i \in {1, 2, 4, 5, 7, 8, 10, 11, 12} : IsDigit(t[i])

(* In the words of strIsTimestamp.                                         *)
LEMMA StampsAre ==
    ASSUME NEW t
    PROVE  Text!strIsTimestamp(t) <=> IsStamp(t)
<1>1. ASSUME NEW i \in 1 .. 12
      PROVE  (CASE i \in {3, 6} -> t[i] = ":" [] i = 9 -> t[i] = "," [] OTHER -> t[i] \in Text!Digit)
               <=> /\ i \in {3, 6} => t[i] = Colon
                   /\ i = 9 => t[i] = Comma
                   /\ i \notin {3, 6, 9} => IsDigit(t[i])
  <2>1. CASE i \in {3, 6}
    <3>1. i # 9
      BY <2>1
    <3> QED
      BY <2>1, <3>1, Zenon DEF Colon
  <2>2. CASE i = 9
    <3>1. i \notin {3, 6}
      BY <2>2
    <3> QED
      BY <2>2, <3>1, Zenon DEF Comma
  <2>3. CASE i \notin {3, 6} /\ i # 9
    <3>1. i \notin {3, 6, 9}
      BY <2>3
    <3> QED
      BY <2>3, <3>1, Zenon DEF IsDigit
  <2> QED
    BY <2>1, <2>2, <2>3
<1>2. Text!strIsTimestamp(t) <=> /\ Len(t) = 12
                                 /\ \A i \in 1 .. 12 : /\ i \in {3, 6} => t[i] = Colon
                                                       /\ i = 9 => t[i] = Comma
                                                       /\ i \notin {3, 6, 9} => IsDigit(t[i])
  BY <1>1, Zenon DEF Text!strIsTimestamp
<1>3. (\A i \in 1 .. 12 : /\ i \in {3, 6} => t[i] = Colon
                          /\ i = 9 => t[i] = Comma
                          /\ i \notin {3, 6, 9} => IsDigit(t[i]))
        <=> /\ t[3] = Colon /\ t[6] = Colon /\ t[9] = Comma
            /\ \A i \in {1, 2, 4, 5, 7, 8, 10, 11, 12} : IsDigit(t[i])
  <2>1. /\ \A i \in 1 .. 12 : i \in {3, 6, 9} \/ i \in {1, 2, 4, 5, 7, 8, 10, 11, 12}
        /\ \A i \in {1, 2, 4, 5, 7, 8, 10, 11, 12} : i \in 1 .. 12 /\ i \notin {3, 6, 9}
        /\ 3 \in 1 .. 12 /\ 6 \in 1 .. 12 /\ 9 \in 1 .. 12
    OBVIOUS
  <2> QED
    BY <2>1
<1> QED
  BY <1>2, <1>3, Zenon DEF IsStamp

(* The character that is added is the last one.                            *)
LEMMA LastIsAdded ==
    ASSUME NEW t \in Seq(Chars), NEW c \in Chars
    PROVE  (\A i \in 1 .. Len(t) : Append(t, c)[i] = t[i]) /\ Append(t, c)[Len(t) + 1] = c
OBVIOUS

(* The fields behind the hours always have their length.                   *)
LEMMA StampIsOne ==
    ASSUME NEW s \in Nat, NEW ms \in Millis
    PROVE  Text!strIsTimestamp(Stamp(s, ms)) <=> Hour(s) \in 10 .. 99
<1>0. Hour(s) \in Nat
  BY ClockIs, Zenon
<1>1. PICK p, q, u, v, a, b, c \in 0 .. 9 :
              /\ Minute(s) = Deca(p, q) /\ Rest(s) = Deca(u, v) /\ ms = Milli(a, b, c)
              /\ Stamp(s, ms) = Three(Two(Two(Hours(Hour(s)), Colon, p, q), Colon, u, v), Comma, a, b, c)
  BY StampIs, Zenon
<1> DEFINE t0 == Hours(Hour(s))
           t1 == Two(t0, Colon, p, q)
           t2 == Two(t1, Colon, u, v)
           t3 == Three(t2, Comma, a, b, c)
<1>2. Stamp(s, ms) = t3
  BY <1>1, Zenon
<1>3. t0 \in Seq(Chars) /\ (Len(t0) = 2 <=> Hour(s) \in 10 .. 99) /\ Len(t0) \in Nat
  <2>1. t0 \in Seq(Chars)
    BY <1>0, HoursAreRead, Zenon
  <2>2. Len(t0) = 2 <=> Hour(s) \in 10 .. 99
    BY <1>0, HoursHaveTwo, Zenon
  <2> HIDE DEF t0
  <2> QED
    BY <2>1, <2>2
<1>a. \E n \in Nat : t0 = Hours(n)
  BY <1>0, Zenon
<1> HIDE DEF t0
<1>4. TwoMore(t1, t0, Colon, p, q)
  BY <1>3, TwoAre, MarksAre, Zenon
<1> HIDE DEF t1
<1>5. TwoMore(t2, t1, Colon, u, v)
  <2>1. t1 \in Seq(Chars)
    BY <1>4, Zenon DEF TwoMore
  <2> QED
    BY <2>1, TwoAre, MarksAre, Zenon
<1> HIDE DEF t2
<1>6. ThreeMore(t3, t2, Comma, a, b, c)
  <2>1. t2 \in Seq(Chars)
    BY <1>5, Zenon DEF TwoMore
  <2> QED
    BY <2>1, ThreeAre, MarksAre, Zenon
<1> HIDE DEF t3
<1>7. Len(t3) = Len(t0) + 10
  BY <1>3, <1>4, <1>5, <1>6 DEF TwoMore, ThreeMore
<1>8. ASSUME Len(t0) = 2 PROVE IsStamp(t3)
  <2>1. /\ Len(t1) = 5 /\ t1[1] = t0[1] /\ t1[2] = t0[2] /\ t1[3] = Colon /\ t1[4] = Ten(p) /\ t1[5] = Ten(q)
    BY <1>4, <1>8 DEF TwoMore
  <2>2. /\ Len(t2) = 8 /\ \A i \in 1 .. 5 : t2[i] = t1[i]
        /\ t2[6] = Colon /\ t2[7] = Ten(u) /\ t2[8] = Ten(v)
    BY <1>5, <2>1 DEF TwoMore
  <2>3. /\ Len(t3) = 12 /\ \A i \in 1 .. 8 : t3[i] = t2[i]
        /\ t3[9] = Comma /\ t3[10] = Ten(a) /\ t3[11] = Ten(b) /\ t3[12] = Ten(c)
    BY <1>6, <2>2 DEF ThreeMore
  <2>4. /\ t3[1] = t0[1] /\ t3[2] = t0[2] /\ t3[3] = Colon /\ t3[4] = Ten(p) /\ t3[5] = Ten(q)
        /\ t3[6] = Colon /\ t3[7] = Ten(u) /\ t3[8] = Ten(v)
    BY <2>1, <2>2, <2>3
  <2>5. \A n \in 0 .. 9 : IsDigit(Ten(n))
    BY TensAre DEF IsDigit
  <2>6. IsDigit(t0[1]) /\ IsDigit(t0[2])
    <3>1. PICK n \in Nat : t0 = Hours(n)
      BY <1>a
    <3>2. n \in 10 .. 99
      BY <1>8, <3>1, HoursHaveTwo
    <3>3. PICK d, e \in 0 .. 9 : t0 = Append(Append(<<>>, Ten(d)), Ten(e))
      <4>1. /\ Hours(n) = Append(Hours(n \div 10), Ten(n % 10))
            /\ n \div 10 \in 1 .. n - 1 /\ n % 10 \in 0 .. 9 /\ n = 10 * (n \div 10) + (n % 10)
        <5>1. n \in Nat /\ n >= 10
          BY <3>2
        <5> QED
          BY <5>1, HoursAre, Zenon
      <4>2. n \div 10 \in 0 .. 9 /\ n \div 10 \in Nat /\ n \div 10 < 10
        BY <3>2, <4>1
      <4>3. Hours(n \div 10) = Append(<<>>, Ten(n \div 10))
        BY <4>2, HoursAre
      <4> QED
        BY <3>1, <4>1, <4>2, <4>3, Zenon
    <3>4. t0[1] = Ten(d) /\ t0[2] = Ten(e)
      <4>1. Ten(d) \in Chars /\ Ten(e) \in Chars
        BY TensAre
      <4> DEFINE f == Append(<<>>, Ten(d))
      <4>2. f \in Seq(Chars) /\ Len(f) = 1 /\ f[1] = Ten(d)
        BY <4>1
      <4> HIDE DEF f
      <4>3. Append(f, Ten(e))[1] = f[1] /\ Append(f, Ten(e))[2] = Ten(e)
        <5>1. (\A i \in 1 .. Len(f) : Append(f, Ten(e))[i] = f[i]) /\ Append(f, Ten(e))[Len(f) + 1] = Ten(e)
          BY <4>1, <4>2, LastIsAdded, Zenon
        <5>2. 1 \in 1 .. Len(f) /\ Len(f) + 1 = 2
          BY <4>2
        <5> QED
          BY <5>1, <5>2
      <4> QED
        BY <3>3, <4>2, <4>3 DEF f
    <3> QED
      BY <2>5, <3>4
  <2> QED
    BY <2>3, <2>4, <2>5, <2>6 DEF IsStamp
<1>9. IsStamp(t3) => Len(t0) = 2
  <2>1. IsStamp(t3) => Len(t3) = 12
    BY Zenon DEF IsStamp
  <2>2. Len(t3) = Len(t0) + 10
    BY <1>7
  <2>3. Len(t0) \in Nat
    BY <1>3
  <2>4. ASSUME IsStamp(t3) PROVE Len(t0) = 2
    <3> DEFINE l == Len(t0)
    <3>1. l + 10 = 12 /\ l \in Nat
      BY <2>1, <2>2, <2>3, <2>4
    <3> HIDE DEF l
    <3>2. l = 2
      BY <3>1
    <3> QED
      BY <3>2 DEF l
  <2> QED
    BY <2>4
<1> QED
  BY <1>2, <1>3, <1>8, <1>9, StampsAre

Sign(t)  == IF t < 0 THEN <<"-">> ELSE <<>>
Away(t)  == IF t < 0 THEN -t ELSE t

(* What is written behind a sign.                                          *)
StampBehind(u, s, ms) ==
    ((((((u \o Text!intToString(Hour(s), 1, 10)) \o <<Colon>>) \o Text!intToString(Minute(s), 2, 10))
           \o <<Colon>>) \o Text!intToString(Rest(s), 2, 10)) \o <<Comma>>) \o Text!intToString(ms, 3, 10)

(* timestampToString writes one, with no more milliseconds than there are. *)
LEMMA StampIsWritten ==
    ASSUME NEW t \in Int, NEW w \in Text!timestampToString(t)
    PROVE  \E ms \in 0 .. Away(t) % Text!Second : w = StampBehind(Sign(t), Away(t) \div Text!Second, ms)
<1> DEFINE d == Away(t)
           s == d \div Text!Second
           T(ms) == StampBehind(Sign(t), s, ms)
<1>1. Text!timestampToString(t) = {T(d % Text!Second)} \cup
                                  (IF d % Text!Second = 0 THEN {} ELSE {T((d % Text!Second) - 1)})
  BY Zenon DEF Text!timestampToString, StampBehind, Sign, Away, Hour, Minute, Rest, Colon, Comma
<1>2. d \in Nat /\ d % Text!Second \in Nat
  BY DEF Away, Text!Second
<1> HIDE DEF T, d
<1>3. w = T(d % Text!Second) \/ (d % Text!Second # 0 /\ w = T((d % Text!Second) - 1))
  BY <1>1
<1>4. d % Text!Second \in 0 .. d % Text!Second
      /\ (d % Text!Second # 0 => (d % Text!Second) - 1 \in 0 .. d % Text!Second)
  BY <1>2
<1> QED
  BY <1>3, <1>4 DEF T, d

(* It consists of characters; that of a time from 0 on has no sign.        *)
LEMMA StampIsBehind ==
    ASSUME NEW u \in Seq(Chars), NEW s \in Nat, NEW ms \in Millis
    PROVE  StampBehind(u, s, ms) \in Seq(Chars) /\ StampBehind(<<>>, s, ms) = Stamp(s, ms)
<1> DEFINE a == Text!intToString(Hour(s), 1, 10)
           b == Text!intToString(Minute(s), 2, 10)
           c == Text!intToString(Rest(s), 2, 10)
           d == Text!intToString(ms, 3, 10)
<1>0. Hour(s) \in Nat /\ Minute(s) \in Nat /\ Rest(s) \in Nat /\ ms \in Nat
  <2>1. Hour(s) \in Nat /\ Minute(s) \in 0 .. 59 /\ Rest(s) \in 0 .. 59
    BY ClockIs, Zenon
  <2>2. ms \in Nat
    BY Zenon DEF Millis
  <2>3. \A n \in 0 .. 59 : n \in Nat
    OBVIOUS
  <2> QED
    BY <2>1, <2>2, <2>3, Zenon
<1>1. a \in Seq(Chars) /\ b \in Seq(Chars) /\ c \in Seq(Chars) /\ d \in Seq(Chars)
  <2>1. 10 \in 2 .. 16 /\ 1 \in Nat /\ 2 \in Nat /\ 3 \in Nat
    OBVIOUS
  <2> QED
    BY <1>0, <2>1, PaddedIs
<1>2. <<Colon>> \in Seq(Chars) /\ <<Comma>> \in Seq(Chars)
  BY MarksAre
<1> HIDE DEF a, b, c, d
<1>3. <<>> \o a = a
  BY <1>1, ConcatEmptySeq
<1>4. (((((((u \o a) \o <<Colon>>) \o b) \o <<Colon>>) \o c) \o <<Comma>>) \o d) \in Seq(Chars)
  <2>1. \A v, w \in Seq(Chars) : v \o w \in Seq(Chars)
    OBVIOUS
  <2>2. u \o a \in Seq(Chars)
    BY <1>1, <2>1
  <2>3. ((u \o a) \o <<Colon>>) \o b \in Seq(Chars)
    BY <1>1, <1>2, <2>1, <2>2
  <2>4. ((((u \o a) \o <<Colon>>) \o b) \o <<Colon>>) \o c \in Seq(Chars)
    BY <1>1, <1>2, <2>1, <2>3
  <2> QED
    BY <1>1, <1>2, <2>1, <2>4
<1> QED
  BY <1>3, <1>4, Zenon DEF StampBehind, Stamp, a, b, c, d

(* Whatever the text, what is read is a number of milliseconds.            *)
LEMMA TimeIsRead == ASSUME NEW t \in Seq(Chars) PROVE Text!strToTimestamp(t) \in Int
<1>1. Text!strToTimestamp(t) = IF StampOf(t).bad THEN Text!TimeError ELSE StampOf(t).acc + StampOf(t).x
  BY Zenon DEF Text!strToTimestamp, StampOf, Text!After, NoStamp
<1>2. \E c : c \in Chars
  BY Zenon DEF Chars
<1>3. StampOf(t) \in Stamped
  BY <1>2, StampGoesOn
<1>4. StampOf(t).acc \in Int /\ StampOf(t).x \in Int /\ Text!TimeError \in Int
  BY <1>3 DEF Stamped, Text!TimeError, Text!Second
<1> QED
  BY <1>1, <1>4

----------------------------------------------------------------------------
(* What is written again and again starts with the same second.            *)
SecondOf(n)   == n \div Text!Second
Within(n)     == n % Text!Second
KeepsSecond ==
    /\ time \in SecondOf(first) * Text!Second .. first
    /\ text = <<>> \/ \E ms \in 0 .. Within(first) : text = Stamp(SecondOf(first), ms)

StringsTyped ==
    /\ alphabet \subseteq Chars /\ text \in Seq(Chars)
    /\ time \in Int /\ first \in Int

StringsInv ==
    part = "strings" => /\ StringsTyped
                        /\ alphabet = {} /\ first >= 0 => KeepsSecond

(* A time is its seconds and milliseconds.                                 *)
Parted(n) == /\ SecondOf(n) \in Nat /\ Within(n) \in Millis
             /\ n = Thousand(SecondOf(n)) + Within(n)

LEMMA SecondsAre == ASSUME NEW n \in Nat PROVE Parted(n)
BY DEF Parted, SecondOf, Within, Text!Second, Millis, Thousand

(* A time stamp is read back, and known by its hours.                      *)
GoodStamp(s, ms) ==
    /\ Stamp(s, ms) \in Seq(Chars)
    /\ Text!strToTimestamp(Stamp(s, ms)) = Thousand(s) + ms
    /\ Text!strIsTimestamp(Stamp(s, ms)) <=> Hour(s) \in 10 .. 99

LEMMA StampsAreGood == ASSUME NEW s \in Nat, NEW ms \in Millis PROVE GoodStamp(s, ms)
BY StampReadBack, StampIsOne, Zenon DEF GoodStamp

(* A time of the same second is written with no more milliseconds.         *)
LEMMA SameSecond ==
    ASSUME NEW n \in Nat, NEW m \in SecondOf(n) * Text!Second .. n
    PROVE  m \in Nat /\ SecondOf(m) = SecondOf(n) /\ Within(m) \in 0 .. Within(n)
<1>1. SecondOf(n) \in Nat /\ Within(n) \in Millis /\ n = Thousand(SecondOf(n)) + Within(n)
  BY SecondsAre, Zenon DEF Parted
<1>2. m \in Nat
  BY <1>1 DEF Millis, Text!Second
<1>3. SecondOf(m) \in Nat /\ Within(m) \in Millis /\ m = Thousand(SecondOf(m)) + Within(m)
  BY <1>2, SecondsAre DEF Parted
<1> DEFINE a == SecondOf(n)
           b == Within(n)
           c == SecondOf(m)
           d == Within(m)
<1>4. /\ a \in Nat /\ b \in Millis /\ n = Thousand(a) + b /\ c \in Nat /\ d \in Millis /\ m = Thousand(c) + d
      /\ Thousand(a) <= m /\ m <= n
  BY <1>1, <1>2, <1>3 DEF Millis, Thousand, Text!Second
<1> HIDE DEF a, b, c, d
<1>5. c = a /\ d <= b /\ d \in Nat /\ b \in Nat
  BY <1>4 DEF Millis, Thousand
<1> QED
  BY <1>2, <1>4, <1>5 DEF a, b, c, d

(* At first nothing is written, and the time is the first one.             *)
LEMMA StringsStart == WorkInit => StringsInv
<1> SUFFICES ASSUME WorkInit, part = "strings" PROVE StringsTyped /\ (alphabet = {} /\ first >= 0 => KeepsSecond)
  BY DEF StringsInv
<1>1. Text!Init
  BY Zenon DEF WorkInit
<1>2. /\ text = <<>> /\ first = time
      /\ \/ alphabet \in Alphabets /\ time = Text!NoTime
         \/ alphabet = {} /\ time \in Times
  BY <1>1, Zenon DEF Text!Init
<1>3. alphabet \subseteq Chars
  BY <1>2, StringsAssumption, Zenon DEF StringsAssumption, Chars
<1>4. time \in Int
  <2>1. Times \subseteq Int
    BY StringsAssumption, Zenon DEF StringsAssumption
  <2>2. Text!NoTime \in Int
    BY DEF Text!NoTime, Text!TimeError, Text!Second
  <2> QED
    BY <1>2, <2>1, <2>2
<1>5. text \in Seq(Chars)
  BY <1>2
<1>6. ASSUME first >= 0 PROVE KeepsSecond
  <2>1. first \in Nat
    BY <1>2, <1>4, <1>6
  <2>2. first \in SecondOf(first) * Text!Second .. first
    <3>1. Parted(first)
      BY <2>1, SecondsAre, Zenon
    <3> DEFINE k == SecondOf(first)
    <3>2. k \in Nat /\ first >= Thousand(k)
      BY <3>1 DEF Parted, Millis, Thousand
    <3> HIDE DEF k
    <3>3. first \in k * Text!Second .. first
      BY <2>1, <3>2 DEF Thousand, Text!Second
    <3> QED
      BY <3>3 DEF k
  <2> QED
    BY <1>2, <2>2 DEF KeepsSecond
<1> QED
  BY <1>2, <1>3, <1>4, <1>5, <1>6 DEF StringsTyped

(* Other parts leave texts alone.                                          *)
LEMMA StringsKept == StringsInv /\ UNCHANGED <<part, stringVars>> => StringsInv'
BY DEF StringsInv, StringsTyped, KeepsSecond, stringVars, SecondOf, Within

(* Every step of the string helpers keeps the second.                      *)
LEMMA StringsStep == StringsInv /\ part = "strings" /\ part' = part /\ Text!Next => StringsInv'
<1> SUFFICES ASSUME StringsTyped, alphabet = {} /\ first >= 0 => KeepsSecond, Text!Next
             PROVE  StringsTyped' /\ (alphabet = {} /\ first >= 0 => KeepsSecond)'
  BY DEF StringsInv
<1>0. alphabet \subseteq Chars /\ text \in Seq(Chars) /\ time \in Int /\ first \in Int
  BY DEF StringsTyped
<1>1. ASSUME NEW c \in alphabet, Text!Type(c)
      PROVE  StringsTyped' /\ (alphabet = {} /\ first >= 0 => KeepsSecond)'
  <2>1. text' = Append(text, c) /\ alphabet' = alphabet /\ time' = time /\ first' = first
    BY <1>1, Zenon DEF Text!Type
  <2>2. text' \in Seq(Chars)
    BY <1>0, <2>1
  <2> QED
    BY <1>0, <2>1, <2>2 DEF StringsTyped
<1>2. CASE Text!Write
  <2>1. /\ text' \in Text!timestampToString(time)
        /\ alphabet' = alphabet /\ time' = time /\ first' = first
    BY <1>2, Zenon DEF Text!Write
  <2>2. PICK ms \in 0 .. Away(time) % Text!Second :
            text' = StampBehind(Sign(time), Away(time) \div Text!Second, ms)
    BY <1>0, <2>1, StampIsWritten
  <2>3. Away(time) \div Text!Second \in Nat /\ ms \in Millis
    BY <1>0 DEF Away, Text!Second, Millis
  <2>4. text' \in Seq(Chars)
    <3>1. Sign(time) \in Seq(Chars)
      <4>1. "-" \in Chars
        BY Zenon DEF Chars
      <4> QED
        BY <4>1 DEF Sign
    <3> QED
      <4>1. StampBehind(Sign(time), Away(time) \div Text!Second, ms) \in Seq(Chars)
        BY <2>3, <3>1, StampIsBehind, Zenon
      <4> QED
        BY <2>2, <4>1
  <2>5. ASSUME alphabet = {}, first >= 0 PROVE KeepsSecond'
    <3>1. time \in SecondOf(first) * Text!Second .. first /\ first \in Nat
      BY <1>0, <2>5 DEF KeepsSecond
    <3>2. time \in Nat /\ SecondOf(time) = SecondOf(first) /\ Within(time) \in 0 .. Within(first)
      BY <3>1, SameSecond
    <3>3. Away(time) = time /\ Sign(time) = <<>>
      BY <3>2 DEF Away, Sign
    <3>4. text' = Stamp(SecondOf(first), ms)
      <4>1. <<>> \in Seq(Chars)
        OBVIOUS
      <4>2. StampBehind(<<>>, SecondOf(time), ms) = Stamp(SecondOf(time), ms)
        <5>1. SecondOf(time) \in Nat
          BY <2>3, <3>3 DEF SecondOf
        <5> QED
          BY <2>3, <4>1, <5>1, StampIsBehind, Zenon
      <4> QED
        BY <2>2, <3>2, <3>3, <4>2 DEF SecondOf
    <3>5. ms \in 0 .. Within(first)
      <4>1. Within(first) \in Nat
        <5>1. Parted(first)
          BY <3>1, SecondsAre, Zenon
        <5> QED
          BY <5>1 DEF Parted, Millis
      <4>2. ms \in 0 .. Within(time)
        BY <3>3 DEF Within
      <4> QED
        BY <3>2, <4>1, <4>2
    <3> QED
      BY <2>1, <3>1, <3>4, <3>5 DEF KeepsSecond, SecondOf, Within
  <2> QED
    BY <1>0, <2>1, <2>4, <2>5 DEF StringsTyped
<1>3. CASE Text!Read
  <2>1. /\ time' = Text!strToTimestamp(text) /\ text' = <<>> /\ text # <<>>
        /\ alphabet' = alphabet /\ first' = first
    BY <1>3, Zenon DEF Text!Read
  <2>2. time' \in Int /\ text' \in Seq(Chars)
    BY <1>0, <2>1, TimeIsRead
  <2>3. ASSUME alphabet = {}, first >= 0 PROVE KeepsSecond'
    <3>1. first \in Nat
      BY <1>0, <2>3
    <3>2. SecondOf(first) \in Nat /\ Within(first) \in Millis /\ first = Thousand(SecondOf(first)) + Within(first)
      <4>1. Parted(first)
        BY <3>1, SecondsAre, Zenon
      <4> QED
        BY <4>1 DEF Parted
    <3>3. PICK ms \in 0 .. Within(first) : text = Stamp(SecondOf(first), ms)
      BY <2>1, <2>3 DEF KeepsSecond
    <3>4. ms \in Millis /\ ms \in Nat
      BY <3>2 DEF Millis
    <3>5. time' = Thousand(SecondOf(first)) + ms
      <4>1. GoodStamp(SecondOf(first), ms)
        BY <3>2, <3>4, StampsAreGood, Zenon
      <4> QED
        BY <2>1, <3>3, <4>1 DEF GoodStamp
    <3>6. time' \in SecondOf(first) * Text!Second .. first
      BY <3>2, <3>4, <3>5 DEF Millis, Thousand, Text!Second
    <3> QED
      BY <2>1, <3>6 DEF KeepsSecond, SecondOf
  <2> QED
    BY <1>0, <2>1, <2>2, <2>3 DEF StringsTyped
<1> QED
  BY <1>1, <1>2, <1>3, Zenon DEF Text!Next

(* A stamp is written in two digits for the hours from ten hours on.       *)
LEMMA SecondIsKept == StringsInv /\ part = "strings" => Text!TimesKeepTheirSecond
<1> SUFFICES ASSUME StringsTyped, KeepsSecond, first >= 0
             PROVE  /\ time \in (first \div Text!Second) * Text!Second .. first
                    /\ text # <<>> /\ first \in 36000 * Text!Second .. 360000 * Text!Second - 1
                          => Text!strIsTimestamp(text)
  BY DEF StringsInv, Text!TimesKeepTheirSecond
<1>0. first \in Nat
  BY DEF StringsTyped
<1>1. time \in (first \div Text!Second) * Text!Second .. first
  BY DEF KeepsSecond, SecondOf
<1>2. SecondOf(first) \in Nat /\ Within(first) \in Millis /\ first = Thousand(SecondOf(first)) + Within(first)
  <2>1. Parted(first)
    BY <1>0, SecondsAre, Zenon
  <2> QED
    BY <2>1 DEF Parted
<1>3. first \in 36000 * Text!Second .. 360000 * Text!Second - 1 => Hour(SecondOf(first)) \in 10 .. 99
  <2> DEFINE s == SecondOf(first)
             w == Within(first)
             h == Hour(s)
  <2>1. PICK r \in InHour : h \in Nat /\ s = Secs(h, r)
    BY <1>2, ClockIs, Zenon
  <2>2. first = Thousand(s) + w /\ w \in Millis
    BY <1>2
  <2> HIDE DEF s, w, h
  <2>3. h \in 10 .. 99 <=> 36000 <= s /\ s < 360000
    BY <2>1 DEF InHour, Secs
  <2> DEFINE k == Text!Second
             lo == 36000 * k
             hi == 360000 * k
  <2>4. s \in Nat /\ w \in Nat /\ w < k /\ k \in Nat /\ first = k * s + w
    BY <1>2, <2>2 DEF Millis, Thousand, Text!Second, s
  <2> HIDE DEF k
  <2>5. 36000 <= s <=> lo <= first
    <3>1. 36000 <= s => lo <= k * s
      BY <2>4
    <3>2. s + 1 <= 36000 => k * s + k <= lo
      BY <2>4
    <3>3. lo \in Int /\ k * s \in Int
      BY <2>4
    <3> HIDE DEF lo
    <3> QED
      BY <2>4, <3>1, <3>2, <3>3
  <2>6. s < 360000 <=> first < hi
    BY <2>2, <2>4
  <2> HIDE DEF lo, hi
  <2>7. lo \in Int /\ hi \in Int
    BY <2>4 DEF lo, hi
  <2> QED
    BY <1>0, <2>3, <2>5, <2>6, <2>7 DEF h, s, lo, hi, k
<1>4. ASSUME text # <<>>, first \in 36000 * Text!Second .. 360000 * Text!Second - 1
      PROVE  Text!strIsTimestamp(text)
  <2>1. PICK ms \in 0 .. Within(first) : text = Stamp(SecondOf(first), ms)
    BY <1>4 DEF KeepsSecond
  <2>2. ms \in Millis
    BY <1>2 DEF Millis
  <2>4. GoodStamp(SecondOf(first), ms)
    BY <1>2, <2>2, StampsAreGood, Zenon
  <2>3. Text!strIsTimestamp(text) <=> Hour(SecondOf(first)) \in 10 .. 99
    BY <2>1, <2>4 DEF GoodStamp
  <2> QED
    BY <1>3, <1>4, <2>3
<1> QED
  BY <1>1, <1>4

(* strIsFloat and strIsInt accept the numbers, strToInt reads the digits   *)
(* that intToString writes, splitting and cleaning lose separators and     *)
(* blanks only, unescaping gives back what was escaped, and writing and    *)
(* reading a time never falls below its second, for every text and every   *)
(* time but those that TextsComeBack names (straux.cpp:29-380).            *)
THEOREM TextsAreReadBack == WorkSpec => []TextsComeBack
<1>1. WorkInit => StringsInv
  BY StringsStart
<1>2. StringsInv /\ [WorkNext]_<<part, vars, stringVars, fixedVars, argVars, controlVars>> => StringsInv'
  <2> SUFFICES ASSUME StringsInv,
                      [WorkNext]_<<part, vars, stringVars, fixedVars, argVars, controlVars>>
               PROVE  StringsInv'
    OBVIOUS
  <2>1. \/ part = "strings" /\ part' = part /\ Text!Next
        \/ UNCHANGED <<part, stringVars>>
    BY Zenon DEF WorkNext
  <2> QED
    BY <2>1, StringsStep, StringsKept
<1>3. StringsInv => TextsComeBack
  <2> SUFFICES ASSUME StringsInv, part = "strings"
               PROVE  /\ Text!FloatsAreNumbers /\ Text!DigitsComeBack /\ Text!TextIsKept
                      /\ Text!EscapedComesBack /\ Text!TimesKeepTheirSecond
    BY DEF TextsComeBack
  <2>1. text \in Seq(Chars)
    BY DEF StringsInv, StringsTyped
  <2> QED
    <3>1. Text!FloatsAreNumbers
      BY <2>1, FloatsHold
    <3>2. Text!DigitsComeBack
      BY <2>1, DigitsHold
    <3>3. Text!TextIsKept
      BY <2>1, TextKept
    <3>4. Text!EscapedComesBack
      BY <2>1, EscapesComeBack, Zenon
    <3>5. Text!TimesKeepTheirSecond
      BY SecondIsKept
    <3> QED
      BY <3>1, <3>2, <3>3, <3>4, <3>5
<1> QED
  BY <1>1, <1>2, <1>3, PTL DEF WorkSpec
=============================================================================
