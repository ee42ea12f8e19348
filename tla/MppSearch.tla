----------------------------- MODULE MppSearch -----------------------------
(***************************************************************************)
(* The search for the maximum power point (pvgen_mpp_I.cpp): of five       *)
(* currents, the outer ones hold the maximum between them, and an          *)
(* iteration halves their distance.  Currents are integers, in a unit of   *)
(* at most a third of the distance that is close enough, in place of       *)
(* double; the generator is given by its power at each current.            *)
(***************************************************************************)
EXTENDS Integers

CONSTANTS N,            \* the highest current, Ih; Il is 0
          eMax,         \* the distance that is close enough
          Curves        \* the generators

ASSUME SearchAssumption ==
    /\ N \in Nat
    /\ eMax \in Nat /\ eMax >= 3
    /\ Curves \subseteq [0 .. N -> Int]

VARIABLES power,        \* power[i] = r.V(i) * i
          I, P,         \* the currents and their powers
          pc            \* "scan" or "done"

vars == <<power, I, P, pc>>

Half(a, b) == (a + b) \div 2

Init ==
    /\ power \in Curves
    /\ I = [k \in 0 .. 4 |-> IF k = 2 THEN Half(0, N) ELSE IF k = 4 THEN N ELSE 0]
    /\ P = [k \in 0 .. 4 |-> IF k \in {1, 3} THEN 0 ELSE power[I[k]]]
    /\ pc = "scan"

I1 == Half(I[0], I[2])
I3 == Half(I[2], I[4])

(* What an iteration computes: the currents at 1 and 3, and their powers.  *)
NewI == [I EXCEPT ![1] = I1, ![3] = I3]
NewP == [P EXCEPT ![1] = power[I1], ![3] = power[I3]]

(* Those at a, b and c move to 0, 2 and 4, each with its power.            *)
Shifted(x, a, b, c) == [x EXCEPT ![0] = x[a], ![2] = x[b], ![4] = x[c]]

(* Mutant: the currents move, and leave their powers behind.               *)
KeepCurrents(a, b, c) ==
    /\ I' = Shifted(NewI, a, b, c)
    /\ P' = NewP
    /\ UNCHANGED <<power, pc>>

Keep(a, b, c) ==
    /\ I' = Shifted(NewI, a, b, c)
    /\ P' = Shifted(NewP, a, b, c)
    /\ UNCHANGED <<power, pc>>

Scanning == pc = "scan" /\ I[4] - I[0] > eMax

LeftIsBest == NewP[1] > NewP[2] /\ NewP[1] > NewP[3]

MiddleIsBest == NewP[2] > NewP[3]

MoveLeft == Scanning /\ LeftIsBest /\ Keep(0, 1, 2)

StayMiddle == Scanning /\ ~LeftIsBest /\ MiddleIsBest /\ Keep(1, 2, 3)

MoveRight == Scanning /\ ~LeftIsBest /\ ~MiddleIsBest /\ Keep(2, 3, 4)

Stop ==
    /\ pc = "scan" /\ ~(I[4] - I[0] > eMax)
    /\ pc' = "done"
    /\ UNCHANGED <<power, I, P>>

Next == MoveLeft \/ StayMiddle \/ MoveRight \/ Stop

Spec == Init /\ [][Next]_vars

----------------------------------------------------------------------------
(* Properties.                                                             *)

(* The power rises up to the current p and falls from there on.            *)
IsPeak(p) ==
    /\ \A i, j \in 0 .. N : i < j /\ j <= p => power[i] < power[j]
    /\ \A i, j \in 0 .. N : p <= i /\ i < j => power[i] > power[j]

(* The maximum of a generator that has one (pvgen_mpp_I.cpp:51-70) stays   *)
(* between the outer currents, whichever the search drops.                 *)
PeakIsBracketed ==
    \A p \in 0 .. N : ~(I[0] <= p /\ p <= I[4]) => ~IsPeak(p)
=============================================================================
