----------------------------- MODULE Controllers -----------------------------
(***************************************************************************)
(* The PI controllers of stdctl.h, with integers in place of double: the   *)
(* plain one, the one whose integrator and output are bounded, and the one *)
(* that feeds back by how much its output was cut off.                     *)
(***************************************************************************)
EXTENDS Integers

CONSTANTS Settings,     \* kind and gains of the controllers
          Starts,       \* the values nMi of constructor and reset
          Errors,       \* the errors they are given
          Limit         \* bound: the integrator of what has no bounds

VARIABLES ctl,          \* the controller: kind, Kp, Ki, kaw and bounds
          Mi, awe,      \* integrator and anti-windup error
          out,          \* what it returned last
          falls         \* history: enabled steps since the error was not negative

vars == <<ctl, Mi, awe, out, falls>>

(* The initial value is divided by Ki.                                     *)
Init ==
    /\ ctl \in Settings
    /\ \E n \in Starts : Mi = IF ctl.Ki = 0 THEN n ELSE n \div ctl.Ki
    /\ awe = 0 /\ out = 0 /\ falls = 0

Clamped(v, low, high) == IF v > high THEN high ELSE IF v < low THEN low ELSE v

Count(e) == falls' = IF e < 0 THEN falls + 1 ELSE 0

PI_controller(e, cond) ==
    /\ ctl.kind = "PI"
    /\ Mi' = IF cond THEN Mi + ctl.Ki * e ELSE Mi
    /\ out' = ctl.Kp * e + Mi'
    /\ UNCHANGED <<ctl, awe, falls>>

(* Mutant: only the output is bounded.                                     *)
Bounded_PI_controllerOutput(e, cond) ==
    /\ ctl.kind = "Bounded"
    /\ Mi' = IF cond THEN Mi + ctl.Ki * e ELSE Mi
    /\ out' = Clamped(ctl.Kp * e + Mi', ctl.Min, ctl.Max)
    /\ IF cond THEN Count(e) ELSE UNCHANGED falls
    /\ UNCHANGED <<ctl, awe>>

(* The integrator is bounded when it is enabled, not when it is set.       *)
Bounded_PI_controller(e, cond) ==
    /\ ctl.kind = "Bounded"
    /\ Mi' = IF cond THEN Clamped(Mi + ctl.Ki * e, ctl.MiMin, ctl.MiMax) ELSE Mi
    /\ out' = Clamped(ctl.Kp * e + Mi', ctl.Min, ctl.Max)
    /\ IF cond THEN Count(e) ELSE UNCHANGED falls
    /\ UNCHANGED <<ctl, awe>>

(* A positive gain kaw adds to the integrator what was cut off.            *)
AntiWindup_PI_controller(e) ==
    /\ ctl.kind = "AntiWindup"
    /\ Mi' = Mi + ctl.Ki * (e - ctl.kaw * awe)
    /\ LET r == ctl.Kp * e + Mi' IN
       /\ out' = Clamped(r, ctl.Min, ctl.Max)
       /\ awe' = out' - r
    /\ UNCHANGED <<ctl, falls>>

reset(n) ==
    /\ Mi' = n /\ falls' = 0
    /\ awe' = IF ctl.kind = "AntiWindup" THEN 0 ELSE awe
    /\ UNCHANGED <<ctl, out>>

Next ==
    /\ -Limit < Mi /\ Mi < Limit /\ falls < Limit
    /\ \/ \E e \in Errors, cond \in BOOLEAN : PI_controller(e, cond) \/ Bounded_PI_controller(e, cond)
       \/ \E e \in Errors : AntiWindup_PI_controller(e)
       \/ \E n \in Starts : reset(n)

Spec == Init /\ [][Next]_vars

----------------------------------------------------------------------------
(* Properties.                                                             *)

Largest(S) == CHOOSE n \in S : \A m \in S : m <= n

(* However long an error pushed the output into its limit, the integrator  *)
(* comes back: a bounded one (stdctl.h:111-121) loses at least Ki with     *)
(* every negative error, from its upper bound at most, wherever it was     *)
(* set; the other (175-189), where Ki * kaw = -1, so that the next step    *)
(* takes away exactly what was cut off, is never further from the limits   *)
(* than one error and the next can move it.  Of other gains nothing is     *)
(* said: some of the same sign never come back.                            *)
NoWindUp ==
    /\ ctl.kind = "Bounded" /\ falls > 0 =>
          Mi <= Largest({ctl.MiMin, ctl.MiMax - (falls - 1) * ctl.Ki})
    /\ ctl.kind = "AntiWindup" /\ ctl.Ki * ctl.kaw = -1 =>
          LET reach == (ctl.Kp + ctl.Ki) * Largest(Errors)
          IN  Mi \in ctl.Min - reach .. ctl.Max + reach
=============================================================================
