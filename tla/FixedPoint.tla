----------------------------- MODULE FixedPoint -----------------------------
(***************************************************************************)
(* Fixed-point numbers (fixed.h): fixed32<q> is an integer of 32 bits, val,*)
(* in units of 2^-q; products and quotients are fixed64.  A program works  *)
(* on one number.  Shifts of negative numbers and past the sign are those  *)
(* of the machine.                                                         *)
(***************************************************************************)
EXTENDS Integers

CONSTANTS Bits,         \* the width of the integers, 32
          Scales,       \* the scales q that are used
          Values        \* the values, in units, of the other operands

VARIABLES x,            \* the number
          last,         \* history: the operation, its operand, x before
          lost          \* the program was killed, or its behaviour is undefined

vars == <<x, last, lost>>

Power2[n \in Nat] == IF n = 0 THEN 1 ELSE 2 * Power2[n - 1]

Modulus == Power2[Bits]
InRange(v) == -Modulus <= 2 * v /\ 2 * v < Modulus
Wrap(v) == ((v + (Modulus \div 2)) % Modulus) - (Modulus \div 2)

fixed32(q, v) == [q |-> q, val |-> v]
Number == {fixed32(q, v) : q \in Scales, v \in Values}

Init == x \in Number /\ last = [op |-> "none"] /\ lost = FALSE

Larger(a, b) == IF a > b THEN a ELSE b

Shl(v, n) == v * Power2[n]
Shr(v, n) == v \div Power2[n]

(* Mutant: the bits that are shifted out round up.                         *)
ConvertedUp(r, q) ==
    fixed32(q, Wrap(IF q > r.q THEN Shl(r.val, q - r.q)
                    ELSE Shr(r.val + Power2[r.q - q] - 1, r.q - q)))

(* The conversion of a fixed32 or a fixed64 to the scale q.                *)
Converted(r, q) ==
    fixed32(q, Wrap(IF q > r.q THEN Shl(r.val, q - r.q) ELSE Shr(r.val, r.q - q)))

Sum(a, b, sign) ==
    LET q == Larger(a.q, b.q)
    IN  fixed32(q, Wrap(Converted(a, q).val + sign * Converted(b, q).val))

fixed64(q, v) == [q |-> q, val |-> v]

Product(a, b) == fixed64(a.q + b.q, a.val * b.val)

(* Division, towards 0; by 0, and for the largest quotient, it traps.       *)
Towards0(n, d) == IF n * d >= 0 THEN (IF d < 0 THEN -n ELSE n) \div (IF d < 0 THEN -d ELSE d)
                  ELSE -((IF n < 0 THEN -n ELSE n) \div (IF d < 0 THEN -d ELSE d))

Traps(a, b) == b.val = 0 \/ (2 * a.val = -Modulus /\ b.val = -1)

Quotient(a, b) == fixed64(a.q + Bits - b.q, Towards0(Shl(a.val, Bits), b.val))

Becomes(op, b, y) ==
    /\ x' = y
    /\ last' = [op |-> op, by |-> b, was |-> x]
    /\ UNCHANGED lost

Lost == lost' = TRUE /\ UNCHANGED <<x, last>>

(* x = x + b, of the scale that is larger; and x += b, whose assignment    *)
(* has no return if it has to convert.                                     *)
Plus(b, sign, op) == Becomes(op, b, Sum(x, b, sign))

PlusAssign(b, sign, op) ==
    \/ b.q > x.q /\ Lost
    \/ b.q <= x.q /\ Becomes(op, b, Sum(x, b, sign))

TimesAssign(b) == Becomes("times", b, Converted(Product(x, b), x.q))

DivideAssign(b) ==
    \/ Traps(x, b) /\ Lost
    \/ ~Traps(x, b) /\ Becomes("divide", b, Converted(Quotient(x, b), x.q))

ShiftRight(n) == Becomes("right", fixed32(0, n), fixed32(x.q, Shr(x.val, n)))

ShiftLeft(n) == Becomes("left", fixed32(0, n), fixed32(x.q, Wrap(Shl(x.val, n))))

Mask == Power2[x.q] - 1

floor == Becomes("floor", x, fixed32(x.q, x.val - (x.val % (Mask + 1))))

ceil == Becomes("ceil", x, fixed32(x.q, Wrap(x.val + Mask) - (Wrap(x.val + Mask) % (Mask + 1))))

(* fixed32(x.to_double()) adds one half and cuts off towards 0, which is   *)
(* one too much for what is negative.                                      *)
ThroughDouble == Becomes("double", x, fixed32(x.q, IF x.val < 0 THEN x.val + 1 ELSE x.val))

Next ==
    /\ ~lost
    /\ \/ \E b \in Number :
            \/ Plus(b, 1, "plus") \/ Plus(b, -1, "minus")
            \/ PlusAssign(b, 1, "plus") \/ PlusAssign(b, -1, "minus")
            \/ TimesAssign(b) \/ DivideAssign(b)
       \/ \E n \in 0 .. 2 : ShiftRight(n) \/ ShiftLeft(n)
       \/ floor \/ ceil \/ ThroughDouble

Spec == Init /\ [][Next]_vars

----------------------------------------------------------------------------
(* Comparisons: the set of what they return, {} if they call each other    *)
(* for ever.                                                               *)
Equal(a, b) ==
    CASE a.q > b.q -> {a.val = Wrap(Shl(b.val, a.q - b.q)) /\ Shr(a.val, a.q - b.q) = b.val}
      [] a.q < b.q -> {a.val = Shr(b.val, b.q - a.q) /\ Wrap(Shl(a.val, b.q - a.q)) = b.val}
      [] OTHER     -> {a.val = b.val}

Greater(a, b) ==
    IF a.q > b.q THEN {} ELSE {a.val > Shr(b.val, b.q - a.q)}

Less(a, b) ==
    IF a.q < b.q THEN {} ELSE {Shr(a.val, a.q - b.q) < b.val}

GreaterEqual(a, b) == {~answer : answer \in Greater(b, a)}

LessEqual(a, b) == Greater(b, a)

----------------------------------------------------------------------------
(* Properties.                                                             *)

(* A comparison that returns (fixed.h:157-207) is right, whatever the      *)
(* scales; but for <= of equal numbers (205).  Numbers of one scale can    *)
(* always be compared.                                                     *)
OrderIsRight ==
    \A b \in Number :
        LET u == x.val * Power2[b.q]
            v == b.val * Power2[x.q]
        IN  /\ Equal(x, b) = {u = v}
            /\ Greater(x, b) \subseteq {u > v} /\ Less(x, b) \subseteq {u < v}
            /\ GreaterEqual(x, b) \subseteq {u >= v}
            /\ u # v => LessEqual(x, b) \subseteq {u <= v}
            /\ x.q = b.q => Greater(x, b) # {} /\ Less(x, b) # {}
                            /\ GreaterEqual(x, b) # {} /\ LessEqual(x, b) # {}

(* n / d: the exact result of the last operation, in units of x.           *)
Exact ==
    LET a == last.was
        b == last.by
        S(r) == r.val * Power2[x.q - r.q]
    IN  CASE last.op = "plus"   -> [n |-> S(a) + S(b), d |-> 1]
          [] last.op = "minus"  -> [n |-> S(a) - S(b), d |-> 1]
          [] last.op = "times"  -> [n |-> a.val * b.val, d |-> Power2[b.q]]
          [] last.op = "divide" -> [n |-> (IF b.val < 0 THEN -1 ELSE 1) * a.val * Power2[b.q],
                                    d |-> IF b.val < 0 THEN -b.val ELSE b.val]
          [] last.op = "right"  -> [n |-> a.val, d |-> Power2[b.val]]
          [] last.op = "left"   -> [n |-> a.val * Power2[b.val], d |-> 1]
          [] last.op = "floor"  -> [n |-> (a.val \div Power2[x.q]) * Power2[x.q], d |-> 1]
          [] last.op = "ceil"   -> [n |-> -((-a.val) \div Power2[x.q]) * Power2[x.q], d |-> 1]
          [] last.op = "double" -> [n |-> a.val, d |-> 1]

(* Whatever overflows on the way (fixed.h:95-155 and 210-242), a result    *)
(* that can be represented is the exact one, rounded down to the scale of  *)
(* the number; a quotient may be rounded up.  A negative number does not   *)
(* come back from a double.                                                *)
ResultsAreExact ==
    (last.op # "none" /\ ~lost) =>
        LET e == Exact
            low == e.n \div e.d
        IN  InRange(low) /\ (last.op = "divide" => InRange(low + 1)) =>
                \/ x.val = low
                \/ last.op = "divide" /\ e.n % e.d # 0 /\ x.val = low + 1
                \/ last.op = "double" /\ e.n < 0
=============================================================================
