------------------------------- MODULE StrAux -------------------------------
(***************************************************************************)
(* The string helpers (straux.h, straux.cpp).  A string is a sequence of   *)
(* characters; times are in milliseconds, in place of double seconds.      *)
(***************************************************************************)
EXTENDS Integers, Sequences, SequencesExt

Digit == {"0", "1", "2", "3", "4", "5", "6", "7", "8", "9"}
Sign == {"+", "-"}
Reject == -1

(* What is kept of a text that is read from its first character on.        *)
After(Step(_, _), base, s) ==
    LET after[n \in 0 .. Len(s)] == IF n = 0 THEN base ELSE Step(after[n - 1], s[n])
    IN  after[Len(s)]

(* Mutant: the exponent may lack digits.                                   *)
FloatEndsSoon == {2, 3, 4, 6}

FloatEnds == {2, 3, 6}

(* The automaton of strIsFloat, with the states of the source.             *)
FloatStep(q, c) ==
    CASE c \in {" ", "\t"} /\ q = 0 -> 0
      [] c \in Sign /\ q = 0 -> 1
      [] c \in Sign /\ q = 4 -> 5
      [] c \in Digit /\ q \in 0 .. 2 -> 2
      [] c \in Digit /\ q \in {3, 7} -> 3
      [] c \in Digit /\ q \in 4 .. 6 -> 6
      [] c = "." /\ q \in {0, 1} -> 7
      [] c = "." /\ q = 2 -> 3
      [] c \in {"e", "E"} /\ q \in {2, 3, 7} -> 4
      [] OTHER -> Reject

strIsFloat(s) == After(FloatStep, 0, s) \in FloatEnds

IntStep(q, c) ==
    CASE c \in {" ", "\t"} /\ q = 0 -> 0
      [] c \in Sign /\ q = 0 -> 1
      [] c \in Digit /\ q \in 0 .. 2 -> 2
      [] OTHER -> Reject

strIsInt(s) == After(IntStep, 0, s) = 2

SplitStep(r, c, div) ==
    IF c = div THEN Append(r, <<>>) ELSE [r EXCEPT ![Len(r)] = Append(@, c)]

strSplit(s, div) == After(LAMBDA r, c : SplitStep(r, c, div), <<(<<>>)>>, s)

Blank == {" ", "\t", "\f", "BS", "\r", "\n"}

(* Blanks wait until something follows that is none.                       *)
CleanStep(a, c) ==
    IF c \in Blank THEN [a EXCEPT !.x = Append(@, c)]
    ELSE [r |-> IF a.r = <<>> THEN <<c>> ELSE Append(a.r \o a.x, c), x |-> <<>>]

strClean(s) == After(CleanStep, [r |-> <<>>, x |-> <<>>], s).r

----------------------------------------------------------------------------
(* Numbers.  The base of intToString is brought into 2 .. 16, and the      *)
(* smallest long, which has no negative, is left out.                      *)
conv == <<"0", "1", "2", "3", "4", "5", "6", "7", "8", "9", "A", "B", "C", "D", "E", "F">>
lower == <<"a", "b", "c", "d", "e", "f">>

Upto(n, base) ==
    LET text[m \in Nat] == IF m < base THEN <<conv[m + 1]>>
                           ELSE Append(text[m \div base], conv[1 + (m % base)])
    IN  text[n]

intToString(i, digits, base) ==
    LET b == IF base < 2 THEN 2 ELSE IF base > 16 THEN 16 ELSE base
        text == Upto(IF i < 0 THEN -i ELSE i, b)
    IN  (IF i < 0 THEN <<"-">> ELSE <<>>)
            \o [n \in 1 .. digits - Len(text) |-> "0"] \o text

Place(s, c) == CHOOSE i \in DOMAIN s : s[i] = c

deconv(c) == IF c \in ToSet(conv) THEN Place(conv, c) - 1
             ELSE IF c \in ToSet(lower) THEN Place(lower, c) + 9 ELSE 255

(* What is no digit of the base ends the number, a sign or a blank too;    *)
(* word is the number of values of an unsigned long.                       *)
DigitStep(a, c, base, word) ==
    IF a.end \/ deconv(c) >= base THEN [a EXCEPT !.end = TRUE]
    ELSE [a EXCEPT !.r = (@ * base + deconv(c)) % word]

strToInt(s, base, word) ==
    After(LAMBDA a, c : DigitStep(a, c, base, word), [r |-> 0, end |-> FALSE], s).r

----------------------------------------------------------------------------
(* Time stamps.  A digit behind the comma counts k, less than a second.    *)
Second == 1000
TimeError == -Second

StampStep(a, c) ==
    CASE a.bad \/ c \notin Digit \cup {":", ","} -> [a EXCEPT !.bad = TRUE]
      [] ~a.bad /\ c = ":" -> [a EXCEPT !.acc = (@ + a.x) * 60, !.x = 0]
      [] ~a.bad /\ c = "," -> [a EXCEPT !.acc = @ + a.x, !.x = 0, !.k = Second \div 10]
      [] ~a.bad /\ c \in Digit ->
            IF a.k = Second THEN [a EXCEPT !.x = @ * 10 + a.k * deconv(c)]
            ELSE [a EXCEPT !.x = @ + a.k * deconv(c), !.k = @ \div 10]

strToTimestamp(s) ==
    LET end == After(StampStep, [acc |-> 0, x |-> 0, k |-> Second, bad |-> FALSE], s)
    IN  IF end.bad THEN TimeError ELSE end.acc + end.x

(* The fraction of a second, times 1000, may fall short of a whole number: *)
(* it is cut then, and a millisecond is lost.                              *)
timestampToString(t) ==
    LET d == IF t < 0 THEN -t ELSE t
        s == d \div Second
        Text(ms) == (IF t < 0 THEN <<"-">> ELSE <<>>)
                       \o intToString(s \div 3600, 1, 10) \o <<":">>
                       \o intToString((s \div 60) % 60, 2, 10) \o <<":">>
                       \o intToString(s % 60, 2, 10) \o <<",">>
                       \o intToString(ms, 3, 10)
    IN  {Text(d % Second)} \cup (IF d % Second = 0 THEN {} ELSE {Text((d % Second) - 1)})

strIsTimestamp(s) ==
    /\ Len(s) = 12
    /\ \A i \in 1 .. 12 :
          CASE i \in {3, 6} -> s[i] = ":"
            [] i = 9 -> s[i] = ","
            [] OTHER -> s[i] \in Digit

----------------------------------------------------------------------------
(* Escapes: what a character is written as after a backslash.  A backslash *)
(* before a line break stands for the character 0; the unix style adds     *)
(* those of the shell.                                                     *)
Plain ==
    [c \in {"\r", "\n", "BEL", "BS", "\f", "\t", "VT", "\\", "'", "\""} |->
        CASE c = "\r" -> "r" [] c = "\n" -> "n" [] c = "BEL" -> "a" [] c = "BS" -> "b"
          [] c = "\f" -> "f" [] c = "\t" -> "t" [] c = "VT" -> "v" [] OTHER -> c]
Shell == {" ", "BACKQUOTE", "?", "$", ";", "[", "]", "{", "}", "(", ")"}
Escapes(unix) ==
    [c \in DOMAIN Plain \cup (IF unix THEN Shell ELSE {}) |-> IF c \in DOMAIN Plain THEN Plain[c] ELSE c]

EscapeStep(r, c, unix) ==
    IF c \in DOMAIN Escapes(unix) THEN r \o <<"\\", Escapes(unix)[c]>> ELSE Append(r, c)

strEscape(s, unix) == After(LAMBDA r, c : EscapeStep(r, c, unix), <<>>, s)

Meant(c, unix) ==
    IF c = "\n" THEN "NUL"
    ELSE IF \E d \in DOMAIN Escapes(unix) : Escapes(unix)[d] = c
         THEN CHOOSE d \in DOMAIN Escapes(unix) : Escapes(unix)[d] = c
         ELSE c

(* What no backslash announces is dropped.                                 *)
UnescapeStep(a, c, unix) ==
    IF a.after THEN [r |-> Append(a.r, Meant(c, unix)), after |-> FALSE]
    ELSE [a EXCEPT !.after = c = "\\"]

strUnescape(s, unix) ==
    After(LAMBDA a, c : UnescapeStep(a, c, unix), [r |-> <<>>, after |-> FALSE], s).r
=============================================================================
