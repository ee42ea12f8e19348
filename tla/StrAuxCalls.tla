---------------------------- MODULE StrAuxCalls ----------------------------
(***************************************************************************)
(* The string helpers at work: a text grows by one character after the     *)
(* other, or a time is written as a time stamp and read back, again and    *)
(* again.                                                                  *)
(***************************************************************************)
EXTENDS StrAux

CONSTANTS Alphabets,    \* the sets of characters texts are made of
          MaxLength,    \* bound: the length of a text
          Times,        \* the times that are written
          Bases,        \* the bases of numbers
          Word          \* the number of values of an unsigned long

VARIABLES alphabet, text,
          time,         \* the time that is written next
          first         \* history: the time that was written first

vars == <<alphabet, text, time, first>>

NoTime == TimeError - 1

Init ==
    /\ \/ alphabet \in Alphabets /\ time = NoTime
       \/ alphabet = {} /\ time \in Times
    /\ text = <<>> /\ first = time

Type(c) ==
    /\ Len(text) < MaxLength
    /\ text' = Append(text, c)
    /\ UNCHANGED <<alphabet, time, first>>

Write ==
    /\ alphabet = {} /\ text = <<>>
    /\ text' \in timestampToString(time)
    /\ UNCHANGED <<alphabet, time, first>>

Read ==
    /\ alphabet = {} /\ text # <<>>
    /\ time' = strToTimestamp(text) /\ text' = <<>>
    /\ UNCHANGED <<alphabet, first>>

Next == (\E c \in alphabet : Type(c)) \/ Write \/ Read

Spec == Init /\ [][Next]_vars

----------------------------------------------------------------------------
(* Properties.                                                             *)
IsDigits(s) == s # <<>> /\ ToSet(s) \subseteq Digit

Unsigned(s) == IF s # <<>> /\ s[1] \in Sign THEN Tail(s) ELSE s

IsMantissa(s) == IsDigits(s) \/ \E i \in DOMAIN s : s[i] = "." /\ IsDigits(RemoveAt(s, i))

NoLeading(chars, s) ==
    LET i == SelectInSeq(s, LAMBDA c : c \notin chars)
    IN  IF i = 0 THEN <<>> ELSE SubSeq(s, i, Len(s))

(* strIsFloat (straux.cpp:29-71) accepts the decimal numbers, with a sign  *)
(* and an exponent if they like, and nothing else (straux.h:30), but for   *)
(* texts whose mantissa is a point alone, before an exponent, which it     *)
(* accepts; strIsInt (159-179), those without point and exponent.          *)
FloatsAreNumbers ==
    LET s == Unsigned(NoLeading({" ", "\t"}, text))
        exponents == {i \in DOMAIN s : s[i] \in {"e", "E"}}
        Mantissa(i) == SubSeq(s, 1, i - 1)
    IN
    /\ strIsInt(text) <=> IsDigits(s)
    /\ (\A i \in exponents : Mantissa(i) # <<".">>) =>
          (strIsFloat(text) <=>
              \/ IsMantissa(s)
              \/ \E i \in exponents : /\ IsMantissa(Mantissa(i))
                                       /\ IsDigits(Unsigned(SubSeq(s, i + 1, Len(s)))))

(* The digits that strToInt reads (straux.cpp:239-248) are those that      *)
(* intToString writes (194-208) for the same number of digits, for numbers *)
(* that fit a long.                                                        *)
DigitsComeBack ==
    \A base \in Bases :
        LET end == SelectInSeq(text, LAMBDA c : deconv(c) >= base)
            digits == IF end = 0 THEN text ELSE SubSeq(text, 1, end - 1)
            count == After(LAMBDA n, c : base * n, 1, digits)
        IN  digits # <<>> /\ 2 * count <= Word =>
                /\ strToInt(text, base, Word) \in 0 .. Word \div 2 - 1
                /\ intToString(strToInt(text, base, Word), Len(digits), base)
                       = [i \in DOMAIN digits |-> conv[deconv(digits[i]) + 1]]

(* strSplit (straux.cpp:181-192) loses nothing but the separators and      *)
(* leaves none of them; strClean (307-320), nothing but what is blank at   *)
(* the ends.                                                               *)
TextIsKept ==
    LET pieces == strSplit(text, ";")
        joined == After(LAMBDA s, piece : (s \o <<";">>) \o piece, <<>>, pieces)
    IN
    /\ joined = <<";">> \o text
    /\ \A i \in DOMAIN pieces : ~Contains(pieces[i], ";")
    /\ strClean(text) = Reverse(NoLeading(Blank, Reverse(NoLeading(Blank, text))))

(* Unescaping what was escaped gives the text back (straux.cpp:353-380,    *)
(* straux.h:68), if each of its characters needs an escape: strUnescape    *)
(* loses the others.                                                       *)
EscapedComesBack ==
    \A unix \in BOOLEAN :
        ToSet(text) \subseteq DOMAIN Escapes(unix) => strUnescape(strEscape(text, unix), unix) = text

(* However often a time is written and read (straux.cpp:250-288), it only  *)
(* falls, and not below its second; and from ten hours on, to a hundred,   *)
(* what was written is a time stamp for strIsTimestamp (straux.h:51, 58).  *)
TimesKeepTheirSecond ==
    alphabet = {} /\ first >= 0 =>
        /\ time \in (first \div Second) * Second .. first
        /\ text # <<>> /\ first \in 36000 * Second .. 360000 * Second - 1 => strIsTimestamp(text)
=============================================================================
