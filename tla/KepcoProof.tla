----------------------------- MODULE KepcoProof -----------------------------
(***************************************************************************)
(* What holds of the power supply's driver for all commands and answers    *)
(* and any number of exchanges.                                            *)
(***************************************************************************)
EXTENDS KepcoExchange, SequenceTheorems, TLAPS

Exchanging == {"echo", "response", "prompt"}

----------------------------------------------------------------------------
(* Commands, answers and bytes.                                            *)

LEMMA SomeCharacters ==
    /\ NL \in Characters /\ PROMPT \in Characters
    /\ \A c \in Asking : c \in Commands /\ Answer[c] \in Characters
                         /\ Answer[c] # NL /\ Answer[c] # PROMPT /\ Answer[c] \in Range(Answer)
    /\ NL \notin Range(Answer) /\ PROMPT \notin Range(Answer)
BY KepcoAssumption DEF Characters, Range, Asking

(* Three strings in a row, taken together either way.                      *)
LEMMA Regrouped ==
    ASSUME NEW a \in Seq(Characters), NEW b \in Seq(Characters), NEW c \in Seq(Characters)
    PROVE  (a \o b) \o c = a \o (b \o c)
BY ConcatAssociative, SMTT(30)

(* A line is a command and a new line, and has no character of an answer.  *)
LEMMA LineFacts ==
    ASSUME NEW c \in Commands
    PROVE  /\ Text[c] \in Seq(Characters) /\ Line(c) \in Seq(Characters)
           /\ Len(Text[c]) \in Nat /\ Len(Text[c]) >= 3 /\ Len(Line(c)) = Len(Text[c]) + 1
           /\ Line(c)[Len(Line(c))] = NL
           /\ \A k \in 1 .. Len(Text[c]) : Line(c)[k] = Text[c][k] /\ Line(c)[k] # NL
           /\ \A k \in 1 .. Len(Line(c)) : Line(c)[k] \notin Range(Answer)
  <1>1. /\ Text[c] \in Seq(Characters) /\ Len(Text[c]) >= 3
        /\ \A k \in DOMAIN Text[c] : Text[c][k] \notin {NL} \cup Range(Answer)
    BY KepcoAssumption
  <1>2. Len(Text[c]) \in Nat /\ DOMAIN Text[c] = 1 .. Len(Text[c])
    BY <1>1, LenProperties
  <1>3. /\ Line(c) \in Seq(Characters) /\ Len(Line(c)) = Len(Text[c]) + 1
        /\ \A k \in 1 .. Len(Text[c]) : Line(c)[k] = Text[c][k]
        /\ Line(c)[Len(Text[c]) + 1] = NL
    BY <1>1, SomeCharacters, AppendProperties DEF Line
  <1>4. \A k \in 1 .. Len(Text[c]) : Text[c][k] # NL /\ Text[c][k] \notin Range(Answer)
    BY <1>1, <1>2
  <1>5. ASSUME NEW k \in 1 .. Len(Line(c))
        PROVE  Line(c)[k] \notin Range(Answer)
    BY <1>2, <1>3, <1>4, SomeCharacters
  <1> QED
    BY <1>1, <1>2, <1>3, <1>4, <1>5

(* An answer is what a command asks for and a new line, or that alone.     *)
LEMMA ReplyFacts ==
    ASSUME NEW line
    PROVE  /\ \/ Reply(line) = <<>> /\ line \notin {Text[c] : c \in Commands}
              \/ Reply(line) = <<NL>> /\ line \notin {Text[c] : c \in Asking}
              \/ \E c \in Asking : line = Text[c] /\ Reply(line) = <<Answer[c], NL>>
           /\ Reply(line) \in Seq(Characters)
  <1>1. CASE \E c \in Asking : line = Text[c]
    <2> DEFINE d == CHOOSE c \in Asking : line = Text[c]
    <2>1. d \in Asking /\ line = Text[d]
      BY <1>1
    <2>2. Reply(line) = <<Answer[d], NL>>
      BY <1>1 DEF Reply
    <2> HIDE DEF d
    <2>3. <<Answer[d], NL>> \in Seq(Characters)
      BY <2>1, SomeCharacters
    <2> QED
      BY <2>1, <2>2, <2>3
  <1>2. CASE ~\E c \in Asking : line = Text[c]
    <2>1. Reply(line) = IF \E c \in Commands : line = Text[c] THEN <<NL>> ELSE <<>>
      BY <1>2 DEF Reply
    <2>2. <<NL>> \in Seq(Characters) /\ <<>> \in Seq(Characters)
      BY SomeCharacters
    <2> QED
      BY <1>2, <2>1, <2>2
  <1> QED
    BY <1>1, <1>2

(* What a command is answered with.                                        *)
LEMMA ReplyToCommand ==
    ASSUME NEW c \in Commands
    PROVE  /\ c \in Asking => Reply(Text[c]) = <<Answer[c], NL>>
           /\ c \notin Asking => Reply(Text[c]) = <<NL>>
  <1>1. \A d \in Asking : d \in Commands
    BY SomeCharacters
  <1>2. \A d \in Commands : Text[c] = Text[d] => c = d
    BY KepcoAssumption
  <1> QED
    BY <1>1, <1>2, ReplyFacts

LEMMA Joined ==
    ASSUME NEW S, NEW a \in Seq(S), NEW b \in Seq(S)
    PROVE  /\ a \o b \in Seq(S) /\ Len(a) \in Nat /\ Len(b) \in Nat /\ Len(a \o b) = Len(a) + Len(b)
           /\ \A k \in 1 .. Len(a) : (a \o b)[k] = a[k]
           /\ \A k \in 1 .. Len(b) : (a \o b)[Len(a) + k] = b[k]
  <1>1. /\ a \o b \in Seq(S) /\ Len(a) \in Nat /\ Len(b) \in Nat /\ Len(a \o b) = Len(a) + Len(b)
        /\ \A k \in 1 .. Len(a) + Len(b) : (a \o b)[k] = IF k <= Len(a) THEN a[k] ELSE b[k - Len(a)]
    BY ConcatProperties, LenProperties
  <1>2. ASSUME NEW k \in 1 .. Len(a)
        PROVE  (a \o b)[k] = a[k]
    BY <1>1
  <1>3. ASSUME NEW k \in 1 .. Len(b)
        PROVE  (a \o b)[Len(a) + k] = b[k]
    <2>1. Len(a) + k \in 1 .. Len(a) + Len(b) /\ ~(Len(a) + k <= Len(a)) /\ (Len(a) + k) - Len(a) = k
      BY <1>1
    <2> QED
      BY <2>1, <1>1
  <1> QED
    BY <1>1, <1>2, <1>3

LEMMA BytesFacts ==
    ASSUME NEW s \in Seq(Characters), NEW n \in 0 .. MaxCalls
    PROVE  /\ Bytes(s, n) \in Seq(Byte) /\ Len(Bytes(s, n)) = Len(s) /\ Len(s) \in Nat
           /\ \A k \in 1 .. Len(s) : Bytes(s, n)[k].char = s[k] /\ Bytes(s, n)[k].of = n
           /\ Chars(Bytes(s, n)) = s
  <1>1. Len(s) \in Nat /\ \A k \in 1 .. Len(s) : s[k] \in Characters
    BY LenProperties, ElementOfSeq
  <1>2. \A k \in 1 .. Len(s) : [char |-> s[k], of |-> n] \in Byte
    BY <1>1 DEF Byte
  <1>3. Bytes(s, n) \in Seq(Byte) /\ Len(Bytes(s, n)) = Len(s)
    BY <1>1, <1>2 DEF Bytes
  <1>4. \A k \in 1 .. Len(s) : Bytes(s, n)[k].char = s[k] /\ Bytes(s, n)[k].of = n
    BY <1>1 DEF Bytes
  <1>5. Chars(Bytes(s, n)) = [k \in 1 .. Len(s) |-> s[k]]
    BY <1>1, <1>3, <1>4 DEF Chars
  <1>6. s = [k \in 1 .. Len(s) |-> s[k]]
    BY <1>1, LenProperties
  <1> QED
    BY <1>1, <1>3, <1>4, <1>5, <1>6

LEMMA CharsFacts ==
    ASSUME NEW b \in Seq(Byte)
    PROVE  /\ Chars(b) \in Seq(Characters) /\ Len(Chars(b)) = Len(b) /\ Len(b) \in Nat
           /\ \A k \in 1 .. Len(b) : Chars(b)[k] = b[k].char /\ b[k] \in Byte
  <1>1. Len(b) \in Nat /\ \A k \in 1 .. Len(b) : b[k] \in Byte
    BY LenProperties, ElementOfSeq
  <1> QED
    BY <1>1 DEF Chars, Byte

LEMMA CharsOfBoth ==
    ASSUME NEW a \in Seq(Byte), NEW b \in Seq(Byte)
    PROVE  Chars(a \o b) = Chars(a) \o Chars(b)
  <1>1. /\ a \o b \in Seq(Byte) /\ Len(a \o b) = Len(a) + Len(b)
        /\ \A k \in 1 .. Len(a) + Len(b) : (a \o b)[k] = IF k <= Len(a) THEN a[k] ELSE b[k - Len(a)]
    BY ConcatProperties
  <1>2. /\ Chars(a \o b) \in Seq(Characters) /\ Len(Chars(a \o b)) = Len(a) + Len(b)
        /\ \A k \in 1 .. Len(a) + Len(b) : Chars(a \o b)[k] = (a \o b)[k].char
    BY <1>1, CharsFacts
  <1>3. /\ Chars(a) \in Seq(Characters) /\ Len(Chars(a)) = Len(a) /\ Len(a) \in Nat
        /\ Chars(b) \in Seq(Characters) /\ Len(Chars(b)) = Len(b) /\ Len(b) \in Nat
        /\ \A k \in 1 .. Len(a) : Chars(a)[k] = a[k].char
        /\ \A k \in 1 .. Len(b) : Chars(b)[k] = b[k].char
    BY CharsFacts
  <1>4. /\ Chars(a) \o Chars(b) \in Seq(Characters) /\ Len(Chars(a) \o Chars(b)) = Len(a) + Len(b)
        /\ \A k \in 1 .. Len(a) + Len(b) : (Chars(a) \o Chars(b))[k] =
               IF k <= Len(a) THEN Chars(a)[k] ELSE Chars(b)[k - Len(a)]
    <2> DEFINE c == Chars(a)
               d == Chars(b)
    <2>1. c \in Seq(Characters) /\ d \in Seq(Characters) /\ Len(c) = Len(a) /\ Len(d) = Len(b)
      BY <1>3
    <2> HIDE DEF c, d
    <2>2. /\ c \o d \in Seq(Characters) /\ Len(c \o d) = Len(a) + Len(b)
          /\ \A k \in 1 .. Len(a) + Len(b) : (c \o d)[k] = IF k <= Len(a) THEN c[k] ELSE d[k - Len(a)]
      <3>1. /\ c \o d \in Seq(Characters) /\ Len(c \o d) = Len(c) + Len(d)
            /\ \A k \in 1 .. Len(c) + Len(d) : (c \o d)[k] = IF k <= Len(c) THEN c[k] ELSE d[k - Len(c)]
        BY <2>1, ConcatProperties
      <3> QED
        BY <2>1, <3>1
    <2> QED
      BY <2>2 DEF c, d
  <1>5. ASSUME NEW k \in 1 .. Len(a) + Len(b)
        PROVE  Chars(a \o b)[k] = (Chars(a) \o Chars(b))[k]
    <2>1. CASE k <= Len(a)
      BY <2>1, <1>1, <1>2, <1>3, <1>4
    <2>2. CASE ~(k <= Len(a))
      <3>1. k - Len(a) \in 1 .. Len(b)
        BY <2>2, <1>3
      <3> QED
        BY <2>2, <3>1, <1>1, <1>2, <1>3, <1>4
    <2> QED
      BY <2>1, <2>2
  <1> QED
    BY <1>2, <1>4, <1>5, SeqEqual

(* The byte at the head of the wire, and the rest.                         *)
LEMMA HeadAndRest ==
    ASSUME NEW w \in Seq(Byte), w # <<>>
    PROVE  /\ Head(w) \in Byte /\ Head(w) = w[1]
           /\ Tail(w) \in Seq(Byte) /\ Len(w) \in Nat \ {0} /\ Len(Tail(w)) = Len(w) - 1
           /\ \A k \in 1 .. Len(w) - 1 : Tail(w)[k] = w[k + 1]
           /\ Chars(w) = <<Head(w).char>> \o Chars(Tail(w))
  <1>1. /\ Head(w) \in Byte /\ Head(w) = w[1]
        /\ Tail(w) \in Seq(Byte) /\ Len(w) \in Nat \ {0} /\ Len(Tail(w)) = Len(w) - 1
        /\ \A k \in 1 .. Len(w) - 1 : Tail(w)[k] = w[k + 1]
    BY HeadTailProperties, EmptySeq
  <1>2. w = <<Head(w)>> \o Tail(w)
    <2>1. <<Head(w)>> \in Seq(Byte)
      BY <1>1
    <2> QED
      BY <1>1, <2>1, ConcatProperties, SeqEqual
  <1>3. <<Head(w)>> \in Seq(Byte) /\ Chars(<<Head(w)>>) = <<Head(w).char>>
    BY <1>1 DEF Chars
  <1>4. Chars(<<Head(w)>> \o Tail(w)) = Chars(<<Head(w)>>) \o Chars(Tail(w))
    BY <1>1, <1>3, CharsOfBoth
  <1> QED
    BY <1>1, <1>2, <1>3, <1>4

(* Characters that end a line are the last of it.                          *)
LEMMA SaysFacts ==
    ASSUME NEW e \in BOOLEAN, NEW line \in Seq(Characters),
           NEW chars \in Seq(Characters), chars # <<>>
    PROVE  /\ LineOf(line, chars) \in Seq(Characters)
           /\ Says(e, line, chars) \in Seq(Characters)
  <1>1. Len(chars) \in Nat \ {0} /\ Front(chars) \in Seq(Characters)
    <2>1. Len(chars) \in Nat \ {0} /\ \A k \in 1 .. Len(chars) - 1 : chars[k] \in Characters
      BY EmptySeq, LenProperties, ElementOfSeq
    <2> QED
      BY <2>1, SubSeqProperties DEF Front
  <1>2. LineOf(line, chars) \in Seq(Characters)
    BY <1>1, ConcatProperties DEF LineOf
  <1>3. Reply(LineOf(line, chars)) \in Seq(Characters)
    BY ReplyFacts
  <1>4. <<>> \in Seq(Characters) /\ <<PROMPT>> \in Seq(Characters)
    BY SomeCharacters
  <1> QED
    BY <1>1, <1>2, <1>3, <1>4, ConcatProperties DEF Says
----------------------------------------------------------------------------
(* The order of an operation's steps, and the types of the variables.      *)

Order ==
    /\ phase \in Exchanging => status /\ connected /\ op # "none"
    /\ phase \in {"drain", "wake"} =>
          op = "open" /\ connected /\ ~echoed /\ outcome = "none" /\ calls + 3 <= MaxCalls
    /\ op \in {"use", "close"} => phase \in Exchanging
    /\ op = "close" => cmd = "rst"
    /\ op = "open" /\ phase \in Exchanging \cup {"idle"} =>
          /\ connected /\ status
          /\ \/ cmd = "idn" /\ calls + 2 <= MaxCalls
             \/ cmd = "rem" /\ calls + 1 <= MaxCalls
             \/ cmd = "outp" /\ phase # "idle"
    /\ phase = "echo" => echoed /\ at \in 1 .. Len(Line(cmd)) /\ got = <<>>
    /\ phase = "prompt" => echoed
    /\ phase = "response" => \A k \in 1 .. Len(got) : got[k].char # NL
    /\ \A k \in 1 .. Len(wire) : wire[k].of <= calls

(* What the supply puts on the wire when it hears chars.                   *)
Told(chars) == IF world.mute THEN <<>> ELSE Says(world.echoes, heard, chars)

LEMMA HearDoes ==
    ASSUME TypeOK, NEW w \in Seq(Byte), NEW chars \in Seq(Characters), chars # <<>>,
           NEW n \in 0 .. MaxCalls, Hear(w, chars, n)
    PROVE  /\ Told(chars) \in Seq(Characters) /\ Len(Told(chars)) \in Nat
           /\ wire' = w \o Bytes(Told(chars), n)
           /\ wire' \in Seq(Byte) /\ heard' \in Seq(Characters) /\ output' \in BOOLEAN
           /\ Len(w) \in Nat /\ Len(wire') = Len(w) + Len(Told(chars))
           /\ \A k \in 1 .. Len(w) : wire'[k] = w[k]
           /\ \A k \in 1 .. Len(Told(chars)) :
                 wire'[Len(w) + k].char = Told(chars)[k] /\ wire'[Len(w) + k].of = n
           /\ Chars(wire') = Chars(w) \o Told(chars)
  <1>1. /\ world.echoes \in BOOLEAN /\ world.mute \in BOOLEAN
        /\ heard \in Seq(Characters) /\ output \in BOOLEAN
    BY DEF TypeOK
  <1> DEFINE says == Told(chars)
  <1>2. /\ LineOf(heard, chars) \in Seq(Characters)
        /\ Says(world.echoes, heard, chars) \in Seq(Characters)
    BY <1>1, SaysFacts
  <1>3. says \in Seq(Characters)
    BY <1>2 DEF Told
  <1>4. /\ Bytes(says, n) \in Seq(Byte) /\ Len(Bytes(says, n)) = Len(says) /\ Len(says) \in Nat
        /\ \A k \in 1 .. Len(says) : Bytes(says, n)[k].char = says[k] /\ Bytes(says, n)[k].of = n
        /\ Chars(Bytes(says, n)) = says
    BY <1>3, BytesFacts
  <1>5. wire' = w \o Bytes(says, n)
    <2>1. CASE world.mute
      <3>1. wire' = w /\ says = <<>>
        BY <2>1 DEF Hear, Told
      <3>2. Bytes(<<>>, n) = <<>>
        BY DEF Bytes
      <3> QED
        BY <3>1, <3>2, ConcatEmptySeq
    <2>2. CASE ~world.mute
      BY <2>2 DEF Hear, Told
    <2> QED
      BY <2>1, <2>2
  <1>6. heard' \in Seq(Characters) /\ output' \in BOOLEAN
    BY <1>1, <1>2, EmptySeq DEF Hear
  <1> HIDE DEF says
  <1>7. /\ w \o Bytes(says, n) \in Seq(Byte) /\ Len(w) \in Nat
        /\ Len(w \o Bytes(says, n)) = Len(w) + Len(says)
        /\ \A k \in 1 .. Len(w) : (w \o Bytes(says, n))[k] = w[k]
        /\ \A k \in 1 .. Len(says) : (w \o Bytes(says, n))[Len(w) + k] = Bytes(says, n)[k]
    <2> DEFINE more == Bytes(says, n)
    <2>1. more \in Seq(Byte) /\ Len(more) = Len(says)
      BY <1>4
    <2> HIDE DEF more
    <2>2. /\ w \o more \in Seq(Byte) /\ Len(w) \in Nat /\ Len(w \o more) = Len(w) + Len(more)
          /\ \A k \in 1 .. Len(w) : (w \o more)[k] = w[k]
          /\ \A k \in 1 .. Len(more) : (w \o more)[Len(w) + k] = more[k]
      <3>1. w \in Seq(Byte) /\ more \in Seq(Byte)
        BY <2>1
      <3>2. w \o more \in Seq(Byte) /\ Len(w) \in Nat /\ Len(w \o more) = Len(w) + Len(more)
        BY <3>1, Joined
      <3>3. \A k \in 1 .. Len(w) : (w \o more)[k] = w[k]
        BY <3>1, Joined
      <3>4. \A k \in 1 .. Len(more) : (w \o more)[Len(w) + k] = more[k]
        BY <3>1, Joined
      <3> QED
        BY <3>2, <3>3, <3>4
    <2>3. /\ w \o more \in Seq(Byte) /\ Len(w) \in Nat /\ Len(w \o more) = Len(w) + Len(says)
          /\ \A k \in 1 .. Len(w) : (w \o more)[k] = w[k]
          /\ \A k \in 1 .. Len(says) : (w \o more)[Len(w) + k] = more[k]
      BY <2>1, <2>2
    <2> QED
      BY <2>3 DEF more
  <1>8. Chars(wire') = Chars(w) \o says
    BY <1>4, <1>5, CharsOfBoth
  <1> QED
    BY <1>3, <1>4, <1>5, <1>6, <1>7, <1>8 DEF says

LEMMA HearBounds ==
    ASSUME TypeOK, NEW w \in Seq(Byte), NEW chars \in Seq(Characters), chars # <<>>,
           NEW n \in 0 .. MaxCalls, NEW m \in Nat, n <= m,
           \A k \in 1 .. Len(w) : w[k].of <= m, Hear(w, chars, n)
    PROVE  /\ wire' \in Seq(Byte) /\ heard' \in Seq(Characters) /\ output' \in BOOLEAN
           /\ \A k \in 1 .. Len(wire') : wire'[k].of <= m
  <1> DEFINE says == Told(chars)
  <1>1. /\ wire' \in Seq(Byte) /\ heard' \in Seq(Characters) /\ output' \in BOOLEAN
        /\ Len(w) \in Nat /\ Len(says) \in Nat /\ Len(wire') = Len(w) + Len(says)
        /\ \A k \in 1 .. Len(w) : wire'[k] = w[k]
        /\ \A k \in 1 .. Len(says) : wire'[Len(w) + k].of = n
    BY HearDoes
  <1> HIDE DEF says
  <1>2. ASSUME NEW k \in 1 .. Len(wire')
        PROVE  wire'[k].of <= m
    <2>1. CASE k \in 1 .. Len(w)
      BY <1>1, <2>1
    <2>2. CASE k \notin 1 .. Len(w)
      <3>1. k - Len(w) \in 1 .. Len(says) /\ k = Len(w) + (k - Len(w))
        BY <1>1, <2>2
      <3>2. wire'[Len(w) + (k - Len(w))].of = n
        BY <1>1, <3>1
      <3> QED
        BY <3>1, <3>2
    <2> QED
      BY <2>1, <2>2
  <1> QED
    BY <1>1, <1>2

Shape == TypeOK /\ Order

LEMMA InitShape == Init => Shape
  <1> SUFFICES ASSUME Init PROVE Shape
    OBVIOUS
  <1>1. "rst" \in Commands /\ MaxCalls \in Nat
    BY KepcoAssumption
  <1>2. Len(Line("rst")) \in Nat
    BY <1>1, LineFacts
  <1>3. <<>> \in Seq(Byte) /\ <<>> \in Seq(Characters) /\ Len(<<>>) = 0
    BY EmptySeq
  <1>4. TypeOK
    <2>1. world \in [echoes : BOOLEAN, late : BOOLEAN, signals : BOOLEAN, mute : BOOLEAN]
      BY DEF Init
    <2>2. {connected, status, echoed, blocked, output} \subseteq BOOLEAN
      BY DEF Init
    <2>3. cmd \in Commands /\ at \in 0 .. Len(Line(cmd)) /\ calls \in 0 .. MaxCalls
      BY <1>1, <1>2 DEF Init
    <2>4. got \in Seq(Byte) /\ wire \in Seq(Byte) /\ heard \in Seq(Characters)
      BY <1>3 DEF Init
    <2> QED
      BY <2>1, <2>2, <2>3, <2>4 DEF Init, TypeOK
  <1>5. Order
    BY <1>3 DEF Init, Order, Exchanging
  <1> QED
    BY <1>4, <1>5 DEF Shape

(* The end of an exchange.                                                 *)
LEMMA FinishKeeps ==
    ASSUME Shape, phase \in Exchanging,
           NEW result \in {"own", "mixed", "stale", "echo", "timeout"},
           NEW rest \in Seq(Byte), \A k \in 1 .. Len(rest) : rest[k].of <= calls,
           got' \in Seq(Byte), Finish(result, rest)
    PROVE  Shape'
  <1>0. TypeOK /\ Order
    BY DEF Shape
  <1>1. /\ connected /\ status /\ op \in {"open", "use", "close"}
        /\ op = "open" => cmd \in {"idn", "rem", "outp"}
    BY <1>0 DEF Order, TypeOK, Exchanging
  <1>2. /\ outcome' = result /\ phase' = "idle" /\ blocked' = FALSE
        /\ UNCHANGED <<world, echoed, cmd, at, calls, heard, output>>
    BY DEF Finish
  <1>3. CASE Disconnects(rest) /\ op' = "none"
    <2>1. PICK k \in 0 .. Len(rest) : wire' = SubSeq(rest, k + 1, Len(rest))
      BY <1>3 DEF Disconnects
    <2>2. Len(rest) \in Nat /\ \A i \in 1 .. Len(rest) : rest[i] \in Byte
      BY LenProperties, ElementOfSeq
    <2>3. /\ wire' \in Seq(Byte)
          /\ Len(wire') = IF k + 1 <= Len(rest) THEN Len(rest) - (k + 1) + 1 ELSE 0
          /\ \A i \in 1 .. Len(rest) - (k + 1) + 1 : wire'[i] = rest[(k + 1) + i - 1]
      <3>1. k + 1 \in Int /\ Len(rest) \in Int /\ \A i \in k + 1 .. Len(rest) : rest[i] \in Byte
        BY <2>2
      <3> QED
        BY <2>1, <3>1, SubSeqProperties
    <2>4. \A i \in 1 .. Len(wire') : wire'[i].of <= calls
      <3> SUFFICES ASSUME NEW i \in 1 .. Len(wire') PROVE wire'[i].of <= calls
        OBVIOUS
      <3>1. (k + 1) + i - 1 \in 1 .. Len(rest) /\ i \in 1 .. Len(rest) - (k + 1) + 1
        BY <2>2, <2>3
      <3> QED
        BY <2>3, <3>1
    <2>5. connected' = FALSE /\ status' = FALSE
      BY <1>3 DEF Disconnects
    <2>6. TypeOK'
      BY <1>0, <1>2, <1>3, <2>3, <2>5 DEF TypeOK, Line
    <2>7. Order'
      BY <1>2, <1>3, <2>4, <2>5 DEF Order, Exchanging
    <2> QED
      BY <2>6, <2>7 DEF Shape
  <1>4. CASE /\ op # "close" /\ wire' = rest /\ UNCHANGED <<connected, status>>
             /\ op' = IF op = "use" \/ cmd = "outp" THEN "none" ELSE op
    <2>1. TypeOK'
      BY <1>0, <1>1, <1>2, <1>4 DEF TypeOK, Line
    <2>2. Order'
      BY <1>0, <1>1, <1>2, <1>4 DEF Order, Exchanging
    <2> QED
      BY <2>1, <2>2 DEF Shape
  <1> QED
    BY <1>3, <1>4 DEF Finish

(* The beginning of one.                                                   *)
LEMMA BeginKeeps ==
    ASSUME Shape, NEW c \in Commands, NEW e \in BOOLEAN, calls + 1 <= MaxCalls, Begin(c, e)
    PROVE  /\ wire' \in Seq(Byte) /\ heard' \in Seq(Characters) /\ output' \in BOOLEAN
           /\ \A k \in 1 .. Len(wire') : wire'[k].of <= calls'
           /\ cmd' = c /\ at' = 1 /\ 1 \in 1 .. Len(Line(c)) /\ got' = <<>> /\ blocked' = FALSE
           /\ calls' = calls + 1 /\ calls' \in 0 .. MaxCalls
           /\ phase' = IF e THEN "echo" ELSE "response"
  <1>0. TypeOK /\ Order
    BY DEF Shape
  <1>1. wire \in Seq(Byte) /\ calls \in 0 .. MaxCalls /\ MaxCalls \in Nat
    BY <1>0, KepcoAssumption DEF TypeOK
  <1> DEFINE chars == IF e THEN SubSeq(Line(c), 1, 2) ELSE Line(c)
  <1>2. Line(c) \in Seq(Characters) /\ Len(Line(c)) \in Nat /\ Len(Line(c)) >= 4
    BY LineFacts
  <1>3. SubSeq(Line(c), 1, 2) \in Seq(Characters) /\ Len(SubSeq(Line(c), 1, 2)) = 2
    <2>1. \A i \in 1 .. 2 : Line(c)[i] \in Characters
      BY <1>2, ElementOfSeq
    <2> QED
      BY <2>1, SubSeqProperties
  <1>4. chars \in Seq(Characters) /\ chars # <<>>
    BY <1>2, <1>3, EmptySeq
  <1>5. Hear(wire, chars, calls + 1)
    BY DEF Begin
  <1>6. calls + 1 \in 0 .. MaxCalls
    BY <1>1
  <1> HIDE DEF chars
  <1>7. /\ calls + 1 \in Nat /\ calls + 1 <= calls + 1
        /\ \A k \in 1 .. Len(wire) : wire[k].of <= calls + 1
    <2>1. \A k \in 1 .. Len(wire) : wire[k] \in Byte /\ wire[k].of <= calls
      BY <1>0, <1>1, ElementOfSeq DEF Order
    <2> QED
      BY <1>1, <2>1 DEF Byte
  <1>8. /\ wire' \in Seq(Byte) /\ heard' \in Seq(Characters) /\ output' \in BOOLEAN
        /\ \A k \in 1 .. Len(wire') : wire'[k].of <= calls + 1
    BY <1>0, <1>1, <1>4, <1>5, <1>6, <1>7, HearBounds
  <1>9. /\ cmd' = c /\ at' = 1 /\ got' = <<>> /\ blocked' = FALSE /\ calls' = calls + 1
        /\ phase' = IF e THEN "echo" ELSE "response"
    BY DEF Begin
  <1> QED
    BY <1>2, <1>6, <1>8, <1>9

LEMMA RestOfWire ==
    ASSUME Shape, wire # <<>>
    PROVE  /\ Head(wire) \in Byte /\ Tail(wire) \in Seq(Byte)
           /\ \A k \in 1 .. Len(Tail(wire)) : Tail(wire)[k].of <= calls
           /\ Append(got, Head(wire)) \in Seq(Byte) /\ Len(got) \in Nat
           /\ Len(Append(got, Head(wire))) = Len(got) + 1
           /\ \A k \in 1 .. Len(got) : Append(got, Head(wire))[k] = got[k]
           /\ Append(got, Head(wire))[Len(got) + 1] = Head(wire)
  <1>0. wire \in Seq(Byte) /\ got \in Seq(Byte) /\ \A k \in 1 .. Len(wire) : wire[k].of <= calls
    BY DEF Shape, TypeOK, Order
  <1>1. /\ Head(wire) \in Byte /\ Tail(wire) \in Seq(Byte)
        /\ Len(wire) \in Nat \ {0} /\ Len(Tail(wire)) = Len(wire) - 1
        /\ \A k \in 1 .. Len(wire) - 1 : Tail(wire)[k] = wire[k + 1]
    BY <1>0, HeadAndRest
  <1>2. ASSUME NEW k \in 1 .. Len(Tail(wire))
        PROVE  Tail(wire)[k].of <= calls
    <2>1. k + 1 \in 1 .. Len(wire) /\ k \in 1 .. Len(wire) - 1
      BY <1>1
    <2> QED
      BY <1>0, <1>1, <2>1
  <1>3. /\ Append(got, Head(wire)) \in Seq(Byte) /\ Len(got) \in Nat
        /\ Len(Append(got, Head(wire))) = Len(got) + 1
        /\ \A k \in 1 .. Len(got) : Append(got, Head(wire))[k] = got[k]
        /\ Append(got, Head(wire))[Len(got) + 1] = Head(wire)
    BY <1>0, <1>1, AppendProperties, LenProperties
  <1> QED
    BY <1>1, <1>2, <1>3

(* The echo is read and a character more is sent.                          *)
LEMMA EchoKeeps ==
    ASSUME Shape, EchoRight
    PROVE  Shape'
  <1>0. TypeOK /\ Order
    BY DEF Shape
  <1>1. /\ phase = "echo" /\ wire # <<>> /\ blocked' = FALSE
        /\ UNCHANGED <<world, connected, status, echoed, op, cmd, got, calls, outcome>>
    BY DEF EchoRight, Arrives, driver
  <1>2. /\ Tail(wire) \in Seq(Byte) /\ calls \in 0 .. MaxCalls /\ MaxCalls \in Nat
        /\ \A k \in 1 .. Len(Tail(wire)) : Tail(wire)[k].of <= calls
    BY <1>0, <1>1, RestOfWire, KepcoAssumption DEF TypeOK
  <1>3. cmd \in Commands /\ at \in 1 .. Len(Line(cmd)) /\ Len(Line(cmd)) \in Nat /\ echoed = TRUE
    BY <1>0, <1>1, LineFacts DEF TypeOK, Order
  <1>4. /\ wire' \in Seq(Byte) /\ heard' \in Seq(Characters) /\ output' \in BOOLEAN
        /\ \A k \in 1 .. Len(wire') : wire'[k].of <= calls
    <2>1. CASE at + 2 <= Len(Line(cmd))
      <3> DEFINE ch == Line(cmd)[at + 2]
      <3>1. ch \in Characters
        <4>1. at + 2 \in 1 .. Len(Line(cmd)) /\ Line(cmd) \in Seq(Characters)
          BY <1>3, <2>1, LineFacts
        <4> QED
          BY <4>1, ElementOfSeq
      <3>2. Hear(Tail(wire), <<ch>>, calls)
        BY <2>1 DEF EchoRight
      <3> HIDE DEF ch
      <3>3. <<ch>> \in Seq(Characters) /\ <<ch>> # <<>>
        BY <3>1
      <3>4. calls \in Nat /\ calls <= calls
        BY <1>2
      <3> QED
        BY <1>0, <1>2, <3>2, <3>3, <3>4, HearBounds
    <2>2. CASE ~(at + 2 <= Len(Line(cmd)))
      BY <1>0, <1>2, <2>2 DEF EchoRight, TypeOK
    <2> QED
      BY <2>1, <2>2
  <1>5. \/ at = Len(Line(cmd)) /\ phase' = "response" /\ at' = at
        \/ at # Len(Line(cmd)) /\ phase' = "echo" /\ at' = at + 1
    BY <1>1 DEF EchoRight
  <1>6. phase' \in {"echo", "response"} /\ at' \in 1 .. Len(Line(cmd))
    BY <1>3, <1>5
  <1>7. TypeOK'
    <2>1. cmd' = cmd /\ at' \in 0 .. Len(Line(cmd')) /\ op \in {"open", "use", "close"}
      BY <1>0, <1>1, <1>3, <1>6 DEF TypeOK, Order, Exchanging
    <2> QED
      BY <1>0, <1>1, <1>4, <1>6, <2>1, ZenonT(40) DEF TypeOK
  <1>8. Order'
    <2>1. got' = <<>>
      BY <1>0, <1>1 DEF Order
    <2> QED
      BY <1>0, <1>1, <1>3, <1>4, <1>6, <2>1 DEF Order, Exchanging, Line
  <1> QED
    BY <1>7, <1>8 DEF Shape

(* The response and the prompt are read, or nothing comes.                 *)
LEMMA ReadingKeeps ==
    ASSUME Shape, EchoWrong \/ ResponseChar \/ ResponseEnds \/ PromptSkips \/ Prompted \/ NoAnswer
    PROVE  Shape'
  <1>0. TypeOK /\ Order
    BY DEF Shape
  <1>1. CASE EchoWrong
    <2>1. /\ phase \in Exchanging /\ wire # <<>> /\ got' \in Seq(Byte)
          /\ Finish("echo", Tail(wire))
      BY <1>0, <1>1 DEF EchoWrong, TypeOK, Exchanging
    <2> QED
      BY <2>1, RestOfWire, FinishKeeps
  <1>2. CASE ResponseChar
    <2>1. /\ phase = "response" /\ wire # <<>> /\ Head(wire).char # NL
          /\ got' = Append(got, Head(wire)) /\ wire' = Tail(wire) /\ blocked' = FALSE
          /\ UNCHANGED <<world, connected, status, echoed, op, phase, cmd, at, calls, outcome,
                         heard, output>>
      BY <1>2 DEF ResponseChar, Arrives, driver
    <2>2. TypeOK'
      BY <1>0, <2>1, RestOfWire, ZenonT(40) DEF TypeOK, Line
    <2>3. \A k \in 1 .. Len(got') : got'[k].char # NL
      BY <1>0, <2>1, RestOfWire DEF Order
    <2>4. Order'
      BY <1>0, <2>1, <2>3, RestOfWire DEF Order, Exchanging
    <2> QED
      BY <2>2, <2>4 DEF Shape
  <1>3. CASE ResponseEnds
    <2>1. /\ phase \in Exchanging /\ phase = "response" /\ wire # <<>>
          /\ got' = Append(got, Head(wire)) /\ got' \in Seq(Byte)
      BY <1>3, RestOfWire DEF ResponseEnds, Arrives, Exchanging
    <2>2. CASE echoed
      <3>1. /\ phase' = "prompt" /\ wire' = Tail(wire) /\ blocked' = FALSE
            /\ UNCHANGED <<world, connected, status, echoed, op, cmd, at, calls, outcome, heard, output>>
        BY <1>3, <2>2 DEF ResponseEnds, driver
      <3>2. TypeOK'
        BY <1>0, <2>1, <3>1, RestOfWire, ZenonT(40) DEF TypeOK, Line, Order, Exchanging
      <3>3. Order'
        BY <1>0, <2>1, <2>2, <3>1, RestOfWire DEF Order, Exchanging
      <3> QED
        BY <3>2, <3>3 DEF Shape
    <2>3. CASE ~echoed
      <3>1. Finish(Returned(got'), Tail(wire))
        BY <1>3, <2>3 DEF ResponseEnds
      <3>2. Returned(got') \in {"own", "mixed", "stale", "echo", "timeout"}
        BY DEF Returned
      <3> QED
        BY <2>1, <3>1, <3>2, RestOfWire, FinishKeeps
    <2> QED
      BY <2>2, <2>3
  <1>4. CASE PromptSkips
    <2>1. /\ phase = "prompt" /\ wire # <<>> /\ wire' = Tail(wire) /\ blocked' = FALSE
          /\ UNCHANGED <<world, connected, status, echoed, op, phase, cmd, at, got, calls, outcome,
                         heard, output>>
      BY <1>4 DEF PromptSkips, driver
    <2>2. TypeOK'
      BY <1>0, <2>1, RestOfWire, ZenonT(40) DEF TypeOK, Line
    <2>3. Order'
      BY <1>0, <2>1, RestOfWire DEF Order, Exchanging
    <2> QED
      BY <2>2, <2>3 DEF Shape
  <1>5. CASE Prompted
    <2>1. /\ phase \in Exchanging /\ wire # <<>> /\ got' \in Seq(Byte)
          /\ Finish(Returned(got), Tail(wire))
      BY <1>0, <1>5 DEF Prompted, TypeOK, Exchanging, Arrives
    <2>2. Returned(got) \in {"own", "mixed", "stale", "echo", "timeout"}
      BY DEF Returned
    <2> QED
      BY <2>1, <2>2, RestOfWire, FinishKeeps
  <1>6. CASE NoAnswer
    <2>1. /\ phase \in Exchanging /\ got' \in Seq(Byte)
          /\ \/ Finish("echo", wire)
             \/ Finish("timeout", wire)
      BY <1>6, EmptySeq DEF NoAnswer, Exchanging
    <2>2. wire \in Seq(Byte) /\ \A k \in 1 .. Len(wire) : wire[k].of <= calls
      BY <1>0 DEF TypeOK, Order
    <2> QED
      BY <2>1, <2>2, FinishKeeps
  <1> QED
    BY <1>1, <1>2, <1>3, <1>4, <1>5, <1>6

(* An exchange begins.                                                     *)
LEMMA CallsKeep ==
    ASSUME Shape, Identify \/ OpenGoesOn \/ Close \/ (\E c \in Uses : Use(c))
    PROVE  Shape'
  <1>0. TypeOK /\ Order
    BY DEF Shape
  <1>1. /\ calls \in 0 .. MaxCalls /\ MaxCalls \in Nat /\ Uses \subseteq Commands
        /\ {"idn", "rst", "rem", "outp"} \subseteq Commands
    BY <1>0, KepcoAssumption DEF TypeOK
  <1>2. PICK c \in Commands, e \in BOOLEAN :
            /\ Begin(c, e) /\ echoed' = e /\ calls + 1 <= MaxCalls
            /\ UNCHANGED <<world, connected, outcome>>
            /\ connected /\ status'
            /\ \/ op' \in {"use", "close"} /\ (op' = "close" => c = "rst")
               \/ op' = "open" /\ c = "idn" /\ calls + 3 <= MaxCalls
               \/ op' = "open" /\ c = "rem" /\ calls + 2 <= MaxCalls
               \/ op' = "open" /\ c = "outp"
    <2>1. CASE Identify
      <3>1. /\ phase = "wake" /\ Begin("idn", echoed') /\ echoed' \in BOOLEAN
            /\ status' = TRUE /\ UNCHANGED <<world, connected, op, outcome>>
        BY <2>1 DEF Identify
      <3>2. connected /\ op = "open" /\ calls + 3 <= MaxCalls
        BY <1>0, <3>1 DEF Order
      <3> QED
        BY <1>1, <3>1, <3>2
    <2>2. CASE OpenGoesOn
      <3>1. /\ op = "open" /\ phase = "idle" /\ Begin(IF cmd = "idn" THEN "rem" ELSE "outp", echoed)
            /\ UNCHANGED <<world, connected, status, echoed, op, outcome>>
        BY <2>2 DEF OpenGoesOn, driver
      <3>2. /\ connected /\ status /\ echoed \in BOOLEAN
            /\ \/ cmd = "idn" /\ calls + 2 <= MaxCalls
               \/ cmd = "rem" /\ calls + 1 <= MaxCalls
        BY <1>0, <3>1 DEF Order, TypeOK
      <3> QED
        BY <1>1, <3>1, <3>2
    <2>3. CASE Close
      <3>1. /\ op' = "close" /\ status /\ op = "none" /\ calls < MaxCalls /\ Begin("rst", echoed)
            /\ UNCHANGED <<world, connected, status, echoed, outcome>>
        BY <2>3 DEF Close
      <3>2. connected /\ echoed \in BOOLEAN
        BY <1>0, <3>1 DEF TypeOK
      <3> QED
        BY <1>1, <3>1, <3>2
    <2>4. ASSUME NEW c \in Uses, Use(c)
          PROVE  \E d \in Commands, e \in BOOLEAN :
                    /\ Begin(d, e) /\ echoed' = e /\ calls + 1 <= MaxCalls
                    /\ UNCHANGED <<world, connected, outcome>>
                    /\ connected /\ status'
                    /\ op' \in {"use", "close"} /\ (op' = "close" => d = "rst")
      <3>1. /\ op' = "use" /\ status /\ op = "none" /\ calls < MaxCalls /\ Begin(c, echoed)
            /\ UNCHANGED <<world, connected, status, echoed, outcome>>
        BY <2>4 DEF Use
      <3>2. connected /\ echoed \in BOOLEAN /\ c \in Commands
        BY <1>0, <1>1, <3>1 DEF TypeOK
      <3> QED
        BY <1>1, <3>1, <3>2
    <2> QED
      BY <2>1, <2>2, <2>3, <2>4
  <1>3. /\ wire' \in Seq(Byte) /\ heard' \in Seq(Characters) /\ output' \in BOOLEAN
        /\ \A k \in 1 .. Len(wire') : wire'[k].of <= calls'
        /\ cmd' = c /\ at' = 1 /\ 1 \in 1 .. Len(Line(c)) /\ got' = <<>> /\ blocked' = FALSE
        /\ calls' = calls + 1 /\ calls' \in 0 .. MaxCalls
        /\ phase' = IF e THEN "echo" ELSE "response"
    BY <1>2, BeginKeeps
  <1>4. connected = TRUE /\ status' = TRUE
    <2>1. connected \in BOOLEAN /\ status \in BOOLEAN
      BY <1>0 DEF TypeOK
    <2>2. status' \in BOOLEAN
      BY <2>1, <1>2 DEF Identify, OpenGoesOn, Close, Use, driver
    <2> QED
      BY <1>2, <2>1, <2>2
  <1>5. TypeOK'
    <2>1. /\ at' \in 0 .. Len(Line(cmd')) /\ cmd' \in Commands
          /\ got' \in Seq(Byte) /\ Len(got') = 0
      BY <1>3, EmptySeq
    <2>2. op' \in {"use", "close", "open"} /\ phase' \in {"echo", "response"}
      BY <1>2, <1>3
    <2> QED
      BY <1>0, <1>2, <1>3, <1>4, <2>1, <2>2, ZenonT(40) DEF TypeOK
  <1>6. Order'
    <2>1. Len(got') = 0 /\ at' \in 1 .. Len(Line(cmd')) /\ phase' \in {"echo", "response"}
      BY <1>3
    <2>2. calls' \in Nat /\ calls \in Nat
      BY <1>1, <1>3
    <2> QED
      BY <1>1, <1>2, <1>3, <1>4, <2>1, <2>2 DEF Order, Exchanging
  <1> QED
    BY <1>5, <1>6 DEF Shape

(* A port is opened, drained and woken.                                    *)
LEMMA OpeningKeeps ==
    ASSUME Shape, (\E works \in BOOLEAN : Open(works)) \/ Drain \/ Wake
    PROVE  Shape'
  <1>0. TypeOK /\ Order
    BY DEF Shape
  <1>1. ASSUME NEW works \in BOOLEAN, Open(works)
        PROVE  Shape'
    <2>1. /\ op = "none" /\ calls + 3 <= MaxCalls /\ connected' = (connected \/ works)
          /\ status' = FALSE /\ echoed' = FALSE /\ outcome' = "none" /\ got' = <<>>
          /\ UNCHANGED <<world, blocked, cmd, at, calls, wire, heard, output>>
      BY <1>1 DEF Open, supply
    <2>2. \/ connected' /\ op' = "open" /\ phase' = "drain"
          \/ ~connected' /\ op' = "none" /\ phase' = "idle"
      BY <1>0, <1>1, <2>1 DEF Open, TypeOK
    <2>3. connected' \in BOOLEAN /\ (~connected' => connected' = FALSE)
      BY <1>0, <2>1 DEF TypeOK
    <2>4. TypeOK'
      BY <1>0, <2>1, <2>2, <2>3, EmptySeq DEF TypeOK, Line
    <2>5. Order'
      BY <1>0, <2>1, <2>2 DEF Order, Exchanging
    <2> QED
      BY <2>4, <2>5 DEF Shape
  <1>2. CASE Drain
    <2>1. /\ phase \in {"drain", "wake"} /\ wire # <<>> /\ wire' = Tail(wire) /\ blocked' = FALSE
          /\ got' = <<>> \/ got' = Append(got, Head(wire))
          /\ UNCHANGED <<world, connected, status, echoed, op, phase, cmd, at, calls, outcome,
                         heard, output>>
      BY <1>2 DEF Drain, driver
    <2>2. got' \in Seq(Byte)
      BY <2>1, RestOfWire, EmptySeq
    <2>3. TypeOK'
      BY <1>0, <2>1, <2>2, RestOfWire, ZenonT(40) DEF TypeOK, Line
    <2>4. Order'
      BY <1>0, <2>1, RestOfWire DEF Order, Exchanging
    <2> QED
      BY <2>3, <2>4 DEF Shape
  <1>3. CASE Wake
    <2>1. /\ phase = "drain" /\ phase' = "wake" /\ got' = <<>> /\ Hear(wire, <<NL>>, 0)
          /\ UNCHANGED <<world, connected, status, echoed, op, blocked, cmd, at, calls, outcome>>
      BY <1>3 DEF Wake, driver
    <2>2. /\ wire \in Seq(Byte) /\ calls \in Nat /\ 0 \in 0 .. MaxCalls /\ 0 <= calls
          /\ \A k \in 1 .. Len(wire) : wire[k].of <= calls
      BY <1>0, KepcoAssumption DEF TypeOK, Order
    <2> DEFINE chars == <<NL>>
    <2>3. chars \in Seq(Characters) /\ chars # <<>>
      BY SomeCharacters
    <2>4. Hear(wire, chars, 0)
      BY <2>1
    <2> HIDE DEF chars
    <2>5. /\ wire' \in Seq(Byte) /\ heard' \in Seq(Characters) /\ output' \in BOOLEAN
          /\ \A k \in 1 .. Len(wire') : wire'[k].of <= calls
      BY <1>0, <2>2, <2>3, <2>4, HearBounds
    <2>6. TypeOK'
      BY <1>0, <2>1, <2>5, EmptySeq DEF TypeOK, Order, Line
    <2>7. Order'
      BY <1>0, <2>1, <2>5 DEF Order, Exchanging
    <2> QED
      BY <2>6, <2>7 DEF Shape
  <1> QED
    BY <1>1, <1>2, <1>3

LEMMA NextShape == Shape /\ [Next]_vars => Shape'
  <1> SUFFICES ASSUME Shape, [Next]_vars PROVE Shape'
    OBVIOUS
  <1>0. TypeOK /\ Order
    BY DEF Shape
  <1>1. CASE (\E works \in BOOLEAN : Open(works)) \/ Drain \/ Wake
    BY <1>1, OpeningKeeps
  <1>2. CASE Identify \/ OpenGoesOn \/ Close \/ (\E c \in Uses : Use(c))
    BY <1>2, CallsKeep
  <1>3. CASE EchoRight
    BY <1>3, EchoKeeps
  <1>4. CASE EchoWrong \/ ResponseChar \/ ResponseEnds \/ PromptSkips \/ Prompted \/ NoAnswer
    BY <1>4, ReadingKeeps
  <1>5. CASE Interrupted \/ FallsMute \/ UNCHANGED vars
    <2>1. UNCHANGED <<connected, status, echoed, op, phase, cmd, at, got, calls, outcome,
                      wire, heard, output>>
      BY <1>5 DEF Interrupted, FallsMute, vars, driver, supply
    <2>2. blocked' \in BOOLEAN
      BY <1>0, <1>5 DEF Interrupted, FallsMute, vars, TypeOK
    <2>3. world' \in [echoes : BOOLEAN, late : BOOLEAN, signals : BOOLEAN, mute : BOOLEAN]
      BY <1>0, <1>5 DEF Interrupted, FallsMute, vars, TypeOK
    <2>4. TypeOK'
      BY <1>0, <2>1, <2>2, <2>3 DEF TypeOK, Line
    <2>5. Order'
      BY <1>0, <2>1 DEF Order, Line
    <2> QED
      BY <2>4, <2>5 DEF Shape
  <1> QED
    BY <1>1, <1>2, <1>3, <1>4, <1>5 DEF Next, User, Running

(* The types of the variables, and a supply that is ready is connected.    *)
THEOREM TypeInvariant == Spec => []TypeOK
  <1>1. Shape => TypeOK
    BY DEF Shape
  <1> QED
    BY <1>1, InitShape, NextShape, PTL DEF Spec

----------------------------------------------------------------------------
(* The hand-shake.                                                         *)

(* What the supply says to what it hears.                                  *)
LEMMA ToldFacts ==
    ASSUME TypeOK, NEW chars \in Seq(Characters), chars # <<>>
    PROVE  /\ world.mute => Told(chars) = <<>>
           /\ ~world.mute /\ world.echoes /\ ~Ends(chars) => Told(chars) = chars
           /\ ~world.mute /\ world.echoes /\ Ends(chars) =>
                 Told(chars) = (chars \o Reply(LineOf(heard, chars))) \o <<PROMPT>>
           /\ ~world.mute /\ ~world.echoes /\ ~Ends(chars) => Told(chars) = <<>>
           /\ ~world.mute /\ ~world.echoes /\ Ends(chars) =>
                 Told(chars) = Reply(LineOf(heard, chars))
  <1> DEFINE r == Reply(LineOf(heard, chars))
  <1>1. r \in Seq(Characters) /\ <<>> \in Seq(Characters)
    BY ReplyFacts
  <1>2. Told(chars) = IF world.mute THEN <<>> ELSE Says(world.echoes, heard, chars)
    BY DEF Told
  <1>3. Says(world.echoes, heard, chars) =
            ((IF world.echoes THEN chars ELSE <<>>) \o (IF Ends(chars) THEN r ELSE <<>>))
            \o (IF Ends(chars) /\ world.echoes THEN <<PROMPT>> ELSE <<>>)
    BY DEF Says
  <1> HIDE DEF r
  <1>4. /\ (chars \o <<>>) \o <<>> = chars
        /\ (<<>> \o <<>>) \o <<>> = <<>>
        /\ (<<>> \o r) \o <<>> = r
    BY <1>1, ConcatEmptySeq
  <1>5. CASE Ends(chars)
    BY <1>2, <1>3, <1>4, <1>5 DEF r
  <1>6. CASE ~Ends(chars)
    BY <1>2, <1>3, <1>4, <1>6
  <1> QED
    BY <1>5, <1>6

(* Where nothing is echoed there is no prompt.                             *)
LEMMA NoPromptTold ==
    ASSUME TypeOK, NEW chars \in Seq(Characters), chars # <<>>, ~world.echoes
    PROVE  \A k \in 1 .. Len(Told(chars)) : Told(chars)[k] # PROMPT
  <1>1. Told(chars) = <<>> \/ Told(chars) = Reply(LineOf(heard, chars))
    BY ToldFacts DEF TypeOK
  <1>2. NL # PROMPT /\ \A c \in Asking : Answer[c] # PROMPT
    BY SomeCharacters DEF NL, PROMPT
  <1>3. \A k \in 1 .. Len(<<>>) : FALSE
    OBVIOUS
  <1>4. Reply(LineOf(heard, chars)) = <<>>
        \/ Reply(LineOf(heard, chars)) = <<NL>>
        \/ \E c \in Asking : Reply(LineOf(heard, chars)) = <<Answer[c], NL>>
    BY ReplyFacts
  <1>5. CASE Told(chars) = <<>>
    BY <1>3, <1>5
  <1>6. CASE Told(chars) = <<NL>>
    BY <1>2, <1>6
  <1>7. ASSUME NEW c \in Asking, Told(chars) = <<Answer[c], NL>>
        PROVE  \A k \in 1 .. Len(Told(chars)) : Told(chars)[k] # PROMPT
    BY <1>2, <1>7
  <1> QED
    BY <1>1, <1>4, <1>5, <1>6, <1>7

(* A step takes bytes from the wire, or hears and puts more there.         *)
Taken(w) == \E j \in 0 .. Len(wire) : w = SubSeq(wire, j + 1, Len(wire))

LEMMA TakenFacts ==
    ASSUME TypeOK, NEW w, Taken(w)
    PROVE  /\ w \in Seq(Byte) /\ Len(w) \in Nat
           /\ \E j \in 0 .. Len(wire) : Len(w) = Len(wire) - j /\ \A k \in 1 .. Len(w) : w[k] = wire[j + k]
  <1>1. PICK j \in 0 .. Len(wire) : w = SubSeq(wire, j + 1, Len(wire))
    BY DEF Taken
  <1>2. Len(wire) \in Nat /\ \A i \in 1 .. Len(wire) : wire[i] \in Byte
    BY LenProperties, ElementOfSeq DEF TypeOK
  <1>3. /\ w \in Seq(Byte) /\ Len(w) = IF j + 1 <= Len(wire) THEN Len(wire) - (j + 1) + 1 ELSE 0
        /\ \A i \in 1 .. Len(wire) - (j + 1) + 1 : w[i] = wire[(j + 1) + i - 1]
    <2>1. j + 1 \in Int /\ Len(wire) \in Int /\ \A i \in j + 1 .. Len(wire) : wire[i] \in Byte
      BY <1>2
    <2> QED
      BY <1>1, <2>1, SubSeqProperties
  <1>4. Len(w) = Len(wire) - j /\ Len(w) \in Nat
    BY <1>2, <1>3
  <1>5. ASSUME NEW k \in 1 .. Len(w)
        PROVE  w[k] = wire[j + k]
    <2>1. k \in 1 .. Len(wire) - (j + 1) + 1 /\ (j + 1) + k - 1 = j + k
      BY <1>2, <1>4
    <2>2. w[k] = wire[(j + 1) + k - 1]
      BY <1>3, <2>1
    <2> QED
      BY <2>1, <2>2
  <1> QED
    BY <1>3, <1>4, <1>5

LEMMA AllOrTail ==
    ASSUME TypeOK
    PROVE  /\ Taken(wire)
           /\ wire # <<>> => /\ Taken(Tail(wire))
                             /\ \A k \in 0 .. Len(Tail(wire)) :
                                   Taken(SubSeq(Tail(wire), k + 1, Len(Tail(wire))))
  <1>1. wire \in Seq(Byte) /\ Len(wire) \in Nat
    BY LenProperties DEF TypeOK
  <1>2. Taken(wire)
    <2>1. SubSeq(wire, 0 + 1, Len(wire)) = wire
      BY <1>1, SubSeqFull
    <2> QED
      BY <1>1, <2>1 DEF Taken
  <1>3. ASSUME wire # <<>>, NEW k \in 0 .. Len(Tail(wire))
        PROVE  Taken(SubSeq(Tail(wire), k + 1, Len(Tail(wire))))
    <2>1. /\ Tail(wire) \in Seq(Byte) /\ Len(Tail(wire)) = Len(wire) - 1
          /\ \A i \in 1 .. Len(wire) - 1 : Tail(wire)[i] = wire[i + 1]
          /\ \A i \in 1 .. Len(wire) : wire[i] \in Byte
      BY <1>1, <1>3, HeadAndRest, ElementOfSeq
    <2> DEFINE a == SubSeq(Tail(wire), k + 1, Len(Tail(wire)))
               b == SubSeq(wire, (k + 1) + 1, Len(wire))
               n == Len(wire)
    <2>2. \A i \in k + 1 .. n - 1 : Tail(wire)[i] \in Byte
      BY <1>1, <2>1
    <2>3. /\ a \in Seq(Byte) /\ Len(a) = IF k + 1 <= n - 1 THEN (n - 1) - (k + 1) + 1 ELSE 0
          /\ \A i \in 1 .. (n - 1) - (k + 1) + 1 : a[i] = Tail(wire)[(k + 1) + i - 1]
      <3>1. k + 1 \in Int /\ n - 1 \in Int
        BY <1>1
      <3>2. SubSeq(Tail(wire), k + 1, n - 1) = a
        BY <2>1
      <3> QED
        BY <2>2, <3>1, <3>2, SubSeqProperties
    <2>4. /\ b \in Seq(Byte) /\ Len(b) = IF (k + 1) + 1 <= n THEN n - ((k + 1) + 1) + 1 ELSE 0
          /\ \A i \in 1 .. n - ((k + 1) + 1) + 1 : b[i] = wire[((k + 1) + 1) + i - 1]
      <3>1. (k + 1) + 1 \in Int /\ n \in Int /\ \A i \in (k + 1) + 1 .. n : wire[i] \in Byte
        BY <1>1, <2>1
      <3> QED
        BY <3>1, SubSeqProperties
    <2>5. k + 1 \in 0 .. Len(wire)
      BY <1>1, <2>1
    <2>6. a = b
      <3>1. Len(a) = Len(b) /\ Len(a) \in Nat
        BY <1>1, <2>1, <2>3, <2>4
      <3>2. ASSUME NEW i \in 1 .. Len(a)
            PROVE  a[i] = b[i]
        <4>1. /\ i \in 1 .. (n - 1) - (k + 1) + 1 /\ i \in 1 .. n - ((k + 1) + 1) + 1
              /\ (k + 1) + i - 1 \in 1 .. n - 1 /\ ((k + 1) + i - 1) + 1 = ((k + 1) + 1) + i - 1
          BY <1>1, <2>1, <2>3, <2>4
        <4>2. a[i] = Tail(wire)[(k + 1) + i - 1] /\ b[i] = wire[((k + 1) + 1) + i - 1]
          BY <2>3, <2>4, <4>1
        <4>3. Tail(wire)[(k + 1) + i - 1] = wire[((k + 1) + i - 1) + 1]
          BY <2>1, <4>1
        <4> QED
          BY <4>1, <4>2, <4>3
      <3> QED
        BY <2>3, <2>4, <3>1, <3>2, SeqEqual
    <2> QED
      BY <2>5, <2>6 DEF Taken
  <1>4. ASSUME wire # <<>>
        PROVE  Taken(Tail(wire))
    <2>1. Tail(wire) = SubSeq(wire, 1 + 1, Len(wire)) /\ 1 \in 0 .. Len(wire)
      BY <1>1, <1>4, TailIsSubSeq, EmptySeq
    <2> QED
      BY <2>1 DEF Taken
  <1> QED
    BY <1>2, <1>3, <1>4

(* Characters that are written are none of an answer.                      *)
Writable(chars) ==
    /\ chars \in Seq(Characters) /\ chars # <<>>
    /\ \A k \in 1 .. Len(chars) : chars[k] \notin Range(Answer)

Hears(w) == \E chars \in Seq(Characters), n \in 0 .. MaxCalls : Writable(chars) /\ Hear(w, chars, n)

LEMMA Flow ==
    ASSUME Shape, [Next]_vars
    PROVE  /\ got' = got \/ got' = <<>> \/ (wire # <<>> /\ got' = Append(got, Head(wire)))
           /\ \E w : Taken(w) /\ ((wire' = w /\ heard' = heard) \/ Hears(w))
  <1>0. TypeOK /\ Order
    BY DEF Shape
  <1> DEFINE Gets == got' = got \/ got' = <<>> \/ (wire # <<>> /\ got' = Append(got, Head(wire)))
             Flows == \E w : Taken(w) /\ ((wire' = w /\ heard' = heard) \/ Hears(w))
  <1>1. Taken(wire)
    BY <1>0, AllOrTail
  <1>2. ASSUME NEW result, NEW rest, Finish(result, rest),
               rest = wire \/ (wire # <<>> /\ rest = Tail(wire))
        PROVE  Flows
    <2>1. /\ heard' = heard
          /\ wire' = rest \/ \E k \in 0 .. Len(rest) : wire' = SubSeq(rest, k + 1, Len(rest))
      BY <1>2 DEF Finish, Disconnects
    <2>2. CASE wire' = rest
      BY <1>0, <1>2, <2>1, <2>2, AllOrTail
    <2>3. ASSUME NEW k \in 0 .. Len(rest), wire' = SubSeq(rest, k + 1, Len(rest))
          PROVE  Taken(wire')
      <3>1. CASE rest = wire
        BY <2>3, <3>1 DEF Taken
      <3>2. CASE wire # <<>> /\ rest = Tail(wire)
        BY <1>0, <2>3, <3>2, AllOrTail
      <3> QED
        BY <1>2, <3>1, <3>2
    <2> QED
      BY <2>1, <2>2, <2>3
  <1>3. ASSUME NEW c \in Commands, NEW e \in BOOLEAN, calls + 1 <= MaxCalls, Begin(c, e)
        PROVE  Gets /\ Flows
    <2> DEFINE chars == IF e THEN SubSeq(Line(c), 1, 2) ELSE Line(c)
    <2>1. Hear(wire, chars, calls + 1) /\ got' = <<>>
      BY <1>3 DEF Begin
    <2>2. /\ Line(c) \in Seq(Characters) /\ Len(Line(c)) \in Nat /\ Len(Line(c)) >= 4
          /\ \A k \in 1 .. Len(Line(c)) : Line(c)[k] \notin Range(Answer)
      BY LineFacts
    <2> DEFINE s == SubSeq(Line(c), 1, 2)
    <2>3. s \in Seq(Characters) /\ Len(s) = 2 /\ \A k \in 1 .. 2 : s[k] \notin Range(Answer)
      <3>1. \A i \in 1 .. 2 : Line(c)[i] \in Characters
        BY <2>2, ElementOfSeq
      <3>2. s \in Seq(Characters) /\ Len(s) = 2 /\ \A k \in 1 .. 2 : s[k] = Line(c)[1 + k - 1]
        BY <3>1, SubSeqProperties
      <3> HIDE DEF s
      <3> QED
        BY <2>2, <3>2
    <2>4. Writable(chars)
      <3>1. Writable(Line(c))
        BY <2>2, EmptySeq DEF Writable
      <3>2. Writable(s)
        <4> HIDE DEF s
        <4> QED
          BY <2>3, EmptySeq DEF Writable
      <3> QED
        BY <3>1, <3>2
    <2>5. calls + 1 \in 0 .. MaxCalls
      BY <1>0, <1>3, KepcoAssumption DEF TypeOK
    <2> HIDE DEF chars
    <2>6. Hears(wire)
      BY <2>1, <2>4, <2>5 DEF Hears, Writable
    <2> QED
      BY <1>1, <2>1, <2>6
  <1>4. CASE \E works \in BOOLEAN : Open(works)
    BY <1>1, <1>4 DEF Open, supply
  <1>5. CASE Drain
    BY <1>0, <1>5, AllOrTail DEF Drain
  <1>6. CASE Wake
    <2>1. got' = <<>> /\ Hear(wire, <<NL>>, 0)
      BY <1>6 DEF Wake
    <2>2. Writable(<<NL>>) /\ 0 \in 0 .. MaxCalls
      BY SomeCharacters, KepcoAssumption DEF Writable
    <2>3. Hears(wire)
      BY <2>1, <2>2 DEF Hears, Writable
    <2> QED
      BY <1>1, <2>1, <2>3
  <1>7. CASE Identify \/ OpenGoesOn \/ Close \/ (\E c \in Uses : Use(c))
    <2>1. /\ calls \in 0 .. MaxCalls /\ MaxCalls \in Nat /\ Uses \subseteq Commands
          /\ {"idn", "rst", "rem", "outp"} \subseteq Commands /\ echoed \in BOOLEAN
      BY <1>0, KepcoAssumption DEF TypeOK
    <2>2. PICK c \in Commands, e \in BOOLEAN : Begin(c, e) /\ calls + 1 <= MaxCalls
      <3>1. CASE Identify
        <4>1. phase = "wake" /\ Begin("idn", echoed') /\ echoed' \in BOOLEAN
          BY <3>1 DEF Identify
        <4>2. calls + 3 <= MaxCalls
          BY <1>0, <4>1 DEF Order
        <4> QED
          BY <2>1, <4>1, <4>2
      <3>2. CASE OpenGoesOn
        <4>1. op = "open" /\ phase = "idle" /\ Begin(IF cmd = "idn" THEN "rem" ELSE "outp", echoed)
          BY <3>2 DEF OpenGoesOn
        <4>2. calls + 2 <= MaxCalls \/ calls + 1 <= MaxCalls
          BY <1>0, <4>1 DEF Order
        <4> QED
          BY <2>1, <4>1, <4>2
      <3>3. CASE Close
        BY <2>1, <3>3 DEF Close
      <3>4. ASSUME NEW c \in Uses, Use(c)
            PROVE  Begin(c, echoed) /\ calls + 1 <= MaxCalls /\ c \in Commands
        BY <2>1, <3>4 DEF Use
      <3> QED
        BY <1>7, <2>1, <3>1, <3>2, <3>3, <3>4
    <2> QED
      BY <1>3, <2>2
  <1>8. CASE EchoRight
    <2>1. wire # <<>> /\ got' = got /\ Taken(Tail(wire))
      BY <1>0, <1>8, AllOrTail DEF EchoRight, Arrives
    <2>2. CASE at + 2 <= Len(Line(cmd))
      <3>1. Hear(Tail(wire), <<Line(cmd)[at + 2]>>, calls)
        BY <1>8, <2>2 DEF EchoRight
      <3>2. cmd \in Commands /\ at \in 1 .. Len(Line(cmd)) /\ calls \in 0 .. MaxCalls
        BY <1>0, <1>8 DEF TypeOK, Order, EchoRight
      <3>3. /\ Line(cmd) \in Seq(Characters) /\ at + 2 \in 1 .. Len(Line(cmd))
            /\ \A k \in 1 .. Len(Line(cmd)) : Line(cmd)[k] \notin Range(Answer)
        BY <2>2, <3>2, LineFacts
      <3>4. Line(cmd)[at + 2] \in Characters /\ Line(cmd)[at + 2] \notin Range(Answer)
        BY <3>3, ElementOfSeq
      <3> DEFINE ch == Line(cmd)[at + 2]
      <3>5. ch \in Characters /\ ch \notin Range(Answer) /\ Hear(Tail(wire), <<ch>>, calls)
        BY <3>1, <3>4
      <3> HIDE DEF ch
      <3>6. Writable(<<ch>>)
        BY <3>5 DEF Writable
      <3>7. Hears(Tail(wire))
        BY <3>2, <3>5, <3>6 DEF Hears, Writable
      <3> QED
        BY <2>1, <3>7
    <2>3. CASE ~(at + 2 <= Len(Line(cmd)))
      <3>1. wire' = Tail(wire) /\ heard' = heard
        BY <1>8, <2>3 DEF EchoRight
      <3> QED
        BY <2>1, <3>1
    <2> QED
      BY <2>2, <2>3
  <1>9. CASE ResponseChar \/ PromptSkips
    <2>1. /\ wire # <<>> /\ wire' = Tail(wire) /\ heard' = heard
          /\ got' = got \/ got' = Append(got, Head(wire))
      BY <1>9 DEF ResponseChar, PromptSkips
    <2> QED
      BY <1>0, <2>1, AllOrTail
  <1>10. CASE ResponseEnds
    <2>1. wire # <<>> /\ got' = Append(got, Head(wire))
      BY <1>10 DEF ResponseEnds, Arrives
    <2>2. (wire' = Tail(wire) /\ heard' = heard) \/ Finish(Returned(got'), Tail(wire))
      BY <1>10 DEF ResponseEnds
    <2> QED
      BY <1>0, <1>2, <2>1, <2>2, AllOrTail
  <1>11. CASE EchoWrong \/ Prompted \/ NoAnswer
    <2>1. got' = got \/ got' = <<>>
      BY <1>11 DEF EchoWrong, Prompted, NoAnswer
    <2>2. \/ wire # <<>> /\ Finish("echo", Tail(wire))
          \/ wire # <<>> /\ Finish(Returned(got), Tail(wire))
          \/ Finish(IF phase = "echo" THEN "echo" ELSE "timeout", wire)
      BY <1>11 DEF EchoWrong, Prompted, NoAnswer, Arrives
    <2>3. Flows
      BY <1>2, <2>2
    <2> QED
      BY <2>1, <2>3
  <1>12. CASE Interrupted \/ FallsMute \/ UNCHANGED vars
    <2>1. wire' = wire /\ got' = got /\ heard' = heard
      BY <1>12 DEF Interrupted, FallsMute, vars, supply
    <2> QED
      BY <1>1, <2>1
  <1> QED
    BY <1>4, <1>5, <1>6, <1>7, <1>8, <1>9, <1>10, <1>11, <1>12 DEF Next, User, Running

(* Where the supply does not echo no prompt comes, and the driver does not *)
(* believe that it echoes.                                                 *)
NoPrompts ==
    ~world.echoes =>
        /\ ~echoed
        /\ \A k \in 1 .. Len(wire) : wire[k].char # PROMPT
        /\ \A k \in 1 .. Len(got) : got[k].char # PROMPT

LEMMA WorldStays ==
    ASSUME TypeOK, [Next]_vars
    PROVE  /\ world'.echoes = world.echoes /\ world'.late = world.late
           /\ world.mute => world'.mute
           /\ \/ world' = world
              \/ world'.mute /\ UNCHANGED <<driver, phase, blocked, cmd, at, got, calls, outcome, supply>>
  <1>1. CASE FallsMute
    BY <1>1 DEF FallsMute, TypeOK
  <1>2. CASE world' = world
    BY <1>2
  <1> QED
    BY <1>1, <1>2
    DEF Next, User, Running, Open, Drain, Wake, Identify, OpenGoesOn, EchoRight, EchoWrong,
        ResponseChar, ResponseEnds, PromptSkips, Prompted, NoAnswer, Use, Close, Finish,
        Interrupted, vars

(* What is believed of echoes changes only when a port is opened.          *)
LEMMA EchoedStays ==
    ASSUME [Next]_vars
    PROVE  echoed' = echoed \/ Identify \/ echoed' = FALSE
  <1>1. CASE \E works \in BOOLEAN : Open(works)
    BY <1>1 DEF Open
  <1>2. CASE Identify
    BY <1>2
  <1>3. CASE Close \/ \E c \in Uses : Use(c)
    BY <1>3 DEF Close, Use
  <1>4. CASE Drain \/ Wake \/ OpenGoesOn \/ EchoRight \/ ResponseChar \/ PromptSkips
    BY <1>4 DEF Drain, Wake, OpenGoesOn, EchoRight, ResponseChar, PromptSkips, driver
  <1>5. CASE EchoWrong \/ ResponseEnds \/ Prompted \/ NoAnswer
    BY <1>5 DEF EchoWrong, ResponseEnds, Prompted, NoAnswer, Finish, driver
  <1>6. CASE Interrupted \/ FallsMute \/ UNCHANGED vars
    BY <1>6 DEF Interrupted, FallsMute, vars, driver
  <1> QED
    BY <1>1, <1>2, <1>3, <1>4, <1>5, <1>6 DEF Next, User, Running

LEMMA NextNoPrompts ==
    ASSUME Shape, NoPrompts, [Next]_vars
    PROVE  NoPrompts'
  <1>0. TypeOK /\ Order
    BY DEF Shape
  <1> SUFFICES ASSUME ~world.echoes
               PROVE  /\ ~echoed'
                      /\ \A k \in 1 .. Len(wire') : wire'[k].char # PROMPT
                      /\ \A k \in 1 .. Len(got') : got'[k].char # PROMPT
    BY <1>0, WorldStays DEF NoPrompts
  <1>1. /\ ~echoed
        /\ \A k \in 1 .. Len(wire) : wire[k].char # PROMPT
        /\ \A k \in 1 .. Len(got) : got[k].char # PROMPT
    BY DEF NoPrompts
  <1>2. ~echoed'
    <2>1. CASE Identify
      <3>1. echoed' = (Chars(got) = <<PROMPT>>)
        BY <2>1 DEF Identify
      <3>2. ASSUME Chars(got) = <<PROMPT>>
            PROVE  FALSE
        <4>1. /\ Len(Chars(got)) = Len(got) /\ Len(got) \in Nat
              /\ \A k \in 1 .. Len(got) : Chars(got)[k] = got[k].char
          BY <1>0, CharsFacts DEF TypeOK
        <4>2. Len(got) = 1
          BY <3>2, <4>1
        <4>3. got[1].char = PROMPT
          BY <3>2, <4>1, <4>2
        <4> QED
          BY <1>1, <4>2, <4>3
      <3> QED
        BY <3>1, <3>2
    <2> QED
      BY <1>1, <2>1, EchoedStays
  <1>3. /\ got' = got \/ got' = <<>> \/ (wire # <<>> /\ got' = Append(got, Head(wire)))
        /\ \E w : Taken(w) /\ (wire' = w \/ Hears(w))
    BY Flow
  <1>4. \A k \in 1 .. Len(got') : got'[k].char # PROMPT
    <2>1. CASE wire # <<>> /\ got' = Append(got, Head(wire))
      <3>1. /\ Len(got) \in Nat /\ Len(got') = Len(got) + 1
            /\ \A k \in 1 .. Len(got) : got'[k] = got[k]
            /\ got'[Len(got) + 1] = Head(wire)
        BY <2>1, RestOfWire
      <3>2. Head(wire) = wire[1] /\ 1 \in 1 .. Len(wire)
        BY <1>0, <2>1, HeadAndRest DEF TypeOK
      <3> QED
        BY <1>1, <3>1, <3>2
    <2> QED
      BY <1>1, <1>3, <2>1
  <1>5. PICK w : Taken(w) /\ (wire' = w \/ Hears(w))
    BY <1>3
  <1>6. w \in Seq(Byte) /\ Len(w) \in Nat /\ \A k \in 1 .. Len(w) : w[k].char # PROMPT
    <2>1. /\ w \in Seq(Byte) /\ Len(w) \in Nat
          /\ \E j \in 0 .. Len(wire) : Len(w) = Len(wire) - j /\ \A k \in 1 .. Len(w) : w[k] = wire[j + k]
      BY <1>0, <1>5, TakenFacts
    <2>2. PICK j \in 0 .. Len(wire) : Len(w) = Len(wire) - j /\ \A k \in 1 .. Len(w) : w[k] = wire[j + k]
      BY <2>1
    <2>3. Len(wire) \in Nat
      BY <1>0, LenProperties DEF TypeOK
    <2>4. \A k \in 1 .. Len(w) : j + k \in 1 .. Len(wire)
      BY <2>1, <2>2, <2>3
    <2> QED
      BY <1>1, <2>1, <2>2, <2>4
  <1>7. \A k \in 1 .. Len(wire') : wire'[k].char # PROMPT
    <2>1. CASE wire' = w
      BY <1>6, <2>1
    <2>2. ASSUME NEW chars \in Seq(Characters), NEW n \in 0 .. MaxCalls, chars # <<>>, Hear(w, chars, n)
          PROVE  \A k \in 1 .. Len(wire') : wire'[k].char # PROMPT
      <3> DEFINE says == Told(chars)
      <3>1. /\ Len(says) \in Nat /\ Len(wire') = Len(w) + Len(says)
            /\ \A k \in 1 .. Len(w) : wire'[k] = w[k]
            /\ \A k \in 1 .. Len(says) : wire'[Len(w) + k].char = says[k]
        BY <1>0, <1>6, <2>2, HearDoes
      <3>2. \A k \in 1 .. Len(says) : says[k] # PROMPT
        BY <1>0, <2>2, NoPromptTold
      <3> HIDE DEF says
      <3> SUFFICES ASSUME NEW k \in 1 .. Len(wire') PROVE wire'[k].char # PROMPT
        OBVIOUS
      <3>3. CASE k \in 1 .. Len(w)
        BY <1>6, <3>1, <3>3
      <3>4. CASE k \notin 1 .. Len(w)
        <4>1. k - Len(w) \in 1 .. Len(says) /\ k = Len(w) + (k - Len(w))
          BY <1>6, <3>1, <3>4
        <4>2. wire'[Len(w) + (k - Len(w))].char = says[k - Len(w)]
          BY <3>1, <4>1
        <4> QED
          BY <3>2, <4>1, <4>2
      <3> QED
        BY <3>3, <3>4
    <2> QED
      BY <1>5, <2>1, <2>2 DEF Hears, Writable
  <1> QED
    BY <1>2, <1>4, <1>7

(* While a driver that does not know that the supply echoes waits for a    *)
(* response, a name that belongs to its exchange is not the first byte.    *)
NameComesLater ==
    world.echoes /\ ~echoed /\ phase = "response" =>
        /\ \A k \in 1 .. Len(got) : got[k].char = NAME /\ got[k].of = calls => k > 1
        /\ \A k \in 1 .. Len(wire) : wire[k].char = NAME /\ wire[k].of = calls => Len(got) + k > 1

LEMMA NextNameComesLater ==
    ASSUME Shape, NoPrompts, NameComesLater, [Next]_vars
    PROVE  NameComesLater'
  <1>0. TypeOK /\ Order
    BY DEF Shape
  <1> SUFFICES ASSUME world.echoes, echoed' = FALSE, phase' = "response"
               PROVE  /\ \A k \in 1 .. Len(got') : got'[k].char = NAME /\ got'[k].of = calls' => k > 1
                      /\ \A k \in 1 .. Len(wire') : wire'[k].char = NAME /\ wire'[k].of = calls'
                                                     => Len(got') + k > 1
    <2>1. echoed' \in BOOLEAN
      BY NextShape DEF Shape, TypeOK
    <2> QED
      BY <1>0, <2>1, WorldStays DEF NameComesLater
  <1>1. ASSUME NEW c \in Commands, calls + 1 <= MaxCalls, Begin(c, echoed')
        PROVE  /\ \A k \in 1 .. Len(got') : got'[k].char = NAME /\ got'[k].of = calls' => k > 1
               /\ \A k \in 1 .. Len(wire') : wire'[k].char = NAME /\ wire'[k].of = calls'
                                              => Len(got') + k > 1
    <2>1. Hear(wire, Line(c), calls + 1) /\ got' = <<>> /\ calls' = calls + 1
      BY <1>1 DEF Begin
    <2>2. /\ Line(c) \in Seq(Characters) /\ Len(Line(c)) \in Nat /\ Len(Line(c)) >= 4
          /\ \A k \in 1 .. Len(Line(c)) : Line(c)[k] \notin Range(Answer)
          /\ Line(c)[Len(Line(c))] = NL
      BY LineFacts
    <2>3. Line(c) # <<>> /\ Ends(Line(c))
      BY <2>2, EmptySeq DEF Ends, Last
    <2>4. calls + 1 \in 0 .. MaxCalls /\ wire \in Seq(Byte) /\ calls \in Nat
      BY <1>0, <1>1, KepcoAssumption DEF TypeOK
    <2> DEFINE says == Told(Line(c))
               line == Line(c)
    <2>5. line \in Seq(Characters) /\ line # <<>> /\ Hear(wire, line, calls + 1)
      BY <2>1, <2>2, <2>3
    <2>6. says = Told(line)
      OBVIOUS
    <2> HIDE DEF line, says
    <2>7. /\ says \in Seq(Characters) /\ Len(says) \in Nat /\ Len(wire) \in Nat
          /\ Len(wire') = Len(wire) + Len(says)
          /\ \A k \in 1 .. Len(wire) : wire'[k] = wire[k]
          /\ \A k \in 1 .. Len(says) : wire'[Len(wire) + k].char = says[k]
      BY <1>0, <2>4, <2>5, <2>6, HearDoes, SMTT(30)
    <2>8. Len(says) > 0 => says[1] # NAME
      <3>1. CASE world.mute
        <4>1. says = <<>>
          BY <1>0, <2>5, <2>6, <3>1, ToldFacts
        <4> QED
          BY <4>1
      <3>2. CASE ~world.mute
        <4> DEFINE r == Reply(LineOf(heard, line))
                   both == line \o r
        <4>1. says = both \o <<PROMPT>>
          BY <1>0, <2>3, <2>5, <2>6, <3>2, ToldFacts DEF line
        <4>2. r \in Seq(Characters) /\ <<PROMPT>> \in Seq(Characters)
          BY ReplyFacts, SomeCharacters
        <4> HIDE DEF r
        <4>3. both \in Seq(Characters) /\ Len(both) = Len(line) + Len(r) /\ Len(r) \in Nat
              /\ \A k \in 1 .. Len(line) : both[k] = line[k]
          BY <2>5, <4>2, Joined
        <4> HIDE DEF both
        <4>4. \A k \in 1 .. Len(both) : (both \o <<PROMPT>>)[k] = both[k]
          BY <4>2, <4>3, Joined
        <4>5. Len(line) \in Nat /\ Len(line) >= 4 /\ line[1] \notin Range(Answer)
          BY <2>2 DEF line
        <4>6. says[1] = line[1]
          BY <4>1, <4>3, <4>4, <4>5
        <4>7. NAME \in Range(Answer)
          BY KepcoAssumption DEF NAME, Range, Asking
        <4> QED
          BY <4>5, <4>6, <4>7
      <3> QED
        BY <3>1, <3>2
    <2>9. \A k \in 1 .. Len(wire) : wire[k].of # calls + 1
      <3>1. \A k \in 1 .. Len(wire) : wire[k].of <= calls /\ wire[k] \in Byte
        BY <1>0, <2>4, ElementOfSeq DEF Order
      <3> QED
        BY <2>4, <3>1 DEF Byte
    <2>10. Len(got') = 0
      BY <2>1, EmptySeq
    <2>11. ASSUME NEW k \in 1 .. Len(wire'), wire'[k].char = NAME, wire'[k].of = calls'
           PROVE  k > 1
      <3>1. k \notin 1 .. Len(wire)
        BY <2>1, <2>7, <2>9, <2>11
      <3>2. CASE k = Len(wire) + 1
        BY <2>7, <2>8, <2>11, <3>2
      <3>3. CASE k # Len(wire) + 1
        BY <2>7, <3>1, <3>3
      <3> QED
        BY <3>2, <3>3
    <2> QED
      BY <2>10, <2>11
  <1>2. CASE Identify \/ OpenGoesOn \/ Close \/ (\E c \in Uses : Use(c))
    <2>1. /\ calls \in 0 .. MaxCalls /\ MaxCalls \in Nat /\ Uses \subseteq Commands
          /\ {"idn", "rst", "rem", "outp"} \subseteq Commands
      BY <1>0, KepcoAssumption DEF TypeOK
    <2>2. PICK c \in Commands : Begin(c, echoed') /\ calls + 1 <= MaxCalls
      <3>1. CASE Identify
        <4>1. phase = "wake" /\ Begin("idn", echoed')
          BY <3>1 DEF Identify
        <4>2. calls + 3 <= MaxCalls
          BY <1>0, <4>1 DEF Order
        <4>3. calls + 1 <= MaxCalls /\ "idn" \in Commands
          BY <2>1, <4>2
        <4> QED
          BY <4>1, <4>3
      <3>2. CASE OpenGoesOn
        <4> DEFINE next == IF cmd = "idn" THEN "rem" ELSE "outp"
        <4>1. op = "open" /\ phase = "idle" /\ echoed' = echoed /\ Begin(next, echoed)
          BY <3>2 DEF OpenGoesOn, driver
        <4>2. calls + 2 <= MaxCalls \/ calls + 1 <= MaxCalls
          BY <1>0, <4>1 DEF Order
        <4>3. calls + 1 <= MaxCalls
          BY <2>1, <4>2
        <4>4. next \in Commands
          BY <2>1
        <4> HIDE DEF next
        <4>5. Begin(next, echoed')
          BY <4>1
        <4> QED
          BY <4>3, <4>4, <4>5
      <3>3. CASE Close
        <4>1. Begin("rst", echoed) /\ echoed' = echoed /\ calls < MaxCalls
          BY <3>3 DEF Close
        <4>2. calls + 1 <= MaxCalls /\ "rst" \in Commands
          BY <2>1, <4>1
        <4>3. Begin("rst", echoed')
          BY <4>1
        <4> QED
          BY <4>2, <4>3
      <3>4. ASSUME NEW c \in Uses, Use(c)
            PROVE  Begin(c, echoed') /\ calls + 1 <= MaxCalls /\ c \in Commands
        <4>1. Begin(c, echoed) /\ echoed' = echoed /\ calls < MaxCalls
          BY <3>4 DEF Use
        <4>2. calls + 1 <= MaxCalls /\ c \in Commands
          BY <2>1, <4>1
        <4>3. Begin(c, echoed')
          BY <4>1
        <4> QED
          BY <4>2, <4>3
      <3> QED
        BY <1>2, <2>1, <3>1, <3>2, <3>3, <3>4
    <2> QED
      BY <1>1, <2>2
  <1>3. CASE ResponseChar
    <2>1. /\ phase = "response" /\ echoed = FALSE /\ wire # <<>> /\ calls' = calls
          /\ got' = Append(got, Head(wire)) /\ wire' = Tail(wire)
      BY <1>3 DEF ResponseChar, driver
    <2>2. /\ Len(got) \in Nat /\ Len(got') = Len(got) + 1
          /\ \A k \in 1 .. Len(got) : got'[k] = got[k]
          /\ got'[Len(got) + 1] = Head(wire)
      BY <2>1, RestOfWire
    <2>3. /\ Head(wire) = wire[1] /\ Len(wire) \in Nat \ {0} /\ Len(wire') = Len(wire) - 1
          /\ \A k \in 1 .. Len(wire) - 1 : wire'[k] = wire[k + 1]
      BY <1>0, <2>1, HeadAndRest DEF TypeOK
    <2>4. /\ \A k \in 1 .. Len(got) : got[k].char = NAME /\ got[k].of = calls => k > 1
          /\ \A k \in 1 .. Len(wire) : wire[k].char = NAME /\ wire[k].of = calls => Len(got) + k > 1
      BY <2>1 DEF NameComesLater
    <2>5. ASSUME NEW k \in 1 .. Len(got'), got'[k].char = NAME, got'[k].of = calls
          PROVE  k > 1
      <3>1. CASE k \in 1 .. Len(got)
        BY <2>2, <2>4, <2>5, <3>1
      <3>2. CASE k = Len(got) + 1
        BY <2>2, <2>3, <2>4, <2>5, <3>2
      <3> QED
        BY <2>2, <3>1, <3>2
    <2> QED
      BY <2>1, <2>2, <2>3, <2>5
  <1>4. CASE UNCHANGED <<phase, echoed, wire, got, calls>>
    <2>1. phase = "response" /\ echoed = FALSE
      BY <1>4
    <2> QED
      BY <1>4, <2>1 DEF NameComesLater
  <1>5. CASE EchoRight
    BY <1>0, <1>5 DEF EchoRight, driver, Order
  <1>6. ~(\E works \in BOOLEAN : Open(works))
    <2>1. ASSUME NEW works \in BOOLEAN, Open(works)
          PROVE  phase' # "response"
      BY <1>0, <2>1 DEF Open, TypeOK
    <2> QED
      BY <2>1
  <1>7. ~(Drain \/ Wake \/ PromptSkips)
    BY DEF Drain, Wake, PromptSkips
  <1>8. ~(EchoWrong \/ Prompted \/ NoAnswer)
    BY DEF EchoWrong, Prompted, NoAnswer, Finish
  <1>9. ~ResponseEnds
    BY DEF ResponseEnds, Finish
  <1>10. Interrupted \/ FallsMute \/ UNCHANGED vars => UNCHANGED <<phase, echoed, wire, got, calls>>
    BY DEF Interrupted, FallsMute, vars, driver, supply
  <1> QED
    BY <1>2, <1>3, <1>4, <1>5, <1>6, <1>7, <1>8, <1>9, <1>10 DEF Next, User, Running

(* The inductive invariant of the hand-shake.                              *)
Handshake == Shape /\ NoPrompts /\ NameComesLater

LEMMA HandshakeInvariant == Spec => []Handshake
  <1>1. Init => Handshake
    <2> SUFFICES ASSUME Init PROVE Handshake
      OBVIOUS
    <2>1. Shape
      BY InitShape
    <2>2. echoed = FALSE /\ wire = <<>> /\ got = <<>> /\ phase = "idle"
      BY DEF Init
    <2>3. Len(wire) = 0 /\ Len(got) = 0
      BY <2>2, EmptySeq
    <2> QED
      BY <2>1, <2>2, <2>3 DEF Handshake, NoPrompts, NameComesLater
  <1>2. Handshake /\ [Next]_vars => Handshake'
    BY NextShape, NextNoPrompts, NextNameComesLater DEF Handshake
  <1> QED
    BY <1>1, <1>2, PTL DEF Spec

(* An open that succeeds by a name it asked for itself knows whether the   *)
(* supply echoes, for every text of commands and answers.                  *)
THEOREM HandshakeKnowsEcho == Spec => HandshakeIsRight
  <1>1. ASSUME Handshake, [Next]_vars,
               op = "open", cmd = "idn", phase # "idle", phase' = "idle", connected',
               \A k \in 1 .. Len(got') : got'[k].char = NAME => got'[k].of = calls
        PROVE  echoed = world.echoes
    <2>0. TypeOK /\ Order
      BY <1>1 DEF Handshake, Shape
    <2>1. CASE echoed
      BY <1>1, <2>0, <2>1 DEF Handshake, NoPrompts, TypeOK
    <2>2. CASE ~echoed /\ ~world.echoes
      BY <2>0, <2>2 DEF TypeOK
    <2>3. CASE ~echoed /\ world.echoes
      <3>1. PICK result, rest : Finish(result, rest)
        BY <1>1
        DEF Next, User, Running, Open, Drain, Wake, Identify, OpenGoesOn, EchoRight, EchoWrong,
            ResponseChar, ResponseEnds, PromptSkips, Prompted, NoAnswer, Use, Close, Begin,
            Interrupted, FallsMute, vars
      <3>2. Chars(got') = <<NAME, NL>>
        BY <1>1, <3>1 DEF Finish, Disconnects
      <3>3. /\ got' \in Seq(Byte) /\ Len(got') \in Nat
            /\ Len(Chars(got')) = Len(got')
            /\ \A k \in 1 .. Len(got') : Chars(got')[k] = got'[k].char
        <4>1. got' \in Seq(Byte)
          BY <1>1, NextShape DEF Handshake, Shape, TypeOK
        <4> QED
          BY <4>1, CharsFacts
      <3>4. Len(got') = 2 /\ got'[1].char = NAME /\ got'[1].of = calls
        <4>1. Len(got') = 2
          BY <3>2, <3>3
        <4>2. got'[1].char = NAME
          BY <3>2, <3>3, <4>1
        <4> QED
          BY <1>1, <4>1, <4>2
      <3>5. phase = "response" /\ got' = Append(got, Head(wire)) /\ wire # <<>>
        <4>1. ~(EchoWrong \/ Prompted)
          BY <2>0, <2>3 DEF EchoWrong, Prompted, Order
        <4>2. ~NoAnswer
          BY <3>4, EmptySeq DEF NoAnswer
        <4>3. EchoWrong \/ Prompted \/ NoAnswer \/ ResponseEnds
          BY <1>1
          DEF Next, User, Running, Open, Drain, Wake, Identify, OpenGoesOn, EchoRight,
              ResponseChar, PromptSkips, Use, Close, Begin, Interrupted, FallsMute, vars
        <4> QED
          BY <4>1, <4>2, <4>3 DEF ResponseEnds, Arrives
      <3>6. Len(got) = 1 /\ got[1] = got'[1]
        <4>1. Shape
          BY <1>1 DEF Handshake
        <4>2. Len(got) \in Nat /\ Len(got') = Len(got) + 1
          BY <3>5, <4>1, RestOfWire
        <4>3. \A k \in 1 .. Len(got) : got'[k] = got[k]
          BY <3>5, <4>1, RestOfWire
        <4>4. Len(got') = 2
          BY <3>4
        <4> DEFINE before == Len(got)
        <4>5. before = 1
          <5>1. before \in Nat /\ before + 1 = 2
            BY <4>2, <4>4
          <5> HIDE DEF before
          <5> QED
            BY <5>1
        <4> QED
          BY <4>3, <4>5
      <3> QED
        BY <1>1, <2>3, <3>4, <3>5, <3>6 DEF Handshake, NameComesLater
    <2> QED
      BY <2>0, <2>1, <2>2, <2>3 DEF TypeOK
  <1>2. Handshake /\ [Next]_vars
        => [/\ op = "open" /\ cmd = "idn" /\ phase # "idle" /\ phase' = "idle"
            /\ connected'
            /\ \A k \in 1 .. Len(got') : got'[k].char = NAME => got'[k].of = calls
            => echoed = world.echoes]_vars
    BY <1>1
  <1> QED
    BY <1>2, HandshakeInvariant, PTL DEF Spec, HandshakeIsRight

----------------------------------------------------------------------------
(* Where nothing is late.                                                  *)

(* What a command is due for an answer, and the characters of an exchange: *)
(* with an echo the line, the answer and a prompt, else the answer.        *)
Due(c) == Reply(Text[c])

Stream(c, e, k) ==
    IF ~e THEN Due(c)[k]
    ELSE IF k <= Len(Line(c)) THEN Line(c)[k]
    ELSE IF k <= Len(Line(c)) + Len(Due(c)) THEN Due(c)[k - Len(Line(c))]
    ELSE PROMPT

Total(c, e) == IF e THEN Len(Line(c)) + Len(Due(c)) + 1 ELSE Len(Due(c))

(* Part of the line is still to be sent.                                   *)
Sending == phase = "echo" /\ at + 1 < Len(Line(cmd))

(* How many characters the supply has said, and the driver has read.       *)
Owed == IF Sending THEN at + 1 ELSE Total(cmd, echoed)
ReadSoFar == IF phase = "echo" THEN at - 1
             ELSE (IF echoed THEN Len(Line(cmd)) ELSE 0) + Len(got)

Believes ==
    /\ echoed => world.echoes
    /\ status /\ ~world.mute => echoed = world.echoes
    /\ outcome \notin {"mixed", "stale"}

(* Outside exchanges nothing is on its way, but in the second drain.       *)
Silent ==
    /\ phase \in {"idle", "drain"} => wire = <<>>
    /\ phase = "drain" => got = <<>>
    /\ phase \in {"idle", "drain", "wake"} /\ ~world.mute => heard = <<>>

Woken ==
    phase = "wake" =>
        \/ (~world.echoes \/ world.mute) /\ wire = <<>> /\ got = <<>>
        \/ /\ world.echoes /\ got = <<>>
           /\ Len(wire) = 2 /\ wire[1].char = NL /\ wire[2].char = PROMPT
        \/ world.echoes /\ got = <<>> /\ Len(wire) = 1 /\ wire[1].char = PROMPT
        \/ world.echoes /\ wire = <<>> /\ Len(got) = 1 /\ got[1].char = PROMPT

(* In an exchange its own characters, and all of them while it is heard.   *)
Flowing ==
    phase \in Exchanging =>
        /\ ReadSoFar + Len(wire) <= Owed
        /\ \A k \in 1 .. Len(wire) :
              wire[k].char = Stream(cmd, echoed, ReadSoFar + k) /\ wire[k].of = calls
        /\ ~world.mute => /\ ReadSoFar + Len(wire) = Owed
                          /\ heard = IF Sending THEN SubSeq(Line(cmd), 1, at + 1) ELSE <<>>

Answering ==
    phase \in {"response", "prompt"} =>
        /\ IF phase = "response" THEN Len(got) < Len(Due(cmd)) ELSE Len(got) = Len(Due(cmd))
        /\ \A k \in 1 .. Len(got) : got[k].char = Due(cmd)[k] /\ got[k].of = calls

(* A line that resets has been heard, or the port was closed.              *)
TurnedOff ==
    ~world.mute =>
        /\ op = "none" /\ ~status => ~output
        /\ phase \in Exchanging /\ ~Sending /\ cmd \in {"rst", "idn"} => ~output

Punctual == Believes /\ Silent /\ Woken /\ Flowing /\ Answering /\ TurnedOff

(* An answer ends with a new line, and it is not mistaken for another.     *)
LEMMA DueFacts ==
    ASSUME NEW c \in Commands
    PROVE  /\ Due(c) \in Seq(Characters) /\ Len(Due(c)) \in {1, 2}
           /\ Due(c)[Len(Due(c))] = NL
           /\ \A k \in 1 .. Len(Due(c)) - 1 : Due(c)[k] # NL
           /\ \A k \in 1 .. Len(Due(c)) : Due(c)[k] \notin Range(Answer) \ {Head(Due(c))}
  <1>1. CASE c \in Asking
    <2>1. Due(c) = <<Answer[c], NL>>
      BY <1>1, ReplyToCommand DEF Due
    <2>2. Answer[c] \in Characters /\ Answer[c] # NL /\ NL \in Characters /\ NL \notin Range(Answer)
      BY <1>1, SomeCharacters
    <2> QED
      BY <2>1, <2>2
  <1>2. CASE c \notin Asking
    <2>1. Due(c) = <<NL>>
      BY <1>2, ReplyToCommand DEF Due
    <2>2. NL \in Characters /\ NL \notin Range(Answer)
      BY SomeCharacters
    <2> QED
      BY <2>1, <2>2
  <1> QED
    BY <1>1, <1>2

LEMMA OneByte ==
    ASSUME NEW b \in Seq(Byte), NEW x
    PROVE  Chars(b) = <<x>> <=> Len(b) = 1 /\ b[1].char = x
  <1>1. /\ Chars(b) \in Seq(Characters) /\ Len(Chars(b)) = Len(b) /\ Len(b) \in Nat
        /\ \A k \in 1 .. Len(b) : Chars(b)[k] = b[k].char /\ b[k] \in Byte
    BY CharsFacts
  <1>2. ASSUME Chars(b) = <<x>>
        PROVE  Len(b) = 1 /\ b[1].char = x
    <2>1. Len(b) = 1
      BY <1>1, <1>2
    <2> QED
      BY <1>1, <1>2, <2>1
  <1>3. ASSUME Len(b) = 1, b[1].char = x
        PROVE  Chars(b) = <<x>>
    <2>1. x \in Characters
      BY <1>1, <1>3 DEF Byte
    <2>2. <<x>> \in Seq(Characters) /\ Len(<<x>>) = 1 /\ <<x>>[1] = x
      BY <2>1
    <2>3. \A k \in 1 .. Len(Chars(b)) : Chars(b)[k] = <<x>>[k]
      BY <1>1, <1>3, <2>2
    <2> HIDE DEF Chars
    <2> QED
      BY <1>1, <1>3, <2>2, <2>3, SeqEqual
  <1> QED
    BY <1>2, <1>3

(* All but the new line of a line is its command.                          *)
LEMMA FrontOfLine ==
    ASSUME NEW c \in Commands
    PROVE  /\ Ends(Line(c)) /\ Front(Line(c)) = Text[c]
           /\ Front(Line(c)) = SubSeq(Line(c), 1, Len(Line(c)) - 1)
           /\ LineOf(<<>>, Line(c)) = Text[c]
  <1>1. /\ Text[c] \in Seq(Characters) /\ Line(c) \in Seq(Characters)
        /\ Len(Text[c]) \in Nat /\ Len(Text[c]) >= 3 /\ Len(Line(c)) = Len(Text[c]) + 1
        /\ Line(c)[Len(Line(c))] = NL
        /\ \A k \in 1 .. Len(Text[c]) : Line(c)[k] = Text[c][k] /\ Line(c)[k] # NL
    BY LineFacts
  <1>2. Ends(Line(c))
    BY <1>1 DEF Ends, Last
  <1>3. Front(Line(c)) = SubSeq(Line(c), 1, Len(Line(c)) - 1)
    BY DEF Front
  <1> DEFINE s == SubSeq(Line(c), 1, Len(Text[c]))
             l == Line(c)
             t == Text[c]
             n == Len(Text[c])
  <1>4. s = t
    <2>1. n \in Nat /\ n >= 3 /\ Len(t) = n /\ t \in Seq(Characters)
          /\ \A k \in 1 .. n : l[k] \in Characters /\ l[k] = t[k]
      BY <1>1, ElementOfSeq
    <2>2. s = SubSeq(l, 1, n)
      OBVIOUS
    <2> HIDE DEF s, l, t, n
    <2>3. s \in Seq(Characters) /\ Len(s) = n /\ \A k \in 1 .. n : s[k] = l[1 + k - 1]
      BY <2>1, <2>2, SubSeqProperties
    <2>4. \A k \in 1 .. n : s[k] = t[k]
      BY <2>1, <2>3
    <2> QED
      BY <2>1, <2>3, <2>4, SeqEqual
  <1>5. Front(Line(c)) = Text[c]
    BY <1>1, <1>3, <1>4
  <1>6. LineOf(<<>>, Line(c)) = Text[c]
    BY <1>1, <1>2, <1>5, ConcatEmptySeq DEF LineOf
  <1> QED
    BY <1>2, <1>3, <1>5, <1>6

LEMMA RestingPunctual ==
    ASSUME Shape, Punctual, Interrupted \/ FallsMute \/ UNCHANGED vars
    PROVE  Punctual'
  <1>1. /\ UNCHANGED <<connected, status, echoed, op, phase, cmd, at, got, calls, outcome,
                       wire, heard, output>>
        /\ world' = world \/ world' = [world EXCEPT !.mute = TRUE]
    BY DEF Interrupted, FallsMute, vars, driver, supply
  <1>3. UNCHANGED Owed /\ UNCHANGED ReadSoFar /\ UNCHANGED Sending
    BY <1>1 DEF Owed, ReadSoFar, Sending, Total
  <1>4. world'.echoes = world.echoes /\ (world.mute => world'.mute)
    BY <1>1 DEF Shape, TypeOK
  <1>5. Believes'
    BY <1>1, <1>4 DEF Punctual, Believes
  <1>6. Silent'
    BY <1>1, <1>4 DEF Punctual, Silent
  <1>7. Woken'
    BY <1>1, <1>4 DEF Punctual, Woken
  <1>8. Flowing'
    BY <1>1, <1>3, <1>4 DEF Punctual, Flowing
  <1>9. Answering'
    BY <1>1 DEF Punctual, Answering
  <1>10. TurnedOff'
    BY <1>1, <1>3, <1>4 DEF Punctual, TurnedOff
  <1> QED
    BY <1>5, <1>6, <1>7, <1>8, <1>9, <1>10 DEF Punctual

LEMMA OpenPunctual ==
    ASSUME Shape, Punctual, NEW works \in BOOLEAN, Open(works)
    PROVE  Punctual'
  <1>0. TypeOK
    BY DEF Shape
  <1>1. /\ op = "none" /\ status' = FALSE /\ echoed' = FALSE /\ outcome' = "none" /\ got' = <<>>
        /\ UNCHANGED <<world, cmd, at, calls, wire, heard, output>>
        /\ connected' = (connected \/ works)
    BY DEF Open, supply
  <1>2. phase = "idle" /\ status = connected /\ wire = <<>> /\ (~world.mute => heard = <<>>)
    BY <1>0, <1>1 DEF TypeOK, Punctual, Silent
  <1>3. \/ op' = "open" /\ phase' = "drain"
        \/ op' = "none" /\ phase' = "idle" /\ ~status
    BY <1>1, <1>2 DEF Open
  <1>4. Believes'
    BY <1>1 DEF Believes
  <1>5. Silent'
    BY <1>1, <1>2, <1>3 DEF Silent
  <1>6. Woken' /\ Flowing' /\ Answering'
    BY <1>3 DEF Woken, Flowing, Answering, Exchanging
  <1>7. TurnedOff'
    BY <1>1, <1>3 DEF Punctual, TurnedOff, Exchanging
  <1> QED
    BY <1>4, <1>5, <1>6, <1>7 DEF Punctual

LEMMA DrainPunctual ==
    ASSUME Shape, Punctual, Drain
    PROVE  Punctual'
  <1>0. TypeOK /\ wire \in Seq(Byte)
    BY DEF Shape, TypeOK
  <1>1. /\ phase \in {"drain", "wake"} /\ wire # <<>> /\ wire' = Tail(wire)
        /\ got' = IF Head(wire).char = NL THEN <<>> ELSE Append(got, Head(wire))
        /\ UNCHANGED <<world, connected, status, echoed, op, phase, cmd, at, calls, outcome,
                       heard, output>>
    BY DEF Drain, Arrives, driver
  <1>2. phase = "wake"
    BY <1>1 DEF Punctual, Silent
  <1>3. /\ Head(wire) = wire[1] /\ Len(wire) \in Nat \ {0} /\ Len(wire') = Len(wire) - 1
        /\ \A k \in 1 .. Len(wire) - 1 : wire'[k] = wire[k + 1]
    BY <1>0, <1>1, HeadAndRest
  <1>4. /\ Len(got) \in Nat /\ Len(Append(got, Head(wire))) = Len(got) + 1
        /\ Append(got, Head(wire))[Len(got) + 1] = Head(wire)
    BY <1>1, RestOfWire
  <1>5. Woken'
    <2>1. \/ /\ world.echoes /\ got = <<>>
             /\ Len(wire) = 2 /\ wire[1].char = NL /\ wire[2].char = PROMPT
          \/ world.echoes /\ got = <<>> /\ Len(wire) = 1 /\ wire[1].char = PROMPT
      BY <1>1, <1>2 DEF Punctual, Woken
    <2>2. CASE Len(wire) = 2
      <3>1. got' = <<>> /\ Len(wire') = 1 /\ wire'[1].char = PROMPT
        BY <1>1, <1>3, <2>1, <2>2
      <3> QED
        BY <1>1, <2>1, <3>1 DEF Woken
    <2>3. CASE Len(wire) = 1
      <3>1. wire[1].char = PROMPT /\ Len(got) = 0
        BY <2>1, <2>3, EmptySeq
      <3>2. got' = Append(got, Head(wire))
        BY <1>1, <1>3, <3>1 DEF NL, PROMPT
      <3>3. Len(got') = 1 /\ got'[1].char = PROMPT
        BY <1>3, <1>4, <3>1, <3>2
      <3>4. wire' = <<>>
        <4>1. wire' \in Seq(Byte) /\ Len(wire') = 0
          BY <1>0, <1>1, <1>3, <2>3, HeadAndRest
        <4> QED
          BY <4>1, EmptySeq
      <3> QED
        BY <1>1, <2>1, <3>3, <3>4 DEF Woken
    <2> QED
      BY <2>1, <2>2, <2>3
  <1>6. Believes' /\ Silent'
    BY <1>1, <1>2 DEF Punctual, Believes, Silent
  <1>7. Flowing' /\ Answering' /\ TurnedOff'
    BY <1>1, <1>2 DEF Punctual, Flowing, Answering, TurnedOff, Exchanging
  <1> QED
    BY <1>5, <1>6, <1>7 DEF Punctual

LEMMA WakePunctual ==
    ASSUME Shape, Punctual, Wake
    PROVE  Punctual'
  <1>0. TypeOK /\ wire \in Seq(Byte) /\ 0 \in 0 .. MaxCalls
    BY KepcoAssumption DEF Shape, TypeOK
  <1>1. /\ phase = "drain" /\ phase' = "wake" /\ got' = <<>> /\ Hear(wire, <<NL>>, 0)
        /\ UNCHANGED <<world, connected, status, echoed, op, cmd, at, calls, outcome>>
    BY DEF Wake, driver
  <1>2. wire = <<>> /\ (~world.mute => heard = <<>>) /\ Len(wire) = 0
    BY <1>1, EmptySeq DEF Punctual, Silent
  <1> DEFINE nl == <<NL>>
             says == Told(nl)
  <1>3. nl \in Seq(Characters) /\ nl # <<>> /\ Len(nl) = 1 /\ nl[1] = NL /\ Ends(nl)
    BY SomeCharacters DEF Ends, Last
  <1>4. Hear(wire, nl, 0)
    BY <1>1
  <1>5. ~world.mute => LineOf(heard, nl) = <<>>
    <2>1. Front(nl) = <<>>
      BY <1>3 DEF Front
    <2>2. <<>> \o <<>> = <<>>
      OBVIOUS
    <2> QED
      BY <1>2, <1>3, <2>1, <2>2 DEF LineOf
  <1>6. Reply(<<>>) = <<>>
    <2>1. \A c \in Commands : Text[c] # <<>>
      <3>1. \A c \in Commands : Text[c] \in Seq(Characters) /\ Len(Text[c]) >= 3
        BY KepcoAssumption
      <3> QED
        BY <3>1, EmptySeq
    <2> QED
      BY <2>1, SomeCharacters DEF Reply
  <1>7. ~world.mute => heard' = <<>> /\ (world.echoes => says = <<NL, PROMPT>>)
                                    /\ (~world.echoes => says = <<>>)
    <2>1. ~world.mute => heard' = <<>>
      BY <1>3, <1>4 DEF Hear
    <2>2. /\ ~world.mute /\ world.echoes => says = (nl \o <<>>) \o <<PROMPT>>
          /\ ~world.mute /\ ~world.echoes => says = <<>>
      BY <1>0, <1>3, <1>5, <1>6, ToldFacts
    <2>3. (<<NL>> \o <<>>) \o <<PROMPT>> = <<NL, PROMPT>>
      <3>1. <<NL>> \in Seq(Characters) /\ <<PROMPT>> \in Seq(Characters)
        BY SomeCharacters
      <3>2. <<NL>> \o <<>> = <<NL>>
        BY <3>1, ConcatEmptySeq
      <3>3. <<NL>> \o <<PROMPT>> = Append(<<NL>>, PROMPT)
        BY <3>1, SomeCharacters, AppendIsConcat
      <3>4. Append(<<NL>>, PROMPT) = <<NL, PROMPT>>
        <4> DEFINE s == Append(<<NL>>, PROMPT)
                   t == <<NL, PROMPT>>
        <4>1. t \in Seq(Characters) /\ Len(t) = 2 /\ t[1] = NL /\ t[2] = PROMPT
          BY SomeCharacters
        <4>2. Len(<<NL>>) = 1 /\ <<NL>>[1] = NL
          OBVIOUS
        <4>3. s \in Seq(Characters) /\ Len(s) = 2 /\ s[1] = NL /\ s[2] = PROMPT
          BY <3>1, <4>2, SomeCharacters, AppendProperties
        <4> HIDE DEF s, t
        <4>4. \A k \in 1 .. Len(s) : s[k] = t[k]
          BY <4>1, <4>3
        <4>5. s = t
          BY <4>1, <4>3, <4>4, SeqEqual
        <4> QED
          BY <4>5 DEF s, t
      <3> QED
        BY <3>2, <3>3, <3>4
    <2> QED
      BY <2>1, <2>2, <2>3
  <1>8. world.mute => says = <<>>
    BY <1>0, <1>3, ToldFacts
  <1> HIDE DEF nl
  <1>9. /\ wire' \in Seq(Byte) /\ Len(wire') = Len(wire) + Len(says)
        /\ \A k \in 1 .. Len(says) : wire'[Len(wire) + k].char = says[k]
    BY <1>0, <1>3, <1>4, HearDoes
  <1> HIDE DEF says
  <1>10. Woken'
    <2>1. CASE says = <<>>
      <3>1. Len(wire') = 0
        BY <1>2, <1>9, <2>1
      <3>2. wire' = <<>>
        BY <1>9, <3>1, EmptySeq
      <3>3. ~world.echoes \/ world.mute
        BY <1>7, <2>1
      <3> QED
        BY <1>1, <3>2, <3>3 DEF Woken
    <2>2. CASE says # <<>>
      <3>1. world.echoes /\ says = <<NL, PROMPT>>
        BY <1>7, <1>8, <2>2 DEF Shape, TypeOK
      <3>2. Len(wire') = 2 /\ wire'[1].char = NL /\ wire'[2].char = PROMPT
        BY <1>2, <1>9, <3>1
      <3> QED
        BY <1>1, <3>1, <3>2 DEF Woken
    <2> QED
      BY <2>1, <2>2
  <1>11. Believes' /\ Silent'
    BY <1>1, <1>7 DEF Punctual, Believes, Silent
  <1>12. Flowing' /\ Answering'
    BY <1>1 DEF Flowing, Answering, Exchanging
  <1>13. TurnedOff'
    <2>1. op # "none"
      BY <1>1 DEF Shape, Order
    <2> QED
      BY <1>1, <2>1 DEF TurnedOff, Exchanging
  <1> QED
    BY <1>10, <1>11, <1>12, <1>13 DEF Punctual

(* An exchange begins on a silent line.                                    *)
LEMMA BeginPunctual ==
    ASSUME Shape, Punctual, NEW c \in Commands, NEW e \in BOOLEAN, calls + 1 <= MaxCalls,
           wire = <<>>, ~world.mute => heard = <<>> /\ e = world.echoes, e => world.echoes,
           Begin(c, e), echoed' = e, UNCHANGED world, op' # "none",
           outcome' \notin {"mixed", "stale"}
    PROVE  Punctual'
  <1>0. TypeOK /\ wire \in Seq(Byte) /\ Len(wire) = 0 /\ calls + 1 \in 0 .. MaxCalls
    BY EmptySeq, KepcoAssumption DEF Shape, TypeOK
  <1> DEFINE l == Line(c)
             chars == IF e THEN SubSeq(l, 1, 2) ELSE l
             says == Told(chars)
  <1>1. /\ calls' = calls + 1 /\ cmd' = c /\ at' = 1 /\ got' = <<>>
        /\ phase' = IF e THEN "echo" ELSE "response"
        /\ Hear(wire, chars, calls + 1)
    BY DEF Begin
  <1>2. /\ l \in Seq(Characters) /\ Len(l) \in Nat /\ Len(l) >= 4
        /\ \A k \in 1 .. Len(l) - 1 : l[k] # NL
        /\ Ends(l) /\ LineOf(<<>>, l) = Text[c]
    BY LineFacts, FrontOfLine
  <1> HIDE DEF l
  <1>3. e => /\ chars \in Seq(Characters) /\ Len(chars) = 2
             /\ chars[1] = l[1] /\ chars[2] = l[2] /\ ~Ends(chars) /\ chars = SubSeq(l, 1, 2)
    <2> DEFINE s == SubSeq(l, 1, 2)
    <2>1. \A k \in 1 .. 2 : l[k] \in Characters
      BY <1>2, ElementOfSeq
    <2>2. s \in Seq(Characters) /\ Len(s) = 2 /\ \A k \in 1 .. 2 : s[k] = l[1 + k - 1]
      BY <2>1, SubSeqProperties
    <2> HIDE DEF s
    <2>3. s[1] = l[1] /\ s[2] = l[2]
      BY <2>2
    <2>4. ~Ends(s)
      BY <1>2, <2>2, <2>3 DEF Ends, Last
    <2> QED
      BY <2>2, <2>3, <2>4 DEF s
  <1>4. ~e => chars = l
    OBVIOUS
  <1>5. chars \in Seq(Characters) /\ chars # <<>>
    BY <1>2, <1>3, <1>4, EmptySeq
  <1> HIDE DEF chars
  <1>6. /\ wire' \in Seq(Byte) /\ Len(wire') = Len(wire) + Len(says)
        /\ \A k \in 1 .. Len(says) : wire'[Len(wire) + k].char = says[k] /\ wire'[Len(wire) + k].of = calls + 1
        /\ Len(says) \in Nat
    <2>1. TypeOK /\ wire \in Seq(Byte) /\ chars \in Seq(Characters) /\ chars # <<>>
          /\ calls + 1 \in 0 .. MaxCalls /\ Hear(wire, chars, calls + 1)
      BY <1>0, <1>1, <1>5
    <2>2. wire' \in Seq(Byte) /\ Len(wire') = Len(wire) + Len(says) /\ Len(says) \in Nat
      BY <2>1, HearDoes
    <2>3. \A k \in 1 .. Len(says) : wire'[Len(wire) + k].char = says[k] /\ wire'[Len(wire) + k].of = calls + 1
      BY <2>1, HearDoes, ZenonT(40)
    <2> QED
      BY <2>2, <2>3
  <1>7. /\ world.mute => says = <<>>
        /\ ~world.mute /\ e => says = chars
        /\ ~world.mute /\ ~e => says = Due(c)
    <2>1. /\ world.mute => says = <<>>
          /\ ~world.mute /\ world.echoes /\ ~Ends(chars) => says = chars
          /\ ~world.mute /\ ~world.echoes /\ Ends(chars) => says = Reply(LineOf(heard, chars))
      BY <1>0, <1>5, ToldFacts
    <2> HIDE DEF says
    <2> QED
      BY <1>2, <1>3, <1>4, <2>1 DEF Due
  <1>8. ~world.mute => heard' = IF e THEN chars ELSE <<>>
    <2>1. ~world.mute /\ e => LineOf(<<>>, chars) = chars
      BY <1>3, ConcatEmptySeq DEF LineOf
    <2> QED
      BY <1>1, <1>2, <1>3, <1>4, <2>1 DEF Hear
  <1>9. ~world.mute /\ ~e /\ c \in {"rst", "idn"} => ~output'
    <2>1. ~world.mute /\ ~e => Ends(chars) /\ LineOf(heard, chars) = Text[c]
      BY <1>2, <1>4
    <2> QED
      BY <1>1, <2>1 DEF Hear
  <1> HIDE DEF says
  <1>10. Len(wire') = Len(says) /\ \A k \in 1 .. Len(wire') : wire'[k].char = says[k] /\ wire'[k].of = calls'
    BY <1>0, <1>1, <1>6
  <1>11. phase' # "idle" /\ phase' \in Exchanging /\ phase' # "prompt" /\ Len(got') = 0
    BY <1>1, EmptySeq DEF Exchanging
  <1>12. /\ Due(c) \in Seq(Characters) /\ Len(Due(c)) \in {1, 2}
    BY DueFacts
  <1>13. (Sending <=> phase = "echo" /\ at + 1 < Len(Line(cmd)))'
    BY DEF Sending
  <1>14. Sending' = e
    <2>1. (e => phase' = "echo") /\ (~e => phase' # "echo")
      BY <1>1
    <2>2. at' + 1 < Len(Line(cmd'))
      BY <1>1, <1>2 DEF l
    <2>3. Sending' \in BOOLEAN
      BY DEF Sending
    <2> QED
      BY <1>13, <2>1, <2>2, <2>3
  <1>15. ReadSoFar' = 0
    BY <1>1, <1>11 DEF ReadSoFar
  <1>16. Owed' = IF e THEN 2 ELSE Len(Due(c))
    BY <1>1, <1>14 DEF Owed, Total
  <1>17. \A k \in 1 .. Len(wire') : wire'[k].char = Stream(c, e, 0 + k)
    <2> SUFFICES ASSUME NEW k \in 1 .. Len(wire')
                 PROVE  wire'[k].char = Stream(c, e, 0 + k)
      OBVIOUS
    <2>1. Len(<<>>) = 0 /\ ~world.mute
      BY <1>6, <1>7, <1>10, EmptySeq
    <2>2. wire'[k].char = says[k] /\ k \in 1 .. Len(says) /\ 0 + k = k
      BY <1>10
    <2>3. CASE e
      <3>1. says = chars /\ Len(says) = 2
        BY <1>3, <1>7, <2>1, <2>3
      <3>2. k = 1 \/ k = 2
        BY <2>2, <3>1
      <3>3. wire'[k].char = l[k]
        BY <1>3, <2>2, <2>3, <3>1, <3>2
      <3> QED
        BY <1>2, <2>2, <2>3, <3>2, <3>3 DEF Stream, l
    <2>4. CASE ~e
      <3>1. says = Due(c)
        BY <1>7, <2>1, <2>4
      <3> QED
        BY <2>2, <2>4, <3>1 DEF Stream
    <2> QED
      BY <2>3, <2>4
  <1>18. Flowing'
    <2>1. Len(wire') <= Owed' /\ (~world.mute => Len(wire') = Owed')
      <3>1. CASE world.mute
        BY <1>7, <1>10, <1>12, <1>16, <3>1, EmptySeq
      <3>2. CASE ~world.mute
        BY <1>3, <1>7, <1>10, <1>12, <1>16, <3>2
      <3> QED
        BY <3>1, <3>2
    <2>2. ~world.mute => heard' = IF Sending' THEN SubSeq(Line(c), 1, 2) ELSE <<>>
      BY <1>3, <1>8, <1>14 DEF l
    <2>3. /\ ReadSoFar' + Len(wire') <= Owed' /\ (~world.mute => ReadSoFar' + Len(wire') = Owed')
      BY <1>6, <1>15, <2>1
    <2>4. at' + 1 = 2 /\ cmd' = c /\ echoed' = e /\ world' = world
      BY <1>1
    <2> QED
      BY <1>10, <1>15, <1>17, <2>2, <2>3, <2>4 DEF Flowing
  <1>19. Answering'
    <2>1. Len(got') < Len(Due(c))
      <3> DEFINE n == Len(Due(c))
      <3>1. Len(got') = 0 /\ n \in {1, 2}
        BY <1>11, <1>12
      <3> HIDE DEF n
      <3>2. Len(got') < n
        BY <3>1
      <3> QED
        BY <3>2 DEF n
    <2> QED
      BY <1>1, <1>11, <2>1 DEF Answering
  <1>20. TurnedOff'
    BY <1>1, <1>9, <1>14 DEF TurnedOff
  <1>21. Believes' /\ Silent' /\ Woken'
    BY <1>1, <1>11 DEF Punctual, Believes, Silent, Woken
  <1> QED
    BY <1>18, <1>19, <1>20, <1>21 DEF Punctual

LEMMA CallPunctual ==
    ASSUME Shape, Punctual, ~world.late,
           Identify \/ OpenGoesOn \/ Close \/ (\E c \in Uses : Use(c))
    PROVE  Punctual'
  <1>0. TypeOK /\ Order /\ calls \in Nat /\ MaxCalls \in Nat
    BY KepcoAssumption DEF Shape, TypeOK
  <1>1. {"idn", "rst", "rem", "outp"} \subseteq Commands /\ Uses \subseteq Commands
    BY KepcoAssumption
  <1>2. outcome \notin {"mixed", "stale"}
    BY DEF Punctual, Believes
  <1>3. CASE Identify
    <2>1. /\ phase = "wake" /\ TimesOut /\ echoed' = (Chars(got) = <<PROMPT>>)
          /\ Begin("idn", echoed') /\ UNCHANGED <<world, connected, op, outcome>>
      BY <1>3 DEF Identify
    <2>2. wire = <<>> /\ Len(wire) = 0 /\ got \in Seq(Byte) /\ calls + 3 <= MaxCalls /\ op = "open"
      BY <1>0, <2>1, EmptySeq DEF TimesOut, Order, TypeOK
    <2>3. echoed' <=> Len(got) = 1 /\ got[1].char = PROMPT
      BY <2>1, <2>2, OneByte
    <2>4. \/ (~world.echoes \/ world.mute) /\ got = <<>>
          \/ world.echoes /\ Len(got) = 1 /\ got[1].char = PROMPT
      BY <2>1, <2>2 DEF Punctual, Woken
    <2>5. Len(<<>>) = 0
      BY EmptySeq
    <2> DEFINE e == Chars(got) = <<PROMPT>>
    <2>6. e \in BOOLEAN /\ Begin("idn", e) /\ echoed' = e
      BY <2>1
    <2> HIDE DEF e
    <2>7. (e => world.echoes) /\ (~world.mute => e = world.echoes)
      BY <1>0, <2>3, <2>4, <2>5, <2>6 DEF TypeOK
    <2>8. ~world.mute => heard = <<>>
      BY <2>1 DEF Punctual, Silent
    <2>9. calls + 1 <= MaxCalls
      BY <1>0, <2>2
    <2> QED
      BY <1>1, <1>2, <2>1, <2>2, <2>6, <2>7, <2>8, <2>9, BeginPunctual
  <1>4. ASSUME NEW c \in Commands, phase = "idle", status, calls + 1 <= MaxCalls, Begin(c, echoed),
               UNCHANGED <<world, echoed, outcome>>, op' # "none"
        PROVE  Punctual'
    <2>1. wire = <<>> /\ (~world.mute => heard = <<>>)
      BY <1>4 DEF Punctual, Silent
    <2>2. (echoed => world.echoes) /\ (~world.mute => echoed = world.echoes) /\ echoed \in BOOLEAN
      BY <1>0, <1>4 DEF Punctual, Believes, TypeOK
    <2> QED
      BY <1>2, <1>4, <2>1, <2>2, BeginPunctual
  <1>5. CASE OpenGoesOn
    <2>1. /\ op = "open" /\ phase = "idle" /\ Begin(IF cmd = "idn" THEN "rem" ELSE "outp", echoed)
          /\ UNCHANGED <<world, echoed, outcome, op>>
      BY <1>5 DEF OpenGoesOn, driver
    <2>2. status /\ calls + 1 <= MaxCalls
      BY <1>0, <2>1 DEF Order
    <2> QED
      BY <1>1, <1>4, <2>1, <2>2
  <1>6. CASE Close
    <2>1. /\ op = "none" /\ status /\ calls < MaxCalls /\ op' = "close" /\ Begin("rst", echoed)
          /\ UNCHANGED <<world, echoed, outcome>>
      BY <1>6 DEF Close
    <2>2. phase = "idle" /\ calls + 1 <= MaxCalls
      BY <1>0, <2>1 DEF TypeOK
    <2> QED
      BY <1>1, <1>4, <2>1, <2>2
  <1>7. ASSUME NEW c \in Uses, Use(c)
        PROVE  Punctual'
    <2>1. /\ op = "none" /\ status /\ calls < MaxCalls /\ op' = "use" /\ Begin(c, echoed)
          /\ UNCHANGED <<world, echoed, outcome>>
      BY <1>7 DEF Use
    <2>2. phase = "idle" /\ calls + 1 <= MaxCalls
      BY <1>0, <2>1 DEF TypeOK
    <2> QED
      BY <1>1, <1>4, <2>1, <2>2
  <1> QED
    BY <1>3, <1>5, <1>6, <1>7

(* The supply hears a character more of a line and says what is next.      *)
LEMMA NextCharacter ==
    ASSUME Shape, NEW w \in Seq(Byte), phase = "echo", Sending, ~world.mute, world.echoes,
           heard = SubSeq(Line(cmd), 1, at + 1), Hear(w, <<Line(cmd)[at + 2]>>, calls)
    PROVE  LET says == Told(<<Line(cmd)[at + 2]>>)
               n == Len(Line(cmd))
           IN  /\ at + 2 < n => /\ Len(says) = 1 /\ says[1] = Line(cmd)[at + 2]
                                /\ heard' = SubSeq(Line(cmd), 1, at + 2)
               /\ at + 2 = n =>
                    /\ Len(says) = 1 + Len(Due(cmd)) + 1 /\ says[1] = NL
                    /\ \A k \in 1 .. Len(Due(cmd)) : says[1 + k] = Due(cmd)[k]
                    /\ says[1 + Len(Due(cmd)) + 1] = PROMPT
                    /\ heard' = <<>> /\ (cmd \in {"rst", "idn"} => ~output')
  <1> DEFINE l == Line(cmd)
             x == l[at + 2]
             c == <<x>>
             says == Told(c)
             n == Len(l)
  <1>1. /\ TypeOK /\ cmd \in Commands /\ heard \in Seq(Characters) /\ calls \in 0 .. MaxCalls
        /\ at \in 1 .. n
    BY DEF Shape, TypeOK, Order
  <1>2. /\ l \in Seq(Characters) /\ n \in Nat /\ n >= 4 /\ l[n] = NL
        /\ \A k \in 1 .. n - 1 : l[k] # NL
        /\ SubSeq(l, 1, n - 1) = Text[cmd]
    <2>1. /\ l \in Seq(Characters) /\ Len(Text[cmd]) \in Nat /\ Len(Text[cmd]) >= 3
          /\ n = Len(Text[cmd]) + 1 /\ l[n] = NL
          /\ \A k \in 1 .. Len(Text[cmd]) : l[k] # NL
      BY <1>1, LineFacts
    <2>2. SubSeq(l, 1, n - 1) = Text[cmd]
      BY <1>1, FrontOfLine
    <2> HIDE DEF l
    <2>3. n \in Nat /\ n >= 4 /\ n - 1 = Len(Text[cmd])
      BY <2>1
    <2> QED
      BY <2>1, <2>2, <2>3
  <1>3. at + 1 < n
    BY DEF Sending
  <1>4. heard = SubSeq(l, 1, at + 1) /\ Hear(w, c, calls)
    OBVIOUS
  <1> HIDE DEF l
  <1>5. x \in Characters /\ at + 2 \in 1 .. n
    <2>1. at + 2 \in 1 .. n
      BY <1>1, <1>2, <1>3
    <2> QED
      BY <1>2, <2>1, ElementOfSeq
  <1>6. x = NL <=> at + 2 = n
    BY <1>2, <1>5
  <1> HIDE DEF x
  <1>7. c \in Seq(Characters) /\ c # <<>> /\ Len(c) = 1 /\ c[1] = x /\ Front(c) = <<>>
    BY <1>5 DEF Front
  <1>8. Ends(c) <=> x = NL
    BY <1>7 DEF Ends, Last
  <1>9. /\ ~Ends(c) => says = c
        /\ Ends(c) => says = (c \o Reply(LineOf(heard, c))) \o <<PROMPT>>
    BY <1>1, <1>7, ToldFacts
  <1> HIDE DEF c, says
  <1>10. CASE at + 2 < n
    <2>1. ~Ends(c)
      BY <1>2, <1>6, <1>8, <1>10
    <2>2. LineOf(heard, c) = heard \o c
      BY <2>1 DEF LineOf
    <2>3. SubSeq(l, 1, at + 2) = SubSeq(l, 1, (at + 2) - 1) \o <<l[at + 2]>>
      BY <1>1, <1>2, <1>5, SubSeqRecursiveSecond
    <2>4. (at + 2) - 1 = at + 1
      BY <1>1
    <2>5. heard \o c = SubSeq(l, 1, at + 2)
      BY <1>4, <2>3, <2>4 DEF c, x
    <2>6. heard' = SubSeq(l, 1, at + 2)
      BY <1>4, <2>1, <2>2, <2>5 DEF Hear
    <2>7. Len(says) = 1 /\ says[1] = l[at + 2]
      BY <1>7, <1>9, <2>1 DEF x
    <2> QED
      BY <1>10, <2>6, <2>7 DEF says, c, x, l
  <1>11. CASE at + 2 = n
    <2>1. Ends(c)
      BY <1>6, <1>8, <1>11
    <2>2. at + 1 = n - 1
      BY <1>1, <1>2, <1>11
    <2>3. heard = Text[cmd]
      BY <1>2, <1>4, <2>2
    <2>4. LineOf(heard, c) = Text[cmd]
      BY <1>1, <1>7, <2>1, <2>3, ConcatEmptySeq DEF LineOf
    <2>5. heard' = <<>> /\ (cmd \in {"rst", "idn"} => ~output')
      BY <1>4, <2>1, <2>4 DEF Hear
    <2> DEFINE d == Due(cmd)
               both == c \o d
    <2>6. says = both \o <<PROMPT>>
      BY <1>9, <2>1, <2>4 DEF Due
    <2>7. d \in Seq(Characters) /\ <<PROMPT>> \in Seq(Characters)
      BY <1>1, DueFacts, SomeCharacters
    <2> HIDE DEF d
    <2>8. both \in Seq(Characters) /\ Len(both) = 1 + Len(d) /\ Len(d) \in Nat
      BY <1>7, <2>7, Joined, SMTT(30)
    <2>9. both[1] = NL
      <3>1. both[1] = c[1]
        BY <1>7, <2>7, Joined
      <3> QED
        BY <1>6, <1>7, <1>11, <3>1
    <2>10. \A k \in 1 .. Len(d) : both[1 + k] = d[k]
      <3>1. c \in Seq(Characters) /\ d \in Seq(Characters)
        BY <1>7, <2>7
      <3>2. \A k \in 1 .. Len(d) : (c \o d)[Len(c) + k] = d[k]
        BY <3>1, Joined
      <3>3. Len(c) = 1
        BY <1>7
      <3> QED
        BY <3>2, <3>3
    <2> HIDE DEF both
    <2>11. Len(<<PROMPT>>) = 1 /\ <<PROMPT>>[1] = PROMPT
      OBVIOUS
    <2>12. Len(says) = Len(both) + 1
      BY <2>6, <2>7, <2>8, <2>11, Joined
    <2>13. \A k \in 1 .. Len(both) : says[k] = both[k]
      BY <2>6, <2>7, <2>8, Joined
    <2>14. says[Len(both) + 1] = PROMPT
      BY <2>6, <2>7, <2>8, <2>11, Joined
    <2>15. Len(says) = 1 + Len(d) + 1 /\ says[1] = NL /\ says[1 + Len(d) + 1] = PROMPT
      BY <2>8, <2>9, <2>12, <2>13, <2>14
    <2>16. \A k \in 1 .. Len(d) : says[1 + k] = d[k]
      BY <2>8, <2>10, <2>13
    <2> QED
      BY <1>11, <2>5, <2>15, <2>16 DEF says, c, x, l, d
  <1>12. at + 2 < n \/ at + 2 = n
    BY <1>1, <1>2, <1>3
  <1> QED
    BY <1>10, <1>11, <1>12 DEF says, c, x, l

LEMMA EchoPunctual ==
    ASSUME Shape, Punctual, EchoRight
    PROVE  Punctual'
  <1> DEFINE l == Line(cmd)
             n == Len(l)
             d == Due(cmd)
             x == l[at + 2]
             says == IF at + 2 <= n THEN Told(<<x>>) ELSE <<>>
             r == at - 1
  <1>0. /\ TypeOK /\ cmd \in Commands /\ wire \in Seq(Byte) /\ calls \in 0 .. MaxCalls
        /\ phase = "echo" /\ wire # <<>> /\ at \in 1 .. n /\ echoed /\ got = <<>>
        /\ world.mute \in BOOLEAN
    <2>1. TypeOK /\ Order /\ phase = "echo" /\ wire # <<>>
      BY DEF Shape, EchoRight, Arrives
    <2>2. cmd \in Commands /\ wire \in Seq(Byte) /\ calls \in 0 .. MaxCalls /\ world.mute \in BOOLEAN
      BY <2>1 DEF TypeOK
    <2>3. at \in 1 .. n /\ echoed /\ got = <<>>
      BY <2>1 DEF Order
    <2> QED
      BY <2>1, <2>2, <2>3
  <1>1. /\ IF at + 2 <= n THEN Hear(Tail(wire), <<x>>, calls)
           ELSE wire' = Tail(wire) /\ UNCHANGED <<heard, output>>
        /\ IF at = n THEN phase' = "response" /\ at' = at ELSE at' = at + 1 /\ phase' = phase
        /\ UNCHANGED <<world, status, echoed, op, cmd, got, calls, outcome>>
    BY DEF EchoRight, driver
  <1>2. world.echoes /\ (~world.mute => echoed = world.echoes) /\ outcome \notin {"mixed", "stale"}
    BY <1>0 DEF Punctual, Believes, Shape, Order, Exchanging
  <1>3. /\ l \in Seq(Characters) /\ n \in Nat /\ n >= 4
        /\ d \in Seq(Characters) /\ Len(d) \in {1, 2} /\ at \in Nat
    BY <1>0, LineFacts, DueFacts
  <1>4. /\ Sending <=> at + 1 < n
        /\ Owed = IF at + 1 < n THEN at + 1 ELSE n + Len(d) + 1
        /\ ReadSoFar = r
    BY <1>0 DEF Sending, Owed, ReadSoFar, Total
  <1>5. /\ r + Len(wire) <= Owed
        /\ \A k \in 1 .. Len(wire) : wire[k].char = Stream(cmd, TRUE, r + k) /\ wire[k].of = calls
        /\ ~world.mute => r + Len(wire) = Owed
                          /\ heard = IF Sending THEN SubSeq(l, 1, at + 1) ELSE <<>>
    BY <1>0, <1>4 DEF Punctual, Flowing, Exchanging
  <1>6. /\ Tail(wire) \in Seq(Byte) /\ Len(wire) \in Nat \ {0} /\ Len(Tail(wire)) = Len(wire) - 1
        /\ \A k \in 1 .. Len(wire) - 1 : Tail(wire)[k] = wire[k + 1]
    BY <1>0, HeadAndRest
  <1>7. at + 2 <= n => <<x>> \in Seq(Characters) /\ <<x>> # <<>>
    <2>1. at + 2 <= n => x \in Characters
      BY <1>3, ElementOfSeq
    <2> QED
      BY <2>1
  <1>8. /\ says \in Seq(Characters) /\ Len(says) \in Nat /\ wire' \in Seq(Byte)
        /\ Len(wire') = Len(wire) - 1 + Len(says)
        /\ \A k \in 1 .. Len(wire) - 1 : wire'[k] = wire[k + 1]
        /\ \A k \in 1 .. Len(says) : wire'[Len(wire) - 1 + k].char = says[k]
                                     /\ wire'[Len(wire) - 1 + k].of = calls
    <2>1. CASE at + 2 <= n
      <3> DEFINE c == <<x>>
                 w == Tail(wire)
                 t == Told(c)
      <3>1. TypeOK /\ w \in Seq(Byte) /\ c \in Seq(Characters) /\ c # <<>>
            /\ calls \in 0 .. MaxCalls /\ Hear(w, c, calls)
        BY <1>0, <1>1, <1>6, <1>7, <2>1
      <3>2. Len(w) = Len(wire) - 1 /\ \A k \in 1 .. Len(wire) - 1 : w[k] = wire[k + 1]
        BY <1>6
      <3>3. says = t
        BY <2>1
      <3> HIDE DEF c, w, says
      <3>4. /\ t \in Seq(Characters) /\ Len(t) \in Nat /\ wire' \in Seq(Byte)
            /\ Len(wire') = Len(w) + Len(t)
        BY <3>1, HearDoes
      <3>5. \A k \in 1 .. Len(w) : wire'[k] = w[k]
        BY <3>1, HearDoes
      <3>6. \A k \in 1 .. Len(t) : wire'[Len(w) + k].char = t[k] /\ wire'[Len(w) + k].of = calls
        BY <3>1, HearDoes
      <3> HIDE DEF t
      <3> QED
        BY <3>2, <3>3, <3>4, <3>5, <3>6
    <2>2. CASE ~(at + 2 <= n)
      <3>1. wire' = Tail(wire) /\ says = <<>> /\ Len(<<>>) = 0 /\ <<>> \in Seq(Characters)
        BY <1>1, <2>2, EmptySeq
      <3> HIDE DEF says
      <3> QED
        BY <1>6, <3>1
    <2> QED
      BY <2>1, <2>2
  <1>9. world.mute => says = <<>>
    BY <1>0, <1>7, ToldFacts
  <1>10. ~world.mute /\ at + 2 < n =>
            Len(says) = 1 /\ says[1] = x /\ heard' = SubSeq(l, 1, at + 2)
    <2> SUFFICES ASSUME ~world.mute, at + 2 < n
                 PROVE  Len(says) = 1 /\ says[1] = x /\ heard' = SubSeq(l, 1, at + 2)
      OBVIOUS
    <2>1. at + 2 <= n /\ Sending
      BY <1>3, <1>4
    <2>2. heard = SubSeq(Line(cmd), 1, at + 1) /\ Hear(Tail(wire), <<Line(cmd)[at + 2]>>, calls)
      BY <1>1, <1>5, <2>1
    <2> QED
      BY <1>0, <1>2, <1>6, <2>1, <2>2, NextCharacter
  <1>11. ~world.mute /\ at + 2 = n =>
            /\ Len(says) = 1 + Len(d) + 1 /\ says[1] = NL
            /\ \A k \in 1 .. Len(d) : says[1 + k] = d[k]
            /\ says[1 + Len(d) + 1] = PROMPT
            /\ heard' = <<>> /\ (cmd \in {"rst", "idn"} => ~output')
    <2> SUFFICES ASSUME ~world.mute, at + 2 = n
                 PROVE  /\ Len(says) = 1 + Len(d) + 1 /\ says[1] = NL
                        /\ \A k \in 1 .. Len(d) : says[1 + k] = d[k]
                        /\ says[1 + Len(d) + 1] = PROMPT
                        /\ heard' = <<>> /\ (cmd \in {"rst", "idn"} => ~output')
      OBVIOUS
    <2>1. at + 2 <= n /\ Sending
      BY <1>3, <1>4
    <2>2. heard = SubSeq(Line(cmd), 1, at + 1) /\ Hear(Tail(wire), <<Line(cmd)[at + 2]>>, calls)
      BY <1>1, <1>5, <2>1
    <2> QED
      BY <1>0, <1>2, <1>6, <2>1, <2>2, NextCharacter
  <1>12. ~(at + 2 <= n) => says = <<>> /\ heard' = heard /\ output' = output
    BY <1>1
  <1>13. l[n] = NL
    BY <1>0, LineFacts
  <1> HIDE DEF says, x
  <1>14. /\ Sending' <=> at + 2 < n
         /\ Owed' = IF at + 2 < n THEN at + 2 ELSE n + Len(d) + 1
         /\ ReadSoFar' = at
    <2>1. CASE at = n
      <3>1. phase' = "response" /\ echoed' /\ cmd' = cmd /\ Len(got') = 0 /\ ~(at + 2 < n)
        BY <1>0, <1>1, <1>3, <2>1, EmptySeq
      <3>2. ~Sending'
        BY <3>1 DEF Sending
      <3>3. Owed' = n + Len(d) + 1
        BY <3>1, <3>2 DEF Owed, Total
      <3>4. ReadSoFar' = n + 0
        BY <3>1 DEF ReadSoFar
      <3> QED
        BY <1>3, <2>1, <3>1, <3>2, <3>3, <3>4
    <2>2. CASE at # n
      <3>1. phase' = "echo" /\ echoed' /\ cmd' = cmd /\ at' = at + 1
        BY <1>0, <1>1, <2>2
      <3>2. (Sending <=> phase = "echo" /\ at + 1 < Len(Line(cmd)))'
        BY DEF Sending
      <3>3. at' + 1 = at + 2 /\ at' - 1 = at
        BY <1>3, <3>1
      <3>4. Sending' <=> at + 2 < n
        BY <3>1, <3>2, <3>3
      <3>5. Owed' = IF at + 2 < n THEN at + 2 ELSE n + Len(d) + 1
        BY <3>1, <3>3, <3>4 DEF Owed, Total
      <3>6. ReadSoFar' = at
        BY <3>1, <3>3 DEF ReadSoFar
      <3> QED
        BY <3>4, <3>5, <3>6
    <2> QED
      BY <2>1, <2>2
  <1>15. Sending' \in BOOLEAN /\ Sending \in BOOLEAN
    BY DEF Sending
  <1> HIDE DEF l, d
  <1>16. \A k \in 1 .. Len(says) : says[k] = Stream(cmd, TRUE, Owed + k)
    <2>1. CASE world.mute \/ ~(at + 2 <= n)
      <3>1. Len(says) = 0
        BY <1>9, <1>12, <2>1, EmptySeq
      <3> QED
        BY <3>1
    <2>2. CASE ~world.mute /\ at + 2 < n
      <3>1. Len(says) = 1 /\ says[1] = x /\ Owed + 1 = at + 2 /\ at + 2 <= n
        BY <1>3, <1>4, <1>10, <2>2
      <3>2. Stream(cmd, TRUE, at + 2) = x
        BY <3>1 DEF Stream, l, x
      <3> SUFFICES ASSUME NEW k \in 1 .. Len(says)
                   PROVE  says[k] = Stream(cmd, TRUE, Owed + k)
        OBVIOUS
      <3>3. k = 1
        BY <3>1
      <3>4. Owed + k = at + 2
        BY <3>1, <3>3
      <3> QED
        BY <3>1, <3>2, <3>3, <3>4
    <2>3. CASE ~world.mute /\ at + 2 = n
      <3>1. /\ Len(says) = 1 + Len(d) + 1 /\ says[1] = NL
            /\ \A k \in 1 .. Len(d) : says[1 + k] = d[k]
            /\ says[1 + Len(d) + 1] = PROMPT
            /\ Owed = n - 1
        BY <1>3, <1>4, <1>11, <2>3
      <3>2. Stream(cmd, TRUE, n) = NL
        BY <1>3, <1>13 DEF Stream, l
      <3>3. \A k \in 1 .. Len(d) : Stream(cmd, TRUE, n + k) = d[k]
        <4> SUFFICES ASSUME NEW k \in 1 .. Len(d) PROVE Stream(cmd, TRUE, n + k) = d[k]
          OBVIOUS
        <4>1. ~(n + k <= n) /\ n + k <= n + Len(d) /\ n + k - n = k
          BY <1>3
        <4> QED
          BY <4>1 DEF Stream, l, d
      <3>4. Stream(cmd, TRUE, n + Len(d) + 1) = PROMPT
        <4>1. ~(n + Len(d) + 1 <= n) /\ ~(n + Len(d) + 1 <= n + Len(d))
          BY <1>3
        <4> QED
          BY <4>1 DEF Stream, l, d
      <3> SUFFICES ASSUME NEW k \in 1 .. Len(says)
                   PROVE  says[k] = Stream(cmd, TRUE, Owed + k)
        OBVIOUS
      <3>5. CASE k = 1
        <4>1. Owed + k = n
          BY <1>3, <3>1, <3>5
        <4> QED
          BY <3>1, <3>2, <3>5, <4>1
      <3>6. CASE k - 1 \in 1 .. Len(d)
        <4>1. Owed + k = n + (k - 1) /\ 1 + (k - 1) = k
          BY <1>3, <3>1
        <4>2. says[1 + (k - 1)] = d[k - 1] /\ Stream(cmd, TRUE, n + (k - 1)) = d[k - 1]
          BY <3>1, <3>3, <3>6
        <4> QED
          BY <4>1, <4>2
      <3>7. CASE k = 1 + Len(d) + 1
        <4>1. Owed + k = n + Len(d) + 1
          BY <1>3, <3>1, <3>7
        <4> QED
          BY <3>1, <3>4, <3>7, <4>1
      <3>8. k = 1 \/ k - 1 \in 1 .. Len(d) \/ k = 1 + Len(d) + 1
        <4>1. Len(d) \in Nat /\ Len(says) = 1 + Len(d) + 1
          BY <1>3, <3>1
        <4> QED
          BY <4>1
      <3> QED
        BY <3>5, <3>6, <3>7, <3>8
    <2>4. at + 2 < n \/ at + 2 = n \/ ~(at + 2 <= n)
      <3>1. at \in Nat /\ n \in Nat
        BY <1>3
      <3> QED
        BY <3>1
    <2> QED
      BY <2>1, <2>2, <2>3, <2>4
  <1>17. Owed <= Owed' /\ (~world.mute => Owed' = Owed + Len(says))
    <2>0. at \in Nat /\ n \in Nat /\ Len(d) \in Nat
      BY <1>3
    <2>1. CASE at + 2 < n
      <3>1. Owed = at + 1 /\ Owed' = at + 2
        BY <1>4, <1>14, <2>0, <2>1
      <3>2. ~world.mute => Len(says) = 1
        BY <1>10, <2>1
      <3> HIDE DEF n
      <3>3. Owed' = Owed + 1 /\ Owed <= Owed'
        BY <2>0, <3>1
      <3> QED
        BY <3>2, <3>3
    <2>2. CASE at + 2 = n
      <3>1. Owed = at + 1 /\ Owed' = n + Len(d) + 1
        BY <1>4, <1>14, <2>0, <2>2
      <3>2. ~world.mute => Len(says) = 1 + Len(d) + 1
        BY <1>11, <2>2
      <3> HIDE DEF n
      <3>3. Owed' = Owed + (1 + Len(d) + 1) /\ Owed <= Owed'
        BY <2>0, <2>2, <3>1
      <3> QED
        BY <3>2, <3>3
    <2>3. CASE at + 2 > n
      <3>1. Len(says) = 0
        BY <1>3, <1>12, <2>3, EmptySeq
      <3> QED
        BY <1>3, <1>4, <1>14, <2>3, <3>1
    <2> QED
      BY <1>3, <2>1, <2>2, <2>3
  <1>18. Owed \in Int /\ Owed' \in Int
    BY <1>3, <1>4, <1>14
  <1>19. (world.mute => Len(says) = 0) /\ (~world.mute => r + Len(wire) = Owed)
    BY <1>5, <1>9, EmptySeq
  <1>20. \A k \in 1 .. Len(wire') : wire'[k].char = Stream(cmd, TRUE, at + k) /\ wire'[k].of = calls
    <2> SUFFICES ASSUME NEW k \in 1 .. Len(wire')
                 PROVE  wire'[k].char = Stream(cmd, TRUE, at + k) /\ wire'[k].of = calls
      OBVIOUS
    <2>1. CASE k \in 1 .. Len(wire) - 1
      <3>1. k + 1 \in 1 .. Len(wire) /\ r + (k + 1) = at + k
        BY <1>3, <1>6, <2>1
      <3> QED
        BY <1>5, <1>8, <2>1, <3>1
    <2>2. CASE k \notin 1 .. Len(wire) - 1
      <3> DEFINE j == k - (Len(wire) - 1)
      <3>1. j \in 1 .. Len(says) /\ k = Len(wire) - 1 + j
        BY <1>6, <1>8, <2>2
      <3>2. ~world.mute
        BY <1>8, <1>19, <3>1
      <3>3. Owed + j = at + k
        <4>1. Owed = (at - 1) + Len(wire) /\ Len(wire) \in Nat /\ at \in Nat
          BY <1>3, <1>6, <1>19, <3>2
        <4> QED
          BY <3>1, <4>1
      <3> HIDE DEF j
      <3>4. wire'[Len(wire) - 1 + j].char = says[j] /\ wire'[Len(wire) - 1 + j].of = calls
        BY <1>8, <3>1
      <3> QED
        BY <1>16, <3>1, <3>3, <3>4
    <2> QED
      BY <2>1, <2>2
  <1>21. at + Len(wire') <= Owed' /\ (~world.mute => at + Len(wire') = Owed')
    <2> DEFINE before == Len(wire)
               after == Len(wire')
               said == Len(says)
    <2>1. /\ at \in Nat /\ before \in Nat /\ said \in Nat /\ after = before - 1 + said
          /\ Owed \in Int /\ Owed' \in Int
      BY <1>3, <1>6, <1>8, <1>18
    <2>2. (at - 1) + before <= Owed /\ Owed <= Owed' /\ (world.mute => said = 0)
      BY <1>5, <1>17, <1>19
    <2>3. ~world.mute => (at - 1) + before = Owed /\ Owed' = Owed + said
      BY <1>17, <1>19
    <2> HIDE DEF before, after, said
    <2>4. world.mute => at + after <= Owed'
      <3> SUFFICES ASSUME world.mute PROVE at + after <= Owed'
        OBVIOUS
      <3>1. said = 0
        BY <2>2
      <3>2. (at - 1) + before <= Owed /\ Owed <= Owed'
        BY <2>2
      <3> QED
        BY <2>1, <3>1, <3>2
    <2>5. ~world.mute => at + after = Owed'
      <3> SUFFICES ASSUME ~world.mute PROVE at + after = Owed'
        OBVIOUS
      <3>1. (at - 1) + before = Owed /\ Owed' = Owed + said
        BY <2>3
      <3> QED
        BY <2>1, <3>1
    <2>6. at + after <= Owed' /\ (~world.mute => at + after = Owed')
      <3>1. at + after = Owed' => at + after <= Owed'
        BY <2>1
      <3> QED
        BY <2>4, <2>5, <3>1
    <2> QED
      BY <2>6 DEF after
  <1>22. ~world.mute => heard' = IF Sending' THEN SubSeq(l, 1, at + 2) ELSE <<>>
    <2>1. CASE at + 2 < n
      BY <1>10, <1>14, <2>1
    <2>2. CASE at + 2 = n
      BY <1>3, <1>11, <1>14, <2>2
    <2>3. CASE at + 2 > n
      BY <1>3, <1>4, <1>5, <1>12, <1>14, <2>3
    <2> QED
      BY <1>3, <2>1, <2>2, <2>3
  <1>23. ~world.mute /\ ~Sending' /\ cmd \in {"rst", "idn"} => ~output'
    <2>1. CASE at + 2 < n
      BY <1>14, <2>1
    <2>2. CASE at + 2 = n
      BY <1>11, <2>2
    <2>3. CASE at + 2 > n
      <3>1. ~Sending /\ output' = output
        BY <1>3, <1>4, <1>12, <2>3
      <3> QED
        BY <1>0, <3>1 DEF Punctual, TurnedOff, Exchanging
    <2> QED
      BY <1>3, <2>1, <2>2, <2>3
  <1>24. phase' \in {"echo", "response"} /\ op # "none" /\ (Sending' => at' + 1 = at + 2)
    <2>1. op # "none"
      BY <1>0 DEF Shape, Order, Exchanging
    <2>2. Sending' => at' + 1 = at + 2
      BY <1>1, <1>3, <1>14
    <2> QED
      BY <1>0, <1>1, <2>1, <2>2
  <1>25. Flowing'
    <2>1. cmd' = cmd /\ echoed' = TRUE /\ world' = world /\ calls' = calls
      BY <1>0, <1>1 DEF TypeOK
    <2>2. ~world.mute => heard' = IF Sending' THEN SubSeq(l, 1, at' + 1) ELSE <<>>
      BY <1>22, <1>24
    <2> QED
      BY <1>14, <1>20, <1>21, <2>1, <2>2 DEF Flowing, l
  <1>26. Answering'
    <2>1. Len(got') < Len(d)
      <3>1. Len(got') = 0
        BY <1>0, <1>1, EmptySeq
      <3>2. Len(d) = 1 \/ Len(d) = 2
        BY <1>3
      <3> QED
        BY <3>1, <3>2
    <2>2. Len(got') = 0
      BY <1>0, <1>1, EmptySeq
    <2> QED
      BY <1>1, <1>24, <2>1, <2>2 DEF Answering, d
  <1>27. TurnedOff'
    BY <1>1, <1>23, <1>24 DEF TurnedOff
  <1>28. Believes' /\ Silent' /\ Woken'
    BY <1>1, <1>2, <1>24 DEF Believes, Silent, Woken
  <1> QED
    BY <1>25, <1>26, <1>27, <1>28 DEF Punctual

(* What can be said of the first byte of the wire in an exchange.          *)
LEMMA FirstByte ==
    ASSUME Shape, Punctual, phase \in Exchanging, wire # <<>>
    PROVE  /\ Head(wire) = wire[1] /\ Head(wire).of = calls
           /\ Len(wire) \in Nat \ {0} /\ Len(got) \in Nat
           /\ phase = "echo" => Head(wire).char = Line(cmd)[at]
           /\ phase = "response" => Head(wire).char = Due(cmd)[Len(got) + 1]
           /\ phase = "prompt" => Head(wire).char = PROMPT /\ Len(wire) = 1
  <1> DEFINE n == Len(Line(cmd))
             d == Due(cmd)
  <1>0. /\ TypeOK /\ cmd \in Commands /\ wire \in Seq(Byte) /\ got \in Seq(Byte) /\ echoed \in BOOLEAN
        /\ phase = "echo" => echoed /\ at \in 1 .. n /\ Len(got) = 0
        /\ phase = "prompt" => echoed
    BY EmptySeq DEF Shape, TypeOK, Order
  <1>1. Head(wire) = wire[1] /\ Len(wire) \in Nat \ {0} /\ 1 \in 1 .. Len(wire) /\ Len(got) \in Nat
    BY <1>0, HeadAndRest, LenProperties
  <1>2. /\ ReadSoFar + Len(wire) <= Owed
        /\ wire[1].char = Stream(cmd, echoed, ReadSoFar + 1) /\ wire[1].of = calls
    BY <1>1 DEF Punctual, Flowing
  <1>3. n \in Nat /\ Len(d) \in {1, 2}
    BY <1>0, LineFacts, DueFacts
  <1>4. /\ phase = "response" => Len(got) < Len(d)
        /\ phase = "prompt" => Len(got) = Len(d)
    BY DEF Punctual, Answering
  <1> HIDE DEF d
  <1>5. CASE phase = "echo"
    <2>1. ReadSoFar + 1 = at /\ at <= n
      BY <1>0, <1>3, <1>5 DEF ReadSoFar
    <2>2. Stream(cmd, echoed, at) = Line(cmd)[at]
      BY <1>0, <1>5, <2>1 DEF Stream
    <2> QED
      BY <1>1, <1>2, <1>5, <2>1, <2>2
  <1>6. CASE phase = "response"
    <2>1. Stream(cmd, echoed, ReadSoFar + 1) = d[Len(got) + 1]
      <3>1. CASE ~echoed
        <4>1. ReadSoFar + 1 = Len(got) + 1
          BY <1>1, <1>6, <3>1 DEF ReadSoFar
        <4> QED
          BY <3>1, <4>1 DEF Stream, d
      <3>2. CASE echoed
        <4>1. ReadSoFar + 1 = n + (Len(got) + 1)
          BY <1>1, <1>3, <1>6, <3>2 DEF ReadSoFar
        <4>2. /\ ~(n + (Len(got) + 1) <= n) /\ n + (Len(got) + 1) <= n + Len(d)
              /\ n + (Len(got) + 1) - n = Len(got) + 1
          BY <1>1, <1>3, <1>4, <1>6
        <4> QED
          BY <3>2, <4>1, <4>2 DEF Stream, d
      <3> QED
        BY <1>0, <3>1, <3>2
    <2> QED
      BY <1>1, <1>2, <1>6, <2>1 DEF d
  <1>7. CASE phase = "prompt"
    <2>1. ReadSoFar = n + Len(d) /\ echoed
      BY <1>0, <1>1, <1>3, <1>4, <1>7 DEF ReadSoFar
    <2>2. Owed = n + Len(d) + 1
      BY <1>7, <2>1 DEF Owed, Sending, Total, d
    <2>3. Len(wire) = 1
      <3> DEFINE total == n + Len(d)
                 left == Len(wire)
      <3>1. total \in Nat /\ left \in Nat /\ left >= 1
        BY <1>1, <1>3
      <3>2. total + left <= total + 1
        BY <1>2, <2>1, <2>2
      <3> HIDE DEF total, left
      <3>3. left = 1
        BY <3>1, <3>2
      <3> QED
        BY <3>3 DEF left
    <2>4. Stream(cmd, echoed, ReadSoFar + 1) = PROMPT
      <3>1. ~(n + Len(d) + 1 <= n) /\ ~(n + Len(d) + 1 <= n + Len(d))
        BY <1>3
      <3> QED
        BY <2>1, <3>1 DEF Stream, d
    <2> QED
      BY <1>1, <1>2, <1>7, <2>3, <2>4
  <1> QED
    BY <1>5, <1>6, <1>7 DEF Exchanging

(* What is read of the response, and what is left.                         *)
LEMMA ResponseRead ==
    ASSUME Shape, Punctual, phase = "response", wire # <<>>, got' = Append(got, Head(wire))
    PROVE  /\ got' \in Seq(Byte) /\ Len(got') = Len(got) + 1 /\ Len(got) \in Nat
           /\ \A k \in 1 .. Len(got') : got'[k].char = Due(cmd)[k] /\ got'[k].of = calls
           /\ Len(got') <= Len(Due(cmd))
           /\ Head(wire).char = NL <=> Len(got') = Len(Due(cmd))
  <1>0. cmd \in Commands
    BY DEF Shape, TypeOK
  <1> DEFINE d == Due(cmd)
  <1>1. /\ got' \in Seq(Byte) /\ Len(got') = Len(got) + 1 /\ Len(got) \in Nat
        /\ \A k \in 1 .. Len(got) : got'[k] = got[k]
        /\ got'[Len(got) + 1] = Head(wire)
    BY RestOfWire
  <1>2. Head(wire).char = d[Len(got) + 1] /\ Head(wire).of = calls
    BY FirstByte DEF Exchanging
  <1>3. /\ Len(got) < Len(d)
        /\ \A k \in 1 .. Len(got) : got[k].char = d[k] /\ got[k].of = calls
    BY DEF Punctual, Answering
  <1>4. /\ Len(d) \in {1, 2} /\ d[Len(d)] = NL /\ \A k \in 1 .. Len(d) - 1 : d[k] # NL
    BY <1>0, DueFacts
  <1> HIDE DEF d
  <1>5. ASSUME NEW k \in 1 .. Len(got')
        PROVE  got'[k].char = d[k] /\ got'[k].of = calls
    <2>1. CASE k \in 1 .. Len(got)
      BY <1>1, <1>3, <2>1
    <2>2. CASE k = Len(got) + 1
      BY <1>1, <1>2, <2>2
    <2> QED
      BY <1>1, <2>1, <2>2
  <1>6. Len(got') <= Len(d) /\ (Head(wire).char = NL <=> Len(got') = Len(d))
    <2>1. Len(got') <= Len(d)
      BY <1>1, <1>3, <1>4
    <2>2. Len(got') = Len(d) => Head(wire).char = NL
      BY <1>1, <1>2, <1>4
    <2>3. Len(got') # Len(d) => Head(wire).char # NL
      <3>1. Len(got') # Len(d) => Len(got) + 1 \in 1 .. Len(d) - 1
        BY <1>1, <1>3, <1>4
      <3> QED
        BY <1>2, <1>4, <3>1
    <2> QED
      BY <2>1, <2>2, <2>3
  <1> QED
    BY <1>1, <1>5, <1>6 DEF d

(* Reading on in an exchange whose line is sent.                           *)
LEMMA ReadOn ==
    ASSUME Shape, Punctual, phase = "response", wire # <<>>, wire' = Tail(wire),
           got' = Append(got, Head(wire)), phase' \in {"response", "prompt"},
           phase' = "prompt" => echoed,
           phase' = "prompt" <=> Head(wire).char = NL,
           UNCHANGED <<world, connected, status, echoed, op, cmd, at, calls, outcome, heard, output>>
    PROVE  Punctual'
  <1>0. wire \in Seq(Byte) /\ cmd \in Commands /\ echoed \in BOOLEAN
    BY DEF Shape, TypeOK
  <1> DEFINE d == Due(cmd)
             n == Len(Line(cmd))
  <1>1. /\ Len(got') = Len(got) + 1 /\ Len(got) \in Nat
        /\ \A k \in 1 .. Len(got') : got'[k].char = d[k] /\ got'[k].of = calls
        /\ Len(got') <= Len(d)
        /\ Head(wire).char = NL <=> Len(got') = Len(d)
    BY ResponseRead
  <1>2. Len(d) \in {1, 2} /\ n \in Nat
    BY <1>0, DueFacts, LineFacts
  <1>3. /\ Len(wire) \in Nat \ {0} /\ Len(wire') = Len(wire) - 1
        /\ \A k \in 1 .. Len(wire) - 1 : wire'[k] = wire[k + 1]
    BY <1>0, HeadAndRest
  <1>4. Answering'
    <2>1. (IF phase' = "response" THEN Len(got') < Len(d) ELSE Len(got') = Len(d))
      BY <1>1, <1>2
    <2> HIDE DEF d
    <2> QED
      BY <1>1, <2>1 DEF Answering, d
  <1> HIDE DEF d
  <1>5. /\ ~Sending /\ ~Sending' /\ Owed' = Owed
        /\ ReadSoFar = (IF echoed THEN n ELSE 0) + Len(got)
        /\ ReadSoFar' = (IF echoed THEN n ELSE 0) + Len(got')
    BY DEF Sending, Owed, Total, ReadSoFar
  <1>6. /\ ReadSoFar + Len(wire) <= Owed
        /\ \A k \in 1 .. Len(wire) :
              wire[k].char = Stream(cmd, echoed, ReadSoFar + k) /\ wire[k].of = calls
        /\ ~world.mute => ReadSoFar + Len(wire) = Owed /\ heard = <<>>
    BY <1>5 DEF Punctual, Flowing, Exchanging
  <1>7. ReadSoFar' = ReadSoFar + 1 /\ ReadSoFar \in Int
    <2> DEFINE before == IF echoed THEN n ELSE 0
    <2>1. before \in Nat
      BY <1>0, <1>2
    <2>2. ReadSoFar = before + Len(got) /\ ReadSoFar' = before + Len(got')
      BY <1>5
    <2> HIDE DEF before
    <2> QED
      BY <1>1, <2>1, <2>2
  <1>8. Owed \in Int
    BY <1>2, <1>5 DEF Owed, Total, d
  <1>9. ReadSoFar' + Len(wire') = ReadSoFar + Len(wire)
    BY <1>3, <1>7
  <1>10. ASSUME NEW k \in 1 .. Len(wire')
         PROVE  wire'[k].char = Stream(cmd, echoed, ReadSoFar' + k) /\ wire'[k].of = calls
    <2>1. k + 1 \in 1 .. Len(wire) /\ k \in 1 .. Len(wire) - 1 /\ ReadSoFar' + k = ReadSoFar + (k + 1)
      BY <1>3, <1>7
    <2> QED
      BY <1>3, <1>6, <2>1
  <1>11. Flowing'
    BY <1>5, <1>6, <1>9, <1>10 DEF Flowing
  <1>12. Believes' /\ Silent' /\ Woken'
    BY DEF Punctual, Believes, Silent, Woken
  <1>13. TurnedOff'
    BY <1>5 DEF Punctual, TurnedOff, Exchanging
  <1> QED
    BY <1>4, <1>11, <1>12, <1>13 DEF Punctual

(* An exchange ends on a silent line, or because the supply is mute.       *)
LEMMA FinishPunctual ==
    ASSUME Shape, Punctual, phase \in Exchanging, NEW result, result \notin {"mixed", "stale"},
           ~world.mute => ~Sending, Finish(result, <<>>)
    PROVE  Punctual'
  <1>0. TypeOK /\ Order
    BY DEF Shape
  <1>1. /\ outcome' = result /\ phase' = "idle"
        /\ UNCHANGED <<world, echoed, cmd, at, calls, heard, output>>
        /\ \/ /\ op = "close" \/ (op = "open" /\ cmd = "idn")
              /\ status' = FALSE /\ op' = "none" /\ wire' = <<>>
           \/ status' = status /\ wire' = <<>>
    <2>1. \A k \in 0 .. Len(<<>>) : SubSeq(<<>>, k + 1, Len(<<>>)) = <<>>
      BY EmptySeq, SubSeqEmpty
    <2> QED
      BY <2>1 DEF Finish, Disconnects
  <1>2. ~world.mute => heard = <<>>
    BY DEF Punctual, Flowing
  <1>3. status
    BY <1>0 DEF Order
  <1>4. Believes' /\ Silent' /\ Woken' /\ Flowing' /\ Answering'
    BY <1>1, <1>2 DEF Punctual, Believes, Silent, Woken, Flowing, Answering, Exchanging
  <1>5. ~world.mute /\ ~status' => ~output
    <2>1. ~status' => cmd \in {"rst", "idn"}
      BY <1>0, <1>1, <1>3 DEF Order
    <2> QED
      BY <2>1 DEF Punctual, TurnedOff
  <1>6. TurnedOff'
    BY <1>1, <1>5 DEF TurnedOff, Exchanging
  <1> QED
    BY <1>4, <1>6 DEF Punctual

(* The bytes of a whole response are of the exchange.                      *)
LEMMA OwnReturned ==
    ASSUME NEW b \in Seq(Byte), cmd \in Commands, Len(b) = Len(Due(cmd)),
           \A k \in 1 .. Len(b) : b[k].char = Due(cmd)[k] /\ b[k].of = calls
    PROVE  Returned(b) = "own"
  <1>1. \A k \in 1 .. Len(b) : b[k].char \notin Range(Answer) \ {Head(Due(cmd))}
    BY DueFacts
  <1> QED
    BY <1>1 DEF Returned, Due

LEMMA ReadingPunctual ==
    ASSUME Shape, Punctual, ~world.late,
           EchoWrong \/ ResponseChar \/ ResponseEnds \/ PromptSkips \/ Prompted \/ NoAnswer
    PROVE  Punctual'
  <1>0. TypeOK /\ cmd \in Commands /\ wire \in Seq(Byte) /\ got \in Seq(Byte)
    BY DEF Shape, TypeOK
  <1> DEFINE d == Due(cmd)
             n == Len(Line(cmd))
  <1>1. Len(d) \in {1, 2} /\ n \in Nat /\ Len(<<>>) = 0 /\ Len(got) \in Nat
    BY <1>0, DueFacts, LineFacts, EmptySeq, LenProperties
  <1>2. ~EchoWrong
    BY FirstByte DEF EchoWrong, Arrives, Exchanging
  <1>3. ~PromptSkips
    BY FirstByte DEF PromptSkips, Arrives, Exchanging
  <1>4. CASE ResponseChar
    <2>1. /\ phase = "response" /\ phase' = "response" /\ wire # <<>> /\ wire' = Tail(wire)
          /\ got' = Append(got, Head(wire)) /\ Head(wire).char # NL
          /\ UNCHANGED <<world, connected, status, echoed, op, cmd, at, calls, outcome, heard, output>>
      BY <1>4 DEF ResponseChar, Arrives, driver
    <2> QED
      BY <2>1, ReadOn
  <1>5. CASE ResponseEnds
    <2>1. /\ phase = "response" /\ wire # <<>> /\ got' = Append(got, Head(wire)) /\ Head(wire).char = NL
      BY <1>5 DEF ResponseEnds, Arrives
    <2>2. CASE echoed
      <3>1. /\ phase' = "prompt" /\ wire' = Tail(wire)
            /\ UNCHANGED <<world, connected, status, echoed, op, cmd, at, calls, outcome, heard, output>>
        BY <1>5, <2>2 DEF ResponseEnds, driver
      <3> QED
        BY <2>1, <2>2, <3>1, ReadOn
    <2>3. CASE ~echoed
      <3>1. Finish(Returned(got'), Tail(wire))
        BY <1>5, <2>3 DEF ResponseEnds
      <3>2. /\ got' \in Seq(Byte) /\ Len(got') = Len(d) /\ Len(got') = Len(got) + 1
            /\ \A k \in 1 .. Len(got') : got'[k].char = d[k] /\ got'[k].of = calls
        BY <2>1, ResponseRead
      <3>3. Returned(got') = "own"
        BY <1>0, <3>2, OwnReturned
      <3>4. ~Sending /\ ReadSoFar = Len(got) /\ Owed = Len(d)
        BY <1>1, <2>1, <2>3 DEF Sending, ReadSoFar, Owed, Total
      <3>5. Len(got) + Len(wire) <= Len(d)
        BY <2>1, <3>4 DEF Punctual, Flowing, Exchanging
      <3>6. /\ Len(wire) \in Nat \ {0} /\ Tail(wire) \in Seq(Byte) /\ Len(Tail(wire)) = Len(wire) - 1
        BY <1>0, <2>1, HeadAndRest
      <3>7. Tail(wire) = <<>>
        <4>1. Len(Tail(wire)) = 0
          BY <1>1, <3>2, <3>5, <3>6
        <4> QED
          BY <3>6, <4>1, EmptySeq
      <3>8. Finish("own", <<>>)
        BY <3>1, <3>3, <3>7
      <3> QED
        BY <2>1, <3>4, <3>8, FinishPunctual DEF Exchanging
    <2> QED
      BY <1>0, <2>2, <2>3 DEF TypeOK
  <1>6. CASE Prompted
    <2>1. phase = "prompt" /\ wire # <<>> /\ Finish(Returned(got), Tail(wire))
      BY <1>6 DEF Prompted, Arrives
    <2>2. /\ Len(got) = Len(d)
          /\ \A k \in 1 .. Len(got) : got[k].char = d[k] /\ got[k].of = calls
      BY <2>1 DEF Punctual, Answering
    <2>3. Returned(got) = "own"
      BY <1>0, <2>2, OwnReturned
    <2>4. Tail(wire) = <<>>
      <3>1. Len(wire) = 1
        BY <2>1, FirstByte DEF Exchanging
      <3>2. Tail(wire) \in Seq(Byte) /\ Len(Tail(wire)) = 0
        BY <1>0, <2>1, <3>1, HeadAndRest
      <3> QED
        BY <3>2, EmptySeq
    <2>5. ~Sending /\ Finish("own", <<>>)
      BY <2>1, <2>3, <2>4 DEF Sending
    <2> QED
      BY <2>1, <2>5, FinishPunctual DEF Exchanging
  <1>7. CASE NoAnswer
    <2>1. /\ phase \in Exchanging /\ wire = <<>>
          /\ Finish(IF phase = "echo" THEN "echo" ELSE "timeout", wire)
      BY <1>7 DEF NoAnswer, TimesOut, Exchanging
    <2>2. ~world.mute => ~Sending
      <3> SUFFICES ASSUME ~world.mute, Sending PROVE FALSE
        OBVIOUS
      <3>1. ReadSoFar + Len(wire) = Owed /\ phase = "echo"
        BY <2>1 DEF Punctual, Flowing, Sending
      <3>2. ReadSoFar = at - 1 /\ Owed = at + 1 /\ at \in 1 .. n
        BY <3>1 DEF ReadSoFar, Owed, Shape, Order
      <3> QED
        BY <1>1, <2>1, <3>1, <3>2
    <2> DEFINE result == IF phase = "echo" THEN "echo" ELSE "timeout"
    <2>3. Finish(result, <<>>) /\ result \notin {"mixed", "stale"}
      BY <2>1
    <2> HIDE DEF result
    <2> QED
      BY <2>1, <2>2, <2>3, FinishPunctual
  <1> QED
    BY <1>2, <1>3, <1>4, <1>5, <1>6, <1>7

LEMMA InitPunctual == Init => Punctual
BY DEF Init, Punctual, Believes, Silent, Woken, Flowing, Answering, TurnedOff, Exchanging

LEMMA NextPunctual ==
    ASSUME Shape, Punctual, ~world.late, [Next]_vars
    PROVE  Punctual'
BY OpenPunctual, DrainPunctual, WakePunctual, CallPunctual, EchoPunctual, ReadingPunctual,
   RestingPunctual DEF Next, User, Running

InTime == Shape /\ (~world.late => Punctual)

LEMMA InTimeInvariant == Spec => []InTime
  <1>1. Init => InTime
    BY InitShape, InitPunctual DEF InTime
  <1>2. InTime /\ [Next]_vars => InTime'
    <2> SUFFICES ASSUME InTime, [Next]_vars PROVE InTime'
      OBVIOUS
    <2>1. Shape' /\ world'.late = world.late
      BY NextShape, WorldStays DEF InTime, Shape
    <2> QED
      BY <2>1, NextPunctual DEF InTime
  <1> QED
    BY <1>1, <1>2, PTL DEF Spec

(* Where nothing is late and the supply hears, one that is closed is off.  *)
THEOREM ClosedSupplyIsOff == Spec => []ClosedIsOff
  <1>1. InTime => ClosedIsOff
    BY DEF InTime, Shape, Punctual, TurnedOff, ClosedIsOff
  <1> QED
    BY <1>1, InTimeInvariant, PTL

----------------------------------------------------------------------------
(* Where the supply echoes, though bytes be late.                          *)

(* The characters that the driver has read in a row in an exchange, and    *)
(* those that follow.                                                      *)
Trail == IF phase = "echo" THEN SubSeq(Line(cmd), 1, at - 1)
         ELSE IF phase = "response" /\ echoed THEN Line(cmd) \o Chars(got) ELSE <<>>
Seen == Trail \o Chars(wire)

(* Before an answer, as far as s reaches back, is the line of its command. *)
Announced(s) ==
    \A k \in 1 .. Len(s), c \in Asking : s[k] = Answer[c] =>
        \A j \in 1 .. Len(Line(c)) : j < k => s[k - j] = Line(c)[Len(Line(c)) + 1 - j]

Plain(s) == \A k \in 1 .. Len(s) : s[k] \notin Range(Answer)

(* t is the end of s.                                                      *)
EndOf(t, s) ==
    \E j \in 0 .. Len(s) : Len(t) = Len(s) - j /\ \A k \in 1 .. Len(t) : t[k] = s[j + k]

LEMMA EndAnnounced ==
    ASSUME NEW s \in Seq(Characters), NEW t \in Seq(Characters), NEW h \in Seq(Characters), EndOf(t, s)
    PROVE  /\ Announced(s) => Announced(t)
           /\ EndAlike(s, h) => EndAlike(t, h)
  <1>1. PICK j \in 0 .. Len(s) : Len(t) = Len(s) - j /\ \A k \in 1 .. Len(t) : t[k] = s[j + k]
    BY DEF EndOf
  <1>2. Len(s) \in Nat /\ Len(t) \in Nat /\ Len(h) \in Nat
    BY LenProperties
  <1>3. ASSUME Announced(s)
        PROVE  Announced(t)
    <2> SUFFICES ASSUME NEW k \in 1 .. Len(t), NEW c \in Asking, t[k] = Answer[c],
                        NEW i \in 1 .. Len(Line(c)), i < k
                 PROVE  t[k - i] = Line(c)[Len(Line(c)) + 1 - i]
      BY DEF Announced
    <2>0. c \in Commands /\ Len(Line(c)) \in Nat
      BY SomeCharacters, LineFacts
    <2>1. j + k \in 1 .. Len(s) /\ s[j + k] = Answer[c] /\ i < j + k
      BY <1>1, <1>2, <2>0
    <2>2. s[(j + k) - i] = Line(c)[Len(Line(c)) + 1 - i]
      BY <1>3, <2>1 DEF Announced
    <2>3. k - i \in 1 .. Len(t) /\ j + (k - i) = (j + k) - i
      BY <1>1, <1>2, <2>0
    <2> QED
      BY <1>1, <2>2, <2>3
  <1>4. ASSUME EndAlike(s, h)
        PROVE  EndAlike(t, h)
    <2> SUFFICES ASSUME NEW k \in 0 .. Len(t) - 1, k < Len(h)
                 PROVE  t[Len(t) - k] = h[Len(h) - k]
      BY DEF EndAlike
    <2>1. k \in 0 .. Len(s) - 1 /\ Len(t) - k \in 1 .. Len(t) /\ j + (Len(t) - k) = Len(s) - k
      BY <1>1, <1>2
    <2>2. s[Len(s) - k] = h[Len(h) - k]
      BY <1>4, <2>1 DEF EndAlike
    <2> QED
      BY <1>1, <2>1, <2>2
  <1> QED
    BY <1>3, <1>4

(* What is no answer may follow anything.                                  *)
LEMMA PlainAnnounced ==
    ASSUME NEW s \in Seq(Characters), NEW t \in Seq(Characters), Announced(s), Plain(t)
    PROVE  Announced(s \o t)
  <1> DEFINE b == s \o t
  <1>1. b \in Seq(Characters) /\ Len(s) \in Nat /\ Len(t) \in Nat /\ Len(b) = Len(s) + Len(t)
    BY Joined
  <1>2. \A k \in 1 .. Len(s) : b[k] = s[k]
    BY Joined
  <1>3. \A k \in 1 .. Len(t) : b[Len(s) + k] = t[k]
    BY Joined
  <1> HIDE DEF b
  <1> SUFFICES ASSUME NEW k \in 1 .. Len(b), NEW c \in Asking, b[k] = Answer[c],
                      NEW i \in 1 .. Len(Line(c)), i < k
               PROVE  b[k - i] = Line(c)[Len(Line(c)) + 1 - i]
    BY DEF Announced, b
  <1>4. c \in Commands /\ Len(Line(c)) \in Nat /\ Answer[c] \in Range(Answer)
    BY SomeCharacters, LineFacts
  <1>5. k \in 1 .. Len(s)
    <2> SUFFICES ASSUME k \notin 1 .. Len(s) PROVE FALSE
      OBVIOUS
    <2>1. k - Len(s) \in 1 .. Len(t) /\ Len(s) + (k - Len(s)) = k
      BY <1>1
    <2>2. b[k] = t[k - Len(s)]
      BY <1>3, <2>1
    <2> QED
      BY <1>4, <2>1, <2>2 DEF Plain
  <1>6. k - i \in 1 .. Len(s) /\ s[k] = Answer[c]
    BY <1>1, <1>2, <1>4, <1>5
  <1>7. s[k - i] = Line(c)[Len(Line(c)) + 1 - i]
    BY <1>5, <1>6 DEF Announced
  <1> QED
    BY <1>2, <1>6, <1>7

(* An answer may follow the line of its command.                           *)
LEMMA AnswerAnnounced ==
    ASSUME NEW s \in Seq(Characters), NEW c \in Asking, Announced(s), EndAlike(s, Line(c))
    PROVE  Announced(s \o <<Answer[c]>>)
  <1> DEFINE t == <<Answer[c]>>
             b == s \o t
  <1>0. /\ c \in Commands /\ Answer[c] \in Characters /\ Len(Line(c)) \in Nat /\ Len(Line(c)) >= 4
        /\ \A d \in Asking : Answer[c] = Answer[d] => c = d
    <2>1. c \in Commands /\ Answer[c] \in Characters
      BY SomeCharacters
    <2>2. Len(Line(c)) \in Nat /\ Len(Line(c)) >= 4
      BY <2>1, LineFacts
    <2> QED
      BY <2>1, <2>2, KepcoAssumption
  <1>1. t \in Seq(Characters) /\ Len(t) = 1 /\ t[1] = Answer[c]
    BY <1>0
  <1> HIDE DEF t
  <1>2. b \in Seq(Characters) /\ Len(s) \in Nat /\ Len(b) = Len(s) + 1
    BY <1>1, Joined
  <1>3. \A k \in 1 .. Len(s) : b[k] = s[k]
    BY <1>1, Joined
  <1>4. b[Len(s) + 1] = Answer[c]
    <2>1. t \in Seq(Characters)
      BY <1>1
    <2>2. \A k \in 1 .. Len(t) : b[Len(s) + k] = t[k]
      BY <2>1, Joined
    <2> HIDE DEF b
    <2>3. 1 \in 1 .. Len(t)
      BY <1>1
    <2>4. b[Len(s) + 1] = t[1]
      BY <2>2, <2>3
    <2> QED
      BY <1>1, <2>4
  <1> HIDE DEF b
  <1> SUFFICES ASSUME NEW k \in 1 .. Len(b), NEW d \in Asking, b[k] = Answer[d],
                      NEW i \in 1 .. Len(Line(d)), i < k
               PROVE  b[k - i] = Line(d)[Len(Line(d)) + 1 - i]
    BY DEF Announced, b, t
  <1>5. d \in Commands /\ Len(Line(d)) \in Nat
    BY SomeCharacters, LineFacts
  <1>6. k - i \in 1 .. Len(s) /\ b[k - i] = s[k - i]
    BY <1>2, <1>3, <1>5
  <1>7. CASE k = Len(s) + 1
    <2>1. d = c
      BY <1>0, <1>4, <1>7
    <2>2. i - 1 \in 0 .. Len(s) - 1 /\ i - 1 < Len(Line(c)) /\ Len(s) - (i - 1) = k - i
          /\ Len(Line(c)) - (i - 1) = Len(Line(c)) + 1 - i
      BY <1>0, <1>2, <1>6, <1>7, <2>1
    <2>3. s[Len(s) - (i - 1)] = Line(c)[Len(Line(c)) - (i - 1)]
      BY <2>2 DEF EndAlike
    <2> QED
      BY <1>6, <2>1, <2>2, <2>3
  <1>8. CASE k # Len(s) + 1
    <2>1. k \in 1 .. Len(s) /\ s[k] = Answer[d]
      BY <1>2, <1>3, <1>8
    <2>2. s[k - i] = Line(d)[Len(Line(d)) + 1 - i]
      BY <2>1 DEF Announced
    <2> QED
      BY <1>6, <2>2
  <1> QED
    BY <1>7, <1>8

LEMMA BothEndAlike ==
    ASSUME NEW s \in Seq(Characters), NEW h \in Seq(Characters), NEW t \in Seq(Characters),
           EndAlike(s, h)
    PROVE  EndAlike(s \o t, h \o t)
  <1> DEFINE a == s \o t
             b == h \o t
  <1>1. a \in Seq(Characters) /\ Len(s) \in Nat /\ Len(t) \in Nat /\ Len(a) = Len(s) + Len(t)
    BY Joined
  <1>2. \A k \in 1 .. Len(s) : a[k] = s[k]
    BY Joined
  <1>3. \A k \in 1 .. Len(t) : a[Len(s) + k] = t[k]
    BY Joined
  <1>4. b \in Seq(Characters) /\ Len(h) \in Nat /\ Len(b) = Len(h) + Len(t)
    BY Joined
  <1>5. \A k \in 1 .. Len(h) : b[k] = h[k]
    BY Joined
  <1>6. \A k \in 1 .. Len(t) : b[Len(h) + k] = t[k]
    BY Joined
  <1> HIDE DEF a, b
  <1> SUFFICES ASSUME NEW k \in 0 .. Len(a) - 1, k < Len(b)
               PROVE  a[Len(a) - k] = b[Len(b) - k]
    BY DEF EndAlike, a, b
  <1>7. CASE k < Len(t)
    <2>1. Len(t) - k \in 1 .. Len(t) /\ Len(s) + (Len(t) - k) = Len(a) - k
          /\ Len(h) + (Len(t) - k) = Len(b) - k
      BY <1>1, <1>4, <1>7
    <2> QED
      BY <1>3, <1>6, <2>1
  <1>8. CASE k >= Len(t)
    <2>1. /\ k - Len(t) \in 0 .. Len(s) - 1 /\ k - Len(t) < Len(h)
          /\ Len(s) - (k - Len(t)) = Len(a) - k /\ Len(h) - (k - Len(t)) = Len(b) - k
          /\ Len(a) - k \in 1 .. Len(s) /\ Len(b) - k \in 1 .. Len(h)
      BY <1>1, <1>4, <1>8
    <2>2. s[Len(s) - (k - Len(t))] = h[Len(h) - (k - Len(t))]
      BY <2>1 DEF EndAlike
    <2> QED
      BY <1>2, <1>5, <2>1, <2>2
  <1> QED
    BY <1>1, <1>7, <1>8

(* What the supply says next keeps answers announced and ends with what it *)
(* has heard.                                                              *)
LEMMA SaysAnnounced ==
    ASSUME TypeOK, NEW s \in Seq(Characters), NEW chars, Writable(chars), world.echoes,
           Announced(s), ~world.mute => EndAlike(s, heard)
    PROVE  /\ Announced(s \o Told(chars))
           /\ ~world.mute => EndAlike(s \o Told(chars), IF Ends(chars) THEN <<>> ELSE LineOf(heard, chars))
  <1> DEFINE says == Told(chars)
             line == LineOf(heard, chars)
  <1>0. chars \in Seq(Characters) /\ chars # <<>> /\ Plain(chars) /\ heard \in Seq(Characters)
    BY DEF Writable, Plain, TypeOK
  <1>1. /\ world.mute => says = <<>>
        /\ ~world.mute /\ ~Ends(chars) => says = chars
        /\ ~world.mute /\ Ends(chars) => says = (chars \o Reply(line)) \o <<PROMPT>>
    BY <1>0, ToldFacts
  <1> HIDE DEF says
  <1>2. CASE world.mute
    BY <1>1, <1>2, ConcatEmptySeq DEF says
  <1>3. Announced(s \o chars)
    BY <1>0, PlainAnnounced
  <1>4. CASE ~world.mute /\ ~Ends(chars)
    <2>1. EndAlike(s \o chars, heard \o chars)
      BY <1>0, <1>4, BothEndAlike
    <2>2. line = heard \o chars /\ says = chars
      BY <1>1, <1>4 DEF LineOf
    <2> QED
      BY <1>3, <1>4, <2>1, <2>2 DEF says
  <1>5. CASE ~world.mute /\ Ends(chars)
    <2> DEFINE a == s \o chars
               d == Reply(line)
    <2>1. says = (chars \o d) \o <<PROMPT>>
      BY <1>1, <1>5
    <2>2. a \in Seq(Characters) /\ d \in Seq(Characters) /\ <<PROMPT>> \in Seq(Characters)
          /\ <<NL>> \in Seq(Characters)
      BY <1>0, Joined, ReplyFacts, SomeCharacters
    <2>3. Plain(<<PROMPT>>) /\ Plain(<<NL>>)
      BY SomeCharacters DEF Plain
    <2>4. Announced(a)
      BY <1>3
    <2>5. Announced(a \o d)
      <3>1. CASE d = <<>>
        BY <2>2, <2>4, <3>1, ConcatEmptySeq
      <3>2. CASE d = <<NL>>
        <4> HIDE DEF a, d
        <4> QED
          BY <2>2, <2>3, <2>4, <3>2, PlainAnnounced
      <3>3. ASSUME NEW c \in Asking, line = Text[c], d = <<Answer[c], NL>>
            PROVE  Announced(a \o d)
        <4>1. line \o <<NL>> = Line(c)
          <5>1. Text[c] \in Seq(Characters) /\ NL \in Characters
            <6>1. c \in Commands /\ NL \in Characters
              BY SomeCharacters, Zenon
            <6> QED
              BY <6>1, LineFacts
          <5> QED
            BY <3>3, <5>1, AppendIsConcat DEF Line
        <4>2. chars = Front(chars) \o <<NL>> /\ Front(chars) \in Seq(Characters)
          <5> DEFINE n == Len(chars)
          <5>1. n \in Nat \ {0} /\ chars[n] = NL
            BY <1>0, <1>5, EmptySeq DEF Ends, Last
          <5>2. \A i \in 1 .. n - 1 : chars[i] \in Characters
            BY <1>0, <5>1, ElementOfSeq
          <5>3. Front(chars) \in Seq(Characters)
            BY <5>1, <5>2, SubSeqProperties DEF Front
          <5>4. SubSeq(chars, 1, n) = SubSeq(chars, 1, n - 1) \o <<chars[n]>>
            BY <1>0, <5>1, SubSeqRecursiveSecond
          <5>5. SubSeq(chars, 1, n) = chars
            BY <1>0, SubSeqFull
          <5> QED
            BY <5>1, <5>3, <5>4, <5>5, Zenon DEF Front
        <4>3. heard \o chars = (heard \o Front(chars)) \o <<NL>>
          <5> DEFINE f == Front(chars)
          <5>1. f \in Seq(Characters) /\ chars = f \o <<NL>>
            BY <4>2
          <5> HIDE DEF f
          <5>2. (heard \o f) \o <<NL>> = heard \o (f \o <<NL>>)
            <6> DEFINE nl == <<NL>>
            <6>1. heard \in Seq(Characters) /\ f \in Seq(Characters) /\ nl \in Seq(Characters)
              BY <1>0, <2>2, <5>1
            <6> HIDE DEF nl
            <6>2. (heard \o f) \o nl = heard \o (f \o nl)
              BY <6>1, Regrouped
            <6> QED
              BY <6>2 DEF nl
          <5>3. (heard \o f) \o <<NL>> = heard \o chars
            BY <5>1, <5>2
          <5> QED
            BY <5>3 DEF f
        <4>4. line = heard \o Front(chars)
          BY <1>5 DEF LineOf
        <4>5. EndAlike(a, heard \o chars)
          BY <1>0, <1>5, BothEndAlike
        <4>6. EndAlike(a, Line(c))
          BY <4>1, <4>3, <4>4, <4>5
        <4> DEFINE x == <<Answer[c]>>
        <4>7. x \in Seq(Characters) /\ Answer[c] \in Characters
          BY SomeCharacters
        <4> HIDE DEF a, d
        <4>8. Announced(a \o x)
          BY <2>2, <2>4, <4>6, AnswerAnnounced
        <4>9. a \o x \in Seq(Characters)
          BY <2>2, <4>7, Joined
        <4>10. Announced((a \o x) \o <<NL>>)
          BY <2>2, <2>3, <4>8, <4>9, PlainAnnounced
        <4>11. (a \o x) \o <<NL>> = a \o (x \o <<NL>>)
          BY <2>2, <4>7, Regrouped
        <4>12. x \o <<NL>> = d
          <5>1. Append(x, NL) = x \o <<NL>>
            BY <4>7, SomeCharacters, AppendIsConcat
          <5>2. Append(x, NL) = d
            <6> DEFINE p == Append(x, NL)
            <6>1. Len(x) = 1 /\ x[1] = Answer[c]
              OBVIOUS
            <6>2. d \in Seq(Characters) /\ Len(d) = 2 /\ d[1] = Answer[c] /\ d[2] = NL
              BY <2>2, <3>3
            <6> HIDE DEF x
            <6>3. /\ p \in Seq(Characters) /\ Len(p) = Len(x) + 1
                  /\ \A k \in 1 .. Len(x) : p[k] = x[k]
                  /\ p[Len(x) + 1] = NL
              <7>1. NL \in Characters
                BY SomeCharacters
              <7> QED
                BY <4>7, <7>1, AppendProperties
            <6> HIDE DEF p
            <6>4. Len(p) = 2 /\ p[1] = Answer[c] /\ p[2] = NL
              BY <6>1, <6>3
            <6>5. \A k \in 1 .. Len(p) : p[k] = d[k]
              BY <6>2, <6>4
            <6>6. p = d
              BY <6>2, <6>3, <6>4, <6>5, SeqEqual
            <6> QED
              BY <6>6 DEF p
          <5> QED
            BY <5>1, <5>2
        <4> QED
          BY <4>10, <4>11, <4>12
      <3>4. d = <<>> \/ d = <<NL>> \/ \E c \in Asking : line = Text[c] /\ d = <<Answer[c], NL>>
        BY ReplyFacts
      <3> QED
        BY <3>1, <3>2, <3>3, <3>4
    <2> HIDE DEF d
    <2>6. s \o says = (a \o d) \o <<PROMPT>>
      <3>1. chars \o d \in Seq(Characters)
        BY <1>0, <2>2, Joined
      <3>2. s \o ((chars \o d) \o <<PROMPT>>) = (s \o (chars \o d)) \o <<PROMPT>>
        BY <2>2, <3>1, Regrouped
      <3>3. s \o (chars \o d) = (s \o chars) \o d
        <4>1. s \in Seq(Characters) /\ chars \in Seq(Characters) /\ d \in Seq(Characters)
          BY <1>0, <2>2
        <4>2. (s \o chars) \o d = s \o (chars \o d)
          BY <4>1, Regrouped
        <4> QED
          BY <4>2
      <3> QED
        BY <2>1, <3>2, <3>3
    <2>7. a \o d \in Seq(Characters)
      BY <2>2, Joined
    <2> HIDE DEF a
    <2>8. Announced((a \o d) \o <<PROMPT>>)
      BY <2>2, <2>3, <2>5, <2>7, PlainAnnounced
    <2>9. ASSUME NEW t PROVE EndAlike(t, <<>>)
      BY EmptySeq DEF EndAlike
    <2> QED
      BY <1>5, <2>6, <2>8, <2>9 DEF says
  <1> QED
    BY <1>2, <1>4, <1>5 DEF TypeOK

LEMMA SeenFacts ==
    ASSUME Shape
    PROVE  /\ Trail \in Seq(Characters) /\ Seen \in Seq(Characters)
           /\ Chars(wire) \in Seq(Characters) /\ Chars(got) \in Seq(Characters)
           /\ Len(Trail) \in Nat /\ Len(Seen) = Len(Trail) + Len(wire) /\ Len(wire) \in Nat
           /\ \A k \in 1 .. Len(Trail) : Seen[k] = Trail[k]
           /\ \A k \in 1 .. Len(wire) : Seen[Len(Trail) + k] = wire[k].char
  <1>1. /\ wire \in Seq(Byte) /\ got \in Seq(Byte) /\ cmd \in Commands
        /\ phase = "echo" => at \in 1 .. Len(Line(cmd))
    BY DEF Shape, TypeOK, Order
  <1>2. Chars(got) \in Seq(Characters) /\ Line(cmd) \in Seq(Characters) /\ Len(Line(cmd)) \in Nat
    BY <1>1, CharsFacts, LineFacts
  <1> DEFINE w == Chars(wire)
  <1>3. w \in Seq(Characters) /\ Len(w) = Len(wire) /\ Len(wire) \in Nat
        /\ \A k \in 1 .. Len(wire) : w[k] = wire[k].char
    BY <1>1, CharsFacts
  <1> HIDE DEF w
  <1>4. Trail \in Seq(Characters)
    <2>1. CASE phase = "echo"
      <3>1. at - 1 \in Int /\ \A i \in 1 .. at - 1 : Line(cmd)[i] \in Characters
        BY <1>1, <1>2, <2>1, ElementOfSeq
      <3> QED
        BY <2>1, <3>1, SubSeqProperties DEF Trail
    <2>2. CASE phase = "response" /\ echoed
      BY <1>2, <2>2, Joined DEF Trail
    <2>3. CASE phase # "echo" /\ ~(phase = "response" /\ echoed)
      BY <2>3, EmptySeq DEF Trail
    <2> QED
      BY <2>1, <2>2, <2>3
  <1>5. Seen = Trail \o w
    BY DEF Seen, w
  <1>6. Seen \in Seq(Characters) /\ Len(Trail) \in Nat /\ Len(Seen) = Len(Trail) + Len(wire)
    <2>1. w \in Seq(Characters) /\ Len(w) = Len(wire)
      BY <1>3
    <2>2. Trail \o w \in Seq(Characters) /\ Len(Trail) \in Nat /\ Len(Trail \o w) = Len(Trail) + Len(w)
      BY <1>4, <2>1, Joined
    <2> QED
      BY <1>5, <2>1, <2>2
  <1>7. \A k \in 1 .. Len(Trail) : Seen[k] = Trail[k]
    BY <1>3, <1>4, <1>5, Joined
  <1>8. \A k \in 1 .. Len(w) : Seen[Len(Trail) + k] = w[k]
    BY <1>3, <1>4, <1>5, Joined
  <1>9. \A k \in 1 .. Len(wire) : Seen[Len(Trail) + k] = wire[k].char
    BY <1>3, <1>8
  <1> QED
    BY <1>2, <1>3, <1>4, <1>6, <1>7, <1>9 DEF w

LEMMA EndOfSeen ==
    ASSUME Shape, NEW w, Taken(w)
    PROVE  Chars(w) \in Seq(Characters) /\ EndOf(Chars(w), Seen)
  <1>0. TypeOK
    BY DEF Shape
  <1>1. /\ Len(Trail) \in Nat /\ Len(Seen) = Len(Trail) + Len(wire) /\ Len(wire) \in Nat
        /\ \A k \in 1 .. Len(wire) : Seen[Len(Trail) + k] = wire[k].char
    BY SeenFacts
  <1>2. w \in Seq(Byte) /\ Len(w) \in Nat
    BY <1>0, TakenFacts
  <1>3. PICK j \in 0 .. Len(wire) : Len(w) = Len(wire) - j /\ \A k \in 1 .. Len(w) : w[k] = wire[j + k]
    BY <1>0, TakenFacts
  <1> DEFINE t == Chars(w)
  <1>4. t \in Seq(Characters) /\ Len(t) = Len(w) /\ \A k \in 1 .. Len(w) : t[k] = w[k].char
    BY <1>2, CharsFacts
  <1> HIDE DEF t
  <1>5. Len(Trail) + j \in 0 .. Len(Seen) /\ Len(t) = Len(Seen) - (Len(Trail) + j)
    BY <1>1, <1>3, <1>4
  <1>6. ASSUME NEW k \in 1 .. Len(t)
        PROVE  t[k] = Seen[(Len(Trail) + j) + k]
    <2>1. k \in 1 .. Len(w) /\ j + k \in 1 .. Len(wire) /\ Len(Trail) + (j + k) = (Len(Trail) + j) + k
      BY <1>1, <1>2, <1>3, <1>4
    <2>2. Seen[Len(Trail) + (j + k)] = wire[j + k].char
      BY <1>1, <2>1
    <2> QED
      BY <1>3, <1>4, <2>1, <2>2
  <1>7. EndOf(t, Seen)
    BY <1>5, <1>6 DEF EndOf
  <1> QED
    BY <1>4, <1>7 DEF t

LEMMA WholeEnd ==
    ASSUME NEW s \in Seq(Characters)
    PROVE  EndOf(s, s)
  <1>1. Len(s) \in Nat
    BY LenProperties
  <1>2. \A k \in 1 .. Len(s) : 0 + k = k
    BY <1>1
  <1> QED
    BY <1>1, <1>2 DEF EndOf

(* What was heard, if anything, and what was said then.                    *)
Goes(s) ==
    \/ Seen' = s /\ heard' = heard
    \/ \E chars : /\ Writable(chars) /\ Seen' = s \o Told(chars)
                  /\ ~world.mute => heard' = IF Ends(chars) THEN <<>> ELSE LineOf(heard, chars)

(* The driver reads a character and remembers it.                          *)
LEMMA RollsOn ==
    ASSUME Shape, EchoRight \/ (ResponseChar /\ echoed)
    PROVE  Goes(Seen)
  <1>0. /\ TypeOK /\ wire \in Seq(Byte) /\ got \in Seq(Byte) /\ cmd \in Commands
        /\ calls \in 0 .. MaxCalls
    BY DEF Shape, TypeOK
  <1> DEFINE l == Line(cmd)
             h == Head(wire)
             rest == Tail(wire)
             w == Chars(rest)
  <1>1. wire # <<>> /\ cmd' = cmd /\ echoed' = echoed
    BY DEF EchoRight, ResponseChar, Arrives, driver
  <1>2. /\ h \in Byte /\ rest \in Seq(Byte) /\ Chars(wire) = <<h.char>> \o w /\ h.char \in Characters
    BY <1>0, <1>1, HeadAndRest DEF Byte
  <1>3. /\ l \in Seq(Characters) /\ Len(l) \in Nat /\ Len(l) >= 4
        /\ \A k \in 1 .. Len(l) : l[k] \notin Range(Answer)
    BY <1>0, LineFacts
  <1>4. Trail \in Seq(Characters) /\ Chars(got) \in Seq(Characters)
    BY SeenFacts
  <1>5. w \in Seq(Characters)
    BY <1>2, CharsFacts
  <1> DEFINE x == <<h.char>>
  <1>6. x \in Seq(Characters)
    BY <1>2
  <1>7. Trail' = Trail \o x
    <2>1. CASE EchoRight
      <3>1. /\ phase = "echo" /\ h.char = l[at] /\ at \in 1 .. Len(l) /\ got' = got /\ got = <<>> /\ echoed
            /\ IF at = Len(l) THEN phase' = "response" ELSE phase' = "echo" /\ at' = at + 1
        BY <2>1 DEF EchoRight, Arrives, Shape, Order
      <3> HIDE DEF l
      <3>2. SubSeq(l, 1, at) = SubSeq(l, 1, at - 1) \o <<l[at]>>
        BY <1>3, <3>1, SubSeqRecursiveSecond
      <3>3. Trail = SubSeq(l, 1, at - 1)
        BY <3>1 DEF Trail, l
      <3>4. CASE at = Len(l)
        <4>1. Chars(got') = <<>>
          <5>1. <<>> \in Seq(Byte) /\ Len(<<>>) = 0
            BY EmptySeq
          <5>2. Chars(<<>>) \in Seq(Characters) /\ Len(Chars(<<>>)) = 0
            BY <5>1, CharsFacts
          <5>3. Chars(<<>>) = <<>>
            BY <5>2, EmptySeq
          <5> QED
            BY <3>1, <5>3
        <4>2. Trail' = l \o Chars(got')
          BY <1>1, <3>1, <3>4 DEF Trail, l
        <4>3. Trail' = l
          BY <1>3, <4>1, <4>2, ConcatEmptySeq
        <4>4. SubSeq(l, 1, at) = l
          BY <1>3, <3>4, SubSeqFull
        <4> QED
          BY <3>1, <3>2, <3>3, <4>3, <4>4
      <3>5. CASE at # Len(l)
        <4>1. Trail' = SubSeq(l, 1, at' - 1)
          BY <1>1, <3>1, <3>5 DEF Trail, l
        <4>2. at' - 1 = at
          BY <3>1, <3>5
        <4> QED
          BY <3>1, <3>2, <3>3, <4>1, <4>2
      <3> QED
        BY <3>4, <3>5
    <2>2. CASE ResponseChar /\ echoed
      <3>1. phase = "response" /\ phase' = "response" /\ got' = Append(got, h) /\ echoed /\ echoed'
        BY <1>1, <2>2 DEF ResponseChar
      <3>2. Trail = l \o Chars(got) /\ Trail' = l \o Chars(got')
        BY <1>1, <3>1 DEF Trail
      <3> HIDE DEF l, h
      <3>3. <<h>> \in Seq(Byte) /\ Chars(<<h>>) = x
        <4>1. <<h>> \in Seq(Byte) /\ Len(<<h>>) = 1 /\ <<h>>[1].char = h.char
          BY <1>2
        <4> QED
          BY <4>1, OneByte
      <3>4. got' = got \o <<h>>
        BY <1>0, <1>2, <3>1, AppendIsConcat
      <3>5. Chars(got') = Chars(got) \o x
        BY <1>0, <3>3, <3>4, CharsOfBoth
      <3> HIDE DEF x
      <3> DEFINE g == Chars(got)
      <3>6. l \in Seq(Characters) /\ g \in Seq(Characters) /\ x \in Seq(Characters)
        BY <1>3, <1>4, <1>6
      <3> HIDE DEF g
      <3>7. (l \o g) \o x = l \o (g \o x)
        BY <3>6, Regrouped
      <3>8. (l \o Chars(got)) \o x = l \o (Chars(got) \o x)
        BY <3>7 DEF g
      <3> QED
        BY <3>2, <3>5, <3>8
    <2> QED
      BY <2>1, <2>2
  <1> HIDE DEF x
  <1>8. Trail' \o w = Seen
    <2>1. (Trail \o x) \o w = Trail \o (x \o w)
      <3>1. Trail \in Seq(Characters) /\ x \in Seq(Characters) /\ w \in Seq(Characters)
        BY <1>4, <1>5, <1>6
      <3> HIDE DEF w
      <3> QED
        BY <3>1, Regrouped
    <2>2. Seen = Trail \o (x \o w)
      BY <1>2 DEF Seen, x
    <2> QED
      BY <1>7, <2>1, <2>2
  <1>9. Trail' \in Seq(Characters)
    BY <1>4, <1>6, <1>7, Joined
  <1>10. Seen' = Trail' \o Chars(wire')
    BY DEF Seen
  <1>11. CASE wire' = rest /\ heard' = heard
    BY <1>8, <1>10, <1>11 DEF Goes
  <1>12. ASSUME NEW chars, Writable(chars), Hear(rest, chars, calls)
         PROVE  Goes(Seen)
    <2> DEFINE says == Told(chars)
    <2>1. chars \in Seq(Characters) /\ chars # <<>>
      BY <1>12 DEF Writable
    <2>2. says \in Seq(Characters) /\ Chars(wire') = w \o says
      BY <1>0, <1>2, <1>12, <2>1, HearDoes
    <2>3. ~world.mute => heard' = IF Ends(chars) THEN <<>> ELSE LineOf(heard, chars)
      BY <1>12 DEF Hear
    <2> HIDE DEF says, w
    <2>4. Trail' \o (w \o says) = (Trail' \o w) \o says
      BY <1>5, <1>9, <2>2, Regrouped
    <2>5. Seen' = Seen \o says
      BY <1>8, <1>10, <2>2, <2>4
    <2> QED
      BY <1>12, <2>3, <2>5 DEF Goes, says
  <1>13. \/ wire' = rest /\ heard' = heard
         \/ \E chars : Writable(chars) /\ Hear(rest, chars, calls)
    <2>1. CASE ResponseChar
      BY <2>1 DEF ResponseChar
    <2>2. CASE EchoRight /\ at + 2 <= Len(l)
      <3> DEFINE y == l[at + 2]
      <3>1. Hear(rest, <<y>>, calls)
        BY <2>2 DEF EchoRight
      <3>2. at + 2 \in 1 .. Len(l)
        BY <1>3, <2>2 DEF EchoRight, Shape, Order
      <3>3. y \in Characters /\ y \notin Range(Answer)
        BY <1>3, <3>2, ElementOfSeq
      <3> HIDE DEF y
      <3>4. Writable(<<y>>)
        BY <3>3 DEF Writable
      <3> QED
        BY <3>1, <3>4
    <2>3. CASE EchoRight /\ ~(at + 2 <= Len(l))
      BY <2>3 DEF EchoRight
    <2> QED
      BY <2>1, <2>2, <2>3
  <1> QED
    BY <1>11, <1>12, <1>13

LEMMA SeenGoes ==
    ASSUME Shape, [Next]_vars
    PROVE  \E s \in Seq(Characters) : EndOf(s, Seen) /\ Goes(s)
  <1>0. TypeOK /\ Order
    BY DEF Shape
  <1>1. Seen \in Seq(Characters) /\ EndOf(Seen, Seen)
    BY SeenFacts, WholeEnd
  <1>2. CASE EchoRight \/ (ResponseChar /\ echoed)
    BY <1>1, <1>2, RollsOn
  <1>3. CASE Interrupted \/ FallsMute \/ UNCHANGED vars
    <2>1. UNCHANGED <<phase, echoed, cmd, at, got, wire, heard>>
      BY <1>3 DEF Interrupted, FallsMute, vars, driver, supply
    <2>2. Seen' = Seen
      BY <2>1 DEF Seen, Trail
    <2> QED
      BY <1>1, <2>1, <2>2 DEF Goes
  <1>4. CASE Trail' = <<>>
    <2>1. PICK w : Taken(w) /\ ((wire' = w /\ heard' = heard) \/ Hears(w))
      BY Flow
    <2> DEFINE s == Chars(w)
    <2>2. s \in Seq(Characters) /\ EndOf(s, Seen) /\ w \in Seq(Byte)
      BY <1>0, <2>1, EndOfSeen, TakenFacts
    <2>3. Seen' = Chars(wire')
      <3>1. Chars(wire') \in Seq(Characters)
        <4>1. wire' \in Seq(Byte)
          BY NextShape DEF Shape, TypeOK
        <4> QED
          BY <4>1, CharsFacts
      <3>2. Seen' = <<>> \o Chars(wire')
        BY <1>4 DEF Seen
      <3> QED
        BY <3>1, <3>2, ConcatEmptySeq
    <2>4. CASE wire' = w /\ heard' = heard
      BY <2>2, <2>3, <2>4 DEF Goes
    <2>5. CASE Hears(w)
      <3>1. PICK chars \in Seq(Characters), n \in 0 .. MaxCalls : Writable(chars) /\ Hear(w, chars, n)
        BY <2>5 DEF Hears
      <3>2. Chars(wire') = s \o Told(chars)
        BY <1>0, <2>2, <3>1, HearDoes DEF Writable
      <3>3. ~world.mute => heard' = IF Ends(chars) THEN <<>> ELSE LineOf(heard, chars)
        BY <3>1 DEF Hear
      <3> QED
        BY <2>2, <2>3, <3>1, <3>2, <3>3 DEF Goes
    <2> QED
      BY <2>1, <2>4, <2>5
  <1>5. CASE (\E works \in BOOLEAN : Open(works)) \/ Drain \/ Wake
    <2>1. phase' # "echo" /\ phase' # "response"
      BY <1>0, <1>5 DEF Open, Drain, Wake, TypeOK
    <2> QED
      BY <1>4, <2>1 DEF Trail
  <1>6. ASSUME NEW c, NEW e, Begin(c, e), echoed' = e
        PROVE  Trail' = <<>>
    <2>1. at' = 1 /\ phase' = IF e THEN "echo" ELSE "response"
      BY <1>6 DEF Begin
    <2>2. CASE e
      <3>1. phase' = "echo" /\ at' - 1 = 0
        BY <2>1, <2>2
      <3>2. SubSeq(Line(cmd'), 1, 0) = <<>>
        BY SubSeqEmpty
      <3> QED
        BY <3>1, <3>2 DEF Trail
    <2>3. CASE ~e
      BY <1>6, <2>1, <2>3 DEF Trail
    <2> QED
      BY <2>2, <2>3
  <1>7. CASE Identify \/ OpenGoesOn \/ Close \/ (\E c \in Uses : Use(c))
    <2>1. \E c, e : Begin(c, e) /\ echoed' = e
      <3>1. CASE Identify
        BY <3>1 DEF Identify
      <3>2. CASE OpenGoesOn
        BY <3>2 DEF OpenGoesOn, driver
      <3>3. CASE Close
        BY <3>3 DEF Close
      <3>4. CASE \E c \in Uses : Use(c)
        BY <3>4 DEF Use
      <3> QED
        BY <1>7, <3>1, <3>2, <3>3, <3>4
    <2> QED
      BY <1>4, <1>6, <2>1
  <1>8. CASE EchoWrong \/ ResponseEnds \/ PromptSkips \/ Prompted \/ NoAnswer
    <2>1. phase' # "echo" /\ phase' # "response"
      BY <1>8 DEF EchoWrong, ResponseEnds, PromptSkips, Prompted, NoAnswer, Finish
    <2> QED
      BY <1>4, <2>1 DEF Trail
  <1>9. CASE ResponseChar /\ ~echoed
    <2>1. phase' = "response" /\ echoed' = echoed
      BY <1>9 DEF ResponseChar, driver
    <2> QED
      BY <1>4, <1>9, <2>1 DEF Trail
  <1> QED
    BY <1>2, <1>3, <1>5, <1>7, <1>8, <1>9 DEF Next, User, Running

(* The answers of a driver that has read an echo are those of its command: *)
(* the echo is the line that announces them.                               *)
LEMMA EchoTellsAnswer ==
    ASSUME Shape, Announced(Seen), echoed, phase = "response", wire # <<>>,
           Head(wire).char = NL, got' = Append(got, Head(wire))
    PROVE  \A k \in 1 .. Len(got') : got'[k].char \in Range(Answer) => got'[k].char = Head(Due(cmd))
  <1> DEFINE l == Line(cmd)
             n == Len(l)
             g == Chars(got)
  <1>0. cmd \in Commands /\ got \in Seq(Byte)
    BY DEF Shape, TypeOK
  <1>1. /\ Len(got') = Len(got) + 1 /\ Len(got) \in Nat
        /\ \A k \in 1 .. Len(got) : got'[k] = got[k] /\ got[k].char # NL
        /\ got'[Len(got) + 1] = Head(wire)
    BY RestOfWire DEF Shape, Order
  <1>2. /\ l \in Seq(Characters) /\ n \in Nat /\ n = Len(Text[cmd]) + 1 /\ Len(Text[cmd]) \in Nat
        /\ n >= 4 /\ \A k \in 1 .. n - 1 : l[k] = Text[cmd][k]
    BY <1>0, LineFacts
  <1>3. g \in Seq(Characters) /\ Len(g) = Len(got) /\ \A k \in 1 .. Len(got) : g[k] = got[k].char
    BY <1>0, CharsFacts
  <1> HIDE DEF l, g
  <1>4. Trail = l \o g
    BY DEF Trail, l, g
  <1>4a. l \in Seq(Characters) /\ g \in Seq(Characters)
    BY <1>2, <1>3
  <1>5. Len(Trail) = n + Len(got)
    <2>1. Len(l \o g) = Len(l) + Len(g)
      BY <1>4a, Joined
    <2> QED
      BY <1>3, <1>4, <2>1
  <1>6. \A k \in 1 .. n : Trail[k] = l[k]
    <2>1. \A k \in 1 .. Len(l) : (l \o g)[k] = l[k]
      BY <1>4a, Joined
    <2> QED
      BY <1>4, <2>1
  <1>7. \A k \in 1 .. Len(g) : Trail[n + k] = g[k]
    <2>1. \A k \in 1 .. Len(g) : (l \o g)[Len(l) + k] = g[k]
      BY <1>4a, Joined
    <2> QED
      BY <1>4, <2>1
  <1>8. /\ Len(Seen) = Len(Trail) + Len(wire) /\ Len(wire) \in Nat
        /\ \A k \in 1 .. Len(Trail) : Seen[k] = Trail[k]
    BY SeenFacts
  <1>9. \A k \in 1 .. n : Seen[k] = l[k]
    <2> SUFFICES ASSUME NEW k \in 1 .. n PROVE Seen[k] = l[k]
      OBVIOUS
    <2>1. k \in 1 .. Len(Trail)
      <3>1. n \in Nat /\ Len(got) \in Nat /\ Len(Trail) = n + Len(got)
        BY <1>1, <1>2, <1>5
      <3> QED
        BY <3>1
    <2> QED
      BY <1>6, <1>8, <2>1
  <1>10. \A k \in 1 .. Len(got) : Seen[n + k] = got[k].char /\ n + k \in 1 .. Len(Seen)
    <2> SUFFICES ASSUME NEW k \in 1 .. Len(got)
                 PROVE  Seen[n + k] = got[k].char /\ n + k \in 1 .. Len(Seen)
      OBVIOUS
    <2>1. n + k \in 1 .. Len(Trail) /\ n + k \in 1 .. Len(Seen)
      <3> DEFINE g0 == Len(got)
                 t == Len(Trail)
                 s == Len(Seen)
                 w == Len(wire)
      <3>1. n \in Nat /\ g0 \in Nat /\ t = n + g0 /\ w \in Nat /\ s = t + w /\ k \in 1 .. g0
        BY <1>1, <1>2, <1>5, <1>8
      <3> HIDE DEF g0, t, s, w, n
      <3>2. n + k \in 1 .. t /\ n + k \in 1 .. s
        BY <3>1
      <3> QED
        BY <3>2 DEF t, s
    <2> QED
      BY <1>3, <1>7, <1>8, <2>1
  <1> SUFFICES ASSUME NEW k \in 1 .. Len(got'), got'[k].char \in Range(Answer)
               PROVE  got'[k].char = Head(Due(cmd))
    OBVIOUS
  <1>11. k \in 1 .. Len(got)
    <2>1. k = Len(got) + 1 => got'[k].char = NL
      BY <1>1
    <2> QED
      BY <1>1, <2>1, SomeCharacters
  <1>12. got'[k].char = got[k].char
    BY <1>1, <1>11
  <1>13. PICK c \in Asking : got[k].char = Answer[c]
    BY <1>12 DEF Range, Asking
  <1> DEFINE m == Len(Line(c))
  <1>14. /\ c \in Commands /\ m \in Nat /\ m = Len(Text[c]) + 1 /\ Len(Text[c]) \in Nat /\ m >= 4
         /\ Line(c)[m] = NL /\ \A i \in 1 .. m - 1 : Line(c)[i] = Text[c][i]
    <2>1. c \in Commands
      BY SomeCharacters
    <2> QED
      BY <2>1, LineFacts
  <1>15. \A j \in 1 .. m : j < n + k => Seen[(n + k) - j] = Line(c)[m + 1 - j]
    BY <1>10, <1>11, <1>13 DEF Announced
  <1> HIDE DEF m
  <1>16. k = 1
    <2> SUFFICES ASSUME k # 1 PROVE FALSE
      OBVIOUS
    <2>1. k - 1 \in 1 .. Len(got) /\ (n + k) - 1 = n + (k - 1)
      <3>1. k \in 1 .. Len(got) /\ Len(got) \in Nat /\ n \in Nat
        BY <1>1, <1>2, <1>11
      <3> QED
        BY <3>1
    <2>2. Seen[(n + k) - 1] = Line(c)[m + 1 - 1] /\ m + 1 - 1 = m
      <3>1. 1 \in 1 .. m /\ m + 1 - 1 = m
        BY <1>14
      <3>2. 1 < n + k
        <4>1. k \in Nat /\ n \in Nat /\ n >= 4
          BY <1>1, <1>2, <1>11
        <4> QED
          BY <4>1
      <3>3. Seen[(n + k) - 1] = Line(c)[m + 1 - 1]
        BY <1>15, <3>1, <3>2
      <3> QED
        BY <3>1, <3>3
    <2>3. Seen[n + (k - 1)] = got[k - 1].char
      BY <1>10, <2>1
    <2> QED
      BY <1>1, <1>14, <2>1, <2>2, <2>3
  <1>17. EndAlike(Text[c], Text[cmd])
    <2> SUFFICES ASSUME NEW i \in 0 .. Len(Text[c]) - 1, i < Len(Text[cmd])
                 PROVE  Text[c][Len(Text[c]) - i] = Text[cmd][Len(Text[cmd]) - i]
      BY DEF EndAlike
    <2>1. /\ i + 2 \in 1 .. m /\ i + 2 < n + k /\ (n + k) - (i + 2) = Len(Text[cmd]) - i
          /\ m + 1 - (i + 2) = Len(Text[c]) - i
          /\ Len(Text[cmd]) - i \in 1 .. n - 1 /\ Len(Text[cmd]) - i \in 1 .. n
          /\ Len(Text[c]) - i \in 1 .. m - 1
      <3> DEFINE p == Len(Text[c])
                 q == Len(Text[cmd])
      <3>1. p \in Nat /\ q \in Nat /\ m = p + 1 /\ n = q + 1 /\ k = 1
        BY <1>2, <1>14, <1>16
      <3>2. i \in 0 .. p - 1 /\ i < q
        OBVIOUS
      <3> HIDE DEF p, q, n
      <3>3. i + 2 \in 1 .. m /\ i + 2 < n + k /\ (n + k) - (i + 2) = q - i
        BY <3>1, <3>2
      <3>4. m + 1 - (i + 2) = p - i /\ p - i \in 1 .. m - 1
        BY <3>1, <3>2
      <3>5. q - i \in 1 .. n - 1 /\ q - i \in 1 .. n
        BY <3>1, <3>2
      <3> QED
        BY <3>3, <3>4, <3>5 DEF p, q, n
    <2>2. Seen[Len(Text[cmd]) - i] = Line(c)[Len(Text[c]) - i]
      BY <1>15, <2>1
    <2> QED
      BY <1>2, <1>9, <1>14, <2>1, <2>2
  <1>18. c = cmd
    BY <1>0, <1>17, KepcoAssumption
  <1>19. Due(cmd) = <<Answer[cmd], NL>>
    BY <1>0, <1>18, ReplyToCommand DEF Due
  <1> QED
    BY <1>12, <1>13, <1>18, <1>19

Foretold ==
    world.echoes =>
        /\ Announced(Seen)
        /\ ~world.mute => EndAlike(Seen, heard)
        /\ phase = "prompt" =>
              \A k \in 1 .. Len(got) : got[k].char \in Range(Answer) => got[k].char = Head(Due(cmd))
        /\ echoed => outcome # "stale"

LEMMA NextForetold ==
    ASSUME Shape, NoPrompts, Foretold, [Next]_vars
    PROVE  Foretold'
  <1>0. TypeOK /\ Order
    BY DEF Shape
  <1>1. world'.echoes = world.echoes /\ (world.mute => world'.mute)
    BY <1>0, WorldStays
  <1> SUFFICES ASSUME world.echoes
               PROVE  /\ Announced(Seen')
                      /\ ~world'.mute => EndAlike(Seen', heard')
                      /\ phase' = "prompt" =>
                            \A k \in 1 .. Len(got') :
                               got'[k].char \in Range(Answer) => got'[k].char = Head(Due(cmd'))
                      /\ echoed' => outcome' # "stale"
    BY <1>1 DEF Foretold, Announced, EndAlike, Due
  <1>2. /\ Announced(Seen)
        /\ ~world.mute => EndAlike(Seen, heard)
        /\ phase = "prompt" =>
              \A k \in 1 .. Len(got) : got[k].char \in Range(Answer) => got[k].char = Head(Due(cmd))
        /\ echoed => outcome # "stale"
    BY DEF Foretold
  <1>3. Announced(Seen') /\ (~world'.mute => EndAlike(Seen', heard'))
    <2>1. PICK s \in Seq(Characters) : EndOf(s, Seen) /\ Goes(s)
      BY SeenGoes
    <2>2. Seen \in Seq(Characters) /\ heard \in Seq(Characters)
      BY <1>0, SeenFacts DEF TypeOK
    <2>3. Announced(s) /\ (~world.mute => EndAlike(s, heard))
      BY <1>2, <2>1, <2>2, EndAnnounced
    <2>4. CASE Seen' = s /\ heard' = heard
      BY <1>1, <2>3, <2>4
    <2>5. ASSUME NEW chars, Writable(chars), Seen' = s \o Told(chars),
                 ~world.mute => heard' = IF Ends(chars) THEN <<>> ELSE LineOf(heard, chars)
          PROVE  Announced(Seen') /\ (~world'.mute => EndAlike(Seen', heard'))
      <3>1. /\ Announced(s \o Told(chars))
            /\ ~world.mute => EndAlike(s \o Told(chars),
                                       IF Ends(chars) THEN <<>> ELSE LineOf(heard, chars))
        BY <1>0, <2>3, <2>5, SaysAnnounced
      <3> QED
        BY <1>1, <2>5, <3>1
    <2> QED
      BY <2>1, <2>4, <2>5 DEF Goes
  <1>4. ASSUME phase' = "prompt", NEW k \in 1 .. Len(got'), got'[k].char \in Range(Answer)
        PROVE  got'[k].char = Head(Due(cmd'))
    <2>1. CASE ResponseEnds
      <3>1. /\ phase = "response" /\ wire # <<>> /\ Head(wire).char = NL
            /\ got' = Append(got, Head(wire)) /\ echoed /\ cmd' = cmd
        BY <1>4, <2>1 DEF ResponseEnds, Arrives, Finish
      <3> QED
        BY <1>2, <1>4, <3>1, EchoTellsAnswer
    <2>2. CASE UNCHANGED <<phase, got, cmd>>
      BY <1>2, <1>4, <2>2
    <2>3. PromptSkips \/ Interrupted \/ FallsMute \/ UNCHANGED vars => UNCHANGED <<phase, got, cmd>>
      BY DEF PromptSkips, Interrupted, FallsMute, vars
    <2>4. ~(EchoWrong \/ Prompted \/ NoAnswer \/ ResponseChar)
      BY <1>4 DEF EchoWrong, Prompted, NoAnswer, ResponseChar, Finish
    <2>5. ~EchoRight
      BY <1>4 DEF EchoRight
    <2>6. ~((\E works \in BOOLEAN : Open(works)) \/ Drain \/ Wake)
      BY <1>0, <1>4 DEF Open, Drain, Wake, TypeOK
    <2>7. ~(Identify \/ OpenGoesOn \/ Close \/ (\E c \in Uses : Use(c)))
      BY <1>4 DEF Identify, OpenGoesOn, Close, Use, Begin
    <2> QED
      BY <2>1, <2>2, <2>3, <2>4, <2>5, <2>6, <2>7 DEF Next, User, Running
  <1>5. ASSUME echoed' PROVE outcome' # "stale"
    <2>1. CASE UNCHANGED <<echoed, outcome>>
      BY <1>2, <1>5, <2>1
    <2>2. CASE Identify
      BY <1>0, <2>2 DEF Identify, Order
    <2>3. CASE EchoWrong \/ NoAnswer
      BY <2>3 DEF EchoWrong, NoAnswer, Finish
    <2>4. CASE Prompted
      <3>1. phase = "prompt" /\ outcome' = Returned(got)
        BY <2>4 DEF Prompted, Finish
      <3>2. \A k \in 1 .. Len(got) : got[k].char \notin Range(Answer) \ {Head(Due(cmd))}
        BY <1>2, <3>1
      <3> QED
        BY <3>1, <3>2 DEF Returned, Due
    <2>5. CASE ResponseEnds
      <3>1. echoed' = echoed
        BY <2>5 DEF ResponseEnds, Finish, driver
      <3>2. outcome' = outcome
        BY <1>5, <2>5, <3>1 DEF ResponseEnds
      <3> QED
        BY <2>1, <3>1, <3>2
    <2>6. CASE \E works \in BOOLEAN : Open(works)
      BY <1>5, <2>6 DEF Open
    <2>7. Drain \/ Wake \/ OpenGoesOn \/ Close \/ (\E c \in Uses : Use(c)) => UNCHANGED <<echoed, outcome>>
      BY DEF Drain, Wake, OpenGoesOn, Close, Use, driver
    <2>8. EchoRight \/ ResponseChar \/ PromptSkips \/ Interrupted \/ FallsMute \/ UNCHANGED vars
          => UNCHANGED <<echoed, outcome>>
      BY DEF EchoRight, ResponseChar, PromptSkips, Interrupted, FallsMute, vars, driver
    <2> QED
      BY <2>1, <2>2, <2>3, <2>4, <2>5, <2>6, <2>7, <2>8 DEF Next, User, Running
  <1> QED
    BY <1>3, <1>4, <1>5

LEMMA InitForetold == Init => Foretold
  <1> SUFFICES ASSUME Init PROVE Foretold
    OBVIOUS
  <1>1. phase = "idle" /\ wire = <<>> /\ heard = <<>> /\ outcome = "none"
    BY DEF Init
  <1>2. Seen = <<>>
    <2>1. Chars(wire) \in Seq(Characters) /\ Len(Chars(wire)) = 0
      <3>1. wire \in Seq(Byte) /\ Len(wire) = 0
        BY <1>1, EmptySeq
      <3> QED
        BY <3>1, CharsFacts
    <2>2. Chars(wire) = <<>> /\ Trail = <<>>
      BY <1>1, <2>1, EmptySeq DEF Trail
    <2> QED
      BY <2>1, <2>2, ConcatEmptySeq DEF Seen
  <1>3. Len(<<>>) = 0
    BY EmptySeq
  <1>4. Announced(Seen) /\ EndAlike(Seen, heard)
    BY <1>1, <1>2, <1>3 DEF Announced, EndAlike
  <1> QED
    BY <1>1, <1>4 DEF Foretold

(* The inductive invariant of answers.                                     *)
AnswerInv == InTime /\ Handshake /\ Foretold

LEMMA AnswersInvariant == Spec => []AnswerInv
  <1>1. Init /\ InTime /\ Handshake => AnswerInv
    BY InitForetold DEF AnswerInv
  <1>2. AnswerInv /\ InTime' /\ Handshake' /\ [Next]_vars => AnswerInv'
    BY NextForetold DEF AnswerInv, Handshake
  <1> QED
    BY <1>1, <1>2, InTimeInvariant, HandshakeInvariant, PTL DEF Spec

(* No command returns the answer to another where nothing is late, nor     *)
(* where the supply echoes, for every text of commands and answers.        *)
THEOREM AnswersOwn == Spec => []OwnAnswer
  <1>1. AnswerInv => OwnAnswer
    <2> SUFFICES ASSUME AnswerInv PROVE OwnAnswer
      OBVIOUS
    <2>1. ~world.late => outcome \notin {"mixed", "stale"}
      BY DEF AnswerInv, InTime, Punctual, Believes
    <2>2. echoed => world.echoes
      BY DEF AnswerInv, Handshake, NoPrompts
    <2>3. echoed => outcome # "stale"
      BY <2>2 DEF AnswerInv, Foretold
    <2> QED
      BY <2>1, <2>3 DEF OwnAnswer
  <1> QED
    BY <1>1, AnswersInvariant, PTL
=============================================================================
