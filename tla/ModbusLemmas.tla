---------------------------- MODULE ModbusLemmas ----------------------------
(***************************************************************************)
(* Facts that the proofs of the buses and of the front end share: what the *)
(* checks of a read tell about the answer, which refusal the code can      *)
(* never give, and what a read takes out of a stream of bytes.             *)
(***************************************************************************)
EXTENDS ModbusPdu, ModbusStream, SequenceTheorems, TLAPS

----------------------------------------------------------------------------
(* Protocol data units.                                                    *)

(* A request as the front end takes it: its parts are integers in range.   *)
LEMMA RequestParts ==
    ASSUME NEW r \in Request
    PROVE  /\ r.dev \in Nat /\ r.op \in Op
           /\ r.address \in Nat /\ r.count \in Nat
  <1>1. /\ r.dev \in Nat /\ r.op \in Op
        /\ r.address \in Register /\ r.count \in Register
    BY DEF Request
  <1>2. Register \subseteq Nat
    BY DEF Register
  <1> QED
    BY <1>1, <1>2

(* The operations and their codes, none of which has the exception bit.    *)
LEMMA Codes ==
    /\ Op = {"writeHoldingRegisters", "readHoldingRegisters", "readInputRegisters"}
    /\ Reads \subseteq Op
    /\ \A o \in Op : FunctionCode[o] \in {3, 4, 16}
  <1>1. Op = {"writeHoldingRegisters", "readHoldingRegisters", "readInputRegisters"}
    BY DEF Op, FunctionCode
  <1>2. Reads \subseteq Op
    BY <1>1 DEF Reads
  <1>3. \A o \in Op : FunctionCode[o] \in {3, 4, 16}
    BY <1>1 DEF FunctionCode
  <1> QED
    BY <1>1, <1>2, <1>3

(* An answer has at least two bytes, an exception exactly two.             *)
LEMMA AnswerLength ==
    ASSUME NEW r \in Request, NEW form
    PROVE  /\ Answer(r, form).len \in Nat \ {0, 1}
           /\ form # "normal" => Answer(r, form).len = 2
  <1>1. r.count \in Nat
    BY RequestParts
  <1>2. CASE form # "normal"
    BY <1>2 DEF Answer, ExceptionAnswer
  <1>3. CASE form = "normal" /\ r.op = "writeHoldingRegisters"
    BY <1>3 DEF Answer, NormalAnswer
  <1>4. CASE form = "normal" /\ r.op # "writeHoldingRegisters"
    <2>1. Answer(r, form).len = 2 * r.count + 2
      BY <1>4 DEF Answer, NormalAnswer
    <2> QED
      BY <1>1, <1>4, <2>1
  <1> QED
    BY <1>2, <1>3, <1>4

(* What the front end returns for an answer is an integer.                 *)
LEMMA ReturnIsInt ==
    ASSUME NEW r \in Request, NEW s \in Request, NEW form
    PROVE  Validate(r, Answer(s, form)) \in Int
  <1>1. Answer(s, form).second \in Int
    <2>1. s.address \div 256 \in Int /\ (2 * s.count) % 256 \in Int
      <3>1. s.address \in Nat /\ s.count \in Nat
        BY RequestParts
      <3> QED
        BY <3>1
    <2> QED
      BY <2>1 DEF Answer, NormalAnswer, ExceptionAnswer, IllegalDataAddress
  <1>2. - Answer(s, form).second \in Int
    BY <1>1
  <1> QED
    BY <1>2 DEF Validate, ReadReturn, WriteReturn, MBE_BAD_RESPONSE_LENGTH

(* ... and never a positive one.                                           *)
LEMMA ReturnIsNotPending ==
    ASSUME NEW r \in Request, NEW s \in Request, NEW form
    PROVE  Validate(r, Answer(s, form)) <= 0
  <1>1. Answer(s, form).second \in Nat
    <2>1. s.address \div 256 \in Nat /\ (2 * s.count) % 256 \in Nat
      <3>1. s.address \in Nat /\ s.count \in Nat
        BY RequestParts
      <3> QED
        BY <3>1
    <2> QED
      BY <2>1 DEF Answer, NormalAnswer, ExceptionAnswer, IllegalDataAddress
  <1>2. - Answer(s, form).second \in Int /\ - Answer(s, form).second <= 0
    BY <1>1
  <1> QED
    BY <1>2 DEF Validate, ReadReturn, WriteReturn, MBE_BAD_RESPONSE_LENGTH

(* An exception never passes for success, whatever the operation.          *)
LEMMA ExceptionIsReported ==
    ASSUME NEW r \in Request, NEW s \in Request
    PROVE  Validate(r, Answer(s, "exception")) = -2
  <1>1. FunctionCode[s.op] \in {3, 4, 16}
    BY RequestParts, Codes
  <1>2. Answer(s, "exception") = [fn |-> FunctionCode[s.op] + 128, second |-> 2, len |-> 2]
    BY DEF Answer, ExceptionAnswer, IllegalDataAddress
  <1>3. IsException(Answer(s, "exception"))
    BY <1>1, <1>2 DEF IsException
  <1> QED
    BY <1>2, <1>3 DEF Validate, ReadReturn, WriteReturn

(* What the checks of a read and of a write return is one of three values. *)
LEMMA ReturnIsKnown ==
    ASSUME NEW r \in Request, NEW s \in Request, NEW form
    PROVE  Validate(r, Answer(s, form)) \in {0, -2, MBE_BAD_RESPONSE_LENGTH}
  <1>1. CASE form # "normal"
    <2>1. Answer(s, form) = Answer(s, "exception")
      BY <1>1 DEF Answer
    <2> QED
      BY <2>1, ExceptionIsReported
  <1>2. CASE form = "normal"
    <2>1. NormalAnswer(s).fn \in {3, 4, 16}
      BY RequestParts, Codes DEF NormalAnswer
    <2>2. ~IsException(NormalAnswer(s))
      BY <2>1 DEF IsException
    <2> QED
      BY <1>2, <2>2 DEF Answer, Validate, ReadReturn, WriteReturn
  <1> QED
    BY <1>1, <1>2

(* A read that returns 0 for the answer to any request s of the protocol   *)
(* got the normal answer to a read of as many registers, though the        *)
(* function code is not compared (modbus.cpp:93-104): the answer to a      *)
(* write has five bytes, and no read expects an odd number of them.        *)
THEOREM ReadMatchesShape ==
    ASSUME NEW r \in Request, NEW s \in Request,
           NEW form \in {"normal", "exception"},
           r.op \in Reads, Validate(r, Answer(s, form)) = 0
    PROVE  form = "normal" /\ s.op \in Reads /\ s.count = r.count
  <1>1. form = "normal"
    BY ExceptionIsReported
  <1> DEFINE a == NormalAnswer(s)
  <1>2. r.count \in Nat /\ s.count \in Nat /\ s.op \in Op
    BY RequestParts
  <1>3. a.fn = FunctionCode[s.op]
    BY DEF NormalAnswer
  <1>4. ~IsException(a)
    BY <1>2, <1>3, Codes DEF IsException
  <1>5. a.len = 2 * r.count + 2
    <2>1. ReadReturn(r.count, a) = 0
      BY <1>1 DEF Validate, Answer
    <2> QED
      BY <1>4, <2>1 DEF ReadReturn, MBE_BAD_RESPONSE_LENGTH
  <1>6. s.op # "writeHoldingRegisters"
    <2>1. ASSUME s.op = "writeHoldingRegisters" PROVE FALSE
      <3>1. a.len = 5
        BY <2>1 DEF NormalAnswer
      <3> QED
        BY <1>2, <1>5, <3>1
    <2> QED
      BY <2>1
  <1>7. a.len = 2 * s.count + 2
    BY <1>6 DEF NormalAnswer
  <1>8. s.op \in Reads
    BY <1>2, <1>6, Codes DEF Reads
  <1>9. \A i, j \in Nat : 2 * i + 2 = 2 * j + 2 => i = j
    OBVIOUS
  <1>10. s.count = r.count
    BY <1>2, <1>5, <1>7, <1>9
  <1> QED
    BY <1>1, <1>8, <1>10

(* The check of the address range never fires, for any request the types   *)
(* allow: MBE_ADDRESS_OVERFLOW is no result of the front end               *)
(* (modbus.cpp:45, 78 and 113).                                            *)
THEOREM OverflowCheckIsDead ==
    ASSUME NEW r \in Request
    PROVE  ~AddressOverflows(r) /\ Refusal(r) \in {0, MBE_TOO_MANY}
  BY RequestParts DEF AddressOverflows, Refusal

----------------------------------------------------------------------------
(* Streams: reads neither invent bytes nor take more than there is room    *)
(* for.                                                                    *)

LEMMA LeastOf ==
    ASSUME NEW a \in Nat, NEW b \in Nat
    PROVE  Least(a, b) \in 0 .. a /\ Least(a, b) <= b
  BY DEF Least

LEMMA ReadTakes ==
    ASSUME NEW S, NEW s \in Seq(S), NEW room \in Nat
    PROVE  /\ Taken(s, room) \in Seq(S) /\ Left(s, room) \in Seq(S)
           /\ Len(Taken(s, room)) \in Nat /\ Len(Taken(s, room)) <= room
  <1> DEFINE k == Least(Len(s), room)
  <1>1. /\ Len(s) \in Nat
        /\ \A i \in 1 .. Len(s) : s[i] \in S
    BY LenProperties, ElementOfSeq
  <1>2. k \in 0 .. Len(s) /\ k <= room
    BY <1>1, LeastOf
  <1> HIDE DEF k
  <1>3. /\ SubSeq(s, 1, k) \in Seq(S)
        /\ Len(SubSeq(s, 1, k)) = IF 1 <= k THEN k - 1 + 1 ELSE 0
    <2>1. \A i \in 1 .. k : s[i] \in S
      BY <1>1, <1>2
    <2> QED
      BY <1>1, <1>2, <2>1, SubSeqProperties
  <1>4. SubSeq(s, k + 1, Len(s)) \in Seq(S)
    <2>1. \A i \in k + 1 .. Len(s) : s[i] \in S
      BY <1>1, <1>2
    <2> QED
      BY <1>1, <1>2, <2>1, SubSeqProperties
  <1>5. Len(SubSeq(s, 1, k)) = k
    BY <1>1, <1>2, <1>3
  <1> QED
    BY <1>1, <1>2, <1>3, <1>4, <1>5 DEF Taken, Left, k

(* t is what is left of s when some of its first elements are gone.        *)
EndOf(t, s) ==
    \E d \in 0 .. Len(s) :
        Len(t) = Len(s) - d /\ \A i \in 1 .. Len(t) : t[i] = s[i + d]

LEMMA ReadSplits ==
    ASSUME NEW S, NEW s \in Seq(S), NEW room \in Nat
    PROVE  /\ Taken(s, room) \o Left(s, room) = s
           /\ EndOf(Left(s, room), s)
           /\ Taken(s, room) # <<>> => s # <<>> /\ Taken(s, room)[1] = s[1]
  <1> DEFINE k == Least(Len(s), room)
  <1>1. /\ Len(s) \in Nat
        /\ \A i \in 1 .. Len(s) : s[i] \in S
    BY LenProperties, ElementOfSeq
  <1>2. k \in 0 .. Len(s)
    BY <1>1, LeastOf
  <1> HIDE DEF k
  <1>3. SubSeq(s, 1, k) \o SubSeq(s, k + 1, Len(s)) = SubSeq(s, 1, Len(s))
    <2>1. 1 \in 1 .. Len(s) + 1 /\ k \in 1 - 1 .. Len(s) /\ Len(s) \in k .. Len(s)
      BY <1>1, <1>2
    <2> QED
      BY <2>1, ConcatAdjacentSubSeq
  <1>4. SubSeq(s, 1, Len(s)) = s
    BY SubSeqFull
  <1> DEFINE t == SubSeq(s, k + 1, Len(s))
  <1>5. /\ Len(t) = IF k + 1 <= Len(s) THEN Len(s) - (k + 1) + 1 ELSE 0
        /\ \A i \in 1 .. Len(s) - (k + 1) + 1 : t[i] = s[k + 1 + i - 1]
    <2>1. \A i \in k + 1 .. Len(s) : s[i] \in S
      BY <1>1, <1>2
    <2>2. k + 1 \in Int /\ Len(s) \in Int
      BY <1>1, <1>2
    <2> QED
      BY <2>1, <2>2, SubSeqProperties
  <1> HIDE DEF t
  <1>6. Len(t) = Len(s) - k
    BY <1>1, <1>2, <1>5
  <1>7. \A i \in 1 .. Len(t) : t[i] = s[i + k]
    <2> SUFFICES ASSUME NEW i \in 1 .. Len(t) PROVE t[i] = s[i + k]
      OBVIOUS
    <2>1. i \in 1 .. Len(s) - (k + 1) + 1 /\ k + 1 + i - 1 = i + k
      BY <1>1, <1>2, <1>6
    <2> QED
      BY <1>5, <2>1
  <1>8. EndOf(t, s)
    BY <1>2, <1>6, <1>7 DEF EndOf
  <1> DEFINE p == SubSeq(s, 1, k)
  <1>9. \A i \in 1 .. k - 1 + 1 : p[i] = s[1 + i - 1]
    <2>1. \A i \in 1 .. k : s[i] \in S
      BY <1>1, <1>2
    <2>2. 1 \in Int /\ k \in Int
      BY <1>2
    <2> QED
      BY <2>1, <2>2, SubSeqProperties
  <1>10. k = 0 => p = <<>>
    BY SubSeqEmpty
  <1> HIDE DEF p
  <1>11. p # <<>> => s # <<>> /\ p[1] = s[1]
    <2> SUFFICES ASSUME k # 0 PROVE s # <<>> /\ p[1] = s[1]
      BY <1>10
    <2>1. 1 \in 1 .. k - 1 + 1 /\ Len(s) # 0
      BY <1>1, <1>2
    <2>2. p[1] = s[1]
      BY <1>9, <2>1
    <2>3. s # <<>>
      BY <2>1, EmptySeq
    <2> QED
      BY <2>2, <2>3
  <1> QED
    BY <1>3, <1>4, <1>8, <1>11 DEF Taken, Left, k, t, p

LEMMA EndsOf ==
    ASSUME NEW S, NEW s \in Seq(S), NEW t \in Seq(S)
    PROVE  EndOf(s, s) /\ EndOf(t, s \o t)
  <1>1. Len(s) \in Nat /\ Len(t) \in Nat
    BY LenProperties
  <1>2. EndOf(s, s)
    <2>1. 0 \in 0 .. Len(s) /\ Len(s) = Len(s) - 0 /\ \A i \in 1 .. Len(s) : s[i] = s[i + 0]
      BY <1>1
    <2> QED
      BY <2>1 DEF EndOf
  <1>3. EndOf(t, s \o t)
    <2>1. /\ Len(s \o t) = Len(s) + Len(t)
          /\ \A i \in 1 .. Len(s) + Len(t) : (s \o t)[i] =
                  IF i <= Len(s) THEN s[i] ELSE t[i - Len(s)]
      BY ConcatProperties
    <2>2. Len(s) \in 0 .. Len(s \o t) /\ Len(t) = Len(s \o t) - Len(s)
      BY <1>1, <2>1
    <2>3. ASSUME NEW i \in 1 .. Len(t) PROVE t[i] = (s \o t)[i + Len(s)]
      <3>1. /\ i + Len(s) \in 1 .. Len(s) + Len(t) /\ ~(i + Len(s) <= Len(s))
            /\ i + Len(s) - Len(s) = i
        BY <1>1
      <3> QED
        BY <2>1, <3>1
    <2> QED
      BY <2>2, <2>3 DEF EndOf
  <1> QED
    BY <1>2, <1>3
=============================================================================
