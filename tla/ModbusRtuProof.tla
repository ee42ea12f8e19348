--------------------------- MODULE ModbusRtuProof ---------------------------
(***************************************************************************)
(* What holds on every serial line, of whatever size, with whatever        *)
(* requests: the types, the source of an accepted answer, and the shape of *)
(* the answer to a read.  TLC checks the same on the lines of MCModbusRtu. *)
(***************************************************************************)
EXTENDS ModbusRtu, ModbusLemmas

----------------------------------------------------------------------------
(* The types.                                                              *)

LEMMA FrameLenType ==
    ASSUME TypeOK, NEW n \in Calls
    PROVE  asked[n] \in Request /\ FrameLen(n) \in Nat
  <1>1. asked[n] \in Request
    BY RtuAssumption DEF TypeOK
  <1>2. Answer(asked[n], slave[n]).len \in Nat
    BY <1>1, AnswerLength
  <1> QED
    BY <1>1, <1>2 DEF FrameLen

LEMMA InitTypes == Init => TypeOK
  <1> SUFFICES ASSUME Init PROVE TypeOK
    OBVIOUS
  <1>1. (CHOOSE r \in Requests : TRUE) \in Requests
    BY RtuAssumption
  <1>2. asked \in [Calls -> Requests]
    BY <1>1 DEF Init
  <1>3. <<>> \in Seq(ByteOfAnswer) /\ Len(<<>>) = 0
    BY EmptySeq
  <1>4. /\ isOpen \in BOOLEAN /\ calls \in 0 .. MaxCalls
        /\ over \in BOOLEAN /\ noise \in Nat
    <2>1. isOpen \in BOOLEAN /\ over \in BOOLEAN
      BY Zenon DEF Init
    <2>2. calls = 0 /\ noise = 0
      BY Zenon DEF Init
    <2>3. calls \in 0 .. MaxCalls /\ noise \in Nat
      BY <2>2, RtuAssumption
    <2> QED
      BY <2>1, <2>3
  <1>7. ~Waiting
    BY DEF Init, Waiting
  <1>5. /\ code \in [Calls -> Int] /\ re \in [Calls -> 0 .. MaxCalls]
        /\ slave \in [Calls -> {"unheard", "heard", "normal", "exception", "silent"}]
        /\ sent \in [Calls -> Nat]
    BY RtuAssumption DEF Init
  <1>6. rx \in Seq(ByteOfAnswer) /\ buf \in Seq(ByteOfAnswer) /\ Len(buf) <= MaxLen
    BY <1>3, RtuAssumption DEF Init
  <1> QED
    BY <1>2, <1>4, <1>5, <1>6, <1>7 DEF TypeOK

LEMMA BeginTypes ==
    ASSUME TypeOK, NEW r \in Requests, NEW c \in Int, Begin(r, c)
    PROVE  /\ isOpen' \in BOOLEAN /\ calls' \in 0 .. MaxCalls
           /\ asked' \in [Calls -> Requests] /\ code' \in [Calls -> Int]
           /\ re' \in [Calls -> 0 .. MaxCalls] /\ sent' \in [Calls -> Nat]
           /\ rx' \in Seq(ByteOfAnswer) /\ noise' \in Nat
           /\ calls + 1 \in Calls
           /\ calls' = calls + 1 /\ isOpen' = isOpen /\ code'[calls + 1] = c
  <1>1. calls + 1 \in Calls /\ calls + 1 \in 0 .. MaxCalls
    BY RtuAssumption DEF Begin, TypeOK, Calls
  <1> QED
    BY <1>1 DEF Begin, TypeOK

LEMMA EndTypes ==
    ASSUME TypeOK, Waiting, NEW c \in Int, NEW m \in 0 .. MaxCalls,
           End(c, m), UNCHANGED rx
    PROVE  TypeOK'
  <1>1. calls \in Calls
    BY RtuAssumption DEF Waiting, TypeOK, Calls
  <1>2. code' \in [Calls -> Int]
    BY DEF End, TypeOK
  <1>3. re' \in [Calls -> 0 .. MaxCalls]
    BY DEF End, TypeOK
  <1>4. isOpen' = isOpen /\ isOpen
    BY DEF End, TypeOK
  <1> QED
    BY <1>2, <1>3, <1>4 DEF End, TypeOK, slaveVars, ByteOfAnswer, Calls
(* One step after the other.                                               *)
LEMMA NextTypes == TypeOK /\ [Next]_vars => TypeOK'
  <1> SUFFICES ASSUME TypeOK, [Next]_vars PROVE TypeOK'
    OBVIOUS
  <1> DEFINE Forms == {"unheard", "heard", "normal", "exception", "silent"}
  <1>1. ASSUME NEW works \in BOOLEAN, Open(works) PROVE TypeOK'
    <2>1. <<>> \in Seq(ByteOfAnswer)
      BY EmptySeq
    <2>2. ~Waiting'
      BY <1>1 DEF Open, Idle, Waiting, callVars
    <2> QED
      BY <1>1, <2>1, <2>2 DEF Open, TypeOK, callVars, slaveVars, ByteOfAnswer, Calls
  <1>2. ASSUME Close PROVE TypeOK'
    <2>1. <<>> \in Seq(ByteOfAnswer)
      BY EmptySeq
    <2>2. ~Waiting'
      BY <1>2 DEF Close, Idle, Waiting, callVars
    <2> QED
      BY <1>2, <2>1, <2>2 DEF Close, TypeOK, callVars, slaveVars, ByteOfAnswer, Calls
  <1>3. ASSUME NEW r \in Requests, NEW c \in Int \ {Pending}, Begin(r, c),
               UNCHANGED <<slave, buf, over>>
        PROVE  TypeOK'
    <2>1. ~Waiting'
      BY <1>3, BeginTypes DEF Waiting
    <2> QED
      BY <1>3, <2>1, BeginTypes DEF TypeOK, ByteOfAnswer, Calls
  <1>4. ASSUME NEW r \in Requests,
               CallRefused(r) \/ CallNotConnected(r) \/ CallSendFails(r)
        PROVE  TypeOK'
    <2>1. Refusal(r) \in Int \ {Pending}
      BY DEF Refusal, MBE_TOO_MANY, MBE_ADDRESS_OVERFLOW, Pending
    <2>2. MBE_NOT_CONNECTED \in Int \ {Pending} /\ MBE_SEND_REQUEST_FAILED \in Int \ {Pending}
      BY DEF MBE_NOT_CONNECTED, MBE_SEND_REQUEST_FAILED, Pending
    <2> QED
      BY <1>3, <1>4, <2>1, <2>2 DEF CallRefused, CallNotConnected, CallSendFails
  <1>5. ASSUME NEW r \in Requests, CallBroadcast(r) PROVE TypeOK'
    <2>1. MBE_TIMED_OUT \in Int \ {Pending}
      BY DEF MBE_TIMED_OUT, Pending
    <2>2. ~Waiting'
      BY <1>5, <2>1, BeginTypes DEF CallBroadcast, Waiting
    <2>3. slave' \in [Calls -> Forms]
      BY <1>5 DEF CallBroadcast, TypeOK
    <2> QED
      BY <1>5, <2>1, <2>2, <2>3, BeginTypes DEF CallBroadcast, TypeOK, ByteOfAnswer, Calls
  <1>6. ASSUME NEW r \in Requests, NEW heard \in BOOLEAN, CallUnicast(r, heard)
        PROVE  TypeOK'
    <2>1. Pending \in Int
      BY DEF Pending
    <2>2. slave' \in [Calls -> Forms]
      BY <1>6 DEF CallUnicast, TypeOK
    <2>3. buf' \in Seq(ByteOfAnswer) /\ Len(buf') <= MaxLen
      BY <1>6, EmptySeq, RtuAssumption DEF CallUnicast
    <2>4. isOpen'
      BY <1>6, <2>1, BeginTypes DEF CallUnicast
    <2> QED
      BY <1>6, <2>1, <2>2, <2>3, <2>4, BeginTypes DEF CallUnicast, TypeOK, ByteOfAnswer, Calls
  <1>7. ASSUME ReadBytes PROVE TypeOK'
    <2> DEFINE room == MaxLen - Len(buf)
               part == Taken(rx, room)
    <2>1. room \in Nat /\ Len(buf) \in Nat
      BY LenProperties, RtuAssumption DEF TypeOK
    <2>2. part \in Seq(ByteOfAnswer) /\ Len(part) \in Nat /\ Len(part) <= room
      BY <2>1, ReadTakes DEF TypeOK
    <2>3. rx' \in Seq(ByteOfAnswer)
      BY <1>7, <2>1, ReadTakes DEF ReadBytes, TypeOK
    <2>4. buf' = buf \o part
      BY <1>7 DEF ReadBytes
    <2> HIDE DEF part
    <2>5. buf' \in Seq(ByteOfAnswer) /\ Len(buf') = Len(buf) + Len(part)
      BY <2>2, <2>4, ConcatProperties DEF TypeOK
    <2>6. Len(buf') <= MaxLen
      BY <2>1, <2>2, <2>5, RtuAssumption
    <2>7. Waiting' => isOpen'
      BY <1>7 DEF ReadBytes, TypeOK, Waiting, callVars
    <2> QED
      BY <1>7, <2>3, <2>5, <2>6, <2>7 DEF ReadBytes, TypeOK, callVars, slaveVars, ByteOfAnswer, Calls
  <1>8. ASSUME Discard \/ DiscardFails PROVE TypeOK'
    <2>1. rx' \in Seq(ByteOfAnswer)
      BY <1>8, ReadTakes, RtuAssumption DEF Discard, DiscardFails, TypeOK
    <2>2. buf' \in Seq(ByteOfAnswer) /\ Len(buf') <= MaxLen /\ over' \in BOOLEAN
      <3>1. buf' = <<>> /\ over' = TRUE
        BY <1>8 DEF Discard, DiscardFails
      <3>2. <<>> \in Seq(ByteOfAnswer) /\ Len(<<>>) = 0
        BY EmptySeq
      <3> QED
        BY <3>1, <3>2, RtuAssumption
    <2>3. isOpen'
      BY <1>8 DEF Discard, DiscardFails, TypeOK, callVars
    <2>4. code' \in [Calls -> Int]
      BY <1>8 DEF Discard, DiscardFails, TypeOK, callVars, MBE_RESPONSE_TOO_LONG
    <2>5. UNCHANGED <<isOpen, calls, asked, re, slave, sent, noise>>
      BY <1>8 DEF Discard, DiscardFails, callVars, slaveVars
    <2> QED
      BY <2>1, <2>2, <2>3, <2>4, <2>5 DEF TypeOK, ByteOfAnswer, Calls
  <1>9. ASSUME ReceiveFails \/ CrcFails \/ (\E m \in Calls : WrongDevice(m)) \/ Expire
        PROVE  TypeOK'
    <2>1. PICK c \in Int : Waiting /\ End(c, 0) /\ UNCHANGED rx
      BY <1>9 DEF ReceiveFails, CrcFails, WrongDevice, Expire, Silence, MBE_RECEIVE_FAILED,
                  MBE_CRC_FAIL, MBE_UNEXPECTED_DEVICE_RESPONDED, MBE_TIMED_OUT
    <2> QED
      BY <2>1, EndTypes, RtuAssumption
  <1>10. ASSUME NEW m \in Calls, Accept(m) PROVE TypeOK'
    <2>1. Waiting /\ UNCHANGED rx
      BY <1>10 DEF Accept, Silence
    <2>2. calls \in Calls
      BY <2>1, RtuAssumption DEF Waiting, TypeOK, Calls
    <2>3. Validate(asked[calls], Answer(asked[m], slave[m])) \in Int
      BY <2>2, FrameLenType, ReturnIsInt
    <2>4. m \in 0 .. MaxCalls
      BY DEF Calls
    <2> QED
      BY <1>10, <2>1, <2>3, <2>4, EndTypes DEF Accept
  <1>11. ASSUME NEW n \in Calls, NEW form \in {"normal", "exception", "silent"}, Serve(n, form)
         PROVE  TypeOK'
    <2>1. slave' \in [Calls -> Forms]
      BY <1>11 DEF Serve, TypeOK
    <2>2. Waiting' => isOpen'
      BY <1>11 DEF Serve, TypeOK, Waiting, callVars
    <2> QED
      BY <1>11, <2>1, <2>2 DEF Serve, TypeOK, callVars, ByteOfAnswer, Calls
  <1>12. ASSUME NEW n \in Calls, NEW k \in 1 .. FrameLen(n) - sent[n], Send(n, k)
         PROVE  TypeOK'
    <2>1. k \in Nat /\ sent[n] \in Nat
      BY FrameLenType DEF TypeOK
    <2> DEFINE part == [i \in 1 .. k |-> <<n, sent[n] + i>>]
    <2>2. \A i \in 1 .. k : <<n, sent[n] + i>> \in ByteOfAnswer
      BY <2>1 DEF ByteOfAnswer
    <2>3. part \in Seq(ByteOfAnswer)
      BY <2>1, <2>2, IsASeq
    <2>4. rx \o part \in Seq(ByteOfAnswer)
      BY <2>3, ConcatProperties DEF TypeOK
    <2>5. rx' \in Seq(ByteOfAnswer)
      BY <1>12, <2>4 DEF Send, TypeOK
    <2>6. sent' \in [Calls -> Nat]
      BY <1>12, <2>1 DEF Send, TypeOK
    <2>7. Waiting' => isOpen'
      BY <1>12 DEF Send, TypeOK, Waiting, callVars
    <2> QED
      BY <1>12, <2>5, <2>6, <2>7 DEF Send, TypeOK, callVars, ByteOfAnswer, Calls
  <1>13. ASSUME NEW n \in Calls, SendGarbled(n) PROVE TypeOK'
    <2>1. Garbled \in ByteOfAnswer
      BY DEF ByteOfAnswer
    <2>2. rx' \in Seq(ByteOfAnswer)
      BY <1>13, <2>1, AppendProperties DEF SendGarbled, TypeOK
    <2>3. sent' \in [Calls -> Nat] /\ noise' \in Nat
      BY <1>13 DEF SendGarbled, TypeOK
    <2>4. Waiting' => isOpen'
      BY <1>13 DEF SendGarbled, TypeOK, Waiting, callVars
    <2> QED
      BY <1>13, <2>2, <2>3, <2>4 DEF SendGarbled, TypeOK, callVars, ByteOfAnswer, Calls
  <1>14. CASE UNCHANGED vars
    BY <1>14 DEF vars, TypeOK, Waiting, ByteOfAnswer, Calls
  <1> QED
    BY <1>1, <1>2, <1>4, <1>5, <1>6, <1>7, <1>8, <1>9, <1>10, <1>11, <1>12, <1>13, <1>14
    DEF Next, User, Loop, Faults, Slave

(* The variables keep their types, no call waits on a closed port and the  *)
(* response never outgrows the buffer of rtu_serial_bus::transaction       *)
(* (modbus_serial_rtu.cpp:93-106), on any line.                            *)
THEOREM TypeInvariant == Spec => []TypeOK
  BY InitTypes, NextTypes, PTL DEF Spec

----------------------------------------------------------------------------
(* Where an accepted answer comes from.  The code compares an address byte *)
(* and a CRC; that the frame is an answer some slave gave to a call that   *)
(* was made follows from where every byte on the line comes from.          *)

(* The bytes a slave has to give, and those garbled on the way.            *)
Given == {b \in ByteOfAnswer : b = Garbled \/ HasAnswer(b[1])}

Provenance == rx \in Seq(Given) /\ buf \in Seq(Given)

(* What is not made is not heard and has no answer.                        *)
Unmade == \A n \in Calls : n > calls => slave[n] = "unheard" /\ re[n] = 0

(* A slave serves the requests it hears in their order: when it answers    *)
(* one, it is done with those before.                                      *)
InTurn ==
    \A n \in Calls : \A m \in 1 .. n - 1 :
        (HasAnswer(n) /\ Addr(asked[m].dev) = Addr(asked[n].dev))
            => slave[m] # "heard" /\ ~Talking(m)

(* What a call took was sent to its end.                                   *)
Consumed == \A n \in Calls : re[n] # 0 => ~Talking(re[n])

(* The answer to call m is later than all that were taken from its slave.  *)
Later(m) ==
    \A n \in 1 .. calls :
        (re[n] # 0 /\ Addr(asked[n].dev) = Addr(asked[m].dev)) => re[n] < m

(* The bytes that are sent of such answers: an answer that was taken left  *)
(* nothing behind, neither of itself nor of those before it, in the kernel *)
(* queue or in the buffer of a call that waits.                            *)
Fresh ==
    {b \in ByteOfAnswer :
        b = Garbled \/ (HasAnswer(b[1]) /\ b[2] <= sent[b[1]] /\ Later(b[1]))}

Ahead == rx \in Seq(Fresh) /\ (Waiting => buf \in Seq(Fresh))

(* A call that waits has taken nothing.                                    *)
NotYet == Waiting => re[calls] = 0

IInv ==
    /\ TypeOK
    /\ Unmade
    /\ Provenance
    /\ AnswerFromTarget
    /\ ReadOfThatShape
    /\ InTurn
    /\ Consumed
    /\ Ahead
    /\ NotYet
    /\ AnswersInOrder

(* What a step does to the calls: it begins one, fails one, ends one with  *)
(* an answer, has a slave take one up, or leaves them alone.               *)
Begins ==
    \E r \in Requests, c \in Int \ {0} :
        /\ Begin(r, c)
        /\ \A n \in Calls : n # calls + 1 => slave'[n] = slave[n]
        /\ slave' = slave \/ slave'[calls + 1] \in {"unheard", "heard"}

Fails ==
    /\ Waiting
    /\ \E c \in Int \ {0, Pending} : code' = [code EXCEPT ![calls] = c]
    /\ re' = re \/ re' = [re EXCEPT ![calls] = 0]
    /\ UNCHANGED <<calls, asked, slave>>

LEMMA Kinds ==
    ASSUME TypeOK, [Next]_vars
    PROVE  \/ Begins
           \/ Fails
           \/ \E m \in Calls : Accept(m)
           \/ \E n \in Calls, form \in {"normal", "exception", "silent"} : Serve(n, form)
           \/ UNCHANGED <<callVars, slave>>
  <1>1. ASSUME NEW r \in Requests,
               CallRefused(r) \/ CallNotConnected(r) \/ CallSendFails(r)
        PROVE  Begins
    <2>1. Refusal(r) \in Int
      BY DEF Refusal, MBE_TOO_MANY, MBE_ADDRESS_OVERFLOW
    <2>2. \E c \in Int \ {0} : Begin(r, c)
      BY <1>1, <2>1 DEF CallRefused, CallNotConnected, CallSendFails,
                        MBE_NOT_CONNECTED, MBE_SEND_REQUEST_FAILED
    <2>3. UNCHANGED slave
      BY <1>1 DEF CallRefused, CallNotConnected, CallSendFails
    <2> QED
      BY <2>2, <2>3 DEF Begins
  <1>2. ASSUME NEW r \in Requests, NEW heard \in BOOLEAN,
               CallBroadcast(r) \/ CallUnicast(r, heard)
        PROVE  Begins
    <2>1. \E c \in Int \ {0} : Begin(r, c)
      BY <1>2 DEF CallBroadcast, CallUnicast, MBE_TIMED_OUT, Pending
    <2>2. \A n \in Calls : n # calls + 1 => slave'[n] = slave[n]
      BY <1>2 DEF CallBroadcast, CallUnicast, TypeOK
    <2>3. slave'[calls + 1] \in {"unheard", "heard"}
      <3>1. calls + 1 \in Calls
        BY <2>1, BeginTypes
      <3> QED
        BY <1>2, <3>1 DEF CallBroadcast, CallUnicast, TypeOK
    <2> QED
      BY <2>1, <2>2, <2>3 DEF Begins
  <1>3. ASSUME DiscardFails \/ ReceiveFails \/ CrcFails \/ (\E m \in Calls : WrongDevice(m))
               \/ Expire
        PROVE  Fails
    BY <1>3 DEF DiscardFails, ReceiveFails, CrcFails, WrongDevice, Expire, Silence, End,
                Fails, slaveVars, Pending, MBE_RESPONSE_TOO_LONG, MBE_RECEIVE_FAILED, MBE_CRC_FAIL,
                MBE_UNEXPECTED_DEVICE_RESPONDED, MBE_TIMED_OUT
  <1>4. ASSUME (\E works \in BOOLEAN : Open(works)) \/ Close \/ ReadBytes \/ Discard
        PROVE  UNCHANGED <<callVars, slave>>
    BY <1>4 DEF Open, Close, ReadBytes, Discard, callVars, slaveVars
  <1>5. ASSUME NEW n \in Calls, (\E k \in 1 .. FrameLen(n) - sent[n] : Send(n, k)) \/ SendGarbled(n)
        PROVE  UNCHANGED <<callVars, slave>>
    BY <1>5 DEF Send, SendGarbled, callVars
  <1>6. CASE UNCHANGED vars
    BY <1>6 DEF vars, callVars
  <1> QED
    BY <1>1, <1>2, <1>3, <1>4, <1>5, <1>6 DEF Next, User, Loop, Faults, Slave

(* An answer once given stays what it is, and so does a request once made. *)
LEMMA Stable ==
    ASSUME TypeOK, Unmade, [Next]_vars
    PROVE  /\ \A n \in Calls : HasAnswer(n) => n <= calls /\ slave'[n] = slave[n]
           /\ \A n \in 1 .. calls : n \in Calls /\ asked'[n] = asked[n]
  <1>1. calls \in Nat /\ 1 .. calls \subseteq Calls
    BY RtuAssumption DEF TypeOK, Calls
  <1>2. \A n \in Calls : HasAnswer(n) => n \in Nat /\ n <= calls
    BY <1>1 DEF Unmade, HasAnswer, Calls
  <1>3. CASE Begins
    <2>1. \A n \in 1 .. calls : asked'[n] = asked[n]
      BY <1>1, <1>3 DEF Begins, Begin, TypeOK
    <2>2. \A n \in Calls : n <= calls => slave'[n] = slave[n]
      BY <1>1, <1>3 DEF Begins, Calls
    <2> QED
      BY <1>1, <1>2, <2>1, <2>2
  <1>4. CASE Fails \/ UNCHANGED <<callVars, slave>>
    BY <1>1, <1>2, <1>4 DEF Fails, callVars
  <1>5. CASE \E m \in Calls : Accept(m)
    BY <1>1, <1>2, <1>5 DEF Accept, End, slaveVars
  <1>6. CASE \E n \in Calls, form \in {"normal", "exception", "silent"} : Serve(n, form)
    <2>1. UNCHANGED asked
      BY <1>6 DEF Serve, callVars
    <2>2. \A n \in Calls : HasAnswer(n) => slave'[n] = slave[n]
      BY <1>6 DEF Serve, HasAnswer, TypeOK
    <2> QED
      BY <1>1, <1>2, <2>1, <2>2
  <1> QED
    BY <1>3, <1>4, <1>5, <1>6, Kinds

(* No step brings a byte that no slave has to give.                        *)
LEMMA BytesAreGiven ==
    ASSUME TypeOK, Provenance, [Next]_vars
    PROVE  rx' \in Seq(Given) /\ buf' \in Seq(Given)
  <1>0. <<>> \in Seq(Given) /\ rx \in Seq(Given) /\ buf \in Seq(Given)
    BY EmptySeq DEF Provenance
  <1>1. ASSUME (\E works \in BOOLEAN : Open(works)) \/ Close
        PROVE  rx' \in Seq(Given) /\ buf' \in Seq(Given)
    BY <1>0, <1>1 DEF Open, Close
  <1>2. ASSUME NEW r \in Requests, NEW heard \in BOOLEAN,
               \/ CallRefused(r) \/ CallNotConnected(r) \/ CallSendFails(r)
               \/ CallBroadcast(r) \/ CallUnicast(r, heard)
        PROVE  rx' \in Seq(Given) /\ buf' \in Seq(Given)
    BY <1>0, <1>2 DEF CallRefused, CallNotConnected, CallSendFails, CallBroadcast,
                      CallUnicast, Begin
  <1>3. ASSUME ReadBytes PROVE rx' \in Seq(Given) /\ buf' \in Seq(Given)
    <2> DEFINE room == MaxLen - Len(buf)
    <2>1. room \in Nat
      BY LenProperties, RtuAssumption DEF TypeOK
    <2>2. Taken(rx, room) \in Seq(Given) /\ Left(rx, room) \in Seq(Given)
      BY <1>0, <2>1, ReadTakes
    <2>3. buf' = buf \o Taken(rx, room) /\ rx' = Left(rx, room)
      BY <1>3 DEF ReadBytes
    <2> HIDE DEF room
    <2> QED
      BY <1>0, <2>2, <2>3, ConcatProperties
  <1>4. ASSUME Discard \/ DiscardFails PROVE rx' \in Seq(Given) /\ buf' \in Seq(Given)
    BY <1>0, <1>4, ReadTakes, RtuAssumption DEF Discard, DiscardFails
  <1>5. ASSUME \/ ReceiveFails \/ CrcFails \/ Expire
               \/ \E m \in Calls : WrongDevice(m) \/ Accept(m)
               \/ \E n \in Calls, form \in {"normal", "exception", "silent"} : Serve(n, form)
               \/ UNCHANGED vars
        PROVE  rx' \in Seq(Given) /\ buf' \in Seq(Given)
    BY <1>0, <1>5 DEF ReceiveFails, CrcFails, Expire, WrongDevice, Accept, End, Serve, vars
  <1>6. ASSUME NEW n \in Calls, NEW k \in 1 .. FrameLen(n) - sent[n], Send(n, k)
        PROVE  rx' \in Seq(Given) /\ buf' \in Seq(Given)
    <2>1. k \in Nat /\ sent[n] \in Nat
      BY FrameLenType DEF TypeOK
    <2> DEFINE part == [i \in 1 .. k |-> <<n, sent[n] + i>>]
    <2>2. \A i \in 1 .. k : <<n, sent[n] + i>> \in Given
      BY <1>6, <2>1 DEF Send, Talking, Given, ByteOfAnswer
    <2>3. part \in Seq(Given)
      BY <2>1, <2>2, IsASeq
    <2>4. rx \o part \in Seq(Given)
      BY <1>0, <2>3, ConcatProperties
    <2> QED
      BY <1>0, <1>6, <2>4 DEF Send
  <1>7. ASSUME NEW n \in Calls, SendGarbled(n)
        PROVE  rx' \in Seq(Given) /\ buf' \in Seq(Given)
    <2>1. Garbled \in Given
      BY DEF Given, ByteOfAnswer
    <2> QED
      BY <1>0, <1>7, <2>1, AppendProperties DEF SendGarbled
  <1> QED
    BY <1>1, <1>2, <1>3, <1>4, <1>5, <1>6, <1>7 DEF Next, User, Loop, Faults, Slave

(* An accepted frame is one that a slave gave as its answer.               *)
LEMMA AcceptedIsGiven ==
    ASSUME TypeOK, Unmade, Provenance, NEW m \in Calls, Accept(m)
    PROVE  HasAnswer(m) /\ m \in 1 .. calls /\ Waiting /\ calls \in Calls
  <1>1. Waiting /\ Len(buf) > 3 /\ buf = Frame(m)
    BY DEF Accept, Silence, Whole
  <1>2. calls \in Calls
    BY <1>1, RtuAssumption DEF Waiting, TypeOK, Calls
  <1>3. buf[1] \in Given
    <2>1. Len(buf) \in Nat
      BY LenProperties DEF Provenance
    <2> QED
      BY <1>1, <2>1, ElementOfSeq DEF Provenance
  <1>4. 1 \in 1 .. FrameLen(m)
    BY FrameLenType, AnswerLength DEF FrameLen
  <1>5. buf[1] = <<m, 1>>
    BY <1>1, <1>4 DEF Frame
  <1>6. HasAnswer(m)
    BY <1>3, <1>5 DEF Given, Garbled
  <1>7. m \in Nat /\ m >= 1 /\ m <= calls
    BY <1>2, <1>6 DEF Unmade, HasAnswer, Calls
  <1> QED
    BY <1>1, <1>2, <1>6, <1>7

LEMMA InitInductive == Init => IInv
  <1> SUFFICES ASSUME Init PROVE IInv
    OBVIOUS
  <1>1. TypeOK
    BY InitTypes
  <1>2. calls = 0 /\ rx = <<>> /\ buf = <<>>
    BY Zenon DEF Init
  <1>3. Unmade
    BY DEF Init, Unmade
  <1>4. Provenance
    BY <1>2, EmptySeq DEF Provenance
  <1>5. AnswerFromTarget /\ ReadOfThatShape
    BY <1>2 DEF AnswerFromTarget, ReadOfThatShape
  <1>6. InTurn /\ Consumed
    BY DEF Init, InTurn, Consumed, HasAnswer, Talking
  <1>7. Ahead /\ NotYet /\ AnswersInOrder
    <2>1. ~Waiting
      BY <1>2 DEF Waiting
    <2> QED
      BY <1>2, <2>1, EmptySeq DEF Ahead, NotYet, AnswersInOrder
  <1> QED
    BY <1>1, <1>3, <1>4, <1>5, <1>6, <1>7 DEF IInv

LEMMA NextUnmade ==
    ASSUME IInv, [Next]_vars
    PROVE  Unmade'
  <1>0. TypeOK /\ Unmade /\ calls \in Nat /\ Calls \subseteq Nat
    BY DEF IInv, TypeOK, Calls
  <1>1. CASE Begins
    <2>1. calls' = calls + 1 /\ re' = re
      BY <1>1 DEF Begins, Begin
    <2>2. \A n \in Calls : n > calls + 1 => slave'[n] = slave[n] /\ n > calls
      BY <1>0, <1>1 DEF Begins
    <2> QED
      BY <1>0, <2>1, <2>2 DEF Unmade
  <1>2. CASE Fails
    BY <1>0, <1>2 DEF Fails, Unmade, TypeOK
  <1>3. CASE \E m \in Calls : Accept(m)
    BY <1>0, <1>3 DEF Accept, End, slaveVars, Unmade, TypeOK
  <1>4. CASE \E n \in Calls, form \in {"normal", "exception", "silent"} : Serve(n, form)
    <2>1. UNCHANGED <<calls, re>>
      BY <1>4 DEF Serve, callVars
    <2>2. \A n \in Calls : slave[n] = "unheard" => slave'[n] = "unheard"
      BY <1>0, <1>4 DEF Serve, TypeOK
    <2> QED
      BY <1>0, <2>1, <2>2 DEF Unmade
  <1>5. CASE UNCHANGED <<callVars, slave>>
    BY <1>0, <1>5 DEF callVars, Unmade
  <1> QED
    BY <1>0, <1>1, <1>2, <1>3, <1>4, <1>5, Kinds

LEMMA NextProvenance ==
    ASSUME IInv, [Next]_vars
    PROVE  Provenance'
  <1>1. rx' \in Seq(Given) /\ buf' \in Seq(Given)
    BY BytesAreGiven DEF IInv
  <1>2. Given \subseteq Given'
    <2>1. \A n \in Calls : HasAnswer(n) => HasAnswer(n)'
      BY Stable DEF IInv, HasAnswer
    <2>2. ASSUME NEW b \in Given PROVE b \in Given'
      <3>1. CASE b = Garbled
        BY <3>1 DEF Given, ByteOfAnswer, Calls
      <3>2. CASE b # Garbled
        <4>1. b \in ByteOfAnswer /\ b[1] \in Calls /\ HasAnswer(b[1])
          BY <3>2 DEF Given, ByteOfAnswer
        <4>2. HasAnswer(b[1])'
          BY <2>1, <4>1
        <4> QED
          BY <4>1, <4>2 DEF Given, ByteOfAnswer, Calls
      <3> QED
        BY <3>1, <3>2
    <2> QED
      BY <2>2
  <1>3. rx' \in Seq(Given') /\ buf' \in Seq(Given')
    BY <1>1, <1>2, SeqMonotonic
  <1> QED
    BY <1>3 DEF Provenance

(* What AnswerFromTarget says of one call.                                 *)
Sourced(n) ==
    re[n] # 0 => /\ re[n] <= n
                 /\ HasAnswer(re[n])
                 /\ Addr(asked[re[n]].dev) = asked[n].dev

LEMMA NextAnswerFromTarget ==
    ASSUME IInv, [Next]_vars
    PROVE  AnswerFromTarget'
  <1>0. /\ TypeOK /\ Unmade /\ Provenance
        /\ calls \in Nat /\ 1 .. calls \subseteq Calls /\ Calls \subseteq Nat
    BY RtuAssumption DEF IInv, TypeOK, Calls
  <1> SUFFICES \A n \in 1 .. calls' : Sourced(n)'
    BY DEF AnswerFromTarget, Sourced
  <1>1. ASSUME NEW n \in 1 .. calls, re'[n] \in {0, re[n]}
        PROVE  Sourced(n)'
    <2> SUFFICES ASSUME re'[n] = re[n], re[n] # 0
                 PROVE  Sourced(n)'
      BY <1>1 DEF Sourced
    <2>1. /\ re[n] <= n /\ HasAnswer(re[n]) /\ re[n] \in 1 .. MaxCalls
          /\ Addr(asked[re[n]].dev) = asked[n].dev
      BY <1>0, RtuAssumption DEF IInv, AnswerFromTarget, TypeOK
    <2>2. re[n] \in Calls /\ re[n] \in 1 .. calls
      BY <1>0, <2>1 DEF Calls
    <2>3. asked'[re[n]] = asked[re[n]] /\ asked'[n] = asked[n] /\ slave'[re[n]] = slave[re[n]]
      BY <1>0, <2>1, <2>2, Stable
    <2> QED
      BY <2>1, <2>3 DEF Sourced, HasAnswer
  <1>2. CASE Begins
    <2>1. calls' = calls + 1 /\ re' = re /\ calls + 1 \in Calls
      BY <1>0, <1>2, BeginTypes DEF Begins, Begin
    <2>2. re'[calls + 1] = 0
      BY <1>0, <2>1 DEF Unmade
    <2>3. Sourced(calls)'
      BY <2>1, <2>2 DEF Sourced
    <2>4. \A n \in 1 .. calls' : n \in 1 .. calls \/ n = calls'
      BY <1>0, <2>1
    <2> QED
      BY <1>1, <2>1, <2>3, <2>4
  <1>3. CASE Fails
    <2>1. calls' = calls /\ \A n \in Calls : re'[n] \in {0, re[n]}
      BY <1>0, <1>3 DEF Fails, TypeOK
    <2> QED
      BY <1>0, <1>1, <2>1
  <1>4. ASSUME NEW m \in Calls, Accept(m) PROVE \A n \in 1 .. calls' : Sourced(n)'
    <2>1. HasAnswer(m) /\ m \in 1 .. calls /\ calls \in Calls
      BY <1>0, <1>4, AcceptedIsGiven
    <2>2. re' = [re EXCEPT ![calls] = m] /\ UNCHANGED <<calls, asked, slave>>
      BY <1>4 DEF Accept, End, slaveVars
    <2>3. \A n \in 1 .. calls : n # calls => re'[n] = re[n]
      BY <1>0, <2>2 DEF TypeOK
    <2>4. re'[calls] = m /\ m <= calls
      BY <1>0, <2>1, <2>2 DEF TypeOK
    <2>5. Addr(asked[m].dev) = asked[calls].dev
      BY <1>4 DEF Accept, FromTarget
    <2>6. Sourced(calls)'
      BY <2>1, <2>2, <2>4, <2>5 DEF Sourced, HasAnswer
    <2> QED
      BY <1>1, <2>2, <2>3, <2>6
  <1>5. CASE \/ \E n \in Calls, form \in {"normal", "exception", "silent"} : Serve(n, form)
             \/ UNCHANGED <<callVars, slave>>
    <2>1. UNCHANGED <<calls, re>>
      BY <1>5 DEF Serve, callVars
    <2> QED
      BY <1>1, <2>1
  <1> QED
    BY <1>0, <1>2, <1>3, <1>4, <1>5, Kinds

(* What ReadOfThatShape says of one call.                                  *)
Shaped(n) ==
    (code[n] = 0 /\ asked[n].op \in Reads) =>
        /\ re[n] # 0
        /\ slave[re[n]] = "normal"
        /\ asked[re[n]].op \in Reads
        /\ asked[re[n]].count = asked[n].count

LEMMA NextReadOfThatShape ==
    ASSUME IInv, [Next]_vars
    PROVE  ReadOfThatShape'
  <1>0. /\ TypeOK /\ Unmade /\ Provenance
        /\ calls \in Nat /\ 1 .. calls \subseteq Calls /\ Calls \subseteq Nat
    BY RtuAssumption DEF IInv, TypeOK, Calls
  <1> SUFFICES \A n \in 1 .. calls' : Shaped(n)'
    BY DEF ReadOfThatShape, Shaped
  <1>1. ASSUME NEW n \in 1 .. calls, re'[n] = re[n], code'[n] = code[n]
        PROVE  Shaped(n)'
    <2>1. asked'[n] = asked[n]
      BY <1>0, Stable
    <2> SUFFICES ASSUME code[n] = 0, asked[n].op \in Reads
                 PROVE  Shaped(n)'
      BY <1>1, <2>1 DEF Shaped
    <2>2. /\ re[n] # 0 /\ slave[re[n]] = "normal"
          /\ asked[re[n]].op \in Reads /\ asked[re[n]].count = asked[n].count
      BY DEF IInv, ReadOfThatShape
    <2>3. re[n] \in 1 .. MaxCalls /\ re[n] <= n
      BY <1>0, <2>2, RtuAssumption DEF IInv, AnswerFromTarget, TypeOK
    <2>4. re[n] \in 1 .. calls /\ re[n] \in Calls
      BY <1>0, <2>3 DEF Calls
    <2>5. asked'[re[n]] = asked[re[n]] /\ slave'[re[n]] = slave[re[n]]
      BY <1>0, <2>2, <2>4, Stable DEF HasAnswer
    <2> QED
      BY <1>1, <2>1, <2>2, <2>5 DEF Shaped
  <1>2. CASE Begins
    <2>1. calls' = calls + 1 /\ re' = re /\ calls + 1 \in Calls
      BY <1>0, <1>2, BeginTypes DEF Begins, Begin
    <2>2. code'[calls + 1] # 0 /\ \A n \in 1 .. calls : code'[n] = code[n]
      BY <1>0, <1>2, <2>1 DEF Begins, Begin, TypeOK
    <2>3. Shaped(calls)'
      BY <2>1, <2>2 DEF Shaped
    <2>4. \A n \in 1 .. calls' : n \in 1 .. calls \/ n = calls'
      BY <1>0, <2>1
    <2> QED
      BY <1>1, <2>1, <2>2, <2>3, <2>4
  <1>3. CASE Fails
    <2>1. calls' = calls /\ (calls > 0 => calls \in Calls)
      BY <1>0, <1>3 DEF Fails
    <2>2. calls \in Calls
      BY <1>3, <2>1 DEF Fails, Waiting
    <2>3. code'[calls] # 0
      BY <1>0, <1>3, <2>2 DEF Fails, TypeOK
    <2>4. Shaped(calls)'
      BY <2>1, <2>3 DEF Shaped
    <2>5. \A n \in 1 .. calls : n # calls => code'[n] = code[n] /\ re'[n] = re[n]
      BY <1>0, <1>3 DEF Fails, TypeOK
    <2> QED
      BY <1>1, <2>1, <2>4, <2>5
  <1>4. ASSUME NEW m \in Calls, Accept(m) PROVE \A n \in 1 .. calls' : Shaped(n)'
    <2>1. HasAnswer(m) /\ m \in 1 .. calls /\ calls \in Calls
      BY <1>0, <1>4, AcceptedIsGiven
    <2>2. /\ re' = [re EXCEPT ![calls] = m] /\ UNCHANGED <<calls, asked, slave>>
          /\ code' = [code EXCEPT ![calls] = Validate(asked[calls], Answer(asked[m], slave[m]))]
      BY <1>4 DEF Accept, End, slaveVars
    <2>3. \A n \in 1 .. calls : n # calls => code'[n] = code[n] /\ re'[n] = re[n]
      BY <1>0, <2>2 DEF TypeOK
    <2>4. /\ re'[calls] = m
          /\ code'[calls] = Validate(asked[calls], Answer(asked[m], slave[m]))
      BY <1>0, <2>1, <2>2 DEF TypeOK
    <2>5. Shaped(calls)'
      <3> SUFFICES ASSUME code'[calls] = 0, asked[calls].op \in Reads
                   PROVE  Shaped(calls)'
        BY <2>2 DEF Shaped
      <3>1. asked[calls] \in Request /\ asked[m] \in Request
        BY <1>0, <2>1, FrameLenType
      <3>2. slave[m] \in {"normal", "exception"}
        BY <2>1 DEF HasAnswer
      <3>3. slave[m] = "normal" /\ asked[m].op \in Reads /\ asked[m].count = asked[calls].count
        BY <2>4, <3>1, <3>2, ReadMatchesShape
      <3>4. m # 0
        BY DEF Calls
      <3> QED
        BY <2>2, <2>4, <3>3, <3>4 DEF Shaped
    <2> QED
      BY <1>1, <2>2, <2>3, <2>5
  <1>5. CASE \/ \E n \in Calls, form \in {"normal", "exception", "silent"} : Serve(n, form)
             \/ UNCHANGED <<callVars, slave>>
    <2>1. UNCHANGED <<calls, code, re>>
      BY <1>5 DEF Serve, callVars
    <2> QED
      BY <1>1, <2>1
  <1> QED
    BY <1>0, <1>2, <1>3, <1>4, <1>5, Kinds

----------------------------------------------------------------------------
(* The order of the answers.                                               *)

LEMMA Ranges ==
    ASSUME TypeOK
    PROVE  /\ calls \in Nat /\ 1 .. calls \subseteq Calls /\ Calls \subseteq Nat \ {0}
           /\ Waiting => calls \in Calls
           /\ \A n \in Calls : sent[n] \in Nat /\ FrameLen(n) \in Nat
  <1>1. calls \in Nat /\ calls <= MaxCalls /\ MaxCalls \in Nat
    BY RtuAssumption DEF TypeOK
  <1>2. 1 .. calls \subseteq Calls /\ Calls \subseteq Nat \ {0}
    BY <1>1 DEF Calls
  <1>3. Waiting => calls \in Calls
    BY <1>1 DEF Waiting, Calls
  <1> QED
    BY <1>1, <1>2, <1>3, FrameLenType DEF TypeOK

LEMMA RangesNext ==
    ASSUME TypeOK, [Next]_vars
    PROVE  /\ calls' \in Nat /\ 1 .. calls' \subseteq Calls
           /\ \A n \in 1 .. calls' : 1 .. n - 1 \subseteq 1 .. calls'
  <1>1. calls' \in 0 .. MaxCalls /\ MaxCalls \in Nat
    BY NextTypes, RtuAssumption DEF TypeOK
  <1> QED
    BY <1>1 DEF Calls

(* An address byte is its own address.                                     *)
LEMMA AddrTwice ==
    ASSUME NEW d \in Nat, NEW e \in Nat, Addr(d) = e
    PROVE  Addr(e) = e
  BY DEF Addr

LEMMA SameAddress ==
    ASSUME TypeOK, AnswerFromTarget, NEW n \in 1 .. calls, re[n] # 0
    PROVE  /\ re[n] \in 1 .. n /\ re[n] \in Calls /\ HasAnswer(re[n])
           /\ Addr(asked[re[n]].dev) = Addr(asked[n].dev)
  <1>1. /\ re[n] <= n /\ HasAnswer(re[n]) /\ Addr(asked[re[n]].dev) = asked[n].dev
    BY DEF AnswerFromTarget
  <1>2. n \in Calls /\ re[n] \in 1 .. n /\ re[n] \in Calls
    BY <1>1, Ranges, RtuAssumption DEF TypeOK, Calls
  <1>3. asked[re[n]].dev \in Nat /\ asked[n].dev \in Nat
    BY <1>2, FrameLenType, RequestParts
  <1> QED
    BY <1>1, <1>2, <1>3, AddrTwice

(* What is sent is not taken back.                                         *)
LEMMA SentGrows ==
    ASSUME TypeOK, [Next]_vars, NEW n \in Calls
    PROVE  sent'[n] \in Nat /\ sent'[n] >= sent[n]
  <1>0. sent[n] \in Nat
    BY Ranges
  <1>1. ASSUME NEW m \in Calls, NEW k \in 1 .. FrameLen(m) - sent[m], Send(m, k)
        PROVE  sent'[n] \in Nat /\ sent'[n] >= sent[n]
    <2>1. k \in Nat
      BY Ranges
    <2> QED
      BY <1>0, <1>1, <2>1 DEF Send, TypeOK
  <1>2. ASSUME NEW m \in Calls, SendGarbled(m)
        PROVE  sent'[n] \in Nat /\ sent'[n] >= sent[n]
    BY <1>0, <1>2 DEF SendGarbled, TypeOK
  <1>3. CASE User
    BY <1>0, <1>3 DEF User, Open, Close, CallRefused, CallNotConnected, CallSendFails,
                      CallBroadcast, CallUnicast, Begin, slaveVars
  <1>4. CASE Loop \/ Faults \/ UNCHANGED vars
    BY <1>0, <1>4 DEF Loop, Faults, ReadBytes, Discard, CrcFails, WrongDevice, Accept, Expire,
                      DiscardFails, ReceiveFails, End, slaveVars, vars
  <1>5. ASSUME NEW m \in Calls, NEW form \in {"normal", "exception", "silent"}, Serve(m, form)
        PROVE  sent'[n] \in Nat /\ sent'[n] >= sent[n]
    BY <1>0, <1>5 DEF Serve
  <1> QED
    BY <1>1, <1>2, <1>3, <1>4, <1>5 DEF Next, Slave

(* Only what a slave serves gets an answer, and what it is done with, it   *)
(* does not take up again.                                                 *)
LEMMA Answerers ==
    ASSUME TypeOK, Unmade, [Next]_vars
    PROVE  /\ \A n \in Calls : HasAnswer(n)' =>
                  /\ n \in 1 .. calls
                  /\ HasAnswer(n) \/ \E form \in {"normal", "exception", "silent"} : Serve(n, form)
           /\ \A n \in 1 .. calls : slave[n] # "heard" => slave'[n] # "heard"
  <1>0. \A n \in Calls : slave[n] # "unheard" => n \in 1 .. calls
    BY Ranges DEF Unmade, Calls
  <1>1. CASE Begins
    <2>1. PICK r \in Requests, c \in Int \ {0} :
              /\ Begin(r, c)
              /\ \A n \in Calls : n # calls + 1 => slave'[n] = slave[n]
              /\ slave' = slave \/ slave'[calls + 1] \in {"unheard", "heard"}
      BY <1>1 DEF Begins
    <2>2. calls + 1 \in Calls
      BY <2>1, BeginTypes DEF Pending
    <2>3. \A n \in Calls : HasAnswer(n)' => HasAnswer(n)
      BY <1>0, <2>1, <2>2 DEF HasAnswer
    <2>4. \A n \in 1 .. calls : n \in Calls /\ n # calls + 1
      BY Ranges
    <2> QED
      BY <1>0, <2>1, <2>3, <2>4 DEF HasAnswer
  <1>2. CASE Fails \/ (\E m \in Calls : Accept(m)) \/ UNCHANGED <<callVars, slave>>
    <2>1. slave' = slave
      BY <1>2 DEF Fails, Accept, End, slaveVars
    <2> QED
      BY <1>0, <2>1 DEF HasAnswer
  <1>3. ASSUME NEW m \in Calls, NEW form \in {"normal", "exception", "silent"}, Serve(m, form)
        PROVE  /\ \A n \in Calls : HasAnswer(n)' =>
                      n \in 1 .. calls /\ (HasAnswer(n) \/ n = m)
               /\ \A n \in 1 .. calls : slave[n] # "heard" => slave'[n] # "heard"
    <2>1. /\ slave[m] = "heard" /\ slave' = [slave EXCEPT ![m] = form]
          /\ UNCHANGED calls
      BY <1>3 DEF Serve, callVars
    <2>2. \A n \in Calls : n # m => slave'[n] = slave[n]
      BY <2>1 DEF TypeOK
    <2>3. slave'[m] = form /\ form # "heard"
      BY <2>1 DEF TypeOK
    <2> QED
      BY <1>0, <2>1, <2>2, <2>3, Ranges DEF HasAnswer
  <1> QED
    BY <1>1, <1>2, <1>3, Kinds

(* A slave that is done with a call stays done with it.                    *)
LEMMA StaysDone ==
    ASSUME TypeOK, Unmade, [Next]_vars,
           NEW m \in 1 .. calls, slave[m] # "heard", ~Talking(m)
    PROVE  slave'[m] # "heard" /\ ~Talking(m)'
  <1>1. m \in Calls /\ slave'[m] # "heard"
    BY Answerers, Ranges
  <1>2. SUFFICES ASSUME HasAnswer(m)' PROVE ~(sent'[m] < FrameLen(m)')
    BY <1>1 DEF Talking
  <1>3. HasAnswer(m)
    <2>1. \A form : ~Serve(m, form)
      BY DEF Serve
    <2> QED
      BY <1>1, <1>2, <2>1, Answerers
  <1>4. FrameLen(m)' = FrameLen(m)
    BY <1>1, <1>3, Stable DEF FrameLen
  <1>5. sent[m] >= FrameLen(m)
    BY <1>1, <1>3, Ranges DEF Talking
  <1> QED
    BY <1>1, <1>4, <1>5, SentGrows, Ranges

LEMMA NextInTurn ==
    ASSUME IInv, [Next]_vars
    PROVE  InTurn'
  <1>0. TypeOK /\ Unmade /\ InTurn
    BY DEF IInv
  <1> SUFFICES ASSUME NEW n \in Calls, NEW m \in 1 .. n - 1, HasAnswer(n)',
                      Addr(asked'[m].dev) = Addr(asked'[n].dev)
               PROVE  slave'[m] # "heard" /\ ~Talking(m)'
    BY DEF InTurn, Calls
  <1>1. n \in 1 .. calls /\ m \in 1 .. calls
    BY <1>0, Answerers, Ranges
  <1>2. Addr(asked[m].dev) = Addr(asked[n].dev)
    BY <1>0, <1>1, Stable
  <1>3. slave[m] # "heard" /\ ~Talking(m)
    <2>1. CASE HasAnswer(n)
      BY <1>0, <1>2, <2>1 DEF InTurn
    <2>2. ASSUME NEW form \in {"normal", "exception", "silent"}, Serve(n, form)
          PROVE  slave[m] # "heard" /\ ~Talking(m)
      BY <1>2, <2>2 DEF Serve
    <2> QED
      BY <1>0, <2>1, <2>2, Answerers
  <1> QED
    BY <1>0, <1>1, <1>3, StaysDone

(* An accepted frame was sent to its end, and is later than what its slave *)
(* had taken from it.                                                      *)
LEMMA AcceptedIsFresh ==
    ASSUME TypeOK, Unmade, Provenance, Ahead, NEW m \in Calls, Accept(m)
    PROVE  ~Talking(m) /\ Later(m)
  <1>1. Waiting /\ buf = Frame(m) /\ buf \in Seq(Fresh) /\ HasAnswer(m)
    BY AcceptedIsGiven DEF Accept, Silence, Whole, Ahead
  <1>2. FrameLen(m) \in Nat /\ 1 <= FrameLen(m)
    BY FrameLenType, AnswerLength DEF FrameLen
  <1>3. Len(buf) = FrameLen(m)
    BY <1>1, <1>2, LenProperties DEF Frame
  <1>4. buf[FrameLen(m)] = <<m, FrameLen(m)>> /\ buf[FrameLen(m)] \in Fresh
    <2>1. FrameLen(m) \in 1 .. FrameLen(m)
      BY <1>2
    <2>2. buf[FrameLen(m)] \in Fresh
      BY <1>1, <1>3, <2>1, ElementOfSeq
    <2> QED
      BY <1>1, <2>1, <2>2 DEF Frame
  <1>5. m # 0
    BY Ranges
  <1>6. FrameLen(m) <= sent[m] /\ Later(m)
    BY <1>4, <1>5 DEF Fresh, Garbled
  <1> QED
    BY <1>2, <1>6, Ranges DEF Talking

(* A step that accepts nothing gives no call an answer.                    *)
LEMMA NoneTaken ==
    ASSUME TypeOK, [Next]_vars, ~\E m \in Calls : Accept(m)
    PROVE  \A n \in Calls : re'[n] \in {0, re[n]}
  BY Kinds DEF Begins, Begin, Fails, Serve, callVars, TypeOK

LEMMA NextConsumed ==
    ASSUME IInv, [Next]_vars
    PROVE  Consumed'
  <1>0. TypeOK /\ Unmade /\ Provenance /\ Ahead /\ Consumed /\ AnswerFromTarget
    BY DEF IInv
  <1> SUFFICES ASSUME NEW n \in Calls, NEW a, a # 0, re'[n] = a PROVE ~Talking(a)'
    BY DEF Consumed, Calls
  <1>1. ASSUME NEW m \in 1 .. calls, HasAnswer(m), ~Talking(m) PROVE ~Talking(m)'
    BY <1>0, <1>1, StaysDone DEF HasAnswer
  <1>2. CASE re'[n] = re[n]
    <2>1. n \in 1 .. calls
      BY <1>0, <1>2, Ranges DEF Unmade
    <2>2. a \in 1 .. calls /\ HasAnswer(a) /\ ~Talking(a)
      BY <1>0, <1>2, <2>1, SameAddress, Ranges DEF Consumed
    <2> QED
      BY <1>1, <1>2, <2>2
  <1>3. ASSUME NEW m \in Calls, Accept(m), re'[n] # re[n] PROVE ~Talking(a)'
    <2>1. a = m
      BY <1>0, <1>3 DEF Accept, End, TypeOK
    <2>2. ~Talking(m) /\ HasAnswer(m) /\ m \in 1 .. calls
      BY <1>0, <1>3, AcceptedIsFresh, AcceptedIsGiven
    <2> QED
      BY <1>1, <2>1, <2>2
  <1> QED
    BY <1>0, <1>2, <1>3, NoneTaken

(* Fresh bytes stay fresh until an answer is taken.                        *)
LEMMA FreshStays ==
    ASSUME IInv, [Next]_vars, ~\E m \in Calls : Accept(m)
    PROVE  Fresh \subseteq Fresh'
  <1>0. TypeOK /\ Unmade
    BY DEF IInv
  <1> SUFFICES ASSUME NEW b \in Fresh, b # Garbled PROVE b \in Fresh'
    BY DEF Fresh, ByteOfAnswer, Calls
  <1>1. /\ b \in ByteOfAnswer /\ b[1] \in Calls /\ b[2] \in Nat
        /\ HasAnswer(b[1]) /\ b[2] <= sent[b[1]] /\ Later(b[1])
    BY DEF Fresh, ByteOfAnswer
  <1>2. /\ HasAnswer(b[1])' /\ b[1] \in 1 .. calls
    BY <1>0, <1>1, Stable, Ranges DEF HasAnswer
  <1>3. b[2] <= sent'[b[1]]
    BY <1>0, <1>1, SentGrows, Ranges
  <1>4. Later(b[1])'
    <2> SUFFICES ASSUME NEW n \in 1 .. calls', re'[n] # 0,
                        Addr(asked'[n].dev) = Addr(asked'[b[1]].dev)
                 PROVE  re'[n] < b[1]
      BY DEF Later
    <2>1. n \in Calls
      BY <1>0, RangesNext
    <2>2. re'[n] = re[n] /\ n \in 1 .. calls
      BY <1>0, <2>1, NoneTaken, Ranges DEF Unmade
    <2>3. Addr(asked[n].dev) = Addr(asked[b[1]].dev)
      BY <1>0, <1>2, <2>2, Stable
    <2> QED
      BY <1>1, <2>2, <2>3 DEF Later
  <1> QED
    BY <1>1, <1>2, <1>3, <1>4 DEF Fresh, ByteOfAnswer, Calls

(* What a slave sends is later than all that was taken from it.            *)
LEMMA TalkingIsLater ==
    ASSUME IInv, NEW n \in Calls, Talking(n)
    PROVE  Later(n)
  <1>0. TypeOK /\ Unmade /\ AnswerFromTarget /\ InTurn /\ Consumed
    BY DEF IInv
  <1> SUFFICES ASSUME NEW j \in 1 .. calls, re[j] # 0,
                      Addr(asked[j].dev) = Addr(asked[n].dev)
               PROVE  re[j] < n
    BY DEF Later
  <1>1. /\ re[j] \in Calls /\ HasAnswer(re[j]) /\ j \in Calls
        /\ Addr(asked[re[j]].dev) = Addr(asked[n].dev)
    BY <1>0, SameAddress, Ranges
  <1>2. re[j] # n
    BY <1>0, <1>1 DEF Consumed
  <1>4. n \in Nat \ {0} /\ re[j] \in Nat
    BY <1>0, <1>1, Ranges
  <1>3. ~(n < re[j])
    <2> SUFFICES ASSUME n < re[j] PROVE FALSE
      OBVIOUS
    <2>1. n \in 1 .. re[j] - 1
      BY <1>4
    <2> QED
      BY <1>0, <1>1, <2>1 DEF InTurn
  <1> QED
    BY <1>2, <1>3, <1>4

LEMMA NextAhead ==
    ASSUME IInv, [Next]_vars
    PROVE  Ahead'
  <1>0. /\ TypeOK /\ Unmade /\ Provenance /\ Ahead /\ rx \in Seq(Fresh)
        /\ <<>> \in Seq(Fresh') /\ <<>> \in Seq(Fresh)
    BY EmptySeq DEF IInv, Ahead
  <1>1. ASSUME NEW m \in Calls, Accept(m) PROVE Ahead'
    <2>1. rx' = <<>>
      BY <1>1 DEF Accept, Silence
    <2>2. /\ HasAnswer(m) /\ calls \in Calls /\ calls' = calls
          /\ code' = [code EXCEPT ![calls] = Validate(asked[calls], Answer(asked[m], slave[m]))]
      BY <1>0, <1>1, AcceptedIsGiven DEF Accept, End
    <2>3. Validate(asked[calls], Answer(asked[m], slave[m])) # Pending
      BY <1>0, <2>2, FrameLenType, ReturnIsNotPending DEF Pending
    <2>4. ~Waiting'
      BY <1>0, <2>2, <2>3 DEF Waiting, TypeOK
    <2> QED
      BY <1>0, <2>1, <2>4 DEF Ahead
  <1>2. CASE ~\E m \in Calls : Accept(m)
    <2> DEFINE New == Fresh'
    <2>0. Fresh \subseteq New
      BY <1>2, FreshStays
    <2>1. rx \in Seq(New) /\ (Waiting => buf \in Seq(New))
      BY <1>0, <2>0, SeqMonotonic DEF Ahead
    <2> HIDE DEF New
    <2> SUFFICES rx' \in Seq(New) /\ (Waiting' => buf' \in Seq(New))
      BY DEF Ahead, New
    <2>2. ASSUME (\E works \in BOOLEAN : Open(works)) \/ Close
          PROVE  rx' \in Seq(New) /\ (Waiting' => buf' \in Seq(New))
      BY <1>0, <2>1, <2>2 DEF Open, Close, Idle, Waiting, callVars, New
    <2>3. ASSUME NEW r \in Requests, NEW heard \in BOOLEAN,
                 \/ CallRefused(r) \/ CallNotConnected(r) \/ CallSendFails(r)
                 \/ CallBroadcast(r)
          PROVE  rx' \in Seq(New) /\ (Waiting' => buf' \in Seq(New))
      <3>1. PICK c \in Int \ {Pending} : Begin(r, c)
        BY <2>3 DEF CallRefused, CallNotConnected, CallSendFails, CallBroadcast, Pending, Refusal,
                    MBE_TOO_MANY, MBE_ADDRESS_OVERFLOW, MBE_NOT_CONNECTED,
                    MBE_SEND_REQUEST_FAILED, MBE_TIMED_OUT
      <3>2. ~Waiting' /\ rx' = rx
        BY <1>0, <3>1, BeginTypes DEF Waiting, Begin
      <3> QED
        BY <2>1, <3>2
    <2>4. ASSUME NEW r \in Requests, NEW heard \in BOOLEAN, CallUnicast(r, heard)
          PROVE  rx' \in Seq(New) /\ (Waiting' => buf' \in Seq(New))
      BY <1>0, <2>1, <2>4 DEF CallUnicast, Begin, New
    <2>5. ASSUME ReadBytes PROVE rx' \in Seq(New) /\ (Waiting' => buf' \in Seq(New))
      <3> DEFINE room == MaxLen - Len(buf)
      <3>1. room \in Nat
        BY <1>0, LenProperties, RtuAssumption DEF TypeOK
      <3>2. Taken(rx, room) \in Seq(New) /\ Left(rx, room) \in Seq(New)
        BY <2>1, <3>1, ReadTakes
      <3>3. buf' = buf \o Taken(rx, room) /\ rx' = Left(rx, room) /\ Waiting
        BY <2>5 DEF ReadBytes
      <3> HIDE DEF room
      <3> QED
        BY <2>1, <3>2, <3>3, ConcatProperties
    <2>6. ASSUME Discard \/ DiscardFails
          PROVE  rx' \in Seq(New) /\ (Waiting' => buf' \in Seq(New))
      <3>1. buf' = <<>> /\ (rx' = rx \/ rx' = Left(rx, MaxLen))
        BY <2>6 DEF Discard, DiscardFails
      <3>2. Left(rx, MaxLen) \in Seq(New) /\ <<>> \in Seq(New)
        BY <2>1, ReadTakes, RtuAssumption, EmptySeq
      <3> QED
        BY <2>1, <3>1, <3>2
    <2>7. ASSUME \/ ReceiveFails \/ CrcFails \/ Expire
                 \/ \E m \in Calls : WrongDevice(m)
          PROVE  rx' \in Seq(New) /\ (Waiting' => buf' \in Seq(New))
      BY <2>1, <2>7 DEF ReceiveFails, CrcFails, Expire, WrongDevice, Silence, End
    <2>8. ASSUME NEW n \in Calls, NEW form \in {"normal", "exception", "silent"}, Serve(n, form)
          PROVE  rx' \in Seq(New) /\ (Waiting' => buf' \in Seq(New))
      BY <2>1, <2>8 DEF Serve, Waiting, callVars
    <2>9. ASSUME NEW n \in Calls, NEW k \in 1 .. FrameLen(n) - sent[n], Send(n, k)
          PROVE  rx' \in Seq(New) /\ (Waiting' => buf' \in Seq(New))
      <3>1. k \in Nat /\ sent[n] \in Nat /\ Talking(n)
        BY <1>0, <2>9, Ranges DEF Send
      <3> DEFINE part == [i \in 1 .. k |-> <<n, sent[n] + i>>]
      <3>2. HasAnswer(n)' /\ Later(n)'
        <4>1. Later(n)
          BY <3>1, TalkingIsLater
        <4> QED
          BY <2>9, <3>1, <4>1 DEF Send, Later, callVars, Talking, HasAnswer
      <3>3. sent'[n] = sent[n] + k
        BY <1>0, <2>9 DEF Send, TypeOK
      <3>4. \A i \in 1 .. k : <<n, sent[n] + i>> \in New
        BY <3>1, <3>2, <3>3 DEF New, Fresh, ByteOfAnswer, Calls
      <3>5. part \in Seq(New)
        BY <3>1, <3>4, IsASeq
      <3>6. rx \o part \in Seq(New)
        BY <2>1, <3>5, ConcatProperties
      <3>7. rx' \in {rx, rx \o part} /\ buf' = buf /\ Waiting' = Waiting
        BY <2>9 DEF Send, Waiting, callVars
      <3> QED
        BY <2>1, <3>6, <3>7
    <2>10. ASSUME NEW n \in Calls, SendGarbled(n)
           PROVE  rx' \in Seq(New) /\ (Waiting' => buf' \in Seq(New))
      <3>1. Garbled \in New
        BY DEF New, Fresh, ByteOfAnswer
      <3>2. Append(rx, Garbled) \in Seq(New)
        BY <2>1, <3>1, AppendProperties
      <3> QED
        BY <2>1, <2>10, <3>2 DEF SendGarbled, Waiting, callVars
    <2>11. CASE UNCHANGED vars
      BY <2>1, <2>11 DEF vars, Waiting
    <2> QED
      BY <1>2, <2>2, <2>3, <2>4, <2>5, <2>6, <2>7, <2>8, <2>9, <2>10, <2>11
      DEF Next, User, Loop, Faults, Slave
  <1> QED
    BY <1>1, <1>2

LEMMA NextNotYet ==
    ASSUME IInv, [Next]_vars
    PROVE  NotYet'
  <1>0. TypeOK /\ Unmade /\ Provenance /\ NotYet
    BY DEF IInv
  <1> SUFFICES ASSUME Waiting' PROVE re'[calls'] = 0
    BY DEF NotYet
  <1>1. CASE Begins
    <2>1. calls' = calls + 1 /\ calls + 1 \in Calls /\ re' = re
      BY <1>0, <1>1, BeginTypes DEF Begins, Begin
    <2> QED
      BY <1>0, <2>1, Ranges DEF Unmade
  <1>2. CASE Fails
    BY <1>0, <1>2, Ranges DEF Fails, NotYet, TypeOK
  <1>3. ASSUME NEW m \in Calls, Accept(m) PROVE FALSE
    <2>1. /\ HasAnswer(m) /\ calls \in Calls /\ calls' = calls
          /\ code' = [code EXCEPT ![calls] = Validate(asked[calls], Answer(asked[m], slave[m]))]
      BY <1>0, <1>3, AcceptedIsGiven DEF Accept, End
    <2>2. Validate(asked[calls], Answer(asked[m], slave[m])) # Pending
      BY <1>0, <2>1, FrameLenType, ReturnIsNotPending DEF Pending
    <2> QED
      BY <1>0, <2>1, <2>2 DEF Waiting, TypeOK
  <1>4. CASE \/ \E n \in Calls, form \in {"normal", "exception", "silent"} : Serve(n, form)
             \/ UNCHANGED <<callVars, slave>>
    BY <1>0, <1>4 DEF Serve, callVars, NotYet, Waiting
  <1> QED
    BY <1>0, <1>1, <1>2, <1>3, <1>4, Kinds

LEMMA NextAnswersInOrder ==
    ASSUME IInv, [Next]_vars
    PROVE  AnswersInOrder'
  <1>0. TypeOK /\ Unmade /\ Provenance /\ Ahead /\ AnswersInOrder
    BY DEF IInv
  <1> SUFFICES ASSUME NEW n \in 1 .. calls', NEW m \in 1 .. n - 1, re'[m] # 0, re'[n] # 0,
                      Addr(asked'[m].dev) = Addr(asked'[n].dev)
               PROVE  re'[m] < re'[n]
    BY DEF AnswersInOrder
  <1>1. n \in Calls /\ m \in Calls
    BY <1>0, RangesNext
  <1>2. CASE re'[n] = re[n] /\ re'[m] = re[m]
    <2>1. n \in 1 .. calls /\ m \in 1 .. calls
      BY <1>0, <1>1, <1>2, Ranges DEF Unmade
    <2>2. asked'[n] = asked[n] /\ asked'[m] = asked[m]
      BY <1>0, <2>1, Stable
    <2> QED
      BY <1>0, <1>2, <2>1, <2>2 DEF AnswersInOrder
  <1>3. ASSUME NEW a \in Calls, Accept(a) PROVE re'[m] < re'[n]
    <2>1. /\ re' = [re EXCEPT ![calls] = a] /\ UNCHANGED <<calls, asked>>
          /\ asked[calls].dev = Addr(asked[a].dev) /\ calls \in Calls
      BY <1>0, <1>3, AcceptedIsGiven DEF Accept, FromTarget, End
    <2>2. m # calls /\ re'[m] = re[m] /\ m \in 1 .. calls
      BY <1>0, <1>1, <2>1, Ranges DEF TypeOK
    <2>3. CASE n # calls
      BY <1>0, <1>1, <1>2, <2>1, <2>2, <2>3 DEF TypeOK
    <2>4. CASE n = calls
      <3>1. re'[n] = a
        BY <1>0, <2>1, <2>4 DEF TypeOK
      <3>2. asked[calls].dev \in Nat /\ asked[a].dev \in Nat
        BY <1>0, <2>1, FrameLenType, RequestParts
      <3>3. Addr(asked[m].dev) = Addr(asked[a].dev)
        BY <2>1, <2>4, <3>2, AddrTwice
      <3>4. Later(a)
        BY <1>0, <1>3, AcceptedIsFresh
      <3> QED
        BY <2>2, <3>1, <3>3, <3>4 DEF Later
    <2> QED
      BY <2>3, <2>4
  <1> QED
    BY <1>0, <1>1, <1>2, <1>3, NoneTaken

LEMMA Invariance == Spec => []IInv
  <1>1. IInv /\ [Next]_vars => IInv'
    BY NextTypes, NextUnmade, NextProvenance, NextAnswerFromTarget, NextReadOfThatShape,
       NextInTurn, NextConsumed, NextAhead, NextNotYet, NextAnswersInOrder DEF IInv
  <1> QED
    BY <1>1, InitInductive, PTL DEF Spec

(* On every line, however late, broken or noisy, an answer that a call     *)
(* takes was given by the slave it addresses to a call made no later       *)
(* (modbus_serial_rtu.cpp:79-92).                                          *)
THEOREM AcceptedAnswerIsFromTarget == Spec => []AnswerFromTarget
  BY Invariance, PTL DEF IInv

(* On every line, a read that returns 0 took the normal answer to a read   *)
(* of as many registers (modbus.cpp:93-104), a stale one perhaps, but      *)
(* never the answer to a write.                                            *)
THEOREM SuccessfulReadHasItsShape == Spec => []ReadOfThatShape
  BY Invariance, PTL DEF IInv

(* On every line, no answer serves two calls and the answers of a slave    *)
(* are taken in the order of the requests, though nothing in a frame says  *)
(* which request it answers (modbus_serial_rtu.cpp:79-92): what a slave    *)
(* sends after an answer was taken is the answer to a later request.       *)
THEOREM AnswersKeepTheirOrder == Spec => []AnswersInOrder
  BY Invariance, PTL DEF IInv

----------------------------------------------------------------------------
(* A line that can be relied upon: what one call brings about is over when *)
(* the call returns.                                                       *)

(* The slave is done with call n, or owes nothing for it.                  *)
Settled(n) == ~Talking(n) /\ (slave[n] = "heard" => Broadcast(asked[n]))

OfThisCall == {b \in ByteOfAnswer : b = Garbled \/ b[1] = calls}

Quiet ==
    /\ \A n \in Calls : Settled(n) \/ (Waiting /\ n = calls)
    /\ Idle => rx = <<>>
    /\ Waiting =>
          /\ rx \in Seq(OfThisCall) /\ buf \in Seq(OfThisCall)
          /\ (rx # <<>> \/ buf # <<>>) => HasAnswer(calls) /\ sent[calls] > 0

(* 1.7 ms of silence come when the whole answer has been sent.             *)
LEMMA SilenceSettles ==
    ASSUME IInv, Quiet, Reliable, Silence
    PROVE  rx = <<>> /\ \A n \in Calls : Settled(n)
  <1>1. Waiting /\ rx = <<>> /\ Len(buf) > 3 /\ ~MidFrame
    BY DEF Silence, Reliable
  <1>2. buf # <<>>
    BY <1>1, EmptySeq
  <1>3. HasAnswer(calls) /\ sent[calls] > 0 /\ calls \in Calls
    BY <1>1, <1>2, Ranges DEF Quiet, IInv
  <1>4. Settled(calls)
    BY <1>1, <1>3 DEF MidFrame, Settled, HasAnswer
  <1> QED
    BY <1>1, <1>4 DEF Quiet

(* Every step that ends a call leaves the line settled.                    *)
LEMMA EndSettles ==
    ASSUME IInv, Quiet, Reliable,
           CrcFails \/ Expire \/ \E m \in Calls : WrongDevice(m) \/ Accept(m)
    PROVE  Quiet'
  <1>0. TypeOK /\ Unmade /\ Provenance
    BY DEF IInv
  <1>1. rx = <<>> /\ \A n \in Calls : Settled(n)
    <2>1. CASE Expire
      BY <2>1 DEF Expire, Reliable, Owed, Settled
    <2> QED
      BY <2>1, SilenceSettles DEF CrcFails, WrongDevice, Accept
  <1>2. UNCHANGED <<rx, slave, sent, asked, calls>>
    BY DEF CrcFails, Expire, WrongDevice, Accept, End, slaveVars
  <1>3. ~Waiting'
    <2>1. Waiting /\ calls \in Calls
      BY <1>0, Ranges DEF CrcFails, Expire, WrongDevice, Accept, Silence
    <2>2. PICK c \in Int, m \in 0 .. MaxCalls : c # Pending /\ End(c, m)
      <3>1. ASSUME NEW m \in Calls, Accept(m)
            PROVE  \E c \in Int : c # Pending /\ End(c, m)
        <4>1. /\ Validate(asked[calls], Answer(asked[m], slave[m])) \in Int
              /\ Validate(asked[calls], Answer(asked[m], slave[m])) # Pending
          BY <1>0, <2>1, FrameLenType, ReturnIsInt, ReturnIsNotPending DEF Pending
        <4> QED
          BY <3>1, <4>1 DEF Accept
      <3>2. ASSUME CrcFails \/ Expire \/ \E m \in Calls : WrongDevice(m)
            PROVE  \E c \in Int : c # Pending /\ End(c, 0)
        BY <3>2 DEF CrcFails, Expire, WrongDevice, Pending, MBE_CRC_FAIL, MBE_TIMED_OUT,
                    MBE_UNEXPECTED_DEVICE_RESPONDED
      <3>3. 0 \in 0 .. MaxCalls /\ \A m \in Calls : m \in 0 .. MaxCalls
        BY RtuAssumption DEF Calls
      <3> QED
        BY <3>1, <3>2, <3>3
    <2> QED
      BY <1>0, <1>2, <2>1, <2>2 DEF End, Waiting, TypeOK
  <1>4. \A n \in Calls : Settled(n)'
    BY <1>1, <1>2 DEF Settled, Talking, HasAnswer, FrameLen
  <1> QED
    BY <1>1, <1>2, <1>3, <1>4 DEF Quiet, Calls

LEMMA NextQuiet ==
    ASSUME IInv, Quiet, Reliable, [Next]_vars
    PROVE  Quiet'
  <1>0. TypeOK /\ Unmade /\ <<>> \in Seq(OfThisCall) /\ <<>> \in Seq(OfThisCall')
    BY EmptySeq DEF IInv
  <1>1. ASSUME UNCHANGED <<calls, asked, code, slave, sent>>
        PROVE  /\ Waiting' = Waiting /\ OfThisCall' = OfThisCall
               /\ \A n \in Calls : Settled(n)' = Settled(n)
    BY <1>1 DEF Waiting, OfThisCall, ByteOfAnswer, Calls, Settled, Talking, HasAnswer, FrameLen
  <1>2. ASSUME (\E works \in BOOLEAN : Open(works)) \/ Close PROVE Quiet'
    BY <1>1, <1>2 DEF Open, Close, callVars, slaveVars, Quiet, Idle, Calls
  <1>3. ASSUME NEW r \in Requests, NEW c \in Int, Begin(r, c),
               \A n \in Calls : n # calls + 1 => slave'[n] = slave[n],
               c = Pending => buf' = <<>>,
               c # Pending => slave'[calls + 1] = "unheard" \/
                              (slave'[calls + 1] = "heard" /\ Broadcast(r))
        PROVE  Quiet'
    <2>1. /\ calls + 1 \in Calls /\ calls' = calls + 1 /\ code'[calls + 1] = c
          /\ asked' = [asked EXCEPT ![calls + 1] = r]
          /\ ~Waiting /\ rx = <<>> /\ rx' = rx /\ sent' = sent
      BY <1>0, <1>3, BeginTypes DEF Begin, Idle, Quiet
    <2>2. Waiting' <=> c = Pending
      BY <1>0, <2>1, Ranges DEF Waiting
    <2>3. \A n \in Calls : n # calls + 1 => Settled(n)'
      <3>1. \A n \in Calls : n # calls + 1 => asked'[n] = asked[n]
        BY <1>0, <2>1 DEF TypeOK
      <3> QED
        BY <1>3, <2>1, <3>1 DEF Quiet, Settled, Talking, HasAnswer, FrameLen
    <2>4. \A n \in Calls : (c # Pending /\ n = calls + 1) => Settled(n)'
      <3>1. asked'[calls + 1] = r
        BY <1>0, <2>1 DEF TypeOK
      <3> QED
        BY <1>3, <3>1 DEF Settled, Talking, HasAnswer
    <2>5. CASE c = Pending
      <3>1. rx' = <<>> /\ buf' = <<>> /\ Waiting'
        BY <1>3, <2>1, <2>2, <2>5
      <3>2. \A n \in Calls : Settled(n)' \/ (Waiting' /\ n = calls')
        BY <2>1, <2>3, <3>1
      <3> QED
        BY <1>0, <3>1, <3>2 DEF Quiet, Idle, Calls
    <2>6. CASE c # Pending
      <3>1. \A n \in Calls : Settled(n)'
        BY <2>3, <2>4, <2>6
      <3> QED
        BY <2>1, <2>2, <2>6, <3>1 DEF Quiet, Idle, Calls
    <2> QED
      BY <2>5, <2>6
  <1>4. ASSUME NEW r \in Requests, CallRefused(r) \/ CallNotConnected(r) \/ CallSendFails(r)
        PROVE  Quiet'
    <2>1. /\ \E c \in Int \ {Pending} : Begin(r, c)
          /\ slave' = slave
      BY <1>4 DEF CallRefused, CallNotConnected, CallSendFails, Pending, Refusal, MBE_TOO_MANY,
                  MBE_ADDRESS_OVERFLOW, MBE_NOT_CONNECTED, MBE_SEND_REQUEST_FAILED
    <2>2. slave[calls + 1] = "unheard"
      <3>1. calls + 1 \in Calls
        BY <1>0, <2>1, BeginTypes
      <3> QED
        BY <1>0, <3>1, Ranges DEF Unmade
    <2> QED
      BY <1>3, <2>1, <2>2
  <1>5. ASSUME NEW r \in Requests, CallBroadcast(r) PROVE Quiet'
    <2>1. Begin(r, MBE_TIMED_OUT) /\ MBE_TIMED_OUT \in Int \ {Pending} /\ Broadcast(r)
      BY <1>5 DEF CallBroadcast, MBE_TIMED_OUT, Pending
    <2>2. calls + 1 \in Calls
      BY <1>0, <2>1, BeginTypes
    <2>3. /\ slave'[calls + 1] = "heard"
          /\ \A n \in Calls : n # calls + 1 => slave'[n] = slave[n]
      BY <1>0, <1>5, <2>2 DEF CallBroadcast, TypeOK
    <2> QED
      BY <1>3, <2>1, <2>3
  <1>6. ASSUME NEW r \in Requests, NEW heard \in BOOLEAN, CallUnicast(r, heard) PROVE Quiet'
    <2>1. /\ Begin(r, Pending) /\ Pending \in Int /\ buf' = <<>>
          /\ \A n \in Calls : n # calls + 1 => slave'[n] = slave[n]
      BY <1>0, <1>6 DEF CallUnicast, Pending, TypeOK
    <2> QED
      BY <1>3, <2>1
  <1>7. ASSUME ReadBytes PROVE Quiet'
    <2> DEFINE room == MaxLen - Len(buf)
    <2>1. room \in Nat
      BY <1>0, LenProperties, RtuAssumption DEF TypeOK
    <2>2. Waiting /\ rx # <<>> /\ buf' = buf \o Taken(rx, room) /\ rx' = Left(rx, room)
      BY <1>7 DEF ReadBytes
    <2>3. /\ rx \in Seq(OfThisCall) /\ buf \in Seq(OfThisCall)
          /\ HasAnswer(calls) /\ sent[calls] > 0
      BY <2>2 DEF Quiet
    <2>4. Taken(rx, room) \in Seq(OfThisCall) /\ rx' \in Seq(OfThisCall)
      BY <2>1, <2>2, <2>3, ReadTakes
    <2> HIDE DEF room
    <2>5. buf' \in Seq(OfThisCall)
      BY <2>2, <2>3, <2>4, ConcatProperties
    <2>6. UNCHANGED <<calls, asked, code, slave, sent>>
      BY <1>7 DEF ReadBytes, callVars, slaveVars
    <2> QED
      BY <1>1, <2>2, <2>3, <2>4, <2>5, <2>6 DEF Quiet, Idle, HasAnswer, Calls
  <1>8. ASSUME Discard PROVE Quiet'
    <2>1. Waiting /\ rx # <<>> /\ buf' = <<>> /\ rx' = Left(rx, MaxLen)
      BY <1>8 DEF Discard
    <2>2. rx \in Seq(OfThisCall) /\ HasAnswer(calls) /\ sent[calls] > 0
      BY <2>1 DEF Quiet
    <2>3. rx' \in Seq(OfThisCall)
      BY <2>1, <2>2, ReadTakes, RtuAssumption
    <2>4. UNCHANGED <<calls, asked, code, slave, sent>>
      BY <1>8 DEF Discard, callVars, slaveVars
    <2> QED
      BY <1>0, <1>1, <2>1, <2>2, <2>3, <2>4 DEF Quiet, Idle, HasAnswer, Calls
  <1>9. ~Faults
    BY DEF Faults, DiscardFails, ReceiveFails, Reliable
  <1>10. ASSUME NEW n \in Calls, NEW form \in {"normal", "exception", "silent"}, Serve(n, form)
         PROVE  Quiet'
    <2>1. /\ slave[n] = "heard" /\ slave' = [slave EXCEPT ![n] = form]
          /\ form \in IF Broadcast(asked[n]) THEN {"silent"} ELSE {"normal", "exception"}
          /\ UNCHANGED <<calls, asked, code, sent, rx, buf>>
      BY <1>10 DEF Serve, callVars
    <2>2. /\ \A m \in Calls : m # n => slave'[m] = slave[m]
          /\ slave'[n] = form
      BY <1>0, <2>1 DEF TypeOK
    <2>3. Waiting' = Waiting /\ OfThisCall' = OfThisCall
      BY <2>1 DEF Waiting, OfThisCall, ByteOfAnswer, Calls
    <2>4. \A m \in Calls : m # n => (Settled(m)' <=> Settled(m))
      BY <2>1, <2>2 DEF Settled, Talking, HasAnswer, FrameLen
    <2>5. Settled(n)' \/ (Waiting /\ n = calls)
      BY <2>1, <2>2 DEF Quiet, Settled, Talking, HasAnswer
    <2>6. HasAnswer(calls) => HasAnswer(calls)'
      BY <1>0, <2>1, <2>2 DEF HasAnswer, TypeOK
    <2> QED
      BY <2>1, <2>3, <2>4, <2>5, <2>6 DEF Quiet, Idle, Calls
  <1>11. ASSUME NEW n \in Calls, NEW k \in Nat \ {0}, NEW part \in Seq(OfThisCall),
                Talking(n), sent' = [sent EXCEPT ![n] = @ + k],
                n = calls => part \in Seq(OfThisCall),
                rx' = rx \o part \/ rx' = rx,
                UNCHANGED <<isOpen, callVars, slave, buf>>
         PROVE  Quiet'
    <2>1. Waiting /\ n = calls
      BY <1>11 DEF Quiet, Settled
    <2>2. UNCHANGED <<calls, asked, code, slave, buf>>
      BY <1>11 DEF callVars
    <2>3. Waiting' = Waiting /\ OfThisCall' = OfThisCall
      BY <2>2 DEF Waiting, OfThisCall, ByteOfAnswer, Calls
    <2>4. rx \in Seq(OfThisCall) /\ buf \in Seq(OfThisCall)
      BY <2>1 DEF Quiet
    <2>5. rx' \in Seq(OfThisCall)
      BY <1>11, <2>4, ConcatProperties
    <2>6. /\ sent'[n] > 0
          /\ \A m \in Calls : m # n => sent'[m] = sent[m]
      BY <1>0, <1>11, Ranges DEF TypeOK
    <2>7. HasAnswer(n)
      BY <1>11 DEF Talking
    <2>8. \A m \in Calls : m # n => Settled(m)'
      BY <2>1, <2>2, <2>6 DEF Quiet, Settled, Talking, HasAnswer, FrameLen
    <2> QED
      BY <2>1, <2>2, <2>3, <2>4, <2>5, <2>6, <2>7, <2>8 DEF Quiet, Idle, HasAnswer, Calls
  <1>12. ASSUME NEW n \in Calls, NEW k \in 1 .. FrameLen(n) - sent[n], Send(n, k) PROVE Quiet'
    <2> DEFINE part == [i \in 1 .. k |-> <<n, sent[n] + i>>]
    <2>1. k \in Nat \ {0} /\ sent[n] \in Nat /\ Talking(n)
      BY <1>0, <1>12, Ranges DEF Send
    <2>2. n = calls
      BY <2>1 DEF Quiet, Settled
    <2>3. \A i \in 1 .. k : <<n, sent[n] + i>> \in OfThisCall
      BY <2>1, <2>2 DEF OfThisCall, ByteOfAnswer
    <2>4. part \in Seq(OfThisCall)
      BY <2>1, <2>3, IsASeq
    <2>5. /\ sent' = [sent EXCEPT ![n] = @ + k]
          /\ rx' = rx \o part \/ rx' = rx
          /\ UNCHANGED <<isOpen, callVars, slave, buf>>
      BY <1>12 DEF Send
    <2> HIDE DEF part
    <2> QED
      BY <1>11, <2>1, <2>4, <2>5
  <1>13. ASSUME NEW n \in Calls, SendGarbled(n) PROVE Quiet'
    <2>1. Garbled \in OfThisCall
      BY DEF OfThisCall, ByteOfAnswer
    <2>2. <<Garbled>> \in Seq(OfThisCall)
      BY <2>1
    <2>3. rx' = rx \o <<Garbled>>
      BY <1>0, <1>13, AppendIsConcat DEF SendGarbled, TypeOK
    <2>4. Talking(n) /\ 1 \in Nat \ {0}
      BY <1>13 DEF SendGarbled
    <2>5. sent' = [sent EXCEPT ![n] = @ + 1] /\ UNCHANGED <<isOpen, callVars, slave, buf>>
      BY <1>13 DEF SendGarbled
    <2> QED
      BY <1>11, <2>2, <2>3, <2>4, <2>5
  <1>14. CASE UNCHANGED vars
    BY <1>1, <1>14 DEF vars, Quiet, Idle, HasAnswer, Calls
  <1> QED
    BY <1>2, <1>4, <1>5, <1>6, <1>7, <1>8, <1>9, <1>10, <1>12, <1>13, <1>14, EndSettles
    DEF Next, User, Loop, Slave

(* On such a line the only answer there is to accept is the call's own.    *)
LEMMA AcceptedIsOwn ==
    ASSUME IInv, Quiet, NEW m \in Calls, Accept(m)
    PROVE  m = calls
  <1>1. Waiting /\ buf = Frame(m) /\ buf \in Seq(OfThisCall)
    BY DEF Accept, Silence, Whole, Quiet
  <1>2. FrameLen(m) \in Nat /\ 1 \in 1 .. FrameLen(m)
    BY FrameLenType, AnswerLength DEF FrameLen, IInv
  <1>3. Len(buf) = FrameLen(m) /\ buf[1] = <<m, 1>>
    BY <1>1, <1>2, LenProperties DEF Frame
  <1>4. buf[1] \in OfThisCall
    BY <1>1, <1>2, <1>3, ElementOfSeq
  <1> QED
    BY <1>3, <1>4 DEF OfThisCall, Garbled

LEMMA NextOwnAnswer ==
    ASSUME IInv, Quiet, OwnAnswer, [Next]_vars
    PROVE  OwnAnswer'
  <1>0. TypeOK /\ Unmade /\ Provenance
    BY DEF IInv
  <1> DEFINE Own(n) == re[n] \in {0, n} /\ (code[n] = 0 => slave[n] = "normal")
  <1> SUFFICES \A n \in 1 .. calls' : Own(n)'
    BY DEF OwnAnswer
  <1>1. ASSUME NEW n \in 1 .. calls, re'[n] \in {0, re[n]}, code'[n] \in {code[n]} \cup (Int \ {0})
        PROVE  Own(n)'
    <2>1. n \in Calls /\ Own(n)
      BY <1>0, Ranges DEF OwnAnswer
    <2>2. slave[n] = "normal" => slave'[n] = "normal"
      BY <1>0, <2>1, Stable DEF HasAnswer
    <2> QED
      BY <1>1, <2>1, <2>2
  <1>2. CASE Begins
    <2>1. PICK r \in Requests, c \in Int \ {0} : Begin(r, c)
      BY <1>2 DEF Begins
    <2>2. /\ calls' = calls + 1 /\ calls + 1 \in Calls /\ re' = re
          /\ code'[calls + 1] = c
      BY <1>0, <2>1, BeginTypes DEF Begin
    <2>5. \A n \in 1 .. calls : code'[n] = code[n]
      BY <1>0, <2>1, Ranges DEF Begin, TypeOK
    <2>3. \A n : n = calls + 1 => Own(n)'
      <3>1. re[calls + 1] = 0
        BY <1>0, <2>2, Ranges DEF Unmade
      <3>2. re'[calls + 1] = 0 /\ code'[calls + 1] # 0
        BY <2>2, <3>1
      <3> QED
        BY <3>2
    <2>4. \A n \in 1 .. calls' : n \in 1 .. calls \/ n = calls + 1
      BY <1>0, <2>2, Ranges
    <2> QED
      BY <1>1, <2>2, <2>3, <2>4, <2>5
  <1>3. CASE Fails
    <2>1. calls' = calls
      BY <1>3 DEF Fails
    <2>2. \A n \in 1 .. calls : /\ re'[n] \in {0, re[n]}
                               /\ code'[n] \in {code[n]} \cup (Int \ {0})
      BY <1>0, <1>3, Ranges DEF Fails, TypeOK
    <2> QED
      BY <1>1, <2>1, <2>2
  <1>4. ASSUME NEW m \in Calls, Accept(m) PROVE \A n \in 1 .. calls' : Own(n)'
    <2>1. m = calls /\ HasAnswer(m)
      BY <1>0, <1>4, AcceptedIsOwn, AcceptedIsGiven
    <2>2. /\ re' = [re EXCEPT ![calls] = m] /\ UNCHANGED <<calls, slave>>
          /\ code' = [code EXCEPT ![calls] = Validate(asked[calls], Answer(asked[m], slave[m]))]
      BY <1>4 DEF Accept, End, slaveVars
    <2>3. \A n \in 1 .. calls : n # calls => re'[n] = re[n] /\ code'[n] = code[n]
      BY <1>0, <2>2, Ranges DEF TypeOK
    <2>4. slave[m] = "exception" =>
              Validate(asked[calls], Answer(asked[m], slave[m])) = -2
      BY <1>0, <2>1, FrameLenType, ExceptionIsReported
    <2>5. Own(calls)'
      BY <1>0, <2>1, <2>2, <2>4 DEF HasAnswer, TypeOK
    <2> QED
      BY <1>1, <2>2, <2>3, <2>5
  <1>5. CASE \/ \E n \in Calls, form \in {"normal", "exception", "silent"} : Serve(n, form)
             \/ UNCHANGED <<callVars, slave>>
    <2>1. UNCHANGED <<calls, re, code>>
      BY <1>5 DEF Serve, callVars
    <2> QED
      BY <1>1, <2>1
  <1> QED
    BY <1>0, <1>2, <1>3, <1>4, <1>5, Kinds

LEMMA QuietInvariance == Reliable => (Spec => [](Quiet /\ OwnAnswer))
  <1> SUFFICES ASSUME Reliable PROVE Spec => [](Quiet /\ OwnAnswer)
    OBVIOUS
  <1>1. Init => Quiet /\ OwnAnswer
    <2> SUFFICES ASSUME Init PROVE Quiet /\ OwnAnswer
      OBVIOUS
    <2>1. calls = 0 /\ rx = <<>> /\ ~Waiting
      BY DEF Init, Waiting
    <2>2. \A n \in Calls : Settled(n)
      BY DEF Init, Settled, Talking, HasAnswer
    <2> QED
      BY <2>1, <2>2 DEF Quiet, OwnAnswer
  <1>2. IInv /\ Quiet /\ OwnAnswer /\ [Next]_vars => (Quiet /\ OwnAnswer)'
    BY NextQuiet, NextOwnAnswer
  <1> QED
    BY <1>1, <1>2, Invariance, PTL DEF Spec

(* On a line whose slaves answer within the deadline and without pauses,   *)
(* with noise and with slaves that hear nothing: a call takes its own      *)
(* answer or none, and what it reports as done is done                     *)
(* (modbus_serial_rtu.cpp:54-92).                                          *)
THEOREM ReliableLineAnswersOwn == Reliable => (Spec => []OwnAnswer)
  BY QuietInvariance, PTL

----------------------------------------------------------------------------
(* The bus implements the promise of ModbusTransport.                      *)

Answered == {n \in Calls : HasAnswer(n)}

LEMMA InitPromise == Init => Promise!Init
  <1> SUFFICES ASSUME Init PROVE Promise!Init
    OBVIOUS
  <1>1. calls = 0 /\ re = [n \in Calls |-> 0] /\ asked \in [Calls -> Requests]
    BY InitTypes DEF Init, TypeOK
  <1>2. Answered = {}
    BY DEF Init, Answered, HasAnswer
  <1>3. Waiting = FALSE
    BY DEF Init, Waiting
  <1> QED
    BY <1>1, <1>2, <1>3 DEF Promise!Init, Promise!Calls, Calls, Answered

(* The value of Waiting is a truth value, before a step and after.         *)
LEMMA WaitingIsBoolean == Waiting \in BOOLEAN /\ Waiting' \in BOOLEAN
  BY DEF Waiting

LEMMA NextPromise ==
    ASSUME IInv, Reliable => Quiet, [Next]_vars
    PROVE  [Promise!Next]_(Promise!vars)
  <1>0. TypeOK /\ Unmade /\ Provenance /\ Ahead /\ NotYet
    BY DEF IInv
  <1>1. ASSUME UNCHANGED <<callVars, slave>> PROVE UNCHANGED Promise!vars
    BY <1>1 DEF callVars, Promise!vars, HasAnswer, Waiting, Calls
  <1>2. CASE Begins
    <2>1. PICK r \in Requests, c \in Int \ {0} : Begin(r, c)
      BY <1>2 DEF Begins
    <2>2. /\ Idle /\ calls < MaxCalls /\ asked' = [asked EXCEPT ![calls + 1] = r]
          /\ calls' = calls + 1 /\ UNCHANGED re
      BY <2>1 DEF Begin
    <2>3. \A n \in Calls : HasAnswer(n)' <=> HasAnswer(n)
      <3>1. \A n, form : ~Serve(n, form)
        BY <1>0, <2>2, Ranges DEF Serve, callVars
      <3> QED
        BY <1>0, <3>1, Answerers, Stable DEF HasAnswer
    <2>4. Answered' = Answered
      BY <2>3 DEF Answered, Calls
    <2>5. ASSUME NEW wait \in BOOLEAN, Waiting' = wait PROVE Promise!Ask(r, wait)
      BY <2>2, <2>4, <2>5 DEF Promise!Ask, Answered, Idle
    <2> QED
      BY <2>5, WaitingIsBoolean DEF Promise!Next
  <1>3. CASE Fails
    <2>1. PICK c \in Int \ {0, Pending} : code' = [code EXCEPT ![calls] = c]
      BY <1>3 DEF Fails
    <2>2. Waiting /\ UNCHANGED <<calls, asked, slave>>
      BY <1>3 DEF Fails
    <2>3. re' = re
      BY <1>0, <1>3, <2>2, Ranges DEF Fails, NotYet, TypeOK
    <2>4. ~Waiting'
      BY <1>0, <2>1, <2>2, Ranges DEF Waiting, TypeOK
    <2>5. Answered' = Answered
      BY <2>2 DEF Answered, HasAnswer, Calls
    <2> QED
      BY <2>2, <2>3, <2>4, <2>5 DEF Promise!Next, Promise!Fail, Answered
  <1>4. ASSUME NEW m \in Calls, Accept(m) PROVE Promise!Next
    <2>1. HasAnswer(m) /\ m \in 1 .. calls /\ Waiting /\ calls \in Calls
      BY <1>0, <1>4, AcceptedIsGiven
    <2>2. UNCHANGED <<calls, asked, slave>> /\ re' = [re EXCEPT ![calls] = m]
      BY <1>4 DEF Accept, End, slaveVars
    <2>3. ~Waiting'
      <3>1. code' = [code EXCEPT ![calls] = Validate(asked[calls], Answer(asked[m], slave[m]))]
        BY <1>4 DEF Accept, End
      <3>2. Validate(asked[calls], Answer(asked[m], slave[m])) # Pending
        BY <1>0, <2>1, FrameLenType, ReturnIsNotPending DEF Pending
      <3> QED
        BY <1>0, <2>1, <2>2, <3>1, <3>2 DEF Waiting, TypeOK
    <2>4. Answered' = Answered /\ m \in Answered
      BY <2>1, <2>2 DEF Answered, HasAnswer, Calls
    <2>5. \A k \in 1 .. calls : Addr(asked[k].dev) = Addr(asked[m].dev) => re[k] < m
      <3>1. Later(m)
        BY <1>0, <1>4, AcceptedIsFresh
      <3>2. 0 < m
        BY <2>1
      <3> QED
        BY <3>1, <3>2 DEF Later
    <2>6. Addr(asked[m].dev) = Addr(asked[calls].dev)
      <3>1. asked[m].dev \in Nat /\ asked[calls].dev \in Nat
        BY <1>0, <2>1, FrameLenType, RequestParts
      <3>2. Addr(asked[m].dev) = asked[calls].dev
        BY <1>4 DEF Accept, FromTarget
      <3> QED
        BY <3>1, <3>2, AddrTwice
    <2>7. Reliable => m = calls
      BY <1>4, AcceptedIsOwn
    <2>8. Promise!MayUse(m)
      BY <2>4, <2>5, <2>6, <2>7 DEF Promise!MayUse, Promise!Addr, Addr, Answered
    <2>9. Waiting' = FALSE
      BY <2>3, WaitingIsBoolean
    <2>10. Promise!Return(m)
      BY <2>1, <2>2, <2>4, <2>8, <2>9 DEF Promise!Return, Answered
    <2> QED
      BY <2>10 DEF Promise!Next, Promise!Calls, Calls
  <1>5. ASSUME NEW n \in Calls, NEW form \in {"normal", "exception", "silent"}, Serve(n, form)
        PROVE  Promise!Next \/ UNCHANGED Promise!vars
    <2>1. /\ UNCHANGED <<calls, asked, re, code>> /\ slave[n] = "heard"
          /\ slave' = [slave EXCEPT ![n] = form]
      BY <1>5 DEF Serve, callVars
    <2>2. \A m \in Calls : m # n => slave'[m] = slave[m]
      BY <1>0, <2>1 DEF TypeOK
    <2>3. slave'[n] = form
      BY <1>0, <2>1 DEF TypeOK
    <2>4. n <= calls
      BY <1>0, <2>1, Ranges DEF Unmade
    <2>5. Waiting' = Waiting
      BY <2>1 DEF Waiting
    <2>6. CASE form = "silent"
      <3>1. Answered' = Answered
        BY <2>1, <2>2, <2>3, <2>6 DEF Answered, HasAnswer, Calls
      <3> QED
        BY <2>1, <2>5, <3>1 DEF Promise!vars, Answered
    <2>7. CASE form # "silent"
      <3>1. Answered' = Answered \cup {n}
        BY <2>1, <2>2, <2>3, <2>7 DEF Answered, HasAnswer, Calls
      <3> QED
        BY <2>1, <2>4, <2>5, <3>1 DEF Promise!Next, Promise!DeviceAnswers, Promise!Calls, Calls, Answered
    <2> QED
      BY <2>6, <2>7
  <1> QED
    BY <1>0, <1>1, <1>2, <1>3, <1>4, <1>5, Kinds

(* rtu_serial_bus::transaction keeps the promise of bus::transaction       *)
(* (modbus.h:73-77) on every line: an answer is used once, for a call to   *)
(* the slave that gave it, in the order of the requests; and on a line     *)
(* that can be relied upon it is used for the call it answers.             *)
THEOREM RtuKeepsPromise == Spec => KeepsPromise
  <1>1. CASE Reliable
    <2>1. IInv /\ Quiet /\ [Next]_vars => [Promise!Next]_(Promise!vars)
      BY NextPromise
    <2>2. Spec => []Quiet
      BY <1>1, QuietInvariance, PTL
    <2> QED
      BY <2>1, <2>2, InitPromise, Invariance, PTL DEF Spec, KeepsPromise, Promise!Spec
  <1>2. CASE ~Reliable
    <2>1. IInv /\ [Next]_vars => [Promise!Next]_(Promise!vars)
      BY <1>2, NextPromise
    <2> QED
      BY <2>1, InitPromise, Invariance, PTL DEF Spec, KeepsPromise, Promise!Spec
  <1> QED
    BY <1>1, <1>2
=============================================================================
