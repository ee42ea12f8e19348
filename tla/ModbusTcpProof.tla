--------------------------- MODULE ModbusTcpProof ---------------------------
(***************************************************************************)
(* What holds for every TCP connection and every server, however slow or   *)
(* broken: the types, and that while the transaction numbers suffice a     *)
(* call takes its own answer or none.  TLC checks the same on the small    *)
(* connections of MCModbusTcp.                                             *)
(***************************************************************************)
EXTENDS ModbusTcp, ModbusLemmas

----------------------------------------------------------------------------
(* A counter of m values tells numbers apart that differ by less than m.   *)
LEMMA Unwrapped ==
    ASSUME NEW m \in Nat \ {0}, NEW a \in 1 .. m, NEW b \in 1 .. m, a % m = b % m
    PROVE  a = b
  <1>1. \A i \in 1 .. m : i # m => i % m = i
    OBVIOUS
  <1>2. m % m = 0
    OBVIOUS
  <1> QED
    BY <1>1, <1>2

----------------------------------------------------------------------------
(* The types.                                                              *)

LEMMA FrameLenType ==
    ASSUME TypeOK, NEW n \in Calls
    PROVE  asked[n] \in Request /\ FrameLen(n) \in Nat /\ FrameLen(n) > 7
  <1>1. asked[n] \in Request
    BY TcpAssumption DEF TypeOK
  <1>2. AnswerOf(n).len \in Nat \ {0, 1}
    BY <1>1, AnswerLength DEF AnswerOf
  <1> QED
    BY <1>1, <1>2 DEF FrameLen

LEMMA InitTypes == Init => TypeOK
  <1> SUFFICES ASSUME Init PROVE TypeOK
    OBVIOUS
  <1>1. (CHOOSE r \in Requests : TRUE) \in Requests
    BY TcpAssumption
  <1>2. asked \in [Calls -> Requests]
    BY <1>1 DEF Init
  <1>3. rx \in Seq(ByteOfAnswer) /\ buf \in Seq(ByteOfAnswer) /\ Len(buf) <= MaxLen
    <2>1. <<>> \in Seq(ByteOfAnswer) /\ Len(<<>>) = 0
      BY EmptySeq
    <2> QED
      BY <2>1, TcpAssumption DEF Init
  <1>4. isOpen \in BOOLEAN /\ stuck \in BOOLEAN /\ peer \in {"up", "fin", "dead"}
    BY Zenon DEF Init
  <1>5. calls \in 0 .. MaxCalls /\ transId \in 0 .. calls /\ conn \in 0 .. MaxConns
    <2>1. calls = 0 /\ transId = 0 /\ conn = 0
      BY Zenon DEF Init
    <2> QED
      BY <2>1, TcpAssumption
  <1>6. /\ id \in [Calls -> Nat] /\ on \in [Calls -> 0 .. MaxConns]
        /\ code \in [Calls -> Int] /\ re \in [Calls -> 0 .. MaxCalls]
        /\ sent \in [Calls -> Nat]
        /\ server \in [Calls -> {"unheard", "heard", "normal", "exception", "alien", "silent"}]
    BY TcpAssumption DEF Init
  <1>7. ~Waiting
    BY DEF Init, Waiting
  <1> QED
    BY <1>2, <1>3, <1>4, <1>5, <1>6, <1>7 DEF TypeOK

(* A call begins: everything but the server, the peer and the buffer.      *)
CallTypes ==
    /\ isOpen \in BOOLEAN /\ conn \in 0 .. MaxConns /\ stuck \in BOOLEAN
    /\ calls \in 0 .. MaxCalls /\ transId \in 0 .. calls
    /\ asked \in [Calls -> Requests]
    /\ id \in [Calls -> Nat] /\ on \in [Calls -> 0 .. MaxConns]
    /\ code \in [Calls -> Int] /\ re \in [Calls -> 0 .. MaxCalls]
    /\ sent \in [Calls -> Nat] /\ rx \in Seq(ByteOfAnswer)

LEMMA BeginTypes ==
    ASSUME TypeOK, NEW r \in Requests, NEW c \in Int, NEW i \in {transId, transId + 1},
           Begin(r, c, i)
    PROVE  /\ CallTypes'
           /\ calls + 1 \in Calls /\ calls' = calls + 1
           /\ isOpen' = isOpen /\ code'[calls + 1] = c
  <1>1. calls + 1 \in Calls /\ calls + 1 \in 0 .. MaxCalls
    BY TcpAssumption DEF Begin, TypeOK, Calls
  <1>2. i \in Nat /\ i <= calls + 1
    BY DEF TypeOK
  <1>3. transId' \in 0 .. calls' /\ calls' \in 0 .. MaxCalls /\ calls' = calls + 1
    BY <1>1, <1>2 DEF Begin
  <1>4. /\ id' = [id EXCEPT ![calls + 1] = i] /\ on' = [on EXCEPT ![calls + 1] = conn]
        /\ asked' = [asked EXCEPT ![calls + 1] = r] /\ code' = [code EXCEPT ![calls + 1] = c]
        /\ UNCHANGED <<isOpen, conn, re, sent, rx, stuck>>
    BY DEF Begin
  <1>5. /\ asked' \in [Calls -> Requests]
        /\ id' \in [Calls -> Nat] /\ on' \in [Calls -> 0 .. MaxConns]
        /\ code' \in [Calls -> Int] /\ code'[calls + 1] = c
    BY <1>1, <1>2, <1>4 DEF TypeOK
  <1>6. /\ isOpen' \in BOOLEAN /\ conn' \in 0 .. MaxConns /\ stuck' \in BOOLEAN
        /\ re' \in [Calls -> 0 .. MaxCalls] /\ sent' \in [Calls -> Nat]
        /\ rx' \in Seq(ByteOfAnswer)
    BY <1>4 DEF TypeOK
  <1> QED
    BY <1>1, <1>3, <1>4, <1>5, <1>6 DEF CallTypes, ByteOfAnswer, Calls

(* A call ends.                                                            *)
LEMMA EndTypes ==
    ASSUME TypeOK, Waiting, NEW c \in Int, NEW m \in 0 .. MaxCalls, End(c, m),
           UNCHANGED rx
    PROVE  TypeOK'
  <1>1. code' \in [Calls -> Int] /\ re' \in [Calls -> 0 .. MaxCalls]
    BY DEF End, TypeOK
  <1>2. isOpen' = isOpen /\ isOpen
    BY DEF End, TypeOK, linkVars
  <1> QED
    BY <1>1, <1>2 DEF End, TypeOK, linkVars, serverVars, ByteOfAnswer, Calls

(* The link changes: everything but the bytes on it.                       *)
LEMMA LinkTypes ==
    ASSUME TypeOK, Idle, UNCHANGED <<callVars, serverVars, buf, stuck>>,
           transId' \in {0, transId}, rx' = <<>>,
           NoLink \/ NewLink("up") \/ NewLink("dead")
    PROVE  TypeOK'
  <1>1. <<>> \in Seq(ByteOfAnswer)
    BY EmptySeq
  <1>2. ~Waiting'
    BY DEF Idle, Waiting, callVars
  <1>3. isOpen' \in BOOLEAN /\ peer' \in {"up", "fin", "dead"} /\ conn' \in 0 .. MaxConns
    <2>1. isOpen' \in BOOLEAN /\ peer' \in {"up", "fin", "dead"}
      BY Zenon DEF NoLink, NewLink
    <2>2. conn' = conn \/ (conn < MaxConns /\ conn' = conn + 1)
      BY DEF NoLink, NewLink
    <2>3. conn' \in 0 .. MaxConns
      BY <2>2, TcpAssumption DEF TypeOK
    <2> QED
      BY <2>1, <2>3
  <1>4. transId' \in 0 .. calls'
    BY DEF TypeOK, callVars
  <1> QED
    BY <1>1, <1>2, <1>3, <1>4 DEF TypeOK, callVars, serverVars, ByteOfAnswer, Calls

(* What a step does to the calls and the link: it changes the link, begins *)
(* a call that fails at once or one that waits, fails a call, ends one     *)
(* with an answer, has the server take one up, or leaves them alone.       *)
Links ==
    /\ Idle /\ UNCHANGED <<callVars, serverVars, buf, stuck>>
    /\ transId' \in {0, transId} /\ rx' = <<>>
    /\ NoLink \/ NewLink("up") \/ NewLink("dead")

Refuses ==
    /\ \E r \in Requests, c \in Int \ {0, Pending, MBE_BAD_TRANSACTION_ID},
          i \in {transId, transId + 1} : Begin(r, c, i)
    /\ UNCHANGED <<peer, server, buf>>

Fails ==
    /\ Waiting
    /\ \E c \in Int \ {0, Pending} :
          /\ code' = [code EXCEPT ![calls] = c]
          /\ c = MBE_BAD_TRANSACTION_ID => \E m \in Calls : WrongId(m)
    /\ re' = re \/ re' = [re EXCEPT ![calls] = 0]
    /\ stuck' \in BOOLEAN
    /\ UNCHANGED <<linkVars, transId, calls, asked, id, on, serverVars, rx, buf>>

LEMMA Kinds ==
    ASSUME TypeOK, Next
    PROVE  \/ Links
           \/ Refuses
           \/ \E r \in Requests : CallSent(r)
           \/ Fails
           \/ \E m \in Calls : Accept(m)
           \/ ReadStart \/ ReadMiddle \/ ReadMore
           \/ \E n \in Calls, form \in {"normal", "exception", "alien", "silent"} : Serve(n, form)
           \/ \E n \in Calls : \E k \in 1 .. FrameLen(n) - sent[n] : Send(n, k)
           \/ PeerCloses
  <1>1. ASSUME NEW outcome \in {"fails", "up", "refused"}, Connect(outcome) PROVE Links
    <2>1. NoLink \/ NewLink("up") \/ NewLink("dead")
      BY <1>1 DEF Connect
    <2> QED
      BY <1>1, <2>1 DEF Connect, Links
  <1>2. ASSUME NEW outcome \in {"fails", "up", "refused"}, Reconnect(outcome) PROVE Links
    <2>1. NoLink \/ NewLink("up") \/ NewLink("dead")
      BY <1>2 DEF Reconnect
    <2> QED
      BY <1>2, <2>1 DEF Reconnect, Links
  <1>3. ASSUME Close PROVE Links
    BY <1>3 DEF Close, Links
  <1>4. ASSUME NEW r \in Requests,
               CallRefused(r) \/ CallNotConnected(r) \/ CallSendFails(r)
        PROVE  Refuses
    <2>1. Refusal(r) \in Int \ {Pending, MBE_BAD_TRANSACTION_ID}
      BY DEF Refusal, MBE_TOO_MANY, MBE_ADDRESS_OVERFLOW, Pending, MBE_BAD_TRANSACTION_ID
    <2>2. \E c \in Int \ {0, Pending, MBE_BAD_TRANSACTION_ID}, i \in {transId, transId + 1} :
              Begin(r, c, i)
      BY <1>4, <2>1 DEF CallRefused, CallNotConnected, CallSendFails, MBE_NOT_CONNECTED,
                        MBE_SEND_REQUEST_FAILED, MBE_BAD_TRANSACTION_ID, Pending
    <2> QED
      BY <1>4, <2>2 DEF CallRefused, CallNotConnected, CallSendFails, Refuses
  <1>5. ASSUME \/ ReadFails \/ ReceiveFails \/ SelectExpires \/ ClockExpires
               \/ \E m \in Calls : WrongDevice(m) \/ WrongId(m) \/ WrongProtocol(m)
        PROVE  Fails
    <2>1. PICK c \in Int \ {0, Pending} :
              /\ Waiting /\ End(c, 0) /\ UNCHANGED rx
              /\ c = MBE_BAD_TRANSACTION_ID => \E m \in Calls : WrongId(m)
      BY <1>5 DEF ReadFails, ReceiveFails, SelectExpires, ClockExpires, WrongDevice, WrongId, WrongProtocol,
                  Receiving, Finished, Pending, MBE_RECEIVE_FAILED, MBE_TIMED_OUT,
                  MBE_UNEXPECTED_DEVICE_RESPONDED, MBE_BAD_TRANSACTION_ID, MBE_BAD_PROTOCOL_ID
    <2>2. stuck' \in BOOLEAN
      BY <2>1 DEF End, TypeOK
    <2> QED
      BY <2>1, <2>2 DEF End, Fails
  <1>6. ASSUME SearchWraps PROVE Fails
    <2>1. stuck' \in BOOLEAN
      BY <1>6, Zenon DEF SearchWraps
    <2>2. MBE_RECEIVE_FAILED \in Int \ {0, Pending, MBE_BAD_TRANSACTION_ID}
      BY DEF Pending, MBE_RECEIVE_FAILED, MBE_BAD_TRANSACTION_ID
    <2> QED
      BY <1>6, <2>1, <2>2 DEF SearchWraps, Fails
  <1> QED
    BY <1>1, <1>2, <1>3, <1>4, <1>5, <1>6 DEF Next, User, Loop, Server

(* Every step keeps the types.                                             *)
LEMMA NextTypes == TypeOK /\ [Next]_vars => TypeOK'
  <1> SUFFICES ASSUME TypeOK, [Next]_vars PROVE TypeOK'
    OBVIOUS
  <1> DEFINE Forms == {"unheard", "heard", "normal", "exception", "alien", "silent"}
  <1>1. CASE Links
    BY <1>1, LinkTypes DEF Links
  <1>2. CASE Refuses
    <2>1. PICK r \in Requests, c \in Int \ {0, Pending}, i \in {transId, transId + 1} :
              Begin(r, c, i)
      BY <1>2 DEF Refuses
    <2>2. ~Waiting'
      BY <2>1, BeginTypes DEF Waiting
    <2>3. UNCHANGED <<peer, server, buf>>
      BY <1>2 DEF Refuses
    <2>4. CallTypes'
      BY <2>1, BeginTypes
    <2> QED
      BY <2>2, <2>3, <2>4 DEF CallTypes, TypeOK, ByteOfAnswer, Calls
  <1>3. ASSUME NEW r \in Requests, CallSent(r) PROVE TypeOK'
    <2>1. Begin(r, Pending, transId + 1) /\ Pending \in Int
      BY <1>3 DEF CallSent, Pending
    <2>2. server' \in [Calls -> Forms] /\ peer' \in {"up", "fin", "dead"}
      BY <1>3 DEF CallSent, TypeOK
    <2>3. buf' \in Seq(ByteOfAnswer) /\ Len(buf') <= MaxLen
      BY <1>3, EmptySeq, TcpAssumption DEF CallSent
    <2>4. CallTypes' /\ isOpen'
      BY <1>3, <2>1, BeginTypes DEF CallSent
    <2> QED
      BY <2>2, <2>3, <2>4 DEF CallTypes, TypeOK, ByteOfAnswer, Calls
  <1>4. CASE Fails
    <2>1. code' \in [Calls -> Int]
      BY <1>4 DEF Fails, TypeOK
    <2>2. re' \in [Calls -> 0 .. MaxCalls]
      BY <1>4, TcpAssumption DEF Fails, TypeOK
    <2>3. isOpen /\ stuck' \in BOOLEAN
      BY <1>4 DEF Fails, TypeOK
    <2>4. UNCHANGED <<isOpen, peer, conn, transId, calls, asked, id, on, server, sent, rx, buf>>
      BY <1>4 DEF Fails, linkVars, serverVars
    <2> QED
      BY <2>1, <2>2, <2>3, <2>4 DEF TypeOK, ByteOfAnswer, Calls
  <1>5. ASSUME NEW m \in Calls, Accept(m) PROVE TypeOK'
    <2>1. Waiting /\ UNCHANGED rx /\ End(Validate(asked[calls], AnswerOf(m)), m)
      BY <1>5 DEF Accept, Finished
    <2>2. calls \in Calls
      BY <2>1, TcpAssumption DEF Waiting, TypeOK, Calls
    <2>3. Validate(asked[calls], AnswerOf(m)) \in Int
      BY <2>2, FrameLenType, ReturnIsInt DEF AnswerOf
    <2>4. m \in 0 .. MaxCalls
      BY DEF Calls
    <2> QED
      BY <2>1, <2>3, <2>4, EndTypes
  <1>6. CASE ReadStart \/ ReadMiddle \/ ReadMore
    <2>1. UNCHANGED <<linkVars, transId, callVars, serverVars>> /\ stuck' \in BOOLEAN
      BY <1>6 DEF ReadStart, ReadMiddle, ReadMore, TypeOK
    <2>2. Waiting' => isOpen'
      BY <2>1 DEF TypeOK, Waiting, callVars, linkVars
    <2>3. CASE ReadStart
      <3>1. rx' \in Seq(ByteOfAnswer) /\ buf' \in Seq(ByteOfAnswer) /\ Len(buf') <= MaxLen
        BY <2>3, ReadTakes, TcpAssumption DEF ReadStart, TypeOK
      <3> QED
        BY <2>1, <2>2, <3>1 DEF TypeOK, callVars, linkVars, serverVars, ByteOfAnswer, Calls
    <2>4. CASE ReadMiddle
      <3>1. rx' \in Seq(ByteOfAnswer) /\ buf' = buf
        BY <2>4, ReadTakes, TcpAssumption DEF ReadMiddle, TypeOK
      <3> QED
        BY <2>1, <2>2, <3>1 DEF TypeOK, callVars, linkVars, serverVars, ByteOfAnswer, Calls
    <2>5. CASE ReadMore
      <3> DEFINE room == MaxLen - Len(buf)
                 part == Taken(rx, room)
      <3>1. room \in Nat /\ Len(buf) \in Nat
        BY LenProperties, TcpAssumption DEF TypeOK
      <3>2. part \in Seq(ByteOfAnswer) /\ Len(part) \in Nat /\ Len(part) <= room
        BY <3>1, ReadTakes DEF TypeOK
      <3>3. rx' \in Seq(ByteOfAnswer)
        BY <2>5, <3>1, ReadTakes DEF ReadMore, TypeOK
      <3>4. buf' = buf \o part
        BY <2>5 DEF ReadMore
      <3> HIDE DEF part
      <3>5. buf' \in Seq(ByteOfAnswer) /\ Len(buf') = Len(buf) + Len(part)
        BY <3>2, <3>4, ConcatProperties DEF TypeOK
      <3>6. Len(buf') <= MaxLen
        BY <3>1, <3>2, <3>5, TcpAssumption
      <3> QED
        BY <2>1, <2>2, <3>3, <3>5, <3>6
        DEF TypeOK, callVars, linkVars, serverVars, ByteOfAnswer, Calls
    <2> QED
      BY <1>6, <2>3, <2>4, <2>5
  <1>7. ASSUME NEW n \in Calls, NEW form \in {"normal", "exception", "alien", "silent"},
               Serve(n, form)
        PROVE  TypeOK'
    <2>1. server' \in [Calls -> Forms]
      BY <1>7 DEF Serve, TypeOK
    <2>2. Waiting' => isOpen'
      BY <1>7 DEF Serve, TypeOK, Waiting, callVars, linkVars
    <2> QED
      BY <1>7, <2>1, <2>2 DEF Serve, TypeOK, callVars, linkVars, ByteOfAnswer, Calls
  <1>8. ASSUME NEW n \in Calls, NEW k \in 1 .. FrameLen(n) - sent[n], Send(n, k) PROVE TypeOK'
    <2>1. k \in Nat /\ sent[n] \in Nat
      BY FrameLenType DEF TypeOK
    <2> DEFINE part == [i \in 1 .. k |-> <<n, sent[n] + i>>]
    <2>2. \A i \in 1 .. k : <<n, sent[n] + i>> \in ByteOfAnswer
      BY <2>1 DEF ByteOfAnswer
    <2>3. part \in Seq(ByteOfAnswer)
      BY <2>1, <2>2, IsASeq
    <2>4. rx' \in Seq(ByteOfAnswer)
      BY <1>8, <2>3, ConcatProperties DEF Send, TypeOK
    <2>5. sent' \in [Calls -> Nat]
      BY <1>8, <2>1 DEF Send, TypeOK
    <2>6. Waiting' => isOpen'
      BY <1>8 DEF Send, TypeOK, Waiting, callVars, linkVars
    <2> QED
      BY <1>8, <2>4, <2>5, <2>6 DEF Send, TypeOK, callVars, linkVars, ByteOfAnswer, Calls
  <1>9. CASE PeerCloses
    <2>1. Waiting' => isOpen'
      BY <1>9 DEF PeerCloses, TypeOK, Waiting, callVars
    <2> QED
      BY <1>9, <2>1 DEF PeerCloses, TypeOK, callVars, serverVars, ByteOfAnswer, Calls
  <1>10. CASE UNCHANGED vars
    BY <1>10 DEF vars, TypeOK, Waiting, ByteOfAnswer, Calls
  <1> QED
    BY <1>1, <1>2, <1>3, <1>4, <1>5, <1>6, <1>7, <1>8, <1>9, <1>10, Kinds

(* The variables keep their types, no call waits on a closed connection    *)
(* and the answer never outgrows the buffer of tcp_bus::transaction        *)
(* (modbus_tcp.cpp:82-99), whatever the server and the network do.         *)
THEOREM TypeInvariant == Spec => []TypeOK
  BY InitTypes, NextTypes, PTL DEF Spec

----------------------------------------------------------------------------
(* Why the answer is the call's own.  Every byte in the kernel, and in the *)
(* buffer of a call that waits, is of an answer the server gave to a call  *)
(* of this connection; the numbers of the calls of a connection grow, so   *)
(* the one that carries the pending number is the pending call.            *)

Given == {b \in ByteOfAnswer : HasAnswer(b[1]) /\ on[b[1]] = conn}

Provenance == rx \in Seq(Given) /\ (Waiting => buf \in Seq(Given))

(* What is not made is not heard and has no answer.                        *)
Unmade == \A n \in Calls : n > calls => server[n] = "unheard" /\ re[n] = 0

Numbers ==
    /\ \A n \in 1 .. calls : server[n] # "unheard" => id[n] >= 1
    /\ \A n \in 1 .. calls : on[n] <= conn
    /\ isOpen => \A n \in 1 .. calls : on[n] = conn => id[n] <= transId
    /\ Waiting => \A n \in 1 .. calls : (n # calls /\ on[n] = conn) => id[n] < transId
    /\ Waiting => re[calls] = 0

IInv ==
    /\ TypeOK
    /\ Unmade
    /\ Numbers
    /\ Provenance
    /\ OwnAnswer

LEMMA Ranges ==
    ASSUME TypeOK
    PROVE  /\ calls \in Nat /\ transId \in Nat /\ conn \in Nat
           /\ 1 .. calls \subseteq Calls /\ Calls \subseteq Nat \ {0}
           /\ Waiting => calls \in Calls /\ calls \in 1 .. calls
  BY TcpAssumption DEF TypeOK, Calls, Waiting

(* An answer once given stays, and so does what is known of a made call.   *)
LEMMA Stable ==
    ASSUME TypeOK, Unmade, [Next]_vars
    PROVE  /\ \A n \in Calls : HasAnswer(n) => n \in 1 .. calls /\ server'[n] = server[n]
           /\ \A n \in 1 .. calls : /\ asked'[n] = asked[n] /\ id'[n] = id[n] /\ on'[n] = on[n]
                                    /\ server'[n] # "unheard" => server[n] # "unheard"
  <1> USE Ranges
  <1>1. \A n \in Calls : HasAnswer(n) => n \in 1 .. calls
    BY DEF Unmade, HasAnswer, Calls
  <1>2. CASE Links
    BY <1>1, <1>2 DEF Links, callVars, serverVars
  <1>3. CASE Refuses
    <2>1. PICK r \in Requests, c \in Int, i \in {transId, transId + 1} : Begin(r, c, i)
      BY <1>3 DEF Refuses
    <2>2. UNCHANGED server
      BY <1>3 DEF Refuses
    <2>3. /\ asked' = [asked EXCEPT ![calls + 1] = r]
          /\ id' = [id EXCEPT ![calls + 1] = i] /\ on' = [on EXCEPT ![calls + 1] = conn]
      BY <2>1 DEF Begin
    <2>4. \A n \in 1 .. calls : asked'[n] = asked[n] /\ id'[n] = id[n] /\ on'[n] = on[n]
      BY <2>3 DEF TypeOK
    <2> QED
      BY <1>1, <2>2, <2>4
  <1>4. ASSUME NEW r \in Requests, CallSent(r)
        PROVE  /\ \A n \in Calls : HasAnswer(n) => server'[n] = server[n]
               /\ \A n \in 1 .. calls : /\ asked'[n] = asked[n] /\ id'[n] = id[n] /\ on'[n] = on[n]
                                        /\ server'[n] = server[n]
    <2>1. \A n \in 1 .. calls : asked'[n] = asked[n] /\ id'[n] = id[n] /\ on'[n] = on[n]
      BY <1>4 DEF CallSent, Begin, TypeOK
    <2>2. \A n \in 1 .. calls : server'[n] = server[n]
      BY <1>4 DEF CallSent, TypeOK
    <2> QED
      BY <1>1, <2>1, <2>2
  <1>5. CASE Fails
    BY <1>1, <1>5 DEF Fails, serverVars
  <1>6. CASE \E m \in Calls : Accept(m)
    BY <1>1, <1>6 DEF Accept, End, serverVars
  <1>7. CASE ReadStart \/ ReadMiddle \/ ReadMore
    BY <1>1, <1>7 DEF ReadStart, ReadMiddle, ReadMore, callVars, serverVars
  <1>8. CASE \E n \in Calls, form \in {"normal", "exception", "alien", "silent"} : Serve(n, form)
    <2>1. UNCHANGED <<asked, id, on>>
      BY <1>8 DEF Serve, callVars
    <2>2. \A n \in Calls : server'[n] = server[n] \/ server[n] = "heard"
      BY <1>8 DEF Serve, TypeOK
    <2> QED
      BY <1>1, <2>1, <2>2 DEF HasAnswer
  <1>9. CASE \/ \E n \in Calls : \E k \in 1 .. FrameLen(n) - sent[n] : Send(n, k)
             \/ PeerCloses \/ UNCHANGED vars
    BY <1>1, <1>9 DEF Send, PeerCloses, callVars, serverVars, vars
  <1> QED
    BY <1>1, <1>2, <1>3, <1>4, <1>5, <1>6, <1>7, <1>8, <1>9, Kinds

(* The frame that is taken is the pending call's own.                      *)
LEMMA AcceptedIsOwn ==
    ASSUME TypeOK, Unmade, Numbers, Provenance, IdsSuffice, NEW m \in Calls, Accept(m)
    PROVE  m = calls /\ server[m] \in {"normal", "exception"}
  <1> USE Ranges
  <1>1. Waiting /\ Len(buf) >= 7 /\ buf[1][1] = m /\ isOpen
    BY DEF Accept, Finished, Complete, TypeOK
  <1>2. buf[1] \in Given
    <2>1. buf \in Seq(Given) /\ Len(buf) \in Nat
      BY <1>1, LenProperties DEF Provenance
    <2> QED
      BY <1>1, <2>1, ElementOfSeq
  <1>3. HasAnswer(m) /\ on[m] = conn
    BY <1>1, <1>2 DEF Given
  <1>4. m \in 1 .. calls
    BY <1>3 DEF Unmade, HasAnswer, Calls
  <1>5. id[m] \in Nat /\ id[m] >= 1 /\ id[m] <= transId
    BY <1>1, <1>3, <1>4 DEF Numbers, HasAnswer, TypeOK
  <1>6. id[m] \in 1 .. IdMod /\ transId \in 1 .. IdMod
    <2>1. transId \in Nat /\ transId <= calls /\ calls <= MaxCalls
      BY DEF TypeOK
    <2>2. MaxCalls <= IdMod /\ IdMod \in Nat /\ MaxCalls \in Nat
      BY TcpAssumption DEF IdsSuffice
    <2> QED
      BY <1>5, <2>1, <2>2
  <1>7. id[m] % IdMod = transId % IdMod /\ server[m] # "alien"
    BY DEF Accept, SameId
  <1>8. id[m] = transId
    BY <1>6, <1>7, Unwrapped, TcpAssumption
  <1>9. m = calls
    BY <1>1, <1>3, <1>4, <1>8 DEF Numbers
  <1> QED
    BY <1>3, <1>7, <1>9 DEF HasAnswer

(* What a call leaves of the variables of the calls when it begins.        *)
LEMMA Begun ==
    ASSUME TypeOK, Unmade, Numbers,
           NEW r \in Requests, NEW c \in Int, NEW i \in {transId, transId + 1}, Begin(r, c, i)
    PROVE  /\ calls' = calls + 1 /\ calls' \in Calls /\ transId' = i
           /\ UNCHANGED <<isOpen, conn, re, rx>> /\ re'[calls'] = 0
           /\ code'[calls'] = c /\ id'[calls'] = i /\ on'[calls'] = conn
           /\ \A n \in 1 .. calls' : n \in 1 .. calls \/ n = calls'
           /\ \A n \in 1 .. calls : /\ code'[n] = code[n] /\ id'[n] = id[n] /\ on'[n] = on[n]
                                    /\ asked'[n] = asked[n]
  <1> USE Ranges
  <1>1. /\ calls' = calls + 1 /\ calls + 1 \in Calls
    BY BeginTypes
  <1>2. /\ asked' = [asked EXCEPT ![calls + 1] = r] /\ code' = [code EXCEPT ![calls + 1] = c]
        /\ id' = [id EXCEPT ![calls + 1] = i] /\ on' = [on EXCEPT ![calls + 1] = conn]
        /\ transId' = i
        /\ UNCHANGED <<isOpen, conn, re, rx>>
    BY DEF Begin
  <1>3. \A n \in 1 .. calls : n \in Calls /\ n # calls + 1
    BY <1>1
  <1>4. \A n \in 1 .. calls : /\ code'[n] = code[n] /\ id'[n] = id[n] /\ on'[n] = on[n]
                              /\ asked'[n] = asked[n]
    BY <1>2, <1>3 DEF TypeOK
  <1>5. code'[calls + 1] = c /\ id'[calls + 1] = i /\ on'[calls + 1] = conn
    BY <1>1, <1>2 DEF TypeOK
  <1>6. re[calls + 1] = 0
    BY <1>1 DEF Unmade
  <1>7. \A n \in 1 .. calls + 1 : n \in 1 .. calls \/ n = calls + 1
    OBVIOUS
  <1> QED
    BY <1>1, <1>2, <1>4, <1>5, <1>6, <1>7

LEMMA NextUnmade ==
    ASSUME IInv, [Next]_vars
    PROVE  Unmade'
  <1> USE Ranges
  <1>0. TypeOK /\ Unmade /\ Numbers
    BY DEF IInv
  <1>1. CASE Links
    BY <1>0, <1>1 DEF Links, callVars, serverVars, Unmade, Calls
  <1>2. CASE Refuses
    <2>1. calls' = calls + 1 /\ UNCHANGED <<re, server>>
      BY <1>0, <1>2 DEF Refuses, Begin
    <2> QED
      BY <1>0, <2>1 DEF Unmade, Calls
  <1>3. ASSUME NEW r \in Requests, CallSent(r) PROVE Unmade'
    <2>1. calls' = calls + 1 /\ UNCHANGED re
      BY <1>3 DEF CallSent, Begin
    <2>2. \A n \in Calls : n > calls + 1 => server'[n] = server[n] /\ n > calls
      BY <1>0, <1>3 DEF CallSent, TypeOK
    <2> QED
      BY <1>0, <2>1, <2>2 DEF Unmade, Calls
  <1>4. CASE Fails
    <2>1. UNCHANGED <<calls, server>> /\ \A n \in Calls : n # calls => re'[n] = re[n]
      BY <1>0, <1>4 DEF Fails, serverVars, TypeOK
    <2> QED
      BY <1>0, <2>1 DEF Unmade, Calls
  <1>5. CASE \E m \in Calls : Accept(m)
    <2>1. UNCHANGED <<calls, server>> /\ \A n \in Calls : n # calls => re'[n] = re[n]
      BY <1>0, <1>5 DEF Accept, End, serverVars, TypeOK
    <2> QED
      BY <1>0, <2>1 DEF Unmade, Calls
  <1>6. CASE ReadStart \/ ReadMiddle \/ ReadMore
    BY <1>0, <1>6 DEF ReadStart, ReadMiddle, ReadMore, callVars, serverVars, Unmade, Calls
  <1>7. CASE \E n \in Calls, form \in {"normal", "exception", "alien", "silent"} : Serve(n, form)
    <2>1. UNCHANGED <<calls, re>>
      BY <1>7 DEF Serve, callVars
    <2>2. \A n \in Calls : server[n] = "unheard" => server'[n] = "unheard"
      BY <1>0, <1>7 DEF Serve, TypeOK
    <2> QED
      BY <1>0, <2>1, <2>2 DEF Unmade, Calls
  <1>8. CASE \/ \E n \in Calls : \E k \in 1 .. FrameLen(n) - sent[n] : Send(n, k)
             \/ PeerCloses \/ UNCHANGED vars
    BY <1>0, <1>8 DEF Send, PeerCloses, callVars, serverVars, vars, Unmade, Calls
  <1> QED
    BY <1>0, <1>1, <1>2, <1>3, <1>4, <1>5, <1>6, <1>7, <1>8, Kinds

LEMMA NextNumbers ==
    ASSUME IInv, [Next]_vars
    PROVE  Numbers'
  <1> USE Ranges
  <1>0. TypeOK /\ Unmade /\ Numbers /\ TypeOK'
    BY NextTypes DEF IInv
  <1>1. CASE Links
    <2>1. /\ UNCHANGED <<calls, id, on, server>> /\ ~Waiting'
          /\ \/ conn' = conn /\ isOpen' = FALSE
             \/ conn' = conn + 1
      BY <1>1 DEF Links, NoLink, NewLink, callVars, serverVars, Idle, Waiting
    <2>2. CASE conn' = conn /\ isOpen' = FALSE
      BY <1>0, <2>1, <2>2 DEF Numbers
    <2>3. CASE conn' = conn + 1
      <3>1. \A n \in 1 .. calls : on[n] \in Nat /\ on[n] <= conn
        BY <1>0 DEF Numbers, TypeOK
      <3>2. \A n \in 1 .. calls : on'[n] <= conn' /\ on'[n] # conn'
        BY <1>0, <2>1, <2>3, <3>1
      <3> QED
        BY <1>0, <2>1, <2>3, <3>2 DEF Numbers
    <2> QED
      BY <2>1, <2>2, <2>3
  <1>2. ASSUME NEW r \in Requests, NEW c \in Int, NEW i \in {transId, transId + 1}, Begin(r, c, i),
               \A n \in 1 .. calls : server'[n] # "unheard" => server[n] # "unheard"
        PROVE  /\ (server'[calls'] # "unheard" => i >= 1)
                  => \A n \in 1 .. calls' : server'[n] # "unheard" => id'[n] >= 1
               /\ \A n \in 1 .. calls' : on'[n] <= conn'
               /\ isOpen' => \A n \in 1 .. calls' : on'[n] = conn' => id'[n] <= transId'
    <2>1. /\ calls' \in Calls /\ transId' = i /\ isOpen' = isOpen /\ conn' = conn
          /\ id'[calls'] = i /\ on'[calls'] = conn
          /\ \A n \in 1 .. calls' : n \in 1 .. calls \/ n = calls'
          /\ \A n \in 1 .. calls : id'[n] = id[n] /\ on'[n] = on[n]
      BY <1>0, <1>2, Begun
    <2>2. (server'[calls'] # "unheard" => i >= 1)
          => \A n \in 1 .. calls' : server'[n] # "unheard" => id'[n] >= 1
      BY <1>0, <1>2, <2>1 DEF Numbers
    <2>3. \A n \in 1 .. calls' : on'[n] <= conn'
      BY <1>0, <2>1 DEF Numbers
    <2>4. ASSUME isOpen', NEW n \in 1 .. calls', on'[n] = conn'
          PROVE  id'[n] <= transId'
      <3>1. i \in Nat /\ transId <= i
        BY <1>0
      <3>2. CASE n = calls'
        BY <2>1, <3>1, <3>2
      <3>3. CASE n \in 1 .. calls
        <4>1. id[n] <= transId /\ id[n] \in Nat
          BY <1>0, <2>1, <2>4, <3>3 DEF Numbers, TypeOK
        <4> QED
          BY <2>1, <3>1, <3>3, <4>1
      <3> QED
        BY <2>1, <3>2, <3>3
    <2> QED
      BY <2>2, <2>3, <2>4
  <1>3. CASE Refuses
    <2>1. PICK r \in Requests, c \in Int \ {0, Pending}, i \in {transId, transId + 1} :
              Begin(r, c, i)
      BY <1>3 DEF Refuses
    <2>2. ~Waiting' /\ UNCHANGED server /\ server'[calls'] = "unheard"
      <3>1. code'[calls'] = c /\ calls' = calls + 1 /\ calls' \in Calls
        BY <1>0, <2>1, Begun
      <3>2. UNCHANGED server
        BY <1>3 DEF Refuses
      <3> QED
        BY <1>0, <3>1, <3>2 DEF Waiting, Unmade
    <2> QED
      BY <1>2, <2>1, <2>2 DEF Numbers
  <1>4. ASSUME NEW r \in Requests, CallSent(r) PROVE Numbers'
    <2>1. Begin(r, Pending, transId + 1) /\ Pending \in Int /\ isOpen
      BY <1>4 DEF CallSent, Pending
    <2>2. \A n \in 1 .. calls : server'[n] = server[n]
      BY <1>0, <1>4 DEF CallSent, TypeOK
    <2>3. PICK c \in Int, i \in {transId, transId + 1} :
              i \in Nat /\ i >= 1 /\ transId < i /\ Begin(r, c, i)
      BY <1>0, <2>1
    <2>4. /\ calls' \in Calls /\ transId' = i /\ isOpen' = isOpen /\ conn' = conn /\ re'[calls'] = 0
          /\ \A n \in 1 .. calls' : n \in 1 .. calls \/ n = calls'
          /\ \A n \in 1 .. calls : id'[n] = id[n] /\ on'[n] = on[n]
      BY <1>0, <2>3, Begun
    <2>5. /\ \A n \in 1 .. calls' : server'[n] # "unheard" => id'[n] >= 1
          /\ \A n \in 1 .. calls' : on'[n] <= conn'
          /\ isOpen' => \A n \in 1 .. calls' : on'[n] = conn' => id'[n] <= transId'
      BY <1>2, <2>2, <2>3
    <2>6. ASSUME NEW n \in 1 .. calls', n # calls', on'[n] = conn'
          PROVE  id'[n] < transId'
      <3>1. id[n] <= transId /\ id[n] \in Nat /\ id'[n] = id[n]
        BY <1>0, <2>1, <2>4, <2>6 DEF Numbers, TypeOK
      <3> QED
        BY <1>0, <2>3, <2>4, <3>1
    <2> QED
      BY <2>4, <2>5, <2>6 DEF Numbers
  <1>5. CASE Fails \/ \E m \in Calls : Accept(m)
    <2>1. UNCHANGED <<isOpen, conn, transId, calls, id, on, server>> /\ Waiting
      BY <1>5 DEF Fails, Accept, Finished, End, linkVars, serverVars
    <2>2. ~Waiting'
      <3>1. CASE Fails
        <4>1. PICK c \in Int \ {0, Pending} : code' = [code EXCEPT ![calls] = c]
          BY <3>1 DEF Fails
        <4>2. code'[calls'] # Pending
          BY <1>0, <2>1, <4>1 DEF TypeOK
        <4> QED
          BY <4>2 DEF Waiting
      <3>2. ASSUME NEW m \in Calls, Accept(m) PROVE ~Waiting'
        <4>1. asked[calls] \in Request /\ asked[m] \in Request
          BY <1>0, <2>1, FrameLenType
        <4>2. Validate(asked[calls], AnswerOf(m)) # Pending
          BY <4>1, ReturnIsNotPending DEF AnswerOf, Pending
        <4>3. code' = [code EXCEPT ![calls] = Validate(asked[calls], AnswerOf(m))]
          BY <3>2 DEF Accept, End
        <4>4. code'[calls'] # Pending
          BY <1>0, <2>1, <4>2, <4>3 DEF TypeOK
        <4> QED
          BY <4>4 DEF Waiting
      <3> QED
        BY <1>5, <3>1, <3>2
    <2> QED
      BY <1>0, <2>1, <2>2 DEF Numbers
  <1>6. CASE \/ ReadStart \/ ReadMiddle \/ ReadMore \/ PeerCloses \/ UNCHANGED vars
             \/ \E n \in Calls : \E k \in 1 .. FrameLen(n) - sent[n] : Send(n, k)
    <2>1. UNCHANGED <<isOpen, conn, transId, calls, id, on, code, re, server>>
      BY <1>6 DEF ReadStart, ReadMiddle, ReadMore, PeerCloses, Send, vars, linkVars,
                  callVars, serverVars
    <2> QED
      BY <1>0, <2>1 DEF Numbers, Waiting
  <1>7. CASE \E n \in Calls, form \in {"normal", "exception", "alien", "silent"} : Serve(n, form)
    <2>1. UNCHANGED <<isOpen, conn, transId, calls, id, on, code, re>>
      BY <1>7 DEF Serve, linkVars, callVars
    <2>2. \A n \in 1 .. calls : server'[n] # "unheard" => server[n] # "unheard"
      BY <1>0, Stable
    <2> QED
      BY <1>0, <2>1, <2>2 DEF Numbers, Waiting
  <1> QED
    BY <1>0, <1>1, <1>3, <1>4, <1>5, <1>6, <1>7, Kinds

LEMMA NextProvenance ==
    ASSUME IInv, [Next]_vars
    PROVE  Provenance'
  <1> USE Ranges
  <1>0. /\ TypeOK /\ Unmade /\ Numbers /\ Provenance
        /\ <<>> \in Seq(Given) /\ <<>> \in Seq(Given') /\ rx \in Seq(Given)
    BY EmptySeq DEF IInv, Provenance
  <1>1. CASE Links
    <2>1. rx' = <<>> /\ ~Waiting'
      BY <1>1 DEF Links, Idle, Waiting, callVars
    <2> QED
      BY <1>0, <2>1 DEF Provenance
  (* As long as the connection is the same, what was given stays given.    *)
  <1>2. ASSUME conn' = conn PROVE Given \subseteq Given'
    <2>1. ASSUME NEW b \in Given PROVE b \in Given'
      <3>1. b \in ByteOfAnswer /\ b[1] \in Calls /\ HasAnswer(b[1]) /\ on[b[1]] = conn
        BY DEF Given, ByteOfAnswer
      <3>2. b[1] \in 1 .. calls /\ server'[b[1]] = server[b[1]] /\ on'[b[1]] = on[b[1]]
        BY <1>0, <3>1, Stable
      <3> QED
        BY <1>2, <3>1, <3>2 DEF Given, ByteOfAnswer, HasAnswer, Calls
    <2> QED
      BY <2>1
  <1>3. ASSUME conn' = conn, rx' \in Seq(Given), Waiting' => buf' \in Seq(Given)
        PROVE  Provenance'
    BY <1>2, <1>3, SeqMonotonic DEF Provenance
  <1>4. CASE Refuses
    <2>1. PICK r \in Requests, c \in Int \ {0, Pending}, i \in {transId, transId + 1} :
              Begin(r, c, i)
      BY <1>4 DEF Refuses
    <2>2. conn' = conn /\ rx' = rx /\ ~Waiting'
      BY <1>0, <2>1, Begun DEF Waiting
    <2> QED
      BY <1>0, <1>3, <2>2
  <1>5. ASSUME NEW r \in Requests, CallSent(r) PROVE Provenance'
    <2>1. conn' = conn /\ rx' = rx /\ buf' = <<>>
      BY <1>5 DEF CallSent, Begin
    <2> QED
      BY <1>0, <1>3, <2>1
  <1>6. CASE Fails \/ (\E m \in Calls : Accept(m))
    <2>1. conn' = conn /\ rx' = rx /\ buf' = buf /\ Waiting
      BY <1>6 DEF Fails, Accept, Finished, End, linkVars
    <2> QED
      BY <1>0, <1>3, <2>1 DEF Provenance
  <1>7. CASE ReadStart \/ ReadMiddle
    <2>1. conn' = conn /\ Waiting /\ rx' = Left(rx, MaxLen)
          /\ (buf' = Taken(rx, MaxLen) \/ buf' = buf)
      BY <1>7 DEF ReadStart, ReadMiddle, Receiving, linkVars
    <2>2. Taken(rx, MaxLen) \in Seq(Given) /\ Left(rx, MaxLen) \in Seq(Given)
      BY <1>0, ReadTakes, TcpAssumption
    <2> QED
      BY <1>0, <1>3, <2>1, <2>2 DEF Provenance
  <1>8. CASE ReadMore
    <2> DEFINE room == MaxLen - Len(buf)
    <2>1. /\ conn' = conn /\ Waiting
          /\ rx' = Left(rx, room) /\ buf' = buf \o Taken(rx, room)
      BY <1>8 DEF ReadMore, Receiving, linkVars
    <2>2. room \in Nat
      BY <1>0, LenProperties, TcpAssumption DEF TypeOK
    <2> HIDE DEF room
    <2>3. Taken(rx, room) \in Seq(Given) /\ Left(rx, room) \in Seq(Given)
      BY <1>0, <2>2, ReadTakes
    <2>4. buf \o Taken(rx, room) \in Seq(Given)
      BY <1>0, <2>1, <2>3, ConcatProperties DEF Provenance
    <2> QED
      BY <1>3, <2>1, <2>3, <2>4
  <1>9. CASE \/ \E n \in Calls, form \in {"normal", "exception", "alien", "silent"} : Serve(n, form)
             \/ PeerCloses \/ UNCHANGED vars
    <2>1. conn' = conn /\ rx' = rx /\ buf' = buf /\ UNCHANGED <<calls, code>>
      BY <1>9 DEF Serve, PeerCloses, vars, linkVars, callVars
    <2> QED
      BY <1>0, <1>3, <2>1 DEF Provenance, Waiting
  <1>10. ASSUME NEW n \in Calls, NEW k \in 1 .. FrameLen(n) - sent[n], Send(n, k) PROVE Provenance'
    <2>1. k \in Nat /\ sent[n] \in Nat
      BY <1>0, FrameLenType DEF TypeOK
    <2> DEFINE part == [i \in 1 .. k |-> <<n, sent[n] + i>>]
    <2>2. \A i \in 1 .. k : <<n, sent[n] + i>> \in Given
      BY <1>10, <2>1 DEF Send, Talking, OnThis, Given, ByteOfAnswer
    <2>3. part \in Seq(Given)
      BY <2>1, <2>2, IsASeq
    <2>4. rx \o part \in Seq(Given)
      BY <1>0, <2>3, ConcatProperties
    <2>5. conn' = conn /\ rx' = rx \o part /\ buf' = buf /\ UNCHANGED <<calls, code>>
      BY <1>10 DEF Send, linkVars, callVars
    <2> QED
      BY <1>0, <1>3, <2>4, <2>5 DEF Provenance, Waiting
  <1> QED
    BY <1>0, <1>1, <1>4, <1>5, <1>6, <1>7, <1>8, <1>9, <1>10, Kinds

(* What OwnAnswer says of one call.                                        *)
Own(n) ==
    /\ re[n] # 0 => re[n] = n /\ server[n] \in {"normal", "exception"}
    /\ code[n] = 0 => re[n] = n /\ server[n] = "normal"

LEMMA NextOwnAnswer ==
    ASSUME IInv, [Next]_vars
    PROVE  OwnAnswer'
  <1> USE Ranges
  <1> SUFFICES ASSUME IdsSuffice
               PROVE  \A n \in 1 .. calls' : Own(n)'
    BY DEF OwnAnswer, Own, IdsSuffice
  <1>0. TypeOK /\ Unmade /\ Numbers /\ Provenance /\ \A n \in 1 .. calls : Own(n)
    BY DEF IInv, OwnAnswer, Own
  <1>1. ASSUME NEW n \in 1 .. calls, re'[n] = re[n], code'[n] = code[n] \/ code'[n] # 0
        PROVE  Own(n)'
    <2>1. n \in Calls
      BY <1>0
    <2>2. HasAnswer(n) => server'[n] = server[n]
      BY <1>0, <2>1, Stable
    <2> QED
      BY <1>0, <1>1, <2>2 DEF Own, HasAnswer
  <1>2. ASSUME NEW r \in Requests, NEW c \in Int \ {0}, NEW i \in {transId, transId + 1},
               Begin(r, c, i)
        PROVE  \A n \in 1 .. calls' : Own(n)'
    <2>1. /\ code'[calls'] = c /\ re'[calls'] = 0 /\ re' = re
          /\ \A n \in 1 .. calls' : n \in 1 .. calls \/ n = calls'
          /\ \A n \in 1 .. calls : code'[n] = code[n]
      BY <1>0, <1>2, Begun
    <2>2. Own(calls)'
      BY <2>1 DEF Own
    <2> QED
      BY <1>1, <2>1, <2>2
  <1>3. CASE Refuses
    BY <1>2, <1>3 DEF Refuses
  <1>4. ASSUME NEW r \in Requests, CallSent(r) PROVE \A n \in 1 .. calls' : Own(n)'
    <2>1. \E c \in Int \ {0}, i \in {transId, transId + 1} : Begin(r, c, i)
      BY <1>4 DEF CallSent, Pending
    <2> QED
      BY <1>2, <2>1
  <1>5. CASE Fails
    <2>1. PICK c \in Int \ {0, Pending} : code' = [code EXCEPT ![calls] = c]
      BY <1>5 DEF Fails
    <2>2. re[calls] = 0 /\ Waiting /\ calls' = calls
      BY <1>0, <1>5 DEF Fails, Numbers
    <2>3. \A n \in Calls : re'[n] = re[n]
      BY <1>0, <1>5, <2>2 DEF Fails, TypeOK
    <2>4. \A n \in Calls : code'[n] = code[n] \/ code'[n] # 0
      BY <1>0, <2>1 DEF TypeOK
    <2> QED
      BY <1>0, <1>1, <2>2, <2>3, <2>4
  <1>6. ASSUME NEW m \in Calls, Accept(m) PROVE \A n \in 1 .. calls' : Own(n)'
    <2>1. m = calls /\ server[m] \in {"normal", "exception"}
      BY <1>0, <1>6, AcceptedIsOwn
    <2>2. /\ UNCHANGED <<calls, server>> /\ re' = [re EXCEPT ![calls] = m]
          /\ code' = [code EXCEPT ![calls] = Validate(asked[calls], AnswerOf(m))]
      BY <1>6 DEF Accept, End, serverVars
    <2>3. \A n \in 1 .. calls : n # calls => re'[n] = re[n] /\ code'[n] = code[n]
      BY <1>0, <2>2 DEF TypeOK
    <2>4. re'[m] = m /\ code'[m] = Validate(asked[m], AnswerOf(m))
      BY <1>0, <2>1, <2>2 DEF TypeOK
    <2>5. server[m] = "exception" => code'[m] = -2
      BY <1>0, <2>4, FrameLenType, ExceptionIsReported DEF AnswerOf
    <2>6. Own(calls)'
      BY <2>1, <2>2, <2>4, <2>5 DEF Own
    <2> QED
      BY <1>1, <2>2, <2>3, <2>6
  <1>7. CASE \/ Links \/ ReadStart \/ ReadMiddle \/ ReadMore \/ PeerCloses \/ UNCHANGED vars
             \/ \E n \in Calls, form \in {"normal", "exception", "alien", "silent"} : Serve(n, form)
             \/ \E n \in Calls : \E k \in 1 .. FrameLen(n) - sent[n] : Send(n, k)
    <2>1. UNCHANGED <<calls, code, re>>
      BY <1>7 DEF Links, ReadStart, ReadMiddle, ReadMore, PeerCloses, Serve, Send, vars, callVars
    <2> QED
      BY <1>1, <2>1
  <1> QED
    BY <1>0, <1>3, <1>4, <1>5, <1>6, <1>7, Kinds

LEMMA InitInductive == Init => IInv
  <1> SUFFICES ASSUME Init PROVE IInv
    OBVIOUS
  <1>1. TypeOK
    BY InitTypes
  <1>2. calls = 0 /\ rx = <<>> /\ buf = <<>>
    BY Zenon DEF Init
  <1>3. Unmade
    BY DEF Init, Unmade
  <1>4. Provenance
    BY <1>2, EmptySeq DEF Provenance
  <1>5. Numbers /\ OwnAnswer
    BY <1>2 DEF Numbers, OwnAnswer, Waiting
  <1> QED
    BY <1>1, <1>3, <1>4, <1>5 DEF IInv

LEMMA Invariance == Spec => []IInv
  <1>1. IInv /\ [Next]_vars => IInv'
    BY NextTypes, NextUnmade, NextNumbers, NextProvenance, NextOwnAnswer DEF IInv
  <1> QED
    BY <1>1, InitInductive, PTL DEF Spec

(* While there are no more calls than transaction numbers, a call takes    *)
(* its own answer or none, with the right protocol number, and a call that *)
(* returns 0 was answered normally: through every reconnection, on every   *)
(* connection and whatever the server sends, late or broken off            *)
(* (modbus_tcp.cpp:136-147).                                               *)
THEOREM AnswersAreOwn == Spec => []OwnAnswer
  BY Invariance, PTL DEF IInv

----------------------------------------------------------------------------
(* The bus implements the promise of ModbusTransport.                      *)

Answered == {n \in Calls : HasAnswer(n)}

LEMMA InitPromise == Init => Promise!Init
  <1> SUFFICES ASSUME Init PROVE Promise!Init
    OBVIOUS
  <1>1. calls = 0 /\ re = [n \in Calls |-> 0] /\ asked \in [Calls -> Requests]
    BY InitTypes DEF Init, TypeOK
  <1>2. Answered = {}
    BY DEF Init, Answered, HasAnswer
  <1>3. Waiting = FALSE
    BY DEF Init, Waiting
  <1> QED
    BY <1>1, <1>2, <1>3 DEF Promise!Init, Promise!Calls, Calls, Answered

(* The value of Waiting: it is a truth value, before a step and after.     *)
LEMMA WaitingIsBoolean == Waiting \in BOOLEAN /\ Waiting' \in BOOLEAN
  BY DEF Waiting

LEMMA NextPromise ==
    ASSUME IInv, IdsSuffice, [Next]_vars
    PROVE  [Promise!Next]_(Promise!vars)
  <1> USE Ranges
  <1>0. TypeOK /\ Unmade /\ Numbers /\ Provenance /\ TypeOK' /\ Unmade' /\ Numbers'
    BY NextTypes, NextUnmade, NextNumbers DEF IInv
  <1>1. ASSUME UNCHANGED <<calls, asked, re, server, code>>
        PROVE  UNCHANGED Promise!vars
    BY <1>1 DEF Promise!vars, HasAnswer, Waiting, Calls
  <1>2. ASSUME NEW r \in Requests, NEW c \in Int \ {0}, NEW i \in {transId, transId + 1},
               Begin(r, c, i), \A n \in 1 .. calls : server'[n] = server[n],
               server'[calls'] \in {"unheard", "heard"}
        PROVE  \E wait \in BOOLEAN : Promise!Ask(r, wait)
    <2>1. Idle /\ calls < MaxCalls /\ asked' = [asked EXCEPT ![calls + 1] = r]
      BY <1>2 DEF Begin
    <2>2. calls' = calls + 1 /\ UNCHANGED re
      BY <1>0, <1>2, Begun
    <2>3. \A n \in Calls : HasAnswer(n)' <=> HasAnswer(n)
      <3>1. \A n \in Calls : HasAnswer(n) => n \in 1 .. calls
        BY <1>0 DEF Unmade, HasAnswer, Calls
      <3>2. \A n \in Calls : HasAnswer(n)' => n \in 1 .. calls
        BY <1>0, <1>2, <2>2 DEF Unmade, HasAnswer, Calls
      <3> QED
        BY <1>2, <3>1, <3>2 DEF HasAnswer
    <2>4. Answered' = Answered
      BY <2>3 DEF Answered, Calls
    <2>5. Waiting' \in BOOLEAN
      BY WaitingIsBoolean
    <2>6. ASSUME NEW wait \in BOOLEAN, Waiting' = wait PROVE Promise!Ask(r, wait)
      <3>1. ~Waiting /\ calls' = calls + 1 /\ calls < MaxCalls /\ UNCHANGED <<Answered, re>>
        BY <2>1, <2>2, <2>4 DEF Idle
      <3> QED
        BY <2>1, <2>6, <3>1 DEF Promise!Ask, Answered
    <2> QED
      BY <2>5, <2>6
  <1>3. CASE Refuses
    <2>1. PICK r \in Requests, c \in Int \ {0, Pending}, i \in {transId, transId + 1} :
              Begin(r, c, i)
      BY <1>3 DEF Refuses
    <2>2. UNCHANGED server /\ calls' \in Calls /\ calls' > calls
      BY <1>0, <1>3, <2>1, BeginTypes DEF Refuses
    <2>3. server'[calls'] = "unheard"
      BY <1>0, <2>2 DEF Unmade
    <2> QED
      BY <1>2, <2>1, <2>2, <2>3 DEF Promise!Next
  <1>4. ASSUME NEW r \in Requests, CallSent(r) PROVE Promise!Next
    <2>1. PICK c \in Int \ {0}, i \in {transId, transId + 1} : Begin(r, c, i)
      BY <1>4 DEF CallSent, Pending
    <2>2. calls' = calls + 1 /\ calls' \in Calls
      BY <1>0, <2>1, BeginTypes
    <2>3. /\ \A n \in 1 .. calls : server'[n] = server[n]
          /\ server'[calls'] \in {"unheard", "heard"}
      BY <1>0, <1>4, <2>2 DEF CallSent, TypeOK
    <2> QED
      BY <1>2, <2>1, <2>3 DEF Promise!Next
  <1>5. CASE Fails
    <2>1. PICK c \in Int \ {0, Pending} : code' = [code EXCEPT ![calls] = c]
      BY <1>5 DEF Fails
    <2>2. Waiting /\ UNCHANGED <<calls, asked, server>>
      BY <1>5 DEF Fails, serverVars
    <2>3. re' = re
      BY <1>0, <1>5, <2>2 DEF Fails, Numbers, TypeOK
    <2>4. ~Waiting'
      BY <1>0, <2>1, <2>2 DEF Waiting, TypeOK
    <2>5. Answered' = Answered
      BY <2>2 DEF Answered, HasAnswer, Calls
    <2> QED
      BY <2>2, <2>3, <2>4, <2>5 DEF Promise!Next, Promise!Fail, Answered
  <1>6. ASSUME NEW m \in Calls, Accept(m) PROVE Promise!Next
    <2>1. m = calls /\ server[m] \in {"normal", "exception"}
      BY <1>0, <1>6, AcceptedIsOwn
    <2>2. Waiting /\ UNCHANGED <<calls, asked, server>> /\ re' = [re EXCEPT ![calls] = m]
      BY <1>6 DEF Accept, Finished, End, serverVars
    <2>3. ~Waiting'
      <3>1. code' = [code EXCEPT ![calls] = Validate(asked[calls], AnswerOf(m))]
        BY <1>6 DEF Accept, End
      <3>2. Validate(asked[calls], AnswerOf(m)) # Pending
        BY <1>0, <2>1, FrameLenType, ReturnIsNotPending DEF AnswerOf, Pending
      <3> QED
        BY <1>0, <2>1, <2>2, <3>1, <3>2 DEF Waiting, TypeOK
    <2>4. Answered' = Answered /\ m \in Answered
      BY <2>1, <2>2 DEF Answered, HasAnswer, Calls
    <2>5. \A k \in 1 .. calls : re[k] < m
      <3>1. re[calls] = 0
        BY <1>0, <2>2 DEF Numbers
      <3>2. \A k \in 1 .. calls : re[k] = 0 \/ re[k] = k
        BY DEF IInv, OwnAnswer
      <3> QED
        BY <1>0, <2>1, <3>1, <3>2
    <2>6. Promise!MayUse(m)
      BY <2>1, <2>4, <2>5 DEF Promise!MayUse, Promise!Addr, Answered
    <2>7. Waiting' = FALSE
      BY <2>3, WaitingIsBoolean
    <2>8. Promise!Return(m)
      BY <2>2, <2>4, <2>6, <2>7 DEF Promise!Return, Answered
    <2> QED
      BY <2>8 DEF Promise!Next, Promise!Calls, Calls
  <1>7. ASSUME NEW n \in Calls, NEW form \in {"normal", "exception", "alien", "silent"},
               Serve(n, form)
        PROVE  Promise!Next \/ UNCHANGED Promise!vars
    <2>1. /\ UNCHANGED <<calls, asked, re, code>> /\ server[n] = "heard"
          /\ server' = [server EXCEPT ![n] = form]
      BY <1>7 DEF Serve, callVars
    <2>2. \A m \in Calls : m # n => server'[m] = server[m]
      BY <1>0, <2>1 DEF TypeOK
    <2>3. server'[n] = form
      BY <1>0, <2>1 DEF TypeOK
    <2>4. n <= calls
      BY <1>0, <2>1 DEF Unmade
    <2>5. Waiting' = Waiting
      BY <2>1 DEF Waiting
    <2>6. CASE form = "silent"
      <3>1. Answered' = Answered
        BY <2>1, <2>2, <2>3, <2>6 DEF Answered, HasAnswer, Calls
      <3> QED
        BY <2>1, <2>5, <3>1 DEF Promise!vars, Answered
    <2>7. CASE form # "silent"
      <3>1. Answered' = Answered \cup {n}
        BY <2>1, <2>2, <2>3, <2>7 DEF Answered, HasAnswer, Calls
      <3> QED
        BY <2>1, <2>4, <2>5, <3>1 DEF Promise!Next, Promise!DeviceAnswers, Promise!Calls, Calls, Answered
    <2> QED
      BY <2>6, <2>7
  <1>8. CASE \/ Links \/ ReadStart \/ ReadMiddle \/ ReadMore \/ PeerCloses \/ UNCHANGED vars
             \/ \E n \in Calls : \E k \in 1 .. FrameLen(n) - sent[n] : Send(n, k)
    <2>1. UNCHANGED <<calls, asked, re, server, code>>
      BY <1>8 DEF Links, ReadStart, ReadMiddle, ReadMore, PeerCloses, Send, vars, callVars, serverVars
    <2> QED
      BY <1>1, <2>1
  <1> QED
    BY <1>0, <1>3, <1>4, <1>5, <1>6, <1>7, <1>8, Kinds

(* While the transaction numbers suffice, tcp_bus::transaction keeps the   *)
(* promise of bus::transaction (modbus.h:73-77) exactly: an answer serves  *)
(* the call it was given to, once, or nobody.                              *)
THEOREM TcpKeepsPromise == IdsSuffice => (Spec => KeepsPromise)
  <1> SUFFICES ASSUME IdsSuffice PROVE Spec => KeepsPromise
    OBVIOUS
  <1>1. IInv /\ [Next]_vars => [Promise!Next]_(Promise!vars)
    BY NextPromise
  <1> QED
    BY <1>1, InitPromise, Invariance, PTL DEF Spec, KeepsPromise, Promise!Spec

----------------------------------------------------------------------------
(* The order of the stream.  A connection delivers what the server sends   *)
(* in its order, and the code only ever takes from the front: that is why  *)
(* a call that drew an older answer leaves its own behind, and why only a  *)
(* new connection ends the lag.                                            *)

(* The server works through the requests of a connection in their order.   *)
InTurn ==
    \A n \in Calls : \A m \in 1 .. n - 1 :
        (HasAnswer(n) /\ on[m] = on[n]) => server[m] # "heard" /\ ~Talking(m)

(* Nothing is sent of an answer that is not made.                          *)
Unsent == \A n \in Calls : ~HasAnswer(n) => sent[n] = 0

(* The call that waits is the last of its connection.                      *)
Here == Waiting => on[calls] = conn /\ id[calls] = transId

(* What the pending call has read starts with the start of an answer.      *)
Heads == (Waiting /\ buf # <<>>) => buf[1][2] = 1

(* The bytes a call can still look at.                                     *)
Stream == IF Waiting THEN buf \o rx ELSE rx

(* Byte b of the stream has left more bytes behind it.  Behind it are what *)
(* was sent of its answer after it, and all of it before anything of the   *)
(* answer to a later call.                                                 *)
Followed(b, left) ==
    /\ left >= sent[b[1]] - b[2]
    /\ \A n \in Calls : (HasAnswer(n) /\ on[n] = conn /\ n > b[1]) =>
           left >= FrameLen(b[1]) - b[2] + sent[n]

Behind == \A i \in 1 .. Len(Stream) : Followed(Stream[i], Len(Stream) - i)

(* Call n drew an older answer, and there is or will be an answer to it.   *)
Lagged(n) ==
    /\ code[n] = MBE_BAD_TRANSACTION_ID
    /\ HasAnswer(n) \/ server[n] = "heard"
    /\ on[n] = conn

(* What is sent of the answer to a call that lagged is still to be read... *)
LeftBehind ==
    (calls > 0 /\ isOpen) => (Lagged(calls) => Len(rx) >= sent[calls])

(* ... and the next call, unless its search for a start is stuck, has it   *)
(* before its own answer.                                                  *)
DrawsOlder ==
    \A n \in Calls :
        (Waiting /\ calls = n + 1 /\ Lagged(n) /\ ~stuck) =>
            /\ Len(Stream) >= sent[n]
            /\ Stream # <<>> => Stream[1][1] <= n

Order ==
    /\ InTurn /\ Unsent /\ Here /\ Heads /\ Behind
    /\ LeftBehind /\ DrawsOlder
    /\ FreshLinkNoLag /\ LagPersists

(* Bytes are only sent by a server that talks.                             *)
LEMMA Sends ==
    ASSUME TypeOK, [Next]_vars
    PROVE  \/ sent' = sent
           \/ \E n \in Calls : \E k \in 1 .. FrameLen(n) - sent[n] : Send(n, k)
  BY Kinds DEF Links, Refuses, CallSent, Begin, Fails, Accept, End, ReadStart, ReadMiddle, ReadMore,
               Serve, PeerCloses, serverVars, vars

LEMMA SentGrows ==
    ASSUME TypeOK, [Next]_vars, NEW n \in Calls
    PROVE  /\ sent'[n] \in Nat /\ sent'[n] >= sent[n]
           /\ sent'[n] # sent[n] => Talking(n)
  <1>0. sent[n] \in Nat
    BY DEF TypeOK
  <1>1. ASSUME NEW m \in Calls, NEW k \in 1 .. FrameLen(m) - sent[m], Send(m, k)
        PROVE  /\ sent'[n] \in Nat /\ sent'[n] >= sent[n]
               /\ sent'[n] # sent[n] => Talking(n)
    <2>1. k \in Nat
      BY FrameLenType DEF TypeOK
    <2>2. sent' = [sent EXCEPT ![m] = sent[m] + k] /\ Talking(m)
      BY <1>1 DEF Send
    <2>3. CASE n = m
      BY <1>0, <2>1, <2>2, <2>3 DEF TypeOK
    <2>4. CASE n # m
      BY <1>0, <2>2, <2>4 DEF TypeOK
    <2> QED
      BY <2>3, <2>4
  <1> QED
    BY <1>0, <1>1, Sends

(* Only what the server serves gets an answer, and what it is done with,   *)
(* it does not take up again.                                              *)
LEMMA Answerers ==
    ASSUME TypeOK, Unmade, Numbers, [Next]_vars
    PROVE  /\ \A n \in Calls : HasAnswer(n)' =>
                  /\ n \in 1 .. calls
                  /\ \/ HasAnswer(n)
                     \/ \E form \in {"normal", "exception", "alien", "silent"} : Serve(n, form)
           /\ \A n \in 1 .. calls : server[n] # "heard" => server'[n] # "heard"
  <1> USE Ranges
  <1>0. \A n \in Calls : server[n] # "unheard" => n \in 1 .. calls
    BY DEF Unmade, Calls
  <1>1. CASE server' = server
    BY <1>0, <1>1 DEF HasAnswer
  <1>2. ASSUME NEW r \in Requests, CallSent(r)
        PROVE  /\ \A n \in Calls : HasAnswer(n)' => n \in 1 .. calls /\ HasAnswer(n)
               /\ \A n \in 1 .. calls : server[n] # "heard" => server'[n] # "heard"
    <2>1. calls + 1 \in Calls
      <3>1. \E c \in Int, i \in {transId, transId + 1} : Begin(r, c, i)
        BY <1>2 DEF CallSent, Pending
      <3> QED
        BY <3>1, BeginTypes
    <2>2. server'[calls + 1] \in {"heard", "unheard"}
      BY <1>2, <2>1 DEF CallSent, TypeOK
    <2>3. \A n \in Calls : n # calls + 1 => server'[n] = server[n]
      BY <1>2 DEF CallSent, TypeOK
    <2>4. \A n \in 1 .. calls : n \in Calls /\ n # calls + 1
      OBVIOUS
    <2> QED
      BY <1>0, <2>2, <2>3, <2>4 DEF HasAnswer
  <1>3. ASSUME NEW m \in Calls, NEW form \in {"normal", "exception", "alien", "silent"}, Serve(m, form)
        PROVE  /\ \A n \in Calls : HasAnswer(n)' =>
                      n \in 1 .. calls /\ (HasAnswer(n) \/ n = m)
               /\ \A n \in 1 .. calls : server[n] # "heard" => server'[n] # "heard"
    <2>1. server[m] = "heard" /\ server' = [server EXCEPT ![m] = form]
      BY <1>3 DEF Serve
    <2>2. \A n \in Calls : n # m => server'[n] = server[n]
      BY <2>1 DEF TypeOK
    <2>3. server'[m] = form /\ form # "heard"
      BY <2>1 DEF TypeOK
    <2> QED
      BY <1>0, <2>1, <2>2, <2>3 DEF HasAnswer
  <1>4. \/ server' = server \/ \E r \in Requests : CallSent(r)
        \/ \E m \in Calls, form \in {"normal", "exception", "alien", "silent"} : Serve(m, form)
    BY Kinds DEF Links, Refuses, Fails, Accept, End, ReadStart, ReadMiddle, ReadMore,
                 Send, PeerCloses, serverVars, vars
  <1> QED
    BY <1>1, <1>2, <1>3, <1>4

(* What the server is done with stays done.                                *)
LEMMA StaysDone ==
    ASSUME TypeOK, Unmade, Numbers, [Next]_vars,
           NEW m \in 1 .. calls, server[m] # "heard", ~Talking(m)
    PROVE  server'[m] # "heard" /\ ~Talking(m)'
  <1>1. m \in Calls /\ server'[m] # "heard"
    BY Answerers, Ranges
  <1>2. SUFFICES ASSUME HasAnswer(m)' PROVE ~(sent'[m] < FrameLen(m)')
    BY <1>1 DEF Talking
  <1>3. HasAnswer(m)
    <2>1. \A form : ~Serve(m, form)
      BY DEF Serve
    <2> QED
      BY <1>1, <1>2, <2>1, Answerers
  <1>4. FrameLen(m)' = FrameLen(m)
    BY <1>1, <1>3, Stable DEF FrameLen, AnswerOf
  <1>5. FrameLen(m) \in Nat /\ sent[m] \in Nat
    BY <1>1, FrameLenType DEF TypeOK
  <1>6. sent[m] >= FrameLen(m)
    BY <1>3, <1>5 DEF Talking
  <1> QED
    BY <1>1, <1>4, <1>5, <1>6, SentGrows

LEMMA NextInTurn ==
    ASSUME IInv, InTurn, [Next]_vars
    PROVE  InTurn'
  <1>0. TypeOK /\ Unmade /\ Numbers
    BY DEF IInv
  <1> SUFFICES ASSUME NEW n \in Calls, NEW m \in 1 .. n - 1, HasAnswer(n)', on'[m] = on'[n]
               PROVE  server'[m] # "heard" /\ ~Talking(m)'
    BY DEF InTurn, Calls
  <1>1. n \in 1 .. calls /\ m \in 1 .. calls
    BY <1>0, Answerers, Ranges
  <1>2. on[m] = on[n]
    BY <1>0, <1>1, Stable
  <1>3. server[m] # "heard" /\ ~Talking(m)
    <2>1. CASE HasAnswer(n)
      BY <1>2, <2>1 DEF InTurn
    <2>2. ASSUME NEW form \in {"normal", "exception", "alien", "silent"}, Serve(n, form)
          PROVE  server[m] # "heard" /\ ~Talking(m)
      BY <1>2, <2>2 DEF Serve
    <2> QED
      BY <1>0, <2>1, <2>2, Answerers
  <1> QED
    BY <1>0, <1>1, <1>3, StaysDone

LEMMA NextUnsent ==
    ASSUME IInv, Unsent, [Next]_vars
    PROVE  Unsent'
  <1> SUFFICES ASSUME NEW n \in Calls, ~HasAnswer(n)' PROVE sent'[n] = 0
    BY DEF Unsent, Calls
  <1>1. ~HasAnswer(n)
    BY Stable DEF IInv, HasAnswer
  <1> QED
    BY <1>1, SentGrows DEF IInv, Unsent, Talking

(* A call that is done does not wait.                                      *)
LEMMA EndedIsIdle ==
    ASSUME IInv, Fails \/ \E m \in Calls : Accept(m)
    PROVE  /\ ~Waiting' /\ Waiting /\ calls \in Calls
           /\ UNCHANGED <<linkVars, transId, calls, asked, id, on, serverVars, rx, buf>>
           /\ code'[calls] = MBE_BAD_TRANSACTION_ID => \E m \in Calls : WrongId(m)
           /\ \A n \in Calls : n # calls => code'[n] = code[n]
  <1>0. TypeOK /\ Unmade /\ Numbers /\ Provenance
    BY DEF IInv
  <1>1. CASE Fails
    <2>1. PICK c \in Int \ {0, Pending} :
              /\ code' = [code EXCEPT ![calls] = c]
              /\ c = MBE_BAD_TRANSACTION_ID => \E m \in Calls : WrongId(m)
      BY <1>1 DEF Fails
    <2> QED
      BY <1>0, <1>1, <2>1, Ranges DEF Fails, Waiting, TypeOK
  <1>2. ASSUME NEW m \in Calls, Accept(m)
        PROVE  /\ ~Waiting' /\ Waiting /\ calls \in Calls
               /\ code'[calls] # MBE_BAD_TRANSACTION_ID
               /\ \A n \in Calls : n # calls => code'[n] = code[n]
    <2>1. /\ Waiting /\ calls' = calls
          /\ code' = [code EXCEPT ![calls] = Validate(asked[calls], AnswerOf(m))]
      BY <1>2 DEF Accept, Finished, End
    <2>2. calls \in Calls
      BY <1>0, <2>1, Ranges
    <2>3. Validate(asked[calls], AnswerOf(m)) \notin {Pending, MBE_BAD_TRANSACTION_ID}
      <3>1. Validate(asked[calls], AnswerOf(m)) \in {0, -2, MBE_BAD_RESPONSE_LENGTH}
        BY <1>0, <2>2, FrameLenType, ReturnIsKnown DEF AnswerOf
      <3> QED
        BY <3>1 DEF Pending, MBE_BAD_TRANSACTION_ID, MBE_BAD_RESPONSE_LENGTH
    <2> QED
      BY <1>0, <2>1, <2>2, <2>3 DEF Waiting, TypeOK
  <1>3. ASSUME NEW m \in Calls, Accept(m)
        PROVE  UNCHANGED <<linkVars, transId, calls, asked, id, on, serverVars, rx, buf>>
    BY <1>3 DEF Accept, End
  <1> QED
    BY <1>1, <1>2, <1>3

(* What a step does to a waiting call's link and number: nothing.          *)
LEMMA NextHere ==
    ASSUME IInv, Here, [Next]_vars
    PROVE  Here'
  <1>0. TypeOK /\ Unmade /\ Numbers
    BY DEF IInv
  <1> SUFFICES ASSUME Waiting' PROVE on'[calls'] = conn' /\ id'[calls'] = transId'
    BY DEF Here
  <1>1. ASSUME NEW r \in Requests, NEW c \in Int, NEW i \in {transId, transId + 1}, Begin(r, c, i)
        PROVE  on'[calls'] = conn' /\ id'[calls'] = transId'
    BY <1>0, <1>1, Begun
  <1>2. CASE Refuses \/ \E r \in Requests : CallSent(r)
    BY <1>1, <1>2 DEF Refuses, CallSent, Pending
  <1>3. CASE Fails \/ \E m \in Calls : Accept(m)
    BY <1>3, EndedIsIdle
  <1>4. CASE Links
    BY <1>4 DEF Links, Idle, Waiting, callVars
  <1>5. CASE \/ ReadStart \/ ReadMiddle \/ ReadMore \/ PeerCloses \/ UNCHANGED vars
             \/ \E n \in Calls, form \in {"normal", "exception", "alien", "silent"} : Serve(n, form)
             \/ \E n \in Calls : \E k \in 1 .. FrameLen(n) - sent[n] : Send(n, k)
    <2>1. UNCHANGED <<calls, code, on, id, conn, transId>>
      BY <1>5 DEF ReadStart, ReadMiddle, ReadMore, PeerCloses, Serve, Send, vars, linkVars, callVars
    <2> QED
      BY <2>1 DEF Here, Waiting
  <1> QED
    BY <1>0, <1>2, <1>3, <1>4, <1>5, Kinds

LEMMA NextHeads ==
    ASSUME IInv, Heads, [Next]_vars
    PROVE  Heads'
  <1>0. TypeOK /\ Unmade /\ Numbers
    BY DEF IInv
  <1> SUFFICES ASSUME Waiting', buf' # <<>> PROVE buf'[1][2] = 1
    BY DEF Heads
  <1>1. CASE Links
    BY <1>1 DEF Links, Idle, Waiting, callVars
  <1>2. CASE Refuses
    BY <1>0, <1>2, Begun DEF Refuses, Waiting
  <1>3. CASE \E r \in Requests : CallSent(r)
    BY <1>3 DEF CallSent
  <1>4. CASE Fails \/ \E m \in Calls : Accept(m)
    BY <1>4, EndedIsIdle
  <1>5. CASE ReadStart
    <2>1. rx[1][2] = 1 /\ buf' = Taken(rx, MaxLen)
      BY <1>5 DEF ReadStart
    <2> QED
      BY <1>0, <2>1, ReadSplits, TcpAssumption DEF TypeOK
  <1>6. CASE ReadMore
    <2> DEFINE room == MaxLen - Len(buf)
               part == Taken(rx, room)
    <2>1. Waiting /\ buf # <<>> /\ buf' = buf \o part
      BY <1>6 DEF ReadMore, Receiving
    <2>2. room \in Nat
      BY <1>0, LenProperties, TcpAssumption DEF TypeOK
    <2>3. part \in Seq(ByteOfAnswer) /\ buf \in Seq(ByteOfAnswer)
      BY <1>0, <2>2, ReadTakes DEF TypeOK
    <2> HIDE DEF part
    <2>4. Len(buf) \in Nat \ {0} /\ Len(part) \in Nat
      BY <2>1, <2>3, EmptySeq, LenProperties
    <2>5. (buf \o part)[1] = buf[1]
      <3>1. 1 \in 1 .. Len(buf) + Len(part) /\ 1 <= Len(buf)
        BY <2>4
      <3> QED
        BY <2>3, <3>1, ConcatProperties
    <2> QED
      BY <2>1, <2>5 DEF Heads
  <1>7. CASE \/ ReadMiddle \/ PeerCloses \/ UNCHANGED vars
             \/ \E n \in Calls, form \in {"normal", "exception", "alien", "silent"} : Serve(n, form)
             \/ \E n \in Calls : \E k \in 1 .. FrameLen(n) - sent[n] : Send(n, k)
    <2>1. UNCHANGED <<calls, code, buf>>
      BY <1>7 DEF ReadMiddle, PeerCloses, Serve, Send, vars, callVars
    <2> QED
      BY <2>1 DEF Heads, Waiting
  <1> QED
    BY <1>0, <1>1, <1>2, <1>3, <1>4, <1>5, <1>6, <1>7, Kinds

LEMMA StreamIsGiven ==
    ASSUME IInv
    PROVE  /\ Stream \in Seq(Given) /\ rx \in Seq(Given)
           /\ Len(Stream) \in Nat /\ Len(rx) \in Nat
           /\ \A i \in 1 .. Len(Stream) : Stream[i] \in Given
           /\ EndOf(rx, Stream)
           /\ Waiting => /\ buf \in Seq(Given) /\ Len(buf) \in Nat
                         /\ Len(Stream) = Len(buf) + Len(rx)
                         /\ buf # <<>> => Stream # <<>> /\ Stream[1] = buf[1]
           /\ ~Waiting => Stream = rx
  <1>0. rx \in Seq(Given) /\ (Waiting => buf \in Seq(Given))
    BY DEF IInv, Provenance
  <1>1. CASE Waiting
    <2>1. Stream = buf \o rx /\ buf \in Seq(Given)
      BY <1>0, <1>1 DEF Stream
    <2>2. Len(buf) \in Nat /\ Len(rx) \in Nat
      BY <1>0, <2>1, LenProperties
    <2>3. Stream \in Seq(Given) /\ Len(Stream) = Len(buf) + Len(rx)
      BY <1>0, <2>1, ConcatProperties
    <2>4. EndOf(rx, Stream)
      BY <1>0, <2>1, EndsOf
    <2>5. buf # <<>> => Stream # <<>> /\ Stream[1] = buf[1]
      <3> SUFFICES ASSUME buf # <<>> PROVE Stream # <<>> /\ Stream[1] = buf[1]
        OBVIOUS
      <3>1. Len(buf) # 0
        BY <2>1, EmptySeq
      <3>2. 1 \in 1 .. Len(buf) + Len(rx) /\ 1 <= Len(buf) /\ Len(Stream) # 0
        BY <2>2, <2>3, <3>1
      <3>3. Stream[1] = buf[1]
        BY <1>0, <2>1, <3>2, ConcatProperties
      <3> QED
        BY <3>2, <3>3, EmptySeq
    <2>6. \A i \in 1 .. Len(Stream) : Stream[i] \in Given
      BY <2>3, ElementOfSeq
    <2> QED
      BY <1>0, <1>1, <2>1, <2>2, <2>3, <2>4, <2>5, <2>6
  <1>2. CASE ~Waiting
    <2>1. Stream = rx
      BY <1>2 DEF Stream
    <2> QED
      BY <1>0, <1>2, <2>1, EndsOf, LenProperties, ElementOfSeq
  <1> QED
    BY <1>1, <1>2

(* Reading shifts bytes inside the stream, and serving does not touch it.  *)
LEMMA StreamKept ==
    ASSUME IInv,
           \/ ReadStart \/ ReadMore \/ PeerCloses \/ UNCHANGED vars
           \/ \E n \in Calls, form \in {"normal", "exception", "alien", "silent"} : Serve(n, form)
    PROVE  Stream' = Stream /\ UNCHANGED <<conn, calls, code, on, sent, stuck>>
  <1>0. /\ TypeOK /\ rx \in Seq(Given)
        /\ UNCHANGED <<conn, calls, code, on, sent, stuck>>
    BY StreamIsGiven DEF IInv, ReadStart, ReadMore, PeerCloses, Serve, vars, linkVars, callVars, serverVars
  <1>1. CASE ReadStart
    <2>1. /\ conn' = conn /\ sent' = sent /\ Waiting /\ Waiting' /\ buf = <<>>
          /\ rx' = Left(rx, MaxLen) /\ buf' = Taken(rx, MaxLen)
      BY <1>1 DEF ReadStart, Receiving, Waiting, linkVars, serverVars, callVars
    <2>2. Taken(rx, MaxLen) \o Left(rx, MaxLen) = rx /\ <<>> \o rx = rx
      BY <1>0, ReadSplits, ConcatEmptySeq, TcpAssumption
    <2>3. Stream' = Stream
      BY <2>1, <2>2 DEF Stream
    <2> QED
      BY <1>0, <2>3
  <1>2. CASE ReadMore
    <2> DEFINE room == MaxLen - Len(buf)
    <2>1. /\ conn' = conn /\ sent' = sent /\ Waiting /\ Waiting'
          /\ rx' = Left(rx, room) /\ buf' = buf \o Taken(rx, room)
      BY <1>2 DEF ReadMore, Receiving, Waiting, linkVars, serverVars, callVars
    <2>2. room \in Nat
      BY <1>0, LenProperties, TcpAssumption DEF TypeOK
    <2> HIDE DEF room
    <2>3. /\ Taken(rx, room) \o Left(rx, room) = rx
          /\ Taken(rx, room) \in Seq(Given) /\ Left(rx, room) \in Seq(Given)
      BY <1>0, <2>2, ReadSplits, ReadTakes
    <2>4. buf \in Seq(Given)
      BY <2>1, StreamIsGiven
    <2>5. ASSUME NEW t \in Seq(Given), NEW u \in Seq(Given)
          PROVE  (buf \o t) \o u = buf \o (t \o u)
      <3> DEFINE G == Given
      <3>1. buf \in Seq(G) /\ t \in Seq(G) /\ u \in Seq(G)
        BY <2>4
      <3> HIDE DEF G
      <3> QED
        BY <3>1, ConcatAssociative
    <2>6. Stream' = Stream
      BY <2>1, <2>3, <2>5 DEF Stream
    <2> QED
      BY <1>0, <2>6
  <1>3. CASE \/ PeerCloses \/ UNCHANGED vars
             \/ \E n \in Calls, form \in {"normal", "exception", "alien", "silent"} : Serve(n, form)
    <2>1. UNCHANGED <<calls, code, conn, sent, rx, buf>>
      BY <1>3 DEF PeerCloses, Serve, vars, linkVars, callVars, serverVars
    <2>2. Stream' = Stream
      BY <2>1 DEF Stream, Waiting
    <2> QED
      BY <1>0, <2>2
  <1> QED
    BY <1>0, <1>1, <1>2, <1>3

(* What the server sends is appended to the stream.                        *)
LEMMA StreamGrows ==
    ASSUME IInv, NEW n \in Calls, NEW k \in 1 .. FrameLen(n) - sent[n], Send(n, k)
    PROVE  /\ k \in Nat \ {0} /\ HasAnswer(n) /\ on[n] = conn
           /\ UNCHANGED <<conn, asked, on, server, calls, code, stuck>>
           /\ Len(Stream') = Len(Stream) + k
           /\ \A i \in 1 .. Len(Stream) : Stream'[i] = Stream[i]
           /\ \A j \in 1 .. k : Stream'[Len(Stream) + j] = <<n, sent[n] + j>>
           /\ sent'[n] = sent[n] + k
           /\ \A m \in Calls : m # n => sent'[m] = sent[m]
           /\ \A m \in Calls : sent[m] \in Nat /\ sent'[m] \in Nat /\ sent'[m] <= sent[m] + k
  <1> DEFINE part == [i \in 1 .. k |-> <<n, sent[n] + i>>]
  <1>0. TypeOK /\ Stream \in Seq(Given) /\ rx \in Seq(Given) /\ Len(Stream) \in Nat
    BY StreamIsGiven DEF IInv
  <1>1. k \in Nat \ {0} /\ sent[n] \in Nat
    BY <1>0, FrameLenType DEF TypeOK
  <1>2. /\ HasAnswer(n) /\ on[n] = conn
        /\ UNCHANGED <<conn, asked, on, server, calls, code, stuck, buf>>
        /\ sent' = [sent EXCEPT ![n] = sent[n] + k] /\ rx' = rx \o part
    BY DEF Send, OnThis, Talking, linkVars, callVars
  <1>3. \A i \in 1 .. k : <<n, sent[n] + i>> \in Given
    BY <1>1, <1>2 DEF Given, ByteOfAnswer
  <1>4. part \in Seq(Given) /\ Len(part) = k /\ \A i \in 1 .. k : part[i] = <<n, sent[n] + i>>
    BY <1>1, <1>3, IsASeq, LenProperties
  <1> HIDE DEF part
  <1>5. Stream' = Stream \o part
    <2>1. ASSUME Waiting PROVE (buf \o rx) \o part = buf \o (rx \o part)
      <3> DEFINE G == Given
      <3>1. buf \in Seq(G) /\ rx \in Seq(G) /\ part \in Seq(G)
        BY <1>0, <1>4, <2>1, StreamIsGiven
      <3> HIDE DEF G
      <3> QED
        BY <3>1, ConcatAssociative
    <2> QED
      BY <1>2, <2>1 DEF Stream, Waiting
  <1>6. /\ Len(Stream') = Len(Stream) + k
        /\ \A i \in 1 .. Len(Stream) + k :
               Stream'[i] = IF i <= Len(Stream) THEN Stream[i] ELSE part[i - Len(Stream)]
    BY <1>0, <1>4, <1>5, ConcatProperties
  <1>7. \A i \in 1 .. Len(Stream) : Stream'[i] = Stream[i]
    BY <1>0, <1>1, <1>6
  <1>8. ASSUME NEW j \in 1 .. k PROVE Stream'[Len(Stream) + j] = <<n, sent[n] + j>>
    <2>1. /\ Len(Stream) + j \in 1 .. Len(Stream) + k /\ ~(Len(Stream) + j <= Len(Stream))
          /\ Len(Stream) + j - Len(Stream) = j
      BY <1>0, <1>1
    <2> QED
      BY <1>4, <1>6, <2>1
  <1>9. /\ sent'[n] = sent[n] + k
        /\ \A m \in Calls : m # n => sent'[m] = sent[m]
        /\ \A m \in Calls : sent[m] \in Nat /\ sent'[m] \in Nat /\ sent'[m] <= sent[m] + k
    <2>1. sent \in [Calls -> Nat] /\ sent'[n] = sent[n] + k
      BY <1>0, <1>2 DEF TypeOK
    <2>2. \A m \in Calls : m # n => sent'[m] = sent[m]
      BY <1>2, <2>1
    <2>3. ASSUME NEW m \in Calls
          PROVE  sent[m] \in Nat /\ sent'[m] \in Nat /\ sent'[m] <= sent[m] + k
      <3>1. sent[m] \in Nat
        BY <2>1
      <3>2. CASE m = n
        BY <1>1, <2>1, <3>1, <3>2
      <3>3. CASE m # n
        BY <1>1, <2>2, <3>1, <3>3
      <3> QED
        BY <3>2, <3>3
    <2> QED
      BY <2>1, <2>2, <2>3
  <1> QED
    BY <1>1, <1>2, <1>6, <1>7, <1>8, <1>9

(* What a step does to the stream: a new link empties it, the server       *)
(* appends to it, and the code takes from its front.                       *)
LEMMA StreamSteps ==
    ASSUME IInv, [Next]_vars
    PROVE  \/ Links /\ ~Waiting' /\ Stream' = <<>>
           \/ conn' = conn /\ sent' = sent /\ EndOf(Stream', Stream)
           \/ \E n \in Calls : \E k \in 1 .. FrameLen(n) - sent[n] : Send(n, k)
  <1>0. /\ TypeOK /\ Unmade /\ Numbers
        /\ Stream \in Seq(Given) /\ rx \in Seq(Given) /\ EndOf(rx, Stream)
        /\ EndOf(Stream, Stream)
    BY StreamIsGiven, EndsOf DEF IInv
  <1>1. CASE Links
    <2>1. ~Waiting' /\ rx' = <<>>
      BY <1>1 DEF Links, Idle, Waiting, callVars
    <2> QED
      BY <1>1, <2>1 DEF Stream
  <1>2. CASE Refuses
    <2>1. conn' = conn /\ sent' = sent /\ rx' = rx
      BY <1>2 DEF Refuses, Begin
    <2>2. ~Waiting'
      BY <1>0, <1>2, Begun DEF Refuses, Waiting
    <2> QED
      BY <1>0, <2>1, <2>2 DEF Stream
  <1>3. ASSUME NEW r \in Requests, CallSent(r)
        PROVE  conn' = conn /\ sent' = sent /\ EndOf(Stream', Stream)
    <2>1. conn' = conn /\ sent' = sent /\ rx' = rx /\ buf' = <<>>
      BY <1>3 DEF CallSent, Begin
    <2>2. <<>> \o rx = rx
      BY <1>0, ConcatEmptySeq
    <2>3. Stream' = rx
      BY <2>1, <2>2 DEF Stream
    <2> QED
      BY <1>0, <2>1, <2>3
  <1>4. CASE Fails \/ \E m \in Calls : Accept(m)
    <2>1. conn' = conn /\ sent' = sent /\ rx' = rx /\ ~Waiting'
      BY <1>4, EndedIsIdle DEF linkVars, serverVars
    <2> QED
      BY <1>0, <2>1 DEF Stream
  <1>5. CASE ReadMiddle
    <2>1. /\ conn' = conn /\ sent' = sent /\ Waiting /\ Waiting' /\ buf = <<>> /\ buf' = <<>>
          /\ rx' = Left(rx, MaxLen)
      BY <1>5 DEF ReadMiddle, Receiving, Waiting, linkVars, serverVars, callVars
    <2>2. rx' \in Seq(Given)
      BY <1>0, <2>1, ReadTakes, TcpAssumption
    <2>3. <<>> \o rx = rx /\ <<>> \o rx' = rx'
      BY <1>0, <2>2, ConcatEmptySeq
    <2>4. Stream' = rx' /\ Stream = rx
      BY <2>1, <2>3 DEF Stream
    <2>5. EndOf(Left(rx, MaxLen), rx)
      BY <1>0, ReadSplits, TcpAssumption
    <2> QED
      BY <2>1, <2>4, <2>5
  <1>6. CASE \/ ReadStart \/ ReadMore \/ PeerCloses \/ UNCHANGED vars
             \/ \E n \in Calls, form \in {"normal", "exception", "alien", "silent"} : Serve(n, form)
    BY <1>0, <1>6, StreamKept
  <1> QED
    BY <1>0, <1>1, <1>2, <1>3, <1>4, <1>5, <1>6, Kinds

(* What follows a byte follows it still, as long as nothing is sent.       *)
LEMMA StaysFollowed ==
    ASSUME IInv, InTurn, Unsent, [Next]_vars, conn' = conn, sent' = sent,
           NEW b \in Given, NEW left \in Int, Followed(b, left)
    PROVE  Followed(b, left)'
  <1> USE Ranges
  <1>0. /\ TypeOK /\ Unmade /\ Numbers
        /\ b[1] \in Calls /\ b[2] \in Nat /\ HasAnswer(b[1]) /\ on[b[1]] = conn
    BY DEF IInv, Given, ByteOfAnswer
  <1>1. b[1] \in 1 .. calls /\ server'[b[1]] = server[b[1]] /\ asked'[b[1]] = asked[b[1]]
    BY <1>0, Stable
  <1>2. FrameLen(b[1])' = FrameLen(b[1])
    BY <1>1 DEF FrameLen, AnswerOf
  <1>3. ASSUME NEW n \in Calls, HasAnswer(n)', on'[n] = conn', n > b[1]
        PROVE  left >= FrameLen(b[1]) - b[2] + sent[n]
    <2>1. n \in 1 .. calls
      BY <1>0, <1>3, Answerers
    <2>2. on[n] = conn
      BY <1>0, <1>3, <2>1, Stable
    <2>3. CASE HasAnswer(n)
      BY <1>3, <2>2, <2>3 DEF Followed
    <2>4. ASSUME NEW form \in {"normal", "exception", "alien", "silent"}, Serve(n, form), ~HasAnswer(n)
          PROVE  left >= FrameLen(b[1]) - b[2] + sent[n]
      <3>1. b[1] \in 1 .. n - 1
        BY <1>0, <1>3
      <3>2. ~Talking(b[1])
        BY <1>0, <2>2, <2>4, <3>1 DEF Serve
      <3>3. FrameLen(b[1]) \in Nat /\ sent[b[1]] \in Nat
        BY <1>0, FrameLenType DEF TypeOK
      <3>4. sent[b[1]] >= FrameLen(b[1])
        BY <1>0, <3>2, <3>3 DEF Talking
      <3>5. sent[n] = 0
        BY <2>4 DEF Unsent
      <3>6. left >= sent[b[1]] - b[2]
        BY DEF Followed
      <3> QED
        BY <1>0, <3>3, <3>4, <3>5, <3>6
    <2> QED
      BY <1>0, <1>3, <2>3, <2>4, Answerers
  <1> QED
    BY <1>2, <1>3 DEF Followed, Calls

LEMMA NextBehind ==
    ASSUME IInv, InTurn, Unsent, Behind, [Next]_vars
    PROVE  Behind'
  <1> USE Ranges
  <1>0. /\ TypeOK /\ Unmade /\ Numbers
        /\ Stream \in Seq(Given) /\ Len(Stream) \in Nat
        /\ \A i \in 1 .. Len(Stream) : Stream[i] \in Given
    BY StreamIsGiven DEF IInv
  <1>1. CASE Links /\ Stream' = <<>>
    <2>1. Len(Stream') = 0
      BY <1>1, EmptySeq
    <2> QED
      BY <2>1 DEF Behind
  <1>2. CASE conn' = conn /\ sent' = sent /\ EndOf(Stream', Stream)
    <2>1. PICK d \in 0 .. Len(Stream) :
              /\ Len(Stream') = Len(Stream) - d
              /\ \A i \in 1 .. Len(Stream') : Stream'[i] = Stream[i + d]
      BY <1>2 DEF EndOf
    <2> SUFFICES ASSUME NEW i \in 1 .. Len(Stream')
                 PROVE  \A b, left : (b = Stream'[i] /\ left = Len(Stream') - i) => Followed(b, left)'
      BY DEF Behind
    <2>2. /\ i + d \in 1 .. Len(Stream) /\ Stream'[i] = Stream[i + d]
          /\ Len(Stream') - i = Len(Stream) - (i + d) /\ Len(Stream') - i \in Int
      BY <1>0, <2>1
    <2>3. Followed(Stream[i + d], Len(Stream) - (i + d)) /\ Stream[i + d] \in Given
      BY <1>0, <2>2 DEF Behind
    <2> QED
      BY <1>2, <2>2, <2>3, StaysFollowed
  <1>3. ASSUME NEW n \in Calls, NEW k \in 1 .. FrameLen(n) - sent[n], Send(n, k)
        PROVE  Behind'
    <2>1. k \in Nat \ {0} /\ sent[n] \in Nat /\ HasAnswer(n) /\ on[n] = conn
      BY <1>3, StreamGrows
    <2>4. /\ Len(Stream') = Len(Stream) + k
          /\ \A i \in 1 .. Len(Stream) : Stream'[i] = Stream[i]
          /\ \A j \in 1 .. k : Stream'[Len(Stream) + j] = <<n, sent[n] + j>>
      BY <1>3, StreamGrows
    <2>5. /\ UNCHANGED <<conn, asked, on, server>> /\ sent'[n] = sent[n] + k
          /\ \A m \in Calls : sent[m] \in Nat /\ sent'[m] \in Nat /\ sent'[m] <= sent[m] + k
      BY <1>3, StreamGrows
    <2>6. \A m \in Calls : FrameLen(m)' = FrameLen(m) /\ (HasAnswer(m)' <=> HasAnswer(m))
      BY <2>5 DEF FrameLen, AnswerOf, HasAnswer
    <2>7. \A m \in Calls : sent[m] \in Nat /\ FrameLen(m) \in Nat
      BY <1>0, FrameLenType DEF TypeOK
    <2> SUFFICES ASSUME NEW i \in 1 .. Len(Stream')
                 PROVE  \A b, left : (b = Stream'[i] /\ left = Len(Stream') - i) => Followed(b, left)'
      BY DEF Behind
    <2>8. CASE i <= Len(Stream)
      <3> DEFINE b == Stream[i]
                 left == Len(Stream) - i
      <3>1. b = Stream'[i] /\ Len(Stream') - i = left + k /\ left \in Int
        <4>1. Stream'[i] = Stream[i]
          <5>1. i \in 1 .. Len(Stream)
            BY <1>0, <2>1, <2>4, <2>8
          <5> QED
            BY <2>4, <5>1
        <4>2. i \in Int /\ Len(Stream) \in Int /\ Len(Stream') = Len(Stream) + k /\ k \in Int
          BY <1>0, <2>1, <2>4
        <4> QED
          BY <4>1, <4>2
      <3>2. Followed(b, left) /\ b \in Given
        BY <1>0, <2>8 DEF Behind
      <3> HIDE DEF b, left
      <3>3. b[1] \in Calls /\ b[2] \in Nat
        BY <3>2 DEF Given, ByteOfAnswer
      <3>4. left + k >= sent'[b[1]] - b[2]
        <4>1. left >= sent[b[1]] - b[2]
          BY <3>2 DEF Followed
        <4>2. sent'[b[1]] <= sent[b[1]] + k /\ sent[b[1]] \in Nat /\ sent'[b[1]] \in Nat
          BY <2>5, <3>3
        <4>3. b[2] \in Nat /\ left \in Int /\ k \in Nat
          BY <2>1, <3>1, <3>3
        <4> QED
          BY <4>1, <4>2, <4>3
      <3>5. ASSUME NEW m \in Calls, HasAnswer(m), on[m] = conn, m > b[1]
            PROVE  left + k >= FrameLen(b[1]) - b[2] + sent'[m]
        <4>1. left >= FrameLen(b[1]) - b[2] + sent[m]
          BY <3>2, <3>5 DEF Followed
        <4>2. sent'[m] <= sent[m] + k /\ sent'[m] \in Nat
          BY <2>5
        <4>3. b[2] \in Nat /\ left \in Int /\ k \in Nat /\ sent[m] \in Nat /\ FrameLen(b[1]) \in Nat
          BY <2>1, <2>7, <3>1, <3>3
        <4> QED
          BY <4>1, <4>2, <4>3
      <3>6. \A c, l : (c = b /\ l = left + k) => Followed(c, l)'
        BY <2>5, <2>6, <3>3, <3>4, <3>5 DEF Followed, Calls
      <3> QED
        BY <3>1, <3>6
    <2>9. CASE i > Len(Stream)
      <3> DEFINE j == i - Len(Stream)
      <3>1. j \in 1 .. k /\ Len(Stream') - i = k - j
        BY <1>0, <2>1, <2>4, <2>9
      <3>2. Stream'[i] = <<n, sent[n] + j>>
        <4>1. Len(Stream) + j = i
          BY <1>0, <2>1, <2>4
        <4> QED
          BY <2>4, <3>1, <4>1
      <3> HIDE DEF j
      <3>3. k - j >= sent'[n] - (sent[n] + j)
        BY <2>1, <2>5, <3>1
      <3>4. ASSUME NEW m \in Calls, HasAnswer(m), on[m] = conn, m > n PROVE FALSE
        <4>1. n \in 1 .. m - 1
          BY <3>4 DEF Calls
        <4> QED
          BY <1>3, <2>1, <3>4, <4>1 DEF InTurn, Send
      <3>5. \A c, l : (c = <<n, sent[n] + j>> /\ l = k - j) => Followed(c, l)'
        BY <2>5, <2>6, <3>3, <3>4 DEF Followed, Calls
      <3> QED
        BY <3>1, <3>2, <3>5
    <2> QED
      BY <1>0, <2>4, <2>8, <2>9
  <1> QED
    BY <1>1, <1>2, <1>3, StreamSteps

(* The frame that is refused for its number is of an earlier call of the   *)
(* connection, and all that was sent to the pending call is still to come. *)
LEMMA WrongIsOlder ==
    ASSUME IInv, Here, Heads, Behind, NEW m \in Calls, WrongId(m)
    PROVE  /\ m \in 1 .. calls - 1 /\ on[m] = on[calls]
           /\ HasAnswer(calls) => Len(rx) >= sent[calls]
  <1> USE Ranges
  <1>0. /\ TypeOK /\ Unmade /\ Numbers
        /\ Waiting /\ calls \in Calls /\ Complete /\ buf[1][1] = m /\ ~SameId(m)
    BY DEF IInv, WrongId, Finished
  <1>1. buf \in Seq(Given) /\ Len(buf) >= 7 /\ Len(buf) = FrameLen(m)
    BY <1>0, StreamIsGiven DEF Complete
  <1>2. /\ Len(buf) \in Nat /\ Len(rx) \in Nat /\ Len(Stream) = Len(buf) + Len(rx)
        /\ 1 \in 1 .. Len(buf) /\ 1 \in 1 .. Len(Stream)
    BY <1>0, <1>1, StreamIsGiven
  <1>3. buf # <<>>
    BY <1>2, EmptySeq
  <1>4. Stream[1] = buf[1] /\ buf[1] \in Given /\ buf[1][2] = 1
    BY <1>0, <1>1, <1>2, <1>3, StreamIsGiven, ElementOfSeq DEF Heads
  <1>5. HasAnswer(m) /\ on[m] = conn
    BY <1>0, <1>4 DEF Given
  <1>6. m # calls
    BY <1>0 DEF Here, SameId
  <1>7. m \in 1 .. calls - 1
    BY <1>0, <1>5, <1>6, Stable DEF Unmade, HasAnswer, Calls
  <1>8. on[calls] = conn
    BY <1>0 DEF Here
  <1>9. ASSUME HasAnswer(calls) PROVE Len(rx) >= sent[calls]
    <2>1. Followed(Stream[1], Len(Stream) - 1)
      BY <1>2 DEF Behind
    <2>2. calls > Stream[1][1] /\ Stream[1][1] = m /\ Stream[1][2] = 1
      BY <1>0, <1>4, <1>7
    <2>3. Len(Stream) - 1 >= FrameLen(m) - 1 + sent[calls]
      BY <1>0, <1>8, <1>9, <2>1, <2>2 DEF Followed
    <2>4. sent[calls] \in Nat
      BY <1>0 DEF TypeOK
    <2> QED
      BY <1>1, <1>2, <2>3, <2>4
  <1> QED
    BY <1>5, <1>7, <1>8, <1>9

(* A step begins a call, or there are as many as before.                   *)
LEMMA BeginsOrStays ==
    ASSUME TypeOK, Unmade, Numbers, [Next]_vars
    PROVE  \/ calls' = calls
           \/ /\ calls' = calls + 1
              /\ \E r \in Requests, c \in Int, i \in {transId, transId + 1} : Begin(r, c, i)
  <1>1. ASSUME Refuses \/ \E r \in Requests : CallSent(r)
        PROVE  \E r \in Requests, c \in Int, i \in {transId, transId + 1} : Begin(r, c, i)
    BY <1>1 DEF Refuses, CallSent, Pending
  <1>2. ASSUME \/ Links \/ Fails \/ ReadStart \/ ReadMiddle \/ ReadMore \/ PeerCloses \/ UNCHANGED vars
               \/ \E m \in Calls : Accept(m)
               \/ \E m \in Calls, form \in {"normal", "exception", "alien", "silent"} : Serve(m, form)
               \/ \E m \in Calls : \E k \in 1 .. FrameLen(m) - sent[m] : Send(m, k)
        PROVE  calls' = calls
    BY <1>2 DEF Links, Fails, Accept, End, ReadStart, ReadMiddle, ReadMore, PeerCloses, Serve, Send, vars, callVars
  <1> QED
    BY <1>1, <1>2, Kinds DEF Begin

(* A call is refused for its number only by the check of the number.       *)
LEMMA Refused ==
    ASSUME IInv, [Next]_vars, NEW n \in 1 .. calls', code'[n] = MBE_BAD_TRANSACTION_ID
    PROVE  /\ n \in 1 .. calls
           /\ \/ code[n] = MBE_BAD_TRANSACTION_ID
              \/ /\ n = calls /\ calls' = calls /\ UNCHANGED <<on, server, sent, rx>>
                 /\ \E m \in Calls : WrongId(m)
  <1> USE Ranges
  <1>0. TypeOK /\ Unmade /\ Numbers
    BY DEF IInv
  <1>1. ASSUME NEW r \in Requests, NEW c \in Int, NEW i \in {transId, transId + 1}, Begin(r, c, i),
               c # MBE_BAD_TRANSACTION_ID
        PROVE  n \in 1 .. calls /\ code[n] = MBE_BAD_TRANSACTION_ID
    BY <1>0, <1>1, Begun
  <1>2. CASE Refuses
    BY <1>1, <1>2 DEF Refuses
  <1>3. CASE \E r \in Requests : CallSent(r)
    <2>1. Pending \in Int /\ Pending # MBE_BAD_TRANSACTION_ID
      BY DEF Pending, MBE_BAD_TRANSACTION_ID
    <2> QED
      BY <1>1, <1>3, <2>1 DEF CallSent
  <1>4. CASE Fails \/ \E m \in Calls : Accept(m)
    BY <1>0, <1>4, EndedIsIdle DEF serverVars
  <1>5. CASE \/ Links \/ ReadStart \/ ReadMiddle \/ ReadMore \/ PeerCloses \/ UNCHANGED vars
             \/ \E m \in Calls, form \in {"normal", "exception", "alien", "silent"} : Serve(m, form)
             \/ \E m \in Calls : \E k \in 1 .. FrameLen(m) - sent[m] : Send(m, k)
    <2>1. UNCHANGED <<calls, code>>
      BY <1>5 DEF Links, ReadStart, ReadMiddle, ReadMore, PeerCloses, Serve, Send, vars, callVars
    <2> QED
      BY <2>1
  <1> QED
    BY <1>0, <1>2, <1>3, <1>4, <1>5, Kinds

(* A call that has an answer or is heard was so when it was made.          *)
LEMMA WasHeard ==
    ASSUME IInv, [Next]_vars, NEW n \in 1 .. calls, HasAnswer(n)' \/ server'[n] = "heard"
    PROVE  HasAnswer(n) \/ server[n] = "heard"
  BY Answerers, Ranges DEF IInv, Serve

LEMMA NextFreshLink ==
    ASSUME IInv, Here, Heads, Behind, FreshLinkNoLag, [Next]_vars
    PROVE  FreshLinkNoLag'
  <1> USE Ranges
  <1>0. TypeOK /\ Unmade /\ Numbers
    BY DEF IInv
  <1> SUFFICES ASSUME NEW n \in 1 .. calls', code'[n] = MBE_BAD_TRANSACTION_ID
               PROVE  \E m \in 1 .. n - 1 : on'[m] = on'[n]
    BY DEF FreshLinkNoLag
  <1>1. PICK m \in 1 .. n - 1 : on[m] = on[n]
    BY <1>0, Refused, WrongIsOlder DEF FreshLinkNoLag
  <1>2. n \in 1 .. calls /\ m \in 1 .. calls
    BY <1>0, <1>1, Refused
  <1> QED
    BY <1>0, <1>1, <1>2, Stable

LEMMA NextLeftBehind ==
    ASSUME IInv, Unsent, Here, Heads, Behind, LeftBehind, [Next]_vars
    PROVE  LeftBehind'
  <1> USE Ranges
  <1>0. TypeOK /\ Unmade /\ Numbers /\ Len(rx) \in Nat /\ rx \in Seq(Given)
    BY StreamIsGiven DEF IInv
  <1> SUFFICES ASSUME calls' > 0, isOpen', \A n : n = calls' => Lagged(n)'
               PROVE  \A n : n = calls' => Len(rx') >= sent'[n]
    BY DEF LeftBehind, Lagged, HasAnswer
  <1>1. calls' \in Nat /\ calls' \in 1 .. calls' /\ code'[calls'] = MBE_BAD_TRANSACTION_ID
        /\ on'[calls'] = conn'
    <2>1. calls' \in Nat
      BY <1>0, NextTypes DEF TypeOK
    <2> QED
      BY <2>1 DEF Lagged
  <1>2. calls \in 1 .. calls /\ calls' = calls
    <2>1. calls' \in 1 .. calls
      BY <1>1, Refused
    <2>2. calls' >= calls
      BY <1>0, BeginsOrStays
    <2> QED
      BY <1>0, <2>1, <2>2
  <1>3. HasAnswer(calls) \/ server[calls] = "heard"
    <2>1. HasAnswer(calls)' \/ server'[calls] = "heard"
      BY <1>2 DEF Lagged, HasAnswer
    <2>2. \A n : n = calls => (HasAnswer(n)' \/ server'[n] = "heard")
      BY <1>2 DEF Lagged
    <2> QED
      BY <1>2, <2>2, WasHeard
  <1>4. CASE \E m \in Calls : WrongId(m) /\ UNCHANGED <<sent, rx>>
    <2>1. HasAnswer(calls) => Len(rx) >= sent[calls]
      BY <1>4, WrongIsOlder
    <2>2. ~HasAnswer(calls) => sent[calls] = 0
      BY <1>0, <1>2 DEF Unsent
    <2> QED
      BY <1>0, <1>2, <1>4, <2>1, <2>2
  <1>5. ASSUME code[calls] = MBE_BAD_TRANSACTION_ID PROVE Len(rx') >= sent'[calls]
    <2>1. ~Waiting
      BY <1>5 DEF Waiting, Pending, MBE_BAD_TRANSACTION_ID
    <2>2. on[calls] = conn'
      BY <1>0, <1>1, <1>2, Stable
    <2>3. ~NewLink("up") /\ ~NewLink("dead") /\ ~NoLink
      <3>1. on[calls] <= conn
        BY <1>0, <1>2 DEF Numbers
      <3> QED
        BY <1>0, <2>2, <3>1 DEF NewLink, NoLink
    <2>4. CASE conn' = conn /\ isOpen' = isOpen /\ sent' = sent /\ rx' = rx
      BY <1>0, <1>2, <1>3, <1>5, <2>2, <2>4 DEF LeftBehind, Lagged
    <2>5. ASSUME NEW n \in Calls, NEW k \in 1 .. FrameLen(n) - sent[n], Send(n, k)
          PROVE  Len(rx') >= sent'[calls]
      <3>1. /\ k \in Nat \ {0} /\ Len(Stream') = Len(Stream) + k /\ conn' = conn
            /\ UNCHANGED <<code, calls>>
            /\ sent[calls] \in Nat /\ sent'[calls] \in Nat /\ sent'[calls] <= sent[calls] + k
        BY <1>0, <1>2, <2>5, StreamGrows
      <3>2. isOpen
        BY <2>5 DEF Send, OnThis
      <3>3. Stream = rx /\ Stream' = rx'
        BY <2>1, <3>1 DEF Stream, Waiting
      <3>4. Len(rx) >= sent[calls]
        BY <1>0, <1>2, <1>3, <1>5, <2>2, <3>1, <3>2 DEF LeftBehind, Lagged
      <3> QED
        BY <1>0, <3>1, <3>3, <3>4
    <2>6. \/ conn' = conn /\ isOpen' = isOpen /\ sent' = sent /\ rx' = rx
          \/ \E n \in Calls : \E k \in 1 .. FrameLen(n) - sent[n] : Send(n, k)
      <3>1. ~Links
        BY <2>3 DEF Links
      <3>2. ~Refuses /\ ~(\E r \in Requests : CallSent(r))
        <4>1. calls \in Nat /\ calls' # calls + 1
          BY <1>0, <1>2
        <4> QED
          BY <4>1 DEF Refuses, CallSent, Begin
      <3>3. ~Fails /\ ~(\E m \in Calls : Accept(m)) /\ ~ReadStart /\ ~ReadMiddle /\ ~ReadMore
        BY <2>1 DEF Fails, Accept, Finished, ReadStart, ReadMiddle, ReadMore, Receiving
      <3>4. ASSUME \/ PeerCloses \/ UNCHANGED vars
                   \/ \E n \in Calls, form \in {"normal", "exception", "alien", "silent"} : Serve(n, form)
            PROVE  conn' = conn /\ isOpen' = isOpen /\ sent' = sent /\ rx' = rx
        BY <3>4 DEF PeerCloses, Serve, vars, linkVars, serverVars
      <3> QED
        BY <1>0, <3>1, <3>2, <3>3, <3>4, Kinds
    <2> QED
      BY <2>4, <2>5, <2>6
  <1> QED
    BY <1>1, <1>2, <1>4, <1>5, Refused

(* The next call has what the one that lagged left before its own answer.  *)
LEMMA NextDrawsOlder ==
    ASSUME IInv, InTurn, LeftBehind, DrawsOlder, [Next]_vars
    PROVE  DrawsOlder'
  <1> USE Ranges
  <1>0. /\ TypeOK /\ Unmade /\ Numbers /\ Len(rx) \in Nat /\ rx \in Seq(Given)
        /\ Stream \in Seq(Given) /\ Len(Stream) \in Nat
    BY StreamIsGiven DEF IInv
  <1> SUFFICES ASSUME NEW n \in Calls, Waiting', calls' = n + 1, Lagged(n)', ~stuck'
               PROVE  /\ Len(Stream') >= sent'[n]
                      /\ Stream' # <<>> => Stream'[1][1] <= n
    BY DEF DrawsOlder, Calls
  <1>1. n \in Nat /\ n \in 1 .. calls'
    BY <1>0
  <1>2. CASE \E r \in Requests : CallSent(r)
    <2>1. /\ isOpen /\ conn' = conn /\ sent' = sent /\ rx' = rx /\ buf' = <<>> /\ Idle /\ calls' = calls + 1
      BY <1>2 DEF CallSent, Begin
    <2>2. n = calls /\ n \in 1 .. calls
      BY <1>0, <1>1, <2>1
    <2>3. Stream' = rx
      <3>1. <<>> \o rx = rx
        BY <1>0, ConcatEmptySeq
      <3> QED
        BY <2>1, <3>1 DEF Stream
    <2>4. Lagged(n)
      <3>1. code[n] = MBE_BAD_TRANSACTION_ID
        BY <1>0, <1>1, <2>1, <2>2, Refused DEF Lagged
      <3>2. HasAnswer(n) \/ server[n] = "heard"
        BY <2>2, WasHeard DEF Lagged
      <3>3. on[n] = conn
        BY <1>0, <2>1, <2>2, Stable DEF Lagged
      <3> QED
        BY <3>1, <3>2, <3>3 DEF Lagged
    <2>5. Len(rx) >= sent[n]
      BY <1>0, <2>1, <2>2, <2>4 DEF LeftBehind
    <2>6. ASSUME rx # <<>> PROVE rx[1][1] <= n
      <3>1. 1 \in 1 .. Len(rx)
        BY <1>0, <2>6, EmptySeq
      <3>2. rx[1] \in Given
        BY <1>0, <3>1, ElementOfSeq
      <3>3. HasAnswer(rx[1][1]) /\ rx[1][1] \in Calls
        BY <3>2 DEF Given, ByteOfAnswer
      <3>4. rx[1][1] \in 1 .. calls
        BY <1>0, <3>3, Stable
      <3> QED
        BY <1>0, <2>2, <3>4
    <2> QED
      BY <2>1, <2>3, <2>5, <2>6
  <1>3. ASSUME calls' = calls, UNCHANGED <<code, on, conn>> PROVE Lagged(n)
    <2>1. n \in 1 .. calls
      BY <1>1, <1>3
    <2> QED
      BY <1>3, <2>1, WasHeard DEF Lagged
  <1>4. CASE \/ ReadStart \/ ReadMore \/ PeerCloses \/ UNCHANGED vars
             \/ \E m \in Calls, form \in {"normal", "exception", "alien", "silent"} : Serve(m, form)
    <2>1. Stream' = Stream /\ UNCHANGED <<conn, calls, code, on, sent, stuck>>
      BY <1>4, StreamKept
    <2>2. Lagged(n) /\ Waiting
      BY <1>3, <2>1 DEF Waiting
    <2> QED
      BY <2>1, <2>2 DEF DrawsOlder
  <1>5. ASSUME NEW m \in Calls, NEW k \in 1 .. FrameLen(m) - sent[m], Send(m, k)
        PROVE  /\ Len(Stream') >= sent'[n]
               /\ Stream' # <<>> => Stream'[1][1] <= n
    <2>1. /\ k \in Nat \ {0} /\ HasAnswer(m) /\ on[m] = conn
          /\ UNCHANGED <<conn, asked, on, server, calls, code, stuck>>
          /\ Len(Stream') = Len(Stream) + k
          /\ \A i \in 1 .. Len(Stream) : Stream'[i] = Stream[i]
          /\ \A j \in 1 .. k : Stream'[Len(Stream) + j] = <<m, sent[m] + j>>
          /\ sent[n] \in Nat /\ sent'[n] \in Nat /\ sent'[n] <= sent[n] + k
      BY <1>5, StreamGrows
    <2>2. Lagged(n) /\ Waiting
      BY <1>3, <2>1 DEF Waiting
    <2>3. /\ Len(Stream) >= sent[n]
          /\ Stream # <<>> => Stream[1][1] <= n
      BY <2>1, <2>2 DEF DrawsOlder
    <2>4. Len(Stream') >= sent'[n]
      BY <1>0, <2>1, <2>3
    <2>5. CASE Stream # <<>>
      <3>1. 1 \in 1 .. Len(Stream)
        BY <1>0, <2>5, EmptySeq
      <3> QED
        BY <2>1, <2>3, <2>4, <2>5, <3>1
    <2>6. CASE Stream = <<>>
      <3>1. Len(Stream) = 0
        BY <2>6, EmptySeq
      <3>2. Stream'[1] = <<m, sent[m] + 1>>
        <4>1. 1 \in 1 .. k /\ Len(Stream) + 1 = 1
          BY <2>1, <3>1
        <4> QED
          BY <2>1, <4>1
      <3>3. m \in 1 .. n + 1
        BY <1>0, <2>1, Stable
      <3>4. m # n + 1
        <4> SUFFICES ASSUME m = n + 1 PROVE FALSE
          OBVIOUS
        <4>1. n \in 1 .. m - 1 /\ on[n] = on[m]
          BY <1>1, <2>1, <2>2 DEF Lagged
        <4>2. server[n] # "heard" /\ ~Talking(n)
          BY <2>1, <4>1 DEF InTurn
        <4>3. HasAnswer(n)
          BY <2>2, <4>2 DEF Lagged
        <4>4. sent[n] > 7
          BY <1>0, <2>1, <4>2, <4>3, FrameLenType DEF Talking
        <4> QED
          BY <2>1, <2>3, <3>1, <4>4
      <3> QED
        BY <1>1, <2>4, <3>2, <3>3, <3>4
    <2> QED
      BY <2>5, <2>6
  <1>6. ~Links /\ ~ReadMiddle
    BY DEF Links, ReadMiddle, Idle, Waiting, callVars
  <1>7. ~Refuses
    BY <1>0, Begun DEF Refuses, Waiting
  <1>8. ~Fails /\ ~(\E m \in Calls : Accept(m))
    BY EndedIsIdle
  <1> QED
    BY <1>0, <1>2, <1>4, <1>5, <1>6, <1>7, <1>8, Kinds

(* What a call took for its answer, it took in the step that ended it.     *)
LEMMA Took ==
    ASSUME IInv, [Next]_vars, NEW j \in 1 .. calls', re'[j] # 0
    PROVE  /\ j \in 1 .. calls
           /\ re'[j] = re[j] \/ (j = calls /\ \E m \in Calls : Accept(m))
  <1> USE Ranges
  <1>0. TypeOK /\ Unmade /\ Numbers
    BY DEF IInv
  <1>1. CASE calls' # calls
    BY <1>0, <1>1, BeginsOrStays, Begun
  <1>2. CASE calls' = calls
    <2>1. CASE Fails
      BY <1>0, <1>2, <2>1 DEF Fails, TypeOK
    <2>2. ASSUME NEW m \in Calls, Accept(m)
          PROVE  re'[j] = re[j] \/ j = calls
      BY <1>0, <1>2, <2>2 DEF Accept, End, TypeOK
    <2>3. ~Refuses /\ ~(\E r \in Requests : CallSent(r))
      BY <1>0, <1>2 DEF Refuses, CallSent, Begin
    <2>4. ASSUME \/ Links \/ ReadStart \/ ReadMiddle \/ ReadMore \/ PeerCloses \/ UNCHANGED vars
                 \/ \E m \in Calls, form \in {"normal", "exception", "alien", "silent"} : Serve(m, form)
                 \/ \E m \in Calls : \E k \in 1 .. FrameLen(m) - sent[m] : Send(m, k)
          PROVE  re' = re
      BY <2>4 DEF Links, ReadStart, ReadMiddle, ReadMore, PeerCloses, Serve, Send, vars, callVars
    <2> QED
      BY <1>0, <1>2, <2>1, <2>2, <2>3, <2>4, Kinds
  <1> QED
    BY <1>1, <1>2

LEMMA NextLagPersists ==
    ASSUME IInv, Here, DrawsOlder, LagPersists, [Next]_vars
    PROVE  LagPersists'
  <1> USE Ranges
  <1>0. TypeOK /\ Unmade /\ Numbers /\ Provenance
    BY DEF IInv
  <1> SUFFICES ASSUME NEW n \in 1 .. calls' - 1, code'[n] = MBE_BAD_TRANSACTION_ID,
                      HasAnswer(n)' \/ server'[n] = "heard",
                      on'[n + 1] = on'[n], IdsSuffice, re'[n + 1] # 0
               PROVE  FALSE
    BY DEF LagPersists, IdsSuffice
  <1>1. n \in Nat /\ n \in 1 .. calls' /\ n + 1 \in 1 .. calls'
    <2>1. calls' \in Int
      <3>1. calls \in Int
        BY <1>0
      <3> QED
        BY <1>0, <3>1, BeginsOrStays
    <2>2. \A c \in Int : \A i \in 1 .. c - 1 : i \in Nat /\ i \in 1 .. c /\ i + 1 \in 1 .. c
      OBVIOUS
    <2> QED
      BY <2>1, <2>2
  <1>2. n + 1 \in 1 .. calls /\ n \in 1 .. calls /\ n \in 1 .. calls - 1 /\ n # calls
    <2>1. n + 1 \in 1 .. calls
      BY <1>1, Took
    <2> QED
      BY <1>0, <1>1, <2>1
  <1>3. code[n] = MBE_BAD_TRANSACTION_ID
    BY <1>1, <1>2, Refused
  <1>4. HasAnswer(n) \/ server[n] = "heard"
    BY <1>2, WasHeard
  <1>5. on[n + 1] = on[n]
    BY <1>0, <1>2, Stable
  <1>6. re[n + 1] = 0
    BY <1>2, <1>3, <1>4, <1>5 DEF LagPersists
  <1>7. PICK m \in Calls : Accept(m) /\ n + 1 = calls
    BY <1>1, <1>6, Took
  <1>8. m = calls
    BY <1>0, <1>7, AcceptedIsOwn
  <1>9. Waiting /\ ~stuck /\ Len(buf) >= 7 /\ buf[1][1] = m
    BY <1>7 DEF Accept, Finished, Complete
  <1>10. Lagged(n)
    BY <1>3, <1>4, <1>5, <1>7, <1>9 DEF Lagged, Here
  <1>11. Stream # <<>> /\ Stream[1] = buf[1]
    <2>1. buf # <<>>
      <3>1. buf = <<>> => Len(buf) = 0
        BY EmptySeq
      <3> QED
        BY <1>9, <3>1
    <2> QED
      BY <1>9, <2>1, StreamIsGiven
  <1>12. Stream[1][1] <= n
    BY <1>2, <1>0, <1>7, <1>9, <1>10, <1>11 DEF DrawsOlder
  <1> QED
    BY <1>1, <1>7, <1>8, <1>9, <1>11, <1>12

LEMMA InitOrder == Init => Order
  <1> SUFFICES ASSUME Init PROVE Order
    OBVIOUS
  <1>1. /\ calls = 0 /\ rx = <<>> /\ code = [n \in Calls |-> 0] /\ sent = [n \in Calls |-> 0]
        /\ server = [n \in Calls |-> "unheard"]
    BY Zenon DEF Init
  <1>2. ~Waiting /\ Stream = <<>> /\ Len(Stream) = 0
    BY <1>1, EmptySeq DEF Waiting, Stream
  <1>3. InTurn /\ Unsent
    BY <1>1 DEF InTurn, Unsent, HasAnswer
  <1>4. Here /\ Heads /\ Behind /\ DrawsOlder /\ LeftBehind
    BY <1>1, <1>2 DEF Here, Heads, Behind, DrawsOlder, LeftBehind
  <1>5. FreshLinkNoLag /\ LagPersists
    BY <1>1 DEF FreshLinkNoLag, LagPersists
  <1> QED
    BY <1>3, <1>4, <1>5 DEF Order

LEMMA OrderInvariance == Spec => []Order
  <1>1. IInv /\ Order /\ [Next]_vars => Order'
    BY NextInTurn, NextUnsent, NextHere, NextHeads, NextBehind, NextLeftBehind, NextDrawsOlder,
       NextFreshLink, NextLagPersists DEF Order
  <1> QED
    BY <1>1, InitOrder, Invariance, PTL DEF Spec

(* A call is refused for its number only where an earlier call was sent on *)
(* the same connection: connecting again ends a lag, for every server and  *)
(* every pattern of time-outs (modbus_tcp.cpp:140).                        *)
THEOREM FreshLinkHasNoLag == Spec => []FreshLinkNoLag
  BY OrderInvariance, PTL DEF Order

(* Until then the lag goes on: the call after one that drew an older       *)
(* answer does not succeed either, because what it reads first was sent    *)
(* before its own answer.                                                  *)
THEOREM LagGoesOn == Spec => []LagPersists
  BY OrderInvariance, PTL DEF Order
=============================================================================
