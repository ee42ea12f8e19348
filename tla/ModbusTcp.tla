----------------------------- MODULE ModbusTcp -----------------------------
(***************************************************************************)
(* A master calling tcp_bus::transaction (modbus_tcp.cpp) through the      *)
(* front end of modbus.cpp, the connection and the server behind it, with  *)
(* connect, reconnect and close.                                           *)
(*                                                                         *)
(* A byte of an answer is a pair <<n, i>>: byte i of the answer to call n. *)
(* Byte 1 is the magic 0xBE; a byte that is not the first of a frame is    *)
(* taken not to be 0xBE.  The header (7 bytes) carries the transaction     *)
(* number, the protocol number, the length and the unit of the answer.     *)
(* The transaction number is kept unbounded and compared modulo IdMod, the *)
(* range of the uint8_t that holds it.                                     *)
(***************************************************************************)
EXTENDS ModbusPdu, ModbusStream

CONSTANTS Requests,     \* the requests the application makes
          Units,        \* the addresses the server answers for
          MaxCalls,     \* bound: calls made
          MaxConns,     \* bound: connections made
          MaxLen,       \* len, the size of the receive buffer: maxilen + 10
          IdMod,        \* the number of transaction numbers, 256 in the code
          SplitAt,      \* bound: where a frame may be split on its way
          Late,         \* the server may stay silent for over 120 s
          PeerFails,    \* the server may close the connection
          IoErrors,     \* a system call may fail on a sound connection
          Aliens        \* the server may answer with another protocol number

ASSUME TcpAssumption ==
    /\ Requests \subseteq Request /\ Requests # {}
    /\ Units \subseteq 1 .. 255
    /\ MaxCalls \in Nat /\ MaxConns \in Nat /\ MaxLen \in Nat
    /\ IdMod \in Nat \ {0}
    /\ SplitAt \subseteq Nat
    /\ Late \in BOOLEAN /\ PeerFails \in BOOLEAN
    /\ IoErrors \in BOOLEAN /\ Aliens \in BOOLEAN

VARIABLES isOpen,       \* tcp_fd >= 0
          peer,         \* the other end: "up", "fin" (it closed) or "dead"
          conn,         \* the number of connections made so far
          transId,      \* trans_id, not wrapped
          calls,        \* the number of calls made so far
          asked,        \* asked[n]: the request of call n
          id,           \* id[n]: the transaction number of call n
          on,           \* on[n]: the connection call n was sent on
          code,         \* code[n]: what call n returned
          re,           \* re[n]: the call whose answer call n took, 0 for none
          server,       \* server[n]: what the server made of call n
          sent,         \* sent[n]: how many bytes of its answer are sent
          rx,           \* bytes the kernel holds for tcp_fd
          buf,          \* buffer[0 .. rcvd-1]
          stuck         \* the search for the magic byte does not end

linkVars   == <<isOpen, peer, conn>>
callVars   == <<calls, asked, id, on, code, re>>
serverVars == <<server, sent>>
vars == <<isOpen, peer, conn, transId, calls, asked, id, on, code, re,
          server, sent, rx, buf, stuck>>

Calls   == 1 .. MaxCalls
Pending == 1            \* not a value the code returns: the call has not

Waiting == calls > 0 /\ code[calls] = Pending
Idle    == ~Waiting

Init ==
    /\ isOpen = FALSE /\ peer = "dead" /\ conn = 0
    /\ transId = 0
    /\ calls = 0
    /\ asked = [n \in Calls |-> CHOOSE r \in Requests : TRUE]
    /\ id = [n \in Calls |-> 0] /\ on = [n \in Calls |-> 0]
    /\ code = [n \in Calls |-> 0] /\ re = [n \in Calls |-> 0]
    /\ server = [n \in Calls |-> "unheard"]
    /\ sent = [n \in Calls |-> 0]
    /\ rx = <<>> /\ buf = <<>> /\ stuck = FALSE

----------------------------------------------------------------------------
(* Frames.  An alien answer is a normal one but for its protocol number.   *)

AnswerOf(n)  == Answer(asked[n], IF server[n] = "alien" THEN "normal" ELSE server[n])
FrameLen(n)  == AnswerOf(n).len + 7
HasAnswer(n) == server[n] \in {"normal", "exception", "alien"}
Talking(n)   == HasAnswer(n) /\ sent[n] < FrameLen(n)
OnThis(n)    == isOpen /\ on[n] = conn
Owed == \E n \in Calls : OnThis(n) /\ (Talking(n) \/ server[n] = "heard")

----------------------------------------------------------------------------
(* connect, reconnect and close.  The wait for the connection ends when    *)
(* the socket turns writable, which a refused one does too: SO_ERROR is    *)
(* not asked.  What the kernel holds for the old connection is lost.       *)

NewLink(p) ==
    /\ conn < MaxConns
    /\ isOpen' = TRUE /\ peer' = p /\ conn' = conn + 1

NoLink == isOpen' = FALSE /\ peer' = "dead" /\ conn' = conn

Connect(outcome) ==
    /\ Idle /\ ~isOpen
    /\ transId' = 0
    /\ CASE outcome = "fails"   -> NoLink
         [] outcome = "up"      -> NewLink("up")
         [] outcome = "refused" -> NewLink("dead")
    /\ rx' = <<>>
    /\ UNCHANGED <<callVars, serverVars, buf, stuck>>

(* Mutant: the data of the old connection is not dropped.                  *)
ReconnectKeepingData(outcome) ==
    /\ Idle /\ isOpen /\ peer # "dead"
    /\ IF outcome = "up" THEN NewLink("up") ELSE NoLink
    /\ UNCHANGED <<transId, callVars, serverVars, rx, buf, stuck>>

(* getpeername knows no peer on a dead connection: then nothing changes.   *)
Reconnect(outcome) ==
    /\ Idle /\ isOpen /\ peer # "dead"
    /\ CASE outcome = "fails"   -> NoLink
         [] outcome = "up"      -> NewLink("up")
         [] outcome = "refused" -> NewLink("dead")
    /\ rx' = <<>>
    /\ UNCHANGED <<transId, callVars, serverVars, buf, stuck>>

Close ==
    /\ Idle /\ isOpen
    /\ NoLink
    /\ rx' = <<>>
    /\ UNCHANGED <<transId, callVars, serverVars, buf, stuck>>

----------------------------------------------------------------------------
(* A call of the front end, up to the wait for the answer.                 *)

Begin(r, c, i) ==
    /\ Idle /\ calls < MaxCalls
    /\ calls' = calls + 1
    /\ asked' = [asked EXCEPT ![calls + 1] = r]
    /\ code'  = [code EXCEPT ![calls + 1] = c]
    /\ id'    = [id EXCEPT ![calls + 1] = i]
    /\ on'    = [on EXCEPT ![calls + 1] = conn]
    /\ transId' = i
    /\ UNCHANGED <<isOpen, conn, re, sent, rx, stuck>>

CallRefused(r) ==
    /\ Refusal(r) # 0
    /\ Begin(r, Refusal(r), transId)
    /\ UNCHANGED <<peer, server, buf>>

CallNotConnected(r) ==
    /\ Refusal(r) = 0 /\ ~isOpen
    /\ Begin(r, MBE_NOT_CONNECTED, transId)
    /\ UNCHANGED <<peer, server, buf>>

(* The number is used up when write fails.  To a peer that is dead write   *)
(* raises SIGPIPE first, which ends a program that neither ignores nor     *)
(* handles it, as nothing in the library does: what is modelled is one     *)
(* that ignores it.                                                        *)
CallSendFails(r) ==
    /\ Refusal(r) = 0 /\ isOpen
    /\ IoErrors \/ peer = "dead"
    /\ Begin(r, MBE_SEND_REQUEST_FAILED, transId + 1)
    /\ UNCHANGED <<peer, server, buf>>

(* To a peer that has closed the write succeeds, once.  A broadcast goes   *)
(* the same way: "device & 0xFF == 0" is device & (0xFF == 0), always 0.   *)
CallSent(r) ==
    /\ Refusal(r) = 0 /\ isOpen /\ peer # "dead"
    /\ Begin(r, Pending, transId + 1)
    /\ server' = [server EXCEPT ![calls + 1] = IF peer = "up" THEN "heard" ELSE "unheard"]
    /\ peer' = IF peer = "up" THEN "up" ELSE "dead"
    /\ buf' = <<>>

----------------------------------------------------------------------------
(* The receive loop.                                                       *)

End(c, m) ==
    /\ code' = [code EXCEPT ![calls] = c]
    /\ re'   = [re EXCEPT ![calls] = m]
    /\ UNCHANGED <<linkVars, transId, calls, asked, id, on, serverVars, buf, stuck>>

(* Mutant: six bytes are taken for the header and the whole.               *)
CompleteOffByOne == Len(buf) >= 7 /\ Len(buf) = FrameLen(buf[1][1]) - 1

(* Once the header is in, the size of the whole answer is known; the loop  *)
(* ends when exactly that much has come.                                   *)
Complete  == Len(buf) >= 7 /\ Len(buf) = FrameLen(buf[1][1])
Receiving == Waiting /\ ~stuck /\ ~Complete

(* The first read of a call whose data starts a frame.                     *)
ReadStart ==
    /\ Receiving /\ buf = <<>> /\ rx # <<>>
    /\ rx[1][2] = 1
    /\ buf' = Taken(rx, MaxLen)
    /\ rx'  = Left(rx, MaxLen)
    /\ UNCHANGED <<linkVars, transId, callVars, serverVars, stuck>>

(* The first read of a call whose data starts inside a frame: the search   *)
(* for 0xBE increments i, not off, and looks at one byte for ever.         *)
ReadMiddle ==
    /\ Receiving /\ buf = <<>> /\ rx # <<>>
    /\ rx[1][2] # 1
    /\ rx' = Left(rx, MaxLen)
    /\ stuck' = TRUE
    /\ UNCHANGED <<linkVars, transId, callVars, serverVars, buf>>

(* Built without optimisation the search ends when i wraps to INT_MIN, and *)
(* the next read is asked for a nonsense length at a nonsense address.     *)
SearchWraps ==
    /\ Waiting /\ stuck
    /\ stuck' = FALSE
    /\ code' = [code EXCEPT ![calls] = MBE_RECEIVE_FAILED]
    /\ UNCHANGED <<linkVars, transId, calls, asked, id, on, re, serverVars, rx, buf>>

ReadMore ==
    /\ Receiving /\ buf # <<>> /\ rx # <<>>
    /\ Len(buf) < MaxLen
    /\ buf' = buf \o Taken(rx, MaxLen - Len(buf))
    /\ rx'  = Left(rx, MaxLen - Len(buf))
    /\ UNCHANGED <<linkVars, transId, callVars, serverVars, stuck>>

(* read returns 0 when the buffer is full or the peer has closed, and -1   *)
(* on a dead connection.                                                   *)
ReadFails ==
    /\ Receiving
    /\ \/ rx # <<>> /\ Len(buf) >= MaxLen
       \/ rx = <<>> /\ peer # "up"
    /\ End(MBE_RECEIVE_FAILED, 0)
    /\ UNCHANGED rx

(* select or read fails though the connection is sound.                    *)
ReceiveFails ==
    /\ IoErrors /\ Receiving
    /\ End(MBE_RECEIVE_FAILED, 0)
    /\ UNCHANGED rx

(* Mutant: select waits without a limit while nothing has come.            *)
SelectExpiresAfterData ==
    /\ Receiving /\ rx = <<>> /\ buf # <<>>
    /\ Late \/ ~Owed
    /\ End(MBE_RECEIVE_FAILED, 0)
    /\ UNCHANGED rx

(* select gives up: it is handed what is left of the 120 s each time.      *)
SelectExpires ==
    /\ Receiving /\ rx = <<>>
    /\ Late \/ ~Owed
    /\ End(MBE_RECEIVE_FAILED, 0)
    /\ UNCHANGED rx

(* The clock is looked at only after a read that did not complete.         *)
ClockExpires ==
    /\ Receiving /\ buf # <<>> /\ Late
    /\ End(MBE_TIMED_OUT, 0)
    /\ UNCHANGED rx

(* Mutant: the transaction number is not compared.                         *)
AnyId(m) == m \in Calls

(* The checks of a complete answer, in their order.                        *)
SameUnit(m) == Addr(asked[m].dev) = asked[calls].dev
SameId(m)   == id[m] % IdMod = transId % IdMod

Finished(m) == Waiting /\ ~stuck /\ Complete /\ buf[1][1] = m

WrongDevice(m) ==
    /\ Finished(m) /\ ~SameUnit(m)
    /\ End(MBE_UNEXPECTED_DEVICE_RESPONDED, 0)
    /\ UNCHANGED rx

(* Mutant: a wrong number makes the code drop what it could read next.     *)
WrongIdFlushing(m) ==
    /\ Finished(m) /\ SameUnit(m) /\ ~SameId(m)
    /\ End(MBE_BAD_TRANSACTION_ID, 0)
    /\ rx' = <<>>

WrongId(m) ==
    /\ Finished(m) /\ SameUnit(m) /\ ~SameId(m)
    /\ End(MBE_BAD_TRANSACTION_ID, 0)
    /\ UNCHANGED rx

WrongProtocol(m) ==
    /\ Finished(m) /\ SameUnit(m) /\ SameId(m) /\ server[m] = "alien"
    /\ End(MBE_BAD_PROTOCOL_ID, 0)
    /\ UNCHANGED rx

Accept(m) ==
    /\ Finished(m) /\ SameUnit(m) /\ SameId(m) /\ server[m] # "alien"
    /\ End(Validate(asked[calls], AnswerOf(m)), m)
    /\ UNCHANGED rx

----------------------------------------------------------------------------
(* The server answers the requests of a connection in order.  It has no    *)
(* answer for a broadcast or for a unit it does not know.                  *)

Answerable(r) == Addr(r.dev) \in Units

Serve(n, form) ==
    /\ server[n] = "heard"
    /\ \A m \in 1 .. n - 1 : on[m] = on[n] => server[m] # "heard" /\ ~Talking(m)
    /\ form \in IF Answerable(asked[n])
                THEN {"normal", "exception"} \cup (IF Aliens THEN {"alien"} ELSE {})
                ELSE {"silent"}
    /\ server' = [server EXCEPT ![n] = form]
    /\ UNCHANGED <<linkVars, transId, callVars, sent, rx, buf, stuck>>

Send(n, k) ==
    /\ Talking(n) /\ OnThis(n) /\ peer = "up"
    /\ sent[n] + k \in SplitAt \cup {FrameLen(n)}
    /\ sent' = [sent EXCEPT ![n] = @ + k]
    /\ rx' = rx \o [i \in 1 .. k |-> <<n, sent[n] + i>>]
    /\ UNCHANGED <<linkVars, transId, callVars, server, buf, stuck>>

PeerCloses ==
    /\ PeerFails /\ isOpen /\ peer = "up"
    /\ peer' = "fin"
    /\ UNCHANGED <<isOpen, conn, transId, callVars, serverVars, rx, buf, stuck>>

----------------------------------------------------------------------------
User ==
    \/ \E outcome \in {"fails", "up", "refused"} : Connect(outcome) \/ Reconnect(outcome)
    \/ Close
    \/ \E r \in Requests :
          CallRefused(r) \/ CallNotConnected(r) \/ CallSendFails(r) \/ CallSent(r)

Loop ==
    \/ ReadStart \/ ReadMiddle \/ ReadMore
    \/ ReadFails \/ SelectExpires \/ ClockExpires
    \/ \E m \in Calls : WrongDevice(m) \/ WrongId(m) \/ WrongProtocol(m) \/ Accept(m)

Server(n) ==
    \/ \E form \in {"normal", "exception", "alien", "silent"} : Serve(n, form)
    \/ \E k \in 1 .. FrameLen(n) - sent[n] : Send(n, k)

Next == User \/ Loop \/ ReceiveFails \/ SearchWraps \/ (\E n \in Calls : Server(n)) \/ PeerCloses

Spec == Init /\ [][Next]_vars

(* The loop runs until it returns or is stuck; the server goes on with     *)
(* what it began.  Nothing obliges a system call to fail, nor a stuck      *)
(* search to wrap.                                                         *)
FairSpec == Spec /\ WF_vars(Loop) /\ \A n \in Calls : WF_vars(Server(n))

----------------------------------------------------------------------------
(* Properties.                                                             *)

ByteOfAnswer == Calls \X (Nat \ {0})

(* The types of the variables; a call waits only on an open connection and *)
(* the receive buffer never holds more than len bytes                      *)
(* (transaction, modbus_tcp.cpp:82-94).                                    *)
TypeOK ==
    /\ isOpen \in BOOLEAN /\ peer \in {"up", "fin", "dead"}
    /\ conn \in 0 .. MaxConns
    /\ calls \in 0 .. MaxCalls /\ transId \in 0 .. calls
    /\ asked \in [Calls -> Requests]
    /\ id \in [Calls -> Nat] /\ on \in [Calls -> 0 .. MaxConns]
    /\ code \in [Calls -> Int] /\ re \in [Calls -> 0 .. MaxCalls]
    /\ server \in [Calls -> {"unheard", "heard", "normal", "exception", "alien", "silent"}]
    /\ sent \in [Calls -> Nat]
    /\ rx \in Seq(ByteOfAnswer)
    /\ buf \in Seq(ByteOfAnswer) /\ Len(buf) <= MaxLen
    /\ stuck \in BOOLEAN
    /\ Waiting => isOpen

IdsSuffice == MaxCalls <= IdMod

(* Whatever the server, the network and the user do, as long as the calls  *)
(* are not more than the transaction numbers: a call takes its own answer  *)
(* or none, the answer has the right protocol number, and a call that      *)
(* returns 0 was answered normally (modbus_tcp.cpp:136-147).               *)
OwnAnswer ==
    IdsSuffice =>
        \A n \in 1 .. calls :
            /\ re[n] # 0 => re[n] = n /\ server[n] \in {"normal", "exception"}
            /\ code[n] = 0 => re[n] = n /\ server[n] = "normal"

(* A call that drew an answer of an earlier call leaves its own answer in  *)
(* the stream, if it has one: the next call on the connection does not     *)
(* succeed either, and so on until something empties the stream            *)
(* (modbus_tcp.cpp:140 returns without a look at what is left).            *)
LagPersists ==
    \A n \in 1 .. calls - 1 :
        (/\ code[n] = MBE_BAD_TRANSACTION_ID
         /\ HasAnswer(n) \/ server[n] = "heard"
         /\ on[n + 1] = on[n] /\ IdsSuffice)
            => re[n + 1] = 0

(* The first call on a connection draws no answer of an earlier one:       *)
(* closing and connecting again is what ends a lag.                        *)
FreshLinkNoLag ==
    \A n \in 1 .. calls :
        code[n] = MBE_BAD_TRANSACTION_ID =>
            \E m \in 1 .. n - 1 : on[m] = on[n]

(* The promise of a bus, exactly while the transaction numbers suffice.    *)
Promise == INSTANCE ModbusTransport WITH
               answered <- {n \in Calls : HasAnswer(n)},
               busy     <- Waiting,
               Exact    <- IdsSuffice

(* The detailed specification keeps that promise through time-outs, lags   *)
(* and reconnections: each step is one of ModbusTransport or none.         *)
KeepsPromise == Promise!Spec

(* Every transaction returns.                                              *)
CallReturns == Waiting ~> Idle

(* Where the server answers within the deadline and nothing breaks, a call *)
(* the server heard and can answer takes its own answer, unless its target *)
(* is above 255.                                                           *)
HeardIsAnswered ==
    \A n \in Calls :
        (server[n] = "heard" /\ code[n] = Pending /\ Answerable(asked[n]))
            ~> (re[n] = n \/ asked[n].dev > 255)
=============================================================================
