------------------------- MODULE ConversationsProof -------------------------
(***************************************************************************)
(* What holds of the conversations for all values of the constants: for    *)
(* every Modbus request and answer, every setting of a port, every search  *)
(* for an instrument and every child and its pipes.  A behaviour of        *)
(* TalkSpec is one of one part, the others as they were at first.          *)
(***************************************************************************)
EXTENDS MCConversations, ModbusLemmas, FiniteSetTheorems, SequenceTheorems, WellFoundedInduction

----------------------------------------------------------------------------
(* The front end of Modbus: whatever a transaction delivers, the registers *)
(* a read hands over are those of its answer.                              *)

(* A call past the sanity check asks for at most 123 registers.            *)
SmallRequest == pc \in {"transaction", "validate"} => req.count <= 123

(* Registers are handed over when the call returns, not before.            *)
DataAtTheEnd == pc # "done" => data = "untouched"

(* The byte count is the answer's own when the answer is long enough to    *)
(* have one.                                                               *)
CountIsFresh == (pc = "validate" /\ ilen > 1) => buff.second.from = "answer"

IInv == /\ TypeOK /\ SmallRequest /\ DataAtTheEnd
        /\ CountIsFresh /\ ReadsTheAnswer

LEMMA InitIInv == Init => IInv
BY FrontEndAssumption
DEF FrontEndAssumption, Init, IInv, TypeOK, SmallRequest, DataAtTheEnd,
    CountIsFresh, ReadsTheAnswer, Leftover, Byte

LEMMA NextIInv ==
    ASSUME IInv, [Next]_vars
    PROVE  IInv'
<1>1. req \in Request
    BY FrontEndAssumption DEF IInv, TypeOK, FrontEndAssumption
<1>2. /\ req.count \in Nat /\ req.op \in Op
      /\ FunctionCode[req.op] \in Byte /\ req.address \div 256 \in Byte
    <2>1. req.address \in Register
        BY <1>1 DEF Request
    <2>2. req.address \div 256 \in Byte
        <3>1. \A n \in Nat : n < 65536 => n \div 256 \in 0 .. 255
            OBVIOUS
        <3>2. \A n \in Register : n \in Nat /\ n < 65536
            BY SMTT(30) DEF Register
        <3>3. \A n \in Register : n \div 256 \in 0 .. 255
            BY <3>1, <3>2
        <3>4. QED
            BY <2>1, <3>3, Zenon DEF Byte
    <2>3. req.count \in Nat /\ req.op \in Op
        BY <1>1, RequestParts
    <2>4. FunctionCode[req.op] \in Byte
        BY <2>3, Codes DEF Byte
    <2>5. QED
        BY <2>2, <2>3, <2>4
<1>3. CASE Refuse
    <2>1. Refusal(req) \in Int
        BY DEF Refusal, MBE_TOO_MANY, MBE_ADDRESS_OVERFLOW
    <2>2. QED
        BY <1>3, <2>1
        DEF Refuse, IInv, TypeOK, SmallRequest, DataAtTheEnd, CountIsFresh,
            ReadsTheAnswer
<1>4. CASE BuildRequest
    <2>1. req.count <= 123
        <3>1. Refusal(req) = 0
            BY <1>4 DEF BuildRequest
        <3>2. ~TooMany(req)
            BY <3>1, SMT DEF Refusal, MBE_TOO_MANY
        <3>3. QED
            BY <1>2, <3>2 DEF TooMany
    <2>2. QED
        BY <1>2, <1>4, <2>1
        DEF BuildRequest, IInv, TypeOK, SmallRequest, DataAtTheEnd,
            CountIsFresh, ReadsTheAnswer, Leftover
<1>5. ASSUME NEW e \in Errors, TransactionFails(e)
      PROVE  IInv'
    BY <1>5, FrontEndAssumption
    DEF FrontEndAssumption, TransactionFails, IInv, TypeOK, SmallRequest,
        DataAtTheEnd, CountIsFresh, ReadsTheAnswer
<1>6. ASSUME NEW fn \in Bytes, NEW second \in Bytes, NEW len \in Lengths,
             Deliver(fn, second, len)
      PROVE  IInv'
    <2>1. len \in 0 .. 258 /\ fn \in Byte /\ second \in Byte
        BY FrontEndAssumption DEF FrontEndAssumption
    <2>2. /\ buff'.fn.value \in Byte /\ buff'.second.value \in Byte
          /\ len > 1 => buff'.second.from = "answer"
        BY <1>6, <2>1 DEF Deliver, IInv, TypeOK, Fresh
    <2>3. QED
        BY <1>6, <2>1, <2>2
        DEF Deliver, IInv, TypeOK, SmallRequest, DataAtTheEnd, CountIsFresh,
            ReadsTheAnswer
<1>7. CASE Return
    <2>1. /\ Seen.fn \in Byte /\ Seen.second \in Byte /\ Seen.len \in Int
        BY DEF IInv, TypeOK, Seen
    <2>2. Validate(req, Seen) \in Int
        <3>1. -Seen.second \in Int
            BY <2>1 DEF Byte
        <3>2. MBE_BAD_RESPONSE_LENGTH \in Int
            BY DEF MBE_BAD_RESPONSE_LENGTH
        <3>3. QED
            BY <3>1, <3>2 DEF Validate, ReadReturn, WriteReturn
    <2>3. TypeOK'
        BY <1>7, <2>2 DEF Return, IInv, TypeOK
    <2>4. ASSUME data' # "untouched"
          PROVE  /\ ret' = 0 /\ data' = "answer"
                 /\ buff.second.from = "answer"
                 /\ ilen = 2 * req.count + 2 /\ req.count <= 123
        <3>1. data = "untouched" /\ req.count <= 123 /\ ilen \in Nat
            BY <1>7 DEF Return, IInv, DataAtTheEnd, SmallRequest, TypeOK
        <3>2. req.op \in Reads /\ ~IsException(Seen) /\ ret' = 0
            BY <1>7, <2>4, <3>1 DEF Return
        <3>3. ret' = ReadReturn(req.count, Seen)
            BY <1>7, <3>2 DEF Return, Validate
        <3>4. ret' = IF Seen.second # 2 * req.count \/ Seen.len # 2 * req.count + 2
                     THEN MBE_BAD_RESPONSE_LENGTH ELSE 0
            BY <3>2, <3>3, Zenon DEF ReadReturn
        <3>5. Seen.len = 2 * req.count + 2
            BY <3>2, <3>4 DEF MBE_BAD_RESPONSE_LENGTH
        <3>6. ilen = 2 * req.count + 2
            BY <3>5 DEF Seen
        <3>7. ilen > 1 /\ ilen >= 2 * req.count + 2
            BY <1>2, <3>6
        <3>8. data' = "answer"
            BY <1>7, <3>2, <3>7, Zenon DEF Return
        <3>9. buff.second.from = "answer"
            BY <1>7, <3>7, Zenon DEF Return, IInv, CountIsFresh
        <3>10. QED
            BY <3>1, <3>2, <3>6, <3>8, <3>9
    <2>5. QED
        BY <1>7, <2>3, <2>4
        DEF Return, IInv, SmallRequest, DataAtTheEnd, CountIsFresh,
            ReadsTheAnswer
<1>8. CASE UNCHANGED vars
    BY <1>8
    DEF vars, IInv, TypeOK, SmallRequest, DataAtTheEnd, CountIsFresh,
        ReadsTheAnswer
<1>9. QED
    BY <1>3, <1>4, <1>5, <1>6, <1>7, <1>8 DEF Next

(* A read that hands registers to the caller returns 0, and they are the   *)
(* bytes of an answer of exactly that many registers (modbus.cpp:94-104),  *)
(* for every request and every answer the transaction may deliver.         *)
THEOREM RegistersComeFromTheAnswer == Spec => []ReadsTheAnswer
<1>1. Init => IInv
    BY InitIInv
<1>2. IInv /\ [Next]_vars => IInv'
    BY NextIInv
<1>3. IInv => ReadsTheAnswer
    BY DEF IInv
<1>4. QED
    BY <1>1, <1>2, <1>3, PTL DEF Spec

(* ... and so it is beside the other conversations.                        *)
LEMMA TalkReadsTheAnswer == TalkSpec => []ReadsTheAnswer
<1>1. TalkInit => IInv
    BY InitIInv DEF TalkInit
<1>2. IInv /\ [TalkNext]_<<part, vars, lxiVars, serialVars, pexecVars>> => IInv'
    BY NextIInv DEF TalkNext
<1>3. QED
    BY <1>1, <1>2, PTL DEF TalkSpec, IInv

----------------------------------------------------------------------------
(* The serial port: an open one has the speed and parity of its settings.  *)

(* The driver knows the devices, and what it has of an open one is its     *)
(* flags and the speed that was set.                                       *)
LineInv ==
    /\ Line!TypeOK /\ Line!LineFollowsSettings
    /\ DOMAIN tty = Devices /\ DOMAIN lines = Devices
    /\ Line!Connected => tty[device] = [flags |-> tty[device].flags, speed |-> portSpeed]

LEMMA ParityFlags ==
    ASSUME NEW flags, NEW p \in Line!Parities
    PROVE  LET new == Line!WithParity(flags, p) IN
           /\ "PARENB" \in new <=> p \in {"prOdd", "prEven"}
           /\ "PARENB" \in new => ("PARODD" \in new <=> p = "prOdd")
           /\ "CSTOPB" \in new <=> p = "prHigh"
  BY DEF Line!Parities, Line!WithParity, Line!Odd, Line!Even

LEMMA InitLine == Line!Init => LineInv
  BY ConversationsAssumption DEF Line!Init, LineInv, Line!TypeOK, Line!LineFollowsSettings, Line!Connected,
     Line!NoDevice, Line!Speeds, Line!Parities

LEMMA NextLine ==
    ASSUME LineInv, [Line!Next]_serialVars
    PROVE  LineInv'
  <1> USE ConversationsAssumption DEF LineInv, Line!TypeOK, Line!LineFollowsSettings, Line!Connected,
     Line!NoDevice
  <1>1. CASE Line!Connect
    <2>1. CASE UNCHANGED <<device, fresh, tty, lines>>
      BY <1>1, <2>1 DEF Line!Connect
    <2>2. ASSUME NEW d \in Devices, device' = d, fresh',
                 port >= 0 => d = <<"ttyS", port>>, ~Line!Connected,
                 tty' = [tty EXCEPT ![d] = [flags |-> Line!WithParity(tty[d].flags, portParity) \ {"CSTOPB"},
                                            speed |-> portSpeed]],
                 lines' = [lines EXCEPT ![d] = {"RTS", "DTR"}],
                 UNCHANGED <<port, portSpeed, portParity>>
          PROVE  LineInv'
      <3> DEFINE new == Line!WithParity(tty[d].flags, portParity)
      <3>1. tty'[d] = [flags |-> new \ {"CSTOPB"}, speed |-> portSpeed]
        BY <2>2
      <3>2. /\ "PARENB" \in new <=> portParity \in {"prOdd", "prEven"}
            /\ "PARENB" \in new => ("PARODD" \in new <=> portParity = "prOdd")
        BY ParityFlags
      <3> HIDE DEF new
      <3>3. Line!TypeOK'
        BY <2>2
      <3>4. /\ tty'[d].speed = portSpeed
            /\ tty'[d].flags = new \ {"CSTOPB"}
        BY <3>1
      <3>5. Line!LineFollowsSettings'
        BY <2>2, <3>2, <3>4
      <3> QED
        BY <2>2, <3>1, <3>3, <3>4, <3>5
    <2> QED
      BY <1>1, <2>1, <2>2 DEF Line!Connect
  <1>2. CASE Line!Disconnect
    BY <1>2 DEF Line!Disconnect
  <1>3. ASSUME NEW n \in Numbers, Line!setPort(n) PROVE LineInv'
    BY <1>3 DEF Line!setPort
  <1>4. ASSUME NEW d \in Devices, Line!setPortName(d) PROVE LineInv'
    BY <1>4 DEF Line!setPortName
  <1>5. ASSUME NEW rate \in Rates, Line!setBaudRate(rate) PROVE LineInv'
    BY <1>5 DEF Line!setBaudRate
  <1>6. ASSUME NEW p \in Line!Parities, Line!setParity(p) PROVE LineInv'
    BY <1>6, ParityFlags DEF Line!setParity
  <1>7. ASSUME NEW b \in BOOLEAN, Line!setRTS(b) \/ Line!setDTR(b) PROVE LineInv'
    <2>1. UNCHANGED <<port, portName, portSpeed, portParity, device, tty, lines, fresh>>
      BY <1>7 DEF Line!setRTS, Line!setDTR
    <2> QED
      BY <2>1
  <1>8. ASSUME NEW d \in Devices, NEW left \in Foreign, Line!OthersUse(d, left) PROVE LineInv'
    BY <1>8 DEF Line!OthersUse
  <1>9. CASE UNCHANGED serialVars
    BY <1>9 DEF serialVars
  <1> QED
    BY <1>1, <1>2, <1>3, <1>4, <1>5, <1>6, <1>7, <1>8, <1>9 DEF Line!Next

(* Whatever others leave in the driver, and in whatever order speed,       *)
(* parity and device are set, before Connect or while the port is open, an *)
(* open port has the speed and the parity of its settings                  *)
(* (serial.cpp:41-68 and 193-223).                                         *)
THEOREM OpenPortFollowsSettings == TalkSpec => []LineFollowsSettings
  <1>1. TalkInit => LineInv
    BY InitLine DEF TalkInit
  <1>2. LineInv /\ [TalkNext]_<<part, vars, lxiVars, serialVars, pexecVars>> => LineInv'
    BY NextLine DEF TalkNext
  <1>3. LineInv => LineFollowsSettings
    BY DEF LineInv, LineFollowsSettings
  <1> QED
    BY <1>1, <1>2, <1>3, PTL DEF TalkSpec

----------------------------------------------------------------------------
(* The launcher: a call that fails leaves the descriptors as they were,    *)
(* and a child has its ends of the pipes for standard streams.             *)

(* A set of naturals that is not empty has a least member.                 *)
LEMMA LeastExists ==
    ASSUME NEW S \in SUBSET Nat, S # {}
    PROVE  \E x \in S : \A y \in S : x <= y
  <1> DEFINE T == {0 .. x : x \in S}
  <1>1. T \subseteq FiniteSubsetsOf(Nat) /\ T # {}
    <2>1. ASSUME NEW x \in S PROVE 0 .. x \in FiniteSubsetsOf(Nat)
      <3>1. IsFiniteSet(0 .. x) 
        BY FS_Interval
      <3>2. 0 .. x \in SUBSET Nat
        OBVIOUS
      <3> QED
        BY <3>1, <3>2, Zenon DEF FiniteSubsetsOf
    <2> QED
      BY <2>1
  <1>2. PICK X \in T : \A Y \in T : ~(<<Y, X>> \in StrictSubsetOrdering(Nat))
    <2> HIDE DEF T
    <2> QED
      BY <1>1, FS_StrictSubsetOrderingWellFounded, WFMin, Zenon
  <1>3. PICK x \in S : X = 0 .. x
    OBVIOUS
  <1>4. ASSUME NEW y \in S, y < x PROVE FALSE
    <2>1. 0 .. y \in T /\ 0 .. y \in SUBSET Nat /\ 0 .. x \in SUBSET Nat
      OBVIOUS
    <2>2. 0 .. y \subseteq 0 .. x /\ x \in 0 .. x /\ x \notin 0 .. y
      BY <1>4
    <2>3. <<0 .. y, 0 .. x>> \in StrictSubsetOrdering(Nat)
      BY <2>1, <2>2 DEF StrictSubsetOrdering
    <2> QED
      BY <1>2, <1>3, <2>1, <2>3
  <1> QED
    BY <1>4

LEMMA LowestIsIn ==
    ASSUME NEW S \in SUBSET Nat, S # {}
    PROVE  Launcher!Lowest(S) \in S
  BY LeastExists DEF Launcher!Lowest

LEMMA SameCount ==
    ASSUME NEW S
    PROVE  Launcher!Cardinality(S) = Cardinality(S)
  BY Zenon DEF Launcher!Cardinality, Cardinality

LEMMA TwoOf ==
    ASSUME NEW S, IsFiniteSet(S), Cardinality(S) >= 2
    PROVE  S # {} /\ \A x \in S : S \ {x} # {}
  <1>1. Cardinality(S) \in Nat /\ S # {}
    BY FS_CardinalityType, FS_EmptySet
  <1>2. ASSUME NEW x \in S PROVE S \ {x} # {}
    <2>1. IsFiniteSet(S \ {x}) /\ Cardinality(S \ {x}) = Cardinality(S) - 1
      BY FS_RemoveElement
    <2> QED
      BY <1>1, <2>1, FS_EmptySet
  <1> QED
    BY <1>1, <1>2

Streams == {"stdin", "stdout", "stderr"}

(* What a child gets of the pipe of a stream, and what the program keeps.  *)
Its(s)  == IF s = "stdin" THEN "r" ELSE "w"
Mine(s) == IF s = "stdin" THEN "w" ELSE "r"

(* What a descriptor may stand for.                                        *)
Things == {Launcher!Free, Launcher!Other}
          \cup {Launcher!End(c, s, e) : c \in Launcher!Children, s \in Streams, e \in {"r", "w"}}

LEMMA ThingsAre ==
    /\ Launcher!Free \in Things
    /\ \A c \in Launcher!Children, s \in Streams, e \in {"r", "w"} :
           /\ Launcher!End(c, s, e) \in Things
           /\ Launcher!End(c, s, e) # Launcher!Free
           /\ \A u \in Streams, f \in {"r", "w"} :
                  Launcher!End(c, s, e) = Launcher!End(c, u, f) => s = u /\ e = f
  <1>1. ASSUME NEW c \in Launcher!Children, NEW s \in Streams, NEW e \in {"r", "w"}
        PROVE  /\ Launcher!End(c, s, e) \in Things
               /\ Launcher!End(c, s, e) # Launcher!Free
    <2>1. Launcher!End(c, s, e) \in Things
      BY DEF Things
    <2>2. Launcher!End(c, s, e).is = "end" /\ Launcher!Free.is = "free"
      BY DEF Launcher!Free, Launcher!End
    <2> QED
      BY <2>1, <2>2
  <1>2. ASSUME NEW c, NEW s, NEW e, NEW u, NEW f, Launcher!End(c, s, e) = Launcher!End(c, u, f)
        PROVE  s = u /\ e = f
    <2>1. /\ Launcher!End(c, s, e).stream = s /\ Launcher!End(c, s, e).end = e
          /\ Launcher!End(c, u, f).stream = u /\ Launcher!End(c, u, f).end = f
      BY DEF Launcher!End
    <2> QED
      BY <1>2, <2>1
  <1>3. Launcher!Free \in Things
    BY DEF Things
  <1> QED
    BY <1>1, <1>2, <1>3

(* The streams a pipe was made for in the call that is under way.          *)
Piped == {s \in wanted : childEnd[s] # parentEnd[s]}

Todos == {<<"stdin", "stderr", "stdout">>, <<"stderr", "stdout">>, <<"stdout">>, <<>>}
Ahead(todo) ==
    CASE todo = <<"stdin", "stderr", "stdout">> -> Streams
      [] todo = <<"stderr", "stdout">> -> {"stderr", "stdout"}
      [] todo = <<"stdout">> -> {"stdout"}
      [] OTHER -> {}

PexecTypes ==
    /\ calls \in 0 .. MaxChildren /\ wanted \subseteq Streams
    /\ pexecPc \in Streams \cup {"fork", "close", "fail", "idle"}
    /\ pexecPc # "idle" => calls \in Launcher!Children
    /\ table \in [{0} \cup Launcher!Children -> [Launcher!Fds -> Things]]
    /\ before \in [Launcher!Fds -> Things]
    /\ parentEnd \in [Streams -> Launcher!Fds] /\ childEnd \in [Streams -> Launcher!Fds]
    /\ DOMAIN child = Launcher!Children

(* The table of the program during a call: what it was before, but for the *)
(* pipes that the call has made.                                           *)
CallTable ==
    pexecPc # "idle" =>
        /\ \A fd \in Launcher!Fds :
               \/ table[0][fd] = before[fd]
               \/ /\ before[fd] = Launcher!Free
                  /\ \E s \in Piped : fd \in {childEnd[s], parentEnd[s]}
        /\ \A s \in Piped :
               /\ before[childEnd[s]] = Launcher!Free /\ before[parentEnd[s]] = Launcher!Free
               /\ table[0][childEnd[s]] = Launcher!End(calls, s, Its(s))
               /\ table[0][parentEnd[s]] = Launcher!End(calls, s, Mine(s))
        /\ \A s \in Streams : s \notin Piped => childEnd[s] = 0 /\ parentEnd[s] = 0

(* The streams are taken up in their order.                                *)
Order ==
    /\ pexecPc = "stdin" => Piped = {}
    /\ pexecPc = "stdout" => Piped = wanted \cap {"stdin"}
    /\ pexecPc = "stderr" => Piped = wanted \cap {"stdin", "stdout"}
    /\ pexecPc \in {"fork", "close"} => Piped = wanted

Kits == [at : {"setup"}, todo : Todos, wanted : SUBSET Streams,
         mine : [Streams -> Launcher!Fds], its : [Streams -> Launcher!Fds],
         standard : SUBSET (0 .. 2)]

(* A child on its way has the pipes still to be copied on descriptors of   *)
(* their own, and those copied on the standard ones.                       *)
InSetUp(c) ==
    LET k == child[c] IN
    /\ k \in Kits
    /\ k.standard = 0 .. 2 =>
           /\ \A s \in k.wanted : k.mine[s] \notin 0 .. 2 /\ k.its[s] \notin 0 .. 2
           /\ \A s, u \in k.wanted : k.its[s] # k.mine[u]
           /\ \A s \in k.wanted :
                  IF s \in Ahead(k.todo)
                  THEN table[c][k.its[s]] = Launcher!End(c, s, Its(s))
                  ELSE table[c][Launcher!Number[s]] = Launcher!End(c, s, Its(s))

Runs(c) ==
    /\ child[c].wanted \subseteq Streams
    /\ child[c].standard = 0 .. 2 =>
           \A s \in child[c].wanted :
               table[c][Launcher!Number[s]] = Launcher!End(c, s, Its(s))

Kid(c) ==
    /\ child[c].at = "setup" => InSetUp(c)
    /\ child[c].at = "runs" => Runs(c)

PexecInv ==
    /\ PexecTypes /\ CallTable /\ Order
    /\ \A c \in Launcher!Children : Kid(c)

LEMMA StreamFacts ==
    /\ DOMAIN Launcher!Number = Streams
    /\ \A s \in Streams : /\ Its(s) \in {"r", "w"} /\ Mine(s) \in {"r", "w"} /\ Its(s) # Mine(s)
                          /\ Launcher!Number[s] \in 0 .. 2 /\ Launcher!Number[s] \in Launcher!Fds
                          /\ \A u \in Streams : Launcher!Number[s] = Launcher!Number[u] => s = u
    /\ 0 \in Launcher!Fds /\ 0 .. 2 \subseteq Launcher!Fds /\ Launcher!Fds \subseteq Nat
    /\ 0 \notin Launcher!Children /\ Launcher!Children \subseteq Nat /\ Launcher!Program = 0
  BY ConversationsAssumption DEF Launcher!Number, Streams, Its, Mine, Launcher!Fds, Launcher!Children,
     Launcher!Program

(* What a child that is not touched was, it still is.                      *)
LEMMA KidStays ==
    ASSUME NEW c, table'[c] = table[c], child'[c] = child[c], Kid(c)
    PROVE  Kid(c)'
  <1>1. InSetUp(c) => InSetUp(c)'
    BY DEF InSetUp
  <1>2. Runs(c) => Runs(c)'
    BY DEF Runs
  <1> QED
    BY <1>1, <1>2 DEF Kid

LEMMA InitPexec == Launcher!Init => PexecInv
  <1> SUFFICES ASSUME Launcher!Init PROVE PexecInv
    OBVIOUS
  <1> USE StreamFacts, ThingsAre
  <1>1. PICK closed \in SUBSET Closed :
            table = [p \in {Launcher!Program} \cup Launcher!Children |->
                     [fd \in Launcher!Fds |-> IF p = Launcher!Program /\ fd \in 0 .. 2 \ closed
                                              THEN Launcher!Other ELSE Launcher!Free]]
    BY Zenon DEF Launcher!Init
  <1>2. Launcher!Other \in Things
    BY DEF Things
  <1>3. table \in [{0} \cup Launcher!Children -> [Launcher!Fds -> Things]]
    BY <1>1, <1>2
  <1>4. /\ calls = 0 /\ wanted = {} /\ pexecPc = "idle" /\ before = table[0]
        /\ parentEnd = [s \in Streams |-> 0] /\ childEnd = [s \in Streams |-> 0]
        /\ child = [c \in Launcher!Children |-> [at |-> "none"]]
    BY DEF Launcher!Init, Launcher!Nothing
  <1>5. PexecTypes
    BY <1>3, <1>4, ConversationsAssumption DEF PexecTypes
  <1>6. CallTable /\ Order
    BY <1>4 DEF CallTable, Order
  <1>7. \A c \in Launcher!Children : Kid(c)
    BY <1>4 DEF Kid
  <1> QED
    BY <1>5, <1>6, <1>7 DEF PexecInv

(* A pipe takes two free descriptors.                                      *)
LEMMA PipeMakes ==
    ASSUME PexecTypes, Launcher!Pipe
    PROVE  \E mine, its \in Launcher!Fds :
               /\ mine # its /\ table[0][mine] = Launcher!Free /\ table[0][its] = Launcher!Free
               /\ DOMAIN table' = DOMAIN table
               /\ \A p \in Launcher!Children : table'[p] = table[p]
               /\ table'[0] = [[table[0] EXCEPT ![mine] = Launcher!End(calls, pexecPc, Mine(pexecPc))]
                                         EXCEPT ![its] = Launcher!End(calls, pexecPc, Its(pexecPc))]
               /\ parentEnd' = [parentEnd EXCEPT ![pexecPc] = mine]
               /\ childEnd' = [childEnd EXCEPT ![pexecPc] = its]
  <1> USE StreamFacts
  <1> DEFINE F == Launcher!FreeFds
             r == Launcher!Lowest(F)
             w == Launcher!Lowest(F \ {r})
  <1>1. /\ F \subseteq Launcher!Fds /\ F \in SUBSET Nat
        /\ \A fd \in F : fd \in Launcher!Fds /\ table[0][fd] = Launcher!Free
    BY DEF Launcher!FreeFds
  <1>2. IsFiniteSet(F)
    <2>1. IsFiniteSet(0 .. MaxFd)
      <3>1. 0 \in Int /\ MaxFd \in Int
        BY ConversationsAssumption
      <3> QED
        BY <3>1, FS_Interval
    <2>2. F \in SUBSET (0 .. MaxFd)
      BY <1>1 DEF Launcher!Fds
    <2> QED
      BY <2>1, <2>2, FS_Subset
  <1>3. F # {} /\ \A x \in F : F \ {x} # {}
    BY <1>2, TwoOf, SameCount DEF Launcher!Pipe
  <1>4. r \in F
    BY <1>1, <1>3, LowestIsIn
  <1>5. w \in F \ {r}
    <2>1. F \ {r} # {} /\ F \ {r} \in SUBSET Nat
      BY <1>1, <1>3, <1>4
    <2> QED
      BY <2>1, LowestIsIn
  <1> DEFINE mine == IF pexecPc = "stdin" THEN w ELSE r
             its  == IF pexecPc = "stdin" THEN r ELSE w
  <1>6. /\ pexecPc \in Streams
        /\ table' = [table EXCEPT ![0][r] = Launcher!End(calls, pexecPc, "r"),
                                  ![0][w] = Launcher!End(calls, pexecPc, "w")]
        /\ parentEnd' = [parentEnd EXCEPT ![pexecPc] = mine]
        /\ childEnd' = [childEnd EXCEPT ![pexecPc] = its]
    BY DEF Launcher!Pipe, Launcher!AtPipe, Launcher!ChildReads
  <1> HIDE DEF F, r, w
  <1>7. /\ mine \in Launcher!Fds /\ its \in Launcher!Fds /\ mine # its
        /\ table[0][mine] = Launcher!Free /\ table[0][its] = Launcher!Free
    BY <1>1, <1>4, <1>5
  <1>8. DOMAIN table' = DOMAIN table /\ \A p \in Launcher!Children : table'[p] = table[p]
    BY <1>6 DEF PexecTypes
  <1>9. table'[0] = [[table[0] EXCEPT ![mine] = Launcher!End(calls, pexecPc, Mine(pexecPc))]
                              EXCEPT ![its] = Launcher!End(calls, pexecPc, Its(pexecPc))]
    <2>1. table'[0] = [[table[0] EXCEPT ![r] = Launcher!End(calls, pexecPc, "r")]
                                 EXCEPT ![w] = Launcher!End(calls, pexecPc, "w")]
      BY <1>6 DEF PexecTypes
    <2>2. r \in Launcher!Fds /\ w \in Launcher!Fds /\ r # w
      BY <1>1, <1>4, <1>5
    <2> QED
      BY <2>1, <2>2 DEF Mine, Its, PexecTypes
  <1> QED
    BY <1>6, <1>7, <1>8, <1>9

(* What closing descriptors makes of a table.                              *)
LEMMA WithoutType ==
    ASSUME NEW t \in [Launcher!Fds -> Things], NEW fds
    PROVE  /\ Launcher!Without(t, fds) \in [Launcher!Fds -> Things]
           /\ \A fd \in Launcher!Fds :
                  Launcher!Without(t, fds)[fd] = IF fd \in fds THEN Launcher!Free ELSE t[fd]
  BY ThingsAre DEF Launcher!Without

(* The streams a child takes up, one after the other.                      *)
LEMMA TodoSteps ==
    ASSUME NEW todo \in Todos, todo # <<>>
    PROVE  /\ Head(todo) \in Streams /\ Tail(todo) \in Todos
           /\ Head(todo) \in Ahead(todo) /\ Ahead(Tail(todo)) = Ahead(todo) \ {Head(todo)}
  <1>1. CASE todo = <<"stdin", "stderr", "stdout">>
    <2>1. Head(todo) = "stdin" /\ Tail(todo) = <<"stderr", "stdout">>
      BY <1>1
    <2> QED
      BY <1>1, <2>1 DEF Streams, Todos, Ahead
  <1>2. CASE todo = <<"stderr", "stdout">>
    <2>1. Head(todo) = "stderr" /\ Tail(todo) = <<"stdout">>
      BY <1>2
    <2> QED
      BY <1>2, <2>1 DEF Streams, Todos, Ahead
  <1>3. CASE todo = <<"stdout">>
    <2>1. Head(todo) = "stdout" /\ Tail(todo) = <<>>
      BY <1>3
    <2> QED
      BY <1>3, <2>1 DEF Streams, Todos, Ahead
  <1> QED
    BY <1>1, <1>2, <1>3 DEF Todos

(* One stream of a child: the end the program kept is closed, the child's  *)
(* is copied to the standard stream, and no other stream suffers.          *)
LEMMA RewiredIsRight ==
    ASSUME PexecTypes, NEW c \in Launcher!Children, InSetUp(c), child[c].standard = 0 .. 2,
           NEW s \in child[c].wanted, s \in Ahead(child[c].todo)
    PROVE  LET k == child[c]
               t == Launcher!Rewired(table[c], c, s)
           IN  \A u \in k.wanted :
                  IF u \in Ahead(k.todo) \ {s}
                  THEN t[k.its[u]] = Launcher!End(c, u, Its(u))
                  ELSE t[Launcher!Number[u]] = Launcher!End(c, u, Its(u))
  <1> USE StreamFacts
  <1> DEFINE k == child[c]
             closed == Launcher!Without(table[c], {k.mine[s]})
             t == Launcher!Rewired(table[c], c, s)
  <1>1. /\ k.wanted \subseteq Streams /\ s \in Streams
        /\ s \in k.wanted /\ s \in Ahead(k.todo)
        /\ k.mine \in [Streams -> Launcher!Fds] /\ k.its \in [Streams -> Launcher!Fds]
        /\ \A u \in k.wanted : k.mine[u] \notin 0 .. 2 /\ k.its[u] \notin 0 .. 2
        /\ \A u, v \in k.wanted : k.its[u] # k.mine[v]
        /\ \A u \in k.wanted :
               IF u \in Ahead(k.todo)
               THEN table[c][k.its[u]] = Launcher!End(c, u, Its(u))
               ELSE table[c][Launcher!Number[u]] = Launcher!End(c, u, Its(u))
    BY DEF InSetUp, Kits
  <1>2. table[c] \in [Launcher!Fds -> Things]
    BY DEF PexecTypes
  <1>3. /\ closed \in [Launcher!Fds -> Things]
        /\ \A fd \in Launcher!Fds : fd # k.mine[s] => closed[fd] = table[c][fd]
    BY <1>2, WithoutType
  <1>4. t = [closed EXCEPT ![Launcher!Number[s]] = closed[k.its[s]]]
    BY DEF Launcher!Rewired
  <1> HIDE DEF closed, t, k
  <1>5. closed[k.its[s]] = Launcher!End(c, s, Its(s))
    <2>1. k.its[s] \in Launcher!Fds /\ k.its[s] # k.mine[s]
      BY <1>1
    <2> QED
      BY <1>1, <1>3, <2>1
  <1>6. t[Launcher!Number[s]] = Launcher!End(c, s, Its(s))
    BY <1>3, <1>4, <1>5, <1>1
  <1>7. \A fd \in Launcher!Fds : fd # k.mine[s] /\ fd # Launcher!Number[s] => t[fd] = table[c][fd]
    BY <1>3, <1>4
  <1>8. ASSUME NEW u \in k.wanted, u # s
        PROVE  IF u \in Ahead(k.todo) \ {s}
               THEN t[k.its[u]] = Launcher!End(c, u, Its(u))
               ELSE t[Launcher!Number[u]] = Launcher!End(c, u, Its(u))
    <2>1. u \in Streams /\ k.its[u] \in Launcher!Fds /\ Launcher!Number[u] \in Launcher!Fds
      BY <1>1
    <2>2. t[k.its[u]] = table[c][k.its[u]]
      <3>1. k.its[u] # k.mine[s] /\ k.its[u] \notin 0 .. 2 /\ Launcher!Number[s] \in 0 .. 2
        BY <1>1
      <3> QED
        BY <1>7, <2>1, <3>1
    <2>3. t[Launcher!Number[u]] = table[c][Launcher!Number[u]]
      <3>1. k.mine[s] \notin 0 .. 2 /\ Launcher!Number[u] \in 0 .. 2
        BY <1>1, <2>1
      <3>2. Launcher!Number[u] # Launcher!Number[s]
        BY <1>1, <1>8, <2>1
      <3> QED
        BY <1>7, <2>1, <3>1, <3>2
    <2> QED
      BY <1>1, <1>8, <2>2, <2>3
  <1> QED
    BY <1>6, <1>8 DEF k, t

(* A step of a child: of everything else nothing changes.                  *)
LEMMA ChildSteps ==
    ASSUME PexecInv, NEW c \in Launcher!Children, Launcher!ChildRuns(c) \/ Launcher!Exits(c)
    PROVE  /\ UNCHANGED <<calls, wanted, pexecPc, parentEnd, childEnd, before>>
           /\ table' \in [{0} \cup Launcher!Children -> [Launcher!Fds -> Things]]
           /\ DOMAIN child' = Launcher!Children
           /\ table'[0] = table[0]
           /\ \A d \in Launcher!Children : d # c => table'[d] = table[d] /\ child'[d] = child[d]
           /\ Kid(c)'
  <1> USE StreamFacts
  <1>0. PexecTypes /\ Kid(c)
    BY DEF PexecInv
  <1>1. UNCHANGED <<calls, wanted, pexecPc, parentEnd, childEnd, before>>
    BY DEF Launcher!ChildRuns, Launcher!SetUp, Launcher!Exec, Launcher!ExecFails,
           Launcher!ReadsToTheEnd, Launcher!Exits, Launcher!Gone
  <1>2. CASE Launcher!SetUp(c)
    <2> DEFINE k == child[c]
               s == Head(k.todo)
    <2>1. /\ InSetUp(c) /\ k.at = "setup" /\ k.todo # <<>>
          /\ child' = [child EXCEPT ![c].todo = Tail(k.todo)]
          /\ table' = [table EXCEPT ![c] = IF s \in k.wanted THEN Launcher!Rewired(table[c], c, s)
                                           ELSE table[c]]
      BY <1>0, <1>2 DEF Launcher!SetUp, Kid
    <2>2. /\ s \in Streams /\ Tail(k.todo) \in Todos /\ s \in Ahead(k.todo)
          /\ Ahead(Tail(k.todo)) = Ahead(k.todo) \ {s}
      BY <2>1, TodoSteps DEF InSetUp, Kits
    <2>3. Launcher!Rewired(table[c], c, s) \in [Launcher!Fds -> Things]
      <3>1. table[c] \in [Launcher!Fds -> Things]
        BY <1>0 DEF PexecTypes
      <3>2. k.its[s] \in Launcher!Fds
        BY <2>1, <2>2 DEF InSetUp, Kits
      <3>3. Launcher!Without(table[c], {k.mine[s]}) \in [Launcher!Fds -> Things]
        BY <3>1, WithoutType
      <3> QED
        BY <3>2, <3>3 DEF Launcher!Rewired
    <2>4. /\ table' \in [{0} \cup Launcher!Children -> [Launcher!Fds -> Things]]
          /\ table'[0] = table[0] /\ DOMAIN child' = Launcher!Children
          /\ \A d \in Launcher!Children : d # c => table'[d] = table[d] /\ child'[d] = child[d]
          /\ table'[c] = IF s \in k.wanted THEN Launcher!Rewired(table[c], c, s) ELSE table[c]
      BY <1>0, <2>1, <2>3 DEF PexecTypes
    <2>5. child'[c] = [k EXCEPT !.todo = Tail(k.todo)]
      BY <1>0, <2>1 DEF PexecTypes
    <2>9. k \in Kits
      BY <2>1 DEF InSetUp
    <2> HIDE DEF k, s
    <2>6. /\ child'[c] \in Kits /\ child'[c].todo = Tail(k.todo) /\ child'[c].at = "setup"
          /\ child'[c].wanted = k.wanted /\ child'[c].mine = k.mine
          /\ child'[c].its = k.its /\ child'[c].standard = k.standard
      BY <2>2, <2>5, <2>9 DEF Kits
    <2> USE DEF k, s
    <2>7. ASSUME k.standard = 0 .. 2
          PROVE  /\ \A u \in k.wanted : k.mine[u] \notin 0 .. 2 /\ k.its[u] \notin 0 .. 2
                 /\ \A u, v \in k.wanted : k.its[u] # k.mine[v]
                 /\ \A u \in k.wanted :
                        IF u \in Ahead(Tail(k.todo))
                        THEN table'[c][k.its[u]] = Launcher!End(c, u, Its(u))
                        ELSE table'[c][Launcher!Number[u]] = Launcher!End(c, u, Its(u))
      <3>1. CASE s \in k.wanted
        BY <1>0, <2>1, <2>2, <2>4, <2>7, <3>1, RewiredIsRight DEF InSetUp
      <3>2. CASE s \notin k.wanted
        BY <2>1, <2>2, <2>4, <2>7, <3>2 DEF InSetUp
      <3> QED
        BY <3>1, <3>2
    <2>8. InSetUp(c)'
      BY <2>6, <2>7 DEF InSetUp
    <2> QED
      BY <1>1, <2>4, <2>6, <2>8 DEF Kid
  <1>3. CASE Launcher!Exec(c)
    <2>1. /\ InSetUp(c) /\ child[c].todo = <<>> /\ table' = table
          /\ child' = [child EXCEPT ![c] = [at |-> "runs", wanted |-> child[c].wanted,
                                            standard |-> child[c].standard]]
      BY <1>0, <1>3 DEF Launcher!Exec, Kid
    <2>2. Ahead(<<>>) = {}
      BY DEF Ahead
    <2>3. Runs(c)
      BY <2>1, <2>2 DEF InSetUp, Runs, Kits
    <2>4. /\ child'[c].at = "runs" /\ child'[c].wanted = child[c].wanted
          /\ child'[c].standard = child[c].standard
          /\ \A d \in Launcher!Children : d # c => child'[d] = child[d]
          /\ DOMAIN child' = Launcher!Children
      BY <1>0, <2>1 DEF PexecTypes
    <2>5. Kid(c)'
      BY <2>1, <2>3, <2>4 DEF Kid, Runs
    <2> QED
      BY <1>0, <1>1, <2>1, <2>4, <2>5 DEF PexecTypes
  <1>4. CASE Launcher!Gone(c)
    <2>1. /\ child' = [child EXCEPT ![c] = [at |-> "gone"]]
          /\ table' = [table EXCEPT ![c] = [fd \in Launcher!Fds |-> Launcher!Free]]
      BY <1>4 DEF Launcher!Gone
    <2>2. child'[c].at = "gone" /\ DOMAIN child' = Launcher!Children
          /\ \A d \in Launcher!Children : d # c => child'[d] = child[d]
      BY <1>0, <2>1 DEF PexecTypes
    <2>3. [fd \in Launcher!Fds |-> Launcher!Free] \in [Launcher!Fds -> Things]
      BY ThingsAre
    <2>4. /\ table' \in [{0} \cup Launcher!Children -> [Launcher!Fds -> Things]]
          /\ table'[0] = table[0]
          /\ \A d \in Launcher!Children : d # c => table'[d] = table[d]
      BY <1>0, <2>1, <2>3 DEF PexecTypes
    <2> QED
      BY <1>1, <2>2, <2>4 DEF Kid
  <1> QED
    BY <1>2, <1>3, <1>4 DEF Launcher!ChildRuns, Launcher!ExecFails, Launcher!ReadsToTheEnd, Launcher!Exits

(* A step of a call, or of the program with the ends it was given.         *)
ProgramSteps ==
    \/ \E streams \in SUBSET DOMAIN Launcher!Number : Launcher!Begin(streams)
    \/ Launcher!Call
    \/ Launcher!ProgramCloses

LEMMA NextCall ==
    ASSUME PexecInv, ProgramSteps
    PROVE  PexecTypes' /\ CallTable' /\ Order'
  <1> USE StreamFacts
  <1>0. PexecTypes /\ CallTable /\ Order
    BY DEF PexecInv
  <1>1. ASSUME NEW streams \in SUBSET DOMAIN Launcher!Number, Launcher!Begin(streams)
        PROVE  PexecTypes' /\ CallTable' /\ Order'
    <2>1. /\ pexecPc' = "stdin" /\ calls' = calls + 1 /\ calls < MaxChildren /\ wanted' = streams
          /\ parentEnd' = [s \in Streams |-> 0] /\ childEnd' = [s \in Streams |-> 0]
          /\ before' = table[0] /\ UNCHANGED <<table, child>>
      BY <1>1 DEF Launcher!Begin, Launcher!Nothing
    <2>2. calls' \in Launcher!Children /\ calls' \in 0 .. MaxChildren
      BY <1>0, <2>1, ConversationsAssumption DEF PexecTypes, Launcher!Children
    <2>3. Piped' = {} /\ \A s \in Streams : childEnd'[s] = 0 /\ parentEnd'[s] = 0
      BY <2>1 DEF Piped
    <2>6. [s \in Streams |-> 0] \in [Streams -> Launcher!Fds] /\ table[0] \in [Launcher!Fds -> Things]
      BY <1>0 DEF PexecTypes
    <2>7. /\ before' \in [Launcher!Fds -> Things] /\ DOMAIN child' = Launcher!Children
          /\ table' \in [{0} \cup Launcher!Children -> [Launcher!Fds -> Things]]
      BY <1>0, <2>1, <2>6 DEF PexecTypes
    <2>8. /\ wanted' \subseteq Streams
          /\ parentEnd' \in [Streams -> Launcher!Fds] /\ childEnd' \in [Streams -> Launcher!Fds]
      BY <2>1, <2>6
    <2>9. pexecPc' \in Streams \cup {"fork", "close", "fail", "idle"}
      BY <2>1 DEF Streams
    <2>4. PexecTypes'
      BY <2>2, <2>7, <2>8, <2>9 DEF PexecTypes
    <2>5. CallTable' /\ Order'
      BY <2>1, <2>3 DEF CallTable, Order
    <2> QED
      BY <2>4, <2>5
  <1>2. ASSUME UNCHANGED <<table, calls, wanted, parentEnd, childEnd, before, child>>,
               pexecPc # "idle", pexecPc' \in Streams \cup {"fork", "fail"}, Order'
        PROVE  PexecTypes' /\ CallTable' /\ Order'
    <2>1. Piped' = Piped
      BY <1>2 DEF Piped
    <2> QED
      BY <1>0, <1>2, <2>1 DEF PexecTypes, CallTable
  <1>3. CASE Launcher!NoPipe
    <2>1. /\ pexecPc \in Streams /\ pexecPc \notin wanted /\ pexecPc' = Launcher!After[pexecPc]
          /\ UNCHANGED <<table, calls, wanted, parentEnd, childEnd, before, child>>
      BY <1>3 DEF Launcher!NoPipe, Launcher!AtPipe
    <2>2. pexecPc' \in Streams \cup {"fork"} /\ pexecPc # "idle"
      BY <2>1 DEF Launcher!After, Streams
    <2>3. Piped' = Piped
      BY <2>1 DEF Piped
    <2>5. wanted \subseteq Streams
      BY <1>0 DEF PexecTypes
    <2>6. ASSUME pexecPc = "stdin" PROVE Order'
      <3>1. pexecPc' = "stdout"
        BY <2>1, <2>6 DEF Launcher!After
      <3>2. Piped = wanted \cap {"stdin"}
        BY <1>0, <2>1, <2>5, <2>6 DEF Order, Streams
      <3> QED
        BY <2>1, <2>3, <3>1, <3>2 DEF Order
    <2>7. ASSUME pexecPc = "stdout" PROVE Order'
      <3>1. pexecPc' = "stderr"
        BY <2>1, <2>7 DEF Launcher!After
      <3>2. Piped = wanted \cap {"stdin", "stdout"}
        BY <1>0, <2>1, <2>5, <2>7 DEF Order, Streams
      <3> QED
        BY <2>1, <2>3, <3>1, <3>2 DEF Order
    <2>8. ASSUME pexecPc = "stderr" PROVE Order'
      <3>1. pexecPc' = "fork"
        BY <2>1, <2>8 DEF Launcher!After
      <3>2. Piped = wanted
        BY <1>0, <2>1, <2>5, <2>8 DEF Order, Streams
      <3> QED
        BY <2>1, <2>3, <3>1, <3>2 DEF Order
    <2>4. Order'
      BY <2>1, <2>6, <2>7, <2>8 DEF Streams
    <2> QED
      BY <1>2, <2>1, <2>2, <2>4
  <1>4. CASE Launcher!PipeFails \/ Launcher!ForkFails
    <2>1. /\ UNCHANGED <<table, calls, wanted, parentEnd, childEnd, before, child>>
          /\ pexecPc' = "fail" /\ pexecPc # "idle"
      BY <1>4 DEF Launcher!PipeFails, Launcher!ForkFails, Launcher!AtPipe, Streams
    <2> QED
      BY <1>2, <2>1 DEF Order, Streams
  <1>5. CASE Launcher!Pipe
    <2>1. /\ pexecPc \in Streams /\ pexecPc \in wanted /\ pexecPc' = Launcher!After[pexecPc]
          /\ UNCHANGED <<calls, wanted, before, child>>
      BY <1>5 DEF Launcher!Pipe, Launcher!AtPipe
    <2>2. PICK mine \in Launcher!Fds, its \in Launcher!Fds :
               /\ mine # its /\ table[0][mine] = Launcher!Free /\ table[0][its] = Launcher!Free
               /\ DOMAIN table' = DOMAIN table
               /\ \A p \in Launcher!Children : table'[p] = table[p]
               /\ table'[0] = [[table[0] EXCEPT ![mine] = Launcher!End(calls, pexecPc, Mine(pexecPc))]
                                         EXCEPT ![its] = Launcher!End(calls, pexecPc, Its(pexecPc))]
               /\ parentEnd' = [parentEnd EXCEPT ![pexecPc] = mine]
               /\ childEnd' = [childEnd EXCEPT ![pexecPc] = its]
      BY <1>0, <1>5, PipeMakes
    <2>3. calls \in Launcher!Children /\ pexecPc # "idle"
      BY <1>0, <2>1 DEF PexecTypes, Streams
    <2>4. table'[0] \in [Launcher!Fds -> Things]
      <3>1. /\ Launcher!End(calls, pexecPc, Mine(pexecPc)) \in Things
            /\ Launcher!End(calls, pexecPc, Its(pexecPc)) \in Things
        BY <2>1, <2>3, ThingsAre
      <3> QED
        BY <1>0, <2>2, <3>1 DEF PexecTypes
    <2>5. table' \in [{0} \cup Launcher!Children -> [Launcher!Fds -> Things]]
      BY <1>0, <1>5, <2>2, <2>4 DEF PexecTypes, Launcher!Pipe
    <2> DEFINE s == pexecPc
    <2>6. /\ parentEnd' \in [Streams -> Launcher!Fds] /\ childEnd' \in [Streams -> Launcher!Fds]
          /\ childEnd'[s] = its /\ parentEnd'[s] = mine
          /\ \A u \in Streams : u # s => childEnd'[u] = childEnd[u] /\ parentEnd'[u] = parentEnd[u]
      BY <1>0, <2>1, <2>2 DEF PexecTypes
    <2>7. pexecPc' \in Streams \cup {"fork"}
      BY <2>1 DEF Launcher!After, Streams
    <2>8. PexecTypes'
      BY <1>0, <2>1, <2>3, <2>5, <2>6, <2>7 DEF PexecTypes
    <2>9. s \notin Piped /\ wanted \subseteq Streams
      <3>1. CASE s = "stdin"
        BY <1>0, <3>1 DEF Order, PexecTypes
      <3>2. CASE s = "stdout"
        BY <1>0, <3>2 DEF Order, PexecTypes
      <3>3. CASE s = "stderr"
        BY <1>0, <3>3 DEF Order, PexecTypes
      <3> QED
        BY <2>1, <3>1, <3>2, <3>3 DEF Streams
    <2>10. Piped' = Piped \cup {s}
      BY <2>1, <2>2, <2>6, <2>9 DEF Piped
    <2>11. Order'
      <3>1. ASSUME s = "stdin" PROVE Order'
        BY <1>0, <2>1, <2>10, <3>1 DEF Order, Launcher!After
      <3>2. ASSUME s = "stdout" PROVE Order'
        BY <1>0, <2>1, <2>10, <3>2 DEF Order, Launcher!After
      <3>3. ASSUME s = "stderr" PROVE Order'
        BY <1>0, <2>1, <2>9, <2>10, <3>3 DEF Order, Launcher!After, Streams
      <3> QED
        BY <2>1, <3>1, <3>2, <3>3 DEF Streams
    <2>12. /\ Piped \subseteq Streams
           /\ table'[0][mine] = Launcher!End(calls, s, Mine(s))
           /\ table'[0][its] = Launcher!End(calls, s, Its(s))
           /\ \A fd \in Launcher!Fds : fd \notin {mine, its} => table'[0][fd] = table[0][fd]
      <3>1. table[0] \in [Launcher!Fds -> Things]
        BY <1>0 DEF PexecTypes
      <3> QED
        BY <2>2, <2>9, <3>1 DEF Piped
    <2>13. before[mine] = Launcher!Free /\ before[its] = Launcher!Free
           /\ \A u \in Piped : childEnd[u] \notin {mine, its} /\ parentEnd[u] \notin {mine, its}
      <3>1. \A u \in Piped :
               /\ table[0][childEnd[u]] = Launcher!End(calls, u, Its(u))
               /\ table[0][parentEnd[u]] = Launcher!End(calls, u, Mine(u))
        BY <1>0, <2>3 DEF CallTable
      <3>2. \A u \in Piped : /\ table[0][childEnd[u]] # Launcher!Free
                             /\ table[0][parentEnd[u]] # Launcher!Free
        BY <2>3, <2>12, <3>1, ThingsAre
      <3>3. \A u \in Piped : childEnd[u] \notin {mine, its} /\ parentEnd[u] \notin {mine, its}
        BY <2>2, <3>2
      <3>4. ASSUME NEW fd \in {mine, its} PROVE before[fd] = Launcher!Free
        <4>1. fd \in Launcher!Fds /\ table[0][fd] = Launcher!Free
          BY <2>2
        <4>2. ~\E u \in Piped : fd \in {childEnd[u], parentEnd[u]}
          BY <3>3
        <4> QED
          BY <1>0, <2>3, <4>1, <4>2 DEF CallTable
      <3> QED
        BY <3>3, <3>4
    <2>14. ASSUME NEW fd \in Launcher!Fds
           PROVE  \/ table'[0][fd] = before'[fd]
                  \/ /\ before'[fd] = Launcher!Free
                     /\ \E u \in Piped' : fd \in {childEnd'[u], parentEnd'[u]}
      <3>1. CASE fd \in {mine, its}
        BY <2>1, <2>6, <2>10, <2>13, <3>1
      <3>2. CASE fd \notin {mine, its}
        <4>1. table'[0][fd] = table[0][fd] /\ before' = before
          BY <2>1, <2>12, <3>2
        <4>2. \A u \in Piped : childEnd'[u] = childEnd[u] /\ parentEnd'[u] = parentEnd[u]
          BY <2>6, <2>9, <2>12
        <4>3. \/ table[0][fd] = before[fd]
              \/ before[fd] = Launcher!Free /\ \E u \in Piped : fd \in {childEnd[u], parentEnd[u]}
          BY <1>0, <2>3 DEF CallTable
        <4> QED
          BY <2>10, <4>1, <4>2, <4>3
      <3> QED
        BY <3>1, <3>2
    <2>15. ASSUME NEW u \in Piped'
           PROVE  /\ before'[childEnd'[u]] = Launcher!Free /\ before'[parentEnd'[u]] = Launcher!Free
                  /\ table'[0][childEnd'[u]] = Launcher!End(calls', u, Its(u))
                  /\ table'[0][parentEnd'[u]] = Launcher!End(calls', u, Mine(u))
      <3>1. CASE u = s
        BY <2>1, <2>6, <2>12, <2>13, <3>1
      <3>2. CASE u # s
        <4>1. /\ u \in Piped /\ u \in Streams
              /\ childEnd'[u] = childEnd[u] /\ parentEnd'[u] = parentEnd[u]
          BY <2>6, <2>10, <2>12, <3>2
        <4>2. childEnd[u] \in Launcher!Fds /\ parentEnd[u] \in Launcher!Fds
          BY <1>0, <4>1 DEF PexecTypes
        <4>3. /\ table'[0][childEnd[u]] = table[0][childEnd[u]]
              /\ table'[0][parentEnd[u]] = table[0][parentEnd[u]]
          BY <2>12, <2>13, <4>1, <4>2
        <4>4. /\ before[childEnd[u]] = Launcher!Free /\ before[parentEnd[u]] = Launcher!Free
              /\ table[0][childEnd[u]] = Launcher!End(calls, u, Its(u))
              /\ table[0][parentEnd[u]] = Launcher!End(calls, u, Mine(u))
          BY <1>0, <2>3, <4>1 DEF CallTable
        <4> QED
          BY <2>1, <4>1, <4>3, <4>4
      <3> QED
        BY <3>1, <3>2
    <2>16. ASSUME NEW u \in Streams, u \notin Piped' PROVE childEnd'[u] = 0 /\ parentEnd'[u] = 0
      <3>1. u # s /\ u \notin Piped
        BY <2>10, <2>16
      <3> QED
        BY <1>0, <2>3, <2>6, <3>1 DEF CallTable
    <2>17. CallTable'
      BY <2>14, <2>15, <2>16 DEF CallTable
    <2> QED
      BY <2>8, <2>11, <2>17
  <1>6. ASSUME NEW fds,
               pexecPc' = "idle", table' = [table EXCEPT ![0] = Launcher!Without(table[0], fds)],
               UNCHANGED <<calls, wanted, parentEnd, childEnd, before, child>>
        PROVE  PexecTypes' /\ CallTable' /\ Order'
    <2>1. Launcher!Without(table[0], fds) \in [Launcher!Fds -> Things]
      BY <1>0, WithoutType DEF PexecTypes
    <2>2. PexecTypes'
      BY <1>0, <1>6, <2>1 DEF PexecTypes
    <2> QED
      BY <1>6, <2>2 DEF CallTable, Order, Streams
  <1>7. CASE Launcher!Fail \/ Launcher!Close
    BY <1>6, <1>7 DEF Launcher!Fail, Launcher!Close
  <1>8. CASE Launcher!Fork
    <2>1. /\ pexecPc = "fork" /\ pexecPc' = "close"
          /\ table' = [table EXCEPT ![calls] = table[0]]
          /\ \E k : child' = [child EXCEPT ![calls] = k]
          /\ UNCHANGED <<calls, wanted, parentEnd, childEnd, before>>
      BY <1>8 DEF Launcher!Fork
    <2>2. calls \in Launcher!Children /\ Piped' = Piped
      BY <1>0, <2>1 DEF PexecTypes, Piped
    <2>3. table'[0] = table[0] /\ table' \in [{0} \cup Launcher!Children -> [Launcher!Fds -> Things]]
      BY <1>0, <2>1, <2>2 DEF PexecTypes
    <2>4. PexecTypes'
      BY <1>0, <2>1, <2>3 DEF PexecTypes
    <2> QED
      BY <1>0, <2>1, <2>2, <2>3, <2>4 DEF CallTable, Order, Streams
  <1>9. CASE Launcher!ProgramCloses
    <2>1. PICK fd \in Launcher!Fds : table' = [table EXCEPT ![0][fd] = Launcher!Free]
      BY <1>9 DEF Launcher!ProgramCloses
    <2>2. pexecPc' = "idle" /\ UNCHANGED <<calls, wanted, parentEnd, childEnd, before, child>>
      BY <1>9 DEF Launcher!ProgramCloses
    <2>3. table' \in [{0} \cup Launcher!Children -> [Launcher!Fds -> Things]]
      BY <1>0, <2>1, ThingsAre DEF PexecTypes
    <2>4. PexecTypes'
      BY <1>0, <2>2, <2>3 DEF PexecTypes
    <2> QED
      BY <2>2, <2>4 DEF CallTable, Order, Streams
  <1> QED
    BY <1>1, <1>3, <1>4, <1>5, <1>7, <1>8, <1>9 DEF ProgramSteps, Launcher!Call

(* A step of a call leaves the children alone, but for the fork, which     *)
(* starts one with a copy of the program's descriptors.                    *)
LEMMA CallSpares ==
    ASSUME PexecTypes, ProgramSteps
    PROVE  \A c \in Launcher!Children :
               (Launcher!Fork /\ c = calls) \/ (table'[c] = table[c] /\ child'[c] = child[c])
  <1> USE StreamFacts
  <1>1. ASSUME NEW t, table' = [table EXCEPT ![0] = t], child' = child
        PROVE  \A c \in Launcher!Children : table'[c] = table[c] /\ child'[c] = child[c]
    BY <1>1 DEF PexecTypes
  <1>2. CASE \/ \E streams \in SUBSET DOMAIN Launcher!Number : Launcher!Begin(streams)
             \/ Launcher!NoPipe \/ Launcher!PipeFails \/ Launcher!ForkFails
    BY <1>2 DEF Launcher!Begin, Launcher!NoPipe, Launcher!PipeFails, Launcher!ForkFails
  <1>3. CASE Launcher!Pipe
    <2>1. child' = child
      BY <1>3 DEF Launcher!Pipe
    <2> QED
      BY <1>3, <2>1, PipeMakes
  <1>4. CASE Launcher!Fail \/ Launcher!Close
    BY <1>1, <1>4 DEF Launcher!Fail, Launcher!Close
  <1>5. CASE Launcher!ProgramCloses
    <2>1. child' = child /\ \E fd : table' = [table EXCEPT ![0][fd] = Launcher!Free]
      BY <1>5 DEF Launcher!ProgramCloses
    <2> QED
      BY <2>1 DEF PexecTypes
  <1>6. CASE Launcher!Fork
    <2>1. /\ table' = [table EXCEPT ![calls] = table[0]]
          /\ \E k : child' = [child EXCEPT ![calls] = k]
      BY <1>6 DEF Launcher!Fork
    <2> QED
      BY <1>6, <2>1 DEF PexecTypes
  <1> QED
    BY <1>2, <1>3, <1>4, <1>5, <1>6 DEF ProgramSteps, Launcher!Call

(* A child starts with its ends on descriptors above the standard streams, *)
(* when the program had all of those.                                      *)
LEMMA ForkSetsUp ==
    ASSUME PexecInv, Launcher!Fork
    PROVE  InSetUp(calls)' /\ child'[calls].at = "setup"
  <1> USE StreamFacts
  <1> DEFINE todo == <<"stdin", "stderr", "stdout">>
             k == [at |-> "setup", todo |-> todo, wanted |-> wanted, mine |-> parentEnd,
                   its |-> childEnd, standard |-> {fd \in 0 .. 2 : before[fd] # Launcher!Free}]
  <1>0. PexecTypes /\ CallTable /\ Order
    BY DEF PexecInv
  <1>1. /\ pexecPc = "fork" /\ table' = [table EXCEPT ![calls] = table[0]]
        /\ child' = [child EXCEPT ![calls] = k] /\ calls' = calls
    BY DEF Launcher!Fork
  <1>2. calls \in Launcher!Children /\ wanted = Piped
    BY <1>0, <1>1 DEF PexecTypes, Order
  <1>3. table'[calls] = table[0] /\ child'[calls] = k
    BY <1>0, <1>1, <1>2 DEF PexecTypes
  <1>4. k \in Kits
    <2>1. todo \in Todos
      BY DEF Todos
    <2>2. {fd \in 0 .. 2 : before[fd] # Launcher!Free} \in SUBSET (0 .. 2)
      OBVIOUS
    <2> QED
      BY <1>0, <2>1, <2>2 DEF Kits, PexecTypes
  <1>5. ASSUME k.standard = 0 .. 2
        PROVE  /\ \A s \in wanted : parentEnd[s] \notin 0 .. 2 /\ childEnd[s] \notin 0 .. 2
               /\ \A s, u \in wanted : childEnd[s] # parentEnd[u]
               /\ \A s \in wanted : table[0][childEnd[s]] = Launcher!End(calls, s, Its(s))
    <2>1. \A fd \in 0 .. 2 : before[fd] # Launcher!Free
      BY <1>5
    <2>2. \A s \in wanted :
             /\ before[childEnd[s]] = Launcher!Free /\ before[parentEnd[s]] = Launcher!Free
             /\ table[0][childEnd[s]] = Launcher!End(calls, s, Its(s))
             /\ table[0][parentEnd[s]] = Launcher!End(calls, s, Mine(s))
      BY <1>0, <1>1, <1>2 DEF CallTable
    <2>3. ASSUME NEW s \in wanted, NEW u \in wanted, childEnd[s] = parentEnd[u] PROVE FALSE
      <3>1. s \in Streams /\ u \in Streams
        BY <1>0 DEF PexecTypes
      <3>2. Launcher!End(calls, s, Its(s)) = Launcher!End(calls, u, Mine(u))
        BY <2>2, <2>3
      <3>3. s = u /\ Its(s) = Mine(u)
        BY <1>2, <3>1, <3>2, ThingsAre
      <3> QED
        BY <3>1, <3>3
    <2> QED
      BY <2>1, <2>2, <2>3
  <1>6. Ahead(todo) = Streams /\ wanted \subseteq Streams
    BY <1>0 DEF Ahead, PexecTypes
  <1>7. /\ k.todo = todo /\ k.wanted = wanted /\ k.mine = parentEnd /\ k.its = childEnd
        /\ k.at = "setup"
    OBVIOUS
  <1> HIDE DEF k, todo
  <1>8. InSetUp(calls)'
    <2>1. \A s \in wanted : s \in Ahead(todo)
      BY <1>6
    <2> QED
      BY <1>1, <1>3, <1>4, <1>5, <1>7, <2>1 DEF InSetUp
  <1> QED
    BY <1>3, <1>7, <1>8

LEMMA NextPexec ==
    ASSUME PexecInv, Launcher!Next \/ UNCHANGED pexecVars
    PROVE  PexecInv'
  <1> USE StreamFacts
  <1>0. PexecTypes /\ CallTable /\ Order /\ \A c \in Launcher!Children : Kid(c)
    BY DEF PexecInv
  <1>1. CASE ProgramSteps
    <2>1. PexecTypes' /\ CallTable' /\ Order'
      BY <1>1, NextCall
    <2>2. ASSUME NEW c \in Launcher!Children PROVE Kid(c)'
      <3>1. CASE Launcher!Fork /\ c = calls
        <4>1. calls' = calls
          BY <3>1 DEF Launcher!Fork
        <4> QED
          BY <3>1, <4>1, ForkSetsUp DEF Kid
      <3>2. CASE table'[c] = table[c] /\ child'[c] = child[c]
        BY <1>0, <3>2, KidStays
      <3> QED
        BY <1>0, <1>1, <3>1, <3>2, CallSpares
    <2> QED
      BY <2>1, <2>2 DEF PexecInv
  <1>2. ASSUME NEW c \in Launcher!Children, Launcher!ChildRuns(c) \/ Launcher!Exits(c)
        PROVE  PexecInv'
    <2>1. /\ UNCHANGED <<calls, wanted, pexecPc, parentEnd, childEnd, before>>
          /\ table' \in [{0} \cup Launcher!Children -> [Launcher!Fds -> Things]]
          /\ DOMAIN child' = Launcher!Children
          /\ table'[0] = table[0]
          /\ \A d \in Launcher!Children : d # c => table'[d] = table[d] /\ child'[d] = child[d]
          /\ Kid(c)'
      BY <1>2, ChildSteps
    <2>2. Piped' = Piped
      BY <2>1 DEF Piped
    <2>3. PexecTypes'
      BY <1>0, <2>1 DEF PexecTypes
    <2>4. CallTable' /\ Order'
      BY <1>0, <2>1, <2>2 DEF CallTable, Order
    <2>5. ASSUME NEW d \in Launcher!Children, d # c PROVE Kid(d)'
      BY <1>0, <2>1, <2>5, KidStays
    <2> QED
      BY <2>1, <2>3, <2>4, <2>5 DEF PexecInv
  <1>3. CASE UNCHANGED pexecVars
    <2>1. /\ UNCHANGED <<table, calls, wanted, pexecPc, parentEnd, childEnd, before, child>>
      BY <1>3 DEF pexecVars
    <2>2. Piped' = Piped
      BY <2>1 DEF Piped
    <2>3. PexecTypes' /\ CallTable' /\ Order'
      BY <1>0, <2>1, <2>2 DEF PexecTypes, CallTable, Order
    <2>4. ASSUME NEW c \in Launcher!Children PROVE Kid(c)'
      <3>1. table'[c] = table[c] /\ child'[c] = child[c]
        BY <2>1
      <3> QED
        BY <1>0, <3>1, KidStays
    <2> QED
      BY <2>3, <2>4 DEF PexecInv
  <1> QED
    BY <1>1, <1>2, <1>3 DEF Launcher!Next, ProgramSteps

(* A program only launches when nothing else is talked to; whatever is     *)
(* talked to, the launcher takes a step of its own or none.                *)
LEMMA TalkLaunches == TalkSpec => []PexecInv
  <1>1. TalkInit => PexecInv
    BY InitPexec DEF TalkInit
  <1>2. PexecInv /\ [TalkNext]_<<part, vars, lxiVars, serialVars, pexecVars>> => PexecInv'
    <2>1. [TalkNext]_<<part, vars, lxiVars, serialVars, pexecVars>>
            => Launcher!Next \/ UNCHANGED pexecVars
      BY Zenon DEF TalkNext
    <2> QED
      BY <2>1, NextPexec
  <1> QED
    BY <1>1, <1>2, PTL DEF TalkSpec

(* A child that runs has its end of each pipe it was given for a standard  *)
(* stream, if the program had all three (pexec.cpp:41-58), however the     *)
(* calls of the program and the steps of the children are interleaved.     *)
THEOREM ChildrenAreWired == TalkSpec => []StreamsAreWired
  <1>1. PexecInv => StreamsAreWired
    BY DEF PexecInv, Kid, Runs, Its, StreamsAreWired, Launcher!StreamsAreWired
  <1> QED
    BY <1>1, TalkLaunches, PTL

(* A call that fails closes every pipe it made and nothing else            *)
(* (pexec.cpp:11-16), when descriptor 0 was taken.                         *)
THEOREM FailedCallLeavesNothing == TalkSpec => FailureLeavesNothing
  <1> USE StreamFacts
  <1> DEFINE Restores == pexecPc = "fail" /\ pexecPc' = "idle" /\ before[0] # Launcher!Free
                            => table'[Launcher!Program] = before
  <1>1. PexecInv /\ [TalkNext]_<<part, vars, lxiVars, serialVars, pexecVars>>
           => [Restores]_<<table, calls, wanted, pexecPc, parentEnd, childEnd, before, child>>
    <2>1. [TalkNext]_<<part, vars, lxiVars, serialVars, pexecVars>>
            => Launcher!Next \/ UNCHANGED pexecVars
      BY Zenon DEF TalkNext
    <2>2. ASSUME PexecInv, Launcher!Next, pexecPc = "fail", pexecPc' = "idle",
                 before[0] # Launcher!Free
          PROVE  table'[0] = before
      <3>0. PexecTypes /\ CallTable
        BY <2>2 DEF PexecInv
      <3>1. Launcher!Fail
        <4>1. \A c \in Launcher!Children : ~Launcher!ChildRuns(c) /\ ~Launcher!Exits(c)
          BY <2>2, ChildSteps
        <4> QED
          BY <2>2, <4>1 DEF Launcher!Next, Launcher!Call, Launcher!Begin, Launcher!NoPipe,
             Launcher!Pipe, Launcher!PipeFails, Launcher!ForkFails, Launcher!Fork, Launcher!Close,
             Launcher!ProgramCloses, Launcher!AtPipe, Streams
      <3> DEFINE ends == {childEnd[s] : s \in Launcher!Made} \cup {parentEnd[s] : s \in Launcher!Made}
      <3>2. table' = [table EXCEPT ![0] = Launcher!Without(table[0], ends)]
        BY <3>1 DEF Launcher!Fail
      <3>3. table'[0] = Launcher!Without(table[0], ends) /\ table[0] \in [Launcher!Fds -> Things]
        BY <3>0, <3>2 DEF PexecTypes
      <3>4. /\ \A fd \in Launcher!Fds :
                   \/ table[0][fd] = before[fd]
                   \/ before[fd] = Launcher!Free /\ \E s \in Piped : fd \in {childEnd[s], parentEnd[s]}
            /\ \A s \in Piped :
                   before[childEnd[s]] = Launcher!Free /\ before[parentEnd[s]] = Launcher!Free
            /\ \A s \in Streams : s \notin Piped => childEnd[s] = 0 /\ parentEnd[s] = 0
        BY <2>2, <3>0 DEF CallTable
      <3>5. Launcher!Made = Piped
        <4>1. wanted \subseteq Streams
          BY <3>0 DEF PexecTypes
        <4>2. \A s \in Piped : childEnd[s] # 0
          BY <2>2, <3>4
        <4> QED
          BY <3>4, <4>1, <4>2 DEF Launcher!Made, Piped
      <3>6. /\ table'[0] \in [Launcher!Fds -> Things] /\ before \in [Launcher!Fds -> Things]
            /\ \A fd \in Launcher!Fds :
                   table'[0][fd] = IF fd \in ends THEN Launcher!Free ELSE table[0][fd]
        BY <3>0, <3>3, WithoutType DEF PexecTypes
      <3>7. ASSUME NEW fd \in Launcher!Fds PROVE table'[0][fd] = before[fd]
        <4>1. CASE fd \in ends
          BY <3>4, <3>5, <3>6, <4>1
        <4>2. CASE fd \notin ends
          BY <3>4, <3>5, <3>6, <4>2
        <4> QED
          BY <4>1, <4>2
      <3> QED
        BY <3>6, <3>7
    <2> QED
      BY <2>1, <2>2 DEF pexecVars
  <1>2. TalkSpec => [][Restores]_<<table, calls, wanted, pexecPc, parentEnd, childEnd, before, child>>
    BY <1>1, TalkLaunches, PTL DEF TalkSpec
  <1> QED
    BY <1>2, PTL DEF FailureLeavesNothing, Launcher!FailureLeavesNothing, Launcher!vars

----------------------------------------------------------------------------
(* Instruments.  The answer to a query arrives whole or in two pieces.     *)
Whole(q)  == <<[re |-> q, last |-> TRUE]>>
Begun(q)  == <<[re |-> q, last |-> FALSE]>>
Halves(q) == <<[re |-> q, last |-> FALSE], [re |-> q, last |-> TRUE]>>

Searches == [on : BOOLEAN, from : Instrument!Address, ip : Instrument!Address,
             ip1 : Instrument!Address, idn : Names \cup {""},
             found : Instrument!Address \cup {Instrument!NoAddress}]

LxiTypes ==
    /\ host \in [Instrument!Address -> Instrument!Kinds]
    /\ open \in 0 .. MaxOpen /\ missed \subseteq Instrument!Address
    /\ sent \in Nat /\ served \in Nat /\ served <= sent
    /\ link \in Instrument!Address \cup {Instrument!NoAddress}
    /\ link # Instrument!NoAddress => host[link] # "dead"
    /\ lxiPc \in {"idle", "connect", "ask", "wait", "compare"}
    /\ scan \in Searches
    /\ scan.on => lxiPc # "idle" /\ scan.from <= scan.ip1
    /\ ~scan.on => lxiPc \in {"idle", "wait"}

(* As long as nothing was given up, what is on its way or in the buffer    *)
(* belongs to the query that waits, and to no query when none does.        *)
Waits ==
    \/ served = sent - 1 /\ wire = <<>> /\ got = <<>>
    \/ served = sent /\ wire \in {Whole(sent), Halves(sent)} /\ got = <<>>
    \/ served = sent /\ wire = Whole(sent) /\ got = Begun(sent)

Heard ==
    /\ lxiPc \in {"ask", "wait"} => answer = <<>>
    /\ lxiPc = "ask" => got = <<>>
    /\ ~gaveUp => /\ answer \in {<<>>, Whole(sent), Halves(sent)}
                  /\ IF lxiPc = "wait" THEN Waits ELSE served = sent /\ wire = <<>>

(* A search has passed the addresses below ip, and of the wanted hosts     *)
(* there it has missed every one.                                          *)
Passed ==
    /\ scan.from <= scan.ip /\ scan.ip <= scan.ip1
    /\ \A a \in missed : a < scan.ip \/ (a = scan.ip /\ lxiPc = "compare" /\ answer = <<>>)
    /\ lxiPc = "compare" /\ answer = <<>> /\ host[scan.ip] = "wanted" => scan.ip \in missed
    /\ scan.idn # "TIMED_OUT" =>
           \A a \in scan.from .. scan.ip - 1 : host[a] = "wanted" => a \in missed

Searched ==
    scan.on => /\ scan.found = Instrument!NoAddress
               /\ lxiPc # "connect" => link = scan.ip
               /\ lxiPc \in {"ask", "wait"} => ~gaveUp
               /\ scan.ip1 # Width - 1 => Passed

LxiInv == LxiTypes /\ Heard /\ Searched /\ Instrument!FindsTheFirst

LEMMA AddressFacts ==
    /\ Instrument!Address \subseteq Nat /\ 0 \in Instrument!Address
    /\ Instrument!NoAddress = -1 /\ Instrument!NoAddress \notin Instrument!Address
    /\ \A a \in Instrument!Address :
           /\ (a + 1) % Width \in Instrument!Address
           /\ a < Width - 1 => (a + 1) % Width = a + 1
    /\ \A a, b \in Instrument!Address : a <= b /\ b # Width - 1 => a < Width - 1
  BY ConversationsAssumption DEF Instrument!Address, Instrument!NoAddress

LEMMA InitLxi == Instrument!Init => LxiInv
  <1> SUFFICES ASSUME Instrument!Init PROVE LxiInv
    OBVIOUS
  <1>1. /\ host \in [Instrument!Address -> Instrument!Kinds]
        /\ open = 0 /\ link = Instrument!NoAddress /\ sent = 0 /\ served = 0
        /\ wire = <<>> /\ got = <<>> /\ lxiPc = "idle" /\ answer = <<>>
        /\ scan = Instrument!NoScan /\ gaveUp = FALSE /\ missed = {}
    BY DEF Instrument!Init
  <1>2. scan \in Searches /\ ~scan.on /\ scan.idn = ""
    BY <1>1, AddressFacts DEF Searches, Instrument!NoScan
  <1>3. LxiTypes
    <2>1. 0 \in 0 .. MaxOpen /\ 0 <= 0
      BY ConversationsAssumption
    <2> QED
      BY <1>1, <1>2, <2>1 DEF LxiTypes
  <1>4. Heard /\ Searched /\ Instrument!FindsTheFirst
    BY <1>1, <1>2 DEF Heard, Searched, Instrument!FindsTheFirst
  <1> QED
    BY <1>3, <1>4 DEF LxiInv

(* Taking a piece or two off what is on its way.                           *)
LEMMA Pieces ==
    ASSUME NEW S, NEW a \in S, NEW b \in S
    PROVE  /\ SubSeq(<<a>>, 1, 1) = <<a>> /\ SubSeq(<<a>>, 2, 1) = <<>>
           /\ SubSeq(<<a, b>>, 1, 1) = <<a>> /\ SubSeq(<<a, b>>, 2, 2) = <<b>>
           /\ SubSeq(<<a, b>>, 1, 2) = <<a, b>> /\ SubSeq(<<a, b>>, 3, 2) = <<>>
           /\ <<>> \o <<a>> = <<a>> /\ <<>> \o <<a, b>> = <<a, b>>
           /\ <<a>> \o <<b>> = <<a, b>>
  <1>1. <<a>> \in Seq(S) /\ <<b>> \in Seq(S) /\ <<a, b>> \in Seq(S)
    OBVIOUS
  <1>2. SubSeq(<<a>>, 1, 1) = <<a>> /\ SubSeq(<<a, b>>, 1, 2) = <<a, b>>
    <2>1. Len(<<a>>) = 1 /\ Len(<<a, b>>) = 2
      OBVIOUS
    <2> QED
      BY <1>1, <2>1, SubSeqFull
  <1>3. ASSUME NEW s, NEW m \in Int, NEW x \in S, s[m] = x
        PROVE  SubSeq(s, m, m) = <<x>>
    <2> DEFINE c == SubSeq(s, m, m)
    <2>1. c \in Seq(S) /\ Len(c) = 1 /\ c[1] = x
      <3>1. \A i \in m .. m : s[i] \in S
        BY <1>3
      <3> QED
        BY <1>3, <3>1, SubSeqProperties
    <2> HIDE DEF c
    <2>2. c = <<x>>
      BY <2>1
    <2> QED
      BY <2>2 DEF c
  <1>4. SubSeq(<<a, b>>, 1, 1) = <<a>> /\ SubSeq(<<a, b>>, 2, 2) = <<b>>
    BY <1>3
  <1>5. <<a>> \o <<b>> = <<a, b>>
    <2> DEFINE c == <<a>> \o <<b>>
    <2>1. c \in Seq(S) /\ Len(c) = 2 /\ c[1] = a /\ c[2] = b
      BY <1>1
    <2> HIDE DEF c
    <2>2. c = <<a, b>>
      BY <2>1
    <2> QED
      BY <2>2 DEF c
  <1>6. SubSeq(<<a>>, 2, 1) = <<>> /\ SubSeq(<<a, b>>, 3, 2) = <<>>
    OBVIOUS
  <1> QED
    BY <1>2, <1>4, <1>5, <1>6

LEMMA AnswerPieces ==
    ASSUME NEW q
    PROVE  /\ Len(Whole(q)) = 1 /\ Len(Halves(q)) = 2
           /\ SubSeq(Whole(q), 1, 1) = Whole(q) /\ SubSeq(Whole(q), 2, 1) = <<>>
           /\ SubSeq(Halves(q), 1, 1) = Begun(q) /\ SubSeq(Halves(q), 2, 2) = Whole(q)
           /\ SubSeq(Halves(q), 1, 2) = Halves(q) /\ SubSeq(Halves(q), 3, 2) = <<>>
           /\ <<>> \o Whole(q) = Whole(q) /\ <<>> \o Halves(q) = Halves(q)
           /\ <<>> \o Begun(q) = Begun(q) /\ Begun(q) \o Whole(q) = Halves(q)
           /\ Whole(q) # <<>> /\ Halves(q) # <<>>
  <1> DEFINE a == [re |-> q, last |-> FALSE]
             b == [re |-> q, last |-> TRUE]
             S == {a, b}
  <1>1. a \in S /\ b \in S
    OBVIOUS
  <1>2. Begun(q) = <<a>> /\ Whole(q) = <<b>> /\ Halves(q) = <<a, b>>
    BY DEF Begun, Whole, Halves
  <1> HIDE DEF a, b, S
  <1>3. <<b>> # <<>> /\ <<a, b>> # <<>> /\ Len(<<b>>) = 1 /\ Len(<<a, b>>) = 2
    OBVIOUS
  <1>4. /\ SubSeq(<<a, b>>, 1, 1) = <<a>> /\ SubSeq(<<a, b>>, 2, 2) = <<b>>
        /\ SubSeq(<<a, b>>, 1, 2) = <<a, b>> /\ SubSeq(<<a, b>>, 3, 2) = <<>>
        /\ <<>> \o <<a>> = <<a>> /\ <<>> \o <<a, b>> = <<a, b>> /\ <<a>> \o <<b>> = <<a, b>>
    BY <1>1, Pieces
  <1>5. SubSeq(<<b>>, 1, 1) = <<b>> /\ SubSeq(<<b>>, 2, 1) = <<>> /\ <<>> \o <<b>> = <<b>>
    BY <1>1, Pieces
  <1> QED
    BY <1>2, <1>3, <1>4, <1>5, Zenon

(* An answer returned to its query, in a search or not.                    *)
LEMMA ReadReturns ==
    ASSUME LxiInv, NEW n \in 1 .. 4, Instrument!Read(n), ~gaveUp
    PROVE  /\ lxiPc = "wait" /\ served = sent
           /\ \/ wire' = <<>> /\ got' \in {Whole(sent), Halves(sent)} /\ Instrument!Ends(got')
              \/ wire' = Whole(sent) /\ got' = Begun(sent) /\ ~Instrument!Ends(got')
  <1>1. /\ lxiPc = "wait" /\ n \in 1 .. Len(wire)
        /\ wire' = SubSeq(wire, n + 1, Len(wire)) /\ got' = got \o SubSeq(wire, 1, n)
    BY DEF Instrument!Read
  <1>2. Waits
    BY <1>1 DEF LxiInv, Heard
  <1>3. /\ Instrument!Ends(Whole(sent)) /\ Instrument!Ends(Halves(sent))
        /\ ~Instrument!Ends(Begun(sent))
    BY DEF Instrument!Ends, Instrument!Last, Whole, Halves, Begun
  <1>4. CASE wire = Whole(sent) /\ got = <<>>
    <2>1. n = 1 /\ wire' = <<>> /\ got' = Whole(sent)
      BY <1>1, <1>4, AnswerPieces
    <2> QED
      BY <1>1, <1>2, <1>3, <1>4, <2>1, AnswerPieces DEF Waits
  <1>5. CASE wire = Whole(sent) /\ got = Begun(sent)
    <2>1. n = 1 /\ wire' = <<>> /\ got' = Halves(sent)
      BY <1>1, <1>5, AnswerPieces
    <2> QED
      BY <1>1, <1>2, <1>3, <1>5, <2>1, AnswerPieces DEF Waits
  <1>6. CASE wire = Halves(sent) /\ got = <<>>
    <2>1. CASE n = 1
      <3>1. wire' = Whole(sent) /\ got' = Begun(sent)
        BY <1>1, <1>6, <2>1, AnswerPieces
      <3> QED
        BY <1>1, <1>2, <1>3, <1>6, <3>1, AnswerPieces DEF Waits
    <2>2. CASE n = 2
      <3>1. wire' = <<>> /\ got' = Halves(sent)
        BY <1>1, <1>6, <2>2, AnswerPieces
      <3> QED
        BY <1>1, <1>2, <1>3, <1>6, <3>1, AnswerPieces DEF Waits
    <2> QED
      BY <1>1, <1>6, <2>1, <2>2, AnswerPieces
  <1> QED
    BY <1>1, <1>2, <1>4, <1>5, <1>6 DEF Waits

LEMMA HostAfter ==
    ASSUME scan \in Searches, Instrument!NextHost
    PROVE  /\ scan' \in Searches
           /\ scan'.from = scan.from /\ scan'.ip1 = scan.ip1
           /\ scan'.idn = scan.idn /\ scan'.found = scan.found
           /\ \/ /\ lxiPc' = "connect" /\ scan'.on = scan.on
                 /\ scan'.ip = (scan.ip + 1) % Width /\ scan'.ip <= scan.ip1
              \/ /\ lxiPc' = "idle" /\ scan'.on = FALSE
                 /\ scan'.ip = scan.ip /\ ~((scan.ip + 1) % Width <= scan.ip1)
  <1> DEFINE ip == (scan.ip + 1) % Width
  <1>1. scan.ip \in Instrument!Address /\ ip \in Instrument!Address
    BY AddressFacts DEF Searches
  <1>2. \/ scan' = [scan EXCEPT !.ip = ip] /\ lxiPc' = "connect" /\ ip <= scan.ip1
        \/ scan' = [scan EXCEPT !.on = FALSE] /\ lxiPc' = "idle" /\ ~(ip <= scan.ip1)
    BY DEF Instrument!NextHost
  <1> HIDE DEF ip
  <1> QED
    BY <1>1, <1>2 DEF Searches, ip

(* An address that the search leaves behind was not wanted, or missed.     *)
LEMMA HostIsPassed ==
    ASSUME LxiTypes, scan.on, scan.found = Instrument!NoAddress, Instrument!NextHost,
           host' = host, missed \subseteq missed', missed' \subseteq Instrument!Address,
           scan.ip1 # Width - 1 => Passed /\ \A a \in missed' : a <= scan.ip,
           scan.ip1 # Width - 1 /\ scan.idn # "TIMED_OUT" /\ host[scan.ip] = "wanted"
               => scan.ip \in missed'
    PROVE  Searched' /\ Instrument!FindsTheFirst'
  <1>1. /\ scan \in Searches
        /\ scan' \in Searches
        /\ scan'.from = scan.from /\ scan'.ip1 = scan.ip1
        /\ scan'.idn = scan.idn /\ scan'.found = scan.found
        /\ \/ /\ lxiPc' = "connect" /\ scan'.on = scan.on
              /\ scan'.ip = (scan.ip + 1) % Width /\ scan'.ip <= scan.ip1
           \/ /\ lxiPc' = "idle" /\ scan'.on = FALSE
              /\ scan'.ip = scan.ip /\ ~((scan.ip + 1) % Width <= scan.ip1)
    BY HostAfter DEF LxiTypes
  <1>2. /\ scan.ip \in Nat /\ scan.ip1 \in Nat /\ scan.from \in Nat
        /\ scan.ip \in Instrument!Address /\ scan.ip1 \in Instrument!Address
    BY <1>1, AddressFacts DEF Searches
  <1>3. ASSUME scan.ip1 # Width - 1
        PROVE  /\ Passed /\ (scan.ip + 1) % Width = scan.ip + 1
               /\ \A a \in missed' : a <= scan.ip
    BY <1>2, <1>3, AddressFacts DEF Passed
  <1>4. ASSUME scan.ip1 # Width - 1, scan.idn # "TIMED_OUT"
        PROVE  \A a \in scan.from .. scan.ip : host[a] = "wanted" => a \in missed'
    <2>1. \A a \in scan.from .. scan.ip - 1 : host[a] = "wanted" => a \in missed
      BY <1>3, <1>4 DEF Passed
    <2>2. \A a \in scan.from .. scan.ip : a = scan.ip \/ a \in scan.from .. scan.ip - 1
      BY <1>2
    <2> QED
      BY <1>4, <2>1, <2>2
  <1>5. CASE lxiPc' = "connect"
    <2>1. scan'.on = scan.on /\ scan'.ip = (scan.ip + 1) % Width /\ scan'.ip <= scan.ip1
      BY <1>1, <1>5
    <2>2. ASSUME scan.ip1 # Width - 1 PROVE Passed'
      <3>1. scan'.ip = scan.ip + 1 /\ scan.from <= scan.ip /\ scan'.ip - 1 = scan.ip
        BY <1>2, <1>3, <2>1, <2>2 DEF Passed
      <3>2. \A a \in missed' : a < scan'.ip
        <4>1. missed' \subseteq Nat
          BY AddressFacts
        <4> QED
          BY <1>2, <1>3, <2>2, <3>1, <4>1
      <3>3. scan'.from <= scan'.ip /\ scan'.ip <= scan'.ip1
        BY <1>1, <1>2, <2>1, <3>1
      <3>4. scan'.idn # "TIMED_OUT" =>
                \A a \in scan'.from .. scan'.ip - 1 : host'[a] = "wanted" => a \in missed'
        BY <1>1, <1>4, <2>2, <3>1
      <3> QED
        BY <1>5, <3>2, <3>3, <3>4 DEF Passed
    <2> QED
      BY <1>1, <1>5, <2>1, <2>2 DEF Searched, Instrument!FindsTheFirst
  <1>6. CASE lxiPc' = "idle"
    <2>1. scan'.on = FALSE /\ ~((scan.ip + 1) % Width <= scan.ip1)
      BY <1>1, <1>6
    <2>2. ASSUME scan.ip1 # Width - 1 PROVE scan.ip = scan.ip1
      BY <1>2, <1>3, <2>1, <2>2 DEF Passed
    <2>3. ASSUME scan.ip1 # Width - 1, scan.idn # "TIMED_OUT"
          PROVE  {a \in scan.from .. scan.ip1 : host[a] = "wanted"} \ missed' = {}
      BY <1>4, <2>2, <2>3
    <2> QED
      BY <1>1, <2>1, <2>3 DEF Searched, Instrument!FindsTheFirst
  <1> QED
    BY <1>1, <1>5, <1>6

(* What a search has found stands while the program does something else.   *)
LEMMA FoundStands ==
    ASSUME Instrument!FindsTheFirst, UNCHANGED <<host, scan, missed>>
    PROVE  Instrument!FindsTheFirst'
  BY DEF Instrument!FindsTheFirst

(* A query is given up.                                                    *)
LEMMA GivesUp ==
    ASSUME LxiInv, lxiPc = "wait", Instrument!GiveUp
    PROVE  LxiInv'
  <1> USE AddressFacts
  <1>0. LxiTypes /\ Heard /\ Searched /\ Instrument!FindsTheFirst
    BY DEF LxiInv
  <1>1. /\ answer' = <<>> /\ gaveUp' /\ UNCHANGED <<host, open, link, sent, served, scan>>
        /\ lxiPc' = IF scan.on THEN "compare" ELSE "idle"
        /\ IF scan.on THEN Instrument!Miss(link) ELSE UNCHANGED missed
    BY DEF Instrument!GiveUp, Instrument!Return
  <1>2. CASE ~scan.on
    <2>1. lxiPc' = "idle" /\ missed' = missed
      BY <1>1, <1>2
    <2>2. LxiTypes'
      BY <1>0, <1>1, <1>2, <2>1 DEF LxiTypes
    <2>3. Heard' /\ Searched'
      BY <1>1, <1>2, <2>1 DEF Heard, Searched
    <2> QED
      BY <1>0, <1>1, <2>1, <2>2, <2>3, FoundStands DEF LxiInv
  <1>3. CASE scan.on
    <2>1. /\ lxiPc' = "compare" /\ link = scan.ip /\ scan \in Searches
          /\ missed' = IF host[scan.ip] = "wanted" THEN missed \cup {scan.ip} ELSE missed
      BY <1>0, <1>1, <1>3 DEF LxiTypes, Searched, Instrument!Miss
    <2>2. LxiTypes'
      <3>1. missed' \subseteq Instrument!Address
        BY <1>0, <2>1 DEF LxiTypes, Searches
      <3> QED
        BY <1>0, <1>1, <1>3, <2>1, <3>1 DEF LxiTypes
    <2>3. ASSUME scan.ip1 # Width - 1 PROVE Passed'
      <3>1. Passed
        BY <1>0, <1>3, <2>3 DEF Searched
      <3> QED
        BY <1>0, <1>1, <2>1, <3>1 DEF Passed
    <2>4. Heard' /\ Searched'
      BY <1>0, <1>1, <1>3, <2>1, <2>3 DEF Heard, Searched
    <2>5. Instrument!FindsTheFirst'
      BY <1>1, <1>3 DEF Instrument!FindsTheFirst
    <2> QED
      BY <2>2, <2>4, <2>5 DEF LxiInv
  <1> QED
    BY <1>2, <1>3

(* What an instrument sends, in one piece or two.                          *)
LEMMA Sending ==
    ASSUME NEW q, NEW pieces \in 1 .. 2
    PROVE  [i \in 1 .. pieces |-> [re |-> q, last |-> i = pieces]] \in {Whole(q), Halves(q)}
  <1> DEFINE f == [i \in 1 .. pieces |-> [re |-> q, last |-> i = pieces]]
             x == [re |-> q, last |-> FALSE]
             y == [re |-> q, last |-> TRUE]
  <1>1. CASE pieces = 1
    <2>1. (1 = pieces) = TRUE
      BY <1>1
    <2>2. [re |-> q, last |-> 1 = pieces] = y
      BY <2>1, Zenon
    <2>3. /\ DOMAIN f = 1 .. 1 /\ f = [i \in 1 .. 1 |-> f[i]]
          /\ f[1] = [re |-> q, last |-> 1 = pieces]
      BY <1>1
    <2> HIDE DEF f, x, y
    <2>4. f = <<y>>
      BY <2>2, <2>3
    <2> QED
      BY <2>4 DEF f, y, Whole
  <1>2. CASE pieces = 2
    <2>1. (1 = pieces) = FALSE /\ (2 = pieces) = TRUE
      BY <1>2
    <2>2. [re |-> q, last |-> 1 = pieces] = x /\ [re |-> q, last |-> 2 = pieces] = y
      BY <2>1, Zenon
    <2>3. /\ DOMAIN f = 1 .. 2 /\ f = [i \in 1 .. 2 |-> f[i]]
          /\ f[1] = [re |-> q, last |-> 1 = pieces] /\ f[2] = [re |-> q, last |-> 2 = pieces]
      BY <1>2
    <2> HIDE DEF f, x, y
    <2>4. f = <<x, y>>
      BY <2>2, <2>3
    <2> QED
      BY <2>4 DEF f, x, y, Halves
  <1> QED
    BY <1>1, <1>2

LEMMA ConnectedIs ==
    ASSUME LxiTypes, NEW a \in Instrument!Address, Instrument!Connected(a)
    PROVE  /\ host[a] # "dead" /\ open' \in 0 .. MaxOpen /\ link' = a
           /\ sent' = 0 /\ served' = 0 /\ wire' = <<>> /\ got' = <<>> /\ answer' = <<>>
           /\ gaveUp' = FALSE
  BY ConversationsAssumption DEF LxiTypes, Instrument!Connected, Instrument!Reaches

LEMMA NextLxi ==
    ASSUME LxiInv, Instrument!Next
    PROVE  LxiInv'
  <1> USE AddressFacts
  <1>0. LxiTypes /\ Heard /\ Searched /\ Instrument!FindsTheFirst
    BY DEF LxiInv
  <1>1. ASSUME NEW a \in Instrument!Address, Instrument!Connect(a) PROVE LxiInv'
    <2>1. /\ lxiPc = "idle" /\ ~scan.on /\ UNCHANGED <<host, lxiPc, scan, missed>>
          /\ Instrument!Connected(a) \/ Instrument!NotConnected(a)
      BY <1>1 DEF Instrument!Connect
    <2>2. CASE Instrument!Connected(a)
      <3>4. host[a] # "dead" /\ open' \in 0 .. MaxOpen /\ link' = a /\ sent' = 0 /\ served' = 0
        BY <1>0, <2>2, ConnectedIs
      <3>3. sent' \in Nat /\ served' \in Nat /\ served' <= sent'
        BY <3>4
      <3>1. LxiTypes'
        BY <1>0, <2>1, <3>3, <3>4 DEF LxiTypes
      <3>2. Heard' /\ Searched'
        BY <1>0, <2>1, <2>2, ConnectedIs DEF Heard, Searched
      <3> QED
        BY <1>0, <2>1, <3>1, <3>2, FoundStands DEF LxiInv
    <2>3. CASE Instrument!NotConnected(a)
      <3>1. UNCHANGED <<open, link, sent, served, wire, got, answer, gaveUp>>
        BY <2>3 DEF Instrument!NotConnected
      <3>2. LxiTypes'
        BY <1>0, <2>1, <3>1 DEF LxiTypes
      <3>3. Heard' /\ Searched'
        BY <1>0, <2>1, <3>1 DEF Heard, Searched
      <3> QED
        BY <1>0, <2>1, <3>2, <3>3, FoundStands DEF LxiInv
    <2> QED
      BY <2>1, <2>2, <2>3
  <1>2. ASSUME NEW query \in BOOLEAN, Instrument!Ask(query) PROVE LxiInv'
    <2>1. /\ lxiPc = "idle" /\ ~scan.on /\ got' = <<>> /\ answer' = <<>>
          /\ UNCHANGED <<host, open, link, served, wire, scan, gaveUp, missed>>
          /\ \/ sent' = sent /\ lxiPc' = lxiPc
             \/ sent' = sent + 1 /\ lxiPc' = "wait"
      BY <1>2 DEF Instrument!Ask
    <2>2. LxiTypes'
      BY <1>0, <2>1 DEF LxiTypes
    <2>3. Heard'
      <3>1. sent \in Nat
        BY <1>0 DEF LxiTypes
      <3> QED
        BY <1>0, <2>1, <3>1 DEF Heard, Waits
    <2>4. Searched'
      BY <2>1 DEF Searched
    <2> QED
      BY <1>0, <2>1, <2>2, <2>3, <2>4, FoundStands DEF LxiInv
  <1>3. ASSUME NEW ip0 \in Instrument!Address, NEW ip1 \in Instrument!Address, NEW idn \in Names,
               Instrument!Scan(ip0, ip1, idn)
        PROVE  LxiInv'
    <2>1. /\ lxiPc = "idle" /\ missed' = {}
          /\ scan' = [on |-> ip0 <= ip1, from |-> ip0, ip |-> ip0, ip1 |-> ip1, idn |-> idn,
                      found |-> Instrument!NoAddress]
          /\ lxiPc' = IF ip0 <= ip1 THEN "connect" ELSE "idle"
          /\ UNCHANGED <<host, open, link, sent, served, wire, got, answer, gaveUp>>
      BY <1>3 DEF Instrument!Scan
    <2>2. /\ scan' \in Searches /\ scan'.on = (ip0 <= ip1) /\ scan'.from = ip0 /\ scan'.ip = ip0
          /\ scan'.ip1 = ip1 /\ scan'.found = Instrument!NoAddress
      <3>1. PICK on \in BOOLEAN : on = (ip0 <= ip1)
        <4>1. (ip0 <= ip1) \in BOOLEAN
          OBVIOUS
        <4> QED
          BY <4>1, Zenon
      <3>2. scan' = [on |-> on, from |-> ip0, ip |-> ip0, ip1 |-> ip1, idn |-> idn,
                     found |-> Instrument!NoAddress]
        BY <2>1, <3>1
      <3> QED
        BY <3>1, <3>2 DEF Searches
    <2>3. LxiTypes'
      BY <1>0, <2>1, <2>2 DEF LxiTypes
    <2>4. Heard'
      BY <1>0, <2>1 DEF Heard
    <2>5. Searched'
      <3>1. ip0 \in Nat /\ ip1 \in Nat /\ \A a \in ip0 .. ip0 - 1 : FALSE
        OBVIOUS
      <3>2. CASE ip0 <= ip1
        <4>1. lxiPc' = "connect"
          BY <2>1, <3>2
        <4>2. Passed'
          BY <2>1, <2>2, <3>1, <3>2, <4>1 DEF Passed
        <4> QED
          BY <2>2, <4>1, <4>2 DEF Searched
      <3>3. CASE ~(ip0 <= ip1)
        BY <2>2, <3>3 DEF Searched
      <3> QED
        BY <3>2, <3>3
    <2>6. Instrument!FindsTheFirst'
      <3>1. CASE ip0 <= ip1
        BY <2>2, <3>1 DEF Instrument!FindsTheFirst
      <3>2. CASE ~(ip0 <= ip1)
        <4>1. ip0 .. ip1 = {}
          BY <3>2
        <4>2. {b \in scan'.from .. scan'.ip1 : host'[b] = "wanted"} \ missed' = {}
          BY <2>2, <4>1
        <4> QED
          BY <2>2, <4>2 DEF Instrument!FindsTheFirst
      <3> QED
        BY <3>1, <3>2
    <2> QED
      BY <2>3, <2>4, <2>5, <2>6 DEF LxiInv
  <1>4. CASE Instrument!SelectExpires
    BY <1>4, GivesUp DEF Instrument!SelectExpires
  <1>5. ASSUME NEW n \in 1 .. 4, Instrument!Read(n) PROVE LxiInv'
    <2>1. CASE Instrument!GiveUp
      BY <1>5, <2>1, GivesUp DEF Instrument!Read
    <2>2. CASE ~Instrument!Ends(got') /\ UNCHANGED <<host, open, link, sent, served, lxiPc, answer,
                                                     scan, gaveUp, missed>>
      <3>1. lxiPc = "wait"
        BY <1>5 DEF Instrument!Read
      <3>2. LxiTypes'
        BY <1>0, <2>2 DEF LxiTypes
      <3>3. Heard'
        BY <1>0, <1>5, <2>2, <3>1, ReadReturns DEF Heard, Waits
      <3>4. Searched'
        BY <1>0, <2>2, <3>1 DEF Searched, Passed
      <3> QED
        BY <1>0, <2>2, <3>2, <3>3, <3>4, FoundStands DEF LxiInv
    <2>3. CASE /\ Instrument!Ends(got') /\ Instrument!Return(got')
               /\ UNCHANGED <<host, open, link, sent, served, scan, gaveUp, missed>>
      <3>1. /\ lxiPc = "wait" /\ answer' = got'
            /\ lxiPc' = IF scan.on THEN "compare" ELSE "idle"
        BY <1>5, <2>3 DEF Instrument!Read, Instrument!Return
      <3>2. LxiTypes'
        BY <1>0, <2>3, <3>1 DEF LxiTypes
      <3>3. ~gaveUp => /\ served = sent /\ wire' = <<>> /\ answer' \in {Whole(sent), Halves(sent)}
                       /\ answer' # <<>>
        BY <1>5, <2>3, <3>1, ReadReturns, AnswerPieces
      <3>4. Heard'
        BY <1>0, <2>3, <3>1, <3>3 DEF Heard
      <3>5. Searched'
        BY <1>0, <2>3, <3>1, <3>3 DEF Searched, Passed
      <3> QED
        BY <1>0, <2>3, <3>2, <3>4, <3>5, FoundStands DEF LxiInv
    <2> QED
      BY <1>5, <2>1, <2>2, <2>3 DEF Instrument!Read
  <1>6. CASE Instrument!ScanSkip
    <2>1. /\ lxiPc = "connect" /\ scan.on /\ host' = host /\ Instrument!NextHost
          /\ missed' = IF host[scan.ip] = "wanted" THEN missed \cup {scan.ip} ELSE missed
          /\ UNCHANGED <<open, link, sent, served, wire, got, answer, gaveUp>>
      BY <1>0, <1>6 DEF Instrument!ScanSkip, Instrument!NotConnected, Instrument!Miss, LxiTypes
    <2>2. scan.found = Instrument!NoAddress /\ (scan.ip1 # Width - 1 => Passed)
      BY <1>0, <2>1 DEF Searched
    <2>3. scan \in Searches /\ missed \subseteq Instrument!Address /\ scan.ip \in Instrument!Address
      BY <1>0 DEF LxiTypes, Searches
    <2>4. missed \subseteq missed' /\ missed' \subseteq Instrument!Address
      BY <2>1, <2>3
    <2>5. ASSUME scan.ip1 # Width - 1 PROVE \A a \in missed' : a <= scan.ip
      <3>1. missed \subseteq Nat /\ scan.ip \in Nat
        BY <2>3
      <3>2. \A a \in missed : a < scan.ip \/ a = scan.ip
        BY <2>2, <2>5 DEF Passed
      <3> QED
        BY <2>1, <3>1, <3>2
    <2>6. Searched' /\ Instrument!FindsTheFirst'
      BY <1>0, <2>1, <2>2, <2>4, <2>5, HostIsPassed
    <2>7. LxiTypes'
      BY <1>0, <2>1, <2>3, <2>4, HostAfter DEF LxiTypes
    <2>8. Heard'
      BY <1>0, <2>1, <2>3, HostAfter DEF Heard
    <2> QED
      BY <2>6, <2>7, <2>8 DEF LxiInv
  <1>7. CASE Instrument!ScanConnect
    <2>1. /\ lxiPc = "connect" /\ lxiPc' = "ask" /\ UNCHANGED <<host, scan, missed>>
          /\ Instrument!Connected(scan.ip) /\ scan.on
      BY <1>0, <1>7 DEF Instrument!ScanConnect, LxiTypes
    <2>2. scan.ip \in Instrument!Address
      BY <1>0 DEF LxiTypes, Searches
    <2>7. /\ host[scan.ip] # "dead" /\ open' \in 0 .. MaxOpen /\ link' = scan.ip
          /\ sent' = 0 /\ served' = 0
      BY <1>0, <2>1, <2>2, ConnectedIs
    <2>6. sent' \in Nat /\ served' \in Nat /\ served' <= sent'
      BY <2>7
    <2>3. LxiTypes'
      BY <1>0, <2>1, <2>2, <2>6, <2>7 DEF LxiTypes
    <2>4. Heard'
      BY <1>0, <2>1, <2>2, ConnectedIs DEF Heard
    <2>5. Searched'
      BY <1>0, <2>1, <2>2, ConnectedIs DEF Searched, Passed
    <2> QED
      BY <1>0, <2>1, <2>3, <2>4, <2>5, FoundStands DEF LxiInv
  <1>8. CASE Instrument!ScanAsk
    <2>1. /\ lxiPc = "ask" /\ scan.on
          /\ UNCHANGED <<host, open, link, served, wire, got, scan, gaveUp, missed>>
          /\ \/ host[link] = "refuses" /\ answer' = <<>> /\ lxiPc' = "compare" /\ sent' = sent
             \/ lxiPc' = "wait" /\ sent' = sent + 1 /\ answer' = answer
      BY <1>0, <1>8 DEF Instrument!ScanAsk, Instrument!Return, LxiTypes
    <2>2. LxiTypes'
      BY <1>0, <2>1 DEF LxiTypes
    <2>3. Heard'
      <3>1. sent \in Nat
        BY <1>0 DEF LxiTypes
      <3> QED
        BY <1>0, <2>1, <3>1 DEF Heard, Waits
    <2>4. Searched'
      BY <1>0, <2>1 DEF Searched, Passed
    <2> QED
      BY <1>0, <2>1, <2>2, <2>3, <2>4, FoundStands DEF LxiInv
  <1>9. CASE Instrument!ScanCompare
    <2>1. /\ lxiPc = "compare" /\ scan.on /\ link = scan.ip
          /\ UNCHANGED <<host, open, link, sent, served, wire, got, answer, gaveUp, missed>>
          /\ scan.found = Instrument!NoAddress /\ (scan.ip1 # Width - 1 => Passed)
      BY <1>0, <1>9 DEF Instrument!ScanCompare, LxiTypes, Searched
    <2>2. scan \in Searches /\ missed \subseteq Instrument!Address /\ scan.ip \in Instrument!Address
      BY <1>0 DEF LxiTypes, Searches
    <2>3. CASE /\ Instrument!Matches /\ lxiPc' = "idle"
               /\ scan' = [scan EXCEPT !.on = FALSE, !.found = scan.ip]
      <3>1. /\ scan' \in Searches /\ scan'.on = FALSE /\ scan'.found = scan.ip
            /\ scan'.from = scan.from /\ scan'.ip1 = scan.ip1 /\ scan'.idn = scan.idn
        BY <2>2, <2>3 DEF Searches
      <3>2. LxiTypes'
        BY <1>0, <2>1, <2>3, <3>1 DEF LxiTypes
      <3>3. Heard' /\ Searched'
        BY <1>0, <2>1, <2>3, <3>1 DEF Heard, Searched
      <3>4. ASSUME scan.idn # "TIMED_OUT", scan.ip1 # Width - 1
            PROVE  LET there == {a \in scan.from .. scan.ip1 : host[a] = "wanted"} \ missed
                   IN  scan.ip \in there /\ \A a \in there : scan.ip <= a
        <4>1. answer # <<>> /\ host[scan.ip] = "wanted"
          BY <2>1, <2>3, <3>4 DEF Instrument!Matches
        <4>2. Passed
          BY <2>1, <3>4
        <4>6. scan.from \in Nat /\ scan.ip1 \in Nat /\ scan.ip \in Nat
          BY <2>2 DEF Searches
        <4>3. scan.ip \in scan.from .. scan.ip1 /\ scan.from \in Nat /\ scan.ip1 \in Nat
          BY <4>2, <4>6 DEF Passed
        <4>4. scan.ip \notin missed
          BY <4>1, <4>2, <4>6 DEF Passed
        <4>5. ASSUME NEW a \in scan.from .. scan.ip1, host[a] = "wanted", a \notin missed
              PROVE  scan.ip <= a
          <5>1. a \notin scan.from .. scan.ip - 1
            BY <3>4, <4>2, <4>5 DEF Passed
          <5> QED
            BY <4>3, <4>5, <5>1
        <4> QED
          BY <4>1, <4>3, <4>4, <4>5
      <3>5. Instrument!FindsTheFirst'
        BY <2>1, <2>2, <3>1, <3>4 DEF Instrument!FindsTheFirst
      <3> QED
        BY <3>2, <3>3, <3>5 DEF LxiInv
    <2>4. CASE ~Instrument!Matches /\ Instrument!NextHost
      <3>1. scan.ip1 # Width - 1 /\ scan.idn # "TIMED_OUT" /\ host[scan.ip] = "wanted"
                => scan.ip \in missed
        <4>1. ASSUME scan.ip1 # Width - 1, scan.idn # "TIMED_OUT", host[scan.ip] = "wanted"
              PROVE  scan.ip \in missed
          <5>1. answer = <<>>
            BY <2>1, <2>4, <4>1 DEF Instrument!Matches
          <5> QED
            BY <2>1, <4>1, <5>1 DEF Passed
        <4> QED
          BY <4>1
      <3>2. ASSUME scan.ip1 # Width - 1 PROVE \A a \in missed' : a <= scan.ip
        <4>1. missed \subseteq Nat /\ scan.ip \in Nat
          BY <2>2
        <4>2. \A a \in missed : a < scan.ip \/ a = scan.ip
          BY <2>1, <3>2 DEF Passed
        <4> QED
          BY <2>1, <4>1, <4>2
      <3>3. Searched' /\ Instrument!FindsTheFirst'
        BY <1>0, <2>1, <2>2, <2>4, <3>1, <3>2, HostIsPassed
      <3>4. LxiTypes'
        BY <1>0, <2>1, <2>2, <2>4, HostAfter DEF LxiTypes
      <3>5. Heard'
        BY <1>0, <2>1, <2>2, <2>4, HostAfter DEF Heard
      <3> QED
        BY <3>3, <3>4, <3>5 DEF LxiInv
    <2> QED
      BY <1>9, <2>3, <2>4 DEF Instrument!ScanCompare
  <1>10. ASSUME NEW pieces \in 1 .. 2, Instrument!Answers(pieces) PROVE LxiInv'
    <2> DEFINE sending == [i \in 1 .. pieces |-> [re |-> served + 1, last |-> i = pieces]]
    <2>1. /\ served < sent /\ served' = served + 1 /\ wire' = wire \o sending
          /\ UNCHANGED <<host, open, link, sent, got, lxiPc, answer, scan, gaveUp, missed>>
      BY <1>10 DEF Instrument!Answers
    <2>2. sending \in {Whole(served + 1), Halves(served + 1)}
      BY Sending
    <2> HIDE DEF sending
    <2>3. served \in Nat /\ sent \in Nat
      BY <1>0 DEF LxiTypes
    <2>4. LxiTypes'
      BY <1>0, <2>1, <2>3 DEF LxiTypes
    <2>5. ASSUME ~gaveUp
          PROVE  /\ lxiPc = "wait" /\ served' = sent /\ got = <<>>
                 /\ wire' \in {Whole(sent), Halves(sent)}
      <3>1. lxiPc = "wait" /\ served = sent - 1 /\ wire = <<>> /\ got = <<>>
        BY <1>0, <2>1, <2>3, <2>5 DEF Heard, Waits
      <3> QED
        BY <2>1, <2>2, <2>3, <3>1, AnswerPieces
    <2>6. Heard'
      BY <1>0, <2>1, <2>5 DEF Heard, Waits
    <2>7. Searched'
      BY <1>0, <2>1 DEF Searched, Passed
    <2> QED
      BY <1>0, <2>1, <2>4, <2>6, <2>7, FoundStands DEF LxiInv
  <1> QED
    BY <1>1, <1>2, <1>3, <1>4, <1>5, <1>6, <1>7, <1>8, <1>9, <1>10
       DEF Instrument!Next, Instrument!Client

(* What a message returns is the whole answer to its own query, until one  *)
(* was given up (lxi.cpp:82-143), and a search returns the first address   *)
(* of those that could be heard (lxi.cpp:145-158), for every range that    *)
(* does not end with the last address of all.                              *)
THEOREM AnswersOfInstruments == TalkSpec => []AnswersAreRight
  <1>1. TalkInit => LxiInv
    BY InitLxi DEF TalkInit
  <1>2. LxiInv /\ [TalkNext]_<<part, vars, lxiVars, serialVars, pexecVars>> => LxiInv'
    <2>1. [TalkNext]_<<part, vars, lxiVars, serialVars, pexecVars>>
            => Instrument!Next \/ UNCHANGED lxiVars
      BY Zenon DEF TalkNext
    <2>2. ASSUME LxiInv, UNCHANGED lxiVars PROVE LxiInv'
      BY <2>2 DEF LxiInv, LxiTypes, Heard, Waits, Searched, Passed, Instrument!FindsTheFirst, lxiVars
    <2> QED
      BY <2>1, <2>2, NextLxi
  <1>3. LxiInv => AnswersAreRight
    <2> SUFFICES ASSUME LxiInv PROVE AnswersAreRight
      OBVIOUS
    <2>1. LxiTypes /\ Heard /\ Instrument!FindsTheFirst
      BY DEF LxiInv
    <2>2. Instrument!TypeOK
      BY <2>1 DEF LxiTypes, Instrument!TypeOK
    <2>3. \A q : /\ \A i \in DOMAIN Whole(q) : Whole(q)[i].re = q
                 /\ Whole(q)[Len(Whole(q))].last
                 /\ \A i \in DOMAIN Halves(q) : Halves(q)[i].re = q
                 /\ Halves(q)[Len(Halves(q))].last
      BY DEF Whole, Halves
    <2>4. Instrument!OwnUntilGivenUp
      BY <2>1, <2>3 DEF Heard, Instrument!OwnUntilGivenUp
    <2> QED
      BY <2>1, <2>2, <2>4 DEF AnswersAreRight
  <1> QED
    BY <1>1, <1>2, <1>3, PTL DEF TalkSpec
=============================================================================
