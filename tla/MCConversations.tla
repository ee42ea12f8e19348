-------------------------- MODULE MCConversations --------------------------
(***************************************************************************)
(* How a program talks to what is outside of it: a Modbus call, an LXI     *)
(* instrument, the settings of a serial port, and children with pipes.     *)
(* They share nothing, so that a behaviour is one of one of them, the      *)
(* other three as they were at first.                                      *)
(***************************************************************************)
EXTENDS ModbusFrontEnd

CONSTANTS Width, Names, MaxOpen, MaxQueries, Late,
          Devices, Numbers, Rates, Foreign,
          MaxChildren, MaxFd, Closed

VARIABLES part,         \* who is talked to
          host, open, link, sent, wire, served, got, lxiPc, answer, scan, gaveUp, missed,
          port, portName, portSpeed, portParity, device, tty, lines, lastRTS, lastDTR, fresh,
          table, calls, wanted, pexecPc, parentEnd, childEnd, before, child

(* A port that is not open has no device; the standard streams have the    *)
(* descriptors 0, 1 and 2; there is an address.                            *)
ASSUME ConversationsAssumption ==
    /\ Width \in Nat \ {0} /\ MaxOpen \in Nat
    /\ <<>> \notin Devices
    /\ MaxChildren \in Nat /\ MaxFd \in Nat /\ MaxFd >= 2

lxiVars    == <<host, open, link, sent, wire, served, got, lxiPc, answer, scan, gaveUp, missed>>
serialVars == <<port, portName, portSpeed, portParity, device, tty, lines, lastRTS, lastDTR, fresh>>
pexecVars  == <<table, calls, wanted, pexecPc, parentEnd, childEnd, before, child>>

Instrument == INSTANCE Lxi WITH pc <- lxiPc
Line       == INSTANCE SerialPort
Launcher   == INSTANCE Pexec WITH pc <- pexecPc

TalkInit ==
    /\ part \in {"modbus", "lxi", "serial", "pexec"}
    /\ Init /\ Instrument!Init /\ Line!Init /\ Launcher!Init
    /\ part # "modbus" => req = CHOOSE r \in Requests : TRUE
    /\ part # "lxi" => \A a \in DOMAIN host : host[a] = "dead"
    /\ part # "serial" => ~lastRTS /\ ~lastDTR
    /\ part # "pexec" => table[0][0] # Launcher!Free

TalkNext ==
    /\ UNCHANGED part
    /\ \/ part = "modbus" /\ Next
          /\ UNCHANGED <<lxiVars, serialVars, pexecVars>>
       \/ part = "lxi" /\ Instrument!Next
          /\ UNCHANGED <<vars, serialVars, pexecVars>>
       \/ part = "serial" /\ Line!Next
          /\ UNCHANGED <<vars, lxiVars, pexecVars>>
       \/ part = "pexec" /\ Launcher!Next
          /\ UNCHANGED <<vars, lxiVars, serialVars>>

(* The fairness is that of Pexec.                                          *)
TalkSpec ==
    /\ TalkInit /\ [][TalkNext]_<<part, vars, lxiVars, serialVars, pexecVars>>
    /\ WF_pexecVars(part = "pexec" /\ Launcher!Call)
    /\ \A c \in 1 .. MaxChildren : WF_pexecVars(part = "pexec" /\ Launcher!ChildRuns(c))

----------------------------------------------------------------------------
(* Every operation with the counts around 0 and around the limit of 123,   *)
(* at an address whose high byte could pass for the byte count of a read,  *)
(* and at the end of the address space.                                    *)
AllRequests == [dev : {1}, op : Op, address : {512, 62976, 65535},
                count : {0, 1, 2, 123, 124}]
SomeBytes   == {0, 2, 4, 16, 131, 144, 246}
SomeLengths == {0, 1, 2, 4, 5, 248}
SomeErrors  == {MBE_TIMED_OUT, MBE_CRC_FAIL}

(* A port by number and one by name; settings that others leave.           *)
SomeDevices == {<<"ttyS", 0>>, <<"usb">>}
SomeForeign == {[flags |-> {"PARENB", "PARODD", "CSTOPB"}, speed |-> 300]}

----------------------------------------------------------------------------
(* Properties: those of the modules, with their types.                     *)

(* What a message returns is the whole answer to its own query, until one  *)
(* was given up, and a search returns the first address of those that were *)
(* heard (lxi.cpp:82-158).                                                 *)
AnswersAreRight ==
    Instrument!TypeOK /\ Instrument!OwnUntilGivenUp /\ Instrument!FindsTheFirst

(* An open port has the speed and parity of its settings                   *)
(* (serial.cpp:41-68 and 193-223).                                         *)
LineFollowsSettings == Line!TypeOK /\ Line!LineFollowsSettings

(* A child has its ends of the pipes for standard streams                  *)
(* (pexec.cpp:41-58).                                                      *)
StreamsAreWired == Launcher!StreamsAreWired

(* A call that fails leaves the table of descriptors as it was             *)
(* (pexec.cpp:11-16).                                                      *)
FailureLeavesNothing == Launcher!FailureLeavesNothing

(* Children end once the program has given up its ends of their pipes      *)
(* (pexec.cpp:41-66).                                                      *)
ChildrenEnd == Launcher!ChildrenEnd
=============================================================================
