----------------------------- MODULE SerialPort -----------------------------
(***************************************************************************)
(* The settings of a serial port (serial.h, serial.cpp): which device it   *)
(* is, its speed, its parity and its modem lines.  The terminal driver     *)
(* keeps the settings of a device from one user to the next, and others    *)
(* may use a device while the port is closed.                              *)
(***************************************************************************)
EXTENDS Integers

CONSTANTS Devices,      \* the devices by name; <<"ttyS", n>> for a number
          Numbers,      \* the numbers a port is set to, -1 for any negative one
          Rates,        \* the speeds that are asked for
          Foreign       \* the settings others leave behind

Parities == {"prNone", "prOdd", "prEven", "prHigh", "prLow"}
Speeds == {110, 300, 600, 1200, 2400, 4800, 9600, 19200, 38400, 57600, 115200}
NoDevice == <<>>

VARIABLES port, portName,       \* the device that Connect opens
          portSpeed, portParity,
          device,               \* the device that is open, or NoDevice
          tty,                  \* tty[d]: its flags and its speed, in the driver
          lines,                \* lines[d]: the modem lines that are raised
          lastRTS, lastDTR,     \* uninitialised at first
          fresh                 \* history: no parity was set since Connect

vars == <<port, portName, portSpeed, portParity, device, tty, lines, lastRTS, lastDTR, fresh>>

Connected == device # NoDevice

Init ==
    /\ port = 0 /\ portName = NoDevice
    /\ portSpeed = 9600 /\ portParity = "prNone"
    /\ device = NoDevice
    /\ tty = [d \in Devices |-> [flags |-> {}, speed |-> 9600]]
    /\ lines = [d \in Devices |-> {}]
    /\ lastRTS \in BOOLEAN /\ lastDTR \in BOOLEAN
    /\ fresh = TRUE

Odd(flags)  == (flags \ {"CSTOPB"}) \cup {"PARENB", "PARODD"}
Even(flags) == (flags \ {"CSTOPB", "PARODD"}) \cup {"PARENB"}

(* Mutant: the odd flag of an earlier setting stays.                       *)
WithParityOddStays(flags, p) ==
    CASE p \in {"prNone", "prLow"} -> flags \ {"PARENB", "CSTOPB"}
      [] p = "prOdd"  -> Odd(flags)
      [] p = "prEven" -> (flags \ {"CSTOPB"}) \cup {"PARENB"}
      [] p = "prHigh" -> (flags \ {"PARENB"}) \cup {"CSTOPB"}

(* setParity, for the flags of the driver.  prLow is not to be had; prHigh *)
(* is a second stop bit.                                                   *)
WithParity(flags, p) ==
    CASE p \in {"prNone", "prLow"} -> flags \ {"PARENB", "CSTOPB"}
      [] p = "prOdd"  -> Odd(flags)
      [] p = "prEven" -> Even(flags)
      [] p = "prHigh" -> (flags \ {"PARENB"}) \cup {"CSTOPB"}

(* Connect, which sets speed and parity, and then clears the stop bit; the *)
(* driver raises the modem lines.                                          *)
Connect ==
    LET d == IF port >= 0 THEN <<"ttyS", port>> ELSE portName IN
    /\ ~Connected
    /\ portName' = d
    /\ \/ /\ d \in Devices
          /\ device' = d /\ fresh' = TRUE
          /\ tty' = [tty EXCEPT ![d] = [flags |-> WithParity(@.flags, portParity) \ {"CSTOPB"},
                                        speed |-> portSpeed]]
          /\ lines' = [lines EXCEPT ![d] = {"RTS", "DTR"}]
       \/ UNCHANGED <<device, fresh, tty, lines>>           \* open fails
    /\ UNCHANGED <<port, portSpeed, portParity, lastRTS, lastDTR>>

Disconnect ==
    /\ Connected
    /\ device' = NoDevice
    /\ lines' = [lines EXCEPT ![device] = {}]
    /\ UNCHANGED <<port, portName, portSpeed, portParity, tty, lastRTS, lastDTR, fresh>>

setPort(n) ==
    /\ ~Connected
    /\ port' = n
    /\ UNCHANGED <<portName, portSpeed, portParity, device, tty, lines, lastRTS, lastDTR, fresh>>

setPortName(name) ==
    /\ ~Connected
    /\ port' = -1 /\ portName' = name
    /\ UNCHANGED <<portSpeed, portParity, device, tty, lines, lastRTS, lastDTR, fresh>>

setBaudRate(rate) ==
    /\ rate \in Speeds
    /\ portSpeed' = rate
    /\ tty' = IF Connected THEN [tty EXCEPT ![device].speed = rate] ELSE tty
    /\ UNCHANGED <<port, portName, portParity, device, lines, lastRTS, lastDTR, fresh>>

setParity(p) ==
    /\ portParity' = p
    /\ tty' = IF Connected THEN [tty EXCEPT ![device].flags = WithParity(@, p)] ELSE tty
    /\ fresh' = (fresh /\ ~Connected)
    /\ UNCHANGED <<port, portName, portSpeed, device, lines, lastRTS, lastDTR>>

(* rts and dtr read the lines twice and never write them: the setting is   *)
(* kept here and nowhere else.                                             *)
setRTS(b) ==
    /\ Connected
    /\ lastRTS' = b
    /\ UNCHANGED <<port, portName, portSpeed, portParity, device, tty, lines, lastDTR, fresh>>

setDTR(b) ==
    /\ Connected
    /\ lastDTR' = b
    /\ UNCHANGED <<port, portName, portSpeed, portParity, device, tty, lines, lastRTS, fresh>>

(* External: another program uses a device.                                *)
OthersUse(d, left) ==
    /\ ~Connected
    /\ tty' = [tty EXCEPT ![d] = left]
    /\ UNCHANGED <<port, portName, portSpeed, portParity, device, lines, lastRTS, lastDTR, fresh>>

Next ==
    \/ Connect \/ Disconnect
    \/ \E n \in Numbers : setPort(n)
    \/ \E d \in Devices : setPortName(d)
    \/ \E rate \in Rates : setBaudRate(rate)
    \/ \E p \in Parities : setParity(p)
    \/ \E b \in BOOLEAN : setRTS(b) \/ setDTR(b)
    \/ \E d \in Devices, left \in Foreign : OthersUse(d, left)

Spec == Init /\ [][Next]_vars

----------------------------------------------------------------------------
(* Properties.                                                             *)

TypeOK ==
    /\ device \in Devices \cup {NoDevice}
    /\ portSpeed \in Speeds /\ portParity \in Parities
    /\ Connected /\ port >= 0 => device = <<"ttyS", port>>
    /\ \A d \in Devices : lines[d] = IF d = device THEN {"RTS", "DTR"} ELSE {}

(* Whatever others left behind and in whatever order it was set, an open   *)
(* port has the speed and the parity of its settings (serial.cpp:41-68 and *)
(* 193-223); but Connect takes the second stop bit of prHigh away again.   *)
LineFollowsSettings ==
    Connected =>
        LET line == tty[device] IN
        /\ line.speed = portSpeed
        /\ "PARENB" \in line.flags <=> portParity \in {"prOdd", "prEven"}
        /\ "PARENB" \in line.flags => ("PARODD" \in line.flags <=> portParity = "prOdd")
        /\ "CSTOPB" \in line.flags <=> portParity = "prHigh" /\ ~fresh
=============================================================================
