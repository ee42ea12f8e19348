--------------------------- MODULE KepcoExchange ---------------------------
(***************************************************************************)
(* A driver of a power supply, kepco_bop (kepco.h, kepco.cpp), over the    *)
(* serial port of serial.cpp, and the supply at the other end: the         *)
(* hand-shake of open, the exchanges of commands, and close.               *)
(*                                                                         *)
(* A byte is a record: its character and the exchange it belongs to, which *)
(* the driver cannot see.  The supply hears bytes when they are written;   *)
(* when its own bytes arrive is when getch takes them, so wire is what     *)
(* will arrive, in order.  Some supplies echo what they hear and prompt.   *)
(***************************************************************************)
EXTENDS Integers, Sequences, SequencesExt

CONSTANTS Text,         \* Text[c]: the characters of command c
          Answer,       \* Answer[c]: what answers c, for commands that ask
          Uses,         \* the commands the application gives
          MaxCalls      \* bound: exchanges made

NL     == "nl"          \* the new line that ends commands and answers
PROMPT == ">"
NAME   == Answer["idn"] \* by which open knows the supply

Commands == DOMAIN Text
Asking   == DOMAIN Answer
Characters == {NL, PROMPT} \cup Range(Answer) \cup UNION {Range(Text[c]) : c \in Commands}

(* One of the two ends as the other.                                       *)
EndAlike(s, t) ==
    \A k \in 0 .. Len(s) - 1 : k < Len(t) => s[Len(s) - k] = t[Len(t) - k]

(* Commands have no character of an answer, two commands differ, and none  *)
(* ends as one that asks does, as is true of "*rst;*idn?", "meas:volt?"    *)
(* and the others of kepco.h:37-85 but "*idn?".                            *)
ASSUME KepcoAssumption ==
    /\ Uses \cup Asking \cup {"rst", "rem", "outp"} \subseteq Commands
    /\ "idn" \in Asking
    /\ Range(Answer) \cap {NL, PROMPT} = {}
    /\ \A c, d \in Asking : Answer[c] = Answer[d] => c = d
    /\ \A c \in Commands : /\ Text[c] \in Seq(Characters) /\ Len(Text[c]) >= 3
                            /\ \A k \in DOMAIN Text[c] : Text[c][k] \notin {NL} \cup Range(Answer)
    /\ \A c, d \in Commands : Text[c] = Text[d] => c = d
    /\ \A c \in Asking, d \in Commands : EndAlike(Text[c], Text[d]) => c = d
    /\ MaxCalls \in Nat

VARIABLES world,        \* what the surroundings do:
                        \*   echoes: the supply echoes and prompts
                        \*   late: a byte may take longer than 0.5 s
                        \*   signals: select may be interrupted
                        \*   mute: the supply is off, or not there
          connected,    \* portHandle # INVALID_HANDLE_VALUE
          status, echoed,
          op,           \* "none", "open", "use" or "close"
          phase,        \* "idle", "drain", "wake", "echo", "response", "prompt"
          blocked,      \* getch is in read, without a limit of time
          cmd, at,      \* the command and the index of the echo awaited
          got,          \* the bytes of the response, or of the line s of open
          calls,        \* the exchanges begun
          outcome,      \* how the last exchange on this connection ended:
                        \*   "own", with bytes of its own only; "stale",
                        \*   with the answer to another command; "mixed",
                        \*   with other bytes that are not its own; "echo",
                        \*   without its echo; "timeout", without an answer
          wire,         \* the bytes on their way to the driver
          heard,        \* the supply: the unfinished line
          output        \* the supply: the output is on

driver == <<connected, status, echoed, op>>
supply == <<wire, heard, output>>
vars == <<world, driver, phase, blocked, cmd, at, got, calls, outcome, supply>>

Line(c) == Append(Text[c], NL)

Init ==
    /\ world \in [echoes : BOOLEAN, late : BOOLEAN, signals : BOOLEAN, mute : BOOLEAN]
    /\ ~world.mute
    /\ connected = FALSE /\ status = FALSE /\ echoed = FALSE /\ op = "none"
    /\ phase = "idle" /\ blocked = FALSE
    /\ cmd = "rst" /\ at = 0 /\ got = <<>> /\ calls = 0 /\ outcome = "none"
    /\ wire = <<>> /\ heard = <<>> /\ output = FALSE

----------------------------------------------------------------------------
(* The supply.                                                             *)

Bytes(chars, n) == [k \in 1 .. Len(chars) |-> [char |-> chars[k], of |-> n]]

(* What it answers to a line: a name, a value, an empty line, or nothing   *)
(* when it makes no sense of it.                                           *)
Reply(line) ==
    IF \E c \in Asking : line = Text[c]
    THEN <<Answer[CHOOSE c \in Asking : line = Text[c]], NL>>
    ELSE IF \E c \in Commands : line = Text[c] THEN <<NL>> ELSE <<>>

(* What it says after it heard line and then chars, of which a new line is *)
(* the last if there is one.                                               *)
Ends(chars) == Last(chars) = NL
LineOf(line, chars) == line \o (IF Ends(chars) THEN Front(chars) ELSE chars)
Says(echoes, line, chars) ==
    (IF echoes THEN chars ELSE <<>>)
    \o (IF Ends(chars) THEN Reply(LineOf(line, chars)) ELSE <<>>)
    \o (IF Ends(chars) /\ echoes THEN <<PROMPT>> ELSE <<>>)

(* It hears the characters that exchange n writes after w was on the wire. *)
(* A reset, which open sends too, turns it off.                            *)
Hear(w, chars, n) ==
    IF world.mute THEN wire' = w /\ UNCHANGED <<heard, output>>
    ELSE LET line == LineOf(heard, chars) IN
         /\ heard' = IF Ends(chars) THEN <<>> ELSE line
         /\ wire' = w \o Bytes(Says(world.echoes, heard, chars), n)
         /\ output' = IF ~Ends(chars) THEN output
                      ELSE (output \/ line = Text["outp"])
                           /\ line \notin {Text["rst"], Text["idn"]}

(* It falls silent, for good, and what it was doing it goes on doing.      *)
FallsMute ==
    /\ ~world.mute
    /\ world' = [world EXCEPT !.mute = TRUE]
    /\ UNCHANGED <<driver, phase, blocked, cmd, at, got, calls, outcome, supply>>

----------------------------------------------------------------------------
(* serialHandler::getch.  An interrupted select is taken for a successful  *)
(* one: "errno = EINTR" assigns, and continue leaves a do while(false).    *)

Arrives(char) == phase # "idle" /\ wire # <<>> /\ Head(wire).char = char

TimesOut == phase # "idle" /\ ~blocked /\ (world.late \/ wire = <<>>)

Interrupted ==
    /\ phase # "idle" /\ ~blocked /\ world.signals
    /\ blocked' = TRUE
    /\ UNCHANGED <<world, driver, phase, cmd, at, got, calls, outcome, supply>>

Chars(bytes) == [k \in 1 .. Len(bytes) |-> bytes[k].char]

----------------------------------------------------------------------------
(* exchange.  The first two bytes go out before the first echo is read,    *)
(* and one more after each echo.                                           *)

Begin(c, echoing) ==
    /\ calls' = calls + 1
    /\ cmd' = c /\ at' = 1 /\ got' = <<>> /\ blocked' = FALSE
    /\ phase' = IF echoing THEN "echo" ELSE "response"
    /\ Hear(wire, IF echoing THEN SubSeq(Line(c), 1, 2) ELSE Line(c), calls + 1)

(* Disconnect: what has arrived is lost, the rest is still to come.        *)
Disconnects(rest) ==
    /\ connected' = FALSE /\ status' = FALSE
    /\ \E k \in 0 .. Len(rest) : wire' = SubSeq(rest, k + 1, Len(rest))

(* Mutant: open takes any answer for the name of the supply.               *)
FinishAnyName(result, rest) ==
    /\ outcome' = result
    /\ phase' = "idle" /\ blocked' = FALSE
    /\ IF op = "close" \/ (op = "open" /\ cmd = "idn" /\ got' = <<>>)
       THEN Disconnects(rest) /\ op' = "none"
       ELSE /\ wire' = rest /\ UNCHANGED <<connected, status>>
            /\ op' = IF op = "use" \/ cmd = "outp" THEN "none" ELSE op
    /\ UNCHANGED <<world, echoed, cmd, at, calls, heard, output>>

(* The end of an exchange and what its caller does next: close disconnects *)
(* whatever the result, open only if the supply has not told its name.     *)
Finish(result, rest) ==
    /\ outcome' = result
    /\ phase' = "idle" /\ blocked' = FALSE
    /\ IF op = "close" \/ (op = "open" /\ cmd = "idn" /\ Chars(got') # <<NAME, NL>>)
       THEN Disconnects(rest) /\ op' = "none"
       ELSE /\ wire' = rest /\ UNCHANGED <<connected, status>>
            /\ op' = IF op = "use" \/ cmd = "outp" THEN "none" ELSE op
    /\ UNCHANGED <<world, echoed, cmd, at, calls, heard, output>>

Returned(bytes) ==
    IF \E k \in 1 .. Len(bytes) :
          bytes[k].char \in Range(Answer) \ {Head(Reply(Text[cmd]))} THEN "stale"
    ELSE IF \A k \in 1 .. Len(bytes) : bytes[k].of = calls THEN "own"
    ELSE "mixed"

(* Mutant: the echo is read but not compared.                              *)
EchoAny ==
    /\ phase = "echo" /\ wire # <<>>
    /\ LET rest == Tail(wire) IN
       IF at + 2 <= Len(Line(cmd))
       THEN Hear(rest, <<Line(cmd)[at + 2]>>, calls)
       ELSE wire' = rest /\ UNCHANGED <<heard, output>>
    /\ IF at = Len(Line(cmd)) THEN phase' = "response" /\ UNCHANGED at
       ELSE at' = at + 1 /\ UNCHANGED phase
    /\ blocked' = FALSE
    /\ UNCHANGED <<world, driver, cmd, got, calls, outcome>>

EchoRight ==
    /\ phase = "echo" /\ Arrives(Line(cmd)[at])
    /\ LET rest == Tail(wire) IN
       IF at + 2 <= Len(Line(cmd))
       THEN Hear(rest, <<Line(cmd)[at + 2]>>, calls)
       ELSE wire' = rest /\ UNCHANGED <<heard, output>>
    /\ IF at = Len(Line(cmd)) THEN phase' = "response" /\ UNCHANGED at
       ELSE at' = at + 1 /\ UNCHANGED phase
    /\ blocked' = FALSE
    /\ UNCHANGED <<world, driver, cmd, got, calls, outcome>>

EchoWrong ==
    /\ phase = "echo" /\ wire # <<>> /\ ~Arrives(Line(cmd)[at])
    /\ UNCHANGED got
    /\ Finish("echo", Tail(wire))

ResponseChar ==
    /\ phase = "response" /\ wire # <<>> /\ ~Arrives(NL)
    /\ got' = Append(got, Head(wire)) /\ wire' = Tail(wire)
    /\ blocked' = FALSE
    /\ UNCHANGED <<world, driver, phase, cmd, at, calls, outcome, heard, output>>

ResponseEnds ==
    /\ phase = "response" /\ Arrives(NL)
    /\ got' = Append(got, Head(wire))
    /\ IF echoed
       THEN /\ phase' = "prompt" /\ wire' = Tail(wire) /\ blocked' = FALSE
            /\ UNCHANGED <<world, driver, cmd, at, calls, outcome, heard, output>>
       ELSE Finish(Returned(got'), Tail(wire))

PromptSkips ==
    /\ phase = "prompt" /\ wire # <<>> /\ ~Arrives(PROMPT)
    /\ wire' = Tail(wire) /\ blocked' = FALSE
    /\ UNCHANGED <<world, driver, phase, cmd, at, got, calls, outcome, heard, output>>

Prompted ==
    /\ phase = "prompt" /\ Arrives(PROMPT)
    /\ UNCHANGED got
    /\ Finish(Returned(got), Tail(wire))

(* Mutant: the wait for the response has no end.                           *)
NoAnswerButResponse ==
    /\ TimesOut /\ phase \in {"echo", "prompt"}
    /\ got' = <<>>
    /\ Finish(IF phase = "echo" THEN "echo" ELSE "timeout", wire)

NoAnswer ==
    /\ TimesOut /\ phase \in {"echo", "response", "prompt"}
    /\ got' = <<>>
    /\ Finish(IF phase = "echo" THEN "echo" ELSE "timeout", wire)

----------------------------------------------------------------------------
(* kepco_bop: open, the commands and close.                                *)

Open(works) ==
    /\ op = "none" /\ calls + 3 <= MaxCalls
    /\ connected' = (connected \/ works)
    /\ status' = FALSE /\ echoed' = FALSE /\ outcome' = "none"
    /\ IF connected' THEN op' = "open" /\ phase' = "drain" ELSE UNCHANGED <<op, phase>>
    /\ got' = <<>>
    /\ UNCHANGED <<world, blocked, cmd, at, calls, supply>>

(* getline until it times out; s is what followed the last new line.       *)
Drain ==
    /\ phase \in {"drain", "wake"} /\ wire # <<>>
    /\ got' = IF Arrives(NL) THEN <<>> ELSE Append(got, Head(wire))
    /\ wire' = Tail(wire) /\ blocked' = FALSE
    /\ UNCHANGED <<world, driver, phase, cmd, at, calls, outcome, heard, output>>

Wake ==
    /\ phase = "drain" /\ TimesOut
    /\ phase' = "wake" /\ got' = <<>>
    /\ Hear(wire, <<NL>>, 0)
    /\ UNCHANGED <<world, driver, blocked, cmd, at, calls, outcome>>

Identify ==
    /\ phase = "wake" /\ TimesOut
    /\ echoed' = (Chars(got) = <<PROMPT>>)
    /\ status' = TRUE
    /\ Begin("idn", echoed')
    /\ UNCHANGED <<world, connected, op, outcome>>

OpenGoesOn ==
    /\ op = "open" /\ phase = "idle"
    /\ Begin(IF cmd = "idn" THEN "rem" ELSE "outp", echoed)
    /\ UNCHANGED <<world, driver, outcome>>

Use(c) ==
    /\ op = "none" /\ status /\ calls < MaxCalls
    /\ op' = "use"
    /\ Begin(c, echoed)
    /\ UNCHANGED <<world, connected, status, echoed, outcome>>

(* Mutant: close does not reset.                                           *)
CloseWithoutReset ==
    /\ op = "none" /\ status
    /\ Disconnects(wire)
    /\ UNCHANGED <<world, echoed, op, phase, blocked, cmd, at, got, calls, outcome,
                   heard, output>>

Close ==
    /\ op = "none" /\ status /\ calls < MaxCalls
    /\ op' = "close"
    /\ Begin("rst", echoed)
    /\ UNCHANGED <<world, connected, status, echoed, outcome>>

----------------------------------------------------------------------------
Running ==
    \/ Drain \/ Wake \/ Identify \/ OpenGoesOn
    \/ EchoRight \/ EchoWrong \/ ResponseChar \/ ResponseEnds
    \/ PromptSkips \/ Prompted \/ NoAnswer

User == (\E works \in BOOLEAN : Open(works)) \/ (\E c \in Uses : Use(c)) \/ Close

Next == User \/ Running \/ Interrupted \/ FallsMute

Spec == Init /\ [][Next]_vars

(* An operation that has begun goes on; its bytes arrive or its time       *)
(* passes.  Nothing obliges a signal to come.                              *)
FairSpec == Spec /\ WF_vars(Running)

----------------------------------------------------------------------------
(* Properties.                                                             *)

Byte == [char : Characters, of : 0 .. MaxCalls]

(* The types of the variables; a supply that is ready is connected, and    *)
(* one that is not, between operations, is not (kepco.cpp:58-95).          *)
TypeOK ==
    /\ world \in [echoes : BOOLEAN, late : BOOLEAN, signals : BOOLEAN, mute : BOOLEAN]
    /\ {connected, status, echoed, blocked, output} \subseteq BOOLEAN
    /\ op \in {"none", "open", "use", "close"}
    /\ phase \in {"idle", "drain", "wake", "echo", "response", "prompt"}
    /\ cmd \in Commands /\ at \in 0 .. Len(Line(cmd)) /\ calls \in 0 .. MaxCalls
    /\ got \in Seq(Byte) /\ wire \in Seq(Byte) /\ heard \in Seq(Characters)
    /\ outcome \in {"none", "own", "mixed", "stale", "echo", "timeout"}
    /\ op = "none" => phase = "idle" /\ status = connected

(* However late bytes are and whatever interrupts the wait: an open that   *)
(* succeeds by a name it asked for itself has found out whether the supply *)
(* echoes (kepco.cpp:72-87).  The name for which an earlier open gave up   *)
(* may come late, and then it may be wrong.                                *)
HandshakeIsRight ==
    [][/\ op = "open" /\ cmd = "idn" /\ phase # "idle" /\ phase' = "idle"
       /\ connected'
       /\ \A k \in 1 .. Len(got') : got'[k].char = NAME => got'[k].of = calls
       => echoed = world.echoes]_vars

(* Where nothing is late every answer returned is of the exchange's own    *)
(* bytes; and where the supply echoes, though bytes be late, no command    *)
(* returns the answer to another: the driver cannot get past an answer it  *)
(* has missed without failing the comparison of an echo (kepco.cpp:23-28). *)
OwnAnswer ==
    /\ ~world.late => outcome \notin {"mixed", "stale"}
    /\ echoed => outcome # "stale"

(* Between operations the driver is ready exactly if its port is open;     *)
(* where nothing is late and the supply hears, one that is closed, or      *)
(* could not be opened, has its output off (kepco.h:89-93).                *)
ClosedIsOff ==
    /\ TypeOK
    /\ (~world.late /\ ~world.mute /\ op = "none" /\ ~status) => ~output

(* Every operation ends, though the supply be silent, unless a signal      *)
(* comes while it waits (serial.cpp:240-250).                              *)
OperationEnds ==
    (op # "none" /\ ~world.signals) ~> (op = "none")
=============================================================================
