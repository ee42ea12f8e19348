-------------------------------- MODULE Lxi --------------------------------
(***************************************************************************)
(* Talking to instruments over TCP (lxi.h, lxi.cpp): connecting, messages  *)
(* with and without an answer, and the search of a range of addresses for  *)
(* an instrument of a name.  An answer is a line that arrives in pieces;   *)
(* nothing in it says which query it answers.                              *)
(***************************************************************************)
EXTENDS Integers, Sequences, SequencesExt

CONSTANTS Width,        \* the number of addresses, 2^32
          Names,        \* the names that are searched for
          MaxOpen,      \* the descriptors a process may have
          MaxQueries,   \* bound: the messages of the program
          Late          \* an instrument may answer after the time is up

Address == 0 .. Width - 1
NoAddress == -1         \* the result 0 of a search that found nothing
Kinds == {"dead", "refuses", "mute", "other", "wanted"}

VARIABLES host,         \* host[a]: who is at an address
          open,         \* the number of descriptors that are open
          link,         \* the address the descriptor fd is connected to
          sent,         \* the queries sent over it
          wire,         \* the pieces of answers on their way
          served,       \* the queries the instrument has answered
          got,          \* the pieces in the buffer
          pc,           \* "idle", "connect", "ask", "wait", "compare"
          answer,       \* the pieces of the answer, <<>> for "TIMED_OUT"
          scan,         \* the search: its range, its name and its result
          gaveUp,       \* history: a query over this link was given up
          missed        \* history: wanted hosts that were not reached or heard

vars == <<host, open, link, sent, wire, served, got, pc, answer, scan, gaveUp, missed>>

NoScan == [on |-> FALSE, from |-> 0, ip |-> 0, ip1 |-> 0, idn |-> "", found |-> NoAddress]

Init ==
    /\ host \in [Address -> Kinds]
    /\ open = 0 /\ link = NoAddress
    /\ sent = 0 /\ served = 0 /\ wire = <<>> /\ got = <<>>
    /\ pc = "idle" /\ answer = <<>> /\ scan = NoScan
    /\ gaveUp = FALSE /\ missed = {}

Miss(a) == missed' = IF host[a] = "wanted" THEN missed \cup {a} ELSE missed

(* A connection that is refused makes the socket writable, and passes; so  *)
(* does one to a host that never answers.                                  *)
Reaches(a) == host[a] # "dead" /\ open < MaxOpen

Connected(a) ==
    /\ Reaches(a)
    /\ open' = open + 1 /\ link' = a
    /\ sent' = 0 /\ served' = 0 /\ wire' = <<>> /\ got' = <<>>
    /\ answer' = <<>> /\ gaveUp' = FALSE

(* socket fails, or time is up; what was opened is closed.                 *)
NotConnected(a) ==
    /\ ~Reaches(a)
    /\ UNCHANGED <<open, link, sent, served, wire, got, answer, gaveUp>>

Connect(a) ==
    /\ pc = "idle" /\ ~scan.on
    /\ Connected(a) \/ NotConnected(a)
    /\ UNCHANGED <<host, pc, scan, missed>>

(* write, and what a message does that awaits no answer.                   *)
Ask(query) ==
    /\ pc = "idle" /\ link # NoAddress /\ ~scan.on /\ sent < MaxQueries
    /\ \/ host[link] = "refuses" /\ UNCHANGED <<sent, pc>>
       \/ host[link] # "refuses" /\ query /\ sent' = sent + 1 /\ pc' = "wait"
       \/ host[link] # "refuses" /\ ~query /\ UNCHANGED <<sent, pc>>
    /\ got' = <<>> /\ answer' = <<>>
    /\ UNCHANGED <<host, open, link, served, wire, scan, gaveUp, missed>>

Return(a) ==
    /\ answer' = a
    /\ pc' = IF scan.on THEN "compare" ELSE "idle"

GiveUp ==
    /\ Return(<<>>) /\ gaveUp' = TRUE
    /\ IF scan.on THEN Miss(link) ELSE UNCHANGED missed
    /\ UNCHANGED <<host, open, link, sent, served, scan>>

(* select: time is up with nothing to read.                                *)
SelectExpires ==
    /\ pc = "wait" /\ wire = <<>>
    /\ Late \/ host[link] \notin {"other", "wanted"}
    /\ GiveUp /\ UNCHANGED <<wire, got>>

(* read: some pieces, and the line ends if the last of them does.          *)
Ends(pieces) == Last(pieces).last

Read(n) ==
    /\ pc = "wait" /\ n \in 1 .. Len(wire)
    /\ wire' = SubSeq(wire, n + 1, Len(wire))
    /\ got' = got \o SubSeq(wire, 1, n)
    /\ \/ /\ Ends(got')
          /\ Return(got')
          /\ UNCHANGED <<host, open, link, sent, served, scan, gaveUp, missed>>
       \/ /\ ~Ends(got')
          /\ UNCHANGED <<host, open, link, sent, served, pc, answer, scan, gaveUp, missed>>
       \/ /\ ~Ends(got') /\ Late                    \* the time is up
          /\ GiveUp

(* External: an instrument answers its queries in order, in one piece or   *)
(* two.                                                                    *)
Answers(pieces) ==
    /\ link # NoAddress /\ host[link] \in {"other", "wanted"}
    /\ served < sent
    /\ served' = served + 1
    /\ wire' = wire \o [i \in 1 .. pieces |-> [re |-> served + 1, last |-> i = pieces]]
    /\ UNCHANGED <<host, open, link, sent, got, pc, answer, scan, gaveUp, missed>>

----------------------------------------------------------------------------
(* lxiScanRange.  fd is not closed, and port is not used.                  *)
Scan(ip0, ip1, idn) ==
    /\ pc = "idle" /\ link = NoAddress /\ ~scan.on
    /\ scan' = [on |-> ip0 <= ip1, from |-> ip0, ip |-> ip0, ip1 |-> ip1, idn |-> idn,
                found |-> NoAddress]
    /\ pc' = IF ip0 <= ip1 THEN "connect" ELSE "idle"
    /\ missed' = {}
    /\ UNCHANGED <<host, open, link, sent, served, wire, got, answer, gaveUp>>

(* Mutant: the last address is left out.                                   *)
NextHostShort ==
    LET ip == (scan.ip + 1) % Width IN
    IF ip < scan.ip1 THEN scan' = [scan EXCEPT !.ip = ip] /\ pc' = "connect"
                     ELSE scan' = [scan EXCEPT !.on = FALSE] /\ pc' = "idle"

(* ++ip, which wraps, and ip <= ip1.                                       *)
NextHost ==
    LET ip == (scan.ip + 1) % Width IN
    IF ip <= scan.ip1 THEN scan' = [scan EXCEPT !.ip = ip] /\ pc' = "connect"
                      ELSE scan' = [scan EXCEPT !.on = FALSE] /\ pc' = "idle"

ScanSkip ==
    /\ pc = "connect" /\ NotConnected(scan.ip)
    /\ NextHost /\ Miss(scan.ip)
    /\ UNCHANGED host

ScanConnect ==
    /\ pc = "connect" /\ Connected(scan.ip)
    /\ pc' = "ask"
    /\ UNCHANGED <<host, scan, missed>>

ScanAsk ==
    /\ pc = "ask"
    /\ \/ host[link] = "refuses" /\ Return(<<>>) /\ UNCHANGED sent
       \/ host[link] # "refuses" /\ pc' = "wait" /\ sent' = sent + 1 /\ UNCHANGED answer
    /\ UNCHANGED <<host, open, link, served, wire, got, scan, gaveUp, missed>>

(* An instrument that was not heard is named "TIMED_OUT".                  *)
Matches ==
    CASE answer = <<>> -> scan.idn = "TIMED_OUT"
      [] OTHER -> host[link] = "wanted" /\ scan.idn # "TIMED_OUT"

ScanCompare ==
    /\ pc = "compare"
    /\ \/ /\ Matches
          /\ scan' = [scan EXCEPT !.on = FALSE, !.found = scan.ip] /\ pc' = "idle"
       \/ ~Matches /\ NextHost
    /\ UNCHANGED <<host, open, link, sent, served, wire, got, answer, gaveUp, missed>>

Client ==
    \/ SelectExpires \/ \E n \in 1 .. 4 : Read(n)
    \/ ScanSkip \/ ScanConnect \/ ScanAsk \/ ScanCompare

Next ==
    \/ \E a \in Address : Connect(a)
    \/ \E query \in BOOLEAN : Ask(query)
    \/ \E ip0, ip1 \in Address, idn \in Names : Scan(ip0, ip1, idn)
    \/ Client
    \/ \E pieces \in 1 .. 2 : Answers(pieces)

Spec == Init /\ [][Next]_vars

----------------------------------------------------------------------------
(* Properties.                                                             *)

TypeOK ==
    /\ open \in 0 .. MaxOpen
    /\ served <= sent
    /\ link # NoAddress => host[link] # "dead"
    /\ scan.on => pc # "idle" /\ scan.from <= scan.ip1

(* Until a query is given up, what a message returns (lxi.cpp:82-143) is   *)
(* the whole answer to its own query, however it is cut into pieces.       *)
OwnUntilGivenUp ==
    pc \in {"idle", "compare"} /\ answer # <<>> /\ ~gaveUp =>
        /\ \A i \in DOMAIN answer : answer[i].re = sent
        /\ answer[Len(answer)].last

(* A search (lxi.cpp:145-158) returns the first address whose host has the *)
(* name, of those that could be connected to and answered in time; a       *)
(* search for "TIMED_OUT" finds whatever does not answer, and one up to    *)
(* the last address of all goes on with the first.                         *)
FindsTheFirst ==
    ~scan.on /\ scan.idn \notin {"", "TIMED_OUT"} /\ scan.ip1 # Width - 1 =>
        LET there == {a \in scan.from .. scan.ip1 : host[a] = "wanted"} \ missed
        IN  IF scan.found = NoAddress THEN there = {}
            ELSE scan.found \in there /\ \A a \in there : scan.found <= a
=============================================================================
