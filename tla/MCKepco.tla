------------------------------ MODULE MCKepco ------------------------------
(***************************************************************************)
(* Commands of three characters.  Two would not do: an exchange sends two  *)
(* before it reads an echo, and one that times out there would leave a     *)
(* whole command on the wire for the next.  The first two characters of    *)
(* the two resets agree, as those of "*rst" and "*rst;*idn?" do.           *)
(***************************************************************************)
EXTENDS KepcoExchange

Texts == [idn |-> <<"*", "r", "i">>, rst |-> <<"*", "r", "t">>, rem |-> <<"s", "y", "r">>,
          outp |-> <<"o", "u", "n">>, volt |-> <<"v", "o", "1">>, meas |-> <<"m", "e", "v">>]
Answers == [idn |-> "N", meas |-> "V"]
=============================================================================
