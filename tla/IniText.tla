------------------------------ MODULE IniText ------------------------------
(***************************************************************************)
(* How iniloader reads and writes text (iniloader.cpp).  A string is a     *)
(* sequence of characters, a file a sequence of lines; contents is the     *)
(* vector of groups of the loader.                                         *)
(***************************************************************************)
EXTENDS Sequences, SequencesExt, Naturals

(* The letters that stand for control characters after a backslash; the    *)
(* backspace and the bell are spelled out.                                 *)
Letter ==
    [c \in {"\n", "\r", "\t", "\f", "BS", "BEL"} |->
        CASE c = "\n" -> "n" [] c = "\r" -> "r" [] c = "\t" -> "t"
          [] c = "\f" -> "f" [] c = "BS" -> "b" [] c = "BEL" -> "a"]

Control(l) == CHOOSE c \in DOMAIN Letter : Letter[c] = l

Letters == {Letter[c] : c \in DOMAIN Letter}

Quote == "\""

Written(c) ==
    CASE c \in DOMAIN Letter -> <<"\\", Letter[c]>>
      [] c \in {"[", "]", "\\", "'", Quote} -> <<"\\", c>>
      [] OTHER -> <<c>>

escape(s) == FlattenSeq([i \in DOMAIN s |-> Written(s[i])])

(* A backslash is dropped and changes the character after it; one at the   *)
(* end of the text is lost.                                                *)
Read(r, c) ==
    CASE r.escaped /\ c \in Letters ->
            [text |-> Append(r.text, Control(c)), escaped |-> FALSE]
      [] ~r.escaped /\ c = "\\" -> [r EXCEPT !.escaped = TRUE]
      [] OTHER -> [text |-> Append(r.text, c), escaped |-> FALSE]

unescape(s) ==
    LET after[n \in 0 .. Len(s)] ==
            IF n = 0 THEN [text |-> <<>>, escaped |-> FALSE] ELSE Read(after[n - 1], s[n])
    IN  after[Len(s)].text

NonBlank(c) == c \notin {" ", "\t", "BS", "\r", "\f", "\n", "BEL"}

Unquoted(t) == IF t[1] = Quote /\ t[Len(t)] = Quote THEN unescape(t) ELSE t

(* What a line asks for.  The sign "=" is looked for before any quotes are *)
(* seen; a line without one is a key and its value; one without a key      *)
(* before the sign takes the line, trimmed or not, for the key; and one    *)
(* without a value ends the load, by the exception of string's constructor.*)
Parse(s) ==
    LET first  == SelectInSeq(s, NonBlank)
        last   == SelectLastInSeq(s, NonBlank)
        eq     == SelectInSeq(s, LAMBDA c : c = "=")
        first2 == SelectInSubSeq(s, eq + 1, Len(s), NonBlank)
        last2  == IF eq <= 1 THEN last ELSE SelectLastInSubSeq(s, 1, eq - 1, NonBlank)
    IN  CASE first = 0 -> [is |-> "blank"]
          [] first # 0 /\ s[first] = "[" /\ s[last] = "]" ->
                [is |-> "group", name |-> unescape(SubSeq(s, first + 1, last - 1))]
          [] OTHER ->
                IF first2 = 0 THEN [is |-> "throws"]
                ELSE [is    |-> "key",
                      name  |-> IF last2 = 0 THEN SubSeq(s, first, Len(s))
                                ELSE Unquoted(SubSeq(s, first, last2)),
                      value |-> Unquoted(SubSeq(s, first2, last))]

Quoted(s) == <<Quote>> \o s \o <<Quote>>

(* Mutant: keys and values are written as they are.                        *)
SavedKeyRaw(k) == Quoted(k.name) \o <<" ", "=", " ">> \o Quoted(k.value)

SavedKey(k) == Quoted(escape(k.name)) \o <<" ", "=", " ">> \o Quoted(escape(k.value))

saveToStream(contents) ==
    FlattenSeq([n \in DOMAIN contents |->
        <<(<<"[">> \o escape(contents[n].name) \o <<"]">>)>>
            \o [m \in DOMAIN contents[n].keys |-> SavedKey(contents[n].keys[m])]])
=============================================================================
