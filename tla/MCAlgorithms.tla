--------------------------- MODULE MCAlgorithms ---------------------------
(***************************************************************************)
(* The algorithms of the helpers: the search for the maximum power point,  *)
(* strings, fixed point numbers, the command line and the controllers.     *)
(* They share nothing, so that a behaviour is one of one of them, the      *)
(* others as they were at first.                                           *)
(***************************************************************************)
EXTENDS MppSearch, Sequences, FiniteSets

CONSTANTS Alphabets, MaxLength, Times, Bases, Word,
          Bits, Scales, Values,
          Tables, Lines,
          Settings, Starts, Errors, Limit

VARIABLES part,         \* which of them is at work
          alphabet, text, time, first,
          x, last, lost,
          args, argv, arg, index, argPc, ret,
          ctl, Mi, awe, out, falls

stringVars  == <<alphabet, text, time, first>>
fixedVars   == <<x, last, lost>>
argVars     == <<args, argv, arg, index, argPc, ret>>
controlVars == <<ctl, Mi, awe, out, falls>>

Text    == INSTANCE StrAuxCalls
Fixed   == INSTANCE FixedPoint
Options == INSTANCE ArgTool WITH pc <- argPc
Control == INSTANCE Controllers

(* Gains are not negative, errors as large below zero as above it, and the *)
(* controller that bounds its output only starts within the bounds.        *)
ASSUME ControllersAssumption ==
    /\ Starts \subseteq Int
    /\ \E e \in Errors : e \in Nat /\ Errors \subseteq -e .. e
    /\ \A c \in Settings :
          /\ c.Kp \in Nat /\ c.Ki \in Nat /\ c.kaw \in Int
          /\ c.MiMin \in Int /\ c.MiMax \in Int /\ c.Min \in Int /\ c.Max \in Int
          /\ c.kind = "AntiWindup" => c.Min <= c.Max /\ Starts \subseteq c.Min .. c.Max

(* No option is in a table twice, and one that ends the command line       *)
(* shares its variable with none that does not.                            *)
ASSUME OptionsAssumption ==
    /\ Tables \subseteq Seq(Options!Option) /\ Lines \subseteq Seq(STRING)
    /\ \A t \in Tables : \A i, j \in DOMAIN t :
          /\ t[i].id = t[j].id => i = j
          /\ t[i].index = t[j].index => t[i].end = t[j].end

(* Characters are not the one that ends a string in C; bases are those     *)
(* that intToString does not change.                                       *)
ASSUME StringsAssumption ==
    /\ UNION Alphabets \subseteq STRING \ {"NUL"}
    /\ Times \subseteq Int /\ Bases \subseteq 2 .. 16 /\ Word \in Nat \ {0}

(* Scales leave room for a sign, and values are those of the integers.     *)
ASSUME NumbersAssumption ==
    /\ Bits \in Nat \ {0} /\ Scales \subseteq 0 .. Bits - 1
    /\ \A n \in Values : n \in Int /\ Fixed!InRange(n)

(* The one that a frozen variable starts as.                               *)
Any(S) == CHOOSE e \in S : TRUE

WorkInit ==
    /\ part \in {"search", "strings", "fixed", "options", "control"}
    /\ IF part = "search" THEN TRUE ELSE power = Any(Curves)
    /\ IF part = "strings" THEN TRUE ELSE alphabet = {} /\ time = Any(Times)
    /\ IF part = "fixed" THEN TRUE ELSE x = Any(Fixed!Number)
    /\ IF part = "options" THEN TRUE ELSE args = Any(Tables) /\ argv = <<>>
    /\ IF part = "control" THEN TRUE ELSE ctl = Any(Settings) /\ Mi = 0
    /\ Init /\ Text!Init /\ Fixed!Init /\ Options!Init /\ Control!Init
    /\ part # "options" => \A i \in DOMAIN index : index[i] = 0

WorkNext ==
    /\ UNCHANGED part
    /\ \/ part = "search" /\ Next
          /\ UNCHANGED <<stringVars, fixedVars, argVars, controlVars>>
       \/ part = "strings" /\ Text!Next
          /\ UNCHANGED <<vars, fixedVars, argVars, controlVars>>
       \/ part = "fixed" /\ Fixed!Next
          /\ UNCHANGED <<vars, stringVars, argVars, controlVars>>
       \/ part = "options" /\ Options!Next
          /\ UNCHANGED <<vars, stringVars, fixedVars, controlVars>>
       \/ part = "control" /\ Control!Next
          /\ UNCHANGED <<vars, stringVars, fixedVars, argVars>>

WorkSpec ==
    WorkInit /\ [][WorkNext]_<<part, vars, stringVars, fixedVars, argVars, controlVars>>

----------------------------------------------------------------------------
(* Every generator with one maximum, of nine currents and seven powers,    *)
(* and what lies between them; and those that rise and fall evenly to and  *)
(* from each of the seventeen currents.                                    *)
Choices(n) == {S \in SUBSET (0 .. 5) : Cardinality(S) = n}
Sorted(S)  == [i \in 0 .. Cardinality(S) - 1 |-> CHOOSE e \in S : Cardinality({j \in S : j < e}) = i]
Curve(p, rise, fall) == [i \in 0 .. 8 |-> IF i < p THEN rise[i] ELSE IF i = p THEN 6 ELSE fall[8 - i]]
Unimodal == UNION {{Curve(p, Sorted(L), Sorted(R)) : L \in Choices(p), R \in Choices(8 - p)} : p \in 2 .. 6}
            \cup {Curve(0, Sorted({}), [i \in 0 .. 7 |-> i - 2]),
                  Curve(8, [i \in 0 .. 7 |-> i - 2], Sorted({}))}
Between(c) == [i \in 0 .. 16 |-> c[i \div 2] + c[(i + 1) \div 2]]
Slope(p, rise, fall) == [i \in 0 .. 16 |-> IF i < p THEN rise * (i - p) ELSE fall * (p - i)]
Generators == {Between(c) : c \in Unimodal}
              \cup {Slope(p, rise, fall) : p \in 0 .. 16, rise, fall \in 1 .. 4}

(* Characters for numbers, for digits of a base, for pieces and blanks,    *)
(* and for escapes; times around a second, a minute, ten and a hundred     *)
(* hours.                                                                  *)
SomeAlphabets == { {" ", "+", "1", ".", "e"}, {"0", "1", "9", "F", "a", "-"},
                   {";", "a", " ", "\n"}, {"a", "\\", "n", "\n", "$"} }
SomeTimes == {0, 5003, 59999, 3661002, 39599999, 360000005}

FourBits == -8 .. 7

(* The table of mppt.cpp:84-107, one with options of every kind, and one   *)
(* with an option that has no variable.                                    *)
Opt(n, var, type, required, end) ==
    [id |-> n, index |-> var, type |-> type, required |-> required, end |-> end]
Help == Opt("-h", "iHelp", "flag", FALSE, FALSE)
SomeTables ==
    { <<Help, Opt("--help", "iHelp", "flag", FALSE, FALSE), Opt("-o", "iOutFile", "default", FALSE, FALSE)>>,
      <<Help, Opt("-o", "iOutFile", "default", TRUE, FALSE), Opt("--", "iRest", "none", FALSE, TRUE),
        Opt("-x", "iX", "none", FALSE, FALSE)>>,
      <<Help, Opt("-o", "null", "default", TRUE, FALSE)>> }
SomeLines == UNION {[1 .. n -> {"-h", "--help", "-o", "--", "-x", "f"}] : n \in 0 .. 4}

Controller(kind, kp, ki, kaw) == [kind |-> kind, Kp |-> kp, Ki |-> ki, kaw |-> kaw,
                                  MiMin |-> -6, MiMax |-> 6, Min |-> -4, Max |-> 4]
SomeSettings == {Controller("PI", 1, 0, 0), Controller("PI", 2, 1, 0),
                 Controller("Bounded", 1, 1, 0), Controller("Bounded", 2, 2, 0),
                 Controller("AntiWindup", 2, 1, -1), Controller("AntiWindup", 1, 1, 1)}
SomeStarts == {0, 4, -4}
SomeErrors == -2 .. 2

----------------------------------------------------------------------------
(* Properties: those of the modules, with their types.                     *)

(* strIsFloat and strIsInt accept the numbers, strToInt reads the digits   *)
(* that intToString writes, splitting and cleaning lose separators and     *)
(* blanks only, unescaping gives back what was escaped, and writing and    *)
(* reading a time never falls below its second (straux.cpp:29-380); but    *)
(* for a mantissa without digits, for texts with characters that need no   *)
(* escape, and for time stamps below ten hours and above a hundred.        *)
TextsComeBack ==
    part = "strings" =>
        /\ Text!FloatsAreNumbers /\ Text!DigitsComeBack /\ Text!TextIsKept
        /\ Text!EscapedComesBack /\ Text!TimesKeepTheirSecond

(* Comparisons that return are right, but for <= of equal numbers, and     *)
(* results that can be represented are exact (fixed.h:95-242).             *)
NumbersAreExact == part = "fixed" => Fixed!OrderIsRight /\ Fixed!ResultsAreExact

(* A command line that is accepted can be read back from the variables     *)
(* (arg_tool.cpp:36-91).                                                   *)
CommandLineIsRead == Options!TypeOK /\ Options!CommandLineIsRead

(* The integrators come back from their limits: a bounded one, and one     *)
(* with feedback that takes away exactly what was cut off, Ki * kaw = -1   *)
(* (stdctl.h:111-121, 175-189).                                            *)
NoWindUp == Control!NoWindUp
=============================================================================
