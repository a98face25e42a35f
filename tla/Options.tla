------------------------------ MODULE Options ------------------------------
(***************************************************************************)
(* parse_command_line() of options.cpp.  The arguments are words; of a word *)
(* only its role matters: the name of an option, "--help", a numeral, or   *)
(* anything else.  One action is one turn of the while loop, and the last  *)
(* one the validation after it.                                            *)
(***************************************************************************)
EXTENDS Integers, Sequences

CONSTANTS
  Words,     \* the words that arguments are made of, besides the option names
  ValueOf,   \* what std::from_chars<uint16_t> makes of a word: its value,
             \* or NotANumber, or OutOfRange
  MaxArgs    \* bound on the number of arguments

VARIABLES args, i, in_fifo_path, out_fifo_path, host, port_no, help, result

parsed == <<in_fifo_path, out_fifo_path, host, port_no>>
vars == <<args, i, parsed, help, result>>

UInt16 == 0..65535
NotANumber == -1
OutOfRange == -2
None == "none"
NoPort == -3
Names == {"--in-fifo", "--out-fifo", "--port", "--host"}
AllWords == Words \cup Names
Modes == {"fifo", "listen", "client"}

\* An argument is a string: never the value of an empty std::optional.
ASSUME WordsAssumption == "--help" \in Words /\ None \notin AllWords
\* A uint16_t, or one of the two errors of std::from_chars.
ASSUME ValueOfAssumption ==
  ValueOf \in [AllWords -> UInt16 \cup {NotANumber, OutOfRange}]
ASSUME MaxArgsAssumption == MaxArgs \in Nat

Init ==
  /\ \E n \in 0..MaxArgs : args \in [1..n -> AllWords]
  /\ i = 1
  /\ in_fifo_path = None /\ out_fifo_path = None /\ host = None /\ port_no = NoPort
  /\ help = FALSE
  /\ result = "running"

Fail(why) ==
  /\ result' = why
  /\ UNCHANGED <<args, i, parsed, help>>

Parsing == result = "running" /\ i <= Len(args)
At(name) == Parsing /\ args[i] = name

\* The same as below, storing the name of the option in place of its value.
TakesValue_OffByOne(old, new) ==
  IF i + 1 > Len(args) THEN Fail("missing argument")
  ELSE IF old # None THEN Fail("already defined")
  ELSE /\ new = args[i]
       /\ i' = i + 2
       /\ UNCHANGED <<args, help, result>>

\* try_string_option(), with what was parsed before and after in old and new.
\* Both indices are read before the check that out is still empty.
TakesValue(old, new) ==
  IF i + 1 > Len(args) THEN Fail("missing argument")
  ELSE IF old # None THEN Fail("already defined")
  ELSE /\ new = args[i + 1]
       /\ i' = i + 2
       /\ UNCHANGED <<args, help, result>>

InFifo ==
  /\ At("--in-fifo") /\ TakesValue(in_fifo_path, in_fifo_path')
  /\ UNCHANGED <<out_fifo_path, host, port_no>>

OutFifo ==
  /\ At("--out-fifo") /\ TakesValue(out_fifo_path, out_fifo_path')
  /\ UNCHANGED <<in_fifo_path, host, port_no>>

Host ==
  /\ At("--host") /\ TakesValue(host, host')
  /\ UNCHANGED <<in_fifo_path, out_fifo_path, port_no>>

ValidPort(v) == v = 7 \/ v >= 1024

\* try_predicated_int_option().
Port ==
  /\ At("--port")
  /\ IF i + 1 > Len(args) THEN Fail("missing argument")
     ELSE IF port_no # NoPort THEN Fail("already defined")
     ELSE LET v == ValueOf[args[i + 1]]
          IN CASE v = NotANumber -> Fail("not a valid integer")
               [] v = OutOfRange -> Fail("out of range")
               [] v >= 0 /\ ~ValidPort(v) -> Fail("out of range")
               [] OTHER -> /\ port_no' = v
                           /\ i' = i + 2
                           /\ UNCHANGED <<args, in_fifo_path, out_fifo_path,
                                          host, help, result>>

\* strcmp() is not 0 for every other word: it is taken as a request for help.
OtherWord ==
  /\ Parsing /\ args[i] \notin Names
  /\ IF args[i] # "--help"
       THEN /\ help' = TRUE
            /\ i' = i + 1
            /\ UNCHANGED <<args, parsed, result>>
       ELSE Fail("unrecognized argument")

\* The same, without the check of --port against the two paths.
Validate_Lenient ==
  /\ result = "running" /\ i > Len(args)
  /\ result' = CASE help -> "help"
                 [] ~help /\ port_no # NoPort -> IF host # None THEN "client" ELSE "listen"
                 [] OTHER -> "fifo"
  /\ UNCHANGED <<args, i, parsed, help>>

\* The validation pass; result names the mode whose options are set.
Validate ==
  /\ result = "running" /\ i > Len(args)
  /\ result' =
       CASE help -> "help"
         [] ~help /\ port_no # NoPort ->
              IF in_fifo_path # None \/ out_fifo_path # None THEN "incompatible"
              ELSE IF host # None THEN "client" ELSE "listen"
         [] OTHER -> IF in_fifo_path = None \/ out_fifo_path = None
                       THEN "not specified" ELSE "fifo"
  /\ UNCHANGED <<args, i, parsed, help>>

Finished == result # "running" /\ UNCHANGED vars

Next == InFifo \/ OutFifo \/ Host \/ Port \/ OtherWord \/ Validate \/ Finished

Spec == Init /\ [][Next]_vars

-----------------------------------------------------------------------------
(* Properties. *)

\* What was stored is what stands after the option's name, for every order of
\* the options: the indices of the loop never take a value for a name or a
\* name for a value.  The names are those at the odd positions of a command
\* line made of names and values.
Pairs == /\ Len(args) % 2 = 0
         /\ \A k \in DOMAIN args : k % 2 = 1 => args[k] \in Names
Given(name) == {args[k + 1] : k \in {m \in DOMAIN args : m % 2 = 1 /\ args[m] = name}}
Stored(name, value) == Given(name) = (IF value = None THEN {} ELSE {value})
ValuesAreTheirs ==
  Pairs /\ result \in Modes =>
    /\ Stored("--in-fifo", in_fifo_path) /\ Stored("--out-fifo", out_fifo_path)
    /\ Stored("--host", host)
    /\ {ValueOf[w] : w \in Given("--port")} = {port_no} \ {NoPort}

\* A command line of names and values is accepted exactly when no name stands
\* twice and it says either both paths or a port, a good one; a host makes it
\* a client.  go() asserts that one of the three modes is set.  A good port is
\* what the message of options.cpp:102 says: "expecting value 7 or value in
\* range 1024..65535".
Expected(v) == v = 7 \/ (1024 <= v /\ v <= 65535)
GoodPort == \A w \in Given("--port") : Expected(ValueOf[w])
NoneTwice ==
  \A k, m \in DOMAIN args : k % 2 = 1 /\ m % 2 = 1 /\ args[k] = args[m] => k = m
ModesOf ==
  IF ~NoneTwice \/ ~GoodPort THEN {}
  ELSE IF Given("--port") = {}
    THEN IF {} \in {Given("--in-fifo"), Given("--out-fifo")} THEN {} ELSE {"fifo"}
  ELSE IF Given("--in-fifo") \cup Given("--out-fifo") # {} THEN {}
  ELSE IF Given("--host") = {} THEN {"listen"} ELSE {"client"}
AcceptsExactly == Pairs /\ result # "running" => ModesOf = {result} \cap Modes

\* The usage message: "tpf --help".
HelpIsHelp == args = <<"--help">> => result \in {"running", "help"}
=============================================================================
