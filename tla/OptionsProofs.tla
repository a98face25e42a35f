--------------------------- MODULE OptionsProofs ---------------------------
(***************************************************************************)
(* What parse_command_line() promises of a command line made of names and  *)
(* values, proved for any number of arguments and any words.               *)
(***************************************************************************)
EXTENDS Options, TLAPS

\* The types of the variables besides help, which is only ever set or not.
\* result names the ways in which the function
\* returns or exits.
Errors == {"missing argument", "already defined", "not a valid integer",
           "out of range", "unrecognized argument", "incompatible", "not specified"}
Types ==
  /\ args \in Seq(AllWords)
  /\ i \in Nat /\ i > 0
  /\ in_fifo_path \in AllWords \cup {None}
  /\ out_fifo_path \in AllWords \cup {None}
  /\ host \in AllWords \cup {None}
  /\ port_no \in UInt16 \cup {NoPort}
  /\ result \in {"running", "help"} \cup Modes \cup Errors

\* The positions of the names that the loop is past.
Passed == {k \in DOMAIN args : k % 2 = 1 /\ k < i}

\* An option holds the value behind its name, if the loop is past its name.
Holds(name, value) ==
  /\ \A k \in Passed : args[k] = name => args[k + 1] = value
  /\ value # None => \E k \in Passed : args[k] = name

\* The same of the port, which is good.
PortHolds ==
  /\ \A k \in Passed : args[k] = "--port" => ValueOf[args[k + 1]] = port_no
  /\ port_no # NoPort => ValidPort(port_no) /\ \E k \in Passed : args[k] = "--port"

DistinctSoFar == \A k, m \in Passed : args[k] = args[m] => k = m

\* What the validation pass answers when nothing asks for help.
Verdict ==
  IF port_no # NoPort
    THEN IF in_fifo_path # None \/ out_fifo_path # None THEN "incompatible"
         ELSE IF host # None THEN "client" ELSE "listen"
    ELSE IF in_fifo_path = None \/ out_fifo_path = None THEN "not specified" ELSE "fifo"

\* Why the function stopped.
Explained ==
  /\ result \notin {"help", "missing argument", "unrecognized argument"}
  /\ result = "already defined" => ~NoneTwice
  /\ result \in {"not a valid integer", "out of range"} => ~GoodPort
  /\ result \in Modes \cup {"incompatible", "not specified"} =>
       i > Len(args) /\ result = Verdict

\* The loop over a command line of names and values stands at a name.
AtNames ==
  /\ i % 2 = 1 /\ ~help
  /\ Holds("--in-fifo", in_fifo_path)
  /\ Holds("--out-fifo", out_fifo_path)
  /\ Holds("--host", host)
  /\ PortHolds
  /\ DistinctSoFar

OptionsInv == Types /\ (Pairs => AtNames /\ Explained)

-----------------------------------------------------------------------------
(* The arithmetic of the positions. *)

\* From an odd position the loop goes on to the next odd one, and passes
\* only the position it was at.
LEMMA OddSteps ==
  /\ \A k \in Nat : k % 2 = 1 => (k + 2) % 2 = 1
  /\ \A k, m \in Nat : k % 2 = 1 /\ m % 2 = 1 /\ k < m + 2 => k < m \/ k = m
  /\ \A k, n \in Nat : k % 2 = 1 /\ n % 2 = 0 /\ k <= n => k + 1 <= n
  BY SMT

-----------------------------------------------------------------------------
(* Types. *)

LEMMA InitTypes == Init => Types
<1> SUFFICES ASSUME Init PROVE Types
  OBVIOUS
<1>1. args \in Seq(AllWords)
  BY MaxArgsAssumption DEF Init
<1> QED
  BY <1>1 DEF Init, Types


\* An option that takes a value stores an argument.
LEMMA TakenIsAnArgument ==
  ASSUME Types, Parsing, i + 1 <= Len(args)
  PROVE  args[i + 1] \in AllWords /\ i \in DOMAIN args /\ i + 1 \in DOMAIN args
  BY DEF Types, Parsing

LEMMA NextTypes == Types /\ [Next]_vars => Types'
<1> SUFFICES ASSUME Types, [Next]_vars PROVE Types'
  OBVIOUS
<1>a. /\ args \in Seq(AllWords) /\ i \in Nat /\ i > 0 /\ i + 2 \in Nat /\ i + 2 > 0
      /\ i + 1 \in Nat /\ i + 1 > 0 /\ Len(args) \in Nat
      /\ i + 1 <= Len(args) /\ Parsing => args[i + 1] \in AllWords
  BY TakenIsAnArgument DEF Types
<1>b. \A why : Fail(why) /\ why \in Errors => Types'
  <2> SUFFICES ASSUME NEW why \in Errors, Fail(why) PROVE Types'
    OBVIOUS
  <2> QED
    BY <1>a DEF Fail, Types, parsed
<1>1. CASE InFifo
  <2>1. CASE i + 1 > Len(args)
    BY <1>1, <2>1, <1>b, Zenon DEF InFifo, TakesValue, Errors
  <2>2. CASE ~(i + 1 > Len(args)) /\ in_fifo_path # None
    BY <1>1, <2>2, <1>b, Zenon DEF InFifo, TakesValue, Errors
  <2>3. CASE ~(i + 1 > Len(args)) /\ in_fifo_path = None
    <3>1. in_fifo_path' = args[i + 1] /\ i' = i + 2 /\ UNCHANGED <<args, help, result>>
      BY <1>1, <2>3, Zenon DEF InFifo, TakesValue
    <3>2. UNCHANGED <<out_fifo_path, host, port_no>> /\ Parsing /\ i + 1 <= Len(args)
      BY <1>1, <2>3, <1>a DEF InFifo, At
    <3> QED
      BY <3>1, <3>2, <1>a DEF Types
  <2> QED
    BY <2>1, <2>2, <2>3
<1>2. CASE OutFifo
  <2>1. CASE i + 1 > Len(args)
    BY <1>2, <2>1, <1>b, Zenon DEF OutFifo, TakesValue, Errors
  <2>2. CASE ~(i + 1 > Len(args)) /\ out_fifo_path # None
    BY <1>2, <2>2, <1>b, Zenon DEF OutFifo, TakesValue, Errors
  <2>3. CASE ~(i + 1 > Len(args)) /\ out_fifo_path = None
    <3>1. out_fifo_path' = args[i + 1] /\ i' = i + 2 /\ UNCHANGED <<args, help, result>>
      BY <1>2, <2>3, Zenon DEF OutFifo, TakesValue
    <3>2. UNCHANGED <<in_fifo_path, host, port_no>> /\ Parsing /\ i + 1 <= Len(args)
      BY <1>2, <2>3, <1>a DEF OutFifo, At
    <3> QED
      BY <3>1, <3>2, <1>a DEF Types
  <2> QED
    BY <2>1, <2>2, <2>3
<1>3. CASE Host
  <2>1. CASE i + 1 > Len(args)
    BY <1>3, <2>1, <1>b, Zenon DEF Host, TakesValue, Errors
  <2>2. CASE ~(i + 1 > Len(args)) /\ host # None
    BY <1>3, <2>2, <1>b, Zenon DEF Host, TakesValue, Errors
  <2>3. CASE ~(i + 1 > Len(args)) /\ host = None
    <3>1. host' = args[i + 1] /\ i' = i + 2 /\ UNCHANGED <<args, help, result>>
      BY <1>3, <2>3, Zenon DEF Host, TakesValue
    <3>2. UNCHANGED <<in_fifo_path, out_fifo_path, port_no>> /\ Parsing /\ i + 1 <= Len(args)
      BY <1>3, <2>3, <1>a DEF Host, At
    <3> QED
      BY <3>1, <3>2, <1>a DEF Types
  <2> QED
    BY <2>1, <2>2, <2>3
<1>4. CASE Port
  <2> DEFINE v == ValueOf[args[i + 1]]
  <2>1. i + 1 <= Len(args) => v \in UInt16 \cup {NotANumber, OutOfRange}
    BY <1>4, <1>a, ValueOfAssumption DEF Port, At
  <2>2. CASE \E why \in Errors : Fail(why)
    BY <1>b, <2>2
  <2>3. CASE i + 1 <= Len(args) /\ v # NotANumber /\ v # OutOfRange
             /\ port_no' = v /\ i' = i + 2
             /\ UNCHANGED <<args, in_fifo_path, out_fifo_path, host, help, result>>
    BY <2>1, <2>3, <1>a DEF Types
  <2>4. \/ \E why \in Errors : Fail(why)
        \/ /\ i + 1 <= Len(args) /\ v # NotANumber /\ v # OutOfRange
           /\ port_no' = v /\ i' = i + 2
           /\ UNCHANGED <<args, in_fifo_path, out_fifo_path, host, help, result>>
    <3> HIDE DEF v
    <3>1. CASE i + 1 > Len(args)
      BY <1>4, <3>1, Zenon DEF Port, Errors
    <3>2. CASE ~(i + 1 > Len(args)) /\ port_no # NoPort
      BY <1>4, <3>2, Zenon DEF Port, Errors
    <3>3. CASE ~(i + 1 > Len(args)) /\ port_no = NoPort
      <4>1. i + 1 <= Len(args)
        BY <3>3, <1>a
      <4> QED
        BY <1>4, <3>3, <4>1, Zenon DEF Port, Errors, v
    <3> QED
      BY <3>1, <3>2, <3>3
  <2> QED
    BY <2>2, <2>3, <2>4
<1>5. CASE OtherWord
  <2>1. CASE args[i] # "--help"
    BY <1>5, <2>1, <1>a DEF OtherWord, Types, parsed
  <2> QED
    BY <1>5, <2>1, <1>b DEF OtherWord, Errors
<1>6. CASE Validate
  <2>1. result' \in {"help", "incompatible", "client", "listen", "not specified", "fifo"}
    BY <1>6 DEF Validate
  <2>2. UNCHANGED <<args, i, parsed, help>>
    BY <1>6 DEF Validate
  <2> QED
    BY <2>1, <2>2, <1>a DEF Types, parsed, Errors, Modes
<1>7. CASE UNCHANGED vars
  BY <1>7, <1>a DEF vars, parsed, Types
<1> QED
  BY <1>1, <1>2, <1>3, <1>4, <1>5, <1>6, <1>7 DEF Next, Finished

-----------------------------------------------------------------------------
(* A turn of the loop that takes a name and its value. *)

Advance == /\ Types /\ Pairs /\ AtNames /\ Parsing
           /\ i + 1 <= Len(args) /\ i' = i + 2 /\ args' = args

\* It passes one more position, a name.
LEMMA PassesOne ==
  ASSUME Advance
  PROVE  /\ i \in DOMAIN args /\ i \notin Passed
         /\ Passed' = Passed \cup {i}
         /\ i' % 2 = 1
<1>1. args \in Seq(AllWords) /\ i \in Nat /\ i > 0 /\ i % 2 = 1 /\ Len(args) \in Nat
      /\ DOMAIN args = 1..Len(args)
  BY DEF Advance, Types, AtNames
<1>2. i \in DOMAIN args /\ i \notin Passed
  BY <1>1 DEF Advance, Passed
<1>3. ASSUME NEW k PROVE k \in Passed' <=> k \in Passed \cup {i}
  <2>1. k \in Passed' <=> k \in 1..Len(args) /\ k % 2 = 1 /\ k < i + 2
    BY <1>1 DEF Passed, Advance
  <2>2. k \in Passed <=> k \in 1..Len(args) /\ k % 2 = 1 /\ k < i
    BY <1>1 DEF Passed
  <2> QED
    BY <1>1, <1>2, <2>1, <2>2, OddSteps
<1>4. Passed' = Passed \cup {i}
  BY <1>3, Zenon
<1> QED
  BY <1>1, <1>2, <1>4, OddSteps DEF Advance

\* An option taken for the first time leaves the names passed distinct: none of
\* them is its name.
LEMMA DistinctKept ==
  ASSUME Advance, \A k \in Passed : args[k] # args[i]
  PROVE  DistinctSoFar'
  BY PassesOne DEF Advance, AtNames, DistinctSoFar

\* At a name of a command line of names and values there is a value, too.
LEMMA ValueFollows ==
  ASSUME Types, Pairs, AtNames, Parsing
  PROVE  i + 1 <= Len(args)
  BY OddSteps DEF Types, Pairs, AtNames, Parsing

\* A name that the loop meets again stands twice.
LEMMA MetTwice ==
  ASSUME Types, Pairs, AtNames, Parsing, NEW k \in Passed, args[k] = args[i]
  PROVE  ~NoneTwice
<1>1. i \in DOMAIN args /\ i % 2 = 1 /\ k \in DOMAIN args /\ k % 2 = 1 /\ k # i
  BY DEF Types, AtNames, Parsing, Passed
<1> QED
  BY <1>1 DEF NoneTwice

\* What the parser lets pass is what the error message says it expects.
LEMMA ExpectedPorts ==
  ASSUME NEW v \in UInt16 \cup {NotANumber, OutOfRange}
  PROVE  Expected(v) <=> v >= 0 /\ ValidPort(v)
<1>1. v \in Int /\ v <= 65535
  BY SMT DEF UInt16, NotANumber, OutOfRange
<1> QED
  BY <1>1, SMT DEF ValidPort, Expected

\* A value that is no good port refutes GoodPort.
LEMMA MetBadPort ==
  ASSUME Types, Pairs, AtNames, At("--port"),
         ~(ValueOf[args[i + 1]] >= 0 /\ ValidPort(ValueOf[args[i + 1]]))
  PROVE  ~GoodPort
<1>1. i \in DOMAIN args /\ i % 2 = 1 /\ args[i] = "--port"
  BY DEF Types, AtNames, At, Parsing
<1>2. args[i + 1] \in Given("--port")
  BY <1>1 DEF Given
<1>3. ValueOf[args[i + 1]] \in UInt16 \cup {NotANumber, OutOfRange}
  <2>1. i + 1 <= Len(args)
    BY OddSteps DEF Types, Pairs, AtNames, At, Parsing
  <2> QED
    BY <2>1, TakenIsAnArgument, ValueOfAssumption DEF At
<1>4. ~Expected(ValueOf[args[i + 1]])
  BY <1>3, ExpectedPorts
<1> QED
  BY <1>2, <1>4 DEF GoodPort

-----------------------------------------------------------------------------
(* What each turn does on a command line of names and values: it fails for a *)
(* reason that is there, or takes the option it has not met before.          *)

LEMMA InFifoTakes ==
  ASSUME Types, Pairs, AtNames, InFifo
  PROVE  \/ in_fifo_path # None /\ Fail("already defined") /\ At("--in-fifo")
         \/ /\ in_fifo_path = None /\ Advance /\ args[i] = "--in-fifo"
            /\ in_fifo_path' = args[i + 1]
            /\ UNCHANGED <<out_fifo_path, host, port_no, help, result>>
<1>1. i + 1 <= Len(args) /\ At("--in-fifo")
  BY ValueFollows DEF InFifo, At
<1>2. ~(i + 1 > Len(args))
  BY <1>1 DEF Types
<1>3. CASE in_fifo_path # None
  BY <1>1, <1>2, <1>3, Zenon DEF InFifo, TakesValue
<1>4. CASE in_fifo_path = None
  <2>1. in_fifo_path' = args[i + 1] /\ i' = i + 2 /\ UNCHANGED <<args, help, result>>
    BY <1>2, <1>4, Zenon DEF InFifo, TakesValue
  <2>2. UNCHANGED <<out_fifo_path, host, port_no>>
    BY DEF InFifo
  <2> QED
    BY <1>1, <1>4, <2>1, <2>2 DEF Advance, At
<1> QED
  BY <1>3, <1>4

LEMMA OutFifoTakes ==
  ASSUME Types, Pairs, AtNames, OutFifo
  PROVE  \/ out_fifo_path # None /\ Fail("already defined") /\ At("--out-fifo")
         \/ /\ out_fifo_path = None /\ Advance /\ args[i] = "--out-fifo"
            /\ out_fifo_path' = args[i + 1]
            /\ UNCHANGED <<in_fifo_path, host, port_no, help, result>>
<1>1. i + 1 <= Len(args) /\ At("--out-fifo")
  BY ValueFollows DEF OutFifo, At
<1>2. ~(i + 1 > Len(args))
  BY <1>1 DEF Types
<1>3. CASE out_fifo_path # None
  BY <1>1, <1>2, <1>3, Zenon DEF OutFifo, TakesValue
<1>4. CASE out_fifo_path = None
  <2>1. out_fifo_path' = args[i + 1] /\ i' = i + 2 /\ UNCHANGED <<args, help, result>>
    BY <1>2, <1>4, Zenon DEF OutFifo, TakesValue
  <2>2. UNCHANGED <<in_fifo_path, host, port_no>>
    BY DEF OutFifo
  <2> QED
    BY <1>1, <1>4, <2>1, <2>2 DEF Advance, At
<1> QED
  BY <1>3, <1>4

LEMMA HostTakes ==
  ASSUME Types, Pairs, AtNames, Host
  PROVE  \/ host # None /\ Fail("already defined") /\ At("--host")
         \/ /\ host = None /\ Advance /\ args[i] = "--host"
            /\ host' = args[i + 1]
            /\ UNCHANGED <<in_fifo_path, out_fifo_path, port_no, help, result>>
<1>1. i + 1 <= Len(args) /\ At("--host")
  BY ValueFollows DEF Host, At
<1>2. ~(i + 1 > Len(args))
  BY <1>1 DEF Types
<1>3. CASE host # None
  BY <1>1, <1>2, <1>3, Zenon DEF Host, TakesValue
<1>4. CASE host = None
  <2>1. host' = args[i + 1] /\ i' = i + 2 /\ UNCHANGED <<args, help, result>>
    BY <1>2, <1>4, Zenon DEF Host, TakesValue
  <2>2. UNCHANGED <<in_fifo_path, out_fifo_path, port_no>>
    BY DEF Host
  <2> QED
    BY <1>1, <1>4, <2>1, <2>2 DEF Advance, At
<1> QED
  BY <1>3, <1>4

LEMMA PortTakes ==
  ASSUME Types, Pairs, AtNames, Port
  PROVE  \/ port_no # NoPort /\ Fail("already defined") /\ At("--port")
         \/ /\ \E why \in {"not a valid integer", "out of range"} : Fail(why)
            /\ ~GoodPort
         \/ /\ port_no = NoPort /\ Advance /\ args[i] = "--port"
            /\ port_no' = ValueOf[args[i + 1]]
            /\ ValidPort(port_no') /\ port_no' \in UInt16
            /\ UNCHANGED <<in_fifo_path, out_fifo_path, host, help, result>>
<1> DEFINE v == ValueOf[args[i + 1]]
<1>1. i + 1 <= Len(args) /\ At("--port")
  BY ValueFollows DEF Port, At
<1>2. ~(i + 1 > Len(args))
  BY <1>1 DEF Types
<1>3. v \in UInt16 \cup {NotANumber, OutOfRange}
  BY <1>1, TakenIsAnArgument, ValueOfAssumption DEF At
<1>4. CASE port_no # NoPort
  BY <1>1, <1>2, <1>4, Zenon DEF Port
<1>5. CASE port_no = NoPort /\ ~(v >= 0 /\ ValidPort(v))
  <2>1. ~GoodPort
    BY <1>1, <1>5, MetBadPort
  <2> HIDE DEF v
  <2>2. v = NotANumber \/ v = OutOfRange \/ (v >= 0 /\ ~ValidPort(v))
    BY <1>3, <1>5 DEF UInt16
  <2>3. Fail("not a valid integer") \/ Fail("out of range")
    BY <1>2, <1>5, <2>2, Zenon DEF Port, v
  <2> QED
    BY <2>1, <2>3
<1>6. CASE port_no = NoPort /\ v >= 0 /\ ValidPort(v)
  <2> HIDE DEF v
  <2>1. v # NotANumber /\ v # OutOfRange /\ v \in UInt16
    BY <1>3, <1>6 DEF NotANumber, OutOfRange
  <2>2. /\ port_no' = v /\ i' = i + 2
        /\ UNCHANGED <<args, in_fifo_path, out_fifo_path, host, help, result>>
    BY <1>2, <1>6, <2>1, Zenon DEF Port, v
  <2> QED
    BY <1>1, <1>6, <2>1, <2>2 DEF Advance, At, v
<1> QED
  BY <1>4, <1>5, <1>6

-----------------------------------------------------------------------------
(* The invariant. *)

\* What is said of the command line alone is said of it for good.
LEMMA ArgsStay ==
  ASSUME args' = args
  PROVE  /\ Pairs' <=> Pairs
         /\ NoneTwice' <=> NoneTwice
         /\ GoodPort' <=> GoodPort
  BY DEF Pairs, NoneTwice, GoodPort, Given

\* A turn that fails leaves the loop where it was.
LEMMA FailKeeps ==
  ASSUME AtNames, NEW why, Fail(why)
  PROVE  AtNames'
  BY DEF AtNames, Fail, parsed, Holds, PortHolds, DistinctSoFar, Passed

LEMMA InitInv == Init => OptionsInv
<1> SUFFICES ASSUME Init PROVE OptionsInv
  OBVIOUS
<1>1. Types
  BY InitTypes
<1>2. Passed = {}
  BY <1>1 DEF Init, Passed, Types
<1> QED
  BY <1>1, <1>2
  DEF Init, OptionsInv, AtNames, Holds, PortHolds, DistinctSoFar, Explained, Modes

\* No argument is the value of an option that was not given.
LEMMA WordsAreValues == \A w \in AllWords : w # None /\ ValueOf[w] # NoPort
<1> SUFFICES ASSUME NEW w \in AllWords PROVE w # None /\ ValueOf[w] # NoPort
  OBVIOUS
<1>1. ValueOf[w] \in UInt16 \/ ValueOf[w] = NotANumber \/ ValueOf[w] = OutOfRange
  BY ValueOfAssumption
<1>2. \A v \in UInt16 : v # NoPort
  BY SMT DEF UInt16, NoPort
<1>3. NotANumber # NoPort /\ OutOfRange # NoPort
  BY SMT DEF NotANumber, OutOfRange, NoPort
<1> QED
  BY <1>1, <1>2, <1>3, WordsAssumption

\* An option that holds nothing is not among the names passed: behind a name
\* stands an argument.
LEMMA UnmetIsAbsent ==
  ASSUME Advance
  PROVE  /\ in_fifo_path = None => \A k \in Passed : args[k] # "--in-fifo"
         /\ out_fifo_path = None => \A k \in Passed : args[k] # "--out-fifo"
         /\ host = None => \A k \in Passed : args[k] # "--host"
         /\ port_no = NoPort => \A k \in Passed : args[k] # "--port"
<1>1. ASSUME NEW k \in Passed PROVE args[k + 1] \in AllWords
  BY DEF Passed, Advance, Parsing, Types
<1>2. \A w \in AllWords : w # None /\ ValueOf[w] # NoPort
  BY WordsAreValues
<1>3. /\ Holds("--in-fifo", in_fifo_path) /\ Holds("--out-fifo", out_fifo_path)
      /\ Holds("--host", host) /\ PortHolds
  BY DEF Advance, AtNames
<1> QED
  BY <1>1, <1>2, <1>3 DEF Holds, PortHolds

\* The option taken holds its value, the others what they held.
LEMMA HoldsKept ==
  ASSUME Advance, NEW name
  PROVE  /\ Holds(name, in_fifo_path) /\ in_fifo_path' = in_fifo_path /\ args[i] # name
              => Holds(name, in_fifo_path)'
         /\ Holds(name, out_fifo_path) /\ out_fifo_path' = out_fifo_path /\ args[i] # name
              => Holds(name, out_fifo_path)'
         /\ Holds(name, host) /\ host' = host /\ args[i] # name => Holds(name, host)'
         /\ port_no' = port_no /\ args[i] # "--port" => PortHolds'
<1>1. Passed' = Passed \cup {i} /\ args' = args /\ PortHolds
  BY PassesOne DEF Advance, AtNames
<1> QED
  BY <1>1 DEF Holds, PortHolds

\* The rest of the invariant.
LEMMA TakenKeeps ==
  ASSUME Advance, UNCHANGED <<help, result>>, \A k \in Passed : args[k] # args[i]
  PROVE  i' % 2 = 1 /\ ~help' /\ DistinctSoFar' /\ Explained'
<1>1. i' % 2 = 1 /\ ~help'
  BY PassesOne DEF Advance, AtNames
<1>2. result' = "running"
  BY DEF Advance, Parsing
<1> QED
  BY <1>1, <1>2, DistinctKept DEF Explained, Modes

LEMMA InFifoInv == Types /\ Pairs /\ AtNames /\ InFifo => AtNames' /\ Explained'
<1> SUFFICES ASSUME Types, Pairs, AtNames, InFifo PROVE AtNames' /\ Explained'
  OBVIOUS
<1>1. CASE in_fifo_path # None /\ Fail("already defined") /\ At("--in-fifo")
  <2>1. ~NoneTwice
    BY <1>1, MetTwice DEF AtNames, Holds, At
  <2> QED
    BY <1>1, <2>1, FailKeeps, ArgsStay DEF Fail, Explained, Modes
<1>2. CASE /\ in_fifo_path = None /\ Advance /\ args[i] = "--in-fifo"
           /\ in_fifo_path' = args[i + 1]
           /\ UNCHANGED <<out_fifo_path, host, port_no, help, result>>
  <2>1. \A k \in Passed : args[k] # args[i]
    BY <1>2, UnmetIsAbsent
  <2>2. Holds("--in-fifo", in_fifo_path)'
    BY <1>2, <2>1, PassesOne DEF Holds, Advance
  <2>3. Holds("--out-fifo", out_fifo_path)' /\ Holds("--host", host)' /\ PortHolds'
    BY <1>2, HoldsKept DEF AtNames
  <2> QED
    BY <1>2, <2>1, <2>2, <2>3, TakenKeeps DEF AtNames
<1> QED
  BY <1>1, <1>2, InFifoTakes

LEMMA OutFifoInv == Types /\ Pairs /\ AtNames /\ OutFifo => AtNames' /\ Explained'
<1> SUFFICES ASSUME Types, Pairs, AtNames, OutFifo PROVE AtNames' /\ Explained'
  OBVIOUS
<1>1. CASE out_fifo_path # None /\ Fail("already defined") /\ At("--out-fifo")
  <2>1. ~NoneTwice
    BY <1>1, MetTwice DEF AtNames, Holds, At
  <2> QED
    BY <1>1, <2>1, FailKeeps, ArgsStay DEF Fail, Explained, Modes
<1>2. CASE /\ out_fifo_path = None /\ Advance /\ args[i] = "--out-fifo"
           /\ out_fifo_path' = args[i + 1]
           /\ UNCHANGED <<in_fifo_path, host, port_no, help, result>>
  <2>1. \A k \in Passed : args[k] # args[i]
    BY <1>2, UnmetIsAbsent
  <2>2. Holds("--out-fifo", out_fifo_path)'
    BY <1>2, <2>1, PassesOne DEF Holds, Advance
  <2>3. Holds("--in-fifo", in_fifo_path)' /\ Holds("--host", host)' /\ PortHolds'
    BY <1>2, HoldsKept DEF AtNames
  <2> QED
    BY <1>2, <2>1, <2>2, <2>3, TakenKeeps DEF AtNames
<1> QED
  BY <1>1, <1>2, OutFifoTakes

LEMMA HostInv == Types /\ Pairs /\ AtNames /\ Host => AtNames' /\ Explained'
<1> SUFFICES ASSUME Types, Pairs, AtNames, Host PROVE AtNames' /\ Explained'
  OBVIOUS
<1>1. CASE host # None /\ Fail("already defined") /\ At("--host")
  <2>1. ~NoneTwice
    BY <1>1, MetTwice DEF AtNames, Holds, At
  <2> QED
    BY <1>1, <2>1, FailKeeps, ArgsStay DEF Fail, Explained, Modes
<1>2. CASE /\ host = None /\ Advance /\ args[i] = "--host"
           /\ host' = args[i + 1]
           /\ UNCHANGED <<in_fifo_path, out_fifo_path, port_no, help, result>>
  <2>1. \A k \in Passed : args[k] # args[i]
    BY <1>2, UnmetIsAbsent
  <2>2. Holds("--host", host)'
    BY <1>2, <2>1, PassesOne DEF Holds, Advance
  <2>3. Holds("--in-fifo", in_fifo_path)' /\ Holds("--out-fifo", out_fifo_path)' /\ PortHolds'
    BY <1>2, HoldsKept DEF AtNames
  <2> QED
    BY <1>2, <2>1, <2>2, <2>3, TakenKeeps DEF AtNames
<1> QED
  BY <1>1, <1>2, HostTakes

LEMMA PortInv == Types /\ Pairs /\ AtNames /\ Port => AtNames' /\ Explained'
<1> SUFFICES ASSUME Types, Pairs, AtNames, Port PROVE AtNames' /\ Explained'
  OBVIOUS
<1>1. CASE port_no # NoPort /\ Fail("already defined") /\ At("--port")
  <2>1. ~NoneTwice
    BY <1>1, MetTwice DEF AtNames, PortHolds, At
  <2> QED
    BY <1>1, <2>1, FailKeeps, ArgsStay DEF Fail, Explained, Modes
<1>2. CASE /\ \E why \in {"not a valid integer", "out of range"} : Fail(why)
           /\ ~GoodPort
  BY <1>2, FailKeeps, ArgsStay DEF Fail, Explained, Modes
<1>3. CASE /\ port_no = NoPort /\ Advance /\ args[i] = "--port"
           /\ port_no' = ValueOf[args[i + 1]]
           /\ ValidPort(port_no') /\ port_no' \in UInt16
           /\ UNCHANGED <<in_fifo_path, out_fifo_path, host, help, result>>
  <2>1. \A k \in Passed : args[k] # args[i]
    BY <1>3, UnmetIsAbsent
  <2>2. PortHolds'
    BY <1>3, <2>1, PassesOne DEF PortHolds, Advance
  <2>3. /\ Holds("--in-fifo", in_fifo_path)' /\ Holds("--out-fifo", out_fifo_path)'
        /\ Holds("--host", host)'
    BY <1>3, HoldsKept DEF AtNames
  <2> QED
    BY <1>3, <2>1, <2>2, <2>3, TakenKeeps DEF AtNames
<1> QED
  BY <1>1, <1>2, <1>3, PortTakes

\* At a name there is no other word, and nothing asks for help.
LEMMA NextInv == OptionsInv /\ [Next]_vars => OptionsInv'
<1> SUFFICES ASSUME OptionsInv, [Next]_vars PROVE OptionsInv'
  OBVIOUS
<1>1. Types /\ Types'
  BY NextTypes DEF OptionsInv
<1>2. args' = args
  BY DEF Next, vars, InFifo, OutFifo, Host, Port, OtherWord, Validate, Finished,
         TakesValue, Fail
<1>3. SUFFICES ASSUME Pairs, AtNames, Explained PROVE AtNames' /\ Explained'
  BY <1>1, <1>2, ArgsStay DEF OptionsInv
<1>4. CASE InFifo \/ OutFifo \/ Host \/ Port
  BY <1>1, <1>3, <1>4, InFifoInv, OutFifoInv, HostInv, PortInv
<1>5. CASE OtherWord
  <2>1. Parsing /\ args[i] \notin Names
    BY <1>5, Zenon DEF OtherWord
  <2>2. i \in DOMAIN args
    BY <1>1, <2>1 DEF Parsing, Types
  <2>3. i % 2 = 1
    BY <1>3 DEF AtNames
  <2> QED
    BY <1>3, <2>1, <2>2, <2>3 DEF Pairs
<1>6. CASE Validate
  <2>1. UNCHANGED <<args, i, parsed, help>> /\ ~help /\ i > Len(args)
    BY <1>3, <1>6 DEF Validate, AtNames
  <2>2. AtNames'
    BY <1>3, <2>1 DEF AtNames, parsed, Holds, PortHolds, DistinctSoFar, Passed
  <2>3. result' = Verdict
    BY <1>6, <2>1, Zenon DEF Validate, Verdict
  <2>4. Verdict' = Verdict
    BY <2>1 DEF Verdict, parsed
  <2>5. Verdict \in Modes \cup {"incompatible", "not specified"}
    BY DEF Verdict, Modes
  <2> QED
    BY <2>1, <2>2, <2>3, <2>4, <2>5 DEF Explained, Modes
<1>7. CASE UNCHANGED vars
  <2>1. AtNames'
    BY <1>3, <1>7 DEF vars, AtNames, parsed, Holds, PortHolds, DistinctSoFar, Passed
  <2>2. Verdict' = Verdict /\ result' = result /\ i' = i
    BY <1>7 DEF vars, Verdict, parsed
  <2> QED
    BY <1>2, <1>3, <2>1, <2>2, ArgsStay DEF Explained
<1> QED
  BY <1>4, <1>5, <1>6, <1>7 DEF Next, Finished

-----------------------------------------------------------------------------
(* The properties. *)

\* Past the last word, every name was passed: what an option holds is what it
\* was given, and nothing if it was not.
LEMMA AllPassed ==
  ASSUME Types, Pairs, AtNames, i > Len(args)
  PROVE  /\ Stored("--in-fifo", in_fifo_path) /\ Stored("--out-fifo", out_fifo_path)
         /\ Stored("--host", host)
         /\ {ValueOf[w] : w \in Given("--port")} = {port_no} \ {NoPort}
         /\ Given("--port") = {} <=> port_no = NoPort
         /\ NoneTwice /\ GoodPort
<1>1. Passed = {k \in DOMAIN args : k % 2 = 1}
  BY DEF Types, Passed
<1>2. ASSUME NEW k \in Passed PROVE args[k + 1] \in AllWords
  <2>1. k + 1 <= Len(args)
    BY <1>1, OddSteps DEF Types, Pairs
  <2> QED
    BY <1>1, <2>1 DEF Types
<1>3. \A w \in AllWords : w # None /\ ValueOf[w] # NoPort
  BY WordsAreValues
<1>4. /\ Holds("--in-fifo", in_fifo_path) /\ Holds("--out-fifo", out_fifo_path)
      /\ Holds("--host", host) /\ PortHolds
  BY DEF AtNames
<1>5. \A name : Given(name) = {args[k + 1] : k \in {m \in Passed : args[m] = name}}
  BY <1>1, Zenon DEF Given
<1>6. /\ Stored("--in-fifo", in_fifo_path) /\ Stored("--out-fifo", out_fifo_path)
      /\ Stored("--host", host)
  BY <1>2, <1>3, <1>4, <1>5 DEF Holds, Stored
<1>7. /\ {ValueOf[w] : w \in Given("--port")} = {port_no} \ {NoPort}
      /\ Given("--port") = {} <=> port_no = NoPort
  BY <1>2, <1>3, <1>4, <1>5 DEF PortHolds
<1>8. NoneTwice
  BY <1>1 DEF AtNames, DistinctSoFar, NoneTwice
<1>9. GoodPort
  <2>1. \A w \in Given("--port") : ValueOf[w] = port_no /\ port_no # NoPort
    BY <1>2, <1>3, <1>4, <1>5 DEF PortHolds
  <2>2. port_no # NoPort => port_no \in UInt16 /\ ValidPort(port_no)
    BY <1>4 DEF Types, PortHolds
  <2>3. \A v \in UInt16 : v >= 0
    BY SMT DEF UInt16
  <2>4. port_no # NoPort => Expected(port_no)
    BY <2>2, <2>3, ExpectedPorts
  <2> QED
    BY <2>1, <2>4 DEF GoodPort
<1> QED
  BY <1>6, <1>7, <1>8, <1>9

LEMMA InvImpliesValues == OptionsInv => ValuesAreTheirs
<1> SUFFICES ASSUME OptionsInv, Pairs, result \in Modes
             PROVE  /\ Stored("--in-fifo", in_fifo_path) /\ Stored("--out-fifo", out_fifo_path)
                    /\ Stored("--host", host)
                    /\ {ValueOf[w] : w \in Given("--port")} = {port_no} \ {NoPort}
  BY DEF ValuesAreTheirs
<1> QED
  BY AllPassed DEF OptionsInv, Explained

LEMMA InvImpliesAccepts == OptionsInv => AcceptsExactly
<1> SUFFICES ASSUME OptionsInv, Pairs, result # "running" PROVE ModesOf = {result} \cap Modes
  BY DEF AcceptsExactly
<1>1. Types /\ AtNames /\ Explained
  BY DEF OptionsInv
<1>2. CASE ~NoneTwice \/ ~GoodPort
  <2>1. result \notin Modes
    BY <1>1, <1>2, AllPassed DEF Explained
  <2> QED
    BY <1>2, <2>1 DEF ModesOf
<1>3. CASE NoneTwice /\ GoodPort
  <2>1. i > Len(args) /\ result = Verdict
    BY <1>1, <1>3 DEF Explained, Types, Errors
  <2>2. /\ Given("--in-fifo") = {} <=> in_fifo_path = None
        /\ Given("--out-fifo") = {} <=> out_fifo_path = None
        /\ Given("--host") = {} <=> host = None
        /\ Given("--port") = {} <=> port_no = NoPort
    BY <1>1, <2>1, AllPassed DEF Stored
  <2> QED
    BY <1>3, <2>1, <2>2 DEF ModesOf, Verdict, Modes
<1> QED
  BY <1>2, <1>3

LEMMA Invariant == Spec => []OptionsInv
  BY InitInv, NextInv, PTL DEF Spec

\* src/options.cpp:119: whatever the order of the options, what the program
\* goes on with are the words behind their names, for any number of arguments.
THEOREM StoredValuesAreTheirs == Spec => []ValuesAreTheirs
  BY Invariant, InvImpliesValues, PTL

\* src/options.cpp:137: a command line of names and values is taken for a mode
\* exactly when it is one: no option twice, a good port or both paths.
THEOREM AcceptedExactly == Spec => []AcceptsExactly
  BY Invariant, InvImpliesAccepts, PTL
=============================================================================
