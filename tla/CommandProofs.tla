--------------------------- MODULE CommandProofs ----------------------------
(***************************************************************************)
(* Proofs about Command for any command line and any width of int: what    *)
(* parse_params has stored after some arguments is what the last argument  *)
(* of each name among them says.                                           *)
(***************************************************************************)
EXTENDS Command, TLAPS

\* The tables name no parameter twice, and know three formats.
LEMMA Tables ==
    ASSUME program \in {"server", "client"}
    PROVE  /\ \A i, j \in DOMAIN params : params[i].name = params[j].name => i = j
           /\ \A i \in DOMAIN params : params[i].fmt \in {"s", "u", "d"}
           /\ DOMAIN params = 1 .. Len(params)
  <1>1. CASE program = "server"
    <2>1. params = server_params /\ DOMAIN server_params = 1 .. 14 /\ Len(server_params) = 14
      BY <1>1 DEF params, server_params
    <2>2. \A i, j \in 1 .. 14 : server_params[i].name = server_params[j].name => i = j
      BY DEF server_params, Param
    <2>3. \A i \in 1 .. 14 : server_params[i].fmt \in {"s", "u", "d"}
      BY DEF server_params, Param
    <2> QED
      BY <2>1, <2>2, <2>3
  <1>2. CASE program = "client"
    <2>1. params = client_params /\ DOMAIN client_params = 1 .. 5 /\ Len(client_params) = 5
      BY <1>2 DEF params, client_params
    <2>2. \A i, j \in 1 .. 5 : client_params[i].name = client_params[j].name => i = j
      BY DEF client_params, Param
    <2>3. \A i \in 1 .. 5 : client_params[i].fmt \in {"s", "u", "d"}
      BY DEF client_params, Param
    <2> QED
      BY <2>1, <2>2, <2>3
  <1> QED
    BY <1>1, <1>2

\* Adding multiples of the modulus brings every number into the range of its type.
LEMMA Wraps ==
    ASSUME NEW x \in Int
    PROVE  /\ x % Modulus \in 0 .. Modulus - 1
           /\ ((x % Modulus) - x) % Modulus = 0
  <1>1. Modulus \in Nat /\ Modulus > 0
    BY CommandAssumption DEF Modulus
  <1>2. \A k \in Int : (Modulus * k) % Modulus = 0
    BY <1>1
  <1>3. x = Modulus * (x \div Modulus) + (x % Modulus) /\ x \div Modulus \in Int
    BY <1>1
  <1>4. x % Modulus \in 0 .. Modulus - 1
    BY <1>1
  <1>5. PICK k \in Int : (x % Modulus) - x = Modulus * k
    BY <1>1, <1>3, <1>4
  <1> QED
    BY <1>2, <1>4, <1>5

----------------------------------------------------------------------------
\* What the arguments before next have left in the parameter n.
StoredAsGiven(n) ==
    \/ /\ \A i \in 1 .. next - 1 : argv[i].name # n
       /\ cfg[n] = ParamOf(n).default
    \/ \E i \in 1 .. next - 1 :
          /\ \A j \in i + 1 .. next - 1 : argv[j].name # n
          /\ Converts(argv[i], ParamOf(n))
          /\ cfg[n] = Scanned(argv[i], ParamOf(n))

ParserInv ==
    /\ program \in {"server", "client"} /\ argv \in Seq(Argument)
    /\ next \in 1 .. Len(argv) + 1 /\ parsed \in {"parsing", "invalid", "done"}
    /\ cfg = [n \in Names |-> cfg[n]]
    /\ parsed = "done" => next = Len(argv) + 1
    /\ parsed = "invalid" => next <= Len(argv)
                            /\ \A i \in DOMAIN params : ~Converts(argv[next], params[i])
    /\ \A i \in 1 .. next - 1 : argv[i].name \in Names
    /\ \A n \in Names : StoredAsGiven(n)

\* A parameter is found by its name.
LEMMA ParamOfName ==
    ASSUME program \in {"server", "client"}
    PROVE  /\ \A i \in DOMAIN params :
                params[i].name \in Names /\ ParamOf(params[i].name) = params[i]
           /\ \A n \in Names : \E i \in DOMAIN params : params[i].name = n /\ ParamOf(n) = params[i]
  BY Tables DEF Names, ParamOf

\* Before the first argument every parameter has its default.
LEMMA ParserInit == Init => ParserInv
  <1> SUFFICES ASSUME Init PROVE ParserInv
    OBVIOUS
  <1>1. argv \in Seq(Argument)
    BY CommandAssumption DEF Init
  <1>2. \A n \in Names : cfg[n] = ParamOf(n).default
    BY DEF Init
  <1>3. cfg = [n \in Names |-> cfg[n]]
    BY DEF Init
  <1>4. 1 .. next - 1 = {}
    BY DEF Init
  <1> QED
    BY <1>1, <1>2, <1>3, <1>4 DEF Init, ParserInv, StoredAsGiven

\* An argument that some parameter takes.
LEMMA ParserTakes ==
    ASSUME ParserInv, ParseArg, parsed' = parsed
    PROVE  ParserInv'
  <1> DEFINE takers == {i \in DOMAIN params : Converts(argv[next], params[i])}
             taker == params[CHOOSE i \in takers : \A j \in takers : i <= j]
             arg == argv[next]
  <1>1. /\ parsed = "parsing" /\ next <= Len(argv) /\ takers # {}
        /\ cfg' = [cfg EXCEPT ![taker.name] = Scanned(arg, taker)]
        /\ next' = next + 1
        /\ UNCHANGED <<program, argv, parsed>>
    BY DEF ParseArg, ParserInv
  <1>2. \A i, j \in takers : i = j
    BY Tables DEF ParserInv, Converts
  <1>3. PICK k \in DOMAIN params : taker = params[k] /\ Converts(arg, params[k])
    BY <1>1, <1>2, Tables DEF ParserInv
  <1>4. /\ taker.name \in Names /\ ParamOf(taker.name) = taker
        /\ Converts(arg, taker) /\ arg.name = taker.name
    BY <1>3, ParamOfName DEF ParserInv, Converts
  <1> HIDE DEF taker, takers
  <1>5. /\ params' = params /\ Names' = Names
        /\ \A n : ParamOf(n)' = ParamOf(n)
    BY <1>1 DEF params, Names, ParamOf
  <1>6. next \in Nat /\ next' - 1 = next /\ 1 .. next' - 1 = (1 .. next - 1) \cup {next}
    BY <1>1 DEF ParserInv
  <1>7. ASSUME NEW n \in Names PROVE StoredAsGiven(n)'
    <2>1. CASE n = taker.name
      <3>1. cfg'[n] = Scanned(argv[next], ParamOf(n))
        BY <1>1, <1>4, <2>1 DEF ParserInv
      <3>2. /\ next \in 1 .. next' - 1 /\ argv'[next].name = n
            /\ \A j \in next + 1 .. next' - 1 : argv'[j].name # n
        BY <1>1, <1>4, <1>6, <2>1
      <3>3. Converts(argv'[next], ParamOf(n)') /\ cfg'[n] = Scanned(argv'[next], ParamOf(n)')
        BY <1>1, <1>4, <1>5, <2>1, <3>1
      <3> QED
        BY <3>2, <3>3 DEF StoredAsGiven, Converts, Scanned, Modulus
    <2>2. CASE n # taker.name
      <3>1. cfg'[n] = cfg[n] /\ argv[next].name # n
        BY <1>1, <1>4, <2>2 DEF ParserInv
      <3>2. StoredAsGiven(n)
        BY DEF ParserInv
      <3>3. CASE (\A i \in 1 .. next - 1 : argv[i].name # n) /\ cfg[n] = ParamOf(n).default
        <4>1. (\A i \in 1 .. next' - 1 : argv'[i].name # n) /\ cfg'[n] = ParamOf(n)'.default
          BY <1>1, <1>5, <1>6, <3>1, <3>3
        <4> QED
          BY <4>1 DEF StoredAsGiven
      <3>4. ASSUME NEW i \in 1 .. next - 1,
                   \A j \in i + 1 .. next - 1 : argv[j].name # n,
                   Converts(argv[i], ParamOf(n)), cfg[n] = Scanned(argv[i], ParamOf(n))
            PROVE  StoredAsGiven(n)'
        <4>1. i \in 1 .. next' - 1 /\ \A j \in i + 1 .. next' - 1 : argv'[j].name # n
          BY <1>1, <1>6, <3>1, <3>4
        <4>2. Converts(argv'[i], ParamOf(n)') /\ cfg'[n] = Scanned(argv'[i], ParamOf(n)')
          BY <1>1, <1>5, <3>1, <3>4
        <4> QED
          BY <4>1, <4>2 DEF StoredAsGiven, Converts, Scanned, Modulus
      <3> QED
        BY <3>2, <3>3, <3>4 DEF StoredAsGiven
    <2> QED
      BY <2>1, <2>2
  <1>8. cfg' = [n \in Names |-> cfg'[n]]
    BY <1>1, <1>4 DEF ParserInv
  <1>9. \A i \in 1 .. next' - 1 : argv'[i].name \in Names
    BY <1>1, <1>4, <1>6 DEF ParserInv
  <1>10. /\ program' \in {"server", "client"} /\ argv' \in Seq(Argument)
         /\ next' \in 1 .. Len(argv') + 1 /\ parsed' = "parsing"
    BY <1>1 DEF ParserInv
  <1> QED
    BY <1>5, <1>7, <1>8, <1>9, <1>10 DEF ParserInv

\* An argument that none takes, and the end of the arguments.
LEMMA ParserEnds ==
    ASSUME ParserInv, Parse, parsed' # parsed
    PROVE  ParserInv'
  <1>1. UNCHANGED <<program, argv, next, cfg>>
    BY DEF Parse, ParseArg, ParseDone
  <1>2. params' = params /\ Names' = Names /\ \A n : ParamOf(n)' = ParamOf(n)
    BY <1>1 DEF params, Names, ParamOf
  <1>3. \A n \in Names : StoredAsGiven(n)'
    BY <1>1, <1>2 DEF ParserInv, StoredAsGiven, Converts, Scanned, Modulus
  <1>4. CASE ParseArg
    <2>1. /\ parsed' = "invalid" /\ next <= Len(argv)
          /\ \A i \in DOMAIN params : ~Converts(argv[next], params[i])
      BY <1>4 DEF ParseArg
    <2>2. \A i \in DOMAIN params' : ~Converts(argv'[next'], params'[i])
      BY <1>1, <1>2, <2>1
    <2> QED
      BY <1>1, <1>2, <1>3, <2>1, <2>2 DEF ParserInv, Converts
  <1>5. CASE ParseDone
    <2>1. parsed' = "done" /\ next = Len(argv) + 1
      BY <1>5 DEF ParseDone, ParserInv
    <2> QED
      BY <1>1, <1>2, <1>3, <2>1 DEF ParserInv
  <1> QED
    BY <1>4, <1>5 DEF Parse

\* Nothing else writes the configuration.
LEMMA ParserStep == ParserInv /\ [Parse]_parser => ParserInv'
  <1> SUFFICES ASSUME ParserInv, [Parse]_parser PROVE ParserInv'
    OBVIOUS
  <1>1. CASE UNCHANGED parser
    <2>1. UNCHANGED <<program, argv, next, cfg, parsed>>
      BY <1>1 DEF parser
    <2>2. params' = params /\ Names' = Names /\ \A n : ParamOf(n)' = ParamOf(n)
      BY <2>1 DEF params, Names, ParamOf
    <2>3. \A n \in Names : StoredAsGiven(n)'
      BY <2>1, <2>2 DEF ParserInv, StoredAsGiven, Converts, Scanned, Modulus
    <2> QED
      BY <2>1, <2>2, <2>3 DEF ParserInv, Converts
  <1>2. CASE Parse /\ parsed' = parsed
    BY <1>2, ParserTakes DEF Parse, ParseDone, ParserInv
  <1> QED
    BY <1>1, <1>2, ParserEnds

----------------------------------------------------------------------------
\* What sscanf stores differs from the number by a multiple of the modulus.
LEMMA ScannedFits ==
    ASSUME NEW arg \in Argument, NEW p, Converts(arg, p)
    PROVE  /\ p.fmt = "s" => Scanned(arg, p) = arg.str
           /\ p.fmt = "u" => /\ Scanned(arg, p) \in 0 .. Modulus - 1
                             /\ (Scanned(arg, p) - arg.num) % Modulus = 0
           /\ p.fmt = "d" => /\ Scanned(arg, p) \in -IntLimit .. IntLimit - 1
                             /\ (Scanned(arg, p) - arg.num) % Modulus = 0
  <1>1. p.fmt # "s" => arg.num \in Int
    BY DEF Converts, Argument
  <1>2. CASE p.fmt = "u"
    BY <1>1, <1>2, Wraps DEF Scanned
  <1>3. CASE p.fmt = "d"
    <2> DEFINE x == arg.num + IntLimit
    <2>1. x \in Int /\ IntLimit \in Nat /\ Modulus = 2 * IntLimit
      BY <1>1, <1>3, CommandAssumption DEF Modulus
    <2>2. x % Modulus \in 0 .. Modulus - 1 /\ ((x % Modulus) - x) % Modulus = 0
      BY <2>1, Wraps
    <2>3. Scanned(arg, p) = (x % Modulus) - IntLimit
      BY <1>3 DEF Scanned
    <2>4. Scanned(arg, p) - arg.num = (x % Modulus) - x
      BY <1>1, <1>3, <2>1, <2>2, <2>3
    <2>5. Scanned(arg, p) \in -IntLimit .. IntLimit - 1
      BY <2>1, <2>2, <2>3
    <2> HIDE DEF x
    <2> QED
      BY <1>3, <2>2, <2>4, <2>5
  <1> QED
    BY <1>2, <1>3 DEF Scanned

\* When the loop over the arguments ends, its invariant is ParsedAsGiven.
LEMMA ParserInvParsed == ParserInv => ParsedAsGiven
  <1> SUFFICES ASSUME ParserInv PROVE ParsedAsGiven
    OBVIOUS
  <1>1. ASSUME parsed = "done", NEW n \in Names, Given(n) # {}
        PROVE  LastGiven(n) \in Argument /\ Converts(LastGiven(n), ParamOf(n))
               /\ cfg[n] = Scanned(LastGiven(n), ParamOf(n))
    <2>1. DOMAIN argv = 1 .. next - 1 /\ Len(argv) \in Nat
      BY <1>1 DEF ParserInv
    <2>2. PICK i \in 1 .. next - 1 :
            /\ \A j \in i + 1 .. next - 1 : argv[j].name # n
            /\ Converts(argv[i], ParamOf(n)) /\ cfg[n] = Scanned(argv[i], ParamOf(n))
      BY <1>1, <2>1 DEF ParserInv, StoredAsGiven, Given
    <2>3. argv[i].name = n
      BY <2>2, ParamOfName DEF ParserInv, Converts
    <2>4. i \in Given(n) /\ (\A j \in Given(n) : j <= i) /\ Given(n) \subseteq Nat
      BY <2>1, <2>2, <2>3 DEF Given, ParserInv
    <2>5. LastGiven(n) = argv[i]
      BY <2>4 DEF LastGiven
    <2>6. argv[i] \in Argument
      BY <2>1 DEF ParserInv
    <2> QED
      BY <2>2, <2>5, <2>6
  <1>2. \A n \in Names : ParamOf(n).fmt \in {"s", "u", "d"}
    BY Tables, ParamOfName DEF ParserInv
  <1>3. ASSUME parsed = "done", NEW n \in Names
        PROVE  IF Given(n) = {} THEN cfg[n] = ParamOf(n).default
               ELSE CASE ParamOf(n).fmt = "s" -> cfg[n] = LastGiven(n).str
                      [] ParamOf(n).fmt = "u" ->
                           /\ cfg[n] \in 0 .. Modulus - 1
                           /\ (cfg[n] - LastGiven(n).num) % Modulus = 0
                      [] ParamOf(n).fmt = "d" ->
                           /\ cfg[n] \in -IntLimit .. IntLimit - 1
                           /\ (cfg[n] - LastGiven(n).num) % Modulus = 0
    <2>1. CASE Given(n) = {}
      <3>1. DOMAIN argv = 1 .. next - 1
        BY <1>3 DEF ParserInv
      <3>2. \A i \in 1 .. next - 1 : argv[i].name # n
        BY <2>1, <3>1 DEF Given
      <3> QED
        BY <1>3, <2>1, <3>2, ParamOfName DEF ParserInv, StoredAsGiven, Converts
    <2>2. CASE Given(n) # {}
      BY <1>1, <1>2, <1>3, <2>2, ScannedFits
    <2> QED
      BY <2>1, <2>2
  <1>4. parsed = "done" => \A i \in DOMAIN argv : argv[i].name \in Names
    BY DEF ParserInv
  <1>5. parsed = "invalid" => \A i \in DOMAIN params : ~Converts(argv[next], params[i])
    BY DEF ParserInv
  <1> QED
    BY <1>3, <1>4, <1>5 DEF ParsedAsGiven

(***************************************************************************)
(* Whatever the arguments, parse_command_args leaves in the configuration  *)
(* what the last argument of each name says and the defaults elsewhere,    *)
(* wrapped to the width of the field.                                      *)
(***************************************************************************)
THEOREM CommandParsedAsGiven == Init /\ [][Parse]_parser => []ParsedAsGiven
  BY ParserInit, ParserStep, ParserInvParsed, PTL
=============================================================================
