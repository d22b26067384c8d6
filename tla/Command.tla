------------------------------ MODULE Command -------------------------------
(***************************************************************************)
(* The command line of the server and of the client (command.c): a table   *)
(* of parameters with formats and defaults, and a parser that stores each  *)
(* argument where sscanf accepts it.                                       *)
(*                                                                         *)
(* ScannedAsWritten is a faulty variant of the definition after it, which  *)
(* no specification uses; it breaks ParsedAsGiven.                         *)
(***************************************************************************)
EXTENDS Integers, Sequences, FiniteSets

CONSTANTS
    ArgLists,  \* the command lines: sequences of arguments, see Argument
    IntLimit,  \* INT_MAX + 1
    NULL

\* "--name=text".  sscanf sees of the text its first word str, NULL when it is
\* blank, and the number num it begins with, NULL when it begins with none.
Argument == [name : STRING, str : STRING \cup {NULL}, num : Int \cup {NULL}]

ASSUME CommandAssumption ==
    /\ IntLimit \in Nat \ {0}
    /\ \A a \in ArgLists : a \in Seq(Argument)

VARIABLES
    program,  \* the program started
    argv,     \* its arguments
    next,     \* the argument parse_params is at
    cfg,      \* server_config_t or client_config_t, by the names of the fields
    parsed    \* parse_command_args: "parsing", its result 0 or -1

parser == <<program, argv, next, cfg, parsed>>

Param(name, fmt, default) == [name |-> name, fmt |-> fmt, default |-> default]

server_params == <<
    Param("socket_path", "s", "/tmp/bench-server"),
    Param("load.compute_dur", "u", 100),
    Param("load.max_io_size", "u", 128),
    Param("load.readahead", "u", 1000),
    Param("threads.io", "u", 1),
    Param("threads.compute", "u", 1),
    Param("threads.submit", "u", 1),
    Param("threads.accept", "u", 1),
    Param("alloc.sessions", "u", 100),
    Param("alloc.buffers", "u", 100000),
    Param("kerncall.global", "u", 1),
    Param("kerncall.io", "u", 0),
    Param("kerncall.accept", "u", 0),
    Param("kerncall.submit", "u", 0) >>

client_params == <<
    Param("server_path", "s", "/tmp/bench-server"),
    Param("nr_threads", "u", 1),
    Param("nr_connections", "u", 20),
    Param("nr_requests", "u", 100000),
    Param("duration", "d", -1) >>

params == IF program = "server" THEN server_params ELSE client_params

Names == {params[i].name : i \in DOMAIN params}
ParamOf(name) == params[CHOOSE i \in DOMAIN params : params[i].name = name]

----------------------------------------------------------------------------
\* param_set_default, for every parameter
Init ==
    /\ program \in {"server", "client"} /\ argv \in ArgLists
    /\ next = 1 /\ parsed = "parsing"
    /\ cfg = [n \in Names |-> ParamOf(n).default]

\* param_try_set: whether sscanf converts the argument with the parameter's
\* format, and what it stores.  %u takes a sign too, and both formats keep the
\* low bits of the number.
Converts(arg, p) ==
    arg.name = p.name /\ (IF p.fmt = "s" THEN arg.str # NULL ELSE arg.num # NULL)

Modulus == 2 * IntLimit

ScannedAsWritten(arg, p) == IF p.fmt = "s" THEN arg.str ELSE arg.num
Scanned(arg, p) ==
    IF p.fmt = "s" THEN arg.str
    ELSE IF p.fmt = "u" THEN arg.num % Modulus
    ELSE ((arg.num + IntLimit) % Modulus) - IntLimit

\* parse_params: the first parameter that converts the argument takes it.
ParseArg ==
    LET takers == {i \in DOMAIN params : Converts(argv[next], params[i])}
        taker == params[CHOOSE i \in takers : \A j \in takers : i <= j]
    IN  /\ parsed = "parsing" /\ next <= Len(argv)
        /\ \/ /\ takers # {}
              /\ cfg' = [cfg EXCEPT ![taker.name] = Scanned(argv[next], taker)]
              /\ next' = next + 1
              /\ UNCHANGED parsed
           \/ /\ takers = {} /\ parsed' = "invalid"
              /\ UNCHANGED <<cfg, next>>
        /\ UNCHANGED <<program, argv>>

ParseDone ==
    /\ parsed = "parsing" /\ next > Len(argv)
    /\ parsed' = "done"
    /\ UNCHANGED <<program, argv, next, cfg>>

Parse == ParseArg \/ ParseDone

----------------------------------------------------------------------------
\* Properties

Given(n) == {i \in DOMAIN argv : argv[i].name = n}
LastGiven(n) == argv[CHOOSE i \in Given(n) : \A j \in Given(n) : j <= i]

(***************************************************************************)
(* The parameters are as the command line says (show_usage and the "desc"  *)
(* of the tables): the last argument that names one decides, numbers fit   *)
(* their type and are those written but for multiples of Modulus, and a    *)
(* parameter nobody names has its default.  A command line is refused only *)
(* for an argument that no parameter takes.                                *)
(***************************************************************************)
ParsedAsGiven ==
    /\ parsed = "done" =>
         /\ \A n \in Names :
            IF Given(n) = {} THEN cfg[n] = ParamOf(n).default
            ELSE CASE ParamOf(n).fmt = "s" -> cfg[n] = LastGiven(n).str
                   [] ParamOf(n).fmt = "u" ->
                        /\ cfg[n] \in 0 .. Modulus - 1
                        /\ (cfg[n] - LastGiven(n).num) % Modulus = 0
                   [] ParamOf(n).fmt = "d" ->
                        /\ cfg[n] \in -IntLimit .. IntLimit - 1
                        /\ (cfg[n] - LastGiven(n).num) % Modulus = 0
         /\ \A i \in DOMAIN argv : argv[i].name \in Names
    /\ parsed = "invalid" =>
         \A i \in DOMAIN params : ~Converts(argv[next], params[i])
=============================================================================
