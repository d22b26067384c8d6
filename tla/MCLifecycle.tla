---------------------------- MODULE MCLifecycle -----------------------------
(***************************************************************************)
(* An instance of Lifecycle for TLC: the command lines of both programs    *)
(* that differ for the parser or in the number of threads.                 *)
(***************************************************************************)
EXTENDS Lifecycle

Number(name, n) == [name |-> name, str |-> "digits", num |-> n]
Word(name, s)   == [name |-> name, str |-> s, num |-> NULL]

Commands == {
    <<Number("threads.accept", 1), Word("socket_path", "/tmp/other"),
      Number("threads.accept", 2), Number("load.readahead", -1)>>,
    <<Number("threads.compute", 3)>>,
    <<Number("alloc.buffers", 5), Word("threads.io", "junk")>>,
    <<Word("socket_path", NULL)>>,
    <<Number("nr_threads", 2), Number("duration", -5), Word("server_path", "/tmp/other")>>,
    <<Number("nr_requests", Modulus + 7), Number("duration", Modulus - 1)>>,
    <<Number("duration", 3), Word("verbose", NULL)>>}
=============================================================================
