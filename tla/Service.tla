------------------------------ MODULE Service -------------------------------
(***************************************************************************)
(* The contract between piotbench's client and server, seen on the wire of *)
(* each connection: a client sends requests and leaves when all of them    *)
(* are answered, a server answers whole requests it has read, each once,   *)
(* and closes after the client.  Only byte counts are visible.             *)
(*                                                                         *)
(* Server and Client both implement it, each taking the other's steps for  *)
(* its environment: so what the client assumes of the server is what the   *)
(* server does, and the other way round.                                   *)
(***************************************************************************)
EXTENDS Naturals

CONSTANTS
    Links,            \* connections
    ReqLen, RespLen,  \* sizes of struct request_t and struct response_t
    SockBuf,          \* bytes a socket holds for the client to read
    Abrupt            \* who may end a connection early: "client", "server"

VARIABLE
    link  \* bytes written, taken by the server, sent back, read; who has left

Init == link = [k \in Links |-> [up |-> 0, taken |-> 0, down |-> 0, read |-> 0,
                                 left |-> FALSE, closed |-> FALSE]]

Write(k) ==
    /\ ~link[k].left /\ ~link[k].closed
    /\ \E n \in 1 .. ReqLen : link' = [link EXCEPT ![k].up = @ + n]

Take(k) ==
    /\ ~link[k].closed
    /\ \E n \in 1 .. link[k].up - link[k].taken : link' = [link EXCEPT ![k].taken = @ + n]

\* The bytes due to the client: one response for each whole request taken.
Due(k) == (link[k].taken \div ReqLen) * RespLen

Reply(k) ==
    /\ ~link[k].closed
    /\ \E n \in 1 .. RespLen :
         /\ link[k].down + n <= Due(k) /\ link[k].down + n <= link[k].read + SockBuf
         /\ link' = [link EXCEPT ![k].down = @ + n]

Read(k) ==
    /\ ~link[k].left
    /\ \E n \in 1 .. link[k].down - link[k].read : link' = [link EXCEPT ![k].read = @ + n]

\* Every byte the client sent belongs to an answered request.
Answered(k) == link[k].up * RespLen = link[k].read * ReqLen

\* A client that ends closes all its connections at once, and may do so early
\* when the server has ended one of them.
Excused == "client" \in Abrupt \/ \E k \in Links : link[k].closed /\ ~link[k].left

Leave(K) ==
    /\ \A k \in K : ~link[k].left /\ (Answered(k) \/ Excused)
    /\ link' = [k \in Links |-> IF k \in K THEN [link[k] EXCEPT !.left = TRUE] ELSE link[k]]

\* The server closes after the client, or in answer to one that ends early.
Close(k) ==
    /\ ~link[k].closed /\ (link[k].left \/ Abrupt # {})
    /\ link' = [link EXCEPT ![k].closed = TRUE]

Next ==
    \/ \E k \in Links : Write(k) \/ Take(k) \/ Reply(k) \/ Read(k) \/ Close(k)
    \/ \E K \in SUBSET Links : Leave(K)

Spec == Init /\ [][Next]_link
=============================================================================
