------------------------------- MODULE Fifo -------------------------------
(***************************************************************************)
(* What include/queue.h promises to its callers: a first-in first-out      *)
(* queue of nodes shared by threads.  A call of queue_put or queue_get     *)
(* begins, takes effect in one atomic step, and returns.  A node is owned  *)
(* by a thread (hand), by a call in progress (item) or by the queue.       *)
(*                                                                         *)
(* queue_get may return NULL although the queue is not empty, but only     *)
(* when one node is left and another queue_get overlaps the call.          *)
(***************************************************************************)
EXTENDS Sequences, Naturals

CONSTANTS Nodes,    \* the queue_head objects that callers put and get
          Putters,  \* threads that call queue_put
          Getters,  \* threads that call queue_get
          NULL

VARIABLES q,     \* the nodes in the queue, oldest first
          hand,  \* hand[t]: the nodes thread t owns
          op,    \* op[t]: the stage of t's call
          item   \* item[t]: the node t's call carries in or out

vars == <<q, hand, op, item>>

Threads == Putters \cup Getters

Init ==
    /\ q = <<>>
    /\ hand \in [Threads -> SUBSET Nodes]
    /\ \A s, t \in Threads : s # t => hand[s] \cap hand[t] = {}
    /\ op = [t \in Threads |-> "idle"]
    /\ item = [t \in Threads |-> NULL]

PutCall(t, n) ==
    /\ op[t] = "idle" /\ n \in hand[t]
    /\ hand' = [hand EXCEPT ![t] = @ \ {n}]
    /\ item' = [item EXCEPT ![t] = n]
    /\ op' = [op EXCEPT ![t] = "put"]
    /\ UNCHANGED q

PutDo(t) ==
    /\ op[t] = "put"
    /\ q' = Append(q, item[t])
    /\ item' = [item EXCEPT ![t] = NULL]
    /\ op' = [op EXCEPT ![t] = "done"]
    /\ UNCHANGED hand

GetCall(t) ==
    /\ op[t] = "idle"
    /\ op' = [op EXCEPT ![t] = "get"]
    /\ UNCHANGED <<q, hand, item>>

GetDo(t) ==
    /\ op[t] = "get" /\ q # <<>>
    /\ q' = Tail(q)
    /\ item' = [item EXCEPT ![t] = Head(q)]
    /\ op' = [op EXCEPT ![t] = "got"]
    /\ UNCHANGED hand

MayMiss(t) ==
    \/ q = <<>>
    \/ Len(q) = 1 /\ \E s \in Getters \ {t} : op[s] = "get"

GetNull(t) ==
    /\ op[t] = "get" /\ MayMiss(t)
    /\ op' = [op EXCEPT ![t] = "null"]
    /\ UNCHANGED <<q, hand, item>>

Return(t) ==
    /\ op[t] \in {"done", "got", "null"}
    /\ hand' = [hand EXCEPT ![t] = IF op[t] = "got" THEN @ \cup {item[t]} ELSE @]
    /\ item' = [item EXCEPT ![t] = NULL]
    /\ op' = [op EXCEPT ![t] = "idle"]
    /\ UNCHANGED q

Next ==
    \/ \E t \in Putters : PutDo(t) \/ \E n \in Nodes : PutCall(t, n)
    \/ \E t \in Getters : GetCall(t) \/ GetDo(t) \/ GetNull(t)
    \/ \E t \in Threads : Return(t)

Spec == Init /\ [][Next]_vars
===========================================================================
