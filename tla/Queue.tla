------------------------------- MODULE Queue -------------------------------
(***************************************************************************)
(* The queue of include/queue.h: a singly linked list with a lock for each *)
(* end and a divider node embedded in the root.  The divider keeps the     *)
(* list from ever becoming empty; a queue_get that pops it puts it back at *)
(* the tail and tries again.                                               *)
(*                                                                         *)
(* Every step is one access to shared memory.  next, head, tail and the    *)
(* two lock words are the fields of the code; new, cur and succ are the    *)
(* locals new_, head and next of the two functions.  q and dpos are        *)
(* auxiliary: the nodes linked in the list, and the place of the divider   *)
(* among them (0 while a queue_get has it out of the list).                *)
(*                                                                         *)
(* PutCallUnterminated, PutLockUnchecked, PutSwingLost, GetLockUnchecked,  *)
(* GetDividerDropped and GetReturnAny are faulty variants of the action    *)
(* that follows each: no specification uses them, and each breaks one of   *)
(* the properties below when it takes the action's place.                  *)
(***************************************************************************)
EXTENDS Integers, Sequences

CONSTANTS Nodes, Putters, Getters,
          Divider,   \* &root->divider
          NULL,
          POISON     \* QUEUE_POISON1

Threads == Putters \cup Getters
Cells   == Nodes \cup {Divider}

ASSUME SpecialPointers ==
    /\ Divider \notin Nodes /\ NULL \notin Cells /\ POISON \notin Cells
    /\ NULL # POISON

VARIABLES next, head, tail, head_lock, tail_lock, pc, new, cur, succ, hand,
          q, dpos

ghost == <<q, dpos>>
vars  == <<next, head, tail, head_lock, tail_lock, pc, new, cur, succ, hand,
           q, dpos>>

PutStages == {"put_lock", "put_link", "put_swing", "put_unlock"}
GetStages == {"get_lock", "get_read", "get_null", "get_swing", "get_unlock",
              "get_check"}

(***************************************************************************)
(* The fields and locals hold cells (or NULL, or QUEUE_POISON1 in next),   *)
(* never the divider in a caller's hands.                                  *)
(***************************************************************************)
TypeOK ==
    /\ next \in [Cells -> Cells \cup {NULL, POISON}]
    /\ head \in Cells /\ tail \in Cells
    /\ head_lock \in {0, 1} /\ tail_lock \in {0, 1}
    /\ pc \in [Threads -> {"idle"} \cup PutStages \cup GetStages]
    /\ new \in [Threads -> Cells \cup {NULL}]
    /\ cur \in [Threads -> Cells \cup {NULL}]
    /\ succ \in [Threads -> Cells \cup {NULL}]
    /\ hand \in [Threads -> SUBSET Nodes]
    /\ q \in Seq(Nodes)
    /\ dpos \in 0 .. Len(q) + 1

----------------------------------------------------------------------------
\* init_queue_root: the divider alone; the nodes belong to the putters.
Init ==
    /\ next = [c \in Cells |-> IF c = Divider THEN NULL ELSE POISON]
    /\ head = Divider /\ tail = Divider
    /\ head_lock = 0 /\ tail_lock = 0
    /\ pc = [t \in Threads |-> "idle"]
    /\ new = [t \in Threads |-> NULL]
    /\ cur = [t \in Threads |-> NULL]
    /\ succ = [t \in Threads |-> NULL]
    /\ hand \in [Threads -> SUBSET Nodes]
    /\ \A s, t \in Threads : s # t => hand[s] \cap hand[t] = {}
    /\ q = <<>> /\ dpos = 1

Goto(t, label) == pc' = [pc EXCEPT ![t] = label]

----------------------------------------------------------------------------
\* queue_put

PutCallUnterminated(t, n) ==
    /\ pc[t] = "idle" /\ n \in hand[t]
    /\ hand' = [hand EXCEPT ![t] = @ \ {n}]
    /\ new' = [new EXCEPT ![t] = n]
    /\ Goto(t, "put_lock")
    /\ UNCHANGED <<next, head, tail, head_lock, tail_lock, cur, succ, ghost>>

PutCall(t, n) ==
    /\ pc[t] = "idle" /\ n \in hand[t]
    /\ hand' = [hand EXCEPT ![t] = @ \ {n}]
    /\ new' = [new EXCEPT ![t] = n]
    /\ next' = [next EXCEPT ![n] = NULL]
    /\ Goto(t, "put_lock")
    /\ UNCHANGED <<head, tail, head_lock, tail_lock, cur, succ, ghost>>

PutLockUnchecked(t) ==
    /\ pc[t] = "put_lock"
    /\ tail_lock' = 1
    /\ Goto(t, "put_link")
    /\ UNCHANGED <<next, head, tail, head_lock, new, cur, succ, hand, ghost>>

PutLock(t) ==
    /\ pc[t] = "put_lock" /\ tail_lock = 0
    /\ tail_lock' = 1
    /\ Goto(t, "put_link")
    /\ UNCHANGED <<next, head, tail, head_lock, new, cur, succ, hand, ghost>>

PutLink(t) ==
    /\ pc[t] = "put_link"
    /\ next' = [next EXCEPT ![tail] = new[t]]
    /\ IF new[t] = Divider THEN dpos' = Len(q) + 1 /\ UNCHANGED q
                           ELSE q' = Append(q, new[t]) /\ UNCHANGED dpos
    /\ Goto(t, "put_swing")
    /\ UNCHANGED <<head, tail, head_lock, tail_lock, new, cur, succ, hand>>

PutSwingLost(t) ==
    /\ pc[t] = "put_swing"
    /\ Goto(t, "put_unlock")
    /\ UNCHANGED <<next, head, tail, head_lock, tail_lock, new, cur, succ, hand, ghost>>

PutSwing(t) ==
    /\ pc[t] = "put_swing"
    /\ tail' = new[t]
    /\ Goto(t, "put_unlock")
    /\ UNCHANGED <<next, head, head_lock, tail_lock, new, cur, succ, hand, ghost>>

\* A queue_get that put the divider back goes round its loop again.
PutUnlock(t) ==
    /\ pc[t] = "put_unlock"
    /\ tail_lock' = 0
    /\ new' = [new EXCEPT ![t] = NULL]
    /\ Goto(t, IF new[t] = Divider THEN "get_lock" ELSE "idle")
    /\ UNCHANGED <<next, head, tail, head_lock, cur, succ, hand, ghost>>

----------------------------------------------------------------------------
\* queue_get

GetCall(t) ==
    /\ pc[t] = "idle"
    /\ Goto(t, "get_lock")
    /\ UNCHANGED <<next, head, tail, head_lock, tail_lock, new, cur, succ, hand, ghost>>

GetLockUnchecked(t) ==
    /\ pc[t] = "get_lock"
    /\ head_lock' = 1
    /\ Goto(t, "get_read")
    /\ UNCHANGED <<next, head, tail, tail_lock, new, cur, succ, hand, ghost>>

GetLock(t) ==
    /\ pc[t] = "get_lock" /\ head_lock = 0
    /\ head_lock' = 1
    /\ Goto(t, "get_read")
    /\ UNCHANGED <<next, head, tail, tail_lock, new, cur, succ, hand, ghost>>

\* head is stable under head_lock; head->next races with PutLink.
GetRead(t) ==
    /\ pc[t] = "get_read"
    /\ cur' = [cur EXCEPT ![t] = head]
    /\ succ' = [succ EXCEPT ![t] = next[head]]
    /\ Goto(t, IF next[head] = NULL THEN "get_null" ELSE "get_swing")
    /\ UNCHANGED <<next, head, tail, head_lock, tail_lock, new, hand, ghost>>

\* The list has one cell left: unlock and return NULL.
GetNull(t) ==
    /\ pc[t] = "get_null"
    /\ head_lock' = 0
    /\ cur' = [cur EXCEPT ![t] = NULL]
    /\ Goto(t, "idle")
    /\ UNCHANGED <<next, head, tail, tail_lock, new, succ, hand, ghost>>

GetSwing(t) ==
    /\ pc[t] = "get_swing"
    /\ head' = succ[t]
    /\ IF cur[t] = Divider
       THEN dpos' = 0 /\ UNCHANGED q
       ELSE q' = Tail(q) /\ dpos' = IF dpos = 0 THEN 0 ELSE dpos - 1
    /\ Goto(t, "get_unlock")
    /\ UNCHANGED <<next, tail, head_lock, tail_lock, new, cur, succ, hand>>

GetUnlock(t) ==
    /\ pc[t] = "get_unlock"
    /\ head_lock' = 0
    /\ succ' = [succ EXCEPT ![t] = NULL]
    /\ Goto(t, "get_check")
    /\ UNCHANGED <<next, head, tail, tail_lock, new, cur, hand, ghost>>

GetDividerDropped(t) ==
    /\ pc[t] = "get_check" /\ cur[t] = Divider
    /\ cur' = [cur EXCEPT ![t] = NULL]
    /\ Goto(t, "get_lock")
    /\ UNCHANGED <<next, head, tail, head_lock, tail_lock, new, succ, hand, ghost>>

\* The popped cell is the divider: queue_put it and continue.
GetDivider(t) ==
    /\ pc[t] = "get_check" /\ cur[t] = Divider
    /\ new' = [new EXCEPT ![t] = Divider]
    /\ cur' = [cur EXCEPT ![t] = NULL]
    /\ next' = [next EXCEPT ![Divider] = NULL]
    /\ Goto(t, "put_lock")
    /\ UNCHANGED <<head, tail, head_lock, tail_lock, succ, hand, ghost>>

GetReturnAny(t) ==
    /\ pc[t] = "get_check"
    /\ next' = [next EXCEPT ![cur[t]] = POISON]
    /\ hand' = [hand EXCEPT ![t] = @ \cup {cur[t]}]
    /\ cur' = [cur EXCEPT ![t] = NULL]
    /\ Goto(t, "idle")
    /\ UNCHANGED <<head, tail, head_lock, tail_lock, new, succ, ghost>>

GetReturn(t) ==
    /\ pc[t] = "get_check" /\ cur[t] # Divider
    /\ next' = [next EXCEPT ![cur[t]] = POISON]
    /\ hand' = [hand EXCEPT ![t] = @ \cup {cur[t]}]
    /\ cur' = [cur EXCEPT ![t] = NULL]
    /\ Goto(t, "idle")
    /\ UNCHANGED <<head, tail, head_lock, tail_lock, new, succ, ghost>>

----------------------------------------------------------------------------
PutStep(t) == PutLock(t) \/ PutLink(t) \/ PutSwing(t) \/ PutUnlock(t)
GetStep(t) == GetLock(t) \/ GetRead(t) \/ GetNull(t) \/ GetSwing(t)
              \/ GetUnlock(t) \/ GetDivider(t) \/ GetReturn(t)

Next ==
    \/ \E t \in Putters, n \in Nodes : PutCall(t, n)
    \/ \E t \in Getters : GetCall(t) \/ GetStep(t)
    \/ \E t \in Threads : PutStep(t)

Spec == Init /\ [][Next]_vars

\* Each thread keeps executing; the consumers of the program poll their queue
\* in a loop (compute.c, submit.c).  The spinlock promises nothing to a thread
\* that spins, so only weak fairness is assumed of every step.
Fairness ==
    /\ \A t \in Threads : WF_vars(PutStep(t))
    /\ \A t \in Getters : WF_vars(GetCall(t)) /\ WF_vars(GetStep(t))

FairSpec == Spec /\ Fairness

----------------------------------------------------------------------------
\* Helper predicates

InTailCS(t) == pc[t] \in {"put_link", "put_swing", "put_unlock"}
InHeadCS(t) == pc[t] \in {"get_read", "get_null", "get_swing", "get_unlock"}

\* The list as the auxiliary variables describe it: the cells of the nodes s
\* with the divider in place d among them (0: not in the list).
LenOf(s, d)     == IF d = 0 THEN Len(s) ELSE Len(s) + 1
CellOf(s, d, i) == IF d = 0 \/ i < d THEN s[i]
                   ELSE IF i = d THEN Divider ELSE s[i - 1]
ListLen == LenOf(q, dpos)
Cell(i) == CellOf(q, dpos, i)

\* The thread that has the divider out of the list.
Rotating(t) ==
    \/ pc[t] \in {"get_unlock", "get_check"} /\ cur[t] = Divider
    \/ pc[t] \in {"put_lock", "put_link"} /\ new[t] = Divider

\* The node that a call in progress, or the thread itself, owns outside the list.
InCall(t, n) ==
    \/ pc[t] \in {"put_lock", "put_link"} /\ new[t] = n
    \/ pc[t] \in {"get_unlock", "get_check"} /\ cur[t] = n
Carries(t, n) == n \in hand[t] \/ InCall(t, n)

Queued(n) == \E i \in 1 .. Len(q) : q[i] = n

----------------------------------------------------------------------------
\* Properties

(***************************************************************************)
(* lock() and unlock() of lock.h give each end of the queue to one thread  *)
(* at a time, and the lock word says whether it is taken.                  *)
(***************************************************************************)
MutualExclusion ==
    /\ \A s, t \in Threads : InTailCS(s) /\ InTailCS(t) => s = t
    /\ \A s, t \in Threads : InHeadCS(s) /\ InHeadCS(t) => s = t
    /\ tail_lock = 1 <=> \E t \in Threads : InTailCS(t)
    /\ head_lock = 1 <=> \E t \in Threads : InHeadCS(t)

(***************************************************************************)
(* The memory holds a well-formed list at every instant: following next    *)
(* from root->head visits the queued nodes oldest first, with the divider  *)
(* at its place, and ends in NULL; root->tail is the last cell except      *)
(* between the two stores of a queue_put.                                  *)
(***************************************************************************)
ListIntact ==
    /\ ListLen >= 1
    /\ head = Cell(1)
    /\ \A i \in 1 .. ListLen - 1 : next[Cell(i)] = Cell(i + 1)
    /\ next[Cell(ListLen)] = NULL
    /\ (\A t \in Threads : pc[t] # "put_swing") => tail = Cell(ListLen)
    /\ \A t \in Threads : pc[t] = "put_swing" => new[t] = Cell(ListLen)

(***************************************************************************)
(* A node has exactly one owner: it is once in the list or held by one     *)
(* thread, never both (queue_get hands a node to one caller only, and no   *)
(* queue_put links a node twice).                                          *)
(***************************************************************************)
SingleOwner ==
    /\ \A i, j \in 1 .. Len(q) : q[i] = q[j] => i = j
    /\ \A n \in Nodes, t \in Threads : Carries(t, n) => ~Queued(n)
    /\ \A n \in Nodes, s, t \in Threads :
         Carries(s, n) /\ Carries(t, n) => s = t
    /\ \A n \in Nodes, t \in Threads : ~(n \in hand[t] /\ InCall(t, n))
    /\ dpos = 0 <=> \E t \in Threads : Rotating(t)
    /\ \A s, t \in Threads : Rotating(s) /\ Rotating(t) => s = t

(***************************************************************************)
(* What a thread read or prepared is still true when it uses it: the cell  *)
(* it is about to link ends the list, and the head and successor it read   *)
(* in queue_get are current until it stores root->head.                    *)
(***************************************************************************)
LocalsCurrent ==
    \A t \in Threads :
        /\ pc[t] \in PutStages => new[t] \in Cells
        /\ pc[t] \in {"put_lock", "put_link"} => next[new[t]] = NULL
        /\ pc[t] = "get_swing" => cur[t] = head /\ succ[t] = next[head] /\ succ[t] # NULL
        /\ pc[t] \in {"get_unlock", "get_check"} => cur[t] \in Cells
        /\ pc[t] \in GetStages \/ new[t] = Divider => t \in Getters
        /\ pc[t] \in PutStages /\ new[t] # Divider => t \in Putters

\* The conjunction is inductive (QueueProofs).
IInv == TypeOK /\ MutualExclusion /\ ListIntact /\ SingleOwner /\ LocalsCurrent

(***************************************************************************)
(* The queue implements Fifo: queue_get takes effect when it advances      *)
(* root->head past a node (or reads NULL), queue_put when it links the     *)
(* node.                                                                   *)
(***************************************************************************)
StageOf(t) ==
    CASE pc[t] = "idle" -> "idle"
      [] pc[t] \in {"put_lock", "put_link"} /\ new[t] # Divider -> "put"
      [] pc[t] \in {"put_swing", "put_unlock"} /\ new[t] # Divider -> "done"
      [] pc[t] \in {"get_unlock", "get_check"} /\ cur[t] # Divider -> "got"
      [] pc[t] = "get_null" -> "null"
      [] OTHER -> "get"

ItemOf(t) ==
    CASE StageOf(t) = "put" -> new[t]
      [] StageOf(t) = "got" -> cur[t]
      [] OTHER -> NULL

Abstract == INSTANCE Fifo WITH
    op <- [t \in Threads |-> StageOf(t)],
    item <- [t \in Threads |-> ItemOf(t)]

ImplementsFifo == Abstract!Spec

(***************************************************************************)
(* A node put in the queue is got by a polling consumer: the divider never *)
(* strands it, although a queue_get returns NULL when the node is the last *)
(* cell of the list.                                                       *)
(***************************************************************************)
NodeDelivered == \A n \in Nodes : Queued(n) ~> ~Queued(n)
============================================================================
