---------------------------- MODULE QueueProofs ----------------------------
(***************************************************************************)
(* Proofs about Queue for any set of nodes and threads: IInv is inductive, *)
(* and the linked list implements Fifo.  IInv ties the memory (next, head, *)
(* tail) to the auxiliary sequence q and the place dpos of the divider;    *)
(* mutual exclusion makes the auxiliary updates sequential, single         *)
(* ownership keeps a cell that a call writes to outside the list, and the  *)
(* currency of the locals carries what was read under the head lock to     *)
(* the store of root->head.                                                *)
(***************************************************************************)
EXTENDS Queue, TLAPS

\* Linking a node at the end of the list leaves the other cells in place.
LEMMA LinkNode ==
    ASSUME NEW s \in Seq(Nodes), NEW n \in Nodes, NEW d \in 0 .. Len(s) + 1
    PROVE  /\ LenOf(Append(s, n), d) = LenOf(s, d) + 1
           /\ \A i \in 1 .. LenOf(s, d) : CellOf(Append(s, n), d, i) = CellOf(s, d, i)
           /\ CellOf(Append(s, n), d, LenOf(s, d) + 1) = n
  BY DEF LenOf, CellOf

\* Putting the divider back at the end does the same.
LEMMA LinkDivider ==
    ASSUME NEW s \in Seq(Nodes)
    PROVE  /\ LenOf(s, Len(s) + 1) = LenOf(s, 0) + 1
           /\ \A i \in 1 .. LenOf(s, 0) : CellOf(s, Len(s) + 1, i) = CellOf(s, 0, i)
           /\ CellOf(s, Len(s) + 1, LenOf(s, 0) + 1) = Divider
  BY DEF LenOf, CellOf

\* Popping a node moves every other cell one place forward.
LEMMA PopNode ==
    ASSUME NEW s \in Seq(Nodes), s # <<>>, NEW d \in 0 .. Len(s) + 1, d # 1
    PROVE  LET e == IF d = 0 THEN 0 ELSE d - 1
           IN  /\ Tail(s) \in Seq(Nodes)
               /\ e \in 0 .. Len(Tail(s)) + 1
               /\ LenOf(Tail(s), e) = LenOf(s, d) - 1
               /\ \A i \in 1 .. LenOf(s, d) - 1 : CellOf(Tail(s), e, i) = CellOf(s, d, i + 1)
  BY DEF LenOf, CellOf

\* Popping the divider does the same.
LEMMA PopDivider ==
    ASSUME NEW s \in Seq(Nodes)
    PROVE  /\ LenOf(s, 0) = LenOf(s, 1) - 1
           /\ \A i \in 1 .. LenOf(s, 1) - 1 : CellOf(s, 0, i) = CellOf(s, 1, i + 1)
  BY DEF LenOf, CellOf

\* The cells of the list are distinct objects and none is NULL or POISON.
LEMMA CellsDistinct ==
    ASSUME NEW s \in Seq(Nodes), NEW d \in 0 .. Len(s) + 1,
           \A i, j \in 1 .. Len(s) : s[i] = s[j] => i = j
    PROVE  /\ \A i \in 1 .. LenOf(s, d) : CellOf(s, d, i) \in Cells
           /\ \A i, j \in 1 .. LenOf(s, d) : CellOf(s, d, i) = CellOf(s, d, j) => i = j
           /\ \A i \in 1 .. LenOf(s, d) :
                CellOf(s, d, i) = Divider <=> i = d
           /\ \A i \in 1 .. LenOf(s, d) : CellOf(s, d, i) # Divider =>
                \E j \in 1 .. Len(s) : CellOf(s, d, i) = s[j]
           /\ LenOf(s, d) \in Nat
  <1>1. LenOf(s, d) \in Nat
    BY DEF LenOf
  <1>2. \A i \in 1 .. LenOf(s, d) : CellOf(s, d, i) = Divider <=> i = d
    BY SpecialPointers DEF LenOf, CellOf
  <1>3. \A i \in 1 .. LenOf(s, d) : i # d =>
           LET j == IF d = 0 \/ i < d THEN i ELSE i - 1
           IN  j \in 1 .. Len(s) /\ CellOf(s, d, i) = s[j] /\ s[j] \in Nodes
    BY DEF LenOf, CellOf
  <1>4. \A i, j \in 1 .. LenOf(s, d) : CellOf(s, d, i) = CellOf(s, d, j) => i = j
    BY <1>2, <1>3
  <1> QED
    BY <1>1, <1>2, <1>3, <1>4 DEF Cells

----------------------------------------------------------------------------
\* Where the invariant puts the cells that matter to a step.
Outside(c) == \A i \in 1 .. ListLen : Cell(i) # c

\* A cell that a call in progress carries is not in the list.
LEMMA CarriedOutside ==
    ASSUME IInv
    PROVE  /\ ListLen \in Nat /\ ListLen >= 1
           /\ \A i \in 1 .. ListLen : Cell(i) \in Cells
           /\ \A i, j \in 1 .. ListLen : Cell(i) = Cell(j) => i = j
           /\ \A i \in 1 .. ListLen : Cell(i) = Divider <=> i = dpos
           /\ \A t \in Threads, n \in Nodes : Carries(t, n) => Outside(n)
           /\ \A t \in Threads : Rotating(t) => Outside(Divider)
           /\ \A t \in Threads : pc[t] \in {"put_lock", "put_link"} => Outside(new[t])
           /\ \A t \in Threads : pc[t] \in {"get_unlock", "get_check"} => Outside(cur[t])
  <1>1. q \in Seq(Nodes) /\ dpos \in 0 .. Len(q) + 1
    BY DEF IInv, TypeOK
  <1>2. \A i, j \in 1 .. Len(q) : q[i] = q[j] => i = j
    BY DEF IInv, SingleOwner
  <1>3. /\ ListLen \in Nat
        /\ \A i \in 1 .. ListLen : Cell(i) \in Cells
        /\ \A i, j \in 1 .. ListLen : Cell(i) = Cell(j) => i = j
        /\ \A i \in 1 .. ListLen : Cell(i) = Divider <=> i = dpos
        /\ \A i \in 1 .. ListLen : Cell(i) # Divider => \E j \in 1 .. Len(q) : Cell(i) = q[j]
    BY <1>1, <1>2, CellsDistinct DEF ListLen, Cell
  <1>4. \A t \in Threads, n \in Nodes : Carries(t, n) => Outside(n)
    BY <1>3, SpecialPointers DEF IInv, SingleOwner, Queued, Outside
  <1>5. \A t \in Threads : Rotating(t) => Outside(Divider)
    BY <1>3 DEF IInv, SingleOwner, Outside
  <1>6. \A t \in Threads : pc[t] \in {"put_lock", "put_link"} => Outside(new[t])
    BY <1>4, <1>5 DEF IInv, LocalsCurrent, Carries, InCall, Rotating, Cells, PutStages
  <1>7. \A t \in Threads : pc[t] \in {"get_unlock", "get_check"} => Outside(cur[t])
    BY <1>4, <1>5 DEF IInv, LocalsCurrent, Carries, InCall, Rotating, Cells
  <1> QED
    BY <1>3, <1>4, <1>5, <1>6, <1>7 DEF IInv, ListIntact

\* A step that leaves the list's cells, its ends and the locals of the tail
\* section alone keeps the list intact.
LEMMA ListFrame ==
    ASSUME IInv, TypeOK', UNCHANGED <<head, tail, q, dpos>>,
           \A i \in 1 .. ListLen : next'[Cell(i)] = next[Cell(i)],
           \A t \in Threads : pc'[t] = "put_swing" <=> pc[t] = "put_swing",
           \A t \in Threads : pc[t] = "put_swing" => new'[t] = new[t]
    PROVE  ListIntact'
  <1>1. ListLen' = ListLen /\ \A i : Cell(i)' = Cell(i)
    BY DEF ListLen, Cell
  <1> QED
    BY <1>1, CarriedOutside DEF ListIntact, IInv

\* init_queue_root establishes the invariant.
LEMMA InitInvariant == Init => IInv
  <1> SUFFICES ASSUME Init PROVE IInv
    OBVIOUS
  <1>1. TypeOK
    BY DEF Init, TypeOK, Cells
  <1>2. MutualExclusion
    BY DEF Init, MutualExclusion, InTailCS, InHeadCS
  <1>3. ListIntact
    BY DEF Init, ListIntact, ListLen, Cell, LenOf, CellOf, Cells
  <1>4. SingleOwner
    BY DEF Init, SingleOwner, Carries, InCall, Rotating, Queued
  <1>5. LocalsCurrent
    BY SpecialPointers DEF Init, LocalsCurrent, PutStages, GetStages, Cells
  <1> QED
    BY <1>1, <1>2, <1>3, <1>4, <1>5 DEF IInv

----------------------------------------------------------------------------
\* One lemma per action: the step preserves the invariant.

\* queue_put clears the next pointer of a node only its caller owns.
LEMMA PutCallInv ==
    ASSUME IInv, NEW t \in Putters, NEW n \in Nodes, PutCall(t, n)
    PROVE  IInv'
  <1> t \in Threads
    BY DEF Threads
  <1>1. TypeOK'
    BY DEF IInv, TypeOK, PutCall, Goto, PutStages, Cells, ghost
  <1>2. MutualExclusion'
    BY DEF IInv, MutualExclusion, InTailCS, InHeadCS, PutCall, Goto
  <1>3. ListIntact'
    BY <1>1, ListFrame, CarriedOutside DEF PutCall, Goto, ghost, Outside, Carries
  <1>4. SingleOwner'
    BY SpecialPointers DEF IInv, TypeOK, SingleOwner, Carries, InCall, Rotating,
       Queued, PutCall, Goto, ghost
  <1>5. LocalsCurrent'
    BY SpecialPointers, CarriedOutside DEF IInv, TypeOK, LocalsCurrent, Carries,
       ListIntact, Outside, PutCall, Goto, GetStages, Cells
  <1> QED
    BY <1>1, <1>2, <1>3, <1>4, <1>5 DEF IInv

\* Taking the tail lock changes nothing but the lock word.
LEMMA PutLockInv ==
    ASSUME IInv, NEW t \in Threads, PutLock(t)
    PROVE  IInv'
  <1>1. TypeOK'
    BY DEF IInv, TypeOK, PutLock, Goto, PutStages, ghost
  <1>2. MutualExclusion'
    BY DEF IInv, TypeOK, MutualExclusion, InTailCS, InHeadCS, PutLock, Goto
  <1>3. ListIntact'
    BY <1>1, ListFrame DEF PutLock, Goto, ghost
  <1>4. SingleOwner'
    BY DEF IInv, SingleOwner, Carries, InCall, Rotating, Queued, PutLock, Goto, ghost
  <1>5. LocalsCurrent'
    BY DEF IInv, LocalsCurrent, PutLock, Goto, PutStages, GetStages
  <1> QED
    BY <1>1, <1>2, <1>3, <1>4, <1>5 DEF IInv

\* Releasing the tail lock ends the call, or returns to queue_get with the divider linked.
LEMMA PutUnlockInv ==
    ASSUME IInv, NEW t \in Threads, PutUnlock(t)
    PROVE  IInv'
  <1>1. TypeOK'
    BY DEF IInv, TypeOK, PutUnlock, Goto, GetStages, ghost
  <1>2. MutualExclusion'
    BY DEF IInv, TypeOK, MutualExclusion, InTailCS, InHeadCS, PutUnlock, Goto
  <1>3. ListIntact'
    BY <1>1, ListFrame DEF PutUnlock, Goto, ghost
  <1>4. SingleOwner'
    BY DEF IInv, SingleOwner, Carries, InCall, Rotating, Queued, PutUnlock, Goto, ghost
  <1>5. LocalsCurrent'
    BY SpecialPointers DEF IInv, TypeOK, LocalsCurrent, PutUnlock, Goto, PutStages,
       GetStages, Cells
  <1> QED
    BY <1>1, <1>2, <1>3, <1>4, <1>5 DEF IInv

\* Entering queue_get changes nothing shared.
LEMMA GetCallInv ==
    ASSUME IInv, NEW t \in Getters, GetCall(t)
    PROVE  IInv'
  <1> t \in Threads
    BY DEF Threads
  <1>1. TypeOK'
    BY DEF IInv, TypeOK, GetCall, Goto, GetStages, ghost
  <1>2. MutualExclusion'
    BY DEF IInv, MutualExclusion, InTailCS, InHeadCS, GetCall, Goto
  <1>3. ListIntact'
    BY <1>1, ListFrame DEF GetCall, Goto, ghost
  <1>4. SingleOwner'
    BY DEF IInv, SingleOwner, Carries, InCall, Rotating, Queued, GetCall, Goto, ghost
  <1>5. LocalsCurrent'
    BY DEF IInv, LocalsCurrent, GetCall, Goto, PutStages
  <1> QED
    BY <1>1, <1>2, <1>3, <1>4, <1>5 DEF IInv

\* Taking the head lock changes nothing but the lock word.
LEMMA GetLockInv ==
    ASSUME IInv, NEW t \in Getters, GetLock(t)
    PROVE  IInv'
  <1> t \in Threads
    BY DEF Threads
  <1>1. TypeOK'
    BY DEF IInv, TypeOK, GetLock, Goto, GetStages, ghost
  <1>2. MutualExclusion'
    BY DEF IInv, TypeOK, MutualExclusion, InTailCS, InHeadCS, GetLock, Goto
  <1>3. ListIntact'
    BY <1>1, ListFrame DEF GetLock, Goto, ghost
  <1>4. SingleOwner'
    BY DEF IInv, SingleOwner, Carries, InCall, Rotating, Queued, GetLock, Goto, ghost
  <1>5. LocalsCurrent'
    BY DEF IInv, LocalsCurrent, GetLock, Goto, PutStages
  <1> QED
    BY <1>1, <1>2, <1>3, <1>4, <1>5 DEF IInv

\* What queue_get reads under the head lock is the head of the list and its successor.
LEMMA GetReadInv ==
    ASSUME IInv, NEW t \in Getters, GetRead(t)
    PROVE  IInv'
  <1> t \in Threads
    BY DEF Threads
  <1>1. TypeOK'
    <2>1. head = Cell(1) /\ next[head] \in Cells \cup {NULL}
      BY CarriedOutside DEF IInv, ListIntact
    <2> QED
      BY <2>1 DEF IInv, TypeOK, GetRead, Goto, GetStages, ghost
  <1>2. MutualExclusion'
    BY DEF IInv, MutualExclusion, InTailCS, InHeadCS, GetRead, Goto
  <1>3. ListIntact'
    BY <1>1, ListFrame DEF GetRead, Goto, ghost
  <1>4. SingleOwner'
    BY DEF IInv, SingleOwner, Carries, InCall, Rotating, Queued, GetRead, Goto, ghost
  <1>5. LocalsCurrent'
    BY DEF IInv, TypeOK, LocalsCurrent, GetRead, Goto, PutStages
  <1> QED
    BY <1>1, <1>2, <1>3, <1>4, <1>5 DEF IInv

\* Returning NULL releases the head lock.
LEMMA GetNullInv ==
    ASSUME IInv, NEW t \in Getters, GetNull(t)
    PROVE  IInv'
  <1> t \in Threads
    BY DEF Threads
  <1>1. TypeOK'
    BY DEF IInv, TypeOK, GetNull, Goto, ghost
  <1>2. MutualExclusion'
    BY DEF IInv, TypeOK, MutualExclusion, InTailCS, InHeadCS, GetNull, Goto
  <1>3. ListIntact'
    BY ListFrame DEF IInv, TypeOK, GetNull, Goto, ghost
  <1>4. SingleOwner'
    BY DEF IInv, SingleOwner, Carries, InCall, Rotating, Queued, GetNull, Goto, ghost
  <1>5. LocalsCurrent'
    BY DEF IInv, LocalsCurrent, GetNull, Goto, PutStages
  <1> QED
    BY <1>1, <1>2, <1>3, <1>4, <1>5 DEF IInv

\* Releasing the head lock leaves the popped cell with its thread.
LEMMA GetUnlockInv ==
    ASSUME IInv, NEW t \in Getters, GetUnlock(t)
    PROVE  IInv'
  <1> t \in Threads
    BY DEF Threads
  <1>1. TypeOK'
    BY DEF IInv, TypeOK, GetUnlock, Goto, GetStages, ghost
  <1>2. MutualExclusion'
    BY DEF IInv, TypeOK, MutualExclusion, InTailCS, InHeadCS, GetUnlock, Goto
  <1>3. ListIntact'
    BY <1>1, ListFrame DEF GetUnlock, Goto, ghost
  <1>4. SingleOwner'
    BY DEF IInv, SingleOwner, Carries, InCall, Rotating, Queued, GetUnlock, Goto, ghost
  <1>5. LocalsCurrent'
    BY DEF IInv, LocalsCurrent, GetUnlock, Goto, PutStages
  <1> QED
    BY <1>1, <1>2, <1>3, <1>4, <1>5 DEF IInv

\* queue_get clears the next pointer of the divider it popped, which is outside the list.
LEMMA GetDividerInv ==
    ASSUME IInv, NEW t \in Getters, GetDivider(t)
    PROVE  IInv'
  <1> t \in Threads
    BY DEF Threads
  <1>1. TypeOK'
    BY DEF IInv, TypeOK, GetDivider, Goto, PutStages, ghost
  <1>2. MutualExclusion'
    BY DEF IInv, MutualExclusion, InTailCS, InHeadCS, GetDivider, Goto
  <1>3. ListIntact'
    BY <1>1, ListFrame, CarriedOutside DEF GetDivider, Goto, ghost, Outside
  <1>4. SingleOwner'
    BY DEF IInv, TypeOK, SingleOwner, Carries, InCall, Rotating, Queued, GetDivider,
       Goto, ghost
  <1>5. LocalsCurrent'
    BY CarriedOutside DEF IInv, TypeOK, LocalsCurrent, ListIntact, Outside, GetDivider,
       Goto
  <1> QED
    BY <1>1, <1>2, <1>3, <1>4, <1>5 DEF IInv

\* queue_get poisons and hands over a node that is outside the list.
LEMMA GetReturnInv ==
    ASSUME IInv, NEW t \in Getters, GetReturn(t)
    PROVE  IInv'
  <1> t \in Threads
    BY DEF Threads
  <1>1. TypeOK'
    BY DEF IInv, TypeOK, GetReturn, Goto, Cells, ghost, LocalsCurrent
  <1>2. MutualExclusion'
    BY DEF IInv, MutualExclusion, InTailCS, InHeadCS, GetReturn, Goto
  <1>3. ListIntact'
    BY <1>1, ListFrame, CarriedOutside DEF GetReturn, Goto, ghost, Outside
  <1>4. SingleOwner'
    <2>1. cur[t] \in Nodes /\ InCall(t, cur[t])
      BY DEF IInv, TypeOK, LocalsCurrent, InCall, GetReturn, Cells
    <2>2. \A s \in Threads : Rotating(s)' <=> Rotating(s)
      BY DEF IInv, TypeOK, Rotating, GetReturn, Goto
    <2>3. \A n \in Nodes, s \in Threads : InCall(s, n)' <=> InCall(s, n) /\ ~(s = t /\ n = cur[t])
      BY DEF IInv, TypeOK, InCall, GetReturn, Goto
    <2>4. \A n \in Nodes, s \in Threads : n \in hand'[s] <=> n \in hand[s] \/ (s = t /\ n = cur[t])
      BY DEF IInv, TypeOK, GetReturn
    <2>5. \A n \in Nodes, s \in Threads : Carries(s, n)' <=> Carries(s, n)
      BY <2>1, <2>3, <2>4 DEF Carries
    <2>6. UNCHANGED <<q, dpos>>
      BY DEF GetReturn, ghost
    <2>7. \A n \in Nodes, s \in Threads : ~(n \in hand[s] /\ InCall(s, n))'
      BY <2>3, <2>4 DEF IInv, SingleOwner
    <2> QED
      BY <2>2, <2>5, <2>6, <2>7 DEF IInv, SingleOwner, Queued
  <1>5. LocalsCurrent'
    BY CarriedOutside DEF IInv, TypeOK, LocalsCurrent, SingleOwner, Carries, InCall,
       ListIntact, Outside, GetReturn, Goto, PutStages, Cells
  <1> QED
    BY <1>1, <1>2, <1>3, <1>4, <1>5 DEF IInv

\* Storing root->tail makes it the last cell again.
LEMMA PutSwingInv ==
    ASSUME IInv, NEW t \in Threads, PutSwing(t)
    PROVE  IInv'
  <1>1. TypeOK'
    BY DEF IInv, TypeOK, LocalsCurrent, PutSwing, Goto, PutStages, ghost
  <1>2. MutualExclusion'
    BY DEF IInv, MutualExclusion, InTailCS, InHeadCS, PutSwing, Goto
  <1>3. ListIntact'
    <2>1. ListLen' = ListLen /\ \A i : Cell(i)' = Cell(i)
      BY DEF ListLen, Cell, PutSwing, ghost
    <2> QED
      BY <2>1 DEF IInv, ListIntact, PutSwing, Goto
  <1>4. SingleOwner'
    BY DEF IInv, SingleOwner, Carries, InCall, Rotating, Queued, PutSwing, Goto, ghost
  <1>5. LocalsCurrent'
    BY DEF IInv, LocalsCurrent, PutSwing, Goto, PutStages, GetStages
  <1> QED
    BY <1>1, <1>2, <1>3, <1>4, <1>5 DEF IInv

\* queue_put links its cell behind the last one: the list grows by that cell.
LEMMA PutLinkInv ==
    ASSUME IInv, NEW t \in Threads, PutLink(t)
    PROVE  IInv'
  <1>1. TypeOK'
    <2>2. new[t] \in Cells
      BY DEF IInv, LocalsCurrent, PutLink, PutStages
    <2>1. q' \in Seq(Nodes) /\ dpos' \in 0 .. Len(q') + 1
      <3>1. CASE new[t] = Divider
        BY <3>1 DEF IInv, TypeOK, PutLink
      <3>2. CASE new[t] # Divider
        <4>1. new[t] \in Nodes /\ q' = Append(q, new[t]) /\ dpos' = dpos
          BY <2>2, <3>2 DEF PutLink, Cells
        <4> QED
          BY <4>1 DEF IInv, TypeOK
      <3> QED
        BY <3>1, <3>2
    <2> QED
      BY <2>1, <2>2 DEF IInv, TypeOK, PutLink, Goto, PutStages
  <1>2. MutualExclusion'
    BY DEF IInv, TypeOK, MutualExclusion, InTailCS, InHeadCS, PutLink, Goto
  <1>3. /\ tail = Cell(ListLen) /\ Outside(new[t])
        /\ new[t] \in Cells /\ next[new[t]] = NULL /\ new[t] # tail
    BY CarriedOutside DEF IInv, ListIntact, MutualExclusion, InTailCS, LocalsCurrent,
       PutLink, PutStages, Outside
  <1>4. new[t] = Divider => dpos = 0
    BY DEF IInv, SingleOwner, Rotating, PutLink
  <1>5. /\ ListLen' = ListLen + 1
        /\ \A i \in 1 .. ListLen : CellOf(q', dpos', i) = Cell(i)
        /\ CellOf(q', dpos', ListLen + 1) = new[t]
    <2>1. CASE new[t] = Divider
      BY <1>4, <2>1, LinkDivider DEF IInv, TypeOK, PutLink, ListLen, Cell
    <2>2. CASE new[t] # Divider
      <3>1. new[t] \in Nodes /\ q' = Append(q, new[t]) /\ dpos' = dpos
        BY <1>3, <2>2 DEF PutLink, Cells
      <3>2. q \in Seq(Nodes) /\ dpos \in 0 .. Len(q) + 1
        BY DEF IInv, TypeOK
      <3> QED
        BY <3>1, <3>2, LinkNode DEF ListLen, Cell
    <2> QED
      BY <2>1, <2>2
  <1>6. next' = [next EXCEPT ![tail] = new[t]] /\ UNCHANGED <<head, new>>
    BY DEF PutLink
  <1>7. ListIntact'
    <2>1. \A i \in 1 .. ListLen : next'[Cell(i)] = IF i = ListLen THEN new[t] ELSE next[Cell(i)]
      BY <1>3, <1>6, CarriedOutside DEF IInv, TypeOK
    <2>2. next'[new[t]] = NULL
      BY <1>3, <1>6 DEF IInv, TypeOK
    <2>3. \A i \in 1 .. ListLen : next'[CellOf(q', dpos', i)] = CellOf(q', dpos', i + 1)
      BY <1>5, <2>1, CarriedOutside DEF IInv, ListIntact
    <2>5. head' = CellOf(q', dpos', 1)
      BY <1>5, <1>6, CarriedOutside DEF IInv, ListIntact
    <2>4. \A s \in Threads : pc'[s] = "put_swing" <=> s = t
      BY DEF IInv, TypeOK, MutualExclusion, InTailCS, PutLink, Goto
    <2> QED
      BY <1>5, <1>6, <2>2, <2>3, <2>4, <2>5, CarriedOutside DEF ListIntact, Cell
  <1>8. SingleOwner'
    <2>1. CASE new[t] = Divider
      <3>1. dpos = 0 /\ dpos' # 0 /\ q' = q
        BY <1>4, <2>1 DEF IInv, TypeOK, PutLink
      <3>2. \A n \in Nodes, s \in Threads :
              (InCall(s, n)' <=> InCall(s, n)) /\ hand'[s] = hand[s]
        BY <2>1, SpecialPointers DEF IInv, TypeOK, InCall, PutLink, Goto
      <3>3. Rotating(t) /\ ~Rotating(t)' /\ \A s \in Threads \ {t} : Rotating(s)' <=> Rotating(s)
        BY <2>1 DEF IInv, TypeOK, Rotating, PutLink, Goto
      <3> QED
        BY <3>1, <3>2, <3>3 DEF IInv, SingleOwner, Carries, Queued
    <2>2. CASE new[t] # Divider
      <3>1. new[t] \in Nodes /\ q' = Append(q, new[t]) /\ dpos' = dpos
        BY <1>3, <2>2 DEF PutLink, Cells
      <3>2. ~Queued(new[t]) /\ \A n \in Nodes : Queued(n)' <=> Queued(n) \/ n = new[t]
        BY <3>1 DEF IInv, TypeOK, SingleOwner, Carries, InCall, Queued, PutLink
      <3>3. \A i, j \in 1 .. Len(q') : q'[i] = q'[j] => i = j
        <4>1. /\ Len(q') = Len(q) + 1 /\ q'[Len(q) + 1] = new[t]
              /\ \A i \in 1 .. Len(q) : q'[i] = q[i]
          BY <3>1 DEF IInv, TypeOK
        <4> QED
          BY <3>2, <4>1 DEF IInv, TypeOK, SingleOwner, Queued
      <3>4. \A n \in Nodes, s \in Threads : Carries(s, n)' => Carries(s, n) /\ n # new[t]
        <4>1. TAKE n \in Nodes, s \in Threads
        <4>2. Carries(t, new[t])
          BY DEF Carries, InCall, PutLink
        <4>3. Carries(s, n)' => Carries(s, n) /\ (s = t => n \in hand[t])
          BY DEF IInv, TypeOK, Carries, InCall, PutLink, Goto
        <4>4. new[t] \notin hand[t]
          BY <3>1 DEF IInv, SingleOwner, InCall, PutLink
        <4> QED
          BY <3>1, <4>2, <4>3, <4>4 DEF IInv, SingleOwner
      <3>6. \A n \in Nodes, s \in Threads : ~(n \in hand[s] /\ InCall(s, n))'
        BY DEF IInv, TypeOK, SingleOwner, InCall, PutLink, Goto
      <3>5. \A s \in Threads : Rotating(s)' <=> Rotating(s)
        BY <3>1, SpecialPointers DEF IInv, TypeOK, Rotating, PutLink, Goto
      <3> QED
        BY <3>1, <3>2, <3>3, <3>4, <3>5, <3>6 DEF IInv, SingleOwner
    <2> QED
      BY <2>1, <2>2
  <1>9. LocalsCurrent'
    <2>1. ASSUME NEW s \in Threads, pc'[s] \in {"put_lock", "put_link"}
          PROVE  next'[new'[s]] = NULL
      BY <1>3, <1>6, <2>1, CarriedOutside DEF IInv, TypeOK, LocalsCurrent, PutLink, Goto, Outside, PutStages
    <2>2. ASSUME NEW s \in Threads, pc'[s] = "get_swing"
          PROVE  cur'[s] = head' /\ succ'[s] = next'[head'] /\ succ'[s] # NULL
      BY <1>3, <1>6, <2>2, CarriedOutside DEF IInv, TypeOK, LocalsCurrent, PutLink, Goto, ListIntact
    <2> QED
      BY <2>1, <2>2 DEF IInv, TypeOK, LocalsCurrent, PutLink, Goto, PutStages, GetStages
  <1> QED
    BY <1>1, <1>2, <1>7, <1>8, <1>9 DEF IInv

\* queue_get moves root->head past the first cell: the list loses that cell.
LEMMA GetSwingInv ==
    ASSUME IInv, NEW t \in Getters, GetSwing(t)
    PROVE  IInv'
  <1>t. t \in Threads
    BY DEF Threads
  <1>1. /\ cur[t] = Cell(1) /\ ListLen >= 2 /\ succ[t] = Cell(2) /\ ListLen \in Nat
        /\ cur[t] \in Cells /\ succ[t] \in Cells
    BY <1>t, CarriedOutside DEF IInv, LocalsCurrent, ListIntact, GetSwing
  <1>2. cur[t] = Divider <=> dpos = 1
    BY <1>1, CarriedOutside
  <1>3. cur[t] # Divider => q # <<>> /\ cur[t] = q[1] /\ q[1] = Head(q)
    BY <1>1, <1>2, CarriedOutside DEF IInv, TypeOK, ListLen, Cell, LenOf, CellOf
  <1>4. /\ q' \in Seq(Nodes) /\ dpos' \in 0 .. Len(q') + 1
        /\ ListLen' = ListLen - 1
        /\ \A i \in 1 .. ListLen - 1 : Cell(i)' = Cell(i + 1)
    <2>1. CASE cur[t] = Divider
      BY <1>2, <2>1, PopDivider DEF IInv, TypeOK, GetSwing, ListLen, Cell
    <2>2. CASE cur[t] # Divider
      <3>1. q \in Seq(Nodes) /\ dpos \in 0 .. Len(q) + 1 /\ q # <<>> /\ dpos # 1
        BY <1>2, <1>3, <2>2 DEF IInv, TypeOK
      <3>2. q' = Tail(q) /\ dpos' = IF dpos = 0 THEN 0 ELSE dpos - 1
        BY <2>2 DEF GetSwing
      <3> QED
        BY <3>1, <3>2, PopNode DEF ListLen, Cell
    <2> QED
      BY <2>1, <2>2
  <1>5. TypeOK'
    BY <1>1, <1>4 DEF IInv, TypeOK, GetSwing, Goto, PutStages, GetStages
  <1>6. MutualExclusion'
    BY <1>t DEF IInv, TypeOK, MutualExclusion, InTailCS, InHeadCS, GetSwing, Goto
  <1>7. ListIntact'
    <2>1. UNCHANGED <<next, tail, new>> /\ head' = succ[t]
      BY DEF GetSwing
    <2>2. \A s \in Threads : pc'[s] = "put_swing" <=> pc[s] = "put_swing"
      BY <1>t DEF IInv, TypeOK, GetSwing, Goto
    <2> QED
      BY <1>1, <1>4, <2>1, <2>2 DEF IInv, ListIntact
  <1>8. SingleOwner'
    <2>1. CASE cur[t] = Divider
      <3>1. dpos = 1 /\ dpos' = 0 /\ q' = q
        BY <1>2, <2>1 DEF GetSwing
      <3>2. \A n \in Nodes, s \in Threads :
              (InCall(s, n)' <=> InCall(s, n)) /\ hand'[s] = hand[s]
        BY <1>t, <2>1, SpecialPointers DEF IInv, TypeOK, InCall, GetSwing, Goto
      <3>3. Rotating(t)' /\ \A s \in Threads \ {t} : Rotating(s)' <=> Rotating(s)
        BY <1>t, <2>1 DEF IInv, TypeOK, Rotating, GetSwing, Goto
      <3> QED
        BY <1>t, <3>1, <3>2, <3>3 DEF IInv, SingleOwner, Carries, Queued
    <2>2. CASE cur[t] # Divider
      <3>1. cur[t] \in Nodes /\ q' = Tail(q) /\ q # <<>> /\ cur[t] = q[1] /\ (dpos' = 0 <=> dpos = 0)
        BY <1>1, <1>2, <1>3, <2>2 DEF IInv, TypeOK, GetSwing, Cells
      <3>2. Queued(cur[t]) /\ \A n \in Nodes : Queued(n)' <=> Queued(n) /\ n # cur[t]
        <4>1. Len(q') = Len(q) - 1 /\ \A i \in 1 .. Len(q') : q'[i] = q[i + 1]
          BY <3>1 DEF IInv, TypeOK
        <4>2. \A i \in 1 .. Len(q) : i # 1 => q[i] # cur[t]
          BY <3>1 DEF IInv, TypeOK, SingleOwner
        <4>3. \A i \in 1 .. Len(q) : i # 1 => i - 1 \in 1 .. Len(q') /\ q'[i - 1] = q[i]
          BY <4>1 DEF IInv, TypeOK
        <4>4. Len(q) \in Nat /\ Len(q) >= 1
          BY <3>1 DEF IInv, TypeOK
        <4>5. ASSUME NEW n \in Nodes, Queued(n)' PROVE Queued(n) /\ n # cur[t]
          BY <4>1, <4>2, <4>4, <4>5 DEF Queued
        <4>6. ASSUME NEW n \in Nodes, Queued(n), n # cur[t] PROVE Queued(n)'
          BY <3>1, <4>3, <4>6 DEF Queued
        <4>7. Queued(cur[t])
          BY <3>1, <4>4 DEF Queued
        <4> QED
          BY <4>5, <4>6, <4>7
      <3>3. \A i, j \in 1 .. Len(q') : q'[i] = q'[j] => i = j
        BY <3>1 DEF IInv, TypeOK, SingleOwner
      <3>4. \A n \in Nodes, s \in Threads : Carries(s, n)' <=> Carries(s, n) \/ (s = t /\ n = cur[t])
        BY <1>t, <3>1 DEF IInv, TypeOK, Carries, InCall, GetSwing, Goto
      <3>6. \A n \in Nodes, s \in Threads : ~(n \in hand[s] /\ InCall(s, n))'
        BY <1>t, <3>1, <3>2 DEF IInv, TypeOK, SingleOwner, Carries, InCall, GetSwing, Goto
      <3>5. \A s \in Threads : Rotating(s)' <=> Rotating(s)
        BY <1>t, <2>2 DEF IInv, TypeOK, Rotating, GetSwing, Goto
      <3> QED
        BY <3>1, <3>2, <3>3, <3>4, <3>5, <3>6 DEF IInv, SingleOwner
    <2> QED
      BY <2>1, <2>2
  <1>9. LocalsCurrent'
    BY <1>t, <1>1 DEF IInv, TypeOK, LocalsCurrent, MutualExclusion, InHeadCS, GetSwing, Goto, PutStages, GetStages
  <1> QED
    BY <1>5, <1>6, <1>7, <1>8, <1>9 DEF IInv

----------------------------------------------------------------------------
\* Every step of every thread preserves the invariant.
LEMMA NextInvariant == IInv /\ [Next]_vars => IInv'
  <1> SUFFICES ASSUME IInv, [Next]_vars PROVE IInv'
    OBVIOUS
  <1>1. ASSUME NEW t \in Putters, NEW n \in Nodes, PutCall(t, n) PROVE IInv'
    BY <1>1, PutCallInv
  <1>2. ASSUME NEW t \in Threads, PutStep(t) PROVE IInv'
    BY <1>2, PutLockInv, PutLinkInv, PutSwingInv, PutUnlockInv DEF PutStep
  <1>3. ASSUME NEW t \in Getters, GetCall(t) \/ GetStep(t) PROVE IInv'
    BY <1>3, GetCallInv, GetLockInv, GetReadInv, GetNullInv, GetSwingInv, GetUnlockInv,
       GetDividerInv, GetReturnInv DEF GetStep
  <1>4. CASE UNCHANGED vars
    BY <1>4 DEF vars, IInv, TypeOK, MutualExclusion, InTailCS, InHeadCS, ListIntact, ListLen,
       Cell, LenOf, CellOf, SingleOwner, Carries, InCall, Rotating, Queued, LocalsCurrent
  <1> QED
    BY <1>1, <1>2, <1>3, <1>4 DEF Next

(***************************************************************************)
(* Whatever calls of queue_put and queue_get overlap, the locks exclude,   *)
(* the memory holds a well-formed list and every node has one owner.       *)
(***************************************************************************)
THEOREM QueueInvariant == Spec => []IInv
  BY InitInvariant, NextInvariant, PTL DEF Spec

(***************************************************************************)
(* lock() and unlock() give each end of the queue to one thread at a time. *)
(***************************************************************************)
THEOREM QueueMutualExclusion == Spec => []MutualExclusion
  BY QueueInvariant, PTL DEF IInv

(***************************************************************************)
(* root->head, the next pointers and root->tail form the list of queued    *)
(* nodes at every instant, also between the two stores of a queue_put and  *)
(* while a queue_get has the divider out of the list.                      *)
(***************************************************************************)
THEOREM QueueListIntact == Spec => []ListIntact
  BY QueueInvariant, PTL DEF IInv

(***************************************************************************)
(* No two calls of queue_get return the same node, and no node is in the   *)
(* list while a thread owns it.                                            *)
(***************************************************************************)
THEOREM QueueSingleOwner == Spec => []SingleOwner
  BY QueueInvariant, PTL DEF IInv

(***************************************************************************)
(* Pointers, lock words and locals hold what their C types allow: queue.h  *)
(* stores a node, the divider, NULL or POISON, never anything else.        *)
(***************************************************************************)
THEOREM QueueTypeOK == Spec => []TypeOK
  BY QueueInvariant, PTL DEF IInv

(***************************************************************************)
(* What a call read or prepared holds until it stores: the node queue_put  *)
(* links still ends in NULL, and root->head and its successor are those    *)
(* queue_get read until it has stored the new head.                        *)
(***************************************************************************)
THEOREM QueueLocalsCurrent == Spec => []LocalsCurrent
  BY QueueInvariant, PTL DEF IInv

----------------------------------------------------------------------------
\* The refinement: every step of the queue is a step of Fifo or leaves its
\* variables alone.

Stages == [t \in Threads |-> StageOf(t)]
Items  == [t \in Threads |-> ItemOf(t)]

\* A step of t changes the abstract stage and item of no other thread.
LEMMA StageFrame ==
    ASSUME IInv, NEW t \in Threads, NEW st, NEW it,
           \A s \in Threads \ {t} : pc'[s] = pc[s] /\ new'[s] = new[s] /\ cur'[s] = cur[s],
           StageOf(t)' = st, ItemOf(t)' = it
    PROVE  /\ Stages' = [Stages EXCEPT ![t] = st]
           /\ Items' = [Items EXCEPT ![t] = it]
  <1>1. \A s \in Threads \ {t} : StageOf(s)' = StageOf(s) /\ ItemOf(s)' = ItemOf(s)
    BY DEF StageOf, ItemOf
  <1> QED
    BY <1>1 DEF Stages, Items

\* Steps inside a call that the caller cannot see.
LEMMA StepSilent ==
    ASSUME IInv, NEW t \in Threads,
           \/ PutLock(t) \/ PutSwing(t) \/ (PutUnlock(t) /\ new[t] = Divider)
           \/ (PutLink(t) /\ new[t] = Divider)
           \/ GetLock(t) \/ (GetRead(t) /\ next[head] # NULL)
           \/ (GetSwing(t) /\ cur[t] = Divider)
           \/ GetUnlock(t) \/ GetDivider(t)
    PROVE  UNCHANGED <<q, hand, Stages, Items>>
  <1>1. StageOf(t)' = StageOf(t) /\ ItemOf(t)' = ItemOf(t)
    BY SpecialPointers DEF IInv, TypeOK, LocalsCurrent, PutLock, PutSwing, PutUnlock, PutLink, GetLock, GetRead,
       GetSwing, GetUnlock, GetDivider, Goto, StageOf, ItemOf, PutStages, GetStages, Cells
  <1>2. \A s \in Threads \ {t} : pc'[s] = pc[s] /\ new'[s] = new[s] /\ cur'[s] = cur[s]
    BY DEF IInv, TypeOK, PutLock, PutSwing, PutUnlock, PutLink, GetLock, GetRead,
       GetSwing, GetUnlock, GetDivider, Goto
  <1>3. UNCHANGED <<q, hand>>
    BY DEF PutLock, PutSwing, PutUnlock, PutLink, GetLock, GetRead,
       GetSwing, GetUnlock, GetDivider, ghost
  <1>4. \A s \in Threads : StageOf(s)' = StageOf(s) /\ ItemOf(s)' = ItemOf(s)
    BY <1>1, <1>2 DEF StageOf, ItemOf
  <1> QED
    BY <1>3, <1>4 DEF Stages, Items

\* queue_put begins.
LEMMA PutCallStep ==
    ASSUME IInv, NEW t \in Putters, NEW n \in Nodes, PutCall(t, n)
    PROVE  Abstract!PutCall(t, n)
  <1>t. t \in Threads
    BY DEF Threads
  <1>1. StageOf(t) = "idle" /\ StageOf(t)' = "put" /\ ItemOf(t)' = n
    BY <1>t, SpecialPointers DEF IInv, TypeOK, PutCall, Goto, StageOf, ItemOf
  <1>2. \A s \in Threads \ {t} : pc'[s] = pc[s] /\ new'[s] = new[s] /\ cur'[s] = cur[s]
    BY DEF IInv, TypeOK, PutCall, Goto
  <1> QED
    BY <1>t, <1>1, <1>2, StageFrame DEF PutCall, ghost, Abstract!PutCall, Stages, Items

\* queue_put takes effect when it links the node.
LEMMA PutLinkStep ==
    ASSUME IInv, NEW t \in Threads, PutLink(t), new[t] # Divider
    PROVE  Abstract!PutDo(t)
  <1>1. StageOf(t) = "put" /\ ItemOf(t) = new[t] /\ StageOf(t)' = "done" /\ ItemOf(t)' = NULL
    BY DEF IInv, TypeOK, PutLink, Goto, StageOf, ItemOf
  <1>2. \A s \in Threads \ {t} : pc'[s] = pc[s] /\ new'[s] = new[s] /\ cur'[s] = cur[s]
    BY DEF IInv, TypeOK, PutLink, Goto
  <1> QED
    BY <1>1, <1>2, StageFrame DEF PutLink, Abstract!PutDo, Stages, Items

\* queue_get begins.
LEMMA GetCallStep ==
    ASSUME IInv, NEW t \in Getters, GetCall(t)
    PROVE  Abstract!GetCall(t)
  <1>t. t \in Threads
    BY DEF Threads
  <1>1. StageOf(t) = "idle" /\ ItemOf(t) = NULL /\ StageOf(t)' = "get" /\ ItemOf(t)' = NULL
    BY <1>t DEF IInv, TypeOK, GetCall, Goto, StageOf, ItemOf
  <1>2. \A s \in Threads \ {t} : pc'[s] = pc[s] /\ new'[s] = new[s] /\ cur'[s] = cur[s]
    BY DEF IInv, TypeOK, GetCall, Goto
  <1>3. Stages' = [Stages EXCEPT ![t] = "get"] /\ Items' = [Items EXCEPT ![t] = NULL]
    BY <1>t, <1>1, <1>2, StageFrame
  <1>4. Items' = Items
    BY <1>t, <1>1, <1>3 DEF Items
  <1> QED
    BY <1>t, <1>1, <1>3, <1>4 DEF GetCall, ghost, Abstract!GetCall, Stages, Items

\* queue_get takes effect when it moves root->head: what it will return is the
\* oldest node.
LEMMA GetSwingStep ==
    ASSUME IInv, NEW t \in Getters, GetSwing(t), cur[t] # Divider
    PROVE  Abstract!GetDo(t)
  <1>t. t \in Threads
    BY DEF Threads
  <1>1. q # <<>> /\ cur[t] = Head(q)
    <2>1. cur[t] = Cell(1) /\ ListLen \in Nat /\ ListLen >= 1
      BY <1>t, CarriedOutside DEF IInv, LocalsCurrent, ListIntact, GetSwing
    <2> QED
      BY <2>1, CarriedOutside DEF IInv, TypeOK, ListLen, Cell, LenOf, CellOf
  <1>2. StageOf(t) = "get" /\ StageOf(t)' = "got" /\ ItemOf(t)' = cur[t]
    BY <1>t DEF IInv, TypeOK, GetSwing, Goto, StageOf, ItemOf
  <1>3. \A s \in Threads \ {t} : pc'[s] = pc[s] /\ new'[s] = new[s] /\ cur'[s] = cur[s]
    BY DEF IInv, TypeOK, GetSwing, Goto
  <1> QED
    BY <1>t, <1>1, <1>2, <1>3, StageFrame DEF GetSwing, Abstract!GetDo, Stages, Items

\* queue_get decides to return NULL only when the list is one cell long: the
\* queue is empty, or that cell is its last node and another call has the divider.
LEMMA GetReadStep ==
    ASSUME IInv, NEW t \in Getters, GetRead(t), next[head] = NULL
    PROVE  Abstract!GetNull(t)
  <1>t. t \in Threads
    BY DEF Threads
  <1>1. ListLen = 1
    BY CarriedOutside, SpecialPointers DEF IInv, ListIntact
  <1>2. q = <<>> \/ (Len(q) = 1 /\ dpos = 0)
    BY <1>1 DEF IInv, TypeOK, ListLen, LenOf
  <1>3. dpos = 0 => \E s \in Getters \ {t} : StageOf(s) = "get"
    <2>1. ASSUME NEW s \in Threads, Rotating(s)
          PROVE  s \in Getters \ {t} /\ StageOf(s) = "get"
      BY <1>t, <2>1 DEF IInv, LocalsCurrent, Rotating, StageOf, GetRead, GetStages
    <2> QED
      BY <2>1 DEF IInv, SingleOwner
  <1>4. Abstract!MayMiss(t)
    BY <1>2, <1>3 DEF Abstract!MayMiss, Threads
  <1>5. StageOf(t) = "get" /\ ItemOf(t) = NULL /\ StageOf(t)' = "null" /\ ItemOf(t)' = NULL
    BY <1>t DEF IInv, TypeOK, GetRead, Goto, StageOf, ItemOf
  <1>6. \A s \in Threads \ {t} : pc'[s] = pc[s] /\ new'[s] = new[s] /\ cur'[s] = cur[s]
    BY DEF IInv, TypeOK, GetRead, Goto
  <1>7. Stages' = [Stages EXCEPT ![t] = "null"] /\ Items' = [Items EXCEPT ![t] = NULL]
    BY <1>t, <1>5, <1>6, StageFrame
  <1>8. Items' = Items
    BY <1>t, <1>5, <1>7 DEF Items
  <1>9. UNCHANGED <<q, hand>>
    BY DEF GetRead, ghost
  <1> QED
    BY <1>t, <1>4, <1>5, <1>7, <1>8, <1>9 DEF Abstract!GetNull, Stages, Items

\* A call returns: a queue_put that linked its node, or a queue_get with a node or NULL.
LEMMA ReturnStep ==
    ASSUME IInv, NEW t \in Threads,
           (PutUnlock(t) /\ new[t] # Divider) \/ GetNull(t) \/ GetReturn(t)
    PROVE  Abstract!Return(t)
  <1>1. /\ StageOf(t) \in {"done", "null", "got"} /\ StageOf(t)' = "idle" /\ ItemOf(t)' = NULL
        /\ hand' = [hand EXCEPT ![t] = IF StageOf(t) = "got" THEN @ \cup {ItemOf(t)} ELSE @]
    BY DEF IInv, TypeOK, PutUnlock, GetNull, GetReturn, Goto, StageOf, ItemOf
  <1>2. \A s \in Threads \ {t} : pc'[s] = pc[s] /\ new'[s] = new[s] /\ cur'[s] = cur[s]
    BY DEF IInv, TypeOK, PutUnlock, GetNull, GetReturn, Goto
  <1>3. UNCHANGED q
    BY DEF PutUnlock, GetNull, GetReturn, ghost
  <1> QED
    BY <1>1, <1>2, <1>3, StageFrame DEF Abstract!Return, Stages, Items

\* The empty list is the empty queue.
LEMMA InitRefines == Init => Abstract!Init
  BY DEF Init, Abstract!Init, Threads, Abstract!Threads, StageOf, ItemOf

\* Every step of the list is a step of the Fifo or invisible to it.
LEMMA StepRefines == IInv /\ [Next]_vars => [Abstract!Next]_(Abstract!vars)
  <1> SUFFICES ASSUME IInv, [Next]_vars PROVE [Abstract!Next]_(Abstract!vars)
    OBVIOUS
  <1>1. Abstract!Threads = Threads
    BY DEF Threads, Abstract!Threads
  <1>2. UNCHANGED <<q, hand, Stages, Items>> => UNCHANGED Abstract!vars
    BY DEF Abstract!vars, Stages, Items
  <1>3. ASSUME NEW t \in Putters, NEW n \in Nodes, PutCall(t, n) PROVE Abstract!Next
    BY <1>3, PutCallStep DEF Abstract!Next
  <1>4. ASSUME NEW t \in Threads, PutStep(t) PROVE [Abstract!Next]_(Abstract!vars)
    <2>1. CASE PutLink(t) /\ new[t] # Divider
      <3>1. t \in Putters
        BY <2>1 DEF IInv, LocalsCurrent, PutLink, PutStages
      <3> QED
        BY <2>1, <3>1, PutLinkStep DEF Abstract!Next
    <2>2. CASE PutUnlock(t) /\ new[t] # Divider
      BY <1>1, <2>2, ReturnStep DEF Abstract!Next
    <2> QED
      BY <1>2, <1>4, <2>1, <2>2, StepSilent DEF PutStep
  <1>5. ASSUME NEW t \in Getters, GetCall(t) \/ GetStep(t) PROVE [Abstract!Next]_(Abstract!vars)
    <2>t. t \in Threads
      BY DEF Threads
    <2>1. CASE GetCall(t)
      BY <2>1, GetCallStep DEF Abstract!Next
    <2>2. CASE GetSwing(t) /\ cur[t] # Divider
      BY <2>2, GetSwingStep DEF Abstract!Next
    <2>3. CASE GetRead(t) /\ next[head] = NULL
      BY <2>3, GetReadStep DEF Abstract!Next
    <2>4. CASE GetNull(t) \/ GetReturn(t)
      BY <1>1, <2>t, <2>4, ReturnStep DEF Abstract!Next
    <2> QED
      BY <1>2, <1>5, <2>t, <2>1, <2>2, <2>3, <2>4, StepSilent DEF GetStep
  <1>6. CASE UNCHANGED vars
    BY <1>6 DEF vars, Abstract!vars, StageOf, ItemOf
  <1> QED
    BY <1>3, <1>4, <1>5, <1>6 DEF Next

(***************************************************************************)
(* queue_put and queue_get implement Fifo: each takes effect atomically,   *)
(* in order, and queue_get returns NULL only from an empty queue or, with  *)
(* one node left, when another queue_get overlaps.                         *)
(***************************************************************************)
THEOREM QueueRefinesFifo == Spec => ImplementsFifo
  BY QueueInvariant, InitRefines, StepRefines, PTL DEF Spec, ImplementsFifo, Abstract!Spec
============================================================================
