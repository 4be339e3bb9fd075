-------------------------- MODULE QueueModel_proofs --------------------------
(***************************************************************************)
(* The playback queue on its own: the cursor is in the list, the order     *)
(* covers it, edits keep the current entry, the preload predicts next(), a *)
(* shuffled pass plays everything and the history names what was left,     *)
(* whatever the operations and however long the queue.                     *)
(***************************************************************************)
EXTENDS QueueModel, Queue_proofs, FiniteSetTheorems

(***************************************************************************)
(* The invariant holds initially and every operation keeps it.             *)
(***************************************************************************)
Inv == QueueOK(queue)

(* The lists a user starts are sequences of entries. *)
LEMMA BatchesAreSequences ==
  ASSUME NEW q, NEW n \in Int, NEW s \in Batches(q, n)
  PROVE  s \in Seq(Entries)
<1>1. s \in [1..n -> Entries]
  BY DEF Batches, Absent
<1>2. CASE n \in Nat
  BY <1>1, <1>2, SeqDef
<1>3. CASE n \notin Nat
  <2>1. s \in [1..0 -> Entries]
    BY <1>1, <1>3
  <2> QED
    BY <2>1, SeqDef
<1> QED
  BY <1>2, <1>3

(* QueueModel::new satisfies the invariant. *)
LEMMA InitOK == Init => Inv
  BY EmptyOK DEF Init, Inv

(* Every operation keeps the invariant, one case per action. *)
LEMMA StepOK == Inv /\ [Next]_vars => Inv'
<1> SUFFICES ASSUME Inv, [Next]_vars PROVE Inv'
  OBVIOUS
<1> USE DEF Inv
<1>1. CASE PlaySequence
  <2>1. PICK items \in Batches(EmptyQueue, MaxItems), start \in Starts :
          queue' \in play_sequence(queue, items, start)
    BY <1>1 DEF PlaySequence
  <2>2. items \in Seq(Entries) /\ start \in Int
    BY <2>1, BatchesAreSequences, MaxItemsAssumption DEF Starts
  <2> QED
    BY <2>1, <2>2, PlayOK
<1>2. CASE PlayNow
  BY <1>2, PlayNowOK DEF PlayNow
<1>3. CASE PlayNext
  BY <1>3, PlayNextOK DEF PlayNext, Absent
<1>4. CASE EnqueueMany
  <2>1. PICK n \in 1..(MaxItems - Length(queue)) : \E items \in Batches(queue, n) :
          queue' \in enqueue_many(queue, items)
    BY <1>4 DEF EnqueueMany
  <2>2. PICK items \in Batches(queue, n) : queue' \in enqueue_many(queue, items)
    BY <2>1
  <2> QED
    BY <2>1, <2>2, BatchesAreSequences, EnqueueOK
<1>5. CASE GoNext
  BY <1>5, NextOK DEF GoNext
<1>6. CASE GoPrevious
  BY <1>6, PreviousOK DEF GoPrevious
<1>7. CASE MoveTo
  BY <1>7, CursorOK DEF MoveTo, move_to
<1>8. CASE MoveItem
  <2>1. PICK from, to \in -1..MaxItems : queue' \in move_item(queue, from, to)
    BY <1>8 DEF MoveItem
  <2> QED
    BY <2>1, MoveItemOK
<1>9. CASE RemoveEntry
  <2>1. PICK i \in -1..MaxItems : queue' \in remove_at(queue, i)
    BY <1>9 DEF RemoveEntry
  <2> QED
    BY <2>1, RemoveOK
<1>10. CASE SetShuffle
  BY <1>10, ShuffleOK DEF SetShuffle
<1>11. CASE SetRepeat
  BY <1>11, RepeatOK, ModesAssumption DEF SetRepeat
<1>12. CASE Clear
  BY <1>12, ClearOK DEF Clear
<1>13. CASE Restore
  <2>1. PICK items \in Batches(EmptyQueue, MaxItems - 1), mode \in Modes, shuffle \in BOOLEAN :
          \E i \in 0..(Len(items) - 1) :
            queue' \in IF shuffle
                         THEN set_shuffle(set_all(set_repeat(queue, mode), items, i), TRUE)
                         ELSE {set_all(set_repeat(queue, mode), items, i)}
    BY <1>13 DEF Restore, RestoreInto
  <2>2. PICK i \in 0..(Len(items) - 1) :
            queue' \in IF shuffle
                         THEN set_shuffle(set_all(set_repeat(queue, mode), items, i), TRUE)
                         ELSE {set_all(set_repeat(queue, mode), items, i)}
    BY <2>1
  <2>3. items \in Seq(Entries)
    BY <2>1, BatchesAreSequences, MaxItemsAssumption
  <2> DEFINE base == set_repeat(queue, mode)
             loaded == set_all(base, items, i)
  <2>4. QueueOK(base) /\ ~base.shuffling
    <3>1. ~queue.shuffling
      BY <1>13 DEF Restore, EmptyQueue
    <3>2. QueueOK(base) /\ base.shuffling = queue.shuffling
      BY RepeatOK, ModesAssumption
    <3> QED
      BY <3>1, <3>2, Zenon
  <2> HIDE DEF base
  <2>5. i \in -1..(Len(items) - 1)
    BY <2>2
  <2>6. QueueOK(loaded)
    BY <2>3, <2>4, <2>5, SetAllOK
  <2> HIDE DEF loaded
  <2>7. queue' \in IF shuffle THEN set_shuffle(loaded, TRUE) ELSE {loaded}
    BY <2>2 DEF loaded, base
  <2> QED
    BY <2>6, <2>7, ShuffleOK
<1>14. CASE UNCHANGED vars
  BY <1>14 DEF vars
<1> QED
  BY <1>1, <1>2, <1>3, <1>4, <1>5, <1>6, <1>7, <1>8, <1>9, <1>10, <1>11, <1>12, <1>13, <1>14
     DEF Next

(* The inductive invariant holds in every reachable state of the queue. *)
THEOREM InvHolds == Spec => []Inv
BY InitOK, StepOK, PTL DEF Spec

(***************************************************************************)
(* Whatever sequence of play, insert, remove, reorder, navigate, shuffle,  *)
(* repeat, clear and restore calls is made, the cursor of the queue is -1  *)
(* or a position of the list, for every number of entries and every        *)
(* history limit.                                                          *)
(***************************************************************************)
THEOREM CursorAlwaysInRange == Spec => []CursorInRange
<1>1. Inv => CursorInRange
  BY DEF Inv, QueueOK, Sketch, CursorInRange
<1> QED
  BY <1>1, InvHolds, PTL

(***************************************************************************)
(* Likewise the shuffled presentation order is a permutation of the list's *)
(* positions whenever shuffle is on, and empty when it is off: no          *)
(* operation that changes the list forgets to redraw it.                   *)
(***************************************************************************)
THEOREM OrderAlwaysCoversQueue == Spec => []OrderCoversQueue
<1>1. Inv => OrderCoversQueue
  BY DEF Inv, QueueOK, OrderCoversQueue
<1> QED
  BY <1>1, InvHolds, PTL

-----------------------------------------------------------------------------
(***************************************************************************)
(* Editing the queue never changes what is playing, for every set of       *)
(* entries, every queue length and every history limit (EditsKeepCurrent). *)
(*                                                                         *)
(* The invariant above does not suffice: if an entry stood                 *)
(* twice in the list, removing the current one would leave the other copy  *)
(* in it and the cursor on a neighbour.  An entry is one OCCURRENCE of a   *)
(* playback item, so the list never repeats one (NoRepeats), and that is   *)
(* what every operation has to keep.                                       *)
(***************************************************************************)
NoRepeats(s) == \A j, k \in 1..Len(s) : s[j] = s[k] => j = k

EditInv == Inv /\ NoRepeats(queue.items)

(***************************************************************************)
(* What an edit from q to r promises.                                      *)
(***************************************************************************)
KeepsCurrent(q, r) ==
  current(q) \in ToSet(r.items) => current(r) = current(q)

-----------------------------------------------------------------------------
(***************************************************************************)
(* The elements of a list after an insertion.                              *)
(***************************************************************************)
LEMMA InsertAtElements ==
  ASSUME NEW S, NEW s \in Seq(S), NEW e \in S, NEW i \in 1..(Len(s) + 1),
         NEW k \in 1..(Len(s) + 1)
  PROVE  InsertAt(s, i, e)[k] = IF k < i THEN s[k] ELSE IF k = i THEN e ELSE s[k - 1]
<1>n. Len(s) \in Nat /\ \A x \in 1..Len(s) : s[x] \in S
  BY LenProperties, ElementOfSeq
<1> DEFINE front == SubSeq(s, 1, i - 1)
           back  == SubSeq(s, i, Len(s))
<1>1. front \in Seq(S) /\ Len(front) = i - 1 /\ \A x \in 1..(i - 1) : front[x] = s[x]
  <2>1. 1 \in Int /\ i - 1 \in Int /\ \A x \in 1..(i - 1) : s[x] \in S
    BY <1>n
  <2>2. /\ front \in Seq(S) /\ Len(front) = IF 1 <= i - 1 THEN i - 1 - 1 + 1 ELSE 0
        /\ \A x \in 1..(i - 1 - 1 + 1) : front[x] = s[1 + x - 1]
    BY <2>1, SubSeqProperties
  <2>3. \A x \in 1..(i - 1) : 1 + x - 1 = x
    OBVIOUS
  <2> QED
    BY <2>2, <2>3
<1>2. /\ back \in Seq(S) /\ Len(back) = Len(s) - i + 1
      /\ \A x \in 1..(Len(s) - i + 1) : back[x] = s[i + x - 1]
  <2>1. i \in Int /\ Len(s) \in Int /\ \A x \in i..Len(s) : s[x] \in S
    BY <1>n
  <2>2. /\ back \in Seq(S) /\ Len(back) = IF i <= Len(s) THEN Len(s) - i + 1 ELSE 0
        /\ \A x \in 1..(Len(s) - i + 1) : back[x] = s[i + x - 1]
    BY <2>1, SubSeqProperties
  <2> QED
    BY <2>2, <1>n
<1>3. <<e>> \in Seq(S) /\ Len(<<e>>) = 1 /\ <<e>>[1] = e
  OBVIOUS
<1> HIDE DEF front, back
<1>4. /\ front \o <<e>> \in Seq(S) /\ Len(front \o <<e>>) = i
      /\ \A x \in 1..i : (front \o <<e>>)[x] = IF x <= i - 1 THEN s[x] ELSE e
  <2> DEFINE one == <<e>>
  <2>1. one \in Seq(S) /\ Len(one) = 1 /\ one[1] = e
    BY <1>3
  <2> HIDE DEF one
  <2>2. /\ front \o one \in Seq(S) /\ Len(front \o one) = Len(front) + Len(one)
        /\ \A x \in 1..(Len(front) + Len(one)) :
             (front \o one)[x] = IF x <= Len(front) THEN front[x] ELSE one[x - Len(front)]
    BY <1>1, <2>1, ConcatProperties
  <2>3. \A x \in 1..i : (front \o one)[x] = IF x <= i - 1 THEN s[x] ELSE e
    BY <1>1, <2>1, <2>2
  <2> QED
    BY <1>1, <2>1, <2>2, <2>3 DEF one
<1> DEFINE head == front \o <<e>>
<1>5. /\ InsertAt(s, i, e) = head \o back
      /\ head \in Seq(S) /\ Len(head) = i
      /\ \A x \in 1..i : head[x] = IF x <= i - 1 THEN s[x] ELSE e
  BY <1>4 DEF InsertAt, front, back
<1> HIDE DEF head
<1>6. \A x \in 1..(Len(head) + Len(back)) :
        (head \o back)[x] = IF x <= Len(head) THEN head[x] ELSE back[x - Len(head)]
  BY <1>2, <1>5, ConcatProperties
<1>7. (head \o back)[k] = IF k <= i THEN head[k] ELSE back[k - i]
  BY <1>2, <1>5, <1>6, <1>n, SMTT(30)
<1>8. CASE k <= i
  BY <1>5, <1>7, <1>8
<1>9. CASE k > i
  <2>1. back[k - i] = s[i + (k - i) - 1]
    BY <1>2, <1>9, <1>n
  <2>2. i + (k - i) - 1 = k - 1
    OBVIOUS
  <2> QED
    BY <1>5, <1>7, <1>9, <2>1, <2>2
<1> QED
  BY <1>8, <1>9

(***************************************************************************)
(* The elements of a list after a removal.                                 *)
(***************************************************************************)
LEMMA RemoveAtElements ==
  ASSUME NEW S, NEW s \in Seq(S), NEW i \in 1..Len(s), NEW k \in 1..(Len(s) - 1)
  PROVE  RemoveAt(s, i)[k] = IF k < i THEN s[k] ELSE s[k + 1]
<1>n. Len(s) \in Nat /\ \A x \in 1..Len(s) : s[x] \in S
  BY LenProperties, ElementOfSeq
<1> DEFINE front == SubSeq(s, 1, i - 1)
           back  == SubSeq(s, i + 1, Len(s))
<1>1. front \in Seq(S) /\ Len(front) = i - 1 /\ \A x \in 1..(i - 1) : front[x] = s[x]
  <2>1. 1 \in Int /\ i - 1 \in Int /\ \A x \in 1..(i - 1) : s[x] \in S
    BY <1>n
  <2>2. /\ front \in Seq(S) /\ Len(front) = IF 1 <= i - 1 THEN i - 1 - 1 + 1 ELSE 0
        /\ \A x \in 1..(i - 1 - 1 + 1) : front[x] = s[1 + x - 1]
    BY <2>1, SubSeqProperties
  <2>3. \A x \in 1..(i - 1) : 1 + x - 1 = x
    OBVIOUS
  <2> QED
    BY <2>2, <2>3
<1>2. /\ back \in Seq(S) /\ Len(back) = Len(s) - i
      /\ \A x \in 1..(Len(s) - i) : back[x] = s[i + x]
  <2>1. i + 1 \in Int /\ Len(s) \in Int /\ \A x \in (i + 1)..Len(s) : s[x] \in S
    BY <1>n
  <2>2. /\ back \in Seq(S) /\ Len(back) = IF i + 1 <= Len(s) THEN Len(s) - (i + 1) + 1 ELSE 0
        /\ \A x \in 1..(Len(s) - (i + 1) + 1) : back[x] = s[i + 1 + x - 1]
    BY <2>1, SubSeqProperties
  <2>3. \A x \in 1..(Len(s) - i) : i + 1 + x - 1 = i + x
    BY <1>n
  <2> QED
    BY <2>2, <2>3, <1>n
<1>3. RemoveAt(s, i) = front \o back
  BY DEF RemoveAt
<1> HIDE DEF front, back
<1>4. \A x \in 1..(Len(front) + Len(back)) :
        (front \o back)[x] = IF x <= Len(front) THEN front[x] ELSE back[x - Len(front)]
  BY <1>1, <1>2, ConcatProperties
<1>5. (front \o back)[k] = IF k <= i - 1 THEN front[k] ELSE back[k - (i - 1)]
  BY <1>1, <1>2, <1>4, <1>n
<1>6. CASE k <= i - 1
  BY <1>1, <1>3, <1>5, <1>6
<1>7. CASE k > i - 1
  <2>1. back[k - (i - 1)] = s[i + (k - (i - 1))]
    BY <1>2, <1>7, <1>n
  <2>2. i + (k - (i - 1)) = k + 1
    OBVIOUS
  <2> QED
    BY <1>3, <1>5, <1>7, <2>1, <2>2
<1> QED
  BY <1>6, <1>7

(***************************************************************************)
(* Inserting a new element, and removing one, repeats no element; what was *)
(* removed is gone.                                                        *)
(***************************************************************************)
LEMMA InsertNoRepeats ==
  ASSUME NEW S, NEW s \in Seq(S), NoRepeats(s), NEW i \in 1..(Len(s) + 1),
         NEW e \in S, \A k \in 1..Len(s) : s[k] # e
  PROVE  NoRepeats(InsertAt(s, i, e))
<1>n. Len(s) \in Nat
  BY LenProperties
<1> DEFINE t == InsertAt(s, i, e)
<1>1. Len(t) = Len(s) + 1
  BY InsertAtOK
<1>2. \A k \in 1..(Len(s) + 1) : t[k] = IF k < i THEN s[k] ELSE IF k = i THEN e ELSE s[k - 1]
  BY InsertAtElements
<1> HIDE DEF t
<1>3. ASSUME NEW j \in 1..Len(t), NEW k \in 1..Len(t), t[j] = t[k] PROVE j = k
  <2>1. j \in 1..(Len(s) + 1) /\ k \in 1..(Len(s) + 1)
    BY <1>1
  <2>2. CASE j = i \/ k = i
    BY <1>2, <1>3, <2>1, <2>2, <1>n
  <2>3. CASE j # i /\ k # i
    <3> DEFINE p(x) == IF x < i THEN x ELSE x - 1
    <3>1. p(j) \in 1..Len(s) /\ p(k) \in 1..Len(s)
      BY <2>1, <2>3, <1>n
    <3>2. t[j] = s[p(j)] /\ t[k] = s[p(k)]
      BY <1>2, <2>1, <2>3
    <3>3. p(j) = p(k)
      BY <3>1, <3>2, <1>3 DEF NoRepeats
    <3> QED
      BY <3>3, <2>1, <2>3, <1>n
  <2> QED
    BY <2>2, <2>3
<1> QED
  BY <1>3 DEF NoRepeats, t

(* The list without its element i: none twice, and element i is not there. *)
LEMMA RemoveNoRepeats ==
  ASSUME NEW S, NEW s \in Seq(S), NoRepeats(s), NEW i \in 1..Len(s)
  PROVE  /\ NoRepeats(RemoveAt(s, i))
         /\ \A k \in 1..Len(RemoveAt(s, i)) : RemoveAt(s, i)[k] # s[i]
<1>n. Len(s) \in Nat
  BY LenProperties
<1> DEFINE t == RemoveAt(s, i)
           p(x) == IF x < i THEN x ELSE x + 1
<1>1. Len(t) = Len(s) - 1
  BY RemoveAtOK
<1>2. \A k \in 1..(Len(s) - 1) : t[k] = IF k < i THEN s[k] ELSE s[k + 1]
  BY RemoveAtElements
<1> HIDE DEF t
<1>3. \A k \in 1..Len(t) : t[k] = s[p(k)] /\ p(k) \in 1..Len(s) /\ p(k) # i
  BY <1>1, <1>2, <1>n
<1>4. \A j, k \in 1..Len(t) : p(j) = p(k) => j = k
  BY <1>1, <1>n
<1> HIDE DEF p
<1>5. NoRepeats(t)
  BY <1>3, <1>4 DEF NoRepeats
<1>6. \A k \in 1..Len(t) : t[k] # s[i]
  BY <1>3 DEF NoRepeats
<1> QED
  BY <1>5, <1>6 DEF t

-----------------------------------------------------------------------------
Leaves(r, items, index, history) ==
  r.items = items /\ r.index = index /\ r.history = history

(***************************************************************************)
(* The list and the cursor an edit leaves: what it set before it redrew    *)
(* the presentation order.                                                 *)
(***************************************************************************)
LEMMA EditShape ==
  ASSUME NEW q, QueueOK(q),
         NEW items \in Seq(Entries), NEW index \in -1..(Len(items) - 1), NEW history,
         NEW r \in rebuild_order([items |-> items, index |-> index, order |-> q.order,
                                  history |-> history, repeat |-> q.repeat,
                                  shuffling |-> q.shuffling])
  PROVE  Leaves(r, items, index, history)
<1> DEFINE n == [items |-> items, index |-> index, order |-> q.order, history |-> history,
                 repeat |-> q.repeat, shuffling |-> q.shuffling]
<1>1. Sketch(n)
  BY DEF Sketch, QueueOK, IsQueue, IndexOK, Length
<1>2. n.items = items /\ n.index = index /\ n.history = history
  OBVIOUS
<1>3. r \in rebuild_order(n)
  OBVIOUS
<1> HIDE DEF n
<1> QED
  BY <1>1, <1>2, <1>3, RebuildOK DEF Leaves

(***************************************************************************)
(* The current entry is the same when the cursor names the same element.   *)
(***************************************************************************)
LEMMA SameCurrent ==
  ASSUME NEW q, QueueOK(q), NEW r, Length(r) \in Nat,
         q.index = -1 => r.index = -1,
         q.index >= 0 => /\ r.index \in 0..(Length(r) - 1)
                         /\ r.items[r.index + 1] = q.items[q.index + 1]
  PROVE  current(r) = current(q)
<1>1. Length(q) \in Nat /\ q.index \in -1..(Length(q) - 1)
  BY LenProperties DEF QueueOK, Sketch, Length, IndexOK
<1>2. CASE q.index = -1
  BY <1>1, <1>2 DEF current, at
<1>3. CASE q.index >= 0
  BY <1>1, <1>3 DEF current, at
<1> QED
  BY <1>1, <1>2, <1>3

(***************************************************************************)
(* play_next: the new entry goes behind the current one.                   *)
(***************************************************************************)
LEMMA PlayNextKeeps ==
  ASSUME NEW q, QueueOK(q), NoRepeats(q.items),
         NEW e \in Absent(q), NEW r \in play_next(q, e)
  PROVE  /\ NoRepeats(r.items) /\ KeepsCurrent(q, r)
         /\ r.history = q.history /\ \A i \in 0..q.index : at(r, i) = at(q, i)
<1>n. Length(q) \in Nat /\ q.items \in Seq(Entries) /\ q.index \in -1..(Length(q) - 1)
  BY LenProperties DEF QueueOK, Sketch, Length, IndexOK
<1>e. e \in Entries /\ \A k \in 1..Len(q.items) : q.items[k] # e
  BY <1>n, LenProperties DEF Absent, ToSet
<1>1. CASE Length(q) = 0
  <2>1. [q EXCEPT !.items = <<e>>, !.index = 0]
        = [items |-> <<e>>, index |-> 0, order |-> q.order,
           history |-> q.history, repeat |-> q.repeat, shuffling |-> q.shuffling]
    BY SetCursor DEF QueueOK, Sketch
  <2>2. <<e>> \in Seq(Entries) /\ 0 \in -1..(Len(<<e>>) - 1)
    BY <1>e
  <2>3. r.items = <<e>> /\ r.index = 0 /\ r.history = q.history
    <3>1. r \in rebuild_order([q EXCEPT !.items = <<e>>, !.index = 0])
      BY <1>1 DEF play_next
    <3>2. r \in rebuild_order([items |-> <<e>>, index |-> 0, order |-> q.order,
                               history |-> q.history, repeat |-> q.repeat,
                               shuffling |-> q.shuffling])
      BY <2>1, <3>1, Zenon
    <3>3. Leaves(r, <<e>>, 0, q.history)
      BY <2>2, <3>2, EditShape
    <3> QED
      BY <3>3 DEF Leaves
  <2>4. current(r) = e /\ ToSet(r.items) = {e}
    BY <2>3 DEF current, at, Length, ToSet
  <2> QED
    BY <1>1, <1>n, <2>3, <2>4 DEF NoRepeats, KeepsCurrent
<1>2. CASE Length(q) # 0
  <2> DEFINE at1   == Clamp(q.index + 1, 0, Length(q)) + 1
             items == InsertAt(q.items, at1, e)
  <2>1. at1 = q.index + 2 /\ at1 \in 1..(Len(q.items) + 1)
    BY <1>n DEF Clamp, Length
  <2>2. items \in Seq(Entries) /\ Len(items) = Length(q) + 1
    BY <2>1, <1>n, <1>e, InsertAtOK DEF Length
  <2>3. NoRepeats(items)
    BY <2>1, <1>n, <1>e, InsertNoRepeats
  <2>4. \A i \in 0..q.index : items[i + 1] = q.items[i + 1]
    <3> TAKE i \in 0..q.index
    <3>2. i + 1 \in 1..(Len(q.items) + 1) /\ i + 1 < at1
      BY <2>1, <1>n DEF Length
    <3>3. e \in Entries /\ q.items \in Seq(Entries)
      BY <1>n, <1>e
    <3> DEFINE k == i + 1
    <3> HIDE DEF at1, k
    <3>4. k \in 1..(Len(q.items) + 1) /\ at1 \in 1..(Len(q.items) + 1)
      BY <2>1, <3>2 DEF k
    <3>5. items[k] = IF k < at1 THEN q.items[k] ELSE IF k = at1 THEN e ELSE q.items[k - 1]
      BY <3>3, <3>4, InsertAtElements
    <3> HIDE DEF items
    <3> QED
      BY <3>2, <3>5 DEF k
  <2>5. [q EXCEPT !.items = items]
        = [items |-> items, index |-> q.index, order |-> q.order,
           history |-> q.history, repeat |-> q.repeat, shuffling |-> q.shuffling]
    BY SetItems DEF QueueOK, Sketch
  <2>6. r \in rebuild_order([q EXCEPT !.items = items])
    BY <1>2 DEF play_next
  <2> HIDE DEF items, at1
  <2>7. q.index \in -1..(Len(items) - 1)
    BY <2>2, <1>n
  <2>8. r.items = items /\ r.index = q.index /\ r.history = q.history
    <3>1. Leaves(r, items, q.index, q.history)
      BY <2>2, <2>5, <2>6, <2>7, EditShape
    <3> QED
      BY <3>1 DEF Leaves
  <2>9. current(r) = current(q)
    <3>1. q.index >= 0 => items[q.index + 1] = q.items[q.index + 1]
      BY <2>4, <1>n
    <3> QED
      BY <2>2, <3>1, <2>8, <1>n, SameCurrent DEF Length
  <2>10. \A i \in 0..q.index : at(r, i) = at(q, i)
    BY <2>2, <2>4, <2>8, <1>n DEF at, Length
  <2> QED
    BY <2>3, <2>8, <2>9, <2>10 DEF KeepsCurrent
<1> QED
  BY <1>1, <1>2

(***************************************************************************)
(* enqueue_many: new entries, each once, go to the end.                    *)
(***************************************************************************)
LEMMA EnqueueKeeps ==
  ASSUME NEW q, QueueOK(q), NoRepeats(q.items),
         NEW n \in Int, NEW items \in Batches(q, n), NEW r \in enqueue_many(q, items)
  PROVE  /\ NoRepeats(r.items) /\ KeepsCurrent(q, r)
         /\ r.history = q.history /\ \A i \in 0..(Length(q) - 1) : at(r, i) = at(q, i)
<1>n. Length(q) \in Nat /\ q.items \in Seq(Entries) /\ q.index \in -1..(Length(q) - 1)
  BY LenProperties DEF QueueOK, Sketch, Length, IndexOK
<1>1. items \in Seq(Entries) /\ Len(items) \in Nat /\ DOMAIN items = 1..Len(items)
  BY BatchesAreSequences, LenProperties
<1>2. /\ \A j, k \in 1..Len(items) : items[j] = items[k] => j = k
      /\ \A j \in 1..Len(items) : \A k \in 1..Len(q.items) : items[j] # q.items[k]
  <2>1. /\ items \in [1..n -> Absent(q)]
        /\ \A j, k \in 1..n : items[j] = items[k] => j = k
    BY DEF Batches
  <2>2. 1..n = 1..Len(items)
    BY <1>1, <2>1
  <2>3. \A k \in 1..Len(q.items) : q.items[k] \notin Absent(q)
    BY <1>n, LenProperties DEF Absent, ToSet
  <2> QED
    BY <2>1, <2>2, <2>3
<1> DEFINE all == q.items \o items
<1>3. /\ all \in Seq(Entries) /\ Len(all) = Length(q) + Len(items)
      /\ \A k \in 1..(Length(q) + Len(items)) :
           all[k] = IF k <= Length(q) THEN q.items[k] ELSE items[k - Length(q)]
  BY <1>n, <1>1, ConcatProperties DEF Length
<1>4. [q EXCEPT !.items = all]
      = [items |-> all, index |-> q.index, order |-> q.order,
         history |-> q.history, repeat |-> q.repeat, shuffling |-> q.shuffling]
  BY SetItems DEF QueueOK, Sketch
<1>5. r \in rebuild_order([q EXCEPT !.items = all])
  BY DEF enqueue_many
<1> HIDE DEF all
<1>6. q.index \in -1..(Len(all) - 1)
  BY <1>3, <1>n, <1>1
<1>7. Leaves(r, all, q.index, q.history)
  BY <1>3, <1>4, <1>5, <1>6, EditShape
<1>8. NoRepeats(all)
  <2>1. ASSUME NEW j \in 1..Len(all), NEW k \in 1..Len(all), all[j] = all[k] PROVE j = k
    <3>1. /\ j \in 1..(Length(q) + Len(items)) /\ k \in 1..(Length(q) + Len(items))
          /\ Length(q) = Len(q.items)
      BY <1>3 DEF Length
    <3>2. CASE j <= Length(q) /\ k <= Length(q)
      BY <3>1, <3>2, <2>1, <1>3, <1>n DEF NoRepeats
    <3>3. CASE j > Length(q) /\ k > Length(q)
      <4>1. j - Length(q) \in 1..Len(items) /\ k - Length(q) \in 1..Len(items)
        BY <3>1, <3>3, <1>n, <1>1
      <4>2. items[j - Length(q)] = items[k - Length(q)]
        BY <3>1, <3>3, <2>1, <1>3, <1>n
      <4>3. j - Length(q) = k - Length(q)
        BY <4>1, <4>2, <1>2
      <4> QED
        BY <4>3, <3>1, <1>n, <1>1
    <3>4. CASE j <= Length(q) /\ k > Length(q)
      <4>1. j \in 1..Len(q.items) /\ k - Length(q) \in 1..Len(items)
        BY <3>1, <3>4, <1>n, <1>1
      <4>2. all[j] = q.items[j]
        BY <3>1, <3>4, <1>3
      <4>3. all[k] = items[k - Length(q)]
        BY <3>1, <3>4, <1>3, <1>n
      <4> QED
        BY <4>1, <4>2, <4>3, <2>1, <1>2
    <3>5. CASE j > Length(q) /\ k <= Length(q)
      <4>1. k \in 1..Len(q.items) /\ j - Length(q) \in 1..Len(items)
        BY <3>1, <3>5, <1>n, <1>1
      <4>2. all[k] = q.items[k]
        BY <3>1, <3>5, <1>3
      <4>3. all[j] = items[j - Length(q)]
        BY <3>1, <3>5, <1>3, <1>n
      <4> QED
        BY <4>1, <4>2, <4>3, <2>1, <1>2
    <3> QED
      BY <3>1, <3>2, <3>3, <3>4, <3>5, <1>n, <1>1
  <2> QED
    BY <2>1 DEF NoRepeats
<1>9. current(r) = current(q)
  <2>1. Length(r) \in Nat /\ r.index = q.index
    BY <1>3, <1>7, <1>n, <1>1 DEF Leaves, Length
  <2>2. q.index >= 0 => /\ r.index \in 0..(Length(r) - 1)
                        /\ r.items[r.index + 1] = q.items[q.index + 1]
    <3>1. SUFFICES ASSUME q.index >= 0
                   PROVE  /\ q.index \in 0..(Len(all) - 1)
                          /\ all[q.index + 1] = q.items[q.index + 1]
      BY <1>7 DEF Leaves, Length
    <3>2. q.index + 1 \in 1..(Length(q) + Len(items)) /\ q.index + 1 <= Length(q)
      BY <3>1, <1>n, <1>1
    <3> QED
      BY <3>1, <3>2, <1>3, <1>n, <1>1
  <2> QED
    BY <2>1, <2>2, SameCurrent
<1>10. \A i \in 0..(Length(q) - 1) : at(r, i) = at(q, i)
  <2> TAKE i \in 0..(Length(q) - 1)
  <2>1. i + 1 \in 1..(Length(q) + Len(items)) /\ i + 1 <= Length(q) /\ i \in 0..(Len(all) - 1)
    BY <1>3, <1>n, <1>1
  <2>2. all[i + 1] = q.items[i + 1]
    BY <2>1, <1>3
  <2> QED
    BY <2>1, <2>2, <1>7 DEF Leaves, at, Length
<1> QED
  BY <1>7, <1>8, <1>9, <1>10 DEF Leaves, KeepsCurrent

(***************************************************************************)
(* move_item: cursor and history follow the entries they name.             *)
(***************************************************************************)
Reordered(q, r, from, to) ==
  /\ r.history = [k \in DOMAIN q.history |-> remap(q.history[k], from, to)]
  /\ \A i \in 0..(Length(q) - 1) : at(r, remap(i, from, to)) = at(q, i)

(* Reordering repeats no entry and leaves the current one current. *)
LEMMA MoveItemKeeps ==
  ASSUME NEW q, QueueOK(q), NoRepeats(q.items),
         NEW from \in Int, NEW to \in Int, NEW r \in move_item(q, from, to)
  PROVE  /\ NoRepeats(r.items) /\ KeepsCurrent(q, r)
         /\ r # q => r.items # q.items /\ Reordered(q, r, from, to)
<1>n. /\ Length(q) \in Nat /\ q.items \in Seq(Entries) /\ q.index \in -1..(Length(q) - 1)
      /\ Len(q.items) = Length(q)
  BY LenProperties DEF QueueOK, Sketch, Length, IndexOK
<1>1. CASE from \notin 0..(Length(q) - 1) \/ to \notin 0..(Length(q) - 1) \/ from = to
  BY <1>1 DEF move_item, KeepsCurrent
<1>2. CASE ~(from \notin 0..(Length(q) - 1) \/ to \notin 0..(Length(q) - 1) \/ from = to)
  <2> DEFINE e       == q.items[from + 1]
             less    == RemoveAt(q.items, from + 1)
             items   == InsertAt(less, to + 1, e)
             index   == remap(q.index, from, to)
             history == [k \in DOMAIN q.history |-> remap(q.history[k], from, to)]
  <2>0. from + 1 \in 1..Len(q.items) /\ e \in Entries
    BY <1>2, <1>n, ElementOfSeq
  <2>1. less \in Seq(Entries) /\ Len(less) = Length(q) - 1
    BY <2>0, <1>n, RemoveAtOK
  <2>2. \A k \in 1..(Length(q) - 1) :
          less[k] = IF k < from + 1 THEN q.items[k] ELSE q.items[k + 1]
    BY <2>0, <1>n, RemoveAtElements
  <2>3. NoRepeats(less) /\ \A k \in 1..Len(less) : less[k] # e
    BY <2>0, <1>n, RemoveNoRepeats
  <2>4. r \in rebuild_order([q EXCEPT !.items = items, !.index = index, !.history = history])
    BY <1>2 DEF move_item
  <2> HIDE DEF e, less
  <2>5. to + 1 \in 1..(Len(less) + 1)
    BY <2>1, <1>2, <1>n
  <2>6. items \in Seq(Entries) /\ Len(items) = Length(q)
    BY <2>0, <2>1, <2>5, <1>n, InsertAtOK
  <2>7. \A k \in 1..(Len(less) + 1) :
          items[k] = IF k < to + 1 THEN less[k] ELSE IF k = to + 1 THEN e ELSE less[k - 1]
    <3> DEFINE there == to + 1
    <3>1. there \in 1..(Len(less) + 1)
      BY <2>5
    <3> HIDE DEF there
    <3>2. \A k \in 1..(Len(less) + 1) :
            InsertAt(less, there, e)[k]
              = IF k < there THEN less[k] ELSE IF k = there THEN e ELSE less[k - 1]
      <4> TAKE k \in 1..(Len(less) + 1)
      <4>1. e \in Entries /\ less \in Seq(Entries)
        BY <2>0, <2>1
      <4> QED
        BY <3>1, <4>1, InsertAtElements
    <3> QED
      BY <3>2 DEF there
  <2>8. NoRepeats(items)
    BY <2>0, <2>1, <2>3, <2>5, InsertNoRepeats
  <2> HIDE DEF items, history
  <2>9. index \in -1..(Length(q) - 1) /\ (q.index = -1 => index = -1)
    BY <1>2, <1>n DEF remap
  <2>10. \A i \in 0..(Length(q) - 1) : /\ remap(i, from, to) \in 0..(Length(q) - 1)
                                       /\ items[remap(i, from, to) + 1] = q.items[i + 1]
    <3> TAKE i \in 0..(Length(q) - 1)
    <3> DEFINE moved == remap(i, from, to)
    <3>1. moved \in 0..(Length(q) - 1)
      BY <1>2, <1>n DEF remap
    <3>2. CASE i = from
      <4>1. moved = to
        BY <3>2 DEF remap
      <4>2. items[to + 1] = e
        BY <2>5, <2>7
      <4> QED
        BY <3>1, <4>1, <4>2, <3>2, <1>2 DEF e
    <3>3. CASE i # from /\ from < to /\ i \in from..to
      <4>1. moved = i - 1
        BY <3>3 DEF remap
      <4>2. i \in 1..(Len(less) + 1) /\ i < to + 1 /\ ~(i < from + 1)
        BY <3>3, <2>1, <1>2, <1>n
      <4>3. items[i] = less[i] /\ less[i] = q.items[i + 1]
        BY <4>2, <2>1, <2>2, <2>7, <3>3, <1>2, <1>n
      <4>4. moved + 1 = i
        BY <4>1
      <4> HIDE DEF moved
      <4> QED
        BY <3>1, <4>3, <4>4 DEF moved
    <3>4. CASE i # from /\ from > to /\ i \in to..from
      <4>1. moved = i + 1
        BY <3>4, <1>n DEF remap
      <4>2. /\ i + 2 \in 1..(Len(less) + 1) /\ i + 2 > to + 1
            /\ i + 1 \in 1..(Length(q) - 1) /\ i + 1 < from + 1
        BY <3>4, <2>1, <1>2, <1>n
      <4>3. items[i + 2] = less[i + 1]
        <5>1. i + 2 - 1 = i + 1 /\ ~(i + 2 < to + 1) /\ i + 2 # to + 1
          BY <4>2, <1>n
        <5> QED
          BY <4>2, <2>7, <5>1, <1>n, SMTT(30)
      <4>4. less[i + 1] = q.items[i + 1]
        BY <4>2, <2>2
      <4>5. moved + 1 = i + 2
        BY <4>1
      <4> HIDE DEF moved
      <4> QED
        BY <3>1, <4>3, <4>4, <4>5 DEF moved
    <3>5. CASE /\ i # from /\ ~(from < to /\ i \in from..to)
               /\ ~(from > to /\ i \in to..from)
      <4>1. moved = i
        BY <3>5 DEF remap
      <4> HIDE DEF moved
      <4>2. CASE i < from /\ i < to
        <5>1. i + 1 \in 1..(Length(q) - 1) /\ i + 1 < to + 1 /\ i + 1 < from + 1
          BY <4>2, <1>2, <1>n
        <5>2. i + 1 \in 1..(Len(less) + 1)
          BY <5>1, <2>1, <1>n
        <5> QED
          BY <3>1, <4>1, <5>1, <5>2, <2>2, <2>7 DEF moved
      <4>3. CASE i > from /\ i > to
        <5>1. /\ i \in 1..(Length(q) - 1) /\ i + 1 > to + 1 /\ ~(i < from + 1)
              /\ i + 1 - 1 = i
          BY <4>3, <1>2, <1>n
        <5>2. i + 1 \in 1..(Len(less) + 1)
          BY <5>1, <2>1, <1>n
        <5>3. items[i + 1] = less[i]
          BY <5>1, <5>2, <2>7, <1>2
        <5>4. less[i] = q.items[i + 1]
          BY <5>1, <2>2
        <5> QED
          BY <3>1, <4>1, <5>3, <5>4 DEF moved
      <4> QED
        BY <4>2, <4>3, <3>5, <1>2, <1>n
    <3> QED
      BY <3>2, <3>3, <3>4, <3>5
  <2> HIDE DEF index
  <2>11. [q EXCEPT !.items = items, !.index = index, !.history = history]
         = [items |-> items, index |-> index, order |-> q.order,
            history |-> history, repeat |-> q.repeat, shuffling |-> q.shuffling]
    BY SetList DEF QueueOK, Sketch
  <2>12. Leaves(r, items, index, history)
    BY <2>4, <2>6, <2>9, <2>11, EditShape
  <2>13. items # q.items
    <3>1. items[to + 1] = q.items[from + 1] /\ to + 1 \in 1..Len(q.items)
      BY <2>5, <2>7, <1>2, <1>n DEF e
    <3> QED
      BY <3>1, <2>0, <1>2 DEF NoRepeats
  <2>14. current(r) = current(q)
    <3>1. q.index >= 0 => index >= 0 /\ items[index + 1] = q.items[q.index + 1]
      <4>1. q.index >= 0 => q.index \in 0..(Length(q) - 1)
        BY <1>n
      <4>2. q.index >= 0 => /\ index \in 0..(Length(q) - 1)
                            /\ items[index + 1] = q.items[q.index + 1]
        BY <4>1, <2>10 DEF index
      <4> QED
        BY <4>2
    <3> QED
      BY <2>6, <2>9, <3>1, <2>12, <1>n, SameCurrent, SMTT(30) DEF Leaves, Length
  <2>15. \A i \in 0..(Length(q) - 1) : at(r, remap(i, from, to)) = at(q, i)
    BY <2>6, <2>10, <2>12, <1>n DEF Leaves, at, Length
  <2> QED
    BY <2>8, <2>12, <2>13, <2>14, <2>15 DEF Leaves, KeepsCurrent, Reordered, history
<1> QED
  BY <1>1, <1>2

(***************************************************************************)
(* remove_at: cursor and history stay with their entries, which slide down *)
(* past the removed one.  When the current entry is the one removed, no    *)
(* copy of it is left.                                                     *)
(***************************************************************************)
Survivors(q, i) == {k \in DOMAIN q.history : q.history[k] # i}

Removed(q, r, i) ==
  LET kept == retain(q.history, Survivors(q, i))
  IN  /\ r.history = [k \in DOMAIN kept |-> SlideDown(kept[k], i)]
      /\ \A h \in (0..(Length(q) - 1)) \ {i} : at(r, SlideDown(h, i)) = at(q, h)

(* Removal repeats no entry and leaves a current entry it keeps current. *)
LEMMA RemoveKeeps ==
  ASSUME NEW q, QueueOK(q), NoRepeats(q.items), NEW i \in Int, NEW r \in remove_at(q, i)
  PROVE  /\ NoRepeats(r.items) /\ KeepsCurrent(q, r)
         /\ r # q => r.items # q.items /\ Removed(q, r, i)
<1>n. /\ Length(q) \in Nat /\ q.items \in Seq(Entries) /\ q.index \in -1..(Length(q) - 1)
      /\ Len(q.items) = Length(q)
  BY LenProperties DEF QueueOK, Sketch, Length, IndexOK
<1>1. CASE i \notin 0..(Length(q) - 1)
  BY <1>1 DEF remove_at, KeepsCurrent
<1>2. CASE i \in 0..(Length(q) - 1)
  <2> DEFINE items == RemoveAt(q.items, i + 1)
             index == IF i < q.index \/ (i = q.index /\ i = Length(q) - 1)
                        THEN q.index - 1 ELSE q.index
             kept == retain(q.history, Survivors(q, i))
             history == [k \in DOMAIN kept |-> SlideDown(kept[k], i)]
  <2>0. i + 1 \in 1..Len(q.items)
    BY <1>2, <1>n
  <2>1. items \in Seq(Entries) /\ Len(items) = Length(q) - 1
    BY <2>0, <1>n, RemoveAtOK
  <2>2. \A k \in 1..(Length(q) - 1) :
          items[k] = IF k < i + 1 THEN q.items[k] ELSE q.items[k + 1]
    BY <2>0, <1>n, RemoveAtElements
  <2>3. NoRepeats(items) /\ \A k \in 1..Len(items) : items[k] # q.items[i + 1]
    BY <2>0, <1>n, RemoveNoRepeats
  <2>4. r \in rebuild_order([q EXCEPT !.items = items, !.index = index, !.history = history])
    BY <1>2 DEF remove_at, Survivors
  <2> HIDE DEF items, history
  <2>5. index \in -1..(Len(items) - 1)
    BY <1>2, <1>n, <2>1
  <2>6. \A h \in (0..(Length(q) - 1)) \ {i} :
          /\ SlideDown(h, i) \in 0..(Length(q) - 2)
          /\ items[SlideDown(h, i) + 1] = q.items[h + 1]
    <3> TAKE h \in (0..(Length(q) - 1)) \ {i}
    <3> DEFINE moved == SlideDown(h, i)
    <3>1. CASE h > i
      <4>1. moved + 1 = h /\ moved \in 0..(Length(q) - 2)
        BY <3>1, <1>2, <1>n DEF SlideDown
      <4>2. h \in 1..(Length(q) - 1) /\ ~(h < i + 1)
        BY <3>1, <1>2, <1>n
      <4> HIDE DEF moved
      <4> QED
        BY <4>1, <4>2, <2>2 DEF moved
    <3>2. CASE h < i
      <4>1. moved = h /\ moved \in 0..(Length(q) - 2)
        BY <3>2, <1>2, <1>n DEF SlideDown
      <4>2. h + 1 \in 1..(Length(q) - 1) /\ h + 1 < i + 1
        BY <3>2, <1>2, <1>n
      <4> HIDE DEF moved
      <4> QED
        BY <4>1, <4>2, <2>2 DEF moved
    <3> QED
      BY <3>1, <3>2, <1>2
  <2>7. q.index # i => index = SlideDown(q.index, i)
    BY <1>2, <1>n DEF SlideDown
  <2>8. q.index = -1 => index = -1
    BY <1>2
  <2> HIDE DEF index
  <2>9. [q EXCEPT !.items = items, !.index = index, !.history = history]
        = [items |-> items, index |-> index, order |-> q.order,
           history |-> history, repeat |-> q.repeat, shuffling |-> q.shuffling]
    BY SetList DEF QueueOK, Sketch
  <2>10. Leaves(r, items, index, history)
    BY <2>1, <2>4, <2>5, <2>9, EditShape
  <2>11. Length(r) = Length(q) - 1 /\ Length(r) \in Nat
    BY <2>1, <2>10, <1>2, <1>n DEF Leaves, Length
  <2>12. Removed(q, r, i)
    <3>1. \A h \in (0..(Length(q) - 1)) \ {i} : at(r, SlideDown(h, i)) = at(q, h)
      BY <2>6, <2>10, <2>11, <1>n DEF Leaves, at
    <3> QED
      BY <3>1, <2>10 DEF Leaves, Removed, history
  <2>13. KeepsCurrent(q, r)
    <3>1. CASE q.index = i
      <4>1. current(q) = q.items[i + 1]
        BY <3>1, <1>2 DEF current, at
      <4>2. ToSet(items) = {items[k] : k \in 1..Len(items)}
        BY <2>1, LenProperties DEF ToSet
      <4> QED
        BY <2>3, <2>10, <4>1, <4>2 DEF Leaves, KeepsCurrent
    <3>2. CASE q.index # i
      <4>1. q.index >= 0 => /\ r.index \in 0..(Length(r) - 1)
                            /\ r.items[r.index + 1] = q.items[q.index + 1]
        <5>1. q.index >= 0 => q.index \in (0..(Length(q) - 1)) \ {i}
          BY <3>2, <1>n
        <5>2. q.index >= 0 => /\ index \in 0..(Length(q) - 2)
                              /\ items[index + 1] = q.items[q.index + 1]
          BY <3>2, <5>1, <2>6, <2>7
        <5> QED
          BY <5>2, <2>10, <2>11, <1>n DEF Leaves
      <4>2. q.index = -1 => r.index = -1
        BY <2>8, <2>10 DEF Leaves
      <4>3. current(r) = current(q)
        BY <4>1, <4>2, <2>11, SameCurrent
      <4> QED
        BY <4>3 DEF KeepsCurrent
    <3> QED
      BY <3>1, <3>2
  <2> QED
    BY <2>1, <2>3, <2>10, <2>12, <2>13, <1>n DEF Leaves
<1> QED
  BY <1>1, <1>2

(***************************************************************************)
(* The lists a user starts or a snapshot restores name each entry once.    *)
(***************************************************************************)
LEMMA BatchNoRepeats ==
  ASSUME NEW q, NEW n \in Int, NEW s \in Batches(q, n)
  PROVE  NoRepeats(s)
<1>1. s \in [1..n -> Absent(q)] /\ \A j, k \in 1..n : s[j] = s[k] => j = k
  BY DEF Batches
<1>2. s \in Seq(Entries)
  BY BatchesAreSequences
<1>3. 1..n = 1..Len(s)
  BY <1>1, <1>2, LenProperties
<1> QED
  BY <1>1, <1>3 DEF NoRepeats

(* play_sequence leaves such a list and no history, or all as it was. *)
LEMMA PlayNoRepeats ==
  ASSUME NEW q, QueueOK(q), NoRepeats(q.items), NEW items \in Seq(Entries), NoRepeats(items),
         NEW start \in Int, NEW r \in play_sequence(q, items, start)
  PROVE  NoRepeats(r.items) /\ (items # <<>> => r.history = <<>>)
<1>1. CASE items = <<>>
  BY <1>1 DEF play_sequence
<1>2. CASE items # <<>>
  <2>1. Len(items) \in Nat /\ Len(items) > 0
    BY <1>2, LenProperties, EmptySeq
  <2>2. Clamp(start, 0, Len(items) - 1) \in -1..(Len(items) - 1)
    BY <2>1 DEF Clamp
  <2>3. [q EXCEPT !.items = items, !.index = Clamp(start, 0, Len(items) - 1),
                  !.history = <<>>]
        = [items |-> items, index |-> Clamp(start, 0, Len(items) - 1), order |-> q.order,
           history |-> <<>>, repeat |-> q.repeat, shuffling |-> q.shuffling]
    BY SetList DEF QueueOK, Sketch
  <2>4. Leaves(r, items, Clamp(start, 0, Len(items) - 1), <<>>)
    BY <1>2, <2>2, <2>3, EditShape DEF play_sequence
  <2> QED
    BY <2>4 DEF Leaves
<1> QED
  BY <1>1, <1>2

(* play_now leaves a list of one entry, and no history. *)
LEMMA PlayNowNoRepeats ==
  ASSUME NEW q, QueueOK(q), NEW e \in Entries, NEW r \in play_now(q, e)
  PROVE  NoRepeats(r.items) /\ r.history = <<>>
<1>1. [q EXCEPT !.items = <<e>>, !.index = 0, !.history = <<>>]
      = [items |-> <<e>>, index |-> 0, order |-> q.order,
         history |-> <<>>, repeat |-> q.repeat, shuffling |-> q.shuffling]
  BY SetList DEF QueueOK, Sketch
<1>2. <<e>> \in Seq(Entries) /\ 0 \in -1..(Len(<<e>>) - 1)
  OBVIOUS
<1>3. Leaves(r, <<e>>, 0, <<>>)
  BY <1>1, <1>2, EditShape DEF play_now
<1> QED
  BY <1>3 DEF Leaves, NoRepeats

-----------------------------------------------------------------------------
(***************************************************************************)
(* The list of an empty queue repeats nothing, and no operation makes it   *)
(* repeat an entry, one case per action.                                   *)
(***************************************************************************)
LEMMA EditInit == Init => EditInv
<1>1. Len(<<>>) = 0
  BY EmptySeq
<1> QED
  BY <1>1, InitOK DEF Init, EditInv, EmptyQueue, NoRepeats

(* Every operation keeps the list free of repetitions. *)
LEMMA EditStep == EditInv /\ [Next]_vars => EditInv'
<1> SUFFICES ASSUME EditInv, [Next]_vars PROVE NoRepeats(queue.items)'
  BY StepOK DEF EditInv
<1>i. QueueOK(queue) /\ NoRepeats(queue.items)
  BY DEF EditInv, Inv
<1>1. CASE PlaySequence
  <2>1. PICK items \in Batches(EmptyQueue, MaxItems), start \in Starts :
          queue' \in play_sequence(queue, items, start)
    BY <1>1 DEF PlaySequence
  <2>2. items \in Seq(Entries) /\ NoRepeats(items) /\ start \in Int
    BY <2>1, BatchesAreSequences, BatchNoRepeats, MaxItemsAssumption DEF Starts
  <2> QED
    BY <1>i, <2>1, <2>2, PlayNoRepeats
<1>2. CASE PlayNow
  BY <1>i, <1>2, PlayNowNoRepeats DEF PlayNow
<1>3. CASE PlayNext
  BY <1>i, <1>3, PlayNextKeeps DEF PlayNext
<1>4. CASE EnqueueMany
  BY <1>i, <1>4, EnqueueKeeps DEF EnqueueMany
<1>5. CASE GoNext
  <2>1. PICK r \in next(queue) : queue' = r.queue
    BY <1>5 DEF GoNext
  <2> QED
    BY <1>i, <2>1, NextItems
<1>6. CASE GoPrevious
  <2>1. PICK r \in previous(queue) : queue' = r.queue
    BY <1>6 DEF GoPrevious
  <2> QED
    BY <1>i, <2>1, PreviousItems
<1>7. CASE MoveTo
  <2>1. PICK i \in -1..MaxItems : queue' = move_to(queue, i)
    BY <1>7 DEF MoveTo
  <2>2. [queue EXCEPT !.index = i].items = queue.items
    BY <1>i, SetIndex DEF QueueOK, Sketch
  <2> QED
    BY <1>i, <2>1, <2>2 DEF move_to
<1>8. CASE MoveItem
  <2>1. PICK from, to \in -1..MaxItems : queue' \in move_item(queue, from, to)
    BY <1>8 DEF MoveItem
  <2> QED
    BY <1>i, <2>1, MoveItemKeeps
<1>9. CASE RemoveEntry
  BY <1>i, <1>9, RemoveKeeps DEF RemoveEntry
<1>10. CASE SetShuffle
  BY <1>i, <1>10, ShuffleItems DEF SetShuffle
<1>11. CASE SetRepeat
  <2>1. PICK mode \in Modes : queue' = set_repeat(queue, mode)
    BY <1>11 DEF SetRepeat
  <2>2. set_repeat(queue, mode).items = queue.items
    BY <1>i DEF set_repeat, QueueOK, Sketch, IsQueue
  <2> QED
    BY <1>i, <2>1, <2>2
<1>12. CASE Clear
  <2>1. clear(queue).items = <<>> /\ Len(<<>>) = 0
    BY <1>i, EmptySeq DEF clear, QueueOK, Sketch, IsQueue
  <2> QED
    BY <1>12, <2>1 DEF Clear, NoRepeats
<1>13. CASE Restore
  <2>1. PICK items \in Batches(EmptyQueue, MaxItems - 1), mode \in Modes, shuffle \in BOOLEAN :
          \E i \in 0..(Len(items) - 1) :
            queue' \in IF shuffle
                         THEN set_shuffle(set_all(set_repeat(queue, mode), items, i), TRUE)
                         ELSE {set_all(set_repeat(queue, mode), items, i)}
    BY <1>13 DEF Restore, RestoreInto
  <2>2. PICK i \in 0..(Len(items) - 1) :
            queue' \in IF shuffle
                         THEN set_shuffle(set_all(set_repeat(queue, mode), items, i), TRUE)
                         ELSE {set_all(set_repeat(queue, mode), items, i)}
    BY <2>1
  <2>3. items \in Seq(Entries) /\ NoRepeats(items)
    BY <2>1, BatchesAreSequences, BatchNoRepeats, MaxItemsAssumption
  <2> DEFINE base == set_repeat(queue, mode)
             loaded == set_all(base, items, i)
  <2>4. QueueOK(base) /\ ~base.shuffling
    <3>1. ~queue.shuffling
      BY <1>13 DEF Restore, EmptyQueue
    <3>2. QueueOK(base) /\ base.shuffling = queue.shuffling
      BY <1>i, RepeatOK, ModesAssumption
    <3> QED
      BY <3>1, <3>2, Zenon
  <2> HIDE DEF base
  <2>5. i \in -1..(Len(items) - 1)
    BY <2>2
  <2>6. QueueOK(loaded)
    BY <2>3, <2>4, <2>5, SetAllOK
  <2>7. loaded.items = items
    <3>1. loaded = [items |-> items, index |-> i, order |-> base.order,
                    history |-> base.history, repeat |-> base.repeat,
                    shuffling |-> base.shuffling]
      BY <2>4, SetCursor DEF set_all, QueueOK, Sketch
    <3> QED
      BY <3>1
  <2> HIDE DEF loaded
  <2>8. queue' \in IF shuffle THEN set_shuffle(loaded, TRUE) ELSE {loaded}
    BY <2>2 DEF loaded, base
  <2>9. queue'.items = items
    BY <2>6, <2>7, <2>8, ShuffleItems
  <2> QED
    BY <2>3, <2>9
<1>14. CASE UNCHANGED vars
  BY <1>i, <1>14 DEF vars
<1> QED
  BY <1>1, <1>2, <1>3, <1>4, <1>5, <1>6, <1>7, <1>8, <1>9, <1>10, <1>11, <1>12, <1>13, <1>14
     DEF Next

(***************************************************************************)
(* Inserting, appending, reordering and removing another entry leave the   *)
(* current entry current: the index arithmetic of play_next, move_item and *)
(* remove_at (src/player/queue.rs) follows the entry that plays, for every *)
(* list and every cursor, with and without shuffle.                        *)
(***************************************************************************)
THEOREM EditsAlwaysKeepCurrent == Spec => EditsKeepCurrent
<1> DEFINE Edit == /\ PlayNext \/ EnqueueMany \/ MoveItem \/ RemoveEntry
                   /\ current(queue) \in ToSet(queue'.items)
                   => current(queue') = current(queue)
<1>1. EditInv => Edit
  <2> SUFFICES ASSUME EditInv, PlayNext \/ EnqueueMany \/ MoveItem \/ RemoveEntry
               PROVE  KeepsCurrent(queue, queue')
    BY DEF KeepsCurrent
  <2>i. QueueOK(queue) /\ NoRepeats(queue.items)
    BY DEF EditInv, Inv
  <2>1. CASE PlayNext
    BY <2>i, <2>1, PlayNextKeeps DEF PlayNext
  <2>2. CASE EnqueueMany
    BY <2>i, <2>2, EnqueueKeeps DEF EnqueueMany
  <2>3. CASE MoveItem
    <3>1. PICK from, to \in -1..MaxItems : queue' \in move_item(queue, from, to)
      BY <2>3 DEF MoveItem
    <3> QED
      BY <2>i, <3>1, MoveItemKeeps
  <2>4. CASE RemoveEntry
    BY <2>i, <2>4, RemoveKeeps DEF RemoveEntry
  <2> QED
    BY <2>1, <2>2, <2>3, <2>4
<1>2. EditInv => [Edit]_vars
  BY <1>1
<1> QED
  BY <1>2, EditInit, EditStep, PTL DEF Spec, EditsKeepCurrent

-----------------------------------------------------------------------------
(***************************************************************************)
(* What next() does to a queue: it stays at the end of the line, follows   *)
(* the list, follows the presentation order, or wraps a shuffled pass into *)
(* a new one.                                                              *)
(***************************************************************************)
AtPassEnd(q) == PositionInOrder(q, q.index) \in {0, Len(q.order)}

Stays(q, r) ==
  /\ r.item = NoEntry /\ r.queue.index = q.index /\ r.queue.order = q.order

FollowsList(q, r) ==
  /\ ~q.shuffling
  /\ IF q.index + 1 < Length(q) THEN r.item = at(q, q.index + 1)
     ELSE q.repeat = "all" /\ r.item = at(q, 0)

FollowsOrder(q, r) ==
  LET pos == PositionInOrder(q, q.index)
  IN  /\ q.shuffling /\ Length(q) > 0 /\ pos > 0 /\ pos < Len(q.order)
      /\ r.queue.index = q.order[pos + 1] /\ r.queue.order = q.order
      /\ r.item = at(q, q.order[pos + 1])

Wraps(q, r) ==
  /\ q.shuffling /\ Length(q) > 0 /\ q.repeat = "all" /\ AtPassEnd(q)
  /\ r.queue.order \in shuffle_order(Length(q), q.index)
  /\ r.queue.index = r.queue.order[1]
  /\ r.item = at(q, r.queue.order[1])

LEMMA NextShape ==
  ASSUME NEW q, QueueOK(q), NEW r \in next(q)
  PROVE  /\ r.queue.shuffling = q.shuffling
         /\ Stays(q, r) \/ FollowsList(q, r) \/ FollowsOrder(q, r) \/ Wraps(q, r)
<1>n. Length(q) \in Nat
  BY LenProperties DEF QueueOK, Sketch, Length
<1>i. q.index \in -1..(Length(q) - 1)
  BY DEF QueueOK, Sketch, IndexOK
<1>1. PICK p \in peek_next_index(q) : r = Navigated(p)
  BY DEF next
<1> DEFINE h == push_history(q)
<1>h. /\ QueueOK(h) /\ h.items = q.items /\ h.index = q.index
      /\ h.order = q.order /\ h.shuffling = q.shuffling /\ h.repeat = q.repeat
  <2>1. \E x : push_history(q) = [q EXCEPT !.history = x]
    BY DEF push_history
  <2> QED
    BY <2>1, HistoryOK, SMTT(30)
<1>l. Length(h) = Length(q) /\ \A k : at(h, k) = at(q, k)
  BY <1>h DEF Length, at
<1>p. PositionInOrder(h, h.index) = PositionInOrder(q, q.index)
  BY <1>h DEF PositionInOrder
<1>q. ASSUME NEW x, QueueOK(x)
      PROVE  /\ [x EXCEPT !.index = p.target].index = p.target
             /\ [x EXCEPT !.index = p.target].order = x.order
             /\ [x EXCEPT !.index = p.target].shuffling = x.shuffling
  BY <1>q, SetIndex DEF QueueOK, Sketch
<1>m. ASSUME NEW x, QueueOK(x), p.queue = x
      PROVE  /\ r.queue.index = IF p.target = NoIndex THEN x.index ELSE p.target
             /\ r.queue.order = x.order /\ r.queue.shuffling = x.shuffling
             /\ r.item = IF p.target = NoIndex THEN NoEntry ELSE at(x, p.target)
  BY <1>m, <1>q, <1>1 DEF Navigated, MoveCursor
<1> HIDE DEF h
<1>2. CASE Length(q) = 0
  <2>1. p = [queue |-> q, target |-> NoIndex]
    BY <1>2 DEF peek_next_index
  <2> QED
    BY <2>1, <1>m DEF Stays
<1>3. CASE Length(q) > 0 /\ ~q.shuffling
  <2>1. p = [queue |-> h, target |-> next_index_under_repeat(h.index, Length(h), h.repeat)]
    BY <1>3 DEF peek_next_index, h
  <2>2. p.queue = h /\ p.target = next_index_under_repeat(q.index, Length(q), q.repeat)
    BY <2>1, <1>h, <1>l
  <2>3. CASE q.index + 1 < Length(q)
    <3>1. p.target = q.index + 1 /\ p.target # NoIndex
      BY <2>2, <2>3, <1>3, <1>i DEF next_index_under_repeat, NoIndex
    <3>2. r.item = at(q, q.index + 1) /\ r.queue.shuffling = h.shuffling
      BY <3>1, <2>2, <1>m, <1>h, <1>l
    <3> QED
      BY <3>2, <2>3, <1>3, <1>h DEF FollowsList
  <2>4. CASE ~(q.index + 1 < Length(q)) /\ q.repeat = "all"
    <3>1. p.target = 0 /\ p.target # NoIndex
      BY <2>2, <2>4, <1>3, <1>i DEF next_index_under_repeat, NoIndex
    <3>2. r.item = at(q, 0) /\ r.queue.shuffling = h.shuffling
      BY <3>1, <2>2, <1>m, <1>h, <1>l
    <3> QED
      BY <3>2, <2>4, <1>3, <1>h DEF FollowsList
  <2>5. CASE ~(q.index + 1 < Length(q)) /\ q.repeat # "all"
    <3>1. p.target = NoIndex
      BY <2>2, <2>5, <1>3 DEF next_index_under_repeat
    <3> QED
      BY <3>1, <2>2, <1>m, <1>h DEF Stays
  <2> QED
    BY <2>3, <2>4, <2>5
<1>4. CASE /\ Length(q) > 0 /\ q.shuffling
           /\ PositionInOrder(q, q.index) > 0 /\ PositionInOrder(q, q.index) < Len(q.order)
  <2>1. p = [queue |-> h, target |-> h.order[PositionInOrder(h, h.index) + 1]]
    BY <1>4, <1>h, <1>p DEF peek_next_index, h
  <2>2. p.queue = h /\ p.target = q.order[PositionInOrder(q, q.index) + 1]
    BY <2>1, <1>h, <1>p
  <2>3. p.target \in 0..(Length(q) - 1)
    BY <2>2, <1>4, <1>n, NeighbourInRange
  <2>4. p.target # NoIndex
    BY <2>3 DEF NoIndex
  <2> QED
    BY <2>2, <2>4, <1>m, <1>h, <1>l, <1>4 DEF FollowsOrder
<1>5. CASE /\ Length(q) > 0 /\ q.shuffling
           /\ ~(PositionInOrder(q, q.index) > 0 /\ PositionInOrder(q, q.index) < Len(q.order))
  <2>1. p \in IF h.repeat = "all"
                THEN {[queue |-> x, target |-> x.order[1]] : x \in rebuild_order(h)}
                ELSE {[queue |-> h, target |-> NoIndex]}
    BY <1>5, <1>h, <1>p DEF peek_next_index, h
  <2>2. CASE h.repeat = "all"
    <3>1. PICK x \in rebuild_order(h) : p = [queue |-> x, target |-> x.order[1]]
      BY <2>1, <2>2
    <3>2. QueueOK(x) /\ x.items = q.items
      BY <1>h, RebuildOK DEF QueueOK
    <3>3. x.shuffling = q.shuffling /\ x.order \in shuffle_order(Length(q), q.index)
      <4>1. PICK o \in shuffle_order(Length(q), q.index) : x = [h EXCEPT !.order = o]
        BY <1>5, <1>h, <1>l DEF rebuild_order
      <4>2. x.shuffling = h.shuffling /\ x.order = o
        BY <4>1, <1>h, SetOrder DEF QueueOK, Sketch
      <4> QED
        BY <4>1, <4>2, <1>h
    <3>4. p.target \in 0..(Length(q) - 1)
      BY <3>1, <3>3, <1>5, <1>n DEF shuffle_order
    <3>5. p.target # NoIndex /\ at(x, p.target) = at(q, p.target)
      BY <3>4, <3>2 DEF NoIndex, at, Length
    <3>6. AtPassEnd(q)
      <4>1. PositionInOrder(q, q.index) # 0 => PositionInOrder(q, q.index) \in 1..Len(q.order)
        BY <1>5, NeighbourInRange
      <4> QED
        BY <4>1, <1>5, <1>n DEF AtPassEnd
    <3>7. /\ r.queue.index = p.target /\ r.queue.order = x.order
          /\ r.queue.shuffling = x.shuffling /\ r.item = at(x, p.target)
      BY <3>1, <3>2, <3>5, <1>m
    <3>8. p.target = x.order[1]
      BY <3>1
    <3> QED
      BY <3>3, <3>5, <3>6, <3>7, <3>8, <2>2, <1>5, <1>h DEF Wraps
  <2>3. CASE h.repeat # "all"
    <3>1. p.queue = h /\ p.target = NoIndex
      BY <2>1, <2>3
    <3> QED
      BY <3>1, <1>m, <1>h DEF Stays
  <2> QED
    BY <2>2, <2>3
<1> QED
  BY <1>2, <1>3, <1>4, <1>5, <1>n

(***************************************************************************)
(* The entry preloaded into the standby decoder (peek_preload_target in    *)
(* src/player/player.rs) is the one next() then moves to, in list order    *)
(* and in shuffled order, for every queue length, cursor and repeat mode;  *)
(* the one boundary left out is the wrap of a shuffled pass under          *)
(* repeat-all, where next() draws a new order.                             *)
(***************************************************************************)
THEOREM PreloadAlwaysPredictsNext == Spec => []PreloadPredictsNextInPass
<1>1. Inv => PreloadPredictsNextInPass
  <2> SUFFICES ASSUME QueueOK(queue),
                      ~(queue.shuffling /\ queue.repeat = "all" /\ AtPassEnd(queue)),
                      NEW r \in next(queue), r.item # NoEntry
               PROVE  r.item = peek_preload_target(queue, queue.index)
    BY DEF Inv, PreloadPredictsNextInPass, PreloadPredictsNext, AtPassEnd
  <2>1. FollowsList(queue, r) \/ FollowsOrder(queue, r)
    BY NextShape DEF Stays, Wraps
  <2>2. CASE FollowsList(queue, r)
    BY <2>2 DEF FollowsList, peek_preload_target
  <2>3. CASE FollowsOrder(queue, r)
    BY <2>3 DEF FollowsOrder, peek_preload_target
  <2> QED
    BY <2>1, <2>2, <2>3
<1> QED
  BY <1>1, InvHolds, PTL

-----------------------------------------------------------------------------
(***************************************************************************)
(* A shuffled pass plays every entry (ShuffledPassIsComplete).  What the   *)
(* operations keep on the way is that the entries played are those the     *)
(* presentation order names up to the cursor: next() follows the order,    *)
(* and whatever changes the list redraws it with the cursor first.         *)
(***************************************************************************)
PassInv == queue.shuffling /\ ~jumped => played = Passed(queue)

(* An operation that begins a pass meets the invariant. *)
LEMMA NewPassOK ==
  ASSUME NewPass, Begins(queue')
  PROVE  PassInv'
BY DEF NewPass, PassInv, Begins, Passed

(* Following the order one step plays the entry it names next. *)
LEMMA FollowPasses ==
  ASSUME NEW q, QueueOK(q), NEW r \in next(q), FollowsOrder(q, r)
  PROVE  Passed(r.queue) = Passed(q) \cup {r.item} /\ NoEntry \notin Passed(q) \cup {r.item}
<1> DEFINE pos == PositionInOrder(q, q.index)
           n   == r.queue
<1>1. QueueOK(n) /\ n.items = q.items /\ n.shuffling = q.shuffling
  BY NextOK, NextItems, NextShape
<1>2. /\ q.shuffling /\ Length(q) > 0 /\ pos > 0 /\ pos < Len(q.order)
      /\ n.index = q.order[pos + 1] /\ n.order = q.order /\ r.item = at(q, q.order[pos + 1])
  BY DEF FollowsOrder
<1>3. /\ Length(q) \in Nat /\ Len(q.order) = Length(q) /\ pos \in 1..(Length(q) - 1)
      /\ \A k \in 1..Length(q) : q.order[k] \in 0..(Length(q) - 1)
      /\ \A k \in 1..Length(q) : PositionInOrder(q, q.order[k]) = k
  <2>1. pos \in 1..Length(q)
    BY <1>2, NeighbourInRange
  <2> QED
    BY <2>1, <1>2, OrderIsInjective
<1>4. PositionInOrder(n, n.index) = pos + 1
  <2>1. PositionInOrder(n, n.index) = PositionInOrder(q, n.index)
    BY <1>2 DEF PositionInOrder
  <2>2. pos + 1 \in 1..Length(q)
    BY <1>3
  <2> HIDE DEF pos
  <2> QED
    BY <2>1, <2>2, <1>2, <1>3
<1>5. \A k : at(n, k) = at(q, k)
  BY <1>1 DEF at, Length
<1>6. \A k \in 1..Length(q) : at(q, q.order[k]) # NoEntry
  <2> TAKE k \in 1..Length(q)
  <2>1. q.items \in Seq(Entries) /\ q.order[k] + 1 \in 1..Len(q.items)
    BY <1>3 DEF QueueOK, Sketch, Length
  <2> QED
    BY <2>1, <1>3, ElementOfSeq, EntriesAssumption DEF at
<1> HIDE DEF pos, n
<1>7. 1..(pos + 1) = (1..pos) \cup {pos + 1} /\ 1..(pos + 1) \subseteq 1..Length(q)
  BY <1>3
<1>8. Passed(n) = {at(q, q.order[k]) : k \in 1..(pos + 1)}
  BY <1>2, <1>4, <1>5 DEF Passed
<1>9. Passed(q) = {at(q, q.order[k]) : k \in 1..pos}
  BY DEF Passed, pos
<1> QED
  BY <1>2, <1>6, <1>7, <1>8, <1>9 DEF n

(* A wrapped pass begins anew, also when the same order is drawn again. *)
LEMMA WrapPasses ==
  ASSUME NEW q, QueueOK(q), NEW r \in next(q), Wraps(q, r)
  PROVE  /\ Passed(r.queue) = {r.item} /\ r.item = current(r.queue) /\ r.item # NoEntry
         /\ r.queue.order = q.order => Passed(q) \subseteq {r.item}
<1> DEFINE n == r.queue
<1>1. QueueOK(n) /\ n.items = q.items /\ n.shuffling = q.shuffling
  BY NextOK, NextItems, NextShape
<1>2. /\ q.shuffling /\ Length(q) > 0 /\ AtPassEnd(q)
      /\ n.order \in shuffle_order(Length(q), q.index)
      /\ n.index = n.order[1] /\ r.item = at(q, n.order[1])
  BY DEF Wraps
<1>3. /\ Length(q) \in Nat /\ Length(n) = Length(q) /\ 1 \in 1..Length(q)
      /\ n.order[1] \in 0..(Length(q) - 1)
      /\ PositionInOrder(n, n.order[1]) = 1
      /\ \A k \in 1..Length(q) : PositionInOrder(q, q.order[k]) = k
      /\ Len(q.order) = Length(q)
  <2>1. n.shuffling /\ Length(n) = Length(q) /\ Length(n) > 0
    BY <1>1, <1>2 DEF Length
  <2>2. /\ Length(n) \in Nat
        /\ \A k \in 1..Length(n) : n.order[k] \in 0..(Length(n) - 1)
        /\ \A k \in 1..Length(n) : PositionInOrder(n, n.order[k]) = k
    BY <2>1, <1>1, OrderIsInjective
  <2>3. /\ Len(q.order) = Length(q)
        /\ \A k \in 1..Length(q) : PositionInOrder(q, q.order[k]) = k
    BY <1>2, OrderIsInjective
  <2> QED
    BY <2>1, <2>2, <2>3
<1>4. at(n, n.order[1]) = r.item
  BY <1>1, <1>2 DEF at, Length
<1>5. r.item # NoEntry
  <2>1. q.items \in Seq(Entries) /\ n.order[1] + 1 \in 1..Len(q.items)
    BY <1>3 DEF QueueOK, Sketch, Length
  <2> QED
    BY <2>1, <1>2, <1>3, ElementOfSeq, EntriesAssumption DEF at
<1>6. PositionInOrder(n, n.index) = 1
  BY <1>2, <1>3
<1>7. Passed(n) = {r.item}
  BY <1>4, <1>6 DEF Passed
<1>8. current(n) = r.item
  BY <1>2, <1>4 DEF current
<1>9. ASSUME n.order = q.order PROVE Passed(q) \subseteq {r.item}
  <2>1. CASE PositionInOrder(q, q.index) = 0
    BY <2>1 DEF Passed
  <2>2. CASE PositionInOrder(q, q.index) # 0
    <3>1. q.index >= 0
      <4>1. PositionInOrder(q, q.index) \in DOMAIN q.order
            /\ q.order[PositionInOrder(q, q.index)] = q.index
        BY <2>2 DEF PositionInOrder
      <4>2. /\ DOMAIN q.order = 1..Length(q)
            /\ \A k \in 1..Length(q) : q.order[k] \in 0..(Length(q) - 1)
        BY <1>2, OrderIsInjective
      <4> QED
        BY <4>1, <4>2
    <3>2. q.order[1] = q.index
      BY <3>1, <1>2, <1>9 DEF shuffle_order
    <3>3. PositionInOrder(q, q.index) = 1
      BY <3>2, <1>3
    <3>4. Passed(q) = {at(q, q.order[1])}
      BY <3>3 DEF Passed
    <3> QED
      BY <3>4, <1>2, <1>9
  <2> QED
    BY <2>1, <2>2
<1> QED
  BY <1>5, <1>7, <1>8, <1>9 DEF n

(* What was passed are entries of the list. *)
LEMMA PassedAreEntries ==
  ASSUME NEW q, QueueOK(q), q.shuffling
  PROVE  NoEntry \notin Passed(q)
<1>1. CASE Length(q) = 0
  BY <1>1, EmptyBegins
<1>2. CASE Length(q) # 0
  <2>n. Length(q) \in Nat /\ Length(q) > 0
    BY <1>2, LenProperties DEF QueueOK, Sketch, Length
  <2>1. /\ \A k \in 1..Length(q) : q.order[k] \in 0..(Length(q) - 1)
        /\ PositionInOrder(q, q.index) \in 0..Length(q)
    BY <2>n, OrderIsInjective, NeighbourInRange
  <2>2. ASSUME NEW k \in 1..PositionInOrder(q, q.index) PROVE at(q, q.order[k]) # NoEntry
    <3>1. q.order[k] \in 0..(Length(q) - 1)
      BY <2>n, <2>1
    <3>2. q.items \in Seq(Entries) /\ q.order[k] + 1 \in 1..Len(q.items)
      BY <3>1, <2>n DEF QueueOK, Sketch, Length
    <3> QED
      BY <3>1, <3>2, ElementOfSeq, EntriesAssumption DEF at
  <2> QED
    BY <2>2 DEF Passed
<1> QED
  BY <1>1, <1>2

(* A restored queue shuffles from the restored cursor on, or not at all, and
   has the history it had. *)
LEMMA RestoreBegins ==
  ASSUME QueueOK(queue), ~queue.shuffling, RestoreInto(queue)
  PROVE  Begins(queue') /\ (queue.history = <<>> => queue'.history = <<>>)
<1>0. PICK items \in Batches(EmptyQueue, MaxItems - 1), mode \in Modes, shuffle \in BOOLEAN :
        \E i \in 0..(Len(items) - 1) :
          queue' \in IF shuffle
                       THEN set_shuffle(set_all(set_repeat(queue, mode), items, i), TRUE)
                       ELSE {set_all(set_repeat(queue, mode), items, i)}
  BY DEF RestoreInto
<1>1. PICK i \in 0..(Len(items) - 1) :
        queue' \in IF shuffle
                     THEN set_shuffle(set_all(set_repeat(queue, mode), items, i), TRUE)
                     ELSE {set_all(set_repeat(queue, mode), items, i)}
  BY <1>0
<1> DEFINE base == set_repeat(queue, mode)
           loaded == set_all(base, items, i)
<1>2. QueueOK(base) /\ ~base.shuffling
  BY RepeatOK, ModesAssumption
<1>3. items \in Seq(Entries) /\ i \in -1..(Len(items) - 1)
  BY <1>0, <1>1, BatchesAreSequences, MaxItemsAssumption
<1>4. loaded.history = queue.history
  <2>1. base.history = queue.history
    BY DEF set_repeat, QueueOK, Sketch, IsQueue
  <2> HIDE DEF base
  <2> QED
    BY <1>2, <2>1, SetCursor DEF set_all, QueueOK, Sketch
<1> HIDE DEF base
<1>5. QueueOK(loaded) /\ ~loaded.shuffling
  <2>1. QueueOK(loaded)
    BY <1>2, <1>3, SetAllOK
  <2>2. loaded.shuffling = base.shuffling
    BY <1>2, SetCursor DEF set_all, QueueOK, Sketch
  <2> QED
    BY <1>2, <2>1, <2>2, Zenon
<1> HIDE DEF loaded
<1>6. queue' \in IF shuffle THEN set_shuffle(loaded, TRUE) ELSE {loaded}
  BY <1>1 DEF loaded, base
<1> QED
  BY <1>4, <1>5, <1>6, ShuffleOK, ShuffleItems DEF Begins

(* A batch of at least one entry is not empty. *)
LEMMA BatchNotEmpty ==
  ASSUME NEW q, NEW n \in Nat \ {0}, NEW s \in Batches(q, n)
  PROVE  s # <<>>
<1>1. s \in Seq(Entries) /\ DOMAIN s = 1..n
  BY BatchesAreSequences DEF Batches
<1>2. Len(s) = n
  BY <1>1, LenProperties
<1> QED
  BY <1>2, EmptySeq

(* A new queue has played nothing. *)
LEMMA PassInit == Init => PassInv
BY DEF Init, PassInv, EmptyQueue

(***************************************************************************)
(* Every operation keeps the invariant, one case per action.               *)
(***************************************************************************)
LEMMA PassStep == EditInv /\ PassInv /\ [Next]_vars => PassInv'
<1> SUFFICES ASSUME EditInv, PassInv, [Next]_vars PROVE PassInv'
  OBVIOUS
<1>i. QueueOK(queue) /\ NoRepeats(queue.items)
  BY DEF EditInv, Inv
<1>k. ASSUME queue' = queue, KeepPass PROVE PassInv'
  BY <1>k DEF KeepPass, PassInv, Passed
<1>l. ASSUME LeavePass, queue'.shuffling = queue.shuffling PROVE PassInv'
  BY <1>l DEF LeavePass, PassInv
<1>1. CASE PlaySequence
  <2>1. PICK items \in Batches(EmptyQueue, MaxItems), start \in Starts :
          queue' \in play_sequence(queue, items, start)
    BY <1>1 DEF PlaySequence
  <2>2. items \in Seq(Entries) /\ start \in Int
    BY <2>1, BatchesAreSequences, MaxItemsAssumption DEF Starts
  <2>3. items # <<>>
    BY <2>1, BatchNotEmpty, MaxItemsAssumption
  <2> QED
    BY <1>i, <1>1, <2>1, <2>2, <2>3, PlayOK, NewPassOK DEF PlaySequence
<1>2. CASE PlayNow
  BY <1>i, <1>2, PlayNowOK, NewPassOK DEF PlayNow
<1>3. CASE PlayNext
  BY <1>i, <1>3, PlayNextOK, NewPassOK DEF PlayNext, Absent
<1>4. CASE EnqueueMany
  <2>1. PICK n \in 1..(MaxItems - Length(queue)) : \E items \in Batches(queue, n) :
          queue' \in enqueue_many(queue, items) /\ KeepTrail /\ NewPass
    BY <1>4 DEF EnqueueMany
  <2>2. PICK items \in Batches(queue, n) : queue' \in enqueue_many(queue, items) /\ NewPass
    BY <2>1
  <2> QED
    BY <1>i, <2>1, <2>2, BatchesAreSequences, EnqueueOK, NewPassOK
<1>5. CASE GoNext
  <2>1. PICK r \in next(queue) :
          /\ queue' = r.queue
          /\ IF queue'.order # queue.order
               THEN NewPass
               ELSE /\ played' = IF queue.shuffling /\ ~jumped
                                   THEN (played \cup {r.item}) \ {NoEntry} ELSE {}
                    /\ UNCHANGED jumped
    BY <1>5 DEF GoNext
  <2>2. /\ r.queue.shuffling = queue.shuffling
        /\ Stays(queue, r) \/ FollowsList(queue, r) \/ FollowsOrder(queue, r) \/ Wraps(queue, r)
    BY <1>i, NextShape
  <2>3. SUFFICES ASSUME queue'.shuffling, ~jumped' PROVE played' = Passed(queue')
    BY DEF PassInv, Passed
  <2>4. queue.shuffling
    BY <2>1, <2>2, <2>3
  <2>5. CASE Stays(queue, r)
    <3>1. queue'.order = queue.order /\ queue'.index = queue.index /\ queue'.items = queue.items
      BY <1>i, <2>1, <2>5, NextItems DEF Stays
    <3>2. Passed(queue') = Passed(queue)
      BY <3>1 DEF Passed, PositionInOrder, at, Length
    <3>3. NoEntry \notin Passed(queue)
      BY <1>i, <2>4, PassedAreEntries
    <3> QED
      BY <2>1, <2>3, <2>4, <2>5, <3>1, <3>2, <3>3 DEF Stays, PassInv
  <2>6. CASE FollowsList(queue, r)
    BY <2>4, <2>6 DEF FollowsList
  <2>7. CASE FollowsOrder(queue, r)
    <3>1. Passed(r.queue) = Passed(queue) \cup {r.item} /\ NoEntry \notin Passed(queue) \cup {r.item}
      BY <1>i, <2>7, FollowPasses
    <3>2. queue'.order = queue.order
      BY <2>1, <2>7 DEF FollowsOrder
    <3> QED
      BY <2>1, <2>3, <2>4, <3>1, <3>2 DEF PassInv
  <2>8. CASE Wraps(queue, r)
    <3>1. /\ Passed(r.queue) = {r.item} /\ r.item = current(r.queue) /\ r.item # NoEntry
          /\ r.queue.order = queue.order => Passed(queue) \subseteq {r.item}
      BY <1>i, <2>8, WrapPasses
    <3>2. CASE queue'.order # queue.order
      BY <2>1, <2>3, <3>1, <3>2 DEF NewPass
    <3>3. CASE queue'.order = queue.order
      BY <2>1, <2>3, <2>4, <3>1, <3>3 DEF PassInv
    <3> QED
      BY <3>2, <3>3
  <2> QED
    BY <2>2, <2>5, <2>6, <2>7, <2>8
<1>6. CASE GoPrevious
  <2>1. PICK r \in previous(queue) : queue' = r.queue
    BY <1>6 DEF GoPrevious
  <2> QED
    BY <1>i, <1>l, <1>6, <2>1, PreviousItems DEF GoPrevious
<1>7. CASE MoveTo
  <2>1. PICK i \in -1..MaxItems : queue' = move_to(queue, i)
    BY <1>7 DEF MoveTo
  <2>2. [queue EXCEPT !.index = i].shuffling = queue.shuffling
    BY <1>i, SetIndex DEF QueueOK, Sketch
  <2> QED
    BY <1>l, <1>7, <2>1, <2>2 DEF move_to, MoveTo
<1>8. CASE MoveItem
  <2>1. PICK from, to \in -1..MaxItems : queue' \in move_item(queue, from, to)
    BY <1>8 DEF MoveItem
  <2>2. queue' # queue => Begins(queue') /\ queue'.items # queue.items
    BY <1>i, <2>1, MoveItemOK, MoveItemKeeps
  <2> QED
    BY <1>8, <2>2, <1>k, NewPassOK DEF MoveItem
<1>9. CASE RemoveEntry
  <2>1. PICK i \in -1..MaxItems : queue' \in remove_at(queue, i)
    BY <1>9 DEF RemoveEntry
  <2>2. queue' # queue => Begins(queue') /\ queue'.items # queue.items
    BY <1>i, <2>1, RemoveOK, RemoveKeeps
  <2> QED
    BY <1>9, <2>2, <1>k, NewPassOK DEF RemoveEntry
<1>10. CASE SetShuffle
  <2>1. PICK on \in BOOLEAN :
          /\ queue' \in set_shuffle(queue, on)
          /\ IF queue.shuffling = on THEN KeepTrail /\ KeepPass ELSE Forget /\ NewPass
    BY <1>10 DEF SetShuffle
  <2>2. queue.shuffling = on => queue' = queue
    BY <2>1 DEF set_shuffle
  <2> QED
    BY <1>i, <1>k, <2>1, <2>2, ShuffleOK, NewPassOK
<1>11. CASE SetRepeat
  <2>1. PICK mode \in Modes : queue' = set_repeat(queue, mode)
    BY <1>11 DEF SetRepeat
  <2>2. queue' = [items |-> queue.items, index |-> queue.index, order |-> queue.order,
                  history |-> queue.history, repeat |-> mode, shuffling |-> queue.shuffling]
    BY <1>i, <2>1 DEF set_repeat, QueueOK, Sketch, IsQueue
  <2>3. Passed(queue') = Passed(queue)
    BY <2>2 DEF Passed, PositionInOrder, at, Length
  <2> QED
    BY <1>11, <2>2, <2>3 DEF SetRepeat, KeepPass, PassInv
<1>12. CASE Clear
  <2>1. QueueOK(clear(queue)) /\ Length(clear(queue)) = 0
    BY <1>i, ClearOK, EmptySeq DEF clear, Length, QueueOK, Sketch, IsQueue
  <2> QED
    BY <1>12, <2>1, EmptyBegins, NewPassOK DEF Clear
<1>13. CASE Restore
  <2>1. NewPass
    BY <1>13 DEF Restore
  <2>2. Begins(queue')
    BY <1>i, <1>13, RestoreBegins DEF Restore, EmptyQueue
  <2> QED
    BY <2>1, <2>2, NewPassOK
<1>14. CASE UNCHANGED vars
  BY <1>k, <1>14 DEF vars, KeepPass
<1> QED
  BY <1>1, <1>2, <1>3, <1>4, <1>5, <1>6, <1>7, <1>8, <1>9, <1>10, <1>11, <1>12, <1>13, <1>14
     DEF Next

(***************************************************************************)
(* A presentation order that names each position once names every one.     *)
(***************************************************************************)
LEMMA OrderIsOnto ==
  ASSUME NEW q, QueueOK(q), q.shuffling, Length(q) > 0
  PROVE  \A i \in 0..(Length(q) - 1) : \E k \in 1..Length(q) : q.order[k] = i
<1>n. Length(q) \in Nat
  BY LenProperties DEF QueueOK, Sketch, Length
<1> DEFINE S == 1..Length(q)
           T == 0..(Length(q) - 1)
<1>1. q.order \in Injection(S, T)
  BY DEF QueueOK, OrderOK, Injection, IsInjective
<1>2. IsFiniteSet(S) /\ IsFiniteSet(T) /\ Cardinality(S) = Cardinality(T)
  BY <1>n, FS_Interval
<1>3. q.order \in Surjection(S, T)
  BY <1>1, <1>2, FS_Injection, Zenon
<1> QED
  BY <1>3 DEF Surjection

(***************************************************************************)
(* Shuffle plays every item: a pass that next() has followed from its      *)
(* start to its end has played every entry of the queue, whatever was      *)
(* inserted, removed, reordered or skipped before, for every queue length  *)
(* and every outcome of the shuffle (shuffle_order in src/player/order.rs, *)
(* and the operations of src/player/queue.rs that redraw the order).       *)
(***************************************************************************)
THEOREM ShuffledPassIsAlwaysComplete == Spec => []ShuffledPassIsComplete
<1>1. EditInv /\ PassInv => ShuffledPassIsComplete
  <2> SUFFICES ASSUME QueueOK(queue), PassInv, queue.shuffling, ~jumped, queue.index >= 0,
                      PositionInOrder(queue, queue.index) = Len(queue.order)
               PROVE  played = ToSet(queue.items)
    BY DEF EditInv, Inv, ShuffledPassIsComplete
  <2>n. /\ Length(queue) \in Nat /\ Length(queue) > 0 /\ Length(queue) = Len(queue.items)
        /\ DOMAIN queue.items = 1..Length(queue)
    BY LenProperties DEF QueueOK, Sketch, Length, IndexOK
  <2>1. /\ Len(queue.order) = Length(queue)
        /\ \A k \in 1..Length(queue) : queue.order[k] \in 0..(Length(queue) - 1)
    BY <2>n, OrderIsInjective
  <2>2. played = {at(queue, queue.order[k]) : k \in 1..Length(queue)}
    BY <2>1 DEF PassInv, Passed
  <2>3. played = {queue.items[queue.order[k] + 1] : k \in 1..Length(queue)}
    BY <2>1, <2>2 DEF at
  <2>4. ToSet(queue.items) = {queue.items[k] : k \in 1..Length(queue)}
    BY <2>n DEF ToSet
  <2>5. \A k \in 1..Length(queue) : queue.order[k] + 1 \in 1..Length(queue)
    BY <2>n, <2>1
  <2>6. \A j \in 1..Length(queue) : \E k \in 1..Length(queue) : queue.order[k] + 1 = j
    <3> TAKE j \in 1..Length(queue)
    <3>1. j - 1 \in 0..(Length(queue) - 1)
      BY <2>n
    <3>2. PICK k \in 1..Length(queue) : queue.order[k] = j - 1
      BY <3>1, <2>n, OrderIsOnto
    <3> QED
      BY <3>2
  <2> QED
    BY <2>3, <2>4, <2>5, <2>6
<1>2. Init => EditInv /\ PassInv
  BY EditInit, PassInit
<1>3. EditInv /\ PassInv /\ [Next]_vars => (EditInv /\ PassInv)'
  BY EditStep, PassStep
<1> QED
  BY <1>1, <1>2, <1>3, PTL DEF Spec

-----------------------------------------------------------------------------
(***************************************************************************)
(* retain: how it runs through a sequence, and what it leaves of two       *)
(* sequences side by side.                                                 *)
(***************************************************************************)
RetainStep(s, K, kept) ==
  [k \in 0..Len(s) |->
     IF k = 0 THEN <<>> ELSE IF k \in K THEN Append(kept[k - 1], s[k]) ELSE kept[k - 1]]

(* Such a run exists, and retain is where it ends. *)
LEMMA RetainRuns ==
  ASSUME NEW s, Len(s) \in Nat, NEW K
  PROVE  \E kept : kept = RetainStep(s, K, kept) /\ retain(s, K) = kept[Len(s)]
<1> DEFINE Runs(n, g) ==
             g = [k \in 0..n |->
                    IF k = 0 THEN <<>> ELSE IF k \in K THEN Append(g[k - 1], s[k]) ELSE g[k - 1]]
           S == {n \in Nat : \E g : Runs(n, g)}
<1>1. 0 \in S
  <2> DEFINE g == [k \in 0..0 |-> <<>>]
  <2>1. Runs(0, g)
    OBVIOUS
  <2> HIDE DEF Runs, g
  <2> QED
    BY <2>1
<1>2. ASSUME NEW n \in Nat, n \in S PROVE n + 1 \in S
  <2>1. PICK g : Runs(n, g)
    BY <1>2
  <2> DEFINE h == [k \in 0..(n + 1) |->
                     IF k = n + 1 THEN IF n + 1 \in K THEN Append(g[n], s[n + 1]) ELSE g[n]
                     ELSE g[k]]
  <2>2. \A k \in 0..n : g[k] = IF k = 0 THEN <<>>
                               ELSE IF k \in K THEN Append(g[k - 1], s[k]) ELSE g[k - 1]
    BY <2>1
  <2>3. ASSUME NEW k \in 0..(n + 1)
        PROVE  h[k] = IF k = 0 THEN <<>> ELSE IF k \in K THEN Append(h[k - 1], s[k]) ELSE h[k - 1]
    <3>1. CASE k = n + 1
      BY <3>1
    <3>2. CASE k \in 0..n
      BY <3>2, <2>2
    <3> QED
      BY <3>1, <3>2
  <2>4. h = [k \in 0..(n + 1) |-> h[k]]
    OBVIOUS
  <2> HIDE DEF h
  <2>5. Runs(n + 1, h)
    BY <2>3, <2>4
  <2> HIDE DEF Runs
  <2> QED
    BY <2>5
<1>3. Nat \subseteq S
  <2> HIDE DEF S
  <2> QED
    BY <1>1, <1>2, SuccessorsSuffice
<1>4. PICK g : Runs(Len(s), g)
  BY <1>3
<1> DEFINE kept == CHOOSE f : f = RetainStep(s, K, f)
<1>5. g = RetainStep(s, K, g)
  BY <1>4 DEF RetainStep
<1>6. kept = RetainStep(s, K, kept)
  BY <1>5
<1>7. retain(s, K) = kept[Len(s)]
  BY DEF retain, RetainStep
<1> HIDE DEF kept
<1> QED
  BY <1>6, <1>7

(***************************************************************************)
(* Two sequences of the same length, thinned out at the same positions,    *)
(* still match element by element.                                         *)
(***************************************************************************)
Alike(a, b, s, t, K) ==
  /\ Len(a) = Len(b) /\ Len(a) <= Len(s)
  /\ \A j \in 1..Len(a) : \E k \in 1..Len(s) : k \in K /\ a[j] = s[k] /\ b[j] = t[k]

(* Thinned out by retain, two sequences stay alike. *)
LEMMA RetainTogether ==
  ASSUME NEW S, NEW T, NEW s \in Seq(S), NEW t \in Seq(T), Len(s) = Len(t), NEW K
  PROVE  /\ retain(s, K) \in Seq(S) /\ retain(t, K) \in Seq(T)
         /\ Alike(retain(s, K), retain(t, K), s, t, K)
<1>n. /\ Len(s) \in Nat
      /\ \A k \in 1..Len(s) : s[k] \in S /\ t[k] \in T
  BY LenProperties, ElementOfSeq
<1>1. PICK f : f = RetainStep(s, K, f) /\ retain(s, K) = f[Len(s)]
  BY <1>n, RetainRuns
<1>2. PICK g : g = RetainStep(t, K, g) /\ retain(t, K) = g[Len(s)]
  BY <1>n, RetainRuns
<1>3. /\ \A k \in 0..Len(s) : f[k] = IF k = 0 THEN <<>>
                                     ELSE IF k \in K THEN Append(f[k - 1], s[k]) ELSE f[k - 1]
      /\ \A k \in 0..Len(s) : g[k] = IF k = 0 THEN <<>>
                                     ELSE IF k \in K THEN Append(g[k - 1], t[k]) ELSE g[k - 1]
  BY <1>1, <1>2 DEF RetainStep
<1> DEFINE Match(a, b, n) ==
             /\ a \in Seq(S) /\ b \in Seq(T) /\ Len(a) = Len(b) /\ Len(a) <= n
             /\ \A j \in 1..Len(a) : \E k \in 1..n : k \in K /\ a[j] = s[k] /\ b[j] = t[k]
           G == {n \in Nat : n <= Len(s) => Match(f[n], g[n], n)}
<1>4. 0 \in G
  <2>1. f[0] = <<>> /\ g[0] = <<>>
    BY <1>3, <1>n
  <2>2. Match(<<>>, <<>>, 0)
    BY EmptySeq
  <2> HIDE DEF Match
  <2> QED
    BY <2>1, <2>2
<1>5. ASSUME NEW n \in Nat, n \in G PROVE n + 1 \in G
  <2>1. SUFFICES ASSUME n + 1 <= Len(s) PROVE Match(f[n + 1], g[n + 1], n + 1)
    OBVIOUS
  <2>2. Match(f[n], g[n], n)
    BY <1>5, <2>1, <1>n
  <2>3. /\ f[n + 1] = IF n + 1 \in K THEN Append(f[n], s[n + 1]) ELSE f[n]
        /\ g[n + 1] = IF n + 1 \in K THEN Append(g[n], t[n + 1]) ELSE g[n]
    BY <1>3, <2>1, <1>n
  <2>4. CASE n + 1 \notin K
    <3>1. Match(f[n], g[n], n + 1)
      BY <2>2
    <3> QED
      BY <2>3, <2>4, <3>1
  <2>5. CASE n + 1 \in K
    <3> DEFINE a == f[n]
               b == g[n]
               x == Append(a, s[n + 1])
               y == Append(b, t[n + 1])
    <3>1. s[n + 1] \in S /\ t[n + 1] \in T
      BY <2>1, <1>n
    <3>2. /\ a \in Seq(S) /\ b \in Seq(T) /\ Len(a) = Len(b) /\ Len(a) <= n /\ Len(a) \in Nat
          /\ \A j \in 1..Len(a) : \E k \in 1..n : k \in K /\ a[j] = s[k] /\ b[j] = t[k]
      BY <2>2, LenProperties
    <3> HIDE DEF a, b
    <3>3. /\ x \in Seq(S) /\ y \in Seq(T) /\ Len(x) = Len(a) + 1 /\ Len(y) = Len(b) + 1
          /\ \A j \in 1..Len(a) : x[j] = a[j] /\ y[j] = b[j]
          /\ x[Len(a) + 1] = s[n + 1] /\ y[Len(a) + 1] = t[n + 1]
      BY <3>1, <3>2, AppendProperties
    <3> HIDE DEF x, y
    <3>4. ASSUME NEW j \in 1..Len(x)
          PROVE  \E k \in 1..(n + 1) : k \in K /\ x[j] = s[k] /\ y[j] = t[k]
      <4>1. CASE j \in 1..Len(a)
        <5>1. PICK k \in 1..n : k \in K /\ a[j] = s[k] /\ b[j] = t[k]
          BY <4>1, <3>2
        <5>2. k \in 1..(n + 1) /\ x[j] = a[j] /\ y[j] = b[j]
          BY <4>1, <3>3
        <5> QED
          BY <5>1, <5>2
      <4>2. CASE j = Len(a) + 1
        <5>1. n + 1 \in 1..(n + 1) /\ x[j] = s[n + 1] /\ y[j] = t[n + 1]
          BY <4>2, <3>2, <3>3
        <5> QED
          BY <5>1, <2>5
      <4> QED
        BY <4>1, <4>2, <3>2, <3>3
    <3>5. Match(x, y, n + 1)
      BY <3>2, <3>3, <3>4
    <3>6. f[n + 1] = x /\ g[n + 1] = y
      BY <2>3, <2>5 DEF x, y, a, b
    <3> HIDE DEF Match
    <3> QED
      BY <3>5, <3>6
  <2> QED
    BY <2>4, <2>5
<1> HIDE DEF Match
<1>6. Nat \subseteq G
  <2> HIDE DEF G
  <2> QED
    BY <1>4, <1>5, SuccessorsSuffice
<1>7. Match(f[Len(s)], g[Len(s)], Len(s))
  BY <1>6, <1>n
<1> QED
  BY <1>1, <1>2, <1>7 DEF Match, Alike

-----------------------------------------------------------------------------
(***************************************************************************)
(* Previous retraces what next() left (UndriftedHistoryNamesTrail).  While *)
(* no play_next has shifted it, the history is as long as the trail and    *)
(* names its entries; both are trimmed alike, so neither may exceed the    *)
(* history limit, and thinned out alike, so the list must not name an      *)
(* entry twice (NoRepeats).                                                *)
(***************************************************************************)
Tracks(q, t) ==
  /\ q.history \in Seq(Nat) /\ t \in Seq(Entries)
  /\ Len(q.history) = Len(t) /\ Len(t) <= HistoryCap
  /\ \A k \in 1..Len(t) : at(q, q.history[k]) = t[k]

HistInv == ~drifted => Tracks(queue, trail)

(* No history tracks no trail. *)
LEMMA TracksNothing ==
  ASSUME NEW q, q.history = <<>>
  PROVE  Tracks(q, <<>>)
<1>1. <<>> \in Seq(Nat) /\ <<>> \in Seq(Entries) /\ Len(<<>>) = 0
  BY EmptySeq
<1> QED
  BY <1>1, HistoryCapAssumption DEF Tracks

(* A history that tracks a trail names positions of the list. *)
LEMMA TracksInRange ==
  ASSUME NEW q, NEW t, Tracks(q, t), NEW k \in 1..Len(t)
  PROVE  q.history[k] \in 0..(Length(q) - 1) /\ t[k] \in Entries /\ t[k] # NoEntry
<1>1. t[k] \in Entries
  BY ElementOfSeq DEF Tracks
<1>2. at(q, q.history[k]) = t[k] /\ t[k] # NoEntry
  BY <1>1, EntriesAssumption DEF Tracks
<1> QED
  BY <1>1, <1>2 DEF at

(* It goes on tracking it when the entries it names stay where they are. *)
LEMMA TracksOn ==
  ASSUME NEW q, NEW t, Tracks(q, t), NEW r, r.history = q.history,
         \A k \in 1..Len(t) : at(r, q.history[k]) = at(q, q.history[k])
  PROVE  Tracks(r, t)
BY DEF Tracks

(* It follows a reordering ... *)
LEMMA MoveTracks ==
  ASSUME NEW q, QueueOK(q), NEW t, Tracks(q, t), NEW r, QueueOK(r),
         NEW from \in Int, NEW to \in Int, Reordered(q, r, from, to)
  PROVE  Tracks(r, t)
<1> DEFINE h == [k \in DOMAIN q.history |-> remap(q.history[k], from, to)]
<1>1. /\ q.history \in Seq(Nat) /\ t \in Seq(Entries) /\ Len(t) \in Nat
      /\ Len(q.history) = Len(t) /\ DOMAIN q.history = 1..Len(t)
  BY LenProperties DEF Tracks
<1>2. \A k \in 1..Len(t) : at(r, h[k]) = t[k]
  BY <1>1, TracksInRange DEF Tracks, Reordered
<1>3. \A k \in 1..Len(t) : h[k] \in Nat
  <2> TAKE k \in 1..Len(t)
  <2>1. at(r, h[k]) # NoEntry
    BY <1>2, TracksInRange
  <2>2. Length(r) \in Nat
    BY LenProperties DEF QueueOK, Sketch, Length
  <2> HIDE DEF h
  <2> QED
    BY <2>1, <2>2 DEF at
<1>4. r.history = h /\ h = [k \in 1..Len(t) |-> h[k]]
  BY <1>1 DEF Reordered
<1> HIDE DEF h
<1>5. h \in Seq(Nat) /\ Len(h) = Len(t)
  <2>1. h \in [1..Len(t) -> Nat] /\ Len(t) \in Nat
    BY <1>1, <1>3, <1>4
  <2> QED
    BY <2>1, FunctionIsSequence
<1> QED
  BY <1>1, <1>2, <1>4, <1>5 DEF Tracks

(* ... and a removal, which drops the removed entry from both. *)
LEMMA RemoveTracks ==
  ASSUME NEW q, QueueOK(q), NoRepeats(q.items), NEW t, Tracks(q, t), NEW r, QueueOK(r),
         NEW i \in 0..(Length(q) - 1), Removed(q, r, i)
  PROVE  Tracks(r, retain(t, {k \in DOMAIN t : t[k] # at(q, i)}))
<1> DEFINE K    == Survivors(q, i)
           kept == retain(q.history, K)
           left == retain(t, K)
           h    == [k \in DOMAIN kept |-> SlideDown(kept[k], i)]
<1>1. /\ q.history \in Seq(Nat) /\ t \in Seq(Entries) /\ Len(t) \in Nat
      /\ Len(q.history) = Len(t) /\ DOMAIN q.history = 1..Len(t) /\ DOMAIN t = 1..Len(t)
  BY LenProperties DEF Tracks
<1>2. {k \in DOMAIN t : t[k] # at(q, i)} = K
  <2>1. ASSUME NEW k \in 1..Len(t) PROVE (t[k] # at(q, i)) <=> (q.history[k] # i)
    <3>1. /\ q.history[k] \in 0..(Length(q) - 1) /\ Length(q) \in Nat /\ Length(q) = Len(q.items)
          /\ t[k] = q.items[q.history[k] + 1] /\ at(q, i) = q.items[i + 1]
      BY TracksInRange, LenProperties DEF Tracks, at, QueueOK, Sketch, Length
    <3>2. q.history[k] + 1 \in 1..Len(q.items) /\ i + 1 \in 1..Len(q.items)
      BY <3>1
    <3>3. q.items[q.history[k] + 1] = q.items[i + 1] => q.history[k] + 1 = i + 1
      BY <3>2 DEF NoRepeats
    <3> QED
      BY <3>1, <3>3
  <2> QED
    BY <2>1, <1>1 DEF Survivors
<1>3. /\ kept \in Seq(Nat) /\ left \in Seq(Entries)
      /\ Len(kept) = Len(left) /\ Len(kept) <= Len(t)
      /\ \A j \in 1..Len(kept) :
           \E k \in 1..Len(t) : k \in K /\ kept[j] = q.history[k] /\ left[j] = t[k]
  <2> DEFINE past == q.history
  <2>1. past \in Seq(Nat) /\ Len(past) = Len(t)
    BY <1>1
  <2> HIDE DEF K, past
  <2>2. /\ retain(past, K) \in Seq(Nat) /\ retain(t, K) \in Seq(Entries)
        /\ Alike(retain(past, K), retain(t, K), past, t, K)
    BY <1>1, <2>1, RetainTogether
  <2> QED
    BY <1>1, <2>1, <2>2 DEF past, Alike
<1>4. Len(kept) \in Nat /\ DOMAIN kept = 1..Len(kept)
  BY <1>3, LenProperties
<1>5. r.history = h
  BY DEF Removed
<1> HIDE DEF kept, left
<1>6. \A j \in 1..Len(kept) : h[j] \in Nat /\ at(r, h[j]) = left[j]
  <2> TAKE j \in 1..Len(kept)
  <2>1. PICK k \in 1..Len(t) : k \in K /\ kept[j] = q.history[k] /\ left[j] = t[k]
    BY <1>3
  <2>2. /\ kept[j] \in (0..(Length(q) - 1)) \ {i} /\ at(q, kept[j]) = left[j]
        /\ left[j] # NoEntry
    BY <2>1, TracksInRange DEF Survivors, Tracks
  <2>3. h[j] = SlideDown(kept[j], i)
    BY <1>4
  <2>4. at(r, h[j]) = left[j]
    BY <2>2, <2>3 DEF Removed
  <2>5. Length(r) \in Nat
    BY LenProperties DEF QueueOK, Sketch, Length
  <2> HIDE DEF h
  <2> QED
    BY <2>2, <2>4, <2>5 DEF at
<1>7. h \in Seq(Nat) /\ Len(h) = Len(kept)
  <2>1. h = [j \in 1..Len(kept) |-> h[j]]
    BY <1>4
  <2> HIDE DEF h
  <2>2. h \in [1..Len(kept) -> Nat] /\ Len(kept) \in Nat
    BY <2>1, <1>4, <1>6
  <2> QED
    BY <2>2, FunctionIsSequence
<1> HIDE DEF h, K
<1>8. Tracks(r, left)
  <2>1. Len(t) <= HistoryCap
    BY DEF Tracks
  <2>2. Len(left) <= HistoryCap
    BY <2>1, <1>1, <1>3, <1>4, HistoryCapAssumption
  <2> QED
    BY <2>2, <1>3, <1>5, <1>6, <1>7 DEF Tracks
<1> QED
  BY <1>2, <1>8 DEF left

-----------------------------------------------------------------------------
(***************************************************************************)
(* Navigation: next() pushes what it leaves on both stacks, previous()     *)
(* pops both down to the same entry.                                       *)
(***************************************************************************)
LEMMA NewestElements ==
  ASSUME NEW S, NEW s \in Seq(S), NEW n \in Nat \ {0}
  PROVE  /\ Newest(s, n) \in Seq(S)
         /\ Len(Newest(s, n)) = IF Len(s) > n THEN n ELSE Len(s)
         /\ \A k \in 1..Len(Newest(s, n)) :
              Newest(s, n)[k] = s[IF Len(s) > n THEN Len(s) - n + k ELSE k]
<1>n. Len(s) \in Nat /\ \A k \in 1..Len(s) : s[k] \in S
  BY LenProperties, ElementOfSeq
<1>1. CASE Len(s) > n
  <2> DEFINE t == SubSeq(s, Len(s) - n + 1, Len(s))
             from == Len(s) - n + 1
  <2>1. from \in Int /\ Len(s) \in Int /\ \A k \in from..Len(s) : s[k] \in S
    BY <1>n, <1>1
  <2>2. /\ SubSeq(s, from, Len(s)) \in Seq(S)
        /\ Len(SubSeq(s, from, Len(s))) = IF from <= Len(s) THEN Len(s) - from + 1 ELSE 0
        /\ \A k \in 1..(Len(s) - from + 1) : SubSeq(s, from, Len(s))[k] = s[from + k - 1]
    <3> HIDE DEF from
    <3> QED
      BY <2>1, SubSeqProperties
  <2>3. /\ t \in Seq(S) /\ Len(t) = n
        /\ \A k \in 1..n : t[k] = s[Len(s) - n + k]
    <3>1. from <= Len(s) /\ Len(s) - from + 1 = n
      BY <1>n, <1>1
    <3>2. \A k \in 1..n : from + k - 1 = Len(s) - n + k
      BY <1>n
    <3> QED
      BY <2>2, <3>1, <3>2
  <2> HIDE DEF t
  <2> QED
    BY <2>3, <1>1 DEF Newest, t
<1>2. CASE ~(Len(s) > n)
  BY <1>2 DEF Newest
<1> QED
  BY <1>1, <1>2

(* The history next() leaves is the one it was called with, or pushed on. *)
LEMMA NextHistory ==
  ASSUME NEW q, QueueOK(q), NEW r \in next(q)
  PROVE  r.queue.history = IF Length(q) = 0 THEN q.history ELSE push_history(q).history
<1>1. PICK p \in peek_next_index(q) : r = Navigated(p)
  BY DEF next
<1> DEFINE h == push_history(q)
<1>h. QueueOK(h)
  <2>1. \E x : push_history(q) = [q EXCEPT !.history = x]
    BY DEF push_history
  <2> QED
    BY <2>1, HistoryOK, SMTT(30)
<1>2. IF Length(q) = 0 THEN p.queue = q ELSE p.queue = h \/ p.queue \in rebuild_order(h)
  BY DEF peek_next_index
<1> HIDE DEF h
<1>3. IsQueue(p.queue) /\ p.queue.history = IF Length(q) = 0 THEN q.history ELSE h.history
  <2>1. CASE Length(q) # 0 /\ p.queue \in rebuild_order(h)
    <3>1. QueueOK(p.queue) /\ p.queue.history = h.history
      BY <1>h, <2>1, RebuildOK DEF QueueOK
    <3> QED
      BY <2>1, <3>1 DEF QueueOK, Sketch
  <2> QED
    BY <1>2, <1>h, <2>1 DEF QueueOK, Sketch
<1>4. [p.queue EXCEPT !.index = p.target].history = p.queue.history
  BY <1>3, SetIndex
<1> QED
  BY <1>1, <1>3, <1>4 DEF Navigated, MoveCursor, h

(* next() keeps track. *)
LEMMA NextTracks ==
  ASSUME NEW q, QueueOK(q), NEW t, Tracks(q, t), NEW r \in next(q)
  PROVE  Tracks(r.queue, IF current(q) = NoEntry THEN t
                         ELSE Newest(Append(t, current(q)), HistoryCap))
<1>n. /\ Length(q) \in Nat /\ q.items \in Seq(Entries) /\ q.index \in -1..(Length(q) - 1)
      /\ Length(q) = Len(q.items)
  BY LenProperties DEF QueueOK, Sketch, Length, IndexOK
<1>t. /\ q.history \in Seq(Nat) /\ t \in Seq(Entries) /\ Len(t) \in Nat
      /\ Len(q.history) = Len(t) /\ Len(t) <= HistoryCap
      /\ \A k \in 1..Len(t) : at(q, q.history[k]) = t[k]
  BY LenProperties DEF Tracks
<1>1. \A i : at(r.queue, i) = at(q, i)
  BY NextItems DEF at, Length
<1>2. CASE q.index = -1
  <2>1. current(q) = NoEntry
    BY <1>2 DEF current, at
  <2>2. push_history(q).history = q.history
    <3>1. ~(Len(q.history) - HistoryCap > 0)
      BY <1>t, HistoryCapAssumption
    <3>2. push_history(q) = [q EXCEPT !.history = q.history]
      BY <1>2, <3>1 DEF push_history
    <3> QED
      BY <3>2, HistoryOK
  <2>3. r.queue.history = q.history
    BY <2>2, NextHistory
  <2> QED
    BY <2>1, <2>3, <1>1, TracksOn
<1>3. CASE q.index >= 0
  <2> DEFINE e == current(q)
             h == Append(q.history, q.index)
             u == Append(t, e)
             n == IF Len(u) > HistoryCap THEN HistoryCap ELSE Len(u)
             p == IF Len(u) > HistoryCap THEN Len(u) - HistoryCap ELSE 0
  <2>1. e \in Entries /\ e # NoEntry /\ at(q, q.index) = e /\ q.index \in Nat /\ Length(q) # 0
    <3>1. q.index + 1 \in 1..Len(q.items) /\ e = q.items[q.index + 1]
      BY <1>3, <1>n DEF current, at
    <3> QED
      BY <3>1, <1>3, <1>n, ElementOfSeq, EntriesAssumption DEF current
  <2> HIDE DEF e
  <2>2. /\ h \in Seq(Nat) /\ Len(h) = Len(t) + 1 /\ h[Len(t) + 1] = q.index
        /\ \A k \in 1..Len(t) : h[k] = q.history[k]
    BY <1>t, <2>1, AppendProperties
  <2>3. /\ u \in Seq(Entries) /\ Len(u) = Len(t) + 1 /\ u[Len(t) + 1] = e
        /\ \A k \in 1..Len(t) : u[k] = t[k]
    BY <1>t, <2>1, AppendProperties
  <2>4. r.queue.history = Newest(h, HistoryCap)
    <3>1. push_history(q) = [q EXCEPT !.history = Newest(h, HistoryCap)]
      <4>1. /\ Len(h) - HistoryCap > 0 <=> Len(h) > HistoryCap
            /\ Len(h) - HistoryCap + 1 = (Len(h) - HistoryCap) + 1
        BY <2>2, <1>t, HistoryCapAssumption
      <4> QED
        BY <4>1, <1>3 DEF push_history, Newest
    <3>2. r.queue.history = push_history(q).history
      BY <2>1, NextHistory
    <3> QED
      BY <3>1, <3>2, HistoryOK
  <2> HIDE DEF h, u
  <2>5. \A k \in 1..Len(u) : at(q, h[k]) = u[k]
    <3> TAKE k \in 1..Len(u)
    <3>1. CASE k \in 1..Len(t)
      BY <3>1, <1>t, <2>2, <2>3
    <3>2. CASE k = Len(t) + 1
      BY <3>2, <2>1, <2>2, <2>3
    <3> QED
      BY <3>1, <3>2, <1>t, <2>3
  <2>6. /\ Newest(h, HistoryCap) \in Seq(Nat) /\ Len(Newest(h, HistoryCap)) = n
        /\ \A k \in 1..n : Newest(h, HistoryCap)[k] = h[p + k]
    <3>1. /\ Newest(h, HistoryCap) \in Seq(Nat)
          /\ Len(Newest(h, HistoryCap)) = IF Len(h) > HistoryCap THEN HistoryCap ELSE Len(h)
          /\ \A k \in 1..Len(Newest(h, HistoryCap)) :
               Newest(h, HistoryCap)[k]
                 = h[IF Len(h) > HistoryCap THEN Len(h) - HistoryCap + k ELSE k]
      BY <2>2, HistoryCapAssumption, NewestElements
    <3>2. Len(h) = Len(u) /\ Len(u) \in Nat
      BY <2>2, <2>3, <1>t
    <3> QED
      BY <3>1, <3>2
  <2>7. /\ Newest(u, HistoryCap) \in Seq(Entries) /\ Len(Newest(u, HistoryCap)) = n
        /\ \A k \in 1..n : Newest(u, HistoryCap)[k] = u[p + k]
    <3>1. /\ Newest(u, HistoryCap) \in Seq(Entries)
          /\ Len(Newest(u, HistoryCap)) = IF Len(u) > HistoryCap THEN HistoryCap ELSE Len(u)
          /\ \A k \in 1..Len(Newest(u, HistoryCap)) :
               Newest(u, HistoryCap)[k]
                 = u[IF Len(u) > HistoryCap THEN Len(u) - HistoryCap + k ELSE k]
      BY <2>3, HistoryCapAssumption, NewestElements
    <3>2. Len(u) \in Nat
      BY <2>3, <1>t
    <3> QED
      BY <3>1, <3>2
  <2>8. n <= HistoryCap /\ \A k \in 1..n : p + k \in 1..Len(u)
    BY <2>3, <1>t, HistoryCapAssumption
  <2> HIDE DEF n, p
  <2>9. \A k \in 1..n : at(r.queue, Newest(h, HistoryCap)[k]) = Newest(u, HistoryCap)[k]
    BY <1>1, <2>5, <2>6, <2>7, <2>8
  <2>10. Tracks(r.queue, Newest(u, HistoryCap))
    BY <2>4, <2>6, <2>7, <2>8, <2>9 DEF Tracks
  <2> QED
    BY <2>1, <2>10 DEF u, e
<1> QED
  BY <1>2, <1>3, <1>n

(* What previous() pops down to is the same on both stacks. *)
LEMMA PreviousTracks ==
  ASSUME NEW q, QueueOK(q), NoRepeats(q.items), NEW t, Tracks(q, t), NEW r \in previous(q),
         NEW E, E = {k \in DOMAIN t : t[k] # current(q)}
  PROVE  Tracks(r.queue, IF Length(q) = 0 THEN t
                         ELSE IF E = {} THEN <<>> ELSE SubSeq(t, 1, Max(E) - 1))
<1>n. /\ Length(q) \in Nat /\ q.items \in Seq(Entries) /\ q.index \in -1..(Length(q) - 1)
      /\ Length(q) = Len(q.items)
  BY LenProperties DEF QueueOK, Sketch, Length, IndexOK
<1>t. /\ q.history \in Seq(Nat) /\ t \in Seq(Entries) /\ Len(t) \in Nat
      /\ Len(q.history) = Len(t) /\ Len(t) <= HistoryCap
      /\ \A k \in 1..Len(t) : at(q, q.history[k]) = t[k]
      /\ DOMAIN t = 1..Len(t) /\ DOMAIN q.history = 1..Len(t)
  BY LenProperties DEF Tracks
<1>1. \A i : at(r.queue, i) = at(q, i)
  BY PreviousItems DEF at, Length
<1>2. UsableHistory(q) = E
  <2>1. ASSUME NEW k \in 1..Len(t)
        PROVE  q.history[k] \in (0..(Length(q) - 1)) \ {q.index} <=> t[k] # current(q)
    <3>1. q.history[k] \in 0..(Length(q) - 1) /\ t[k] = at(q, q.history[k]) /\ t[k] # NoEntry
      BY TracksInRange, <1>t
    <3>2. CASE q.index = -1
      <4>1. current(q) = NoEntry
        BY <3>2 DEF current, at
      <4> QED
        BY <3>1, <3>2, <4>1
    <3>3. CASE q.index >= 0
      <4>1. /\ q.history[k] + 1 \in 1..Len(q.items) /\ q.index + 1 \in 1..Len(q.items)
            /\ t[k] = q.items[q.history[k] + 1] /\ current(q) = q.items[q.index + 1]
        <5> DEFINE i == q.history[k]
        <5>1. i \in 0..(Length(q) - 1) /\ t[k] = at(q, i)
          BY <3>1
        <5>2. q.index \in 0..(Length(q) - 1)
          BY <3>3, <1>n
        <5> HIDE DEF i
        <5>3. /\ t[k] = q.items[i + 1] /\ current(q) = q.items[q.index + 1]
              /\ i + 1 \in 1..Len(q.items) /\ q.index + 1 \in 1..Len(q.items)
          BY <5>1, <5>2, <1>n DEF current, at
        <5> QED
          BY <5>3 DEF i
      <4>2. t[k] = current(q) => q.history[k] + 1 = q.index + 1
        BY <4>1 DEF NoRepeats
      <4>3. q.history[k] = q.index => t[k] = current(q)
        BY <4>1
      <4>4. q.history[k] + 1 = q.index + 1 => q.history[k] = q.index
        BY <3>1, <1>n
      <4> QED
        BY <3>1, <4>2, <4>3, <4>4
    <3> QED
      BY <3>2, <3>3, <1>n
  <2> QED
    BY <2>1, <1>t DEF UsableHistory
<1>3. PICK p \in peek_prev_index(q) : r = Navigated(p)
  BY DEF previous
<1>4. ASSUME NEW h, p.queue = [q EXCEPT !.history = h] PROVE r.queue.history = h
  <2>1. QueueOK([q EXCEPT !.history = h]) /\ [q EXCEPT !.history = h].history = h
    <3>1. [q EXCEPT !.history = h].history = h
      BY SetHistory DEF QueueOK, Sketch
    <3> QED
      BY <3>1, HistoryOK
  <2>2. [p.queue EXCEPT !.index = p.target].history = p.queue.history
    BY <1>4, <2>1, SetIndex DEF QueueOK, Sketch
  <2> QED
    BY <1>3, <1>4, <2>1, <2>2 DEF Navigated, MoveCursor
<1>5. CASE Length(q) = 0
  <2>1. r.queue = q
    BY <1>3, <1>5 DEF peek_prev_index, Navigated, MoveCursor
  <2> QED
    BY <1>5, <2>1
<1>6. CASE Length(q) # 0 /\ E = {}
  <2>1. p.queue = [q EXCEPT !.history = <<>>]
    BY <1>2, <1>3, <1>6 DEF peek_prev_index
  <2>2. r.queue.history = <<>>
    BY <1>4, <2>1
  <2> QED
    BY <1>6, <2>2, TracksNothing
<1>7. CASE Length(q) # 0 /\ E # {}
  <2>1. PICK k \in PopTo(q) :
          p = [queue  |-> [q EXCEPT !.history = SubSeq(q.history, 1, k - 1)],
               target |-> q.history[k]]
    BY <1>2, <1>3, <1>7 DEF peek_prev_index
  <2>2. p.queue = [q EXCEPT !.history = SubSeq(q.history, 1, k - 1)]
    BY <2>1
  <2>3. r.queue.history = SubSeq(q.history, 1, k - 1)
    BY <1>4, <2>2
  <2>4. k \in E /\ (\A j \in E : j <= k) /\ k \in 1..Len(t) /\ E \subseteq Nat
    BY <1>2, <1>t DEF PopTo
  <2>5. Max(E) = k
    BY <2>4 DEF Max
  <2> DEFINE h == SubSeq(q.history, 1, k - 1)
             u == SubSeq(t, 1, k - 1)
  <2>6. \A j \in 1..(k - 1) : q.history[j] \in Nat /\ t[j] \in Entries /\ j \in 1..Len(t)
    BY <2>4, <1>t, ElementOfSeq
  <2>7. k - 1 \in Nat /\ 1 \in Int /\ k - 1 \in Int /\ k - 1 <= HistoryCap
    BY <2>4, <1>t, HistoryCapAssumption
  <2>8. /\ h \in Seq(Nat) /\ Len(h) = IF 1 <= k - 1 THEN k - 1 - 1 + 1 ELSE 0
        /\ \A j \in 1..(k - 1 - 1 + 1) : h[j] = q.history[1 + j - 1]
    BY <2>6, <2>7, SubSeqProperties
  <2>9. /\ u \in Seq(Entries) /\ Len(u) = IF 1 <= k - 1 THEN k - 1 - 1 + 1 ELSE 0
        /\ \A j \in 1..(k - 1 - 1 + 1) : u[j] = t[1 + j - 1]
    BY <2>6, <2>7, SubSeqProperties
  <2> HIDE DEF h, u
  <2>10. Len(h) = k - 1 /\ Len(u) = k - 1
    BY <2>7, <2>8, <2>9
  <2>11. \A j \in 1..(k - 1) : h[j] = q.history[j] /\ u[j] = t[j]
    <3>1. \A j \in 1..(k - 1) : 1 + j - 1 = j /\ j \in 1..(k - 1 - 1 + 1)
      BY <2>7
    <3> QED
      BY <3>1, <2>8, <2>9
  <2>12. \A j \in 1..Len(u) : at(r.queue, h[j]) = u[j]
    BY <1>1, <1>t, <2>6, <2>10, <2>11
  <2>13. Tracks(r.queue, u)
    BY <2>3, <2>7, <2>8, <2>9, <2>10, <2>12 DEF Tracks, h
  <2> QED
    BY <1>7, <2>5, <2>13 DEF u
<1> QED
  BY <1>5, <1>6, <1>7

-----------------------------------------------------------------------------
(* A new queue has no history. *)
LEMMA HistInit == Init => HistInv
BY TracksNothing DEF Init, HistInv, EmptyQueue

(* Whatever clears the history forgets the trail with it. *)
LEMMA ForgetOK ==
  ASSUME Forget, queue'.history = <<>>
  PROVE  HistInv'
BY TracksNothing DEF Forget, HistInv

(***************************************************************************)
(* Every operation keeps the history on the trail, one case per action.    *)
(***************************************************************************)
LEMMA HistStep == EditInv /\ HistInv /\ [Next]_vars => HistInv'
<1> SUFFICES ASSUME EditInv, HistInv, [Next]_vars PROVE HistInv'
  OBVIOUS
<1>i. QueueOK(queue) /\ NoRepeats(queue.items) /\ QueueOK(queue')
  BY StepOK DEF EditInv, Inv
<1>n. /\ Length(queue) \in Nat /\ queue.index \in -1..(Length(queue) - 1)
  BY <1>i, LenProperties DEF QueueOK, Sketch, Length, IndexOK
<1>k. ASSUME KeepTrail, queue'.history = queue.history,
             \A k \in 0..(Length(queue) - 1) : at(queue', k) = at(queue, k)
      PROVE  HistInv'
  <2> SUFFICES ASSUME ~drifted PROVE Tracks(queue', trail)
    BY <1>k DEF KeepTrail, HistInv
  <2>1. Tracks(queue, trail)
    BY DEF HistInv
  <2>2. \A k \in 1..Len(trail) : queue.history[k] \in 0..(Length(queue) - 1)
    BY <2>1, TracksInRange
  <2> QED
    BY <1>k, <2>1, <2>2, TracksOn
<1>1. CASE PlaySequence
  <2>1. PICK items \in Batches(EmptyQueue, MaxItems), start \in Starts :
          queue' \in play_sequence(queue, items, start)
    BY <1>1 DEF PlaySequence
  <2>2. items \in Seq(Entries) /\ NoRepeats(items) /\ start \in Int
    BY <2>1, BatchesAreSequences, BatchNoRepeats, MaxItemsAssumption DEF Starts
  <2>3. items # <<>>
    BY <2>1, BatchNotEmpty, MaxItemsAssumption
  <2>4. queue'.history = <<>>
    BY <1>i, <2>1, <2>2, <2>3, PlayNoRepeats
  <2> QED
    BY <1>1, <2>4, ForgetOK DEF PlaySequence
<1>2. CASE PlayNow
  BY <1>i, <1>2, PlayNowNoRepeats, ForgetOK DEF PlayNow
<1>3. CASE PlayNext
  <2>1. PICK e \in Absent(queue) :
          /\ queue' \in play_next(queue, e)
          /\ drifted' = (drifted \/ \E k \in DOMAIN queue.history : queue.history[k] > queue.index)
          /\ UNCHANGED trail
    BY <1>3 DEF PlayNext
  <2>2. SUFFICES ASSUME ~drifted' PROVE Tracks(queue', trail)
    BY <2>1 DEF HistInv
  <2>3. Tracks(queue, trail) /\ \A k \in DOMAIN queue.history : ~(queue.history[k] > queue.index)
    BY <2>1, <2>2 DEF HistInv
  <2>4. queue'.history = queue.history /\ \A i \in 0..queue.index : at(queue', i) = at(queue, i)
    BY <1>i, <2>1, PlayNextKeeps
  <2>5. \A k \in 1..Len(trail) : queue.history[k] \in 0..queue.index
    <3> TAKE k \in 1..Len(trail)
    <3>1. queue.history[k] \in 0..(Length(queue) - 1) /\ k \in DOMAIN queue.history
      BY <2>3, TracksInRange, LenProperties DEF Tracks
    <3> QED
      BY <3>1, <2>3, <1>n
  <2> QED
    BY <2>3, <2>4, <2>5, TracksOn
<1>4. CASE EnqueueMany
  <2>1. PICK n \in 1..(MaxItems - Length(queue)) : \E items \in Batches(queue, n) :
          queue' \in enqueue_many(queue, items) /\ KeepTrail /\ NewPass
    BY <1>4 DEF EnqueueMany
  <2>2. PICK items \in Batches(queue, n) : queue' \in enqueue_many(queue, items) /\ KeepTrail
    BY <2>1
  <2> QED
    BY <1>i, <1>k, <2>1, <2>2, EnqueueKeeps
<1>5. CASE GoNext
  <2>1. PICK r \in next(queue) :
          /\ queue' = r.queue
          /\ trail' = IF current(queue) = NoEntry THEN trail
                      ELSE Newest(Append(trail, current(queue)), HistoryCap)
          /\ UNCHANGED drifted
    BY <1>5 DEF GoNext
  <2> QED
    BY <1>i, <2>1, NextTracks DEF HistInv
<1>6. CASE GoPrevious
  <2>1. PICK r \in previous(queue) :
          /\ queue' = r.queue
          /\ trail' = IF Length(queue) = 0 THEN trail
                      ELSE IF Elsewhere = {} THEN <<>> ELSE SubSeq(trail, 1, Max(Elsewhere) - 1)
          /\ UNCHANGED drifted
    BY <1>6 DEF GoPrevious
  <2>2. ASSUME ~drifted PROVE Tracks(r.queue, trail')
    BY <1>i, <2>1, <2>2, PreviousTracks DEF HistInv, Elsewhere
  <2> QED
    BY <2>1, <2>2 DEF HistInv
<1>7. CASE MoveTo
  <2>1. PICK i \in -1..MaxItems : queue' = move_to(queue, i)
    BY <1>7 DEF MoveTo
  <2>2. [queue EXCEPT !.index = i]
        = [items |-> queue.items, index |-> i, order |-> queue.order,
           history |-> queue.history, repeat |-> queue.repeat, shuffling |-> queue.shuffling]
    BY <1>i, SetIndex DEF QueueOK, Sketch
  <2>3. queue'.history = queue.history /\ queue'.items = queue.items
    BY <2>1, <2>2 DEF move_to
  <2> QED
    BY <1>7, <1>k, <2>3 DEF MoveTo, at, Length
<1>8. CASE MoveItem
  <2>1. PICK from, to \in -1..MaxItems : queue' \in move_item(queue, from, to)
    BY <1>8 DEF MoveItem
  <2>2. KeepTrail
    BY <1>8 DEF MoveItem
  <2>3. CASE queue' = queue
    BY <1>k, <2>2, <2>3
  <2>4. CASE queue' # queue
    <3>1. Reordered(queue, queue', from, to)
      BY <1>i, <2>1, <2>4, MoveItemKeeps
    <3>2. ASSUME ~drifted PROVE Tracks(queue', trail)
      BY <1>i, <2>1, <3>1, <3>2, MoveTracks DEF HistInv
    <3> QED
      BY <2>2, <3>2 DEF KeepTrail, HistInv
  <2> QED
    BY <2>3, <2>4
<1>9. CASE RemoveEntry
  <2>1. PICK i \in -1..MaxItems :
          /\ queue' \in remove_at(queue, i)
          /\ UNCHANGED drifted
          /\ IF queue'.items # queue.items
               THEN trail' = retain(trail, {k \in DOMAIN trail : trail[k] # at(queue, i)})
               ELSE UNCHANGED trail
    BY <1>9 DEF RemoveEntry
  <2>2. CASE queue' = queue
    BY <1>k, <2>1, <2>2 DEF KeepTrail
  <2>3. CASE queue' # queue
    <3>1. queue'.items # queue.items /\ Removed(queue, queue', i)
      BY <1>i, <2>1, <2>3, RemoveKeeps
    <3>2. i \in 0..(Length(queue) - 1)
      BY <2>1, <2>3 DEF remove_at
    <3>3. ASSUME ~drifted PROVE Tracks(queue', trail')
      BY <1>i, <2>1, <3>1, <3>2, <3>3, RemoveTracks DEF HistInv
    <3> QED
      BY <2>1, <3>3 DEF HistInv
  <2> QED
    BY <2>2, <2>3
<1>10. CASE SetShuffle
  <2>1. PICK on \in BOOLEAN :
          /\ queue' \in set_shuffle(queue, on)
          /\ IF queue.shuffling = on THEN KeepTrail /\ KeepPass ELSE Forget /\ NewPass
    BY <1>10 DEF SetShuffle
  <2>2. queue.shuffling = on => queue' = queue
    BY <2>1 DEF set_shuffle
  <2> QED
    BY <1>i, <1>k, <2>1, <2>2, ShuffleItems, ForgetOK
<1>11. CASE SetRepeat
  <2>1. PICK mode \in Modes : queue' = set_repeat(queue, mode)
    BY <1>11 DEF SetRepeat
  <2>2. queue' = [items |-> queue.items, index |-> queue.index, order |-> queue.order,
                  history |-> queue.history, repeat |-> mode, shuffling |-> queue.shuffling]
    BY <1>i, <2>1 DEF set_repeat, QueueOK, Sketch, IsQueue
  <2>3. queue'.history = queue.history /\ queue'.items = queue.items
    BY <2>2
  <2> QED
    BY <1>11, <1>k, <2>3 DEF SetRepeat, at, Length
<1>12. CASE Clear
  <2>1. clear(queue).history = <<>>
    BY <1>i DEF clear, QueueOK, Sketch, IsQueue
  <2> QED
    BY <1>12, <2>1, ForgetOK DEF Clear
<1>13. CASE Restore
  BY <1>i, <1>13, RestoreBegins, ForgetOK DEF Restore, EmptyQueue
<1>14. CASE UNCHANGED vars
  BY <1>k, <1>14 DEF vars, KeepTrail
<1> QED
  BY <1>1, <1>2, <1>3, <1>4, <1>5, <1>6, <1>7, <1>8, <1>9, <1>10, <1>11, <1>12, <1>13, <1>14
     DEF Next

(***************************************************************************)
(* Previous retraces actual navigation: the indices on the history stack   *)
(* name, one by one, the entries that next() left, through every reorder,  *)
(* removal and append in between (remap and the slide of move_item and     *)
(* remove_at, the trim of push_history, src/player/queue.rs), for every    *)
(* queue length and every history limit.  A play_next inserted below a     *)
(* recorded index shifts what it names; nothing is claimed of the history  *)
(* from then until it is next cleared (drifted).                           *)
(***************************************************************************)
THEOREM HistoryAlwaysNamesTrail == Spec => []UndriftedHistoryNamesTrail
<1>1. HistInv => UndriftedHistoryNamesTrail
  <2> SUFFICES ASSUME Tracks(queue, trail) PROVE HistoryNamesTrail
    BY DEF HistInv, UndriftedHistoryNamesTrail
  <2>1. /\ DOMAIN queue.history = 1..Len(trail) /\ DOMAIN trail = 1..Len(trail)
        /\ trail = [k \in 1..Len(trail) |-> trail[k]]
        /\ \A k \in 1..Len(trail) : at(queue, queue.history[k]) = trail[k]
    BY LenProperties DEF Tracks
  <2> QED
    BY <2>1 DEF HistoryNamesTrail
<1>2. EditInv /\ HistInv /\ [Next]_vars => (EditInv /\ HistInv)'
  BY EditStep, HistStep
<1> QED
  BY <1>1, <1>2, EditInit, HistInit, PTL DEF Spec

=============================================================================
