---------------------------- MODULE Queue_proofs ----------------------------
(***************************************************************************)
(* What the operations of the queue do, whatever drives them: the cursor   *)
(* stays in the list and the presentation order covers it (QueueOK), for   *)
(* every set of entries, every queue length and every history limit; and   *)
(* navigation leaves the list alone.  The contents of the history stack    *)
(* are arbitrary: previous() discards what does not fit, and no fact below *)
(* depends on them.                                                        *)
(***************************************************************************)
EXTENDS Queue, SequenceTheorems, WellFoundedInduction, TLAPS

IsQueue(q) ==
  q = [items |-> q.items, index |-> q.index, order |-> q.order,
       history |-> q.history, repeat |-> q.repeat, shuffling |-> q.shuffling]

(***************************************************************************)
(* The part of the invariant an operation establishes before it redraws    *)
(* the presentation order, and the whole of it.                            *)
(***************************************************************************)
Sketch(q) ==
  /\ IsQueue(q)
  /\ q.items \in Seq(Entries)
  /\ IndexOK(q)
  /\ q.repeat \in RepeatModes
  /\ q.shuffling \in BOOLEAN

QueueOK(q) == Sketch(q) /\ OrderOK(q)

-----------------------------------------------------------------------------
(***************************************************************************)
(* Induction on the natural numbers, as a fact about sets of them, and     *)
(* what follows for the smallest and the greatest element of a finite one. *)
(***************************************************************************)
Below == OpToRel(<, Nat)

(* The relation the induction is over is "less than". *)
LEMMA BelowIsLess ==
  ASSUME NEW x \in Nat, NEW y \in Nat
  PROVE  <<x, y>> \in Below <=> x < y
  BY DEF Below, OpToRel

(* A set of numbers has a smallest one. *)
LEMMA SmallestExists ==
  ASSUME NEW S, S \subseteq Nat, S # {}
  PROVE  \E x \in S : \A y \in S : x <= y
<1>1. IsWellFoundedOn(Below, Nat)
  BY NatLessThanWellFounded, Zenon DEF Below
<1>2. PICK x \in S : \A y \in S : <<y, x>> \notin Below
  BY <1>1, WFMin
<1>3. ASSUME NEW y \in S PROVE x <= y
  <2>1. x \in Nat /\ y \in Nat /\ <<y, x>> \notin Below
    BY <1>2
  <2> QED
    BY <2>1, BelowIsLess
<1> QED
  BY <1>3

(* Induction: a set with 0 and with every successor has all the numbers. *)
LEMMA SuccessorsSuffice ==
  ASSUME NEW S, 0 \in S, \A n \in Nat : n \in S => n + 1 \in S
  PROVE  Nat \subseteq S
<1> SUFFICES ASSUME NEW m \in Nat, m \notin S PROVE FALSE
  OBVIOUS
<1> DEFINE T == {n \in Nat : n \notin S}
<1>1. PICK x \in T : \A y \in T : x <= y
  <2>1. m \in T /\ T \subseteq Nat
    OBVIOUS
  <2> HIDE DEF T
  <2> QED
    BY <2>1, SmallestExists
<1>2. x \in Nat /\ x \notin S /\ x # 0
  BY <1>1
<1>3. x - 1 \in Nat /\ x - 1 \notin S
  BY <1>2
<1> QED
  BY <1>1, <1>2, <1>3

(* A bounded set of numbers has a greatest one. *)
LEMMA GreatestExists ==
  ASSUME NEW n \in Nat, NEW S, S \subseteq 0..n, S # {}
  PROVE  \E x \in S : \A y \in S : y <= x
<1> DEFINE T == {k \in 0..n : n - k \in S}
<1>1. T \subseteq Nat /\ T # {}
  <2>1. PICK y : y \in S
    OBVIOUS
  <2>2. n - y \in T
    BY <2>1
  <2> QED
    BY <2>2
<1>2. PICK k \in T : \A j \in T : k <= j
  <2> HIDE DEF T
  <2> QED
    BY <1>1, SmallestExists
<1>3. ASSUME NEW y \in S PROVE y <= n - k
  <2>1. n - y \in T
    BY <1>3
  <2> QED
    BY <1>2, <2>1
<1> QED
  BY <1>2, <1>3

-----------------------------------------------------------------------------
(* A function over a stretch of positions is a sequence of that length. *)
LEMMA FunctionIsSequence ==
  ASSUME NEW S, NEW n \in Nat, NEW f \in [1..n -> S]
  PROVE  f \in Seq(S) /\ Len(f) = n /\ DOMAIN f = 1..n
<1>1. f \in Seq(S)
  BY SeqDef
<1>2. Len(f) \in Nat /\ DOMAIN f = 1..Len(f)
  BY <1>1, LenProperties
<1>3. 1..Len(f) = 1..n
  BY <1>2
<1>4. Len(f) = n
  BY <1>2, <1>3
<1> QED
  BY <1>1, <1>4

-----------------------------------------------------------------------------
(***************************************************************************)
(* Updates of a queue record, written out field by field.                  *)
(***************************************************************************)
LEMMA SetItems ==
  ASSUME NEW q, IsQueue(q), NEW items
  PROVE  [q EXCEPT !.items = items]
         = [items |-> items, index |-> q.index, order |-> q.order,
            history |-> q.history, repeat |-> q.repeat, shuffling |-> q.shuffling]
BY DEF IsQueue

(* An update of the cursor leaves the other fields alone. *)
LEMMA SetIndex ==
  ASSUME NEW q, IsQueue(q), NEW index
  PROVE  [q EXCEPT !.index = index]
         = [items |-> q.items, index |-> index, order |-> q.order,
            history |-> q.history, repeat |-> q.repeat, shuffling |-> q.shuffling]
BY DEF IsQueue

(* An update of the history leaves the other fields alone. *)
LEMMA SetHistory ==
  ASSUME NEW q, IsQueue(q), NEW history
  PROVE  [q EXCEPT !.history = history]
         = [items |-> q.items, index |-> q.index, order |-> q.order,
            history |-> history, repeat |-> q.repeat, shuffling |-> q.shuffling]
BY DEF IsQueue

(* An update of the presentation order leaves the other fields alone. *)
LEMMA SetOrder ==
  ASSUME NEW q, IsQueue(q), NEW order
  PROVE  [q EXCEPT !.order = order]
         = [items |-> q.items, index |-> q.index, order |-> order,
            history |-> q.history, repeat |-> q.repeat, shuffling |-> q.shuffling]
BY DEF IsQueue

(* An update of the shuffle flag leaves the other fields alone. *)
LEMMA SetShuffling ==
  ASSUME NEW q, IsQueue(q), NEW on
  PROVE  [q EXCEPT !.shuffling = on]
         = [items |-> q.items, index |-> q.index, order |-> q.order,
            history |-> q.history, repeat |-> q.repeat, shuffling |-> on]
BY DEF IsQueue

(* Replacing list and cursor, as set_all does. *)
LEMMA SetCursor ==
  ASSUME NEW q, IsQueue(q), NEW items, NEW index
  PROVE  [q EXCEPT !.items = items, !.index = index]
         = [items |-> items, index |-> index, order |-> q.order,
            history |-> q.history, repeat |-> q.repeat, shuffling |-> q.shuffling]
<1> DEFINE r == [q EXCEPT !.items = items]
<1>1. r = [items |-> items, index |-> q.index, order |-> q.order,
           history |-> q.history, repeat |-> q.repeat, shuffling |-> q.shuffling]
  BY SetItems
<1>2. [q EXCEPT !.items = items, !.index = index] = [r EXCEPT !.index = index]
  OBVIOUS
<1> HIDE DEF r
<1>3. IsQueue(r)
  BY <1>1 DEF IsQueue
<1>4. [r EXCEPT !.index = index]
      = [items |-> r.items, index |-> index, order |-> r.order,
         history |-> r.history, repeat |-> r.repeat, shuffling |-> r.shuffling]
  BY <1>3, SetIndex
<1>5. /\ r.items = items /\ r.order = q.order /\ r.history = q.history
      /\ r.repeat = q.repeat /\ r.shuffling = q.shuffling
  BY <1>1
<1> QED
  BY <1>2, <1>4, <1>5

(* Replacing list, cursor and history, as every edit does. *)
LEMMA SetList ==
  ASSUME NEW q, IsQueue(q), NEW items, NEW index, NEW history
  PROVE  [q EXCEPT !.items = items, !.index = index, !.history = history]
         = [items |-> items, index |-> index, order |-> q.order,
            history |-> history, repeat |-> q.repeat, shuffling |-> q.shuffling]
<1> DEFINE r == [q EXCEPT !.items = items, !.index = index]
<1>1. r = [items |-> items, index |-> index, order |-> q.order,
           history |-> q.history, repeat |-> q.repeat, shuffling |-> q.shuffling]
  BY SetCursor
<1>2. [q EXCEPT !.items = items, !.index = index, !.history = history]
      = [r EXCEPT !.history = history]
  OBVIOUS
<1> HIDE DEF r
<1>3. IsQueue(r)
  BY <1>1 DEF IsQueue
<1>4. [r EXCEPT !.history = history]
      = [items |-> r.items, index |-> r.index, order |-> r.order,
         history |-> history, repeat |-> r.repeat, shuffling |-> r.shuffling]
  BY <1>3, SetHistory
<1>5. /\ r.items = items /\ r.order = q.order /\ r.index = index
      /\ r.repeat = q.repeat /\ r.shuffling = q.shuffling
  BY <1>1
<1> QED
  BY <1>2, <1>4, <1>5

(* Replacing the shuffle flag and the history, as set_shuffle does. *)
LEMMA SetMode ==
  ASSUME NEW q, IsQueue(q), NEW on, NEW history
  PROVE  [q EXCEPT !.shuffling = on, !.history = history]
         = [items |-> q.items, index |-> q.index, order |-> q.order,
            history |-> history, repeat |-> q.repeat, shuffling |-> on]
<1> DEFINE r == [q EXCEPT !.shuffling = on]
<1>1. r = [items |-> q.items, index |-> q.index, order |-> q.order,
           history |-> q.history, repeat |-> q.repeat, shuffling |-> on]
  BY SetShuffling
<1>2. [q EXCEPT !.shuffling = on, !.history = history] = [r EXCEPT !.history = history]
  OBVIOUS
<1> HIDE DEF r
<1>3. IsQueue(r)
  BY <1>1 DEF IsQueue
<1>4. [r EXCEPT !.history = history]
      = [items |-> r.items, index |-> r.index, order |-> r.order,
         history |-> history, repeat |-> r.repeat, shuffling |-> r.shuffling]
  BY <1>3, SetHistory
<1>5. /\ r.items = q.items /\ r.order = q.order /\ r.index = q.index
      /\ r.repeat = q.repeat /\ r.shuffling = on
  BY <1>1
<1> QED
  BY <1>2, <1>4, <1>5

-----------------------------------------------------------------------------
(***************************************************************************)
(* Redrawing the order of a sketched queue completes the invariant, and    *)
(* leaves list and cursor alone.                                           *)
(***************************************************************************)
LEMMA RebuildOK ==
  ASSUME NEW q, Sketch(q), NEW r \in rebuild_order(q)
  PROVE  /\ QueueOK(r) /\ r.items = q.items /\ r.index = q.index
         /\ r.history = q.history
<1>n. Length(q) \in Nat
  BY LenProperties DEF Sketch, Length
<1>1. CASE q.shuffling /\ Length(q) > 0
  <2>1. PICK o \in shuffle_order(Length(q), q.index) : r = [q EXCEPT !.order = o]
    BY <1>1 DEF rebuild_order
  <2>2. r = [items |-> q.items, index |-> q.index, order |-> o,
             history |-> q.history, repeat |-> q.repeat, shuffling |-> q.shuffling]
    BY <2>1 DEF Sketch, IsQueue
  <2>3. /\ o \in [1..Length(q) -> 0..(Length(q) - 1)]
        /\ \A j, k \in 1..Length(q) : o[j] = o[k] => j = k
    BY DEF shuffle_order
  <2> QED
    BY <2>2, <2>3, <1>1 DEF QueueOK, Sketch, IsQueue, IndexOK, OrderOK, Length
<1>2. CASE ~(q.shuffling /\ Length(q) > 0)
  <2>1. r = [q EXCEPT !.order = <<>>]
    BY <1>2 DEF rebuild_order
  <2>2. r = [items |-> q.items, index |-> q.index, order |-> <<>>,
             history |-> q.history, repeat |-> q.repeat, shuffling |-> q.shuffling]
    BY <2>1 DEF Sketch, IsQueue
  <2> QED
    BY <2>2, <1>2 DEF QueueOK, Sketch, IsQueue, IndexOK, OrderOK, Length
<1> QED
  BY <1>1, <1>2

(***************************************************************************)
(* The entries that the presentation order names up to the cursor, and a   *)
(* queue whose pass has only begun: only what plays was passed.            *)
(***************************************************************************)
Passed(q) == {at(q, q.order[k]) : k \in 1..PositionInOrder(q, q.index)}

Begins(q) == q.shuffling => Passed(q) = {current(q)} \ {NoEntry}

(***************************************************************************)
(* A position of the list stands at one place of the presentation order.   *)
(***************************************************************************)
LEMMA OrderIsInjective ==
  ASSUME NEW q, QueueOK(q), q.shuffling, Length(q) > 0
  PROVE  /\ Length(q) \in Nat /\ Len(q.order) = Length(q)
         /\ DOMAIN q.order = 1..Length(q)
         /\ \A k \in 1..Length(q) : q.order[k] \in 0..(Length(q) - 1)
         /\ \A j, k \in 1..Length(q) : q.order[j] = q.order[k] => j = k
         /\ \A k \in 1..Length(q) : PositionInOrder(q, q.order[k]) = k
<1>n. Length(q) \in Nat
  BY LenProperties DEF QueueOK, Sketch, Length
<1>1. /\ q.order \in [1..Length(q) -> 0..(Length(q) - 1)]
      /\ \A j, k \in 1..Length(q) : q.order[j] = q.order[k] => j = k
  BY DEF QueueOK, OrderOK
<1>2. Len(q.order) = Length(q) /\ DOMAIN q.order = 1..Length(q)
  BY <1>1, <1>n, FunctionIsSequence
<1>3. ASSUME NEW k \in 1..Length(q) PROVE PositionInOrder(q, q.order[k]) = k
  BY <1>1, <1>2 DEF PositionInOrder
<1> QED
  BY <1>n, <1>1, <1>2, <1>3

(* There is no pass over an empty list. *)
LEMMA EmptyBegins ==
  ASSUME NEW q, QueueOK(q), Length(q) = 0
  PROVE  Begins(q) /\ (q.shuffling => Passed(q) = {})
<1>1. q.order = <<>> /\ q.index = -1
  BY DEF QueueOK, Sketch, IndexOK, OrderOK
<1>2. DOMAIN q.order = {}
  BY <1>1, EmptySeq, LenProperties
<1>3. PositionInOrder(q, q.index) = 0
  BY <1>2 DEF PositionInOrder
<1>4. Passed(q) = {} /\ current(q) = NoEntry
  BY <1>1, <1>3 DEF Passed, current, at
<1> QED
  BY <1>4 DEF Begins

(* Redrawing the order begins a pass: the cursor comes first. *)
LEMMA RebuildBegins ==
  ASSUME NEW q, Sketch(q), NEW r \in rebuild_order(q)
  PROVE  Begins(r)
<1>1. QueueOK(r) /\ r.items = q.items /\ r.index = q.index
  BY RebuildOK
<1>n. Length(r) \in Nat /\ r.index \in -1..(Length(r) - 1) /\ r.items \in Seq(Entries)
  BY <1>1, LenProperties DEF QueueOK, Sketch, Length, IndexOK
<1>2. CASE r.shuffling /\ Length(r) > 0
  <2>1. r.order \in shuffle_order(Length(q), q.index)
    <3>1. CASE q.shuffling /\ Length(q) > 0
      <4>1. PICK o \in shuffle_order(Length(q), q.index) : r = [q EXCEPT !.order = o]
        BY <3>1 DEF rebuild_order
      <4> QED
        BY <4>1, SetOrder DEF Sketch
    <3>2. CASE ~q.shuffling
      <4>1. r = [q EXCEPT !.order = <<>>]
        BY <3>2 DEF rebuild_order
      <4> QED
        BY <4>1, <3>2, <1>2, SetOrder DEF Sketch
    <3> QED
      BY <3>1, <3>2, <1>1, <1>2 DEF Length
  <2>2. CASE r.index >= 0
    <3>1. r.order[1] = r.index /\ 1 \in 1..Length(r)
      BY <2>1, <2>2, <1>1, <1>2, <1>n DEF shuffle_order
    <3>2. PositionInOrder(r, r.index) = 1
      BY <3>1, <1>1, <1>2, OrderIsInjective
    <3>3. Passed(r) = {at(r, r.order[1])}
      BY <3>2 DEF Passed
    <3>4. current(r) = r.items[r.index + 1] /\ r.index + 1 \in 1..Len(r.items)
      BY <2>2, <1>n DEF current, at, Length
    <3>5. current(r) # NoEntry
      BY <3>4, <1>n, ElementOfSeq, EntriesAssumption
    <3> QED
      BY <3>1, <3>3, <3>5 DEF Begins, current
  <2>3. CASE r.index = -1
    <3>1. \A k \in DOMAIN r.order : r.order[k] # r.index
      BY <2>3, <1>1, <1>2, OrderIsInjective
    <3>2. PositionInOrder(r, r.index) = 0
      BY <3>1 DEF PositionInOrder
    <3>3. Passed(r) = {} /\ current(r) = NoEntry
      BY <3>2, <2>3, <1>n DEF Passed, current, at
    <3> QED
      BY <3>3 DEF Begins
  <2> QED
    BY <2>2, <2>3, <1>n
<1>3. CASE r.shuffling /\ Length(r) = 0
  BY <1>1, <1>3, <1>n, EmptyBegins
<1> QED
  BY <1>2, <1>3, <1>n DEF Begins

(***************************************************************************)
(* Changing the history, or moving the cursor inside the list, keeps the   *)
(* invariant.                                                              *)
(***************************************************************************)
LEMMA HistoryOK ==
  ASSUME NEW q, QueueOK(q), NEW h
  PROVE  /\ QueueOK([q EXCEPT !.history = h])
         /\ [q EXCEPT !.history = h].items = q.items
         /\ [q EXCEPT !.history = h].index = q.index
         /\ [q EXCEPT !.history = h].order = q.order
         /\ [q EXCEPT !.history = h].shuffling = q.shuffling
         /\ [q EXCEPT !.history = h].repeat = q.repeat
<1>1. [q EXCEPT !.history = h] =
        [items |-> q.items, index |-> q.index, order |-> q.order,
         history |-> h, repeat |-> q.repeat, shuffling |-> q.shuffling]
  BY DEF QueueOK, Sketch, IsQueue
<1> QED
  BY <1>1 DEF QueueOK, Sketch, IsQueue, IndexOK, OrderOK, Length

(* Moving the cursor to a position of the list keeps the invariant. *)
LEMMA CursorOK ==
  ASSUME NEW q, QueueOK(q), NEW i \in 0..(Length(q) - 1)
  PROVE  QueueOK([q EXCEPT !.index = i])
<1>n. Length(q) \in Nat
  BY LenProperties DEF QueueOK, Sketch, Length
<1>1. [q EXCEPT !.index = i] =
        [items |-> q.items, index |-> i, order |-> q.order,
         history |-> q.history, repeat |-> q.repeat, shuffling |-> q.shuffling]
  BY DEF QueueOK, Sketch, IsQueue
<1> QED
  BY <1>1, <1>n DEF QueueOK, Sketch, IsQueue, IndexOK, OrderOK, Length

(***************************************************************************)
(* A neighbour in the presentation order is a position of the list.        *)
(***************************************************************************)
LEMMA NeighbourInRange ==
  ASSUME NEW q, QueueOK(q), q.shuffling, Length(q) > 0,
         NEW i, PositionInOrder(q, i) # 0
  PROVE  /\ PositionInOrder(q, i) \in 1..Length(q)
         /\ Len(q.order) = Length(q)
         /\ \A k \in 1..Length(q) : q.order[k] \in 0..(Length(q) - 1)
<1>n. Length(q) \in Nat
  BY LenProperties DEF QueueOK, Sketch, Length
<1>1. q.order \in [1..Length(q) -> 0..(Length(q) - 1)]
  BY DEF QueueOK, OrderOK
<1>2. Len(q.order) = Length(q)
  BY <1>1, <1>n, FunctionIsSequence
<1>3. PositionInOrder(q, i) \in DOMAIN q.order
  BY DEF PositionInOrder
<1> QED
  BY <1>1, <1>2, <1>3

(* The cursor step of next() and previous() keeps the invariant. *)
LEMMA MoveCursorOK ==
  ASSUME NEW r, QueueOK(r.queue),
         r.target \in 0..(Length(r.queue) - 1) \cup {NoIndex}
  PROVE  QueueOK(MoveCursor(r))
BY CursorOK DEF MoveCursor, NoIndex

(***************************************************************************)
(* next() and previous() keep the invariant: every target they find is a   *)
(* position of the list, also at the end of a shuffled pass.               *)
(***************************************************************************)
LEMMA NextOK ==
  ASSUME NEW q, QueueOK(q), NEW r \in next(q)
  PROVE  QueueOK(r.queue)
<1>n. Length(q) \in Nat
  BY LenProperties DEF QueueOK, Sketch, Length
<1>1. PICK p \in peek_next_index(q) : r = Navigated(p)
  BY DEF next
<1> DEFINE h == push_history(q)
<1>h. /\ QueueOK(h) /\ Length(h) = Length(q) /\ h.index = q.index
      /\ h.order = q.order /\ h.shuffling = q.shuffling
  <2>1. \E x : push_history(q) = [q EXCEPT !.history = x]
    BY DEF push_history
  <2> QED
    BY <2>1, HistoryOK, SMTT(30) DEF Length
<1>i. q.index \in -1..(Length(q) - 1)
  BY DEF QueueOK, Sketch, IndexOK
<1> HIDE DEF h
<1>2. CASE Length(q) = 0
  <2>1. p = [queue |-> q, target |-> NoIndex]
    BY <1>2 DEF peek_next_index
  <2> QED
    BY <2>1, <1>1, MoveCursorOK DEF Navigated
<1>3. CASE Length(q) > 0 /\ ~q.shuffling
  <2>1. p = [queue |-> h, target |-> next_index_under_repeat(h.index, Length(h), h.repeat)]
    BY <1>3 DEF peek_next_index, h
  <2>2. p.target \in 0..(Length(h) - 1) \cup {NoIndex}
    BY <2>1, <1>3, <1>n, <1>h, <1>i DEF next_index_under_repeat
  <2> QED
    BY <2>1, <2>2, <1>1, <1>h, MoveCursorOK DEF Navigated
<1>4. CASE /\ Length(q) > 0 /\ q.shuffling
           /\ PositionInOrder(h, h.index) > 0 /\ PositionInOrder(h, h.index) < Len(h.order)
  <2>1. p = [queue |-> h, target |-> h.order[PositionInOrder(h, h.index) + 1]]
    BY <1>4 DEF peek_next_index, h
  <2>2. /\ PositionInOrder(h, h.index) \in 1..Length(h)
        /\ Len(h.order) = Length(h)
        /\ \A k \in 1..Length(h) : h.order[k] \in 0..(Length(h) - 1)
    <3>1. h.shuffling
      BY <1>4, <1>h, Zenon
    <3>2. Length(h) > 0 /\ PositionInOrder(h, h.index) # 0
      BY <1>4, <1>h
    <3> QED
      BY <1>h, <3>1, <3>2, NeighbourInRange
  <2>4. PositionInOrder(h, h.index) + 1 \in 1..Length(h)
    BY <2>2, <1>4, <1>h, <1>n
  <2>3. p.target \in 0..(Length(h) - 1)
    BY <2>1, <2>2, <2>4
  <2> QED
    BY <2>1, <2>3, <1>1, <1>h, MoveCursorOK DEF Navigated
<1>5. CASE /\ Length(q) > 0 /\ q.shuffling
           /\ ~(PositionInOrder(h, h.index) > 0 /\ PositionInOrder(h, h.index) < Len(h.order))
  <2>1. p \in IF h.repeat = "all"
                THEN {[queue |-> x, target |-> x.order[1]] : x \in rebuild_order(h)}
                ELSE {[queue |-> h, target |-> NoIndex]}
    BY <1>5 DEF peek_next_index, h
  <2>2. CASE h.repeat = "all"
    <3>1. PICK x \in rebuild_order(h) : p = [queue |-> x, target |-> x.order[1]]
      BY <2>1, <2>2
    <3>2. QueueOK(x) /\ Length(x) = Length(q) /\ x.shuffling
      <4>1. QueueOK(x) /\ x.items = h.items
        BY <1>h, RebuildOK DEF QueueOK
      <4>2. x.shuffling
        BY <1>5, <1>h, <3>1 DEF rebuild_order, QueueOK, Sketch, IsQueue
      <4> QED
        BY <4>1, <4>2, <1>h DEF Length
    <3>3. x.order[1] \in 0..(Length(x) - 1)
      BY <3>2, <1>5, <1>n DEF QueueOK, OrderOK
    <3> QED
      BY <3>1, <3>2, <3>3, <1>1, MoveCursorOK DEF Navigated
  <2>3. CASE h.repeat # "all"
    BY <2>1, <2>3, <1>1, <1>h, MoveCursorOK DEF Navigated
  <2> QED
    BY <2>2, <2>3
<1> QED
  BY <1>2, <1>3, <1>4, <1>5, <1>n

(* previous() keeps the invariant: popped or computed, its target is in range. *)
LEMMA PreviousOK ==
  ASSUME NEW q, QueueOK(q), NEW r \in previous(q)
  PROVE  QueueOK(r.queue)
<1>n. Length(q) \in Nat
  BY LenProperties DEF QueueOK, Sketch, Length
<1>1. PICK p \in peek_prev_index(q) : r = Navigated(p)
  BY DEF previous
<1>i. q.index \in -1..(Length(q) - 1)
  BY DEF QueueOK, Sketch, IndexOK
<1> DEFINE drained == [q EXCEPT !.history = <<>>]
<1>d. QueueOK(drained) /\ Length(drained) = Length(q)
  BY HistoryOK DEF Length
<1> HIDE DEF drained
<1>2. CASE Length(q) = 0
  <2>1. p = [queue |-> q, target |-> NoIndex]
    BY <1>2 DEF peek_prev_index
  <2> QED
    BY <2>1, <1>1, MoveCursorOK DEF Navigated
<1>3. CASE Length(q) > 0 /\ UsableHistory(q) # {}
  <2>1. PICK k \in PopTo(q) :
          p = [queue  |-> [q EXCEPT !.history = SubSeq(q.history, 1, k - 1)],
               target |-> q.history[k]]
    BY <1>3 DEF peek_prev_index
  <2>2. p.target \in 0..(Length(q) - 1)
    BY <2>1 DEF PopTo, UsableHistory
  <2>3. QueueOK(p.queue) /\ Length(p.queue) = Length(q)
    BY <2>1, HistoryOK DEF Length
  <2> QED
    BY <2>2, <2>3, <1>1, MoveCursorOK DEF Navigated
<1>4. CASE Length(q) > 0 /\ UsableHistory(q) = {} /\ ~q.shuffling
  <2>1. p = [queue |-> drained, target |-> IF q.index >= 1 THEN q.index - 1 ELSE NoIndex]
    BY <1>4 DEF peek_prev_index, drained
  <2>2. p.target \in 0..(Length(q) - 1) \cup {NoIndex}
    BY <2>1, <1>i, <1>n
  <2> QED
    BY <2>1, <2>2, <1>d, <1>1, MoveCursorOK DEF Navigated
<1>5. CASE Length(q) > 0 /\ UsableHistory(q) = {} /\ q.shuffling
  <2>1. p = [queue  |-> drained,
             target |-> IF PositionInOrder(q, q.index) > 1
                          THEN q.order[PositionInOrder(q, q.index) - 1] ELSE NoIndex]
    BY <1>5 DEF peek_prev_index, drained
  <2>2. p.target \in 0..(Length(q) - 1) \cup {NoIndex}
    <3>1. CASE PositionInOrder(q, q.index) > 1
      <4>1. PositionInOrder(q, q.index) # 0
        BY <3>1
      <4>2. /\ PositionInOrder(q, q.index) \in 1..Length(q)
            /\ \A k \in 1..Length(q) : q.order[k] \in 0..(Length(q) - 1)
        BY <4>1, <1>5, NeighbourInRange
      <4> QED
        BY <4>2, <3>1, <2>1, <1>n
    <3>2. CASE ~(PositionInOrder(q, q.index) > 1)
      BY <3>2, <2>1
    <3> QED
      BY <3>1, <3>2
  <2> QED
    BY <2>1, <2>2, <1>d, <1>1, MoveCursorOK DEF Navigated
<1> QED
  BY <1>2, <1>3, <1>4, <1>5, <1>n

-----------------------------------------------------------------------------
(***************************************************************************)
(* Inserting and removing an element: the type and the length of the list. *)
(***************************************************************************)
LEMMA InsertAtOK ==
  ASSUME NEW S, NEW s \in Seq(S), NEW e \in S, NEW i \in 1..(Len(s) + 1)
  PROVE  InsertAt(s, i, e) \in Seq(S) /\ Len(InsertAt(s, i, e)) = Len(s) + 1
<1>n. Len(s) \in Nat /\ \A k \in 1..Len(s) : s[k] \in S
  BY LenProperties, ElementOfSeq
<1> DEFINE front == SubSeq(s, 1, i - 1)
           back  == SubSeq(s, i, Len(s))
<1>1. front \in Seq(S) /\ Len(front) = i - 1
  <2>1. 1 \in Int /\ i - 1 \in Int /\ \A k \in 1..(i - 1) : s[k] \in S
    BY <1>n
  <2> QED
    BY <2>1, SubSeqProperties
<1>2. back \in Seq(S) /\ Len(back) = Len(s) - i + 1
  <2>1. i \in Int /\ Len(s) \in Int /\ \A k \in i..Len(s) : s[k] \in S
    BY <1>n
  <2>2. back \in Seq(S) /\ Len(back) = IF i <= Len(s) THEN Len(s) - i + 1 ELSE 0
    BY <2>1, SubSeqProperties
  <2> QED
    BY <2>2, <1>n
<1>3. <<e>> \in Seq(S) /\ Len(<<e>>) = 1
  OBVIOUS
<1> HIDE DEF front, back
<1>4. front \o <<e>> \in Seq(S) /\ Len(front \o <<e>>) = i
  BY <1>1, <1>3, ConcatProperties
<1>5. /\ (front \o <<e>>) \o back \in Seq(S)
      /\ Len((front \o <<e>>) \o back) = Len(front \o <<e>>) + Len(back)
  BY <1>2, <1>4, ConcatProperties
<1>6. InsertAt(s, i, e) = (front \o <<e>>) \o back
  BY DEF InsertAt, front, back
<1>7. Len(InsertAt(s, i, e)) = i + (Len(s) - i + 1)
  BY <1>2, <1>4, <1>5, <1>6, Zenon
<1>8. InsertAt(s, i, e) \in Seq(S)
  BY <1>5, <1>6, Zenon
<1> QED
  BY <1>7, <1>8, <1>n

(* Removing an element: the type and the length of the list. *)
LEMMA RemoveAtOK ==
  ASSUME NEW S, NEW s \in Seq(S), NEW i \in 1..Len(s)
  PROVE  RemoveAt(s, i) \in Seq(S) /\ Len(RemoveAt(s, i)) = Len(s) - 1
<1>n. Len(s) \in Nat /\ \A k \in 1..Len(s) : s[k] \in S
  BY LenProperties, ElementOfSeq
<1> DEFINE front == SubSeq(s, 1, i - 1)
           back  == SubSeq(s, i + 1, Len(s))
<1>1. front \in Seq(S) /\ Len(front) = i - 1
  <2>1. 1 \in Int /\ i - 1 \in Int /\ \A k \in 1..(i - 1) : s[k] \in S
    BY <1>n
  <2> QED
    BY <2>1, SubSeqProperties
<1>2. back \in Seq(S) /\ Len(back) = Len(s) - i
  <2>1. i + 1 \in Int /\ Len(s) \in Int /\ \A k \in (i + 1)..Len(s) : s[k] \in S
    BY <1>n
  <2>2. back \in Seq(S) /\ Len(back) = IF i + 1 <= Len(s) THEN Len(s) - (i + 1) + 1 ELSE 0
    BY <2>1, SubSeqProperties
  <2> QED
    BY <2>2, <1>n
<1> HIDE DEF front, back
<1>3. front \o back \in Seq(S) /\ Len(front \o back) = Len(front) + Len(back)
  BY <1>1, <1>2, ConcatProperties
<1>4. RemoveAt(s, i) = front \o back
  BY DEF RemoveAt, front, back
<1>5. Len(RemoveAt(s, i)) = (i - 1) + (Len(s) - i)
  BY <1>1, <1>2, <1>3, <1>4, Zenon
<1>6. RemoveAt(s, i) \in Seq(S)
  BY <1>3, <1>4, Zenon
<1> QED
  BY <1>5, <1>6, <1>n

(***************************************************************************)
(* An operation that replaces list, cursor and history and then redraws    *)
(* the order keeps the invariant, if the new cursor fits the new list.     *)
(***************************************************************************)
LEMMA EditOK ==
  ASSUME NEW q, QueueOK(q),
         NEW items \in Seq(Entries), NEW index \in -1..(Len(items) - 1), NEW history,
         NEW r \in rebuild_order([items |-> items, index |-> index, order |-> q.order,
                                  history |-> history, repeat |-> q.repeat,
                                  shuffling |-> q.shuffling])
  PROVE  QueueOK(r) /\ Begins(r)
<1> DEFINE n == [items |-> items, index |-> index, order |-> q.order, history |-> history,
                 repeat |-> q.repeat, shuffling |-> q.shuffling]
<1>1. Sketch(n)
  BY DEF Sketch, QueueOK, IsQueue, IndexOK, Length
<1> QED
  BY <1>1, RebuildOK, RebuildBegins

(* play_sequence keeps the invariant: the start index is clamped. *)
LEMMA PlayOK ==
  ASSUME NEW q, QueueOK(q), NEW items \in Seq(Entries), NEW start \in Int,
         NEW r \in play_sequence(q, items, start)
  PROVE  QueueOK(r) /\ (items # <<>> => Begins(r))
<1>1. CASE items = <<>>
  BY <1>1 DEF play_sequence
<1>2. CASE items # <<>>
  <2>1. Len(items) \in Nat /\ Len(items) > 0
    BY <1>2, LenProperties, EmptySeq
  <2>2. Clamp(start, 0, Len(items) - 1) \in -1..(Len(items) - 1)
    BY <2>1 DEF Clamp
  <2>3. [q EXCEPT !.items = items, !.index = Clamp(start, 0, Len(items) - 1),
                  !.history = <<>>]
        = [items |-> items, index |-> Clamp(start, 0, Len(items) - 1), order |-> q.order,
           history |-> <<>>, repeat |-> q.repeat, shuffling |-> q.shuffling]
    BY SetList DEF QueueOK, Sketch
  <2> QED
    BY <1>2, <2>2, <2>3, EditOK DEF play_sequence
<1> QED
  BY <1>1, <1>2

(* play_now keeps the invariant. *)
LEMMA PlayNowOK ==
  ASSUME NEW q, QueueOK(q), NEW e \in Entries, NEW r \in play_now(q, e)
  PROVE  QueueOK(r) /\ Begins(r)
<1>1. [q EXCEPT !.items = <<e>>, !.index = 0, !.history = <<>>]
      = [items |-> <<e>>, index |-> 0, order |-> q.order,
         history |-> <<>>, repeat |-> q.repeat, shuffling |-> q.shuffling]
  BY SetList DEF QueueOK, Sketch
<1>2. <<e>> \in Seq(Entries) /\ 0 \in -1..(Len(<<e>>) - 1)
  OBVIOUS
<1> QED
  BY <1>1, <1>2, EditOK DEF play_now

(* play_next keeps the invariant, also from an empty list. *)
LEMMA PlayNextOK ==
  ASSUME NEW q, QueueOK(q), NEW e \in Entries, NEW r \in play_next(q, e)
  PROVE  QueueOK(r) /\ Begins(r)
<1>n. Length(q) \in Nat /\ q.items \in Seq(Entries) /\ q.index \in -1..(Length(q) - 1)
  BY LenProperties DEF QueueOK, Sketch, Length, IndexOK
<1>1. CASE Length(q) = 0
  <2>1. [q EXCEPT !.items = <<e>>, !.index = 0]
        = [items |-> <<e>>, index |-> 0, order |-> q.order,
           history |-> q.history, repeat |-> q.repeat, shuffling |-> q.shuffling]
    BY SetCursor DEF QueueOK, Sketch
  <2>2. <<e>> \in Seq(Entries) /\ 0 \in -1..(Len(<<e>>) - 1)
    OBVIOUS
  <2> QED
    BY <1>1, <2>1, <2>2, EditOK DEF play_next
<1>2. CASE Length(q) # 0
  <2> DEFINE at1   == Clamp(q.index + 1, 0, Length(q)) + 1
             items == InsertAt(q.items, at1, e)
  <2>1. at1 \in 1..(Length(q) + 1)
    BY <1>n DEF Clamp
  <2>2. items \in Seq(Entries) /\ Len(items) = Length(q) + 1
    BY <2>1, <1>n, InsertAtOK DEF Length
  <2>3. [q EXCEPT !.items = items]
        = [items |-> items, index |-> q.index, order |-> q.order,
           history |-> q.history, repeat |-> q.repeat, shuffling |-> q.shuffling]
    BY SetItems DEF QueueOK, Sketch
  <2>4. r \in rebuild_order([q EXCEPT !.items = items])
    BY <1>2 DEF play_next
  <2> HIDE DEF items, at1
  <2>5. q.index \in -1..(Len(items) - 1)
    BY <2>2, <1>n
  <2> QED
    BY <2>2, <2>3, <2>4, <2>5, EditOK
<1> QED
  BY <1>1, <1>2

(* enqueue_many keeps the invariant. *)
LEMMA EnqueueOK ==
  ASSUME NEW q, QueueOK(q), NEW items \in Seq(Entries), NEW r \in enqueue_many(q, items)
  PROVE  QueueOK(r) /\ Begins(r)
<1>n. /\ Length(q) \in Nat /\ Len(items) \in Nat
      /\ q.items \in Seq(Entries) /\ q.index \in -1..(Length(q) - 1)
  BY LenProperties DEF QueueOK, Sketch, Length, IndexOK
<1>1. q.items \o items \in Seq(Entries) /\ Len(q.items \o items) = Length(q) + Len(items)
  BY <1>n, ConcatProperties DEF Length
<1>2. [q EXCEPT !.items = q.items \o items]
      = [items |-> q.items \o items, index |-> q.index, order |-> q.order,
         history |-> q.history, repeat |-> q.repeat, shuffling |-> q.shuffling]
  BY SetItems DEF QueueOK, Sketch
<1>3. q.index \in -1..(Len(q.items \o items) - 1)
  BY <1>1, <1>n
<1> QED
  BY <1>1, <1>2, <1>3, EditOK DEF enqueue_many

(***************************************************************************)
(* Reordering and removal: remap and the slide keep the cursor in range.   *)
(***************************************************************************)
LEMMA MoveItemOK ==
  ASSUME NEW q, QueueOK(q), NEW from \in Int, NEW to \in Int, NEW r \in move_item(q, from, to)
  PROVE  QueueOK(r) /\ (r # q => Begins(r))
<1>n. Length(q) \in Nat /\ q.items \in Seq(Entries) /\ q.index \in -1..(Length(q) - 1)
  BY LenProperties DEF QueueOK, Sketch, Length, IndexOK
<1>1. CASE from \notin 0..(Length(q) - 1) \/ to \notin 0..(Length(q) - 1) \/ from = to
  BY <1>1 DEF move_item
<1>2. CASE ~(from \notin 0..(Length(q) - 1) \/ to \notin 0..(Length(q) - 1) \/ from = to)
  <2> DEFINE less    == RemoveAt(q.items, from + 1)
             items   == InsertAt(less, to + 1, q.items[from + 1])
             index   == remap(q.index, from, to)
             history == [k \in DOMAIN q.history |-> remap(q.history[k], from, to)]
  <2>0. from + 1 \in 1..Len(q.items) /\ Length(q) = Len(q.items)
    BY <1>2, <1>n DEF Length
  <2>1. less \in Seq(Entries) /\ Len(less) = Length(q) - 1
    BY <1>n, <2>0, RemoveAtOK
  <2>2. q.items[from + 1] \in Entries
    BY <1>2, <1>n, ElementOfSeq DEF Length
  <2>3. items \in Seq(Entries) /\ Len(items) = Length(q)
    <3> HIDE DEF less
    <3>1. to + 1 \in 1..(Len(less) + 1)
      BY <2>1, <1>2, <1>n
    <3> QED
      BY <2>1, <2>2, <3>1, <1>n, InsertAtOK
  <2>4. index \in -1..(Length(q) - 1)
    BY <1>2, <1>n DEF remap
  <2>5. r \in rebuild_order([q EXCEPT !.items = items, !.index = index, !.history = history])
    BY <1>2 DEF move_item
  <2> HIDE DEF items, index, history
  <2>6. [q EXCEPT !.items = items, !.index = index, !.history = history]
        = [items |-> items, index |-> index, order |-> q.order,
           history |-> history, repeat |-> q.repeat, shuffling |-> q.shuffling]
    BY SetList DEF QueueOK, Sketch
  <2> QED
    BY <2>3, <2>4, <2>5, <2>6, EditOK
<1> QED
  BY <1>1, <1>2

(* remove_at keeps the invariant, also when it removes the last entry. *)
LEMMA RemoveOK ==
  ASSUME NEW q, QueueOK(q), NEW i \in Int, NEW r \in remove_at(q, i)
  PROVE  QueueOK(r) /\ (r # q => Begins(r))
<1>n. Length(q) \in Nat /\ q.items \in Seq(Entries) /\ q.index \in -1..(Length(q) - 1)
  BY LenProperties DEF QueueOK, Sketch, Length, IndexOK
<1>1. CASE i \notin 0..(Length(q) - 1)
  BY <1>1 DEF remove_at
<1>2. CASE i \in 0..(Length(q) - 1)
  <2> DEFINE items == RemoveAt(q.items, i + 1)
             index == IF i < q.index \/ (i = q.index /\ i = Length(q) - 1)
                        THEN q.index - 1 ELSE q.index
  <2>1. items \in Seq(Entries) /\ Len(items) = Length(q) - 1
    <3>1. i + 1 \in 1..Len(q.items)
      BY <1>2, <1>n DEF Length
    <3> QED
      BY <3>1, <1>n, RemoveAtOK DEF Length
  <2>2. index \in -1..(Len(items) - 1)
    BY <1>2, <1>n, <2>1
  <2>3. \E h : r \in rebuild_order([q EXCEPT !.items = items, !.index = index, !.history = h])
    BY <1>2 DEF remove_at
  <2> HIDE DEF items, index
  <2>4. PICK h : r \in rebuild_order([q EXCEPT !.items = items, !.index = index, !.history = h])
    BY <2>3
  <2>5. [q EXCEPT !.items = items, !.index = index, !.history = h]
        = [items |-> items, index |-> index, order |-> q.order,
           history |-> h, repeat |-> q.repeat, shuffling |-> q.shuffling]
    BY SetList DEF QueueOK, Sketch
  <2> QED
    BY <2>1, <2>2, <2>4, <2>5, EditOK
<1> QED
  BY <1>1, <1>2

(* set_shuffle keeps the invariant: it redraws or empties the order. *)
LEMMA ShuffleOK ==
  ASSUME NEW q, QueueOK(q), NEW on \in BOOLEAN, NEW r \in set_shuffle(q, on)
  PROVE  QueueOK(r) /\ (q.shuffling # on => Begins(r))
<1>1. CASE q.shuffling = on
  BY <1>1 DEF set_shuffle, QueueOK
<1>2. CASE q.shuffling # on
  <2> DEFINE n == [items |-> q.items, index |-> q.index, order |-> q.order,
                   history |-> <<>>, repeat |-> q.repeat, shuffling |-> on]
  <2>1. [q EXCEPT !.shuffling = on, !.history = <<>>] = n
    BY SetMode DEF QueueOK, Sketch
  <2>2. Sketch(n)
    BY DEF QueueOK, Sketch, IsQueue, IndexOK, Length
  <2>3. r \in rebuild_order(n)
    BY <1>2, <2>1 DEF set_shuffle
  <2> HIDE DEF n
  <2> QED
    BY <2>2, <2>3, RebuildOK, RebuildBegins, <1>2
<1> QED
  BY <1>1, <1>2

(* set_repeat keeps the invariant. *)
LEMMA RepeatOK ==
  ASSUME NEW q, QueueOK(q), NEW mode \in RepeatModes
  PROVE  /\ QueueOK(set_repeat(q, mode))
         /\ set_repeat(q, mode).shuffling = q.shuffling
<1>1. set_repeat(q, mode)
      = [items |-> q.items, index |-> q.index, order |-> q.order,
         history |-> q.history, repeat |-> mode, shuffling |-> q.shuffling]
  BY DEF set_repeat, QueueOK, Sketch, IsQueue
<1> QED
  BY <1>1 DEF QueueOK, Sketch, IsQueue, IndexOK, OrderOK, Length

(* clear establishes the invariant. *)
LEMMA ClearOK ==
  ASSUME NEW q, QueueOK(q)
  PROVE  QueueOK(clear(q))
<1> DEFINE r == [q EXCEPT !.items = <<>>, !.index = -1, !.history = <<>>]
<1>1. r = [items |-> <<>>, index |-> -1, order |-> q.order,
           history |-> <<>>, repeat |-> q.repeat, shuffling |-> q.shuffling]
  BY SetList DEF QueueOK, Sketch
<1>2. clear(q) = [r EXCEPT !.order = <<>>]
  BY DEF clear
<1> HIDE DEF r
<1>3. IsQueue(r)
  BY <1>1 DEF IsQueue
<1>4. clear(q) = [items |-> <<>>, index |-> -1, order |-> <<>>,
                  history |-> <<>>, repeat |-> q.repeat, shuffling |-> q.shuffling]
  BY <1>1, <1>2, <1>3, SetOrder
<1>5. <<>> \in Seq(Entries) /\ Len(<<>>) = 0
  BY EmptySeq
<1> QED
  BY <1>4, <1>5 DEF QueueOK, Sketch, IsQueue, IndexOK, OrderOK, Length

(***************************************************************************)
(* Restoring a snapshot into a queue that is not shuffling.                *)
(***************************************************************************)
LEMMA SetAllOK ==
  ASSUME NEW q, QueueOK(q), ~q.shuffling,
         NEW items \in Seq(Entries), NEW i \in -1..(Len(items) - 1)
  PROVE  QueueOK(set_all(q, items, i))
<1>1. set_all(q, items, i)
      = [items |-> items, index |-> i, order |-> q.order,
         history |-> q.history, repeat |-> q.repeat, shuffling |-> q.shuffling]
  BY SetCursor DEF set_all, QueueOK, Sketch
<1> QED
  BY <1>1 DEF QueueOK, Sketch, IsQueue, IndexOK, OrderOK, Length

(* QueueModel::new starts from a well-formed queue. *)
LEMMA EmptyOK == QueueOK(EmptyQueue)
<1>1. <<>> \in Seq(Entries) /\ Len(<<>>) = 0
  BY EmptySeq
<1> QED
  BY <1>1 DEF EmptyQueue, QueueOK, Sketch, IsQueue, IndexOK, OrderOK, Length, RepeatModes

-----------------------------------------------------------------------------
(***************************************************************************)
(* Navigation moves the cursor and leaves the list alone, also when it     *)
(* redraws the presentation order.                                         *)
(***************************************************************************)
LEMMA MoveCursorItems ==
  ASSUME NEW p, IsQueue(p.queue)
  PROVE  /\ MoveCursor(p).items = p.queue.items
         /\ MoveCursor(p).shuffling = p.queue.shuffling
<1>1. [p.queue EXCEPT !.index = p.target]
      = [items |-> p.queue.items, index |-> p.target, order |-> p.queue.order,
         history |-> p.queue.history, repeat |-> p.queue.repeat,
         shuffling |-> p.queue.shuffling]
  BY SetIndex
<1> QED
  BY <1>1 DEF MoveCursor

(* next() leaves the list alone. *)
LEMMA NextItems ==
  ASSUME NEW q, QueueOK(q), NEW r \in next(q)
  PROVE  r.queue.items = q.items
<1>1. PICK p \in peek_next_index(q) : r = Navigated(p)
  BY DEF next
<1> DEFINE h == push_history(q)
<1>h. QueueOK(h) /\ h.items = q.items
  <2>1. \E x : push_history(q) = [q EXCEPT !.history = x]
    BY DEF push_history
  <2> QED
    BY <2>1, HistoryOK, SMTT(30)
<1>2. p.queue = q \/ p.queue = h \/ p.queue \in rebuild_order(h)
  BY DEF peek_next_index
<1> HIDE DEF h
<1>3. IsQueue(p.queue) /\ p.queue.items = q.items
  <2>1. CASE p.queue = q
    BY <2>1 DEF QueueOK, Sketch
  <2>2. CASE p.queue = h
    BY <2>2, <1>h DEF QueueOK, Sketch
  <2>3. CASE p.queue \in rebuild_order(h)
    <3>1. Sketch(h)
      BY <1>h DEF QueueOK
    <3>2. QueueOK(p.queue) /\ p.queue.items = h.items
      BY <2>3, <3>1, RebuildOK
    <3> QED
      BY <3>2, <1>h DEF QueueOK, Sketch
  <2> QED
    BY <1>2, <2>1, <2>2, <2>3
<1>4. r.queue = MoveCursor(p)
  BY <1>1 DEF Navigated
<1> QED
  BY <1>3, <1>4, MoveCursorItems

(* previous() leaves the list and the shuffle button alone. *)
LEMMA PreviousItems ==
  ASSUME NEW q, QueueOK(q), NEW r \in previous(q)
  PROVE  r.queue.items = q.items /\ r.queue.shuffling = q.shuffling
<1>1. PICK p \in peek_prev_index(q) : r = Navigated(p)
  BY DEF previous
<1>2. p.queue = q \/ \E h : p.queue = [q EXCEPT !.history = h]
  <2>1. CASE Length(q) = 0
    BY <2>1 DEF peek_prev_index
  <2>2. CASE Length(q) # 0 /\ UsableHistory(q) # {}
    <3>1. PICK k \in PopTo(q) :
            p = [queue  |-> [q EXCEPT !.history = SubSeq(q.history, 1, k - 1)],
                 target |-> q.history[k]]
      BY <2>2 DEF peek_prev_index
    <3>2. p.queue = [q EXCEPT !.history = SubSeq(q.history, 1, k - 1)]
      BY <3>1
    <3> QED
      BY <3>2, Zenon
  <2>3. CASE Length(q) # 0 /\ UsableHistory(q) = {}
    <3>1. p.queue = [q EXCEPT !.history = <<>>]
      BY <2>3 DEF peek_prev_index
    <3> QED
      BY <3>1, Zenon
  <2> QED
    BY <2>1, <2>2, <2>3
<1>3. /\ IsQueue(p.queue) /\ p.queue.items = q.items
      /\ p.queue.shuffling = q.shuffling
  <2>1. CASE p.queue = q
    BY <2>1 DEF QueueOK, Sketch
  <2>2. ASSUME NEW h, p.queue = [q EXCEPT !.history = h]
        PROVE  /\ IsQueue(p.queue) /\ p.queue.items = q.items
               /\ p.queue.shuffling = q.shuffling
    <3>1. /\ QueueOK([q EXCEPT !.history = h]) /\ [q EXCEPT !.history = h].items = q.items
          /\ [q EXCEPT !.history = h].shuffling = q.shuffling
      BY HistoryOK
    <3> QED
      BY <3>1, <2>2 DEF QueueOK, Sketch
  <2> QED
    BY <1>2, <2>1, <2>2
<1>4. r.queue = MoveCursor(p)
  BY <1>1 DEF Navigated
<1> QED
  BY <1>3, <1>4, MoveCursorItems

(***************************************************************************)
(* The shuffle button leaves the list alone; turned, it clears the history.*)
(***************************************************************************)
LEMMA ShuffleItems ==
  ASSUME NEW q, QueueOK(q), NEW on \in BOOLEAN, NEW r \in set_shuffle(q, on)
  PROVE  r.items = q.items /\ (q.shuffling # on => r.history = <<>>)
<1>1. CASE q.shuffling = on
  BY <1>1 DEF set_shuffle
<1>2. CASE q.shuffling # on
  <2> DEFINE n == [items |-> q.items, index |-> q.index, order |-> q.order,
                   history |-> <<>>, repeat |-> q.repeat, shuffling |-> on]
  <2>1. [q EXCEPT !.shuffling = on, !.history = <<>>] = n
    BY SetMode DEF QueueOK, Sketch
  <2>2. Sketch(n) /\ n.items = q.items /\ n.history = <<>>
    BY DEF QueueOK, Sketch, IsQueue, IndexOK, Length
  <2>3. r \in rebuild_order(n)
    BY <1>2, <2>1 DEF set_shuffle
  <2> HIDE DEF n
  <2> QED
    BY <2>2, <2>3, RebuildOK
<1> QED
  BY <1>1, <1>2

=============================================================================
