------------------------------- MODULE Queue -------------------------------
(***************************************************************************)
(* The operations of the playback queue (src/player/queue.rs) and of its   *)
(* ordering policy (src/player/order.rs) over a queue record               *)
(*                                                                         *)
(*   items     the canonical list, a sequence of queue entries             *)
(*   index     the cursor, 0-based as in the code, -1 for "no cursor"      *)
(*   order     the shuffled presentation order, a sequence of indices      *)
(*   history   the stack of indices that Previous pops                     *)
(*   repeat    "off", "one" or "all"                                       *)
(*   shuffling whether the presentation order is in force                  *)
(*                                                                         *)
(* An operation that rebuilds the presentation order draws it from the     *)
(* injected RNG, so it is a SET of possible queues; an operation that does *)
(* not is a single queue.  An entry stands for one occurrence of a         *)
(* PlaybackItem in a queue: two entries may be the same track (see Player).*)
(***************************************************************************)
EXTENDS Integers, SequencesExt

CONSTANTS Entries,      \* the queue entries a host can build
          HistoryCap    \* the history limit (500 in the code)

ASSUME HistoryCapAssumption == HistoryCap \in Nat \ {0}

RepeatModes == {"off", "one", "all"}

NoEntry == <<>>
NoIndex == -2   \* "None" where the code has Option<usize>

ASSUME EntriesAssumption == NoEntry \notin Entries

Length(q) == Len(q.items)

EmptyQueue ==
  [items |-> <<>>, index |-> -1, order |-> <<>>, history |-> <<>>,
   repeat |-> "off", shuffling |-> FALSE]

(***************************************************************************)
(* The entry at a 0-based position, or NoEntry.                            *)
(***************************************************************************)
at(q, i) == IF i \in 0..(Length(q) - 1) THEN q.items[i + 1] ELSE NoEntry

current(q) == at(q, q.index)

(***************************************************************************)
(* What a well-formed queue looks like: the cursor is -1 or a position of  *)
(* the list; under shuffle the order is a permutation of the positions.    *)
(***************************************************************************)
IndexOK(q) == q.index \in -1..(Length(q) - 1)

OrderOK(q) ==
  IF q.shuffling /\ Length(q) > 0
    THEN /\ q.order \in [1..Length(q) -> 0..(Length(q) - 1)]
         /\ \A j, k \in 1..Length(q) : q.order[j] = q.order[k] => j = k
    ELSE q.order = <<>>

-----------------------------------------------------------------------------
\* Mutant: the cursor is shuffled along with the upcoming entries.
shuffle_order_Unpinned(n, index) ==
  {o \in [1..n -> 0..(n - 1)] : \A j, k \in 1..n : o[j] = o[k] => j = k}

(***************************************************************************)
(* The presentation order.  shuffle_order is a Fisher-Yates shuffle whose  *)
(* draws are clamped, so any permutation of the upcoming indices, and      *)
(* nothing else, can come out; the cursor, if there is one, stays first.   *)
(***************************************************************************)
shuffle_order(n, index) ==
  {o \in [1..n -> 0..(n - 1)] :
     /\ \A j, k \in 1..n : o[j] = o[k] => j = k
     /\ index >= 0 => o[1] = index}

rebuild_order(q) ==
  IF q.shuffling /\ Length(q) > 0
    THEN {[q EXCEPT !.order = o] : o \in shuffle_order(Length(q), q.index)}
    ELSE {[q EXCEPT !.order = <<>>]}

(***************************************************************************)
(* The position of index i in the presentation order, 0 when absent.       *)
(***************************************************************************)
PositionInOrder(q, i) ==
  IF \E k \in DOMAIN q.order : q.order[k] = i
    THEN CHOOSE k \in DOMAIN q.order : q.order[k] = i
    ELSE 0

push_history(q) ==
  LET pushed == IF q.index >= 0 THEN Append(q.history, q.index) ELSE q.history
      excess == Len(pushed) - HistoryCap
  IN  [q EXCEPT !.history =
         IF excess > 0 THEN SubSeq(pushed, excess + 1, Len(pushed)) ELSE pushed]

next_index_under_repeat(cursor, length, repeat) ==
  IF length = 0 THEN NoIndex
  ELSE IF cursor + 1 < length THEN cursor + 1
  ELSE IF repeat = "all" THEN 0
  ELSE NoIndex

(***************************************************************************)
(* peek_next_index yields the target (or NoIndex) together with the queue  *)
(* it leaves behind: the cursor is pushed on the history first, target or  *)
(* not, and the end of a shuffled pass under repeat-all reshuffles.        *)
(***************************************************************************)
peek_next_index(q) ==
  LET h   == push_history(q)
      pos == PositionInOrder(h, h.index)
  IN  IF Length(q) = 0 THEN
        {[queue |-> q, target |-> NoIndex]}
      ELSE IF ~q.shuffling THEN
        {[queue |-> h, target |-> next_index_under_repeat(h.index, Length(h), h.repeat)]}
      ELSE IF pos > 0 /\ pos < Len(h.order) THEN
        {[queue |-> h, target |-> h.order[pos + 1]]}
      ELSE IF h.repeat = "all" THEN
        {[queue |-> r, target |-> r.order[1]] : r \in rebuild_order(h)}
      ELSE
        {[queue |-> h, target |-> NoIndex]}

(***************************************************************************)
(* Popping the history: entries that are out of range or name the cursor   *)
(* are discarded on the way down to the first usable one.                  *)
(***************************************************************************)
UsableHistory(q) ==
  {k \in DOMAIN q.history : q.history[k] \in (0..(Length(q) - 1)) \ {q.index}}

PopTo(q) == {k \in UsableHistory(q) : \A j \in UsableHistory(q) : j <= k}

peek_prev_index(q) ==
  LET drained == [q EXCEPT !.history = <<>>]
      pos     == PositionInOrder(q, q.index)
  IN  IF Length(q) = 0 THEN
        {[queue |-> q, target |-> NoIndex]}
      ELSE IF UsableHistory(q) # {} THEN
        {[queue  |-> [q EXCEPT !.history = SubSeq(q.history, 1, k - 1)],
          target |-> q.history[k]] : k \in PopTo(q)}
      ELSE IF ~q.shuffling THEN
        {[queue |-> drained, target |-> IF q.index >= 1 THEN q.index - 1 ELSE NoIndex]}
      ELSE
        {[queue |-> drained, target |-> IF pos > 1 THEN q.order[pos - 1] ELSE NoIndex]}

-----------------------------------------------------------------------------
(***************************************************************************)
(* The public operations.                                                  *)
(***************************************************************************)
set_all(q, items, index) == [q EXCEPT !.items = items, !.index = index]

set_repeat(q, mode) == [q EXCEPT !.repeat = mode]

set_shuffle(q, on) ==
  IF q.shuffling = on
    THEN {q}
    ELSE rebuild_order([q EXCEPT !.shuffling = on, !.history = <<>>])

Clamp(x, lo, hi) == IF x < lo THEN lo ELSE IF x > hi THEN hi ELSE x

play_sequence(q, items, start_index) ==
  IF items = <<>>
    THEN {q}
    ELSE rebuild_order([q EXCEPT !.items = items,
                                 !.index = Clamp(start_index, 0, Len(items) - 1),
                                 !.history = <<>>])

play_now(q, item) ==
  rebuild_order([q EXCEPT !.items = <<item>>, !.index = 0, !.history = <<>>])

play_next(q, item) ==
  rebuild_order(
    IF Length(q) = 0
      THEN [q EXCEPT !.items = <<item>>, !.index = 0]
      ELSE [q EXCEPT !.items = InsertAt(q.items, Clamp(q.index + 1, 0, Length(q)) + 1, item)])

\* Mutant: the presentation order is not redrawn.
enqueue_many_NoRebuild(q, items) == {[q EXCEPT !.items = @ \o items]}

enqueue_many(q, items) == rebuild_order([q EXCEPT !.items = q.items \o items])

enqueue(q, item) == enqueue_many(q, <<item>>)

(***************************************************************************)
(* next and previous move the cursor to their target, if there is one, and *)
(* return the entry found there.                                           *)
(***************************************************************************)
MoveCursor(r) ==
  IF r.target = NoIndex THEN r.queue ELSE [r.queue EXCEPT !.index = r.target]

Navigated(r) ==
  [queue |-> MoveCursor(r),
   item  |-> IF r.target = NoIndex THEN NoEntry ELSE at(r.queue, r.target)]

next(q) == {Navigated(r) : r \in peek_next_index(q)}

previous(q) == {Navigated(r) : r \in peek_prev_index(q)}

move_to(q, i) == IF i \in 0..(Length(q) - 1) THEN [q EXCEPT !.index = i] ELSE q

\* Mutant: only the moved entry is followed.
remap_MovedOnly(i, from, to) == IF i = from THEN to ELSE i

(***************************************************************************)
(* Reordering: the cursor and the history follow the entries they name.    *)
(***************************************************************************)
remap(i, from, to) ==
  IF i = from THEN to
  ELSE IF from < to /\ i \in from..to THEN i - 1
  ELSE IF from > to /\ i \in to..from THEN i + 1
  ELSE i

move_item(q, from, to) ==
  IF from \notin 0..(Length(q) - 1) \/ to \notin 0..(Length(q) - 1) \/ from = to
    THEN {q}
    ELSE rebuild_order(
           [q EXCEPT
              !.items   = InsertAt(RemoveAt(q.items, from + 1), to + 1, q.items[from + 1]),
              !.index   = remap(q.index, from, to),
              !.history = [k \in DOMAIN q.history |-> remap(q.history[k], from, to)]])

\* Mutant: history above a removed entry keeps its old positions.
SlideDown_Forgotten(h, i) == h

(***************************************************************************)
(* Removal: history entries naming the removed position are dropped, those *)
(* above it slide down; a removed cursor stays put, or on the new last.    *)
(***************************************************************************)
SlideDown(h, i) == IF h > i THEN h - 1 ELSE h

(***************************************************************************)
(* The elements of s at the positions of K, in their order (Vec::retain).  *)
(***************************************************************************)
retain(s, K) ==
  LET kept[k \in 0..Len(s)] ==
        IF k = 0 THEN <<>>
        ELSE IF k \in K THEN Append(kept[k - 1], s[k]) ELSE kept[k - 1]
  IN  kept[Len(s)]

\* Mutant: a removed last entry leaves the cursor beyond the list.
remove_at_CursorStays(q, i) ==
  IF i \notin 0..(Length(q) - 1)
    THEN {q}
    ELSE rebuild_order([q EXCEPT !.items = RemoveAt(@, i + 1),
                                 !.index = IF i < @ THEN @ - 1 ELSE @,
                                 !.history = <<>>])

remove_at(q, i) ==
  IF i \notin 0..(Length(q) - 1)
    THEN {q}
    ELSE LET kept == retain(q.history, {k \in DOMAIN q.history : q.history[k] # i})
         IN  rebuild_order(
               [q EXCEPT
                  !.items   = RemoveAt(q.items, i + 1),
                  !.index   = IF i < q.index \/ (i = q.index /\ i = Length(q) - 1)
                                THEN q.index - 1 ELSE q.index,
                  !.history = [k \in DOMAIN kept |-> SlideDown(kept[k], i)]])

\* Mutant: the successor in the list, whatever the presentation order says.
peek_preload_target_Unshuffled(q, qi) == at(q, qi + 1)

(***************************************************************************)
(* The entry the player preloads ahead of a boundary                       *)
(* (Player::peek_preload_target): the successor of qi under the policy, as *)
(* far as it can be told without advancing.                                *)
(***************************************************************************)
peek_preload_target(q, qi) ==
  LET pos == PositionInOrder(q, qi)
  IN  IF q.shuffling /\ pos > 0 /\ pos < Len(q.order) THEN at(q, q.order[pos + 1])
      ELSE IF q.shuffling THEN
        IF q.repeat = "all" /\ q.order # <<>> THEN at(q, q.order[1]) ELSE NoEntry
      ELSE IF qi + 1 < Length(q) THEN at(q, qi + 1)
      ELSE IF q.repeat = "all" THEN at(q, 0)
      ELSE NoEntry

clear(q) ==
  [q EXCEPT !.items = <<>>, !.index = -1, !.history = <<>>, !.order = <<>>]

=============================================================================
