----------------------------- MODULE QueueModel -----------------------------
(***************************************************************************)
(* The playback queue as a state machine: any sequence of the public       *)
(* operations of QueueModel (src/player/queue.rs), in any order, the way a *)
(* player and a host's queue panel call them.                              *)
(*                                                                         *)
(* The variables trail, drifted, played and jumped are observations: they  *)
(* speak of queue ENTRIES, so they say what the index arithmetic is for.   *)
(***************************************************************************)
EXTENDS Queue

CONSTANTS MaxItems,      \* bound on the length of the queue
          Modes          \* the repeat modes the user chooses from

ASSUME MaxItemsAssumption == MaxItems \in Nat \ {0}
ASSUME ModesAssumption == Modes \subseteq RepeatModes

VARIABLES
  queue,    \* the queue record
  trail,    \* the entries left by next(), oldest first: what Previous retraces
  drifted,  \* play_next inserted below a recorded history index
  played,   \* under shuffle: the entries played since the order was drawn
  jumped    \* under shuffle: the cursor left the order since it was drawn

vars == <<queue, trail, drifted, played, jumped>>

Absent(q) == Entries \ ToSet(q.items)

(***************************************************************************)
(* The sequences of n distinct entries that are not queued.                *)
(***************************************************************************)
Batches(q, n) ==
  {s \in [1..n -> Absent(q)] : \A j, k \in 1..n : s[j] = s[k] => j = k}

(***************************************************************************)
(* Start positions below, inside and beyond any list.                      *)
(***************************************************************************)
Starts == {-1, 1, MaxItems}

Init ==
  /\ queue = EmptyQueue
  /\ trail = <<>>
  /\ drifted = FALSE
  /\ played = {}
  /\ jumped = FALSE

(***************************************************************************)
(* How the observations follow an operation.                               *)
(***************************************************************************)
Forget == trail' = <<>> /\ drifted' = FALSE

KeepTrail == UNCHANGED <<trail, drifted>>

NewPass ==
  /\ played' = IF queue'.shuffling THEN {current(queue')} \ {NoEntry} ELSE {}
  /\ jumped' = FALSE

KeepPass == UNCHANGED <<played, jumped>>

LeavePass ==
  /\ played' = {}
  /\ jumped' = queue.shuffling

Newest(s, n) == IF Len(s) > n THEN SubSeq(s, Len(s) - n + 1, Len(s)) ELSE s

-----------------------------------------------------------------------------
PlaySequence ==
  \E items \in Batches(EmptyQueue, MaxItems), start \in Starts :
    /\ queue' \in play_sequence(queue, items, start)
    /\ Forget /\ NewPass

PlayNow ==
  \E e \in Entries : queue' \in play_now(queue, e) /\ Forget /\ NewPass

PlayNext ==
  \E e \in Absent(queue) :
    /\ Length(queue) < MaxItems
    /\ queue' \in play_next(queue, e)
    /\ drifted' = (drifted \/ \E k \in DOMAIN queue.history : queue.history[k] > queue.index)
    /\ UNCHANGED trail
    /\ NewPass

EnqueueMany ==
  \E n \in 1..(MaxItems - Length(queue)) : \E items \in Batches(queue, n) :
    queue' \in enqueue_many(queue, items) /\ KeepTrail /\ NewPass

(***************************************************************************)
(* next(): the entry left behind joins the trail, found a target or not.   *)
(***************************************************************************)
GoNext ==
  \E r \in next(queue) :
    /\ queue' = r.queue
    /\ trail' = IF current(queue) = NoEntry THEN trail
                ELSE Newest(Append(trail, current(queue)), HistoryCap)
    /\ UNCHANGED drifted
    /\ IF queue'.order # queue.order
         THEN NewPass
         ELSE /\ played' = IF queue.shuffling /\ ~jumped
                              THEN (played \cup {r.item}) \ {NoEntry} ELSE {}
              /\ UNCHANGED jumped

(***************************************************************************)
(* previous(): the trail is popped down to an entry other than the current.*)
(***************************************************************************)
Elsewhere == {k \in DOMAIN trail : trail[k] # current(queue)}

GoPrevious ==
  \E r \in previous(queue) :
    /\ queue' = r.queue
    /\ trail' = IF Length(queue) = 0 THEN trail
                ELSE IF Elsewhere = {} THEN <<>> ELSE SubSeq(trail, 1, Max(Elsewhere) - 1)
    /\ UNCHANGED drifted
    /\ LeavePass

MoveTo ==
  \E i \in -1..MaxItems :
    queue' = move_to(queue, i) /\ KeepTrail /\ LeavePass

MoveItem ==
  \E from, to \in -1..MaxItems :
    /\ queue' \in move_item(queue, from, to)
    /\ KeepTrail
    /\ IF queue'.items # queue.items THEN NewPass ELSE KeepPass

RemoveEntry ==
  \E i \in -1..MaxItems :
    /\ queue' \in remove_at(queue, i)
    /\ UNCHANGED drifted
    /\ IF queue'.items # queue.items
         THEN /\ trail' = retain(trail, {k \in DOMAIN trail : trail[k] # at(queue, i)})
              /\ NewPass
         ELSE UNCHANGED trail /\ KeepPass

SetShuffle ==
  \E on \in BOOLEAN :
    /\ queue' \in set_shuffle(queue, on)
    /\ IF queue.shuffling = on THEN KeepTrail /\ KeepPass ELSE Forget /\ NewPass

SetRepeat ==
  \E mode \in Modes :
    queue' = set_repeat(queue, mode) /\ KeepTrail /\ KeepPass

Clear == queue' = clear(queue) /\ Forget /\ NewPass

(***************************************************************************)
(* The queue half of Player::restore: repeat, list and cursor from the     *)
(* snapshot, then shuffle if the snapshot had it on.                       *)
(***************************************************************************)
RestoreInto(q) ==
  \E items \in Batches(EmptyQueue, MaxItems - 1), mode \in Modes, shuffle \in BOOLEAN :
    \E i \in 0..(Len(items) - 1) :
      LET loaded == set_all(set_repeat(q, mode), items, i)
      IN  queue' \in IF shuffle THEN set_shuffle(loaded, TRUE) ELSE {loaded}

(***************************************************************************)
(* A page reload restores into a queue nothing has used yet ...            *)
(***************************************************************************)
Restore ==
  queue = EmptyQueue /\ RestoreInto(queue) /\ Forget /\ NewPass

(***************************************************************************)
(* ... but the API (WasmPlayer::restore) takes a snapshot at any time.     *)
(***************************************************************************)
LiveRestore == RestoreInto(queue) /\ Forget /\ NewPass

Next ==
  \/ PlaySequence \/ PlayNow \/ PlayNext \/ EnqueueMany
  \/ GoNext \/ GoPrevious \/ MoveTo \/ MoveItem \/ RemoveEntry
  \/ SetShuffle \/ SetRepeat \/ Clear \/ Restore

Spec == Init /\ [][Next]_vars

LiveSpec == Init /\ [][Next \/ LiveRestore]_vars

-----------------------------------------------------------------------------
(***************************************************************************)
(* Every field has its type.                                               *)
(***************************************************************************)
TypeOK ==
  /\ queue.items \in Seq(Entries)
  /\ queue.index \in Int
  /\ queue.order \in Seq(Nat)
  /\ queue.history \in Seq(Nat)
  /\ queue.repeat \in RepeatModes
  /\ queue.shuffling \in BOOLEAN

(***************************************************************************)
(* The cursor is -1 or names an entry of the list, whatever sequence of    *)
(* insertions, removals, reorderings and navigation led here: at() and     *)
(* offsets() index the list with it.                                       *)
(***************************************************************************)
CursorInRange == IndexOK(queue)

(***************************************************************************)
(* The presentation order always matches the list it presents: with        *)
(* shuffle on it is a permutation of the list's indices, with shuffle off  *)
(* it is empty.  Every operation that changes the list must redraw it.     *)
(***************************************************************************)
OrderCoversQueue == OrderOK(queue)

(***************************************************************************)
(* "The Previous button retraces actual navigation history": the indices   *)
(* of the history name the entries that were left, through every reorder   *)
(* and removal in between.                                                 *)
(***************************************************************************)
HistoryNamesTrail ==
  [k \in DOMAIN queue.history |-> at(queue, queue.history[k])] = trail

(***************************************************************************)
(* The same, for a history that no play_next insertion has shifted.        *)
(***************************************************************************)
UndriftedHistoryNamesTrail == ~drifted => HistoryNamesTrail

(***************************************************************************)
(* Shuffle plays every item: when the cursor stands at the end of the      *)
(* presentation order, having followed it from its start, every entry of   *)
(* the queue has been played in this pass.                                 *)
(***************************************************************************)
ShuffledPassIsComplete ==
  /\ queue.shuffling
  /\ ~jumped
  /\ queue.index >= 0
  /\ PositionInOrder(queue, queue.index) = Len(queue.order)
  => played = ToSet(queue.items)

(***************************************************************************)
(* Editing the list never changes what is playing: insertions, reorderings *)
(* and the removal of another entry leave the current entry current.       *)
(***************************************************************************)
EditsKeepCurrent ==
  [][/\ PlayNext \/ EnqueueMany \/ MoveItem \/ RemoveEntry
     /\ current(queue) \in ToSet(queue'.items)
     => current(queue') = current(queue)]_vars

(***************************************************************************)
(* The entry preloaded into the standby decoder is the one next() will     *)
(* move to, at every boundary ("the repeat-all wrap preloads the wrap      *)
(* target into the standby decoder, so the boundary stays gapless").       *)
(***************************************************************************)
PreloadPredictsNext ==
  \A r \in next(queue) :
    r.item # NoEntry => r.item = peek_preload_target(queue, queue.index)

(***************************************************************************)
(* The same, except where a shuffled pass wraps under repeat-all.          *)
(***************************************************************************)
PreloadPredictsNextInPass ==
  ~(queue.shuffling /\ queue.repeat = "all"
      /\ PositionInOrder(queue, queue.index) \in {0, Len(queue.order)})
  => PreloadPredictsNext

=============================================================================
