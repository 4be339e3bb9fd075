------------------------------- MODULE Player -------------------------------
(***************************************************************************)
(* The transport state machine (src/player/player.rs) over a system state  *)
(* s with three parts: s.q the queue, s.e the engine, and s.p the player:  *)
(*                                                                         *)
(*   state            "idle", "loading", "buffering", "playing", "paused", *)
(*                    "ended" or "error"                                   *)
(*   current          model.current, the item the UI shows                 *)
(*   position         model.position_seconds, album-absolute               *)
(*   track_start      model.current_track_start_seconds                    *)
(*   attached         whether the player holds an engine                   *)
(*   lengths          exact lengths learnt so far, -1 where unknown        *)
(*   reset_offset     the album position of the last load or seek          *)
(*   pending_ended, pause_intent, crossfade (its length), armed,           *)
(*   in_progress      as in the code                                       *)
(*   xfade            the fade the player waits for, or NoXfade            *)
(*   check            the pending boundary check, or NoCheck               *)
(*   restored         the position to resume a restored session at         *)
(*                                                                         *)
(* A generation counter is compared for equality only with the value it    *)
(* had when a fade began, so each is kept as one bit, `fresh', of that     *)
(* fade: loading_seq += 1 clears it.  transport_seq and engine_epoch       *)
(* cannot change inside a handler of this synchronous port, and a new      *)
(* engine is only made after teardown dropped the fade.  Both hosts of the *)
(* repository leave plan_transition unset.  Gain and events are left out.  *)
(***************************************************************************)
EXTENDS Engine

CONSTANTS Hint,              \* each entry's duration hint, 0 for none
          RestartThreshold,  \* previous() restarts the track beyond this (3 s)
          EndTolerance       \* END_TOLERANCE_SAMPLES

ASSUME HintAssumption == Hint \in [Entries -> Nat]
ASSUME ThresholdAssumption == RestartThreshold \in Nat /\ EndTolerance \in Nat

Unknown == -1
NoRace  == [item |-> NoEntry, raw_len |-> 0, remaining |-> 0]
NoXfade == [fresh |-> FALSE, target |-> NoEntry, prev |-> NoEntry,
            prev_len |-> Unknown, race |-> NoRace]
NoCheck == [idx |-> -1, fresh |-> FALSE]
NoPlace == [idx |-> -1, within |-> 0]

NewPlayer ==
  [state |-> "idle", current |-> NoEntry, position |-> 0, track_start |-> 0,
   attached |-> FALSE, lengths |-> [i \in Entries |-> Unknown], reset_offset |-> 0,
   pending_ended |-> FALSE, pause_intent |-> FALSE, crossfade |-> 0, armed |-> FALSE,
   in_progress |-> FALSE, xfade |-> NoXfade, check |-> NoCheck, restored |-> NoPlace]

(***************************************************************************)
(* loading_seq += 1.                                                       *)
(***************************************************************************)
Supersede(p) == [p EXCEPT !.xfade.fresh = FALSE, !.check.fresh = FALSE]

-----------------------------------------------------------------------------
(***************************************************************************)
(* The album clock: the queue laid end to end.                             *)
(***************************************************************************)
LengthOfItem(p, item) ==
  IF item = NoEntry THEN 0
  ELSE IF p.lengths[item] # Unknown THEN p.lengths[item]
  ELSE Hint[item]

length_of(s, i) == LengthOfItem(s.p, at(s.q, i))

offset(s, i) ==
  LET acc[k \in 0..Length(s.q)] == IF k = 0 THEN 0 ELSE acc[k - 1] + length_of(s, k - 1)
  IN  IF i \in 0..(Length(s.q) - 1) THEN acc[i] ELSE 0

total_length(s) == LET n == Length(s.q) - 1 IN offset(s, n) + length_of(s, n)

album_position(s) ==
  IF s.p.attached THEN s.p.reset_offset + rendered_samples(s.e) ELSE 0

current_index_at(s, pos) ==
  LET started == {i \in 0..(Length(s.q) - 1) : pos >= offset(s, i)}
  IN  IF started = {} THEN 0 ELSE CHOOSE i \in started : \A j \in started : j <= i

track_remaining_samples(s, i, pos) == Minus(offset(s, i) + length_of(s, i), pos)

Learn(p, item) == [p EXCEPT !.lengths[item] = TrackLen[item]]

(***************************************************************************)
(* Preloading the successor of the cursor, which also teaches its length.  *)
(***************************************************************************)
Preload(s) ==
  LET next_item == peek_preload_target(s.q, s.q.index)
  IN  IF next_item = NoEntry \/ ~PreloadNext THEN s
      ELSE [s EXCEPT !.e = prepare_next(@, next_item),
                     !.p = IF next_item \in Broken THEN @ ELSE Learn(@, next_item)]

fail(s) == [s EXCEPT !.e = pause_pumping(@), !.p.state = "error"]

Waiting(p) == IF p.pause_intent THEN "paused" ELSE "buffering"

\* Mutant: a seek always restarts decoding.
SeekEngine_Pumps(s, samples) == [s EXCEPT !.e = start_pumping(seek(@, samples))]

(***************************************************************************)
(* The engine part of every reposition: seek, then pump unless paused.     *)
(***************************************************************************)
SeekEngine(s, samples) ==
  LET sought == [s EXCEPT !.e = seek(@, samples)]
  IN  IF s.p.pause_intent THEN sought ELSE [sought EXCEPT !.e = start_pumping(@)]

-----------------------------------------------------------------------------
(***************************************************************************)
(* load: open the current item, preload its successor, reposition.         *)
(***************************************************************************)
CanLoad(s) == current(s.q) # NoEntry /\ current(s.q) \notin Broken

load(s, within) ==
  LET item    == current(s.q)
      qi      == s.q.index
      begun   == [s EXCEPT !.p = [Supersede(@) EXCEPT !.pending_ended = FALSE,
                                                      !.restored = NoPlace,
                                                      !.armed = FALSE,
                                                      !.attached = TRUE,
                                                      !.state = "loading"],
                           !.e = open(@, item)]
      opened  == [begun EXCEPT !.p = Learn(@, item)]
      start   == offset(opened, qi)
      primed  == Preload(opened)
      resume  == Least(within, Minus(length_of(primed, qi), 1))
  IN  IF item = NoEntry THEN s
      ELSE IF item \in Broken THEN fail(begun)
      ELSE SeekEngine(
             [primed EXCEPT !.p = [@ EXCEPT !.track_start = start,
                                            !.reset_offset = start + resume,
                                            !.position = start + resume,
                                            !.current = item,
                                            !.state = Waiting(s.p)]],
             resume)

on_primed(s) ==
  IF s.p.state \in {"loading", "buffering"} /\ s.p.attached
    THEN [s EXCEPT !.e = start_pumping(@),
                   !.p.state = IF s.p.pause_intent THEN @ ELSE "playing"]
    ELSE s

on_buffering(s) ==
  IF s.p.state \in {"loading", "buffering", "playing"}
    THEN [s EXCEPT !.p.state = "buffering"] ELSE s

-----------------------------------------------------------------------------
(***************************************************************************)
(* Crossfades.  begin_crossfade_transition hands the standby lane to the   *)
(* mixer; the result comes back through on_crossfade_complete.             *)
(***************************************************************************)
CanFade(s) == CanCrossfade(s.e, peek_preload_target(s.q, s.q.index))

begin_crossfade_transition(s, overlap, race) ==
  LET prev == at(s.q, s.q.index)
  IN  [s EXCEPT
         !.e = begin_crossfade(@, overlap),
         !.p.in_progress = TRUE,
         !.p.xfade = [fresh    |-> TRUE,
                      target   |-> peek_preload_target(s.q, s.q.index),
                      prev     |-> prev,
                      prev_len |-> IF prev = NoEntry THEN Unknown ELSE s.p.lengths[prev],
                      race     |-> race]]

(***************************************************************************)
(* apply_crossfade_result: a fresh fade whose target is still queued moves *)
(* the cursor to the target's first occurrence and compresses the album    *)
(* clock by the overlap.                                                   *)
(***************************************************************************)
Occurrences(q, item) == {i \in 0..(Length(q) - 1) : at(q, i) = item}

\* Mutant: the target is only looked for ahead of the cursor.
CanApply_Ahead(s) ==
  s.p.xfade.fresh /\ \E i \in Occurrences(s.q, s.p.xfade.target) : i > s.q.index

CanApply(s) == s.p.xfade.fresh /\ Occurrences(s.q, s.p.xfade.target) # {}

apply_crossfade_result(s, overlap) ==
  LET xf    == s.p.xfade
      idx   == CHOOSE i \in Occurrences(s.q, xf.target) :
                 \A j \in Occurrences(s.q, xf.target) : i <= j
      known == IF xf.prev # NoEntry /\ xf.prev_len # Unknown /\ overlap > 0
                 THEN [s.p EXCEPT !.lengths[xf.prev] = Minus(xf.prev_len, overlap)] ELSE s.p
      moved == [s EXCEPT !.q = move_to(@, idx),
                         !.p = [Learn(known, xf.target) EXCEPT
                                  !.check = [idx |-> idx, fresh |-> TRUE],
                                  !.current = xf.target,
                                  !.armed = FALSE]]
  IN  Preload([moved EXCEPT !.p.track_start = offset(moved, idx)])

finish_eos_race(s, race) ==
  LET cut == [s EXCEPT !.p.lengths[race.item] = Minus(race.raw_len, race.remaining)]
  IN  IF race.item = NoEntry \/ race.raw_len = 0
        THEN s
        ELSE [cut EXCEPT !.p.track_start = offset(cut, cut.q.index)]

\* Mutant: crossfade_in_progress is not cleared.
on_crossfade_complete_StaysInProgress(s, overlap) ==
  IF CanApply(s) THEN [apply_crossfade_result(s, overlap) EXCEPT !.p.xfade = NoXfade] ELSE s

on_crossfade_complete(s, overlap) ==
  LET applied == IF CanApply(s)
                   THEN finish_eos_race(apply_crossfade_result(s, overlap), s.p.xfade.race)
                   ELSE s
  IN  IF s.p.xfade = NoXfade THEN s
      ELSE [applied EXCEPT !.p.xfade = NoXfade, !.p.in_progress = FALSE]

-----------------------------------------------------------------------------
(***************************************************************************)
(* on_tick: the boundary check, the catch-up of the cursor, the model's    *)
(* position, the end of playback, and last the crossfade trigger.  (The    *)
(* one tick inside an EOS has pending_ended set, which blocks the catch-up *)
(* as eos_in_flight does.)                                                 *)
(***************************************************************************)
CatchUp(s, pos) ==
  LET idx == current_index_at(s, pos)
      target == Least(idx, s.q.index + 1)
  IN  IF /\ s.p.state = "playing" /\ idx > s.q.index
         /\ ~s.p.pending_ended /\ ~s.p.in_progress /\ length_of(s, target) > 0
        THEN [s EXCEPT !.q = move_to(@, target)] ELSE s

\* Mutant: only the clock decides that the queue has ended.
HasEnded_ByClock(s, pos, dur) == s.p.pending_ended /\ pos >= dur

HasEnded(s, pos, dur) ==
  s.p.pending_ended /\ (pos + EndTolerance >= dur \/ is_output_drained(s.e))

ShouldFade(s, remaining) ==
  /\ ~s.p.armed /\ ~s.p.in_progress /\ ~s.p.pending_ended
  /\ s.p.crossfade > 0 /\ s.q.repeat # "one" /\ s.p.state = "playing"
  /\ remaining \in 1..s.p.crossfade
  /\ ~(s.q.repeat = "all" /\ Length(s.q) = 1)

on_tick(s) ==
  LET pos   == album_position(s)
      idx   == current_index_at(s, pos)
      qi    == s.q.index
      moved == CatchUp(s, pos)
      ended == HasEnded(s, pos, total_length(s))
      shown == [moved EXCEPT
                  !.p = [s.p EXCEPT !.check = NoCheck,
                                    !.position = pos,
                                    !.track_start = offset(s, idx),
                                    !.state = IF ended THEN "ended" ELSE @,
                                    !.pending_ended = @ /\ ~ended],
                  !.e = IF ended THEN pause_pumping(@) ELSE @]
      armed == [shown EXCEPT !.p.armed = TRUE]
  IN  IF ~s.p.attached THEN s
      ELSE IF /\ ShouldFade(shown, track_remaining_samples(s, idx, pos))
              /\ peek_preload_target(s.q, qi) # NoEntry
        THEN IF CanFade(armed)
               THEN begin_crossfade_transition(armed, s.p.crossfade, NoRace) ELSE armed
        ELSE shown

(***************************************************************************)
(* The boundary-drift diagnostic of a tick.                                *)
(***************************************************************************)
ReportsDrift(s) ==
  /\ s.p.attached /\ s.p.check.fresh
  /\ current_index_at(s, album_position(s)) # s.p.check.idx

-----------------------------------------------------------------------------
(***************************************************************************)
(* on_eos: a late fade if there is enough of the track left to overlap,    *)
(* else the promotion of the standby session, else a load, else the end.   *)
(***************************************************************************)
RemainingAtEos(s) == track_remaining_samples(s, s.q.index, album_position(s))

CanFadeAtEos(s) ==
  /\ s.p.crossfade > 0 /\ s.q.repeat # "one"
  /\ ~s.p.pause_intent /\ ~s.p.pending_ended /\ ~s.p.in_progress
  /\ PreloadNext
  /\ RemainingAtEos(s) > EndTolerance
  /\ CanFade(s)

try_fade_at_eos(s) ==
  begin_crossfade_transition(
    s, Least(s.p.crossfade, RemainingAtEos(s)),
    [item      |-> at(s.q, s.q.index),
     raw_len   |-> length_of(s, s.q.index),
     remaining |-> RemainingAtEos(s)])

Promoted(s, item) ==
  LET learnt == [s EXCEPT !.p = Learn(@, item)]
      primed == Preload([learnt EXCEPT !.p.track_start = offset(learnt, s.q.index)])
  IN  [primed EXCEPT !.p.current = item, !.p.state = "playing", !.e = start_pumping(@)]

Boundary(s) ==
  LET expected == peek_preload_target(s.q, s.q.index)
      advanced == [s EXCEPT !.e = IF PreloadNext THEN advance(@, expected) ELSE @]
      swapped  == PreloadNext /\ CanAdvance(s.e, expected)
  IN  IF s.q.repeat = "one" THEN {load(advanced, 0)}
      ELSE {IF r.item = NoEntry
              THEN on_tick([advanced EXCEPT !.q = r.queue,
                                            !.p.pending_ended = TRUE,
                                            !.e = pause_pumping(@)])
              ELSE IF swapped /\ r.item = expected
                THEN Promoted([advanced EXCEPT !.q = r.queue], r.item)
                ELSE load([advanced EXCEPT !.q = r.queue], 0)
            : r \in next(s.q)}

on_eos(s) ==
  IF ~s.p.attached THEN {s}
  ELSE IF CanFadeAtEos(s) THEN {try_fade_at_eos(s)}
  ELSE IF s.p.in_progress \/ s.p.pause_intent THEN {s}
  ELSE Boundary(s)

-----------------------------------------------------------------------------
\* Mutant: while paused only the clock moves.
Repositioned_ClockOnly(s, at_offset, within) ==
  IF s.p.pause_intent
    THEN [s EXCEPT !.p.reset_offset = at_offset, !.p.position = at_offset, !.p.state = "paused"]
    ELSE SeekEngine([s EXCEPT !.p.reset_offset = at_offset, !.p.position = at_offset,
                              !.p.state = Waiting(s.p)], within)

(***************************************************************************)
(* Transport commands.                                                     *)
(***************************************************************************)
Repositioned(s, at_offset, within) ==
  SeekEngine([s EXCEPT !.p.reset_offset = at_offset,
                       !.p.position = at_offset,
                       !.p.state = Waiting(s.p)], within)

restart_current_track(s) ==
  IF ~s.p.attached \/ s.p.current = NoEntry THEN s
  ELSE Repositioned([s EXCEPT !.p = Supersede(@)], offset(s, s.q.index), 0)

seek_inner(s, pos) ==
  LET begun  == [s EXCEPT !.p = Supersede(@)]
      qi     == current_index_at(s, pos)
      base   == offset(s, qi)
      within == Least(Minus(pos, base), Minus(length_of(s, qi), 1))
      there  == [begun EXCEPT !.q = move_to(@, qi)]
  IN  IF ~s.p.attached \/ s.p.current = NoEntry THEN s
      ELSE IF Length(s.q) = 0 THEN begun
      ELSE IF qi = s.q.index THEN Repositioned(begun, base + within, within)
      ELSE IF ~CanLoad(there) THEN load(there, 0)
      ELSE Repositioned(load(there, 0), base + within, within)

stop_inner(s) ==
  [s EXCEPT !.p = [Supersede(@) EXCEPT !.pause_intent = TRUE, !.pending_ended = FALSE,
                                       !.state = "idle", !.position = 0],
            !.e = IF s.p.attached THEN seek(pause_pumping(@), 0) ELSE @]

teardown_inner(s) ==
  [s EXCEPT !.p = [Supersede(@) EXCEPT
                     !.pause_intent = FALSE, !.pending_ended = FALSE,
                     !.lengths = [i \in Entries |-> Unknown], !.reset_offset = 0,
                     !.restored = NoPlace, !.xfade = NoXfade, !.in_progress = FALSE,
                     !.attached = FALSE, !.state = "idle", !.current = NoEntry,
                     !.position = 0],
            !.e = IF s.p.attached THEN close(@) ELSE @]

pause_inner(s) ==
  [s EXCEPT !.p.pause_intent = TRUE, !.p.state = "paused",
            !.e = IF s.p.attached THEN pause_pumping(@) ELSE @]

LoadRestored(s) ==
  load(s, IF s.p.restored.idx = s.q.index THEN s.p.restored.within ELSE 0)

resume_inner(s) ==
  IF s.p.attached THEN
    [s EXCEPT !.p.pause_intent = FALSE, !.p.state = "playing", !.e = start_pumping(@)]
  ELSE IF s.p.state = "paused" /\ s.p.current # NoEntry THEN LoadRestored(s)
  ELSE s

toggle_play_inner(s) ==
  IF s.p.state = "playing" THEN pause_inner(s)
  ELSE IF s.p.state \in {"ended", "idle", "error"} THEN
    IF s.p.current = NoEntry THEN s ELSE load([s EXCEPT !.p.pause_intent = FALSE], 0)
  ELSE resume_inner(s)

(***************************************************************************)
(* Commands that change the queue.  Each is a set, as the queue operation. *)
(***************************************************************************)
Start(s, queues) ==
  {load([s EXCEPT !.q = q, !.p.pause_intent = FALSE], 0) : q \in queues}

play_queue_index(s, i) ==
  IF at(s.q, i) = NoEntry \/ i = s.q.index THEN {s} ELSE Start(s, {move_to(s.q, i)})

Skip(s, moves) ==
  {LET t == [s EXCEPT !.q = r.queue, !.p = Supersede(@)]
   IN  IF r.item = NoEntry THEN t ELSE load(t, 0) : r \in moves}

PlayerNext(s) == Skip(s, next(s.q))

PlayerPrevious(s) ==
  IF s.p.current # NoEntry /\ s.p.position - s.p.track_start > RestartThreshold
    THEN {restart_current_track(s)}
    ELSE Skip(s, previous(s.q))

PlayerSetShuffle(s, on) ==
  {LET t   == [s EXCEPT !.q = q]
       off == offset(t, q.index)
       u   == [t EXCEPT !.p.reset_offset = off]
   IN  IF s.p.current = NoEntry THEN u
       ELSE [u EXCEPT !.p.track_start = off, !.p.position = album_position(u)]
   : q \in set_shuffle(s.q, on)}

(***************************************************************************)
(* The host's queue panel edits the queue and then calls on_queue_changed. *)
(***************************************************************************)
on_queue_changed(s) ==
  LET cur == current(s.q)
  IN  IF cur = NoEntry THEN
        IF s.p.state \in {"idle", "error"} THEN s ELSE stop_inner(s)
      ELSE IF s.p.current # NoEntry /\ s.p.current # cur /\ s.p.state # "loading"
        THEN load(s, 0)
      ELSE s

-----------------------------------------------------------------------------
(***************************************************************************)
(* A session snapshot, and its restoration into a fresh player.            *)
(***************************************************************************)
HasSnapshot(s) == s.p.current # NoEntry /\ Length(s.q) > 0

take_snapshot(s) ==
  [items |-> s.q.items, index |-> s.q.index, position |-> s.p.position,
   repeat |-> s.q.repeat, shuffle |-> s.q.shuffling, crossfade |-> s.p.crossfade]

restore(s, snap) ==
  LET index  == Clamp(snap.index, 0, Len(snap.items) - 1)
      loaded == set_all(set_repeat(s.q, snap.repeat), snap.items, index)
      queues == IF snap.shuffle THEN set_shuffle(loaded, TRUE) ELSE {loaded}
  IN  {LET t      == [s EXCEPT !.q = q,
                               !.p.crossfade = IF snap.crossfade > 0 THEN snap.crossfade ELSE @]
           start  == offset(t, index)
           within == Least(snap.position, Minus(length_of(t, index), 1))
       IN  [t EXCEPT !.p.restored = [idx |-> index, within |-> within],
                     !.p.current = current(q),
                     !.p.state = "paused",
                     !.p.position = start + within,
                     !.p.track_start = start]
       : q \in queues}

=============================================================================
