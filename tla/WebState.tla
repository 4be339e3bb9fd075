------------------------------ MODULE WebState ------------------------------
(***************************************************************************)
(* The state of web playback, what is under way in it, and what must be    *)
(* true of it at all times.                                                *)
(***************************************************************************)
EXTENDS Naturals, Sequences

CONSTANTS
  Null,   \* no worker, no call
  Grace   \* the blocks that may sound while a worker closes

VARIABLES
  player,    \* cursor, shown track, state, intents, sequence numbers
  adapter,   \* generation, reported playhead, the slots of unanswered calls
  worker,    \* the worker it drives, with both message queues, or Null
  dying,     \* workers asked to close, with the open that waits for them
  waits,     \* play() calls that wait for the output to run
  output,    \* the AudioContext
  commands   \* how many commands there were

-----------------------------------------------------------------------------
Posted(type) == worker # Null /\ \E i \in 1..Len(worker.outbox) : worker.outbox[i].type = type
Asked(type) == worker # Null /\ \E i \in 1..Len(worker.inbox) : worker.inbox[i].type = type

\* The track is over, and the player has not gone on yet.
RunOut ==
  /\ worker # Null /\ worker.stage = "ready" /\ player.state # "ended"
  /\ worker.left = 0 /\ worker.ring = 0

Loads == {call \in {d.then : d \in dying} \cup {adapter.making, adapter.open, adapter.prepare} :
            call # Null /\ call.seq = player.loadingSeq}

\* The ring may run dry while the worker closes.
Low == worker.flush \/ worker.ring <= Grace

\* The worker may report a prime before it has closed ...
Filling ==
  /\ worker # Null /\ worker.stage = "ready" /\ worker.left > 0
  /\ worker.pumping \/ Asked("start")
  /\ ~worker.primed \/ worker.starved \/ Low

\* ... or the end of its track.
Ending ==
  worker # Null /\ worker.stage = "ready" /\ ~worker.eos /\ worker.left = 0 /\ Low

\* The clock has moved the cursor to the next track, whose boundary is to come.
Ahead == player.state = "playing" /\ player.index > player.current /\ adapter.advance = Null

Phases ==
  {ph \in {"init", "teardown", "open", "prepare", "seek", "advance", "filling", "primed", "ending",
          "ahead", "boundary", "resuming", "suspending", "failing", "error"} :
     CASE ph = "init"     -> adapter.making # Null
       [] ph = "teardown" -> \E d \in dying : d.then # Null
       [] ph = "open"     -> adapter.open # Null
       [] ph = "prepare"  -> adapter.prepare # Null
       [] ph = "seek"     -> adapter.seek # Null \/ Asked("seek")
       [] ph = "advance"  -> adapter.advance # Null
       [] ph = "filling"  -> Filling
       [] ph = "primed"   -> Posted("primed")
       [] ph = "ending"   -> Ending
       [] ph = "boundary" -> RunOut
       [] ph = "ahead"    -> Ahead
       [] ph \in {"resuming", "suspending"} -> output = ph
       [] ph = "failing"  -> Posted("error")
       [] ph = "error"    -> player.state = "error" \/ (worker = Null /\ Loads = {})}

\* Nothing is under way: no message, no pending call, no change of the output.
AtRest ==
  /\ Phases \subseteq {"error", "filling", "ending", "ahead"}
  /\ worker # Null => worker.inbox = << >> /\ worker.outbox = << >>

(***************************************************************************)
(* A load holds until it ends: while the player shows "loading", a call of *)
(* the newest load is waiting for a worker, for what supersedes a load     *)
(* either loads itself or takes the state with it; and the cursor stays on *)
(* the track that is being opened, whatever a late report of the worker    *)
(* replaced or a late end of track would make of it.                       *)
(***************************************************************************)
LoadsHold ==
  /\ player.state = "loading" => Loads # {}
  /\ \A call \in Loads : call.track = player.index

(***************************************************************************)
(* The user's pause sticks: once all is quiet nothing is decoded and the   *)
(* output does not run, whatever load, seek or prime the pause raced with. *)
(***************************************************************************)
PauseHolds ==
  AtRest /\ player.pauseIntent => output = "suspended" /\ (worker # Null => ~worker.pumping)


(***************************************************************************)
(* player.ts: no window is left in which the clock's catch-up steals the   *)
(* advance of a boundary, so that it lands two tracks ahead.  The end of   *)
(* the queue is not reached with a track skipped.                          *)
(***************************************************************************)
EndedIsTrue == player.state = "ended" => worker # Null /\ worker.standby = 0
=============================================================================
