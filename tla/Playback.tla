------------------------------ MODULE Playback ------------------------------
(***************************************************************************)
(* The whole player as a host runs it (crates/musicpack-host/src/host.rs   *)
(* and PlayerCore of crates/musicpack-wasm): the queue, the transport state*)
(* machine and the decoder engine, driven by user commands and by the      *)
(* device callback.  Every command and every callback is one atomic step,  *)
(* as they are in the synchronous core; they interleave in any order.      *)
(*                                                                         *)
(* A paused host suspends the device clock (tests/host_integration.rs), so *)
(* the callback does not run in state "paused".                            *)
(***************************************************************************)
EXTENDS Player

CONSTANTS Playlists,    \* the sequences a user can start
          Quanta,       \* the callback sizes
          SeekTargets,  \* the album positions a user seeks to
          Fades,        \* the crossfade lengths a user chooses from
          Modes,        \* the repeat modes a user chooses from
          Commands,     \* the commands users give in this instance
          MaxClock,     \* bound on the album clock
          MaxItems      \* bound on the queue's length

ASSUME PlaylistsAssumption == Playlists \subseteq Seq(Entries) \ {<<>>}
(***************************************************************************)
(* Callbacks are small beside the decoded reserve (128 frames to 6.4 s).   *)
(***************************************************************************)
ASSUME QuantaAssumption == Quanta \subseteq 1..(HighWater - 1)
(***************************************************************************)
(* RepeatMode has three values; set_crossfade takes its presets only (0, 4,*)
(* 8 and 12 s), and seek clamps a negative position to zero.               *)
(***************************************************************************)
ASSUME ModesAssumption == Modes \subseteq RepeatModes
ASSUME FadesAssumption == Fades \subseteq Nat
ASSUME TargetsAssumption == SeekTargets \subseteq Nat

VARIABLES queue, player, engine

vars == <<queue, player, engine>>

System == [q |-> queue, p |-> player, e |-> engine]

(***************************************************************************)
(* The step to one of the states S.                                        *)
(***************************************************************************)
Become(S) ==
  \E s \in S :
    /\ queue' = s.q /\ player' = s.p /\ engine' = s.e
    /\ album_position(s) <= MaxClock

Init ==
  /\ queue = EmptyQueue
  /\ player = NewPlayer
  /\ engine = ClosedEngine

-----------------------------------------------------------------------------
(***************************************************************************)
(* The device callback: consume, then feed every engine fact back in the   *)
(* order of Host::sync.                                                    *)
(***************************************************************************)
SyncCrossfade(s) ==
  IF s.e.result = NoResult THEN s
  ELSE on_crossfade_complete([s EXCEPT !.e.result = NoResult], s.e.result)

SyncError(s) == IF s.e.error THEN fail([s EXCEPT !.e.error = FALSE]) ELSE s

BeforeTick(s) ==
  LET t == SyncError(SyncCrossfade(s))
  IN  IF is_output_drained(t.e) THEN on_eos(t) ELSE {t}

sync(s) == {on_tick(t) : t \in BeforeTick(s)}

Render ==
  \E n \in Quanta :
    /\ player.state # "paused"
    /\ Become(sync([System EXCEPT !.e = consume(@, n)]))

Prime == Become({on_primed(System)})

Starve == "starve" \in Commands /\ Become({on_buffering(System)})

-----------------------------------------------------------------------------
(***************************************************************************)
(* User commands.                                                          *)
(***************************************************************************)
PlaySequence ==
  \E items \in Playlists, start \in {0, 1} :
    Become(Start(System, play_sequence(queue, items, start)))

PlayItem ==
  /\ "item" \in Commands
  /\ \E item \in Entries : Become(Start(System, play_now(queue, item)))

PlayQueueIndex ==
  /\ "jump" \in Commands
  /\ \E i \in 0..(MaxItems - 1) :
       /\ Become(play_queue_index(System, i))

SkipNext ==
  /\ "skip" \in Commands
  /\ Become(PlayerNext(System))

SkipPrevious ==
  /\ "skip" \in Commands
  /\ Become(PlayerPrevious(System))

Seek ==
  /\ "seek" \in Commands
  /\ \E pos \in SeekTargets : Become({seek_inner(System, pos)})

Stop ==
  /\ "stop" \in Commands
  /\ Become({stop_inner(System)})

Teardown ==
  /\ "stop" \in Commands
  /\ Become({teardown_inner(System)})

TogglePlay ==
  /\ "pause" \in Commands
  /\ Become({toggle_play_inner(System)})

(***************************************************************************)
(* pause() and resume() have no guard in the code; a host offers them      *)
(* while playing and while paused, and "anytime" drops that assumption.    *)
(***************************************************************************)
Pause ==
  /\ "pause" \in Commands
  /\ player.state \in {"buffering", "playing"} \/ "anytime" \in Commands
  /\ Become({pause_inner(System)})

Resume ==
  /\ "pause" \in Commands
  /\ player.state = "paused" \/ "anytime" \in Commands
  /\ Become({resume_inner(System)})

SetRepeat ==
  /\ player.state = "idle" \/ "repeat" \in Commands
  /\ \E mode \in Modes :
    Become({[System EXCEPT !.q = set_repeat(@, mode)]})

SetShuffle ==
  /\ "shuffle" \in Commands
  /\ \E on \in BOOLEAN : Become(PlayerSetShuffle(System, on))

SetCrossfade ==
  \E f \in Fades : Become({[System EXCEPT !.p.crossfade = f]})

(***************************************************************************)
(* The queue panel: an edit of the list, then on_queue_changed.            *)
(***************************************************************************)
Edited(queues) == {on_queue_changed([System EXCEPT !.q = q]) : q \in queues}

EditQueue ==
  /\ "edit" \in Commands
  /\ \/ \E i \in 0..(MaxItems - 1) : Become(Edited(remove_at(queue, i)))
     \/ \E item \in Entries :
          /\ Length(queue) < MaxItems
          /\ Become(Edited(play_next(queue, item)))
     \/ \E i, j \in 0..(MaxItems - 1) : Become(Edited(move_item(queue, i, j)))
     \/ Become(Edited({clear(queue)}))

(***************************************************************************)
(* A page reload: the snapshot survives, everything else starts over.      *)
(***************************************************************************)
Reload ==
  /\ "reload" \in Commands
  /\ HasSnapshot(System)
  /\ Become(restore([q |-> EmptyQueue, p |-> NewPlayer, e |-> ClosedEngine],
                    take_snapshot(System)))

(***************************************************************************)
(* Some commands leave a running fade alone, and a reload forgets it.  The *)
(* others may supersede it; "midfade" lets them come during a fade.        *)
(***************************************************************************)
Adjust == Pause \/ Resume \/ SetRepeat \/ SetShuffle \/ SetCrossfade \/ Reload

Interrupt ==
  /\ player.in_progress => "midfade" \in Commands
  /\ \/ PlaySequence \/ PlayItem \/ PlayQueueIndex \/ SkipNext \/ SkipPrevious \/ Seek
     \/ Stop \/ Teardown \/ TogglePlay \/ EditQueue

Next == Render \/ Prime \/ Starve \/ Adjust \/ Interrupt

Spec == Init /\ [][Next]_vars

(***************************************************************************)
(* Fairness: the device keeps calling back unless it is suspended, and the *)
(* host reports a primed buffer; users promise nothing.  RenderMoves is    *)
(* the enabling condition of <<Render>>_vars, so the last conjunct is      *)
(* WF_vars(Render) in a form TLC evaluates quickly.                        *)
(***************************************************************************)
RenderMoves ==
  \E n \in Quanta :
    player.state # "paused" /\ sync([System EXCEPT !.e = consume(@, n)]) # {System}

FairSpec ==
  /\ Spec
  /\ WF_vars(Prime)
  /\ []<>~RenderMoves \/ []<><<Render>>_vars

-----------------------------------------------------------------------------
States == {"idle", "loading", "buffering", "playing", "paused", "ended", "error"}

Maybe == Entries \cup {NoEntry}

SessionType ==
  [item : Maybe, from : Nat, read : Nat, write : Nat, base : Nat, eos : BOOLEAN]

EngineType ==
  [current : SessionType, standby : SessionType,
   xfade : [incoming : SessionType, fade : Nat, mixed : Nat, start : Nat],
   result : Nat \cup {NoResult}, pumping : BOOLEAN, error : BOOLEAN]

XfadeType ==
  [fresh : BOOLEAN, target : Maybe, prev : Maybe, prev_len : Nat \cup {Unknown},
   race : [item : Maybe, raw_len : Nat, remaining : Nat]]

PlayerType ==
  [state : States, current : Maybe, position : Nat, track_start : Nat,
   attached : BOOLEAN, lengths : [Entries -> Nat \cup {Unknown}], reset_offset : Nat,
   pending_ended : BOOLEAN, pause_intent : BOOLEAN, crossfade : Nat, armed : BOOLEAN,
   in_progress : BOOLEAN, xfade : XfadeType,
   check : [idx : Nat \cup {-1}, fresh : BOOLEAN],
   restored : [idx : Nat \cup {-1}, within : Nat]]

(***************************************************************************)
(* Every part has its type: no saturating subtraction of the clock or the  *)
(* decoder goes below zero (seek_inner, load, track_remaining_samples), the*)
(* cursor stays in the list and the presentation order covers it.          *)
(***************************************************************************)
TypeOK ==
  /\ queue.items \in Seq(Entries) /\ IndexOK(queue) /\ OrderOK(queue)
  /\ player \in PlayerType
  /\ engine \in EngineType

Audible == HasSession(engine) /\ player.state \in {"buffering", "playing"}

Unplayed(ses) == TrackLen[ses.item] - ses.from - ses.read

(***************************************************************************)
(* What is shown is what is heard: outside a fade, the session the engine  *)
(* plays belongs to the item the player's model names, through loads,      *)
(* gapless promotions, seeks, skips, edits and restores.                   *)
(***************************************************************************)
EngineAgrees ==
  HasSession(engine) /\ ~crossfade_pending(engine) => engine.current.item = player.current

(***************************************************************************)
(* While there is sound, the queue's cursor is on the item being heard:    *)
(* neither the boundary code nor the tick's catch-up moves it elsewhere.   *)
(***************************************************************************)
CursorIsAudible ==
  Audible /\ ~crossfade_pending(engine) => current(queue) = engine.current.item

(***************************************************************************)
(* The user's pause sticks: while pause_intent is set no load, seek, tick, *)
(* fade or end of track resumes decoding or makes the player audible.      *)
(***************************************************************************)
PauseHolds ==
  player.pause_intent => ~engine.pumping /\ player.state \notin {"buffering", "playing"}

(***************************************************************************)
(* Player and engine agree on whether a fade is in flight, and on its      *)
(* target: crossfade_in_progress, which silences EOS and the catch-up, is  *)
(* set exactly while the engine mixes a lane for that target.              *)
(***************************************************************************)
FadeHandshake ==
  /\ player.in_progress <=> crossfade_pending(engine)
  /\ crossfade_pending(engine) => engine.xfade.incoming.item = player.xfade.target

(***************************************************************************)
(* The incoming lane of a fade is not pumped while it is mixed: it holds   *)
(* the rest of the window, or of as much of it as a ring can take, unless  *)
(* its track is shorter, through pauses, skips and callbacks of any size.  *)
(***************************************************************************)
LanesPrimeFully ==
  LET lane == engine.xfade.incoming
  IN  crossfade_pending(engine) =>
        \/ available_frames(lane) >= Least(engine.xfade.fade, RingCapacity) - engine.xfade.mixed
        \/ Undecoded(lane) = 0

(***************************************************************************)
(* session.rs: frames are decoded "beyond a fade window so the lane primes *)
(* fully".  The lane lasts as long as the window, or as its track.         *)
(***************************************************************************)
LanesLast ==
  LET lane == engine.xfade.incoming
  IN  crossfade_pending(engine) =>
        available_frames(lane) >= engine.xfade.fade - engine.xfade.mixed \/ Undecoded(lane) = 0

(***************************************************************************)
(* The album clock tells the truth: reset_offset plus the engine's         *)
(* rendered samples is the start of the current track in the album plus    *)
(* the frame of it that is being heard.                                    *)
(***************************************************************************)
ClockIsTrue ==
  Audible => album_position(System)
             = offset(System, queue.index) + engine.current.from + engine.current.read

(***************************************************************************)
(* An engine that preloads restarts its counter at a promotion, so that    *)
(* the clock stays behind until the next load or seek; but it never runs   *)
(* ahead of the sound, where it would move the cursor off the track that   *)
(* plays and end the queue early.                                          *)
(***************************************************************************)
ClockNeverAhead ==
  Audible => album_position(System)
             <= offset(System, queue.index) + engine.current.from + engine.current.read

(***************************************************************************)
(* PlayerState::Playing is documented as "Audible": there is a session to  *)
(* hear.                                                                   *)
(***************************************************************************)
PlayingIsAudible == player.state = "playing" => HasSession(engine)

(***************************************************************************)
(* A callback that moves on to another track (Boundary) does so only when  *)
(* it can have read the last frame of the track it leaves: the ring's tail *)
(* is not discarded with the session.                                      *)
(***************************************************************************)
NoTailLost ==
  [][Render /\ HasSession(engine) /\ engine'.current.item # engine.current.item
     => \E n \in Quanta : Unplayed(engine.current) <= n]_vars

(***************************************************************************)
(* Taking a snapshot and restoring it (take_snapshot, restore) gives back  *)
(* the position that was playing.                                          *)
(***************************************************************************)
ReloadKeepsPosition ==
  [][Reload => player'.position = player.position]_vars

(***************************************************************************)
(* events.ts: boundary-drift "should never fire".  No tick reports it:     *)
(* after a fade the album clock, compressed by the overlap, falls on the   *)
(* track that was faded to.                                                *)
(***************************************************************************)
NoDrift ==
  player.state # "paused" /\ queue.repeat = "off" =>
    \A n \in Quanta :
      \A t \in BeforeTick([System EXCEPT !.e = consume(@, n)]) : ~ReportsDrift(t)

(***************************************************************************)
(* Once the user leaves the player alone, and the queue does not repeat    *)
(* for ever, ...                                                           *)
(***************************************************************************)
Quiet == <>[][Render \/ Prime]_vars

PlaysOnce == Quiet /\ <>[](queue.repeat # "all")

(***************************************************************************)
(* ... it plays to its end (or stops at an error): no lost EOS, stuck fade *)
(* or missed end of queue leaves it "playing" silence.                     *)
(***************************************************************************)
PlaybackEnds == PlaysOnce => <>[](player.state \in {"idle", "paused", "ended", "error"})

(***************************************************************************)
(* ... and a fade in flight completes, unless the device is paused: "the   *)
(* host will report completion" (CrossfadeStart::Pending).                 *)
(***************************************************************************)
FadesComplete == PlaysOnce => <>[](player.in_progress => player.state = "paused")

=============================================================================
