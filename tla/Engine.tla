------------------------------- MODULE Engine -------------------------------
(***************************************************************************)
(* The decoder engine (crates/musicpack-engine: engine.rs, session.rs,     *)
(* mixer.rs) as operators over an engine record                            *)
(*                                                                         *)
(*   current   the decode session being heard, or NoSession                *)
(*   standby   the session preloaded for the next boundary                 *)
(*   xfade     the crossfade lane being mixed, or NoFade                   *)
(*   result    the overlap of a completed fade, or NoResult                *)
(*   pumping   whether decoding is allowed                                 *)
(*   error     whether a decode error waits for the host                   *)
(*                                                                         *)
(* Time is counted in units of output frames, one unit per decoded chunk,  *)
(* so a session never holds a half-resampled chunk.  PCM is not modelled:  *)
(* a session is where it started in its track and how far its ring has     *)
(* been written and read.                                                  *)
(***************************************************************************)
EXTENDS Queue

CONSTANTS TrackLen,         \* the length of each entry's track
          Broken,           \* entries whose source cannot be opened
          Truncated,        \* entries whose decoder fails where the track should end
          RingCapacity,     \* the ring's capacity (8 s in the code)
          HighWater,        \* the fill at which decoding pauses (0.8 of the ring)
          CallbackMargin,   \* extra frames primed into a fade lane (2048 in the code)
          PreloadNext       \* DecoderEngineConfig::preload_next

ASSUME TrackLenAssumption == TrackLen \in [Entries -> Nat]
ASSUME SourcesAssumption == Broken \subseteq Entries /\ Truncated \subseteq Entries
ASSUME RingAssumption ==
  /\ HighWater \in Nat \ {0} /\ RingCapacity \in Nat /\ HighWater <= RingCapacity
  /\ CallbackMargin \in Nat
ASSUME PreloadNextAssumption == PreloadNext \in BOOLEAN

Least(a, b) == IF a <= b THEN a ELSE b

\* Mutant: an unchecked subtraction.
Minus_Unchecked(a, b) == a - b

Minus(a, b) == IF a > b THEN a - b ELSE 0    \* saturating_sub

-----------------------------------------------------------------------------
(***************************************************************************)
(* Decode sessions.  A session starts at frame `from' of its track; the    *)
(* ring has been written and read so far; `base' is added to the reported  *)
(* playhead only.                                                          *)
(***************************************************************************)
Session(item, from, eos) ==
  [item |-> item, from |-> from, read |-> 0, write |-> 0, base |-> 0, eos |-> eos]

NoSession == Session(NoEntry, 0, FALSE)

open_session(item) == Session(item, 0, FALSE)

available_frames(s) == s.write - s.read

rendered_frames(s) == s.read + s.base

Undecoded(s) == TrackLen[s.item] - s.from - s.write

\* Mutant: the end of the stream is taken for the end of the sound.
exhausted_AtEos(s) == s.eos

exhausted(s) == s.eos /\ available_frames(s) = 0

read_frames(s, n) == [s EXCEPT !.read = @ + Least(n, available_frames(s))]

(***************************************************************************)
(* Pump until the ring holds `level' frames or the track is used up.       *)
(***************************************************************************)
PumpTo(s, level) ==
  [s EXCEPT !.write = @ + Least(Minus(level, available_frames(s)), Undecoded(s))]

-----------------------------------------------------------------------------
NoFade == [incoming |-> NoSession, fade |-> 0, mixed |-> 0, start |-> 0]

NoResult == -1

ClosedEngine ==
  [current |-> NoSession, standby |-> NoSession, xfade |-> NoFade,
   result |-> NoResult, pumping |-> FALSE, error |-> FALSE]

HasSession(e) == e.current.item # NoEntry

crossfade_pending(e) == e.xfade.incoming.item # NoEntry

cancel_crossfade(e) == [e EXCEPT !.xfade = NoFade, !.result = NoResult]

rendered_samples(e) == rendered_frames(e.current)

is_output_drained(e) == HasSession(e) /\ exhausted(e.current)

start_pumping(e) == [e EXCEPT !.pumping = TRUE]

pause_pumping(e) == [e EXCEPT !.pumping = FALSE]

(***************************************************************************)
(* fill_current: the decoder is driven to the high watermark; one more     *)
(* pump below it meets the end of the track, cleanly or with an error.     *)
(***************************************************************************)
fill_current(e) ==
  LET filled == PumpTo(e.current, HighWater)
      atEnd  == available_frames(filled) < HighWater /\ ~e.current.eos
      failed == atEnd /\ e.current.item \in Truncated
  IN  IF ~e.pumping \/ ~HasSession(e) \/ exhausted(e.current)
        THEN e
        ELSE [e EXCEPT !.current = [filled EXCEPT !.eos = @ \/ (atEnd /\ ~failed)],
                       !.error = @ \/ failed]

\* Mutant: the incoming session takes over without reporting the fade.
finish_crossfade_swap_Silent(e) ==
  [e EXCEPT !.current = e.xfade.incoming, !.xfade = NoFade, !.standby = NoSession]

(***************************************************************************)
(* The fade is over: the incoming session takes over, its reported         *)
(* playhead rebased to where mixing began.                                 *)
(***************************************************************************)
finish_crossfade_swap(e) ==
  LET incoming == e.xfade.incoming
      delta    == Minus(e.xfade.start, rendered_frames(incoming))
  IN  [e EXCEPT !.current = [incoming EXCEPT !.base = @ + delta],
                !.result  = Minus(rendered_frames(e.current), e.xfade.start),
                !.xfade   = NoFade,
                !.standby = NoSession]

(***************************************************************************)
(* consume: one device callback of n frames.  A running fade mixes both    *)
(* lanes without pumping either; a callback that outlasts the window swaps *)
(* and reads on from the promoted session.                                 *)
(***************************************************************************)
ReadCurrent(e, n) ==
  LET f == fill_current(e)
  IN  IF HasSession(f) THEN [f EXCEPT !.current = read_frames(@, n)] ELSE f

Mix(e, m) ==
  [e EXCEPT !.current        = read_frames(@, m),
            !.xfade.incoming = read_frames(@, m),
            !.xfade.mixed    = @ + m]

consume(e, n) ==
  LET m == Least(n, e.xfade.fade - e.xfade.mixed)
  IN  IF ~crossfade_pending(e) THEN ReadCurrent(e, n)
      ELSE IF m = n THEN Mix(e, n)
      ELSE ReadCurrent(finish_crossfade_swap(Mix(e, m)), n - m)

-----------------------------------------------------------------------------
(***************************************************************************)
(* The Engine trait, as DecoderEngine implements it.                       *)
(***************************************************************************)
open(e, item) ==
  LET cleared == [cancel_crossfade(e) EXCEPT !.standby = NoSession,
                                             !.current = NoSession,
                                             !.error = FALSE]
  IN  IF item \in Broken
        THEN cleared
        ELSE [cleared EXCEPT !.current = open_session(item), !.pumping = FALSE]

close(e) == [ClosedEngine EXCEPT !.error = e.error]

(***************************************************************************)
(* A seek reopens the source and skips; a seek to 0 of a session that has  *)
(* rendered nothing is taken for a no-op.                                  *)
(***************************************************************************)
IsNoOpSeek(e, samples) == samples = 0 /\ rendered_samples(e) = 0

seek(e, samples) ==
  LET len    == TrackLen[e.current.item]
      failed == e.current.item \in Truncated /\ samples > len
  IN  IF ~HasSession(e) \/ IsNoOpSeek(e, samples) THEN e
      ELSE IF failed THEN [cancel_crossfade(e) EXCEPT !.error = TRUE]
      ELSE [cancel_crossfade(e) EXCEPT
              !.current = Session(@.item, Least(samples, len), samples > len)]

prepare_next(e, item) ==
  [e EXCEPT !.standby = IF item \in Broken THEN NoSession ELSE open_session(item)]

\* Mutant: whatever is on standby will do.
CanAdvance_AnyStandby(e, expected) == expected # NoEntry /\ e.standby # NoSession

CanAdvance(e, expected) == expected # NoEntry /\ e.standby.item = expected

\* Mutant: the standby is taken, but the drained session stays.
advance_Stays(e, expected) ==
  IF CanAdvance(e, expected) THEN [e EXCEPT !.standby = NoSession] ELSE e

advance(e, expected) ==
  IF CanAdvance(e, expected)
    THEN [e EXCEPT !.current = e.standby, !.standby = NoSession]
    ELSE e

CanCrossfade(e, next_item) ==
  ~crossfade_pending(e) /\ HasSession(e) /\ CanAdvance(e, next_item)

\* Mutant: the lane is handed to the mixer before it is primed.
begin_crossfade_Unprimed(e, fade) ==
  [e EXCEPT !.xfade   = [incoming |-> e.standby, fade |-> fade, mixed |-> 0,
                         start |-> rendered_samples(e)],
            !.standby = NoSession]

begin_crossfade(e, fade) ==
  [e EXCEPT !.xfade   = [incoming |-> PumpTo(e.standby, Least(fade + CallbackMargin, RingCapacity)),
                         fade     |-> fade,
                         mixed    |-> 0,
                         start    |-> rendered_samples(e)],
            !.standby = NoSession]

=============================================================================
