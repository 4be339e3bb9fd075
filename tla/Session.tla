------------------------------ MODULE Session -------------------------------
(***************************************************************************)
(* A decode session of the engine: decoder, pending chunk, resampler and   *)
(* ring.  pump decodes one chunk when none is pending and converts as much *)
(* of it as the ring and the caller allow; each iteration of the           *)
(* resampler's loops is a step.  Its positions are compared as whole       *)
(* numbers: output frame k lies at k * source_rate, source frame f at      *)
(* f * output_rate.                                                        *)
(***************************************************************************)
EXTENDS RingBuffer, Resampling

CONSTANTS Targets, Deltas,
          Capacity,  \* frames the ring holds
          Chunk,     \* source frames a decoder read returns at most
          Scratch,   \* frames a seek drops at a time
          MaxSeeks   \* bound on the seeks of a run

ASSUME TargetsAssumption == Targets \subseteq Nat
ASSUME DeltasAssumption == Deltas \subseteq Nat \ {0}
ASSUME SizesAssumption == {Capacity, Chunk, Scratch} \subseteq Nat \ {0} /\ MaxSeeks \in Nat

VARIABLES
  track,      \* the track that is open
  handed,     \* source frames its decoder has returned
  eos,        \* the decoder is at its end
  pending,    \* the source frames of the chunk being converted
  offset,     \* pending_offset
  resampler,  \* previous, have_previous, source_frames_seen, ...
  tail_done,
  ring,
  pc,         \* "idle", or what pump is in: "process" or "finish"
  room,       \* how many frames this pump may still write
  seeking,    \* "no", or a seek reopened the track and will "pump" or "take"
  remaining,  \* the frames it has still to skip
  out,        \* the frames the last read delivered
  seeks       \* how many seeks there were

decode == <<handed, eos, pending, offset, resampler, tail_done>>
vars == <<track, decode, ring, pc, room, seeking, remaining, out, seeks>>

Silence == << >>

NewResampler ==
  [previous |-> 0, have_previous |-> FALSE, seen |-> 0, written |-> 0, done |-> FALSE]

Open ==
  /\ handed = 0 /\ eos = FALSE /\ pending = << >> /\ offset = 0
  /\ resampler = NewResampler /\ tail_done = FALSE
  /\ ring = NewRing(Capacity, Silence)

Init ==
  /\ track \in Tracks
  /\ Open
  /\ pc = "idle" /\ room = 0 /\ seeking = "no" /\ remaining = 0
  /\ out = << >> /\ seeks = 0

-----------------------------------------------------------------------------
(***************************************************************************)
(* pump, up to where it enters process or finish.                          *)
(***************************************************************************)
Decoded(n) ==
  /\ pending' = [i \in 1..n |-> handed + i - 1]
  /\ handed' = handed + n
  /\ offset' = 0
  /\ pc' = "process"
  /\ UNCHANGED eos

AtEnd ==
  /\ eos' = TRUE
  /\ pc' = IF tail_done THEN "idle" ELSE "finish"
  /\ UNCHANGED <<handed, pending, offset>>

pump(max_output_frames) ==
  /\ pc = "idle"
  /\ room' = max_output_frames
  /\ \/ /\ eos \/ (pending = << >> /\ handed = track.frames)
        /\ AtEnd
     \/ /\ ~eos /\ pending = << >>
        /\ \E n \in 1..AtMost(Chunk, track.frames - handed) : Decoded(n)
     \/ /\ ~eos /\ pending # << >>
        /\ pc' = "process"
        /\ UNCHANGED <<handed, eos, pending, offset>>
  /\ UNCHANGED <<track, resampler, tail_done, ring, remaining, out, seeks>>

Pump(max_output_frames) ==
  /\ seeking = "no" /\ pump(max_output_frames)
  /\ UNCHANGED seeking

-----------------------------------------------------------------------------
(***************************************************************************)
(* The resampler's loops.  Due compares its output_position with a source  *)
(* position.                                                               *)
(***************************************************************************)
output_position == resampler.written * track.source_rate
DueBy(source) == output_position <= source * track.output_rate
DueBefore(source) == output_position < source * track.output_rate

MayWrite == free_frames(ring) > 0 /\ room > 0

Emit(frame) ==
  /\ ring' = write_interleaved(ring, <<frame>>)
  /\ room' = room - 1

Source == pending[offset + 1]
Converting == pc = "process" /\ ~resampler.done /\ offset < Len(pending)

First ==
  /\ Converting /\ ~resampler.have_previous /\ MayWrite
  /\ Emit(Blend(Source, Source, 0, track.output_rate))
  /\ resampler' = [previous |-> Source, have_previous |-> TRUE, seen |-> 1,
                   written |-> 1, done |-> FALSE]
  /\ offset' = offset + 1
  /\ UNCHANGED <<track, handed, eos, pending, tail_done, pc, seeking, remaining, out, seeks>>

\* map_frame between the previous source frame and the one at hand.
Interpolated ==
  Blend(resampler.previous, Source,
        output_position - (resampler.seen - 1) * track.output_rate, track.output_rate)

Between ==
  /\ Converting /\ resampler.have_previous /\ DueBy(resampler.seen) /\ MayWrite
  /\ Emit(Interpolated)
  /\ resampler' = [resampler EXCEPT !.written = @ + 1]
  /\ UNCHANGED <<track, handed, eos, pending, offset, tail_done, pc, seeking, remaining, out, seeks>>

Consume ==
  /\ Converting /\ resampler.have_previous /\ ~DueBy(resampler.seen)
  /\ resampler' = [resampler EXCEPT !.previous = Source, !.seen = @ + 1]
  /\ offset' = offset + 1
  /\ UNCHANGED <<track, handed, eos, pending, tail_done, ring, pc, room, seeking, remaining, out, seeks>>

\* process returns: nothing is left of the chunk, or a due frame has no room.
Blocked == (resampler.have_previous => DueBy(resampler.seen)) /\ ~MayWrite

Return_Clears ==
  /\ pc = "process" /\ (Converting => Blocked)
  /\ pending' = << >> /\ offset' = 0
  /\ pc' = "idle"
  /\ UNCHANGED <<track, handed, eos, resampler, tail_done, ring, room, seeking, remaining, out, seeks>>

Return_Keeps ==
  /\ pc = "process" /\ (Converting => Blocked)
  /\ UNCHANGED <<pending, offset>>
  /\ pc' = "idle"
  /\ UNCHANGED <<track, handed, eos, resampler, tail_done, ring, room, seeking, remaining, out, seeks>>

Return ==
  /\ pc = "process" /\ (Converting => Blocked)
  /\ IF offset >= Len(pending) THEN pending' = << >> /\ offset' = 0
     ELSE UNCHANGED <<pending, offset>>
  /\ pc' = "idle"
  /\ UNCHANGED <<track, handed, eos, resampler, tail_done, ring, room, seeking, remaining, out, seeks>>

Held ==
  /\ pc = "finish" /\ ~resampler.done /\ resampler.have_previous
  /\ DueBefore(resampler.seen) /\ MayWrite
  /\ Emit(Blend(resampler.previous, resampler.previous, 0, track.output_rate))
  /\ resampler' = [resampler EXCEPT !.written = @ + 1]
  /\ UNCHANGED <<track, handed, eos, pending, offset, tail_done, pc, seeking, remaining, out, seeks>>

\* finish returns: false when a due frame has no room, else true.
FinishLater ==
  /\ pc = "finish" /\ ~resampler.done /\ resampler.have_previous
  /\ DueBefore(resampler.seen) /\ ~MayWrite
  /\ pc' = "idle"
  /\ UNCHANGED <<track, decode, ring, room, seeking, remaining, out, seeks>>

Finish ==
  /\ pc = "finish"
  /\ resampler.done \/ ~resampler.have_previous \/ ~DueBefore(resampler.seen)
  /\ resampler' = [resampler EXCEPT !.done = TRUE]
  /\ tail_done' = TRUE
  /\ pc' = "idle"
  /\ UNCHANGED <<track, handed, eos, pending, offset, ring, room, seeking, remaining, out, seeks>>

Convert == First \/ Between \/ Consume \/ Return \/ Held \/ FinishLater \/ Finish

-----------------------------------------------------------------------------
exhausted == eos /\ resampler.done /\ pending = << >> /\ available_frames(ring) = 0

Read(max_frames) ==
  /\ pc = "idle" /\ seeking = "no"
  /\ out' = FramesRead(ring, max_frames)
  /\ ring' = AfterRead(ring, max_frames)
  /\ UNCHANGED <<track, decode, pc, room, seeking, remaining, seeks>>

(***************************************************************************)
(* DecoderEngine::seek: unless there is nothing to do the track is opened  *)
(* again and frames are pumped and dropped until the target or the end is  *)
(* reached; then the ring is rebuilt with what it holds.                   *)
(***************************************************************************)
Seek(samples) ==
  /\ pc = "idle" /\ seeking = "no"
  /\ ~(samples = 0 /\ rendered_frames(ring) = 0 /\ pending = << >>)
  /\ seeks < MaxSeeks /\ seeks' = seeks + 1
  /\ handed' = 0 /\ eos' = FALSE /\ pending' = << >> /\ offset' = 0
  /\ resampler' = NewResampler /\ tail_done' = FALSE
  /\ ring' = NewRing(Capacity, Silence)
  /\ seeking' = "pump" /\ remaining' = samples
  /\ UNCHANGED <<track, pc, room, out>>

SkipPump ==
  /\ seeking = "pump" /\ remaining > 0
  /\ pump(free_frames(ring))
  /\ seeking' = "take"

Skip ==
  /\ pc = "idle" /\ seeking = "take"
  /\ available_frames(ring) = 0 => ~exhausted
  /\ LET take == AtMost(remaining, Scratch) IN
       /\ ring' = AfterRead(ring, take)
       /\ remaining' = remaining - Readable(ring, take)
  /\ seeking' = "pump"
  /\ UNCHANGED <<track, decode, pc, room, out, seeks>>

rebase_playhead ==
  ring' = write_interleaved(NewRing(ring.capacity, Silence), Content(ring))

Land ==
  /\ pc = "idle"
  /\ \/ seeking = "pump" /\ remaining = 0
     \/ seeking = "take" /\ exhausted
  /\ rebase_playhead
  /\ seeking' = "no" /\ remaining' = 0
  /\ UNCHANGED <<track, decode, pc, room, out, seeks>>

(***************************************************************************)
(* finish_crossfade_swap makes a session current and lets its playhead     *)
(* continue the outgoing one's.                                            *)
(***************************************************************************)
Promote(delta) ==
  /\ pc = "idle" /\ seeking = "no" /\ ring.reported_base = 0
  /\ ring' = continue_playhead_from(ring, delta)
  /\ UNCHANGED <<track, decode, pc, room, seeking, remaining, out, seeks>>

-----------------------------------------------------------------------------
\* What fill_current and begin_crossfade ask for.
Refill == ~exhausted /\ \E n \in 1..free_frames(ring) : Pump(n)
Drain == \E n \in 1..Capacity : Read(n)

Next ==
  \/ Refill
  \/ Convert
  \/ \E n \in 0..Capacity : Read(n)
  \/ \E samples \in Targets : Seek(samples)
  \/ SkipPump \/ Skip \/ Land
  \/ \E delta \in Deltas : Promote(delta)

Spec == Init /\ [][Next]_vars

-----------------------------------------------------------------------------
(***************************************************************************)
(* The host goes on pumping and rendering, and a call returns.             *)
(***************************************************************************)
Fairness ==
  /\ WF_vars(Refill) /\ WF_vars(Drain) /\ WF_vars(Convert)
  /\ WF_vars(SkipPump) /\ WF_vars(Skip) /\ WF_vars(Land)

FairSpec == Spec /\ Fairness

-----------------------------------------------------------------------------
Frames == Nat \X Nat \X Nat
Slots == Frames \cup {Silence}

Resamplers ==
  [previous : Nat, have_previous : BOOLEAN, seen : Nat, written : Nat, done : BOOLEAN]

PendingHolds ==
  /\ pending = [i \in 1..Len(pending) |-> handed - Len(pending) + i - 1]
  /\ offset \in 0..Len(pending)

(***************************************************************************)
(* Every variable has its type, and the ring is never over-full.           *)
(***************************************************************************)
TypeOK ==
  /\ track \in Tracks
  /\ handed \in 0..track.frames /\ eos \in BOOLEAN /\ tail_done \in BOOLEAN
  /\ pending \in Seq(Nat) /\ Len(pending) <= handed /\ PendingHolds
  /\ resampler \in Resamplers
  /\ ring.capacity = Capacity /\ IsRing(ring, Slots)
  /\ pc \in {"idle", "process", "finish"} /\ room \in 0..Capacity
  /\ seeking \in {"no", "pump", "take"} /\ remaining \in Nat
  /\ out \in Seq(Slots)
  /\ seeks \in 0..MaxSeeks

(***************************************************************************)
(* What the session is as a stream.  The next frame the device hears is    *)
(* the first one still in the ring; while a seek skips, its target.        *)
(***************************************************************************)
Position == resampler.written - available_frames(ring)

NextFrame ==
  IF seeking = "no" THEN Position
  ELSE AtMost(Position + remaining, length_samples(track))

Reported == IF seeking = "no" THEN rendered_frames(ring) ELSE 0

Promised == INSTANCE Stream
  WITH pos <- NextFrame, playhead <- Reported, over <- seeking = "no" /\ exhausted

(***************************************************************************)
(* The session delivers the frames of the track once each and in order,    *)
(* from the start or from a seek's target, however pumps, reads and a full *)
(* ring cut them up; "length_samples" is how many there are, and it is     *)
(* exhausted only after the last.                                          *)
(***************************************************************************)
IsStream == Promised!StreamSpec

(***************************************************************************)
(* A session that is pumped and drained comes to its audible end.          *)
(***************************************************************************)
TrackEnds == <>[](seeking = "no" /\ exhausted)
=============================================================================
