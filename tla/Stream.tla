------------------------------- MODULE Stream -------------------------------
(***************************************************************************)
(* What a decode session promises its engine: the frames of a track at the *)
(* output rate, in order and each once; as many of them as its StreamInfo  *)
(* announces; and an end only after the last.  Nothing is said here of     *)
(* chunks, of a ring or of what happens when it is full.                   *)
(***************************************************************************)
EXTENDS Resampling

CONSTANTS Targets,  \* the output frames a seek may ask for
          Deltas    \* by how much a crossfade may continue the playhead

VARIABLES track,     \* the track that is open
          pos,       \* the output frame that comes next
          out,       \* the frames the last read delivered
          playhead,  \* the frames rendered, as reported
          over       \* whether the session is exhausted

streamVars == <<track, pos, out, playhead, over>>

StreamInit ==
  /\ track \in Tracks
  /\ pos = 0 /\ out = << >> /\ playhead = 0 /\ over = FALSE

Deliver ==
  /\ \E n \in 0..length_samples(track) - pos :
       /\ out' = [i \in 1..n |-> OutputFrame(track, pos + i - 1)]
       /\ pos' = pos + n
       /\ playhead' = playhead + n
  /\ over' \in BOOLEAN /\ over => over'
  /\ over' => pos' = length_samples(track)
  /\ UNCHANGED track

End ==
  /\ pos = length_samples(track)
  /\ over' = TRUE
  /\ UNCHANGED <<track, pos, out, playhead>>

Reposition ==
  /\ \E target \in Targets :
       pos' = IF target < length_samples(track) THEN target ELSE length_samples(track)
  /\ playhead' = 0 /\ over' = FALSE
  /\ UNCHANGED <<track, out>>

Continue ==
  /\ \E delta \in Deltas : playhead' = playhead + delta
  /\ UNCHANGED <<track, pos, out, over>>

StreamNext == Deliver \/ End \/ Reposition \/ Continue

StreamSpec == StreamInit /\ [][StreamNext]_streamVars
=============================================================================
