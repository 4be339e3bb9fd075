----------------------------- MODULE RingBuffer -----------------------------
(***************************************************************************)
(* The bounded ring of frames between a decoder and the device, in Rust    *)
(* and in the browser's worklet alike: absolute read and write counts, a   *)
(* slot for each frame at its count modulo the capacity, and a base that   *)
(* is added to the reported playhead only.  A frame is one value here,     *)
(* whatever its channels.                                                  *)
(***************************************************************************)
EXTENDS Integers, Sequences

NewRing(capacity, silence) ==
  [data |-> [slot \in 0..capacity - 1 |-> silence], capacity |-> capacity,
   read_abs |-> 0, write_abs |-> 0, reported_base |-> 0]

available_frames(ring) == ring.write_abs - ring.read_abs
free_frames_Whole(ring) == ring.capacity

free_frames(ring) == ring.capacity - available_frames(ring)

rendered_frames(ring) == ring.read_abs + ring.reported_base

AtMost(a, b) == IF a < b THEN a ELSE b

(***************************************************************************)
(* The frames of chunk that fit are written to the slots from write_abs    *)
(* on: Ahead is how far a slot lies behind the write count.                *)
(***************************************************************************)
Slot(ring, count) == count % ring.capacity
Ahead(ring, slot) == (slot - ring.write_abs) % ring.capacity
Accepted(ring, chunk) == AtMost(Len(chunk), free_frames(ring))

write_interleaved(ring, chunk) ==
  [ring EXCEPT
     !.data = [slot \in DOMAIN ring.data |->
                 IF Ahead(ring, slot) < Accepted(ring, chunk)
                   THEN chunk[Ahead(ring, slot) + 1] ELSE ring.data[slot]],
     !.write_abs = @ + Accepted(ring, chunk)]

\* What reading max_frames yields, and the ring it leaves.
Readable(ring, max_frames) == AtMost(max_frames, available_frames(ring))

FramesRead(ring, max_frames) ==
  [i \in 1..Readable(ring, max_frames) |-> ring.data[Slot(ring, ring.read_abs + i - 1)]]

AfterRead(ring, max_frames) == [ring EXCEPT !.read_abs = @ + Readable(ring, max_frames)]

continue_playhead_from(ring, delta) == [ring EXCEPT !.reported_base = @ + delta]

-----------------------------------------------------------------------------
IsRing(ring, frames) ==
  /\ ring \in [data : [0..ring.capacity - 1 -> frames], capacity : Nat \ {0},
               read_abs : Nat, write_abs : Nat, reported_base : Nat]
  /\ available_frames(ring) \in 0..ring.capacity

\* The frames a ring holds, in the order they will be read.
Content(ring) == FramesRead(ring, available_frames(ring))
=============================================================================
