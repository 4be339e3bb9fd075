----------------------------- MODULE Resampling -----------------------------
(***************************************************************************)
(* Tracks, the length a track has at the output rate, and its frames: one  *)
(* linear interpolation of the whole track.                                *)
(*                                                                         *)
(* A frame is <<left, right, part>>: the source frames it lies between and *)
(* how many output_rate-ths of the way, or <<f, f, 0>> for source frame f. *)
(***************************************************************************)
EXTENDS Integers, Sequences

CONSTANT Tracks   \* records [frames, source_rate, output_rate]

ASSUME TracksAssumption ==
  Tracks \subseteq [frames : Nat, source_rate : Nat \ {0}, output_rate : Nat \ {0}]

length_samples(t) ==
  (t.frames * t.output_rate + t.source_rate - 1) \div t.source_rate

Blend(left, right, part, rate) ==
  CASE part = 0    -> <<left, left, 0>>
    [] part = rate -> <<right, right, 0>>
    [] OTHER       -> <<left, right, part>>

(***************************************************************************)
(* Output frame k lies k * source_rate / output_rate source frames into    *)
(* the track; past the last source frame that one is held.                 *)
(***************************************************************************)
OutputFrame(t, k) ==
  LET at   == k * t.source_rate
      left == at \div t.output_rate
  IN  IF left >= t.frames - 1 THEN <<t.frames - 1, t.frames - 1, 0>>
      ELSE Blend(left, left + 1, at % t.output_rate, t.output_rate)
=============================================================================
