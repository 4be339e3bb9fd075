----------------------------- MODULE MCSession ------------------------------
(***************************************************************************)
(* Tracks of a few frames at one rate, sped up and slowed down.            *)
(***************************************************************************)
EXTENDS Session

Track(frames, source, output) ==
  [frames |-> frames, source_rate |-> source, output_rate |-> output]

Few == {Track(0, 1, 1), Track(1, 2, 3), Track(3, 1, 1), Track(3, 2, 3), Track(4, 3, 2),
        Track(2, 1, 3), Track(4, 2, 1), Track(5, 3, 4)}
=============================================================================
