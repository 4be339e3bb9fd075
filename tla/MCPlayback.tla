----------------------------- MODULE MCPlayback -----------------------------
(***************************************************************************)
(* Playback on small instances.  Tracks are two to five decoder chunks     *)
(* long, so a boundary, a fade window and a partly filled ring all occur;  *)
(* the ring holds four chunks and decoding pauses at three.  Which commands*)
(* users give, and whether the engine preloads and fades, is chosen in     *)
(* each configuration.                                                     *)
(***************************************************************************)
EXTENDS Playback

CONSTANTS a, b, c, d

Mixed == [i \in Entries |-> IF i = a THEN 2 ELSE 3]

Longer == [i \in Entries |-> IF i = a THEN 3 ELSE 5]

(***************************************************************************)
(* Duration hints, where c has none until it is opened.                    *)
(***************************************************************************)
Partial == [i \in Entries |-> IF i = c THEN 0 ELSE Mixed[i]]

Pairs == {<<a, b>>}

EitherPair == {<<a, b>>, <<b, a>>}

Triple == {<<a, b, c>>}

(***************************************************************************)
(* A list of three, one that holds the same track twice, and one whose     *)
(* middle track, d, cannot be opened.                                      *)
(***************************************************************************)
Triples == {<<a, b, c>>, <<a, b, a>>, <<a, d, b>>}

=============================================================================
