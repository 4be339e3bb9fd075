----------------------------- MODULE MCOffline ------------------------------
(***************************************************************************)
(* A release of two tracks and a lyric: both tracks' primary audio is      *)
(* critical, the lyric is not.  Two versions of equal size.                *)
(***************************************************************************)
EXTENDS Offline

CONSTANTS t1, t2, lyric

Tracks == <<t1, lyric, t2>>

EqualSizes == [v \in {1, 2} |-> 1]
=============================================================================
