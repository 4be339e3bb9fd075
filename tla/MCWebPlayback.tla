--------------------------- MODULE MCWebPlayback ---------------------------
(***************************************************************************)
(* Two tracks of two blocks, which may not open or be sought in, and two   *)
(* commands.  While nothing is under way every command may come, and       *)
(* during each phase those below; the pairs left out are races the code    *)
(* loses, which the README lists.                                          *)
(***************************************************************************)
EXTENDS WebPlayback

During ==
  [pause    |-> {"teardown", "open", "prepare", "seek", "filling", "primed", "ending", "ahead",
                 "boundary", "suspending", "failing"},
   toggle   |-> {"filling", "primed", "ending", "ahead", "resuming", "error"},
   next     |-> {"prepare", "advance", "ahead", "resuming", "suspending", "failing", "error"},
   previous |-> {"advance", "ahead", "resuming", "failing"},
   jump     |-> {"open", "prepare", "advance", "ahead", "resuming", "failing", "error"},
   seek     |-> {"advance", "ahead", "resuming", "failing"}]

WhereHandled == UNION {{c} \X During[c] : c \in DOMAIN During}
=============================================================================
