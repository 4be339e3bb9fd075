---------------------------- MODULE MCAuthoring ----------------------------
(***************************************************************************)
(* One album of lossless files and one package; which commands may come    *)
(* during which call, or with a draft whose files are staged, gone with    *)
(* the build ("spent") or saved in the middle of an analysis ("stuck").    *)
(***************************************************************************)
EXTENDS Authoring

\* Pairs the application handles; most of the others lose a property (see README).
During ==
  [open     |-> {"waveform", "spent"},
   reset    |-> {"waveform", "validate", "staged", "spent"},
   resume   |-> {"validate"},
   discard  |-> {"validate", "stuck"},
   quit     |-> DOMAIN Silent \cup {"staged", "spent"},
   edit     |-> {"waveform", "encode", "validate"},
   identify |-> {"validate"},
   encode   |-> {"validate"},
   generate |-> {"validate"},
   cancel   |-> {"identify", "waveform", "encode", "validate"},
   create   |-> {"validate", "staged"},
   close    |-> {"validate", "build", "staged", "spent"}]

Handled == UNION {{command} \X During[command] : command \in DOMAIN During}

\* What the theorems of Authoring_proofs ask of a set of commands.
ASSUME HandledAssumption == Handled \cap (Racing \cup Outrunning) = {}

\* No command during a task, but an encode while the waveforms are generated.
Overlapping == {<<"encode", "waveform">>, <<"encode", "validate">>}
=============================================================================
