---------------------------- MODULE WebPlayback ----------------------------
(***************************************************************************)
(* Playback in the browser: the player (player-core), the adapter          *)
(* RustPlaybackEngine, the worker that decodes, and the audio worklet that *)
(* takes blocks from the worker's ring.  Page and worker exchange messages *)
(* in order; the page's asynchronous calls go on when a reply comes, and   *)
(* are kept in the adapter's slots until then.  A handler of the page or   *)
(* of the worker runs from one await to the next in one step.              *)
(*                                                                         *)
(* Time is counted in blocks; every track is Blocks long.  The queue is    *)
(* played without shuffle, repeat and crossfade.                           *)
(***************************************************************************)
EXTENDS Integers, WebState

CONSTANTS Tracks,       \* the queue is 1..Tracks
          Blocks,       \* the length of a track
          Cap,          \* blocks the ring holds
          Broken,       \* the tracks that may not open, or be sought in
          Targets,      \* album positions users seek to
          Allowed,      \* commands that may come during what: <<command, phase>>
          MaxCommands,  \* bound on the commands of a behaviour
          MaxMail       \* bound on messages of a worker that wait for the page

ASSUME SizesAssumption == {Tracks, Blocks, MaxMail} \subseteq Nat \ {0} /\ Cap \in Nat \ {0, 1}
ASSUME TracksAssumption == Targets \subseteq 0..(Tracks * Blocks - 1) /\ Broken \subseteq 1..Tracks
ASSUME BoundsAssumption == MaxCommands \in Nat /\ Grace \in 0..Cap - 1
\* A load while the output is being made would make a second one.
ASSUME AllowedAssumption ==
  {"next", "previous", "jump", "seek"} \X {"init"} \cap Allowed = {}

vars == <<player, adapter, worker, dying, waits, output, commands>>

System == [p |-> player, a |-> adapter, w |-> worker, dying |-> dying, waits |-> waits,
           output |-> output]

Become(s) ==
  /\ player' = s.p /\ adapter' = s.a /\ worker' = s.w
  /\ dying' = s.dying /\ waits' = s.waits /\ output' = s.output

NewPlayer ==
  [index |-> 1, current |-> 0, state |-> "idle", pauseIntent |-> FALSE, pendingEnded |-> FALSE,
   eosInFlight |-> FALSE, loadingSeq |-> 0, transportSeq |-> 0, resetOffset |-> 0]

NewAdapter ==
  [sink |-> FALSE, making |-> Null, generation |-> 0, renderedBase |-> 0, rendered |-> 0,
   drained |-> FALSE, outputRunning |-> FALSE, open |-> Null, seek |-> Null, prepare |-> Null, advance |-> Null]

NewWorker ==
  [inbox |-> << >>, outbox |-> << >>, stage |-> "new", generation |-> 0,
   track |-> 0, standby |-> 0, preparing |-> {}, left |-> 0, rendered |-> 0, ring |-> 0,
   pumping |-> FALSE, primed |-> FALSE, eos |-> FALSE, starved |-> FALSE, flush |-> FALSE]

-----------------------------------------------------------------------------
(***************************************************************************)
(* The adapter's calls.  Without a worker a message goes nowhere.          *)
(***************************************************************************)
Send(s, m) == IF s.w = Null THEN s ELSE [s EXCEPT !.w.inbox = Append(@, m)]

startPumping(s) == Send(s, [type |-> "start"])
pausePumping(s) == Send(s, [type |-> "stop"])

Runs(s) == s.output \in {"running", "suspending"}   \* ctx.state is "running"

suspend(s) == IF Runs(s) THEN [s EXCEPT !.output = "suspending"] ELSE s

pauseEngine(s) == suspend([s EXCEPT !.a.outputRunning = FALSE])

\* The rest of open, once the worker before has closed and there is an output, which
\* takes from the new worker's ring from now on.  What other workers post while they
\* close is of an earlier generation, so it no longer matters.
FinishOpen(s, call) ==
  LET g == s.a.generation + 1 IN
  [s EXCEPT !.a = [@ EXCEPT !.generation = g, !.renderedBase = 0, !.rendered = 0,
                            !.drained = FALSE, !.outputRunning = FALSE, !.open = call],
            !.dying = {[d EXCEPT !.heard = FALSE] : d \in {c \in @ : c.then # Null}},
            !.w = [NewWorker EXCEPT
                     !.inbox = <<[type |-> "open", generation |-> g, track |-> call.track]>>]]

\* A pending open is rejected; what waits in the other slots is never answered.  The
\* worker is asked to close, and runs on until it does.
teardownWorker(s, call) ==
  LET t == [s EXCEPT !.w = Null,
                     !.a = [@ EXCEPT !.open = Null, !.seek = Null, !.prepare = Null,
                                     !.advance = Null],
                     !.dying = IF s.w = Null THEN @
                                ELSE @ \cup {[w |-> s.w, then |-> call, heard |-> TRUE, grace |-> Grace]}]
  IN  IF s.a.open # Null /\ s.a.open.eos THEN [t EXCEPT !.p.eosInFlight = FALSE] ELSE t

open(s, call) ==
  LET t == teardownWorker(s, call) IN
  CASE s.w # Null              -> t
    [] s.w = Null /\ s.a.sink  -> FinishOpen(t, call)
    [] s.w = Null /\ ~s.a.sink -> [t EXCEPT !.a.making = call]

-----------------------------------------------------------------------------
(***************************************************************************)
(* The player.  A call carries the loadingSeq it began under, and whether  *)
(* it is the work of onEos.                                                *)
(***************************************************************************)
Base(t) == (t - 1) * Blocks
currentIndexAt(pos) == IF pos >= Tracks * Blocks THEN Tracks ELSE pos \div Blocks + 1
albumPosition(s) == s.p.resetOffset + s.a.renderedBase + s.a.rendered

Fresh(s, call) == call.seq = s.p.loadingSeq
Ends(s, call) == IF call.eos THEN [s EXCEPT !.p.eosInFlight = FALSE] ELSE s

fail(s) == [pausePumping(s) EXCEPT !.p.state = "error"]

\* load, up to the open; at is where a seek then goes, or Null.  The first load makes the
\* output in ensureEngine, one after a failure to do so in open.
load(s, eos, at) ==
  LET seq == s.p.loadingSeq + 1 IN
  open([s EXCEPT !.p = [@ EXCEPT !.loadingSeq = seq, !.transportSeq = s.p.transportSeq + 1,
                                 !.pendingEnded = FALSE, !.state = "loading"]],
       [seq |-> seq, track |-> s.p.index, eos |-> eos, at |-> at])

Waiting(p) == IF p.pauseIntent THEN "paused" ELSE "buffering"

\* Mutant: decoding starts whether or not the user has paused.
Starts_Anyway(s, call) == Ends(IF Fresh(s, call) THEN startPumping(s) ELSE s, call)

Starts(s, call) ==
  Ends(IF Fresh(s, call) /\ ~s.p.pauseIntent THEN startPumping(s) ELSE s, call)

seekSample(s, samples, call) ==
  LET g == s.a.generation + 1 IN
  IF s.w = Null THEN Starts(s, call)
  ELSE Send([s EXCEPT !.a = [@ EXCEPT !.generation = g, !.renderedBase = 0, !.rendered = 0,
                                      !.drained = FALSE, !.seek = call]],
            [type |-> "seek", generation |-> g, at |-> samples])

\* Put the clock of the cursor's track at a sample and go there.
SeekWithin(s, samples, call) ==
  seekSample([s EXCEPT !.p = [@ EXCEPT !.resetOffset = Base(s.p.index) + samples,
                                       !.state = Waiting(s.p)]],
             samples, [call EXCEPT !.at = Null])

\* The seek was answered: decode; a seek into another track goes on after its load.
Seeked(s, call) ==
  IF call.at # Null /\ Fresh(s, call) /\ call.track = s.p.index
    THEN SeekWithin(Starts(s, call), call.at, call)
    ELSE Starts(s, call)

LoadPrepared(s, call) ==
  IF ~Fresh(s, call) THEN Ends(s, call)
  ELSE seekSample([s EXCEPT !.p = [@ EXCEPT !.resetOffset = Base(s.p.index),
                                            !.current = call.track, !.state = Waiting(s.p)]],
                  0, [seq |-> call.seq, track |-> call.track, eos |-> call.eos, at |-> call.at])

(***************************************************************************)
(* play: the promise settles when the output runs; ctx.state still says    *)
(* "running" while the output is being suspended.                          *)
(***************************************************************************)
Mine(s, call) ==
  /\ call.transport = s.p.transportSeq /\ ~s.p.pauseIntent
  /\ call.kind # "resume" => Fresh(s, call)
  /\ call.kind = "primed" => s.p.state \in {"loading", "buffering"}

\* In whatever order the calls go on, one that may show "playing" is enough.
Played(s, calls) ==
  [s EXCEPT !.p = [@ EXCEPT !.eosInFlight = s.p.eosInFlight /\ \A call \in calls : ~call.eos,
                            !.state = IF \E call \in calls : Mine(s, call)
                                        THEN "playing" ELSE s.p.state]]

play(s, kind) ==
  LET call == [kind |-> kind, seq |-> s.p.loadingSeq, transport |-> s.p.transportSeq,
               eos |-> kind = "eos"]
      t == [s EXCEPT !.a.outputRunning = TRUE]
  IN  IF Runs(s) \/ ~s.a.sink THEN Played(t, {call})
      ELSE [t EXCEPT !.output = "resuming", !.waits = @ \cup {call}]

EosPrepared(s, call) ==
  LET t == [s EXCEPT !.p = [@ EXCEPT !.current = call.track,
                              !.state = IF s.p.state = "paused" THEN "paused" ELSE Waiting(s.p)]]
  IN  CASE ~Fresh(s, call)                      -> Ends(s, call)
        [] Fresh(s, call) /\ s.p.pauseIntent  -> Ends(t, call)
        [] Fresh(s, call) /\ ~s.p.pauseIntent -> play(startPumping(t), "eos")

\* prepareNext's reply; the call knows who asked.
Prepared(s, call) == IF call.who = "load" THEN LoadPrepared(s, call) ELSE EosPrepared(s, call)

\* Prepare the successor of the cursor, if there is one, and go on.
Preload(s, call) ==
  IF s.p.index = Tracks \/ s.w = Null THEN Prepared(s, call)
  ELSE Send([s EXCEPT !.a.prepare = [call EXCEPT !.generation = s.a.generation]],
            [type |-> "prepare", generation |-> s.a.generation, track |-> s.p.index + 1])

Preloading(who, call, at) ==
  [who |-> who, seq |-> call.seq, track |-> call.track, eos |-> call.eos, at |-> at,
   generation |-> 0]

Opened(s, call) ==
  IF Fresh(s, call) THEN Preload(s, Preloading("load", call, call.at)) ELSE Ends(s, call)

-----------------------------------------------------------------------------
(***************************************************************************)
(* The player's handlers of engine events.                                 *)
(***************************************************************************)
\* Mutant: the clock moves the cursor while a load is under way.
CatchesUp_Always(s) ==
  ~s.p.pendingEnded /\ ~s.p.eosInFlight /\ currentIndexAt(albumPosition(s)) > s.p.index

CatchesUp(s) ==
  /\ s.p.state = "playing" /\ ~s.p.pendingEnded /\ ~s.p.eosInFlight
  /\ currentIndexAt(albumPosition(s)) > s.p.index

tick(s) ==
  LET t == IF CatchesUp(s) THEN [s EXCEPT !.p.index = @ + 1] ELSE s
      ended == t.p.pendingEnded /\ (albumPosition(s) >= Tracks * Blocks \/ s.a.drained)
  IN  IF ended
        THEN pausePumping(pauseEngine([t EXCEPT !.p.state = "ended", !.p.pendingEnded = FALSE]))
        ELSE t


EosAdvanced(s, call, info) ==
  LET onward == [s EXCEPT !.p.index = @ + 1] IN
  CASE ~Fresh(s, call) \/ s.p.pauseIntent -> Ends(s, call)
    [] Fresh(s, call) /\ ~s.p.pauseIntent /\ s.p.index = Tracks ->
         Ends(tick(pausePumping([s EXCEPT !.p.pendingEnded = TRUE])), call)
    [] OTHER ->
         IF info = 0 \/ call.track # onward.p.index THEN load(onward, TRUE, Null)
         ELSE Preload(onward, Preloading("eos", call, Null))

\* onEos, up to the advance to what follows now.
onEos(s) ==
  LET call == [seq |-> s.p.loadingSeq, eos |-> TRUE, generation |-> s.a.generation,
               track |-> IF s.p.index = Tracks THEN 0 ELSE s.p.index + 1]
      t == [s EXCEPT !.p.eosInFlight = TRUE]
  IN  CASE s.p.pauseIntent -> Ends(t, call)
        [] ~s.p.pauseIntent /\ s.w = Null -> EosAdvanced(t, call, 0)
        [] OTHER -> Send([t EXCEPT !.a.advance = call], [type |-> "advance", expected |-> call.track])

onPrimed(s) == IF s.p.state \in {"loading", "buffering"} THEN play(s, "primed") ELSE s

onBuffering(s) ==
  IF s.p.state \in {"loading", "buffering", "playing"} THEN [s EXCEPT !.p.state = "buffering"] ELSE s

-----------------------------------------------------------------------------
(***************************************************************************)
(* Messages of a worker to the adapter.  Those of an obsolete generation   *)
(* are dropped; a reply goes to the call in its slot, if they agree.       *)
(***************************************************************************)
Answers(call, m) == call # Null /\ call.generation = m.generation

Answered(s, m) ==
  CASE m.type = "opened" /\ s.a.open # Null -> Opened([s EXCEPT !.a.open = Null], s.a.open)
    [] m.type = "seeked" ->
         LET t == [s EXCEPT !.a = [@ EXCEPT !.seek = Null, !.renderedBase = 0, !.rendered = 0]]
         IN  IF s.a.seek = Null THEN t ELSE Seeked(t, s.a.seek)
    [] m.type = "prepared" ->
         LET t == [s EXCEPT !.a.prepare = Null]
         IN  IF Answers(s.a.prepare, m) THEN Prepared(t, s.a.prepare) ELSE t
    [] m.type = "advanced" ->
         LET t == [s EXCEPT !.a.advance = Null]
             u == IF m.info = 0 THEN t
                  ELSE [t EXCEPT !.a = [@ EXCEPT !.renderedBase = s.a.renderedBase + s.a.rendered,
                                                 !.rendered = 0, !.drained = FALSE]]
         IN  IF Answers(s.a.advance, m) THEN EosAdvanced(u, s.a.advance, m.info) ELSE u
    [] m.type = "rendered"  -> tick([s EXCEPT !.a.rendered = m.info])
    [] m.type = "primed"    -> onPrimed([s EXCEPT !.a.drained = FALSE])
    [] m.type = "buffering" -> onBuffering(s)
    [] m.type = "eos"       -> onEos([s EXCEPT !.a.drained = TRUE])
    [] m.type = "error"     -> fail([teardownWorker(s, Null) EXCEPT !.a.drained = FALSE])
    [] OTHER -> s

onWorkerMessage(s, m) == IF m.generation # s.a.generation THEN s ELSE Answered(s, m)

\* The page takes the next message of its worker ...
PageReceives ==
  /\ worker # Null /\ worker.outbox # << >>
  /\ LET taken == [System EXCEPT !.w.outbox = Tail(@)]
     IN  Become(onWorkerMessage(taken, Head(worker.outbox)))
  /\ UNCHANGED commands

\* ... and those of a worker it has asked to close, until that has closed.
DyingReceives ==
  \E d \in dying :
    /\ d.w.outbox # << >>
    /\ LET taken == [System EXCEPT !.dying = (@ \ {d}) \cup {[d EXCEPT !.w.outbox = Tail(@)]}]
       IN  Become(onWorkerMessage(taken, Head(d.w.outbox)))
    /\ UNCHANGED commands

\* It closes, or its time is up; the open that waited goes on.
WorkerCloses ==
  \E d \in dying :
    /\ LET gone == [System EXCEPT !.dying = @ \ {d}]
       IN  Become(IF d.then = Null THEN gone ELSE FinishOpen(gone, d.then))
    /\ UNCHANGED commands

\* makeSink ends: the new context starts by itself, if the browser lets it, or fails.
SinkIsMade ==
  /\ adapter.making # Null
  /\ \E state \in {"resuming", "suspended"} :
       Become(FinishOpen([System EXCEPT !.a.sink = TRUE, !.a.making = Null, !.output = state],
                         adapter.making))
  /\ UNCHANGED commands

SinkFails ==
  /\ adapter.making # Null
  /\ Become(fail([System EXCEPT !.a.making = Null]))
  /\ UNCHANGED commands

SeekTimesOut ==
  /\ adapter.seek # Null
  /\ Become(Seeked([System EXCEPT !.a.seek = Null], adapter.seek))
  /\ UNCHANGED commands

TickTimer ==
  /\ adapter.outputRunning /\ worker # Null
  /\ Become(tick(System))
  /\ UNCHANGED commands

-----------------------------------------------------------------------------
(***************************************************************************)
(* The worker: one command, the end of an asynchronous one, or one round   *)
(* of the pump.  Each operator is the set of states it may leave it in.    *)
(***************************************************************************)
Message(type, info, generation) == [type |-> type, info |-> info, generation |-> generation]

PostFor(w, m) == [w EXCEPT !.outbox = Append(@, m)]

Post(w, type, info) == PostFor(w, Message(type, info, w.generation))

\* The decoder skips to the sample anew, unless it has yet to begin; that may fail.
SeekIn(w, m) ==
  LET v == [w EXCEPT !.generation = m.generation, !.pumping = FALSE, !.primed = FALSE,
                     !.eos = FALSE]
  IN  {Post([v EXCEPT !.left = Blocks - m.at, !.rendered = 0, !.ring = 0, !.starved = FALSE,
                      !.flush = TRUE],
            "seeked", 0)} \cup
      IF w.track \notin Broken \/ (m.at = 0 /\ w.rendered = 0) THEN {} ELSE {Post(v, "error", 0)}

Advanced(w, m) ==
  IF w.standby = 0 \/ w.standby # m.expected THEN Post(w, "advanced", 0)
  ELSE Post([w EXCEPT !.track = w.standby, !.standby = 0, !.left = Blocks, !.rendered = 0,
                      !.primed = FALSE, !.eos = FALSE],
            "advanced", w.standby)

handleCommand(w, m) ==
  LET ready == w.stage = "ready" IN
  CASE m.type = "open"  -> {[w EXCEPT !.stage = "opening", !.generation = m.generation,
                                      !.track = m.track, !.starved = FALSE]}
    [] m.type = "start" -> {[w EXCEPT !.pumping = TRUE]}
    [] m.type = "stop"  -> {[w EXCEPT !.pumping = FALSE]}
    [] m.type = "seek"  -> IF ready THEN SeekIn(w, m) ELSE {w}
    [] m.type = "prepare" -> {IF ready THEN [w EXCEPT !.preparing = @ \cup {m}]
                              ELSE Post(w, "prepared", 0)}
    [] m.type = "advance" -> {IF ready THEN Advanced(w, m) ELSE Post(w, "advanced", 0)}

Handles(w) ==
  IF w.inbox = << >> THEN {}
  ELSE handleCommand([w EXCEPT !.inbox = Tail(@)], Head(w.inbox))

\* Mutant: a track that does not open is not reported.
OpenEnds_Silent(w) ==
  IF w.stage # "opening" THEN {}
  ELSE {Post([w EXCEPT !.stage = "ready", !.left = Blocks], "opened", 0)} \cup
       IF w.track \notin Broken THEN {} ELSE {[w EXCEPT !.stage = "failed"]}

OpenEnds(w) ==
  IF w.stage # "opening" THEN {}
  ELSE {Post([w EXCEPT !.stage = "ready", !.left = Blocks], "opened", 0)} \cup
       IF w.track \notin Broken THEN {}
       ELSE {Post([w EXCEPT !.stage = "failed"], "error", 0)}

\* A broken track's source may not open, which is an error, or its stream is refused.
PrepareEnds(w) ==
  UNION {LET v == [w EXCEPT !.preparing = @ \ {m}]
             reply(t) == Post([v EXCEPT !.standby = t], "prepared", t)
         IN  {reply(m.track)} \cup
             IF m.track \notin Broken THEN {}
             ELSE {reply(0), PostFor(v, Message("error", 0, m.generation))} :
         m \in w.preparing}

\* An underrun is noticed; then either the end is, or a block is rendered if there is room.
Noticed(w) ==
  IF w.starved THEN Post([w EXCEPT !.starved = FALSE, !.primed = FALSE], "buffering", 0)
  ELSE w

Rendered(w) ==
  LET full == w.ring + 1 >= Cap - 1
      v == [w EXCEPT !.left = @ - 1, !.ring = @ + 1, !.rendered = @ + 1]
      u == IF ~w.primed /\ full THEN Post([v EXCEPT !.primed = TRUE], "primed", 0) ELSE v
  IN  {u, Post(u, "rendered", u.rendered)}

pumpLoop(w) ==
  LET n == Noticed(w) IN
  IF w.stage # "ready" \/ Len(w.outbox) >= MaxMail THEN {}
  ELSE CASE w.pumping /\ w.left = 0 /\ w.ring = 0 /\ ~w.eos ->
              {Post([n EXCEPT !.eos = TRUE], "eos", 0)}
         [] w.pumping /\ w.left > 0 /\ w.ring < Cap -> Rendered(n)
         [] OTHER -> {n} \ {w}

Works(results) ==
  /\ worker' \in results
  /\ UNCHANGED <<player, adapter, dying, waits, output, commands>>

\* A worker that has been asked to close does what it would do otherwise until it has
\* handled that, which is no later than it closes.
Replace(d, changed) ==
  /\ dying' = (dying \ {d}) \cup {changed}
  /\ UNCHANGED <<player, adapter, worker, waits, output, commands>>

DyingWorks ==
  \E d \in dying : \E w \in Handles(d.w) \cup OpenEnds(d.w) \cup PrepareEnds(d.w) \cup pumpLoop(d.w) :
    Replace(d, [d EXCEPT !.w = w])

WorkerHandles   == worker # Null /\ Works(Handles(worker))
OpenCompletes   == worker # Null /\ Works(OpenEnds(worker))
PrepareCompletes == worker # Null /\ Works(PrepareEnds(worker))
Pumps           == worker # Null /\ Works(pumpLoop(worker))

-----------------------------------------------------------------------------
(***************************************************************************)
(* The sink takes a block, finds none, or drops the ring when it sees that *)
(* the generation changed.  The output follows resume and suspend.         *)
(***************************************************************************)
Sounding(w) == IF w.flush \/ w.ring = 0 THEN {} ELSE {[w EXCEPT !.ring = @ - 1]}
Starving(w) == IF w.flush \/ w.ring > 0 THEN {} ELSE {[w EXCEPT !.starved = TRUE]}
Flushing(w) == IF w.flush THEN {[w EXCEPT !.ring = 0, !.flush = FALSE]} ELSE {}

Sounds  == worker # Null /\ Runs(System) /\ Works(Sounding(worker))
Starves == worker # Null /\ Runs(System) /\ Works(Starving(worker))
Flushes == worker # Null /\ Runs(System) /\ Works(Flushing(worker))

\* The ring of a worker that closes is heard until the next one is attached.
DyingIsHeard ==
  \E d \in dying :
    /\ Runs(System) /\ d.heard
    /\ \/ d.grace > 0 /\ \E w \in Sounding(d.w) : Replace(d, [d EXCEPT !.w = w, !.grace = @ - 1])
       \/ \E w \in Starving(d.w) \cup Flushing(d.w) : Replace(d, [d EXCEPT !.w = w])

Resumes ==
  /\ output = "resuming"
  /\ Become(Played([System EXCEPT !.output = "running", !.waits = {}], waits))
  /\ UNCHANGED commands

Suspends ==
  /\ output = "suspending"
  /\ output' = "suspended"
  /\ UNCHANGED <<player, adapter, worker, dying, waits, commands>>

-----------------------------------------------------------------------------
(***************************************************************************)
(* Commands of the user, each when Allowed during all that goes on.        *)
(***************************************************************************)
Commanded(c, s) ==
  /\ commands < MaxCommands
  /\ {c} \X Phases \subseteq Allowed
  /\ Become(s)
  /\ commands' = commands + 1

pause(s) ==
  pauseEngine(pausePumping([s EXCEPT !.p = [@ EXCEPT !.transportSeq = s.p.transportSeq + 1,
                                                     !.pauseIntent = TRUE, !.state = "paused"]]))

resume(s) ==
  play(startPumping([s EXCEPT !.p = [@ EXCEPT !.transportSeq = s.p.transportSeq + 1,
                                              !.pauseIntent = FALSE]]),
       "resume")

togglePlay(s) ==
  CASE s.p.state = "playing" -> pause(s)
    [] s.p.state \in {"paused", "loading", "buffering"} -> resume(s)
    [] OTHER -> IF s.p.current = 0 THEN s
                ELSE load([s EXCEPT !.p.pauseIntent = FALSE], FALSE, Null)

Pause  == Commanded("pause", pause(System))
Toggle == Commanded("toggle", togglePlay(System))

Superseded(s) == [s EXCEPT !.p.loadingSeq = @ + 1]

NextTrack ==
  Commanded("next",
    LET s == Superseded(System)
    IN  IF player.index = Tracks THEN s ELSE load([s EXCEPT !.p.index = @ + 1], FALSE, Null))

\* previous, early in a track, goes to wherever the queue's history says, if anywhere.
Early(s) == s.p.current = 0 \/ albumPosition(s) <= Base(s.p.index)

Previous ==
  /\ Early(System)
  /\ LET s == Superseded(System)
     IN  \/ player.index = 1 /\ Commanded("previous", s)
         \/ \E i \in (1..Tracks) \ {player.index} :
              Commanded("previous", load([s EXCEPT !.p.index = i], FALSE, Null))

Reposition(s) ==
  [s EXCEPT !.p = [@ EXCEPT !.transportSeq = s.p.transportSeq + 1,
                            !.loadingSeq = s.p.loadingSeq + 1]]

CommandCall(s) == [seq |-> s.p.loadingSeq, track |-> s.p.index, eos |-> FALSE, at |-> Null]

\* Later in a track previous restarts it.
Restart ==
  /\ ~Early(System)
  /\ LET s == Reposition(System) IN Commanded("previous", SeekWithin(s, 0, CommandCall(s)))

playQueueIndex ==
  \E i \in (1..Tracks) \ {player.index} :
    Commanded("jump", load([System EXCEPT !.p = [@ EXCEPT !.pauseIntent = FALSE, !.index = i]],
                           FALSE, Null))

Seek ==
  \E to \in Targets :
    /\ player.current # 0
    /\ LET s == Reposition(System)
           i == currentIndexAt(to)
       IN  Commanded("seek",
             IF i = player.index THEN SeekWithin(s, to - Base(i), CommandCall(s))
             ELSE load([s EXCEPT !.p.index = i], FALSE, to - Base(i)))

-----------------------------------------------------------------------------
\* The queue has just been given to the player: playSequence.
Init ==
  LET s == load([p |-> NewPlayer, a |-> NewAdapter, w |-> Null, dying |-> {}, waits |-> {},
                 output |-> "suspended"], FALSE, Null)
  IN  /\ player = s.p /\ adapter = s.a /\ worker = s.w /\ dying = s.dying /\ waits = s.waits
      /\ output = s.output /\ commands = 0

Command == Pause \/ Toggle \/ NextTrack \/ Previous \/ Restart \/ playQueueIndex \/ Seek

Next ==
  \/ Command
  \/ PageReceives \/ DyingReceives \/ WorkerCloses \/ SinkIsMade \/ SinkFails
  \/ SeekTimesOut \/ TickTimer
  \/ WorkerHandles \/ OpenCompletes \/ PrepareCompletes \/ Pumps \/ DyingWorks
  \/ Sounds \/ Starves \/ Flushes \/ DyingIsHeard \/ Resumes \/ Suspends

Spec == Init /\ [][Next]_vars

\* Every thread runs on and closes or answers in time; users may stop, and the
\* sink need not run dry, be quick or be asked.
Fairness ==
  /\ WF_vars(PageReceives) /\ WF_vars(WorkerCloses) /\ WF_vars(SinkIsMade \/ SinkFails)
  /\ WF_vars(WorkerHandles) /\ WF_vars(OpenCompletes) /\ WF_vars(PrepareCompletes)
  /\ WF_vars(Pumps) /\ WF_vars(Sounds) /\ WF_vars(Flushes) /\ WF_vars(Resumes) /\ WF_vars(Suspends)

FairSpec == Spec /\ Fairness

-----------------------------------------------------------------------------
(***************************************************************************)
(* Left alone, the player comes to the end of the queue, unless the user   *)
(* paused it or a track failed.                                            *)
(***************************************************************************)
Settles == <>[](player.state \in {"paused", "ended", "error"})
=============================================================================
